---------------------------- MODULE MailboxProofs ---------------------------
(* The mailbox's lock bits keep two writers apart, for any number of       *)
(* callers, requests and control messages and with waits that may end at   *)
(* any moment, as long as every caller holds mbx_lock.  What a patient     *)
(* caller then takes for its reply is its reply, and the mailbox           *)
(* implements the exchange of Exchange.                                    *)
EXTENDS MailboxExchange, TLAPS

\* The registers start unlocked and nobody is using the mailbox.
LEMMA LockInit == Init => LockInv
BY DEF Init, LockInv, VfOwns, PfOwns, Labels

\* A step of one of the VF's callers.
LEMMA LockVf ==
  ASSUME Unlocked = {}, LockInv, NEW t \in Threads,
         VfCall(t) \/ VfLinkRead(t) \/ VfStep(t)
  PROVE  LockInv'
<1> USE DEF legacy, LockInv, Labels, VfOwns, PfOwns, Goto, bits, buffer, pfVars
<1>1. CASE VfCall(t)
  BY <1>1, MailboxAssumption DEF VfCall, Enter
<1>2. CASE VfLinkRead(t)
  BY <1>2, MailboxAssumption DEF VfLinkRead, Enter
<1>3. CASE VfLockRead(t)
  BY <1>3 DEF VfLockRead
<1>4. CASE VfLockSet(t)
  BY <1>4 DEF VfLockSet
<1>5. CASE VfFlush(t)
  BY <1>5 DEF VfFlush, Flushed
<1>6. CASE VfWriteHeader(t)
  BY <1>6 DEF VfWriteHeader
<1>7. CASE VfWritePayload(t)
  BY <1>7 DEF VfWritePayload
<1>8. CASE VfKick(t)
  BY <1>8 DEF VfKick
<1>9. CASE VfRelease(t)
  BY <1>9 DEF VfRelease
<1>10. CASE VfAck(t)
  BY <1>10 DEF VfAck
<1>11. CASE VfMsg(t)
  BY <1>11 DEF VfMsg
<1>12. CASE VfReadCheck(t)
  BY <1>12 DEF VfReadCheck
<1>13. CASE VfReadHeader(t)
  BY <1>13 DEF VfReadHeader
<1>14. CASE VfReadPayload(t)
  BY <1>14 DEF VfReadPayload
<1>15. CASE VfSendAck(t)
  BY <1>15 DEF VfSendAck
<1>16. CASE VfTimeout(t)
  BY <1>16 DEF VfTimeout
<1>17. CASE VfReturn(t)
  BY <1>17 DEF VfReturn
<1> QED
  BY <1>1, <1>2, <1>3, <1>4, <1>5, <1>6, <1>7, <1>8, <1>9, <1>10, <1>11, <1>12,
     <1>13, <1>14, <1>15, <1>16, <1>17 DEF VfStep

\* A step of the PF.
LEMMA LockPf ==
  ASSUME LockInv, PfPing \/ PfStep
  PROVE  LockInv'
<1> USE DEF legacy, LockInv, Labels, VfOwns, PfOwns, buffer, vfVars
<1>1. CASE PfPing
  BY <1>1 DEF PfPing, bits
<1>2. CASE PfRequest
  BY <1>2 DEF PfRequest
<1>3. CASE PfLockRead
  BY <1>3 DEF PfLockRead, bits
<1>4. CASE PfLockSet
  BY <1>4 DEF PfLockSet
<1>5. CASE PfReadHeader
  BY <1>5 DEF PfReadHeader, bits
<1>6. CASE PfReadPayload
  BY <1>6 DEF PfReadPayload, bits
<1>7. CASE PfServe
  BY <1>7 DEF PfServe
<1>8. CASE PfFlush
  BY <1>8 DEF PfFlush
<1>9. CASE PfWriteHeader
  BY <1>9 DEF PfWriteHeader, bits
<1>10. CASE PfWritePayload
  BY <1>10 DEF PfWritePayload, bits
<1>11. CASE PfKick
  BY <1>11 DEF PfKick
<1>12. CASE PfRelease
  BY <1>12 DEF PfRelease
<1>13. CASE PfAck
  BY <1>13 DEF PfAck
<1>14. CASE PfTimeout
  BY <1>14 DEF PfTimeout, bits
<1> QED
  BY <1>1, <1>2, <1>3, <1>4, <1>5, <1>6, <1>7, <1>8, <1>9, <1>10, <1>11, <1>12,
     <1>13, <1>14 DEF PfStep

\* If every caller holds mbx_lock, ixgbe_obtain_mbx_lock_vf and _pf let one writer at
\* a time have the buffer.
THEOREM BufferLocked ==
  ASSUME Unlocked = {}
  PROVE  Spec => []BufferExclusive
<1>1. Init => LockInv
  BY LockInit
<1>2. LockInv /\ [Next]_vars => LockInv'
  <2>1. SUFFICES ASSUME LockInv, [Next]_vars PROVE LockInv'
    OBVIOUS
  <2>2. CASE Vf
    BY <2>1, <2>2, LockVf DEF Vf
  <2>3. CASE PfPing \/ PfStep
    BY <2>1, <2>3, LockPf
  <2>4. CASE UNCHANGED vars
    BY <2>1, <2>4 DEF legacy, LockInv, VfOwns, PfOwns, vars, bits, vfVars, pfVars
  <2> QED
    BY <2>1, <2>2, <2>3, <2>4 DEF Next
<1>3. LockInv => BufferExclusive
  BY DEF LockInv, BufferExclusive, VfOwns
<1> QED
  BY <1>1, <1>2, <1>3, PTL DEF Spec

-----------------------------------------------------------------------------
(* What a caller takes for an acknowledgement, or for a reply, is one.     *)

\* Requests are numbered in order, and every message has the number of one.
NumberInv ==
  /\ \A t \in Threads : n[t] < next /\ (pc[t] = "idle" => n[t] = 0)
  /\ \A t \in Threads :
       pc[t] \in {"lock", "lockset", "flush", "w0", "w1", "kick", "release", "ackwait", "msgwait",
                  "r1"} => n[t] # 0
  /\ hdr.n < next /\ phdr.n < next /\ pout.n < next
  /\ (hdr.kind = "req" => hdr.n # 0) /\ (phdr.kind = "req" => phdr.n # 0)
  /\ pout.kind # "req"
  /\ \A k \in taken : k < next

\* What the PF reads as the payload of a request was written by a caller.
PayloadInv ==
  /\ req \/ ppc \in {"rlock", "rlockset", "r0", "r1"} => pay <= MaxReq
  /\ ppc \in {"w0", "w1", "kick", "release"} => ~req
  /\ \A t \in Threads : pc[t] = "kick" => pay <= MaxReq

\* Control messages are sent only where the mode has them
PingInv ==
  /\ hdr.kind = "ping" \/ pout.kind = "ping" => mode.pings
  /\ \A t \in Threads : rhdr[t].kind = "ping" => mode.pings

\* no wait ends early, and a reader holds the buffer if control messages may cross
Patient == ~mode.early /\ (mode.pings => legacy)

\* The request is out, and its reply not taken.
Waiting(t) ==
  n[t] # 0 /\ pc[t] \in {"release", "ackwait", "msgwait", "rcheck", "rlock", "rlockset", "r0", "r1",
                         "sendack"}
Writing(t) == pc[t] \in {"w0", "w1", "kick"}

\* The PF has nothing to do with a request:
Pinging == pout.kind = "ping" /\ ppc \in {"lock", "lockset", "flush", "w0", "kick"}

Quiet == IF legacy THEN ppc = "idle" \/ Pinging
                   ELSE ppc = "idle" \/ (ppc \in {"release", "ackwait"} /\ vack)

InBuffer(k) == hdr = Msg("req", k) /\ pay = k

\* The stages of request k: it waits,
Asked(k) ==
  /\ req /\ ~sts /\ ~ack /\ InBuffer(k)
  /\ Quiet /\ ppc \notin {"w0", "kick"}
\* or has been wiped out by a control message,
Wiped ==
  /\ ~req /\ ~sts /\ Pinging /\ ppc \in {"w0", "kick"} /\ legacy
  /\ ppc = "kick" => hdr.kind = "ping"
\* or the PF reads it,
Reading(k) ==
  /\ ~sts /\ ~ack /\ InBuffer(k)
  /\ req = legacy
  /\ ppc \in {"r0", "r1", "sendack"} \/ (legacy /\ ppc \in {"rlock", "rlockset"})
  /\ ppc \in {"r1", "sendack"} => phdr = Msg("req", k)
  /\ ppc = "sendack" => ppay = k
\* writes the reply,
Replying(k) ==
  /\ ~sts /\ k \in taken /\ pout = Msg("rep", k)
  /\ ppc \in {"lock", "lockset", "flush", "w0", "w1", "kick"}
  /\ ~legacy \/ ppc \in {"w0", "w1", "kick"} => ~req
  /\ ppc \in {"w0", "w1", "kick"} => ~vack
  /\ ppc \in {"w1", "kick"} => hdr = pout
  /\ ppc = "kick" => pay = Answer(k)
\* or has written it
Whole(k, h, p) ==
  (legacy /\ h.kind = "ping") \/ (h = Msg("rep", k) /\ p = Answer(k) /\ k \in taken)
Replied(k) ==
  /\ ~req
  /\ IF legacy THEN Quiet ELSE ppc \in {"release", "ackwait"} /\ ~vack

\* nobody is waiting
Idle == \A t \in Threads : ~Waiting(t)

\* between two exchanges
Rest == Quiet /\ ~req /\ (~legacy => ~sts /\ ~ack)

\* how far the exchange of caller t has got, from what it is doing
Held(t) ==
  /\ Writing(t) => ~sts /\ ~ack
  /\ pc[t] \in {"w1", "kick"} => hdr = Msg("req", n[t])
  /\ pc[t] = "kick" => pay = n[t]
  /\ pc[t] = "return" => n[t] = 0 \/ mode.pings
  /\ Waiting(t) => pc[t] \notin IF legacy THEN {"release", "ackwait"} ELSE {"rlock", "rlockset"}
  /\ pc[t] \in {"release", "ackwait"} =>
       \/ Asked(n[t]) \/ Reading(n[t])
       \/ Replying(n[t]) /\ ack
       \/ Replied(n[t]) /\ ack /\ sts /\ Whole(n[t], hdr, pay)
  /\ pc[t] = "msgwait" =>
       \/ legacy /\ (Asked(n[t]) \/ Wiped \/ Reading(n[t]))
       \/ Replying(n[t]) /\ (~legacy => ~ack)
       \/ Replied(n[t]) /\ sts /\ Whole(n[t], hdr, pay) /\ (~legacy => ~ack)
  /\ pc[t] \in {"rcheck", "rlock", "rlockset", "r0"} /\ n[t] # 0 =>
       Replied(n[t]) /\ Whole(n[t], hdr, pay) /\ (~legacy => sts = (pc[t] = "rcheck") /\ ~ack)
  /\ pc[t] = "r1" => Replied(n[t]) /\ Whole(n[t], rhdr[t], pay) /\ (~legacy => ~sts /\ ~ack)
  /\ pc[t] = "sendack" /\ n[t] # 0 =>
       Replied(n[t]) /\ Whole(n[t], rhdr[t], rpay[t]) /\ (~legacy => ~sts /\ ~ack)
  /\ pc[t] = "done" /\ n[t] # 0 => Whole(n[t], rhdr[t], rpay[t])

\* The protocol invariant of the exchange.
PatientInv == (Idle => Rest) /\ \A t \in Threads : Held(t)

\* TypeOK, with the bits one by one.
TypeParts ==
  /\ vfu \in BOOLEAN /\ pfu \in BOOLEAN /\ sts \in BOOLEAN /\ ack \in BOOLEAN
  /\ req \in BOOLEAN /\ vack \in BOOLEAN
  /\ mode \in Mode /\ hdr \in Word /\ pay \in 0 .. 2 * MaxReq
  /\ mlock \in Threads \cup {None} /\ next \in 1 .. MaxReq + 1
  /\ pc \in [Threads -> Labels]
  /\ n \in [Threads -> 0 .. MaxReq]
  /\ rhdr \in [Threads -> Word] /\ rpay \in [Threads -> 0 .. 2 * MaxReq]
  /\ ppc \in {"idle", "rlock", "rlockset", "r0", "r1", "sendack", "lock", "lockset", "flush",
              "w0", "w1", "kick", "release", "ackwait"}
  /\ phdr \in Word /\ ppay \in 0 .. MaxReq /\ pout \in Word
  /\ taken \subseteq 1 .. MaxReq

\* It is TypeOK.
LEMMA TypeSplit == TypeOK <=> TypeParts
<1>1. TypeOK => TypeParts
  BY Zenon DEF TypeOK, TypeParts
<1>2. TypeParts => TypeOK
  BY DEF TypeOK, TypeParts
<1> QED BY <1>1, <1>2

\* Types: the PF never reads a payload of its own, whatever times out.
LEMMA TypeVf ==
  ASSUME TypeParts, NumberInv, PayloadInv, NEW t \in Threads,
         VfCall(t) \/ VfLinkRead(t) \/ VfStep(t)
  PROVE  TypeParts'
<1> USE MailboxAssumption
    DEF TypeParts, Word, Msg, NoMsg, Labels, Answer, bits, buffer, vfVars, pfVars, legacy, Goto
<1>1. CASE VfCall(t)
  BY <1>1 DEF VfCall, Enter
<1>2. CASE VfLinkRead(t)
  BY <1>2 DEF VfLinkRead, Enter
<1>3. CASE VfLockRead(t)
  BY <1>3 DEF VfLockRead, BufferFree
<1>4. CASE VfLockSet(t)
  BY <1>4 DEF VfLockSet
<1>5. CASE VfFlush(t)
  <2>1. sts' \in BOOLEAN /\ ack' \in BOOLEAN
    BY Zenon, <1>5 DEF VfFlush, Flushed
  <2> QED BY <1>5, <2>1 DEF VfFlush, Flushed
<1>6. CASE VfWriteHeader(t)
  BY <1>6 DEF VfWriteHeader
<1>7. CASE VfWritePayload(t)
  BY <1>7 DEF VfWritePayload
<1>8. CASE VfKick(t)
  <2>1. req' \in BOOLEAN /\ vfu' \in BOOLEAN
    BY Zenon, <1>8 DEF VfKick
  <2>2. pc' \in [Threads -> Labels]
    BY <1>8 DEF VfKick
  <2>3. UNCHANGED <<mode, pfu, sts, ack, vack, buffer, mlock, n, rhdr, rpay, next, pfVars>>
    BY <1>8 DEF VfKick
  <2> QED BY <2>1, <2>2, <2>3
<1>9. CASE VfRelease(t)
  <2>1. vfu' \in BOOLEAN
    BY Zenon, <1>9 DEF VfRelease
  <2> QED BY <1>9, <2>1 DEF VfRelease
<1>10. CASE VfAck(t)
  <2>1. ack' \in BOOLEAN
    BY Zenon, <1>10 DEF VfAck
  <2> QED BY <1>10, <2>1 DEF VfAck
<1>11. CASE VfMsg(t)
  BY <1>11 DEF VfMsg
<1>12. CASE VfReadCheck(t)
  <2>1. sts' \in BOOLEAN
    BY Zenon, <1>12 DEF VfReadCheck
  <2> QED BY <1>12, <2>1 DEF VfReadCheck
<1>13. CASE VfReadHeader(t)
  BY <1>13 DEF VfReadHeader
<1>14. CASE VfReadPayload(t)
  BY <1>14 DEF VfReadPayload
<1>15. CASE VfSendAck(t)
  <2>1. vack' \in BOOLEAN /\ vfu' \in BOOLEAN
    BY Zenon, <1>15 DEF VfSendAck
  <2>2. pc' \in [Threads -> Labels]
    BY <1>15 DEF VfSendAck
  <2>3. UNCHANGED <<mode, pfu, sts, ack, req, buffer, mlock, n, rhdr, rpay, next, pfVars>>
    BY <1>15 DEF VfSendAck
  <2> QED BY <2>1, <2>2, <2>3
<1>16. CASE VfTimeout(t)
  BY <1>16 DEF VfTimeout
<1>17. CASE VfReturn(t)
  BY <1>17 DEF VfReturn
<1> QED
  BY <1>1, <1>2, <1>3, <1>4, <1>5, <1>6, <1>7, <1>8, <1>9, <1>10, <1>11, <1>12,
     <1>13, <1>14, <1>15, <1>16, <1>17 DEF VfStep

\* Types: the PF never reads a payload of its own, whatever times out.
LEMMA TypePf ==
  ASSUME TypeParts, NumberInv, PayloadInv,
         PfPing \/ PfStep
  PROVE  TypeParts'
<1> USE MailboxAssumption
    DEF TypeParts, Word, Msg, NoMsg, Labels, Answer, bits, buffer, vfVars, pfVars, legacy, Goto
<1>1. CASE PfPing
  BY <1>1 DEF PfPing
<1>2. CASE PfRequest
  BY <1>2 DEF PfRequest
<1>3. CASE PfLockRead
  BY <1>3 DEF PfLockRead, BufferFree
<1>4. CASE PfLockSet
  BY <1>4 DEF PfLockSet
<1>5. CASE PfReadHeader
  BY <1>5 DEF PfReadHeader
<1>6. CASE PfReadPayload
  BY <1>6 DEF PfReadPayload, PayloadInv
<1>7. CASE PfServe
  <2>1. ack' \in BOOLEAN /\ pfu' \in BOOLEAN
    BY Zenon, <1>7 DEF PfServe
  <2>2. taken' \subseteq 1 .. MaxReq
    <3>1. phdr.kind = "req" /\ phdr.n = ppay => ppay \in 1 .. MaxReq
      BY DEF NumberInv
    <3>2. taken' = taken \/ (taken' = taken \cup {ppay} /\ ppay \in 1 .. MaxReq)
      BY <1>7, <3>1 DEF PfServe
    <3> QED BY <3>2
  <2>3. ppc' = "lock" /\ pout' \in Word /\ phdr' \in Word /\ ppay' = 0
    BY <1>7 DEF PfServe
  <2>4. UNCHANGED <<mode, vfu, sts, req, vack, buffer, vfVars>>
    BY <1>7 DEF PfServe
  <2> QED BY <2>1, <2>2, <2>3, <2>4
<1>8. CASE PfFlush
  <2>1. req' \in BOOLEAN /\ vack' \in BOOLEAN
    BY Zenon, <1>8 DEF PfFlush
  <2> QED BY <1>8, <2>1 DEF PfFlush
<1>9. CASE PfWriteHeader
  BY <1>9 DEF PfWriteHeader
<1>10. CASE PfWritePayload
  BY <1>10 DEF PfWritePayload
<1>11. CASE PfKick
  <2>1. sts' \in BOOLEAN /\ pfu' \in BOOLEAN
    BY Zenon, <1>11 DEF PfKick
  <2>2. ppc' \in {"idle", "release"} /\ pout' \in Word
    BY <1>11 DEF PfKick
  <2>3. UNCHANGED <<mode, vfu, ack, req, vack, buffer, vfVars, phdr, ppay, taken>>
    BY <1>11 DEF PfKick
  <2> QED BY <2>1, <2>2, <2>3
<1>12. CASE PfRelease
  <2>1. pfu' \in BOOLEAN
    BY Zenon, <1>12 DEF PfRelease
  <2> QED BY <1>12, <2>1 DEF PfRelease
<1>13. CASE PfAck
  <2>1. vack' \in BOOLEAN
    BY Zenon, <1>13 DEF PfAck
  <2> QED BY <1>13, <2>1 DEF PfAck
<1>14. CASE PfTimeout
  BY <1>14 DEF PfTimeout
<1> QED
  BY <1>1, <1>2, <1>3, <1>4, <1>5, <1>6, <1>7, <1>8, <1>9, <1>10, <1>11, <1>12,
     <1>13, <1>14 DEF PfStep

\* Numbers only grow.
LEMMA NumberVf ==
  ASSUME TypeParts, NumberInv, NEW t \in Threads,
         VfCall(t) \/ VfLinkRead(t) \/ VfStep(t)
  PROVE  NumberInv'
<1> USE MailboxAssumption
    DEF TypeParts, NumberInv, Word, Msg, NoMsg, Labels, bits, buffer, vfVars, pfVars, legacy, Goto
<1>1. CASE VfCall(t)
  BY <1>1 DEF VfCall, Enter
<1>2. CASE VfLinkRead(t)
  BY <1>2 DEF VfLinkRead, Enter
<1>3. CASE VfLockRead(t)
  BY <1>3 DEF VfLockRead, BufferFree
<1>4. CASE VfLockSet(t)
  BY <1>4 DEF VfLockSet
<1>5. CASE VfFlush(t)
  BY <1>5 DEF VfFlush, Flushed
<1>6. CASE VfWriteHeader(t)
  BY <1>6 DEF VfWriteHeader
<1>7. CASE VfWritePayload(t)
  BY <1>7 DEF VfWritePayload
<1>8. CASE VfKick(t)
  BY <1>8 DEF VfKick
<1>9. CASE VfRelease(t)
  BY <1>9 DEF VfRelease
<1>10. CASE VfAck(t)
  BY <1>10 DEF VfAck
<1>11. CASE VfMsg(t)
  BY <1>11 DEF VfMsg
<1>12. CASE VfReadCheck(t)
  BY <1>12 DEF VfReadCheck
<1>13. CASE VfReadHeader(t)
  BY <1>13 DEF VfReadHeader
<1>14. CASE VfReadPayload(t)
  BY <1>14 DEF VfReadPayload
<1>15. CASE VfSendAck(t)
  BY <1>15 DEF VfSendAck
<1>16. CASE VfTimeout(t)
  BY <1>16 DEF VfTimeout
<1>17. CASE VfReturn(t)
  BY <1>17 DEF VfReturn
<1> QED
  BY <1>1, <1>2, <1>3, <1>4, <1>5, <1>6, <1>7, <1>8, <1>9, <1>10, <1>11, <1>12,
     <1>13, <1>14, <1>15, <1>16, <1>17 DEF VfStep

\* Numbers only grow.
LEMMA NumberPf ==
  ASSUME TypeParts, NumberInv,
         PfPing \/ PfStep
  PROVE  NumberInv'
<1> USE MailboxAssumption
    DEF TypeParts, NumberInv, Word, Msg, NoMsg, Labels, bits, buffer, vfVars, pfVars, legacy, Goto
<1>1. CASE PfPing
  BY <1>1 DEF PfPing
<1>2. CASE PfRequest
  BY <1>2 DEF PfRequest
<1>3. CASE PfLockRead
  BY <1>3 DEF PfLockRead, BufferFree
<1>4. CASE PfLockSet
  BY <1>4 DEF PfLockSet
<1>5. CASE PfReadHeader
  BY <1>5 DEF PfReadHeader
<1>6. CASE PfReadPayload
  BY <1>6 DEF PfReadPayload
<1>7. CASE PfServe
  BY <1>7 DEF PfServe
<1>8. CASE PfFlush
  BY <1>8 DEF PfFlush
<1>9. CASE PfWriteHeader
  BY <1>9 DEF PfWriteHeader
<1>10. CASE PfWritePayload
  BY <1>10 DEF PfWritePayload
<1>11. CASE PfKick
  BY <1>11 DEF PfKick
<1>12. CASE PfRelease
  BY <1>12 DEF PfRelease
<1>13. CASE PfAck
  BY <1>13 DEF PfAck
<1>14. CASE PfTimeout
  BY <1>14 DEF PfTimeout
<1> QED
  BY <1>1, <1>2, <1>3, <1>4, <1>5, <1>6, <1>7, <1>8, <1>9, <1>10, <1>11, <1>12,
     <1>13, <1>14 DEF PfStep

\* Under its lock bit a side's payload is not overwritten.
LEMMA PayloadVf ==
  ASSUME TypeParts, LockInv, PayloadInv, NEW t \in Threads,
         VfCall(t) \/ VfLinkRead(t) \/ VfStep(t)
  PROVE  PayloadInv'
<1> USE MailboxAssumption
    DEF TypeParts, PayloadInv, LockInv, VfOwns, PfOwns, bits, buffer, vfVars, pfVars, legacy, Goto
<1>1. CASE VfCall(t)
  BY <1>1 DEF VfCall, Enter
<1>2. CASE VfLinkRead(t)
  BY <1>2 DEF VfLinkRead, Enter
<1>3. CASE VfLockRead(t)
  BY <1>3 DEF VfLockRead, BufferFree
<1>4. CASE VfLockSet(t)
  BY <1>4 DEF VfLockSet
<1>5. CASE VfFlush(t)
  BY <1>5 DEF VfFlush, Flushed
<1>6. CASE VfWriteHeader(t)
  BY <1>6 DEF VfWriteHeader
<1>7. CASE VfWritePayload(t)
  BY <1>7 DEF VfWritePayload
<1>8. CASE VfKick(t)
  BY <1>8 DEF VfKick
<1>9. CASE VfRelease(t)
  BY <1>9 DEF VfRelease
<1>10. CASE VfAck(t)
  BY <1>10 DEF VfAck
<1>11. CASE VfMsg(t)
  BY <1>11 DEF VfMsg
<1>12. CASE VfReadCheck(t)
  BY <1>12 DEF VfReadCheck
<1>13. CASE VfReadHeader(t)
  BY <1>13 DEF VfReadHeader
<1>14. CASE VfReadPayload(t)
  BY <1>14 DEF VfReadPayload
<1>15. CASE VfSendAck(t)
  BY <1>15 DEF VfSendAck
<1>16. CASE VfTimeout(t)
  BY <1>16 DEF VfTimeout
<1>17. CASE VfReturn(t)
  BY <1>17 DEF VfReturn
<1> QED
  BY <1>1, <1>2, <1>3, <1>4, <1>5, <1>6, <1>7, <1>8, <1>9, <1>10, <1>11, <1>12,
     <1>13, <1>14, <1>15, <1>16, <1>17 DEF VfStep

\* Under its lock bit a side's payload is not overwritten.
LEMMA PayloadPf ==
  ASSUME TypeParts, LockInv, PayloadInv,
         PfPing \/ PfStep
  PROVE  PayloadInv'
<1> USE MailboxAssumption
    DEF TypeParts, PayloadInv, LockInv, VfOwns, PfOwns, bits, buffer, vfVars, pfVars, legacy, Goto
<1>1. CASE PfPing
  BY <1>1 DEF PfPing
<1>2. CASE PfRequest
  BY <1>2 DEF PfRequest
<1>3. CASE PfLockRead
  BY <1>3 DEF PfLockRead, BufferFree
<1>4. CASE PfLockSet
  BY <1>4 DEF PfLockSet
<1>5. CASE PfReadHeader
  BY <1>5 DEF PfReadHeader
<1>6. CASE PfReadPayload
  BY <1>6 DEF PfReadPayload
<1>7. CASE PfServe
  BY <1>7 DEF PfServe
<1>8. CASE PfFlush
  BY <1>8 DEF PfFlush
<1>9. CASE PfWriteHeader
  BY <1>9 DEF PfWriteHeader
<1>10. CASE PfWritePayload
  BY <1>10 DEF PfWritePayload
<1>11. CASE PfKick
  BY <1>11 DEF PfKick
<1>12. CASE PfRelease
  BY <1>12 DEF PfRelease
<1>13. CASE PfAck
  BY <1>13 DEF PfAck
<1>14. CASE PfTimeout
  BY <1>14 DEF PfTimeout
<1> QED
  BY <1>1, <1>2, <1>3, <1>4, <1>5, <1>6, <1>7, <1>8, <1>9, <1>10, <1>11, <1>12,
     <1>13, <1>14 DEF PfStep

\* Control messages come from PfPing.
LEMMA PingVf ==
  ASSUME TypeParts, PingInv, NEW t \in Threads,
         VfCall(t) \/ VfLinkRead(t) \/ VfStep(t)
  PROVE  PingInv'
<1> USE MailboxAssumption
    DEF TypeParts, PingInv, Word, Msg, NoMsg, bits, buffer, vfVars, pfVars, legacy, Goto
<1>1. CASE VfCall(t)
  BY <1>1 DEF VfCall, Enter
<1>2. CASE VfLinkRead(t)
  BY <1>2 DEF VfLinkRead, Enter
<1>3. CASE VfLockRead(t)
  BY <1>3 DEF VfLockRead, BufferFree
<1>4. CASE VfLockSet(t)
  BY <1>4 DEF VfLockSet
<1>5. CASE VfFlush(t)
  BY <1>5 DEF VfFlush, Flushed
<1>6. CASE VfWriteHeader(t)
  BY <1>6 DEF VfWriteHeader
<1>7. CASE VfWritePayload(t)
  BY <1>7 DEF VfWritePayload
<1>8. CASE VfKick(t)
  BY <1>8 DEF VfKick
<1>9. CASE VfRelease(t)
  BY <1>9 DEF VfRelease
<1>10. CASE VfAck(t)
  BY <1>10 DEF VfAck
<1>11. CASE VfMsg(t)
  BY <1>11 DEF VfMsg
<1>12. CASE VfReadCheck(t)
  BY <1>12 DEF VfReadCheck
<1>13. CASE VfReadHeader(t)
  BY <1>13 DEF VfReadHeader
<1>14. CASE VfReadPayload(t)
  BY <1>14 DEF VfReadPayload
<1>15. CASE VfSendAck(t)
  BY <1>15 DEF VfSendAck
<1>16. CASE VfTimeout(t)
  BY <1>16 DEF VfTimeout
<1>17. CASE VfReturn(t)
  BY <1>17 DEF VfReturn
<1> QED
  BY <1>1, <1>2, <1>3, <1>4, <1>5, <1>6, <1>7, <1>8, <1>9, <1>10, <1>11, <1>12,
     <1>13, <1>14, <1>15, <1>16, <1>17 DEF VfStep

\* Control messages come from PfPing.
LEMMA PingPf ==
  ASSUME TypeParts, PingInv,
         PfPing \/ PfStep
  PROVE  PingInv'
<1> USE MailboxAssumption
    DEF TypeParts, PingInv, Word, Msg, NoMsg, bits, buffer, vfVars, pfVars, legacy, Goto
<1>1. CASE PfPing
  BY <1>1 DEF PfPing
<1>2. CASE PfRequest
  BY <1>2 DEF PfRequest
<1>3. CASE PfLockRead
  BY <1>3 DEF PfLockRead, BufferFree
<1>4. CASE PfLockSet
  BY <1>4 DEF PfLockSet
<1>5. CASE PfReadHeader
  BY <1>5 DEF PfReadHeader
<1>6. CASE PfReadPayload
  BY <1>6 DEF PfReadPayload
<1>7. CASE PfServe
  BY <1>7 DEF PfServe
<1>8. CASE PfFlush
  BY <1>8 DEF PfFlush
<1>9. CASE PfWriteHeader
  BY <1>9 DEF PfWriteHeader
<1>10. CASE PfWritePayload
  BY <1>10 DEF PfWritePayload
<1>11. CASE PfKick
  BY <1>11 DEF PfKick
<1>12. CASE PfRelease
  BY <1>12 DEF PfRelease
<1>13. CASE PfAck
  BY <1>13 DEF PfAck
<1>14. CASE PfTimeout
  BY <1>14 DEF PfTimeout
<1> QED
  BY <1>1, <1>2, <1>3, <1>4, <1>5, <1>6, <1>7, <1>8, <1>9, <1>10, <1>11, <1>12,
     <1>13, <1>14 DEF PfStep

\* A caller that is in the mailbox code is there alone.
LEMMA Alone ==
  ASSUME LockInv, NumberInv, PatientInv, NEW t \in Threads
  PROVE  Held(t) /\ (pc[t] = "idle" \/ Waiting(t) \/ Rest) /\ (mlock = None => Rest)
BY MailboxAssumption DEF LockInv, NumberInv, PatientInv, Idle, Waiting

\* A step of a caller takes its exchange from one stage to the next (legacy operations).
LEMMA OldVf ==
  ASSUME Unlocked = {}, TypeParts, LockInv, NumberInv, PingInv, Patient, legacy, PatientInv,
         NEW t \in Threads, VfCall(t) \/ VfLinkRead(t) \/ VfStep(t)
  PROVE  PatientInv'
<1>o. \A u \in Threads : u # t => pc'[u] = "idle" /\ n'[u] = 0
  BY MailboxAssumption
  DEF VfCall, VfLinkRead, VfLockRead, VfLockSet, VfFlush, VfWriteHeader, VfWritePayload,
      VfKick, VfRelease, VfAck, VfMsg, VfReadCheck, VfReadHeader, VfReadPayload, VfSendAck,
      VfTimeout, VfReturn, VfStep, Enter, Goto, TypeParts, LockInv, NumberInv
<1>s. Held(t)' /\ (~Waiting(t)' => Rest')
  <2> USE MailboxAssumption, Alone
      DEF TypeParts, LockInv, VfOwns, PfOwns, NumberInv, PingInv, Patient, Waiting, Writing,
           Pinging, Quiet, InBuffer, Asked, Wiped, Reading, Replying, Whole, Replied, Word,
           Msg, NoMsg, Labels, Answer, BufferFree, PfStuck, VfStuck, Mode, bits, buffer, vfVars, pfVars,
           legacy, Goto, Held, Rest
  <2>1. CASE VfCall(t)
    BY <2>1 DEF VfCall, Enter
  <2>2. CASE VfLinkRead(t)
    BY <2>2 DEF VfLinkRead, Enter
  <2>3. CASE VfLockRead(t)
    BY <2>3 DEF VfLockRead
  <2>4. CASE VfLockSet(t)
    BY <2>4 DEF VfLockSet
  <2>5. CASE VfFlush(t)
    BY <2>5 DEF VfFlush, Flushed
  <2>6. CASE VfWriteHeader(t)
    BY <2>6 DEF VfWriteHeader
  <2>7. CASE VfWritePayload(t)
    BY <2>7 DEF VfWritePayload
  <2>8. CASE VfKick(t)
    BY <2>8 DEF VfKick
  <2>9. CASE VfRelease(t)
    BY <2>9 DEF VfRelease
  <2>10. CASE VfAck(t)
    BY <2>10 DEF VfAck
  <2>11. CASE VfMsg(t)
    BY <2>11 DEF VfMsg
  <2>12. CASE VfReadCheck(t)
    BY <2>12 DEF VfReadCheck
  <2>13. CASE VfReadHeader(t)
    BY <2>13 DEF VfReadHeader
  <2>14. CASE VfReadPayload(t)
    BY <2>14 DEF VfReadPayload
  <2>15. CASE VfSendAck(t)
    BY <2>15 DEF VfSendAck
  <2>16. CASE VfTimeout(t)
    <3>1. Held(t)'
      BY <2>16 DEF VfTimeout
    <3>2. ~Waiting(t)' => Rest'
      BY <2>16 DEF VfTimeout
    <3> QED BY <3>1, <3>2
  <2>17. CASE VfReturn(t)
    BY <2>17 DEF VfReturn
  <2> QED
    BY <2>1, <2>2, <2>3, <2>4, <2>5, <2>6, <2>7, <2>8, <2>9, <2>10, <2>11, <2>12, <2>13,
       <2>14, <2>15, <2>16, <2>17 DEF VfStep
<1> QED BY <1>o, <1>s DEF PatientInv, Idle, Held, Waiting, Writing

\* and so does a step of the PF (legacy operations).
LEMMA OldPf ==
  ASSUME Unlocked = {}, TypeParts, LockInv, NumberInv, PingInv, Patient, legacy, PatientInv,
         PfPing \/ PfStep
  PROVE  PatientInv'
<1>v. UNCHANGED <<pc, n>>
  BY DEF PfPing, PfRequest, PfLockRead, PfLockSet, PfReadHeader, PfReadPayload, PfServe,
         PfFlush, PfWriteHeader, PfWritePayload, PfKick, PfRelease, PfAck, PfTimeout,
         PfStep, vfVars
<1>i. Idle' => Idle /\ Rest
  BY <1>v DEF PatientInv, Idle, Waiting
<1>r. Idle' => Rest'
  <2> SUFFICES ASSUME Rest PROVE Rest'
    BY <1>i
  <2> USE DEF TypeParts, Mode, Patient, legacy, Rest, Quiet, Pinging, bits, Msg
  <2>1. CASE PfPing
    BY <2>1 DEF PfPing
  <2>2. CASE PfRequest
    BY <2>2 DEF PfRequest
  <2>3. CASE PfLockRead
    BY <2>3 DEF PfLockRead
  <2>4. CASE PfLockSet
    BY <2>4 DEF PfLockSet
  <2>5. CASE PfReadHeader
    BY <2>5 DEF PfReadHeader
  <2>6. CASE PfReadPayload
    BY <2>6 DEF PfReadPayload
  <2>7. CASE PfServe
    BY <2>7 DEF PfServe
  <2>8. CASE PfFlush
    BY <2>8 DEF PfFlush
  <2>9. CASE PfWriteHeader
    BY <2>9 DEF PfWriteHeader
  <2>10. CASE PfWritePayload
    BY <2>10 DEF PfWritePayload
  <2>11. CASE PfKick
    BY <2>11 DEF PfKick
  <2>12. CASE PfRelease
    BY <2>12 DEF PfRelease
  <2>13. CASE PfAck
    BY <2>13 DEF PfAck
  <2>14. CASE PfTimeout
    BY <2>14 DEF PfTimeout
  <2> QED
    BY <2>1, <2>2, <2>3, <2>4, <2>5, <2>6, <2>7, <2>8, <2>9, <2>10, <2>11, <2>12, <2>13,
       <2>14 DEF PfStep
<1>s. ASSUME NEW u \in Threads PROVE Held(u)'
  <2> USE MailboxAssumption, Alone
      DEF TypeParts, LockInv, VfOwns, PfOwns, NumberInv, PingInv, Patient, Waiting, Writing,
           Pinging, Quiet, InBuffer, Asked, Wiped, Reading, Replying, Whole, Replied, Word,
           Msg, NoMsg, Labels, Answer, BufferFree, PfStuck, VfStuck, Mode, bits, buffer, vfVars, pfVars,
           legacy, Goto, Held, Rest
  <2>1. CASE PfPing
    BY <2>1 DEF PfPing
  <2>2. CASE PfRequest
    BY <2>2 DEF PfRequest
  <2>3. CASE PfLockRead
    BY <2>3 DEF PfLockRead
  <2>4. CASE PfLockSet
    <3>1. CASE ppc = "lockset"
      BY <2>4, <3>1 DEF PfLockSet
    <3>2. CASE ppc = "rlockset"
      BY <2>4, <3>2 DEF PfLockSet
    <3> QED BY <2>4, <3>1, <3>2 DEF PfLockSet
  <2>5. CASE PfReadHeader
    BY <2>5 DEF PfReadHeader
  <2>6. CASE PfReadPayload
    BY <2>6 DEF PfReadPayload
  <2>7. CASE PfServe
    <3>1. pc[u] = "idle" \/ (pc[u] = "msgwait" /\ Reading(n[u]))
      BY <2>7 DEF PfServe
    <3>2. CASE pc[u] = "msgwait" /\ Reading(n[u])
      <4>1. n[u] \in taken' /\ pout' = Msg("rep", n[u]) /\ ppc' = "lock"
        BY <2>7, <3>2 DEF PfServe
      <4> QED BY <2>7, <3>2, <4>1 DEF PfServe
    <3>3. CASE pc[u] = "idle"
      BY <2>7, <3>3 DEF PfServe
    <3> QED BY <3>1, <3>2, <3>3
  <2>8. CASE PfFlush
    BY <2>8 DEF PfFlush
  <2>9. CASE PfWriteHeader
    BY <2>9 DEF PfWriteHeader
  <2>10. CASE PfWritePayload
    BY <2>10 DEF PfWritePayload
  <2>11. CASE PfKick
    BY <2>11 DEF PfKick
  <2>12. CASE PfRelease
    BY <2>12 DEF PfRelease
  <2>13. CASE PfAck
    BY <2>13 DEF PfAck
  <2>14. CASE PfTimeout
    BY <2>14 DEF PfTimeout
  <2> QED
    BY <2>1, <2>2, <2>3, <2>4, <2>5, <2>6, <2>7, <2>8, <2>9, <2>10, <2>11, <2>12, <2>13,
       <2>14 DEF PfStep
<1> QED BY <1>r, <1>s DEF PatientInv

\* A step of a caller takes its exchange from one stage to the next (newer operations).
LEMMA NewVf ==
  ASSUME Unlocked = {}, TypeParts, LockInv, NumberInv, PingInv, Patient, ~legacy, PatientInv,
         NEW t \in Threads, VfCall(t) \/ VfLinkRead(t) \/ VfStep(t)
  PROVE  PatientInv'
<1>o. \A u \in Threads : u # t => pc'[u] = "idle" /\ n'[u] = 0
  BY MailboxAssumption
  DEF VfCall, VfLinkRead, VfLockRead, VfLockSet, VfFlush, VfWriteHeader, VfWritePayload,
      VfKick, VfRelease, VfAck, VfMsg, VfReadCheck, VfReadHeader, VfReadPayload, VfSendAck,
      VfTimeout, VfReturn, VfStep, Enter, Goto, TypeParts, LockInv, NumberInv
<1>s. Held(t)' /\ (~Waiting(t)' => Rest')
  <2> USE MailboxAssumption, Alone
      DEF TypeParts, LockInv, VfOwns, PfOwns, NumberInv, PingInv, Patient, Waiting, Writing,
           Pinging, Quiet, InBuffer, Asked, Wiped, Reading, Replying, Whole, Replied, Word,
           Msg, NoMsg, Labels, Answer, BufferFree, PfStuck, VfStuck, Mode, bits, buffer, vfVars, pfVars,
           legacy, Goto, Held, Rest
  <2>1. CASE VfCall(t)
    BY <2>1 DEF VfCall, Enter
  <2>2. CASE VfLinkRead(t)
    BY <2>2 DEF VfLinkRead, Enter
  <2>3. CASE VfLockRead(t)
    BY <2>3 DEF VfLockRead
  <2>4. CASE VfLockSet(t)
    BY <2>4 DEF VfLockSet
  <2>5. CASE VfFlush(t)
    BY <2>5 DEF VfFlush, Flushed
  <2>6. CASE VfWriteHeader(t)
    BY <2>6 DEF VfWriteHeader
  <2>7. CASE VfWritePayload(t)
    BY <2>7 DEF VfWritePayload
  <2>8. CASE VfKick(t)
    BY <2>8 DEF VfKick
  <2>9. CASE VfRelease(t)
    BY <2>9 DEF VfRelease
  <2>10. CASE VfAck(t)
    BY <2>10 DEF VfAck
  <2>11. CASE VfMsg(t)
    BY <2>11 DEF VfMsg
  <2>12. CASE VfReadCheck(t)
    BY <2>12 DEF VfReadCheck
  <2>13. CASE VfReadHeader(t)
    BY <2>13 DEF VfReadHeader
  <2>14. CASE VfReadPayload(t)
    BY <2>14 DEF VfReadPayload
  <2>15. CASE VfSendAck(t)
    BY <2>15 DEF VfSendAck
  <2>16. CASE VfTimeout(t)
    BY <2>16 DEF VfTimeout
  <2>17. CASE VfReturn(t)
    BY <2>17 DEF VfReturn
  <2> QED
    BY <2>1, <2>2, <2>3, <2>4, <2>5, <2>6, <2>7, <2>8, <2>9, <2>10, <2>11, <2>12, <2>13,
       <2>14, <2>15, <2>16, <2>17 DEF VfStep
<1> QED BY <1>o, <1>s DEF PatientInv, Idle, Held, Waiting, Writing

\* and so does a step of the PF (newer operations).
LEMMA NewPf ==
  ASSUME Unlocked = {}, TypeParts, LockInv, NumberInv, PingInv, Patient, ~legacy, PatientInv,
         PfPing \/ PfStep
  PROVE  PatientInv'
<1>v. UNCHANGED <<pc, n>>
  BY DEF PfPing, PfRequest, PfLockRead, PfLockSet, PfReadHeader, PfReadPayload, PfServe,
         PfFlush, PfWriteHeader, PfWritePayload, PfKick, PfRelease, PfAck, PfTimeout,
         PfStep, vfVars
<1>i. Idle' => Idle /\ Rest
  BY <1>v DEF PatientInv, Idle, Waiting
<1>r. Idle' => Rest'
  <2> SUFFICES ASSUME Rest PROVE Rest'
    BY <1>i
  <2> USE DEF TypeParts, Mode, Patient, legacy, Rest, Quiet, Pinging, bits, Msg
  <2>1. CASE PfPing
    BY <2>1 DEF PfPing
  <2>2. CASE PfRequest
    BY <2>2 DEF PfRequest
  <2>3. CASE PfLockRead
    BY <2>3 DEF PfLockRead
  <2>4. CASE PfLockSet
    BY <2>4 DEF PfLockSet
  <2>5. CASE PfReadHeader
    BY <2>5 DEF PfReadHeader
  <2>6. CASE PfReadPayload
    BY <2>6 DEF PfReadPayload
  <2>7. CASE PfServe
    BY <2>7 DEF PfServe
  <2>8. CASE PfFlush
    BY <2>8 DEF PfFlush
  <2>9. CASE PfWriteHeader
    BY <2>9 DEF PfWriteHeader
  <2>10. CASE PfWritePayload
    BY <2>10 DEF PfWritePayload
  <2>11. CASE PfKick
    BY <2>11 DEF PfKick
  <2>12. CASE PfRelease
    BY <2>12 DEF PfRelease
  <2>13. CASE PfAck
    BY <2>13 DEF PfAck
  <2>14. CASE PfTimeout
    BY <2>14 DEF PfTimeout
  <2> QED
    BY <2>1, <2>2, <2>3, <2>4, <2>5, <2>6, <2>7, <2>8, <2>9, <2>10, <2>11, <2>12, <2>13,
       <2>14 DEF PfStep
<1>s. ASSUME NEW u \in Threads PROVE Held(u)'
  <2> USE MailboxAssumption, Alone
      DEF TypeParts, LockInv, VfOwns, PfOwns, NumberInv, PingInv, Patient, Waiting, Writing,
           Pinging, Quiet, InBuffer, Asked, Wiped, Reading, Replying, Whole, Replied, Word,
           Msg, NoMsg, Labels, Answer, BufferFree, PfStuck, VfStuck, Mode, bits, buffer, vfVars, pfVars,
           legacy, Goto, Held, Rest
  <2>1. CASE PfPing
    BY <2>1 DEF PfPing
  <2>2. CASE PfRequest
    BY <2>2 DEF PfRequest
  <2>3. CASE PfLockRead
    BY <2>3 DEF PfLockRead
  <2>4. CASE PfLockSet
    BY <2>4 DEF PfLockSet
  <2>5. CASE PfReadHeader
    BY <2>5 DEF PfReadHeader
  <2>6. CASE PfReadPayload
    BY <2>6 DEF PfReadPayload
  <2>7. CASE PfServe
    BY <2>7 DEF PfServe
  <2>8. CASE PfFlush
    BY <2>8 DEF PfFlush
  <2>9. CASE PfWriteHeader
    BY <2>9 DEF PfWriteHeader
  <2>10. CASE PfWritePayload
    BY <2>10 DEF PfWritePayload
  <2>11. CASE PfKick
    BY <2>11 DEF PfKick
  <2>12. CASE PfRelease
    BY <2>12 DEF PfRelease
  <2>13. CASE PfAck
    BY <2>13 DEF PfAck
  <2>14. CASE PfTimeout
    BY <2>14 DEF PfTimeout
  <2> QED
    BY <2>1, <2>2, <2>3, <2>4, <2>5, <2>6, <2>7, <2>8, <2>9, <2>10, <2>11, <2>12, <2>13,
       <2>14 DEF PfStep
<1> QED BY <1>r, <1>s DEF PatientInv

\* The mailbox starts empty, between two exchanges.
LEMMA MailboxInit ==
  Init => TypeParts /\ LockInv /\ NumberInv /\ PayloadInv /\ PingInv /\ PatientInv
<1> SUFFICES ASSUME Init
             PROVE  TypeParts /\ LockInv /\ NumberInv /\ PayloadInv /\ PingInv /\ PatientInv
  OBVIOUS
<1> USE MailboxAssumption DEF Init, Msg, NoMsg
<1>1. TypeParts
  <2>1. NoMsg \in Word /\ "idle" \in Labels
    BY DEF Word, Labels
  <2>2. rhdr \in [Threads -> Word] /\ pc \in [Threads -> Labels]
    BY <2>1
  <2>3. hdr \in Word /\ phdr \in Word /\ pout \in Word
    BY <2>1
  <2>4. /\ vfu \in BOOLEAN /\ pfu \in BOOLEAN /\ sts \in BOOLEAN /\ ack \in BOOLEAN
        /\ req \in BOOLEAN /\ vack \in BOOLEAN
    BY Zenon
  <2>5. mode \in Mode /\ mlock \in Threads \cup {None} /\ taken \subseteq 1 .. MaxReq
    OBVIOUS
  <2>6. n \in [Threads -> 0 .. MaxReq] /\ rpay \in [Threads -> 0 .. 2 * MaxReq]
    OBVIOUS
  <2>7. /\ next \in 1 .. MaxReq + 1 /\ pay \in 0 .. 2 * MaxReq
        /\ ppay \in 0 .. MaxReq /\ ppc = "idle"
    OBVIOUS
  <2> HIDE DEF Init
  <2> QED BY <2>2, <2>3, <2>4, <2>5, <2>6, <2>7 DEF TypeParts
<1>2. NumberInv /\ PayloadInv /\ PingInv
  BY DEF NumberInv, PayloadInv, PingInv
<1>3. PatientInv
  BY DEF PatientInv, Idle, Rest, Quiet, Held, Waiting, Writing, legacy
<1> QED BY <1>1, <1>2, <1>3, LockInit

\* What every state of the mailbox satisfies.
MailboxInv ==
  TypeParts /\ LockInv /\ NumberInv /\ PayloadInv /\ PingInv /\ (Patient => PatientInv)

\* Every step keeps it, if every caller holds mbx_lock.
LEMMA MailboxStep ==
  ASSUME Unlocked = {}, MailboxInv, [Next]_vars PROVE MailboxInv'
<1> USE DEF MailboxInv
<1>1. CASE UNCHANGED vars
  <2> USE <1>1 DEF vars, bits, buffer, vfVars, pfVars
  <2>1. TypeParts' /\ NumberInv' /\ PayloadInv' /\ PingInv'
    BY DEF TypeParts, NumberInv, PayloadInv, PingInv
  <2>2. LockInv'
    BY DEF LockInv, VfOwns, PfOwns, legacy
  <2>3. Patient' => Patient
    BY DEF Patient, legacy
  <2>4. PatientInv => PatientInv'
    BY DEF PatientInv, Idle, Rest, Quiet, Held, Waiting, Writing, Pinging, Asked, InBuffer, Wiped,
           Reading, Replying, Replied, Whole, legacy
  <2> QED BY <2>1, <2>2, <2>3, <2>4
<1>2. ASSUME NEW t \in Threads, VfCall(t) \/ VfLinkRead(t) \/ VfStep(t) PROVE MailboxInv'
  <2>1. TypeParts' /\ LockInv' /\ NumberInv' /\ PayloadInv' /\ PingInv'
    BY <1>2, TypeVf, LockVf, NumberVf, PayloadVf, PingVf
  <2>2. mode' = mode
    BY <1>2 DEF VfStep, VfCall, VfLinkRead, VfLockRead, VfLockSet, VfFlush, VfWriteHeader,
                VfWritePayload, VfKick, VfRelease, VfAck, VfMsg, VfReadCheck, VfReadHeader,
                VfReadPayload, VfSendAck, VfTimeout, VfReturn
  <2>3. Patient' => PatientInv'
    BY <1>2, <2>2, OldVf, NewVf DEF Patient, legacy
  <2> QED BY <2>1, <2>3
<1>3. CASE PfPing \/ PfStep
  <2>1. TypeParts' /\ LockInv' /\ NumberInv' /\ PayloadInv' /\ PingInv'
    BY <1>3, TypePf, LockPf, NumberPf, PayloadPf, PingPf
  <2>2. mode' = mode
    BY <1>3 DEF PfStep, PfPing, PfRequest, PfLockRead, PfLockSet, PfReadHeader, PfReadPayload,
                PfServe, PfFlush, PfWriteHeader, PfWritePayload, PfKick, PfRelease, PfAck,
                PfTimeout
  <2>3. Patient' => PatientInv'
    BY <1>3, <2>2, OldPf, NewPf DEF Patient, legacy
  <2> QED BY <2>1, <2>3
<1> QED BY <1>1, <1>2, <1>3 DEF Next, Vf

\* What the invariant says of a caller with its answer.
LEMMA InvAnswers == MailboxInv => AnswersMatch
<1> SUFFICES ASSUME MailboxInv PROVE AnswersMatch
  OBVIOUS
<1> USE DEF MailboxInv, PatientInv, Held, Whole, Patient, Msg
<1>1. ReplyMatches
  <2> SUFFICES ASSUME Patient, NEW t \in Threads, pc[t] = "done", rhdr[t].kind = "rep", n[t] # 0
               PROVE  rhdr[t].n = n[t] /\ rpay[t] = Answer(n[t])
    BY DEF ReplyMatches
  <2>1. rhdr[t] = Msg("rep", n[t]) /\ rpay[t] = Answer(n[t])
    BY DEF ReplyMatches
  <2> QED BY <2>1
<1>2. AckMeansTaken
  BY DEF AckMeansTaken, Replying, PingInv
<1> QED BY <1>1, <1>2, TypeSplit DEF AnswersMatch

\* If every caller holds mbx_lock, ixgbe_poll_for_msg and ixgbe_poll_for_ack never take an
\* old reply or a stale acknowledgement for what they wait for, with either mailbox
\* protocol and any number of callers and requests.
THEOREM RepliesAreOwn ==
  ASSUME Unlocked = {}
  PROVE  Spec => []AnswersMatch
<1>1. Init => MailboxInv
  BY MailboxInit DEF MailboxInv
<1>2. MailboxInv /\ [Next]_vars => MailboxInv'
  BY MailboxStep
<1> QED BY <1>1, <1>2, InvAnswers, PTL DEF Spec

-----------------------------------------------------------------------------
(* The exchange of Exchange, step by step.                                 *)

\* How far the request of caller t has got.
PhaseOf(t) ==
  IF pc[t] = "return" THEN "failed"
  ELSE IF pc[t] = "done" THEN IF rhdr[t].kind = "rep" THEN "answered" ELSE "failed"
  ELSE IF n[t] \in taken THEN "served"
  ELSE "asked"

\* waits are patient and nothing crosses the exchange
Strict == ~mode.early /\ ~mode.pings

\* Under mbx_lock one caller at most is in an exchange.
OneAtATime ==
  \/ InExchange = {} /\ callerBar = None /\ phaseBar = "none"
  \/ \E t \in Threads : /\ n[t] # 0 /\ InExchange = {t}
                        /\ callerBar = t /\ phaseBar = PhaseOf(t)

\* The invariant says so,
LEMMA OneExchange == MailboxInv => OneAtATime
<1> SUFFICES ASSUME MailboxInv, InExchange # {}
             PROVE  \E t \in Threads : /\ n[t] # 0 /\ InExchange = {t}
                                       /\ callerBar = t /\ phaseBar = PhaseOf(t)
  BY DEF OneAtATime, callerBar, phaseBar
<1>1. PICK t \in Threads : n[t] # 0
  BY DEF InExchange
<1>2. InExchange = {t}
  BY <1>1 DEF InExchange, MailboxInv, LockInv, NumberInv
<1>3. callerBar = t
  BY <1>2 DEF callerBar
<1>4. phaseBar = PhaseOf(t)
  BY <1>2, <1>3 DEF phaseBar, PhaseOf
<1> QED BY <1>1, <1>2, <1>3, <1>4

\* after a step as well.
LEMMA OneExchangeNext == MailboxInv' => OneAtATime'
BY OneExchange, PTL

\* Who is in the exchange, and how far it has got, before and after a step of t.
LEMMA Bars ==
  ASSUME MailboxInv, MailboxInv', NEW t \in Threads
  PROVE  /\ n[t] # 0 => callerBar = t /\ phaseBar = PhaseOf(t)
         /\ n'[t] # 0 => callerBar' = t /\ phaseBar' = PhaseOf(t)'
         /\ (\A u \in Threads : n[u] = 0) => callerBar = None /\ phaseBar = "none"
         /\ (\A u \in Threads : n'[u] = 0) => callerBar' = None /\ phaseBar' = "none"
BY OneExchange, OneExchangeNext DEF OneAtATime, InExchange

\* A step of one of the VF's callers is a step of the exchange, or none.
LEMMA VfExchange ==
  ASSUME Unlocked = {}, MailboxInv, MailboxInv', NEW t \in Threads,
         VfCall(t) \/ VfLinkRead(t) \/ VfStep(t)
  PROVE  [Service!Next]_<<Strict, callerBar, phaseBar>>
<1> USE MailboxAssumption DEF MailboxInv, TypeParts
<1> DEFINE Same == UNCHANGED <<Strict, callerBar, phaseBar>>
<1>a. \A u \in Threads : u # t /\ pc[t] # "idle" => n[u] = 0
  BY DEF LockInv, NumberInv
<1>b. mlock = None => \A u \in Threads : n[u] = 0
  BY DEF LockInv, NumberInv
<1>1. CASE VfCall(t)
  <2>1. callerBar = None /\ phaseBar = "none"
    BY <1>1, <1>b, Bars DEF VfCall, Enter
  <2>2. n'[t] = next /\ next # 0 /\ next \notin taken' /\ pc'[t] = "lock"
    BY <1>1 DEF VfCall, pfVars, NumberInv, Goto
  <2>3. callerBar' = t /\ phaseBar' = "asked"
    BY <2>2, Bars DEF PhaseOf
  <2> QED BY <1>1, <2>1, <2>3 DEF VfCall, Service!Next, Service!Ask, Strict
<1>2. CASE VfLinkRead(t)
  <2>1. callerBar = None /\ phaseBar = "none"
    BY <1>2, <1>b, Bars DEF VfLinkRead, Enter
  <2>2. \A u \in Threads : n'[u] = 0
    BY <1>2, <1>b DEF VfLinkRead, Enter
  <2>3. callerBar' = None /\ phaseBar' = "none"
    BY <2>2, Bars
  <2> QED BY <1>2, <2>1, <2>3 DEF VfLinkRead, Strict
<1>3. CASE VfReturn(t)
  <2>1. \A u \in Threads : n'[u] = 0
    BY <1>3, <1>a DEF VfReturn
  <2>2. callerBar' = None /\ phaseBar' = "none" /\ UNCHANGED Strict
    BY <1>3, <2>1, Bars DEF VfReturn, Strict
  <2>3. CASE n[t] # 0
    <3>1. phaseBar \in {"answered", "failed"}
      BY <1>3, <2>3, Bars DEF VfReturn, PhaseOf
    <3> QED BY <2>2, <3>1 DEF Service!Next, Service!Return, Strict
  <2>4. CASE n[t] = 0
    BY <1>3, <1>a, <2>2, <2>4, Bars DEF VfReturn
  <2> QED BY <2>3, <2>4
<1>4. ASSUME UNCHANGED <<mode, n, taken>>, pc[t] # "idle", n[t] = 0
      PROVE  Same
  BY <1>4, <1>a, Bars DEF Strict
<1>5. ASSUME UNCHANGED <<mode, n, taken>>, n[t] # 0,
             pc[t] \notin {"done", "return"}, pc'[t] \notin {"done", "return"}
      PROVE  Same
  BY <1>5, Bars DEF Strict, PhaseOf
<1>6. ASSUME UNCHANGED <<mode, n, taken>>, n[t] # 0, ~Strict,
             pc[t] \notin {"done", "return"}, pc'[t] \in {"done", "return"}
      PROVE  Service!Answer \/ Service!Fail
  <2>1. phaseBar \in {"asked", "served"} /\ phaseBar' \in {"answered", "failed"}
    BY <1>6, Bars DEF PhaseOf
  <2>2. callerBar' = callerBar
    BY <1>6, Bars
  <2> QED BY <1>6, <2>1, <2>2 DEF Service!Answer, Service!Fail, Strict
<1>11. CASE VfLockRead(t)
  <2>1. UNCHANGED <<mode, n, taken>> /\ pc[t] \notin {"idle", "done", "return"}
        /\ pc'[t] \notin {"done", "return"}
    BY <1>11 DEF VfLockRead, Goto, pfVars
  <2> QED BY <2>1, <1>4, <1>5
<1>12. CASE VfLockSet(t)
  <2>1. UNCHANGED <<mode, n, taken>> /\ pc[t] \notin {"idle", "done", "return"}
        /\ pc'[t] \notin {"done", "return"}
    BY <1>12 DEF VfLockSet, Goto, pfVars
  <2> QED BY <2>1, <1>4, <1>5
<1>13. CASE VfFlush(t)
  <2>1. UNCHANGED <<mode, n, taken>> /\ pc[t] \notin {"idle", "done", "return"}
        /\ pc'[t] \notin {"done", "return"}
    BY <1>13 DEF VfFlush, Goto, pfVars
  <2> QED BY <2>1, <1>4, <1>5
<1>14. CASE VfWriteHeader(t)
  <2>1. UNCHANGED <<mode, n, taken>> /\ pc[t] \notin {"idle", "done", "return"}
        /\ pc'[t] \notin {"done", "return"}
    BY <1>14 DEF VfWriteHeader, Goto, pfVars
  <2> QED BY <2>1, <1>4, <1>5
<1>15. CASE VfWritePayload(t)
  <2>1. UNCHANGED <<mode, n, taken>> /\ pc[t] \notin {"idle", "done", "return"}
        /\ pc'[t] \notin {"done", "return"}
    BY <1>15 DEF VfWritePayload, Goto, pfVars
  <2> QED BY <2>1, <1>4, <1>5
<1>16. CASE VfKick(t)
  <2>1. UNCHANGED <<mode, n, taken>> /\ pc[t] \notin {"idle", "done", "return"}
        /\ pc'[t] \notin {"done", "return"}
    BY <1>16 DEF VfKick, Goto, pfVars
  <2> QED BY <2>1, <1>4, <1>5
<1>17. CASE VfRelease(t)
  <2>1. UNCHANGED <<mode, n, taken>> /\ pc[t] \notin {"idle", "done", "return"}
        /\ pc'[t] \notin {"done", "return"}
    BY <1>17 DEF VfRelease, Goto, pfVars
  <2> QED BY <2>1, <1>4, <1>5
<1>18. CASE VfAck(t)
  <2>1. UNCHANGED <<mode, n, taken>> /\ pc[t] \notin {"idle", "done", "return"}
        /\ pc'[t] \notin {"done", "return"}
    BY <1>18 DEF VfAck, Goto, pfVars
  <2> QED BY <2>1, <1>4, <1>5
<1>19. CASE VfMsg(t)
  <2>1. UNCHANGED <<mode, n, taken>> /\ pc[t] \notin {"idle", "done", "return"}
        /\ pc'[t] \notin {"done", "return"}
    BY <1>19 DEF VfMsg, Goto, pfVars
  <2> QED BY <2>1, <1>4, <1>5
<1>20. CASE VfReadHeader(t)
  <2>1. UNCHANGED <<mode, n, taken>> /\ pc[t] \notin {"idle", "done", "return"}
        /\ pc'[t] \notin {"done", "return"}
    BY <1>20 DEF VfReadHeader, Goto, pfVars
  <2> QED BY <2>1, <1>4, <1>5
<1>21. CASE VfReadPayload(t)
  <2>1. UNCHANGED <<mode, n, taken>> /\ pc[t] \notin {"idle", "done", "return"}
        /\ pc'[t] \notin {"done", "return"}
    BY <1>21 DEF VfReadPayload, Goto, pfVars
  <2> QED BY <2>1, <1>4, <1>5
<1>7. CASE VfReadCheck(t)
  <2>1. UNCHANGED <<mode, n, taken>> /\ pc[t] = "rcheck" /\ pc'[t] \in {"r0", "return"}
    BY <1>7 DEF VfReadCheck, Goto, pfVars
  <2>2. n[t] # 0 /\ Strict => pc'[t] = "r0"
    BY <1>7 DEF VfReadCheck, Goto, Strict, Patient, PatientInv, Held, LockInv
  <2> QED BY <2>1, <2>2, <1>4, <1>5, <1>6 DEF Service!Next
<1>8. CASE VfTimeout(t)
  <2>1. UNCHANGED <<mode, n, taken>> /\ pc[t] \in {"lock", "rlock", "ackwait", "msgwait"}
        /\ pc'[t] = "return"
    BY <1>8 DEF VfTimeout, Goto, pfVars
  <2>2. n[t] # 0 => ~Strict
    BY <1>8 DEF VfTimeout, PfStuck, Strict, Patient, PatientInv, Held, Asked, Wiped, Reading,
                Replying, Replied, Quiet, Pinging, legacy, PingInv
  <2> QED BY <2>1, <2>2, <1>4, <1>6 DEF Service!Next
<1>9. CASE VfSendAck(t)
  <2>1. UNCHANGED <<mode, n, taken, rhdr>> /\ pc[t] = "sendack" /\ pc'[t] = "done"
    BY <1>9 DEF VfSendAck, Goto, pfVars
  <2>2. CASE n[t] # 0 /\ Strict
    <3>1. n[t] \in taken /\ rhdr[t].kind = "rep"
      BY <2>1, <2>2 DEF Strict, Patient, PatientInv, Held, Whole, PingInv, Msg
    <3>2. phaseBar = "served" /\ phaseBar' = "answered" /\ callerBar' = callerBar
      BY <2>1, <2>2, <3>1, Bars DEF PhaseOf
    <3> QED BY <2>1, <3>2 DEF Service!Next, Service!Answer, Strict
  <2> QED BY <2>1, <2>2, <1>4, <1>6 DEF Service!Next
<1> QED
  BY <1>1, <1>2, <1>3, <1>7, <1>8, <1>9, <1>11, <1>12, <1>13, <1>14, <1>15, <1>16,
     <1>17, <1>18, <1>19, <1>20, <1>21 DEF VfStep

\* A step of the PF is its service of the request, or none.
LEMMA PfExchange ==
  ASSUME MailboxInv, MailboxInv', PfPing \/ PfStep
  PROVE  [Service!Next]_<<Strict, callerBar, phaseBar>>
<1>1. UNCHANGED <<mode, n, pc, rhdr>>
  BY DEF PfPing, PfRequest, PfLockRead, PfLockSet, PfReadHeader, PfReadPayload,
         PfFlush, PfWriteHeader, PfWritePayload, PfKick, PfRelease, PfAck, PfTimeout,
         PfServe, PfStep, vfVars
<1>2. InExchange' = InExchange /\ callerBar' = callerBar /\ UNCHANGED Strict
  BY <1>1 DEF InExchange, callerBar, Strict
<1>3. CASE InExchange = {}
  BY <1>2, <1>3 DEF phaseBar
<1>4. CASE InExchange # {}
  <2>1. PICK t \in Threads : n[t] # 0
    BY <1>4 DEF InExchange
  <2>2. phaseBar = PhaseOf(t) /\ phaseBar' = PhaseOf(t)'
    BY <1>1, <2>1, Bars
  <2>3. taken \subseteq taken'
    BY DEF PfPing, PfRequest, PfLockRead, PfLockSet, PfReadHeader, PfReadPayload,
         PfFlush, PfWriteHeader, PfWritePayload, PfKick, PfRelease, PfAck, PfTimeout,
           PfServe, PfStep
  <2>4. phaseBar' = phaseBar \/ (phaseBar = "asked" /\ phaseBar' = "served")
    BY <1>1, <2>2, <2>3 DEF PhaseOf
  <2> QED BY <1>2, <2>4 DEF Service!Next, Service!Serve, Strict
<1> QED BY <1>3, <1>4

\* Whatever the number of callers and requests and whichever protocol: if every caller
\* holds mbx_lock, what the caller sees of the buffer and the bits of ixgbe_mbx.c is one
\* exchange at a time, in which the PF acts before its answer is taken; a patient caller
\* that no control message crosses never fails.
THEOREM MailboxIsExchange ==
  ASSUME Unlocked = {}
  PROVE  Spec => ImplementsExchange
<1>1. Init => MailboxInv /\ Service!Init
  <2> SUFFICES ASSUME Init PROVE MailboxInv /\ Service!Init
    OBVIOUS
  <2>1. MailboxInv
    BY MailboxInit DEF MailboxInv
  <2>2. Strict \in BOOLEAN
    BY Zenon DEF Strict
  <2>3. callerBar = None /\ phaseBar = "none"
    BY DEF Init, callerBar, phaseBar, InExchange
  <2> QED BY <2>1, <2>2, <2>3 DEF Service!Init, Strict
<1>2. MailboxInv /\ [Next]_vars => MailboxInv'
  BY MailboxStep
<1>3. MailboxInv /\ MailboxInv' /\ [Next]_vars => [Service!Next]_<<Strict, callerBar, phaseBar>>
  <2> SUFFICES ASSUME MailboxInv, MailboxInv', [Next]_vars
               PROVE  [Service!Next]_<<Strict, callerBar, phaseBar>>
    OBVIOUS
  <2>1. CASE Vf
    BY <2>1, VfExchange DEF Vf
  <2>2. CASE PfPing \/ PfStep
    BY <2>2, PfExchange
  <2>3. CASE UNCHANGED vars
    BY <2>3 DEF vars, vfVars, pfVars, Strict, callerBar, phaseBar, InExchange
  <2> QED BY <2>1, <2>2, <2>3 DEF Next
<1> QED BY <1>1, <1>2, <1>3, PTL DEF Spec, ImplementsExchange, Service!Spec, Strict

=============================================================================
