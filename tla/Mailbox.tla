------------------------------- MODULE Mailbox ------------------------------
(***************************************************************************)
(* The mailbox between the VF driver and the PF driver (src/ixgbe_mbx.c):  *)
(* a shared buffer, a lock bit for each side, and request, status and      *)
(* acknowledge bits that each side raises for the other.                   *)
(*                                                                         *)
(* The VF's callers are threads that should hold mbx_lock; each sends a    *)
(* request and waits for the reply (ixgbevf_write_msg_read_ack), or looks  *)
(* for a message it did not ask for (ixgbe_check_mac_link_vf).  The PF     *)
(* takes requests, replies, and sends control messages.  Waits give up     *)
(* when their countdown ends.  A message is a header and one payload word, *)
(* written and read separately; both carry the number of the request, which*)
(* the drivers do not see: they tell messages apart by the type alone.     *)
(* The payload of an answer differs from the payload of its request.       *)
(*                                                                         *)
(* The bits the VF reads are cleared by reading, and the driver keeps what *)
(* it has read in hw->mbx.vf_mailbox; sts and ack stand for both together. *)
(***************************************************************************)
EXTENDS Integers

CONSTANTS
  Threads,   \* callers in the VF driver
  Unlocked,  \* those that call without mbx_lock (ixgbe_reset_hw_vf is one)
  Modes,     \* the ways of working to look at, see Mode
  MaxReq,    \* bound on the number of requests
  None       \* nobody

\* Both sides use the legacy operations or both the newer ones; a wait can time out
\* early, although the other side would still answer, or only when it never will; and
\* the PF sends control messages of its own accord, or does not.
Mode == [legacy : BOOLEAN, early : BOOLEAN, pings : BOOLEAN]

ASSUME MailboxAssumption ==
  Unlocked \subseteq Threads /\ MaxReq \in Nat /\ None \notin Threads /\ Modes \subseteq Mode

VARIABLES
  mode,         \* never changes
  vfu, pfu,     \* VFMAILBOX.VFU, PFU: the buffer is locked by the VF, by the PF
  sts, ack,     \* PFSTS, PFACK: the PF has written a message, has taken one
  req, vack,    \* VFREQ, VFACK of PFMBICR: the same from the VF to the PF
  hdr, pay,     \* the buffer
  mlock,        \* holder of mbx_lock
  pc, n,        \* each thread, and the number of its request (0: none)
  rhdr, rpay,   \* what it has read
  next,         \* number of the next request
  ppc, phdr, ppay, pout,  \* the PF, what it has read, and the message it writes
  taken         \* requests the PF has read

bits == <<vfu, pfu, sts, ack, req, vack>>
buffer == <<hdr, pay>>
vfVars == <<mlock, pc, n, rhdr, rpay, next>>
pfVars == <<ppc, phdr, ppay, pout, taken>>
vars == <<mode, bits, buffer, vfVars, pfVars>>

legacy == mode.legacy

Msg(kind, k) == [kind |-> kind, n |-> k]
NoMsg == Msg("none", 0)

\* the payload of the reply to request k
Answer(k) == MaxReq + k

Init ==
  /\ mode \in Modes
  /\ vfu = FALSE /\ pfu = FALSE
  /\ sts = FALSE /\ ack = FALSE /\ req = FALSE /\ vack = FALSE
  /\ hdr = NoMsg /\ pay = 0
  /\ mlock = None /\ next = 1
  /\ pc = [t \in Threads |-> "idle"] /\ n = [t \in Threads |-> 0]
  /\ rhdr = [t \in Threads |-> NoMsg] /\ rpay = [t \in Threads |-> 0]
  /\ ppc = "idle" /\ phdr = NoMsg /\ ppay = 0 /\ pout = NoMsg
  /\ taken = {}

-----------------------------------------------------------------------------
(* The VF.                                                                 *)

Goto(t, label) == pc' = [pc EXCEPT ![t] = label]

\* spin_lock_bh(&adapter->mbx_lock), if the caller does
Enter(t) ==
  /\ pc[t] = "idle"
  /\ IF t \in Unlocked THEN UNCHANGED mlock ELSE mlock = None /\ mlock' = t

\* ixgbe_write_mbx
VfCall(t) ==
  /\ Enter(t) /\ next <= MaxReq
  /\ n' = [n EXCEPT ![t] = next] /\ next' = next + 1
  /\ rhdr' = [rhdr EXCEPT ![t] = NoMsg] /\ rpay' = [rpay EXCEPT ![t] = 0]
  /\ Goto(t, "lock")
  /\ UNCHANGED <<mode, bits, buffer, pfVars>>

\* The read at the end of ixgbe_check_mac_link_vf: one word, if there is a message
\* (the legacy read does not look).
VfLinkRead(t) ==
  /\ Enter(t)
  /\ n' = [n EXCEPT ![t] = 0]
  /\ rhdr' = [rhdr EXCEPT ![t] = NoMsg] /\ rpay' = [rpay EXCEPT ![t] = 0]
  /\ Goto(t, IF legacy THEN "rlock" ELSE "rcheck")
  /\ UNCHANGED <<mode, bits, buffer, next, pfVars>>

\* "Check if other thread holds the VF lock or it is held by the PF"
BufferFree == ~vfu /\ ~pfu

\* ixgbe_obtain_mbx_lock_vf reads the register ...
VfLockRead(t) ==
  /\ pc[t] \in {"lock", "rlock"} /\ BufferFree
  /\ Goto(t, IF pc[t] = "lock" THEN "lockset" ELSE "rlockset")
  /\ UNCHANGED <<mode, bits, buffer, mlock, n, rhdr, rpay, next, pfVars>>

\* Mutant: the owner is not verified.
VfLockSetBlind(t) ==
  /\ pc[t] \in {"lockset", "rlockset"}
  /\ vfu' = (vfu \/ ~pfu)
  /\ Goto(t, IF pc[t] = "lockset" THEN "flush" ELSE "r0")
  /\ UNCHANGED <<mode, pfu, sts, ack, req, vack, buffer, mlock, n, rhdr, rpay, next, pfVars>>

\* ... and sets VFU, which the hardware ignores if the PF was faster; it reads it
\* back and tries again then.
VfLockSet(t) ==
  /\ pc[t] \in {"lockset", "rlockset"}
  /\ vfu' = (vfu \/ ~pfu)
  /\ Goto(t, IF pc[t] = "lockset" THEN IF vfu' THEN "flush" ELSE "lock"
                                   ELSE IF vfu' THEN "r0" ELSE "rlock")
  /\ UNCHANGED <<mode, pfu, sts, ack, req, vack, buffer, mlock, n, rhdr, rpay, next, pfVars>>

\* ixgbe_clear_msg_vf, ixgbe_clear_ack_vf
Flushed == sts' = FALSE /\ ack' = FALSE

VfFlush(t) ==
  /\ pc[t] = "flush"
  /\ Flushed
  /\ Goto(t, "w0")
  /\ UNCHANGED <<mode, vfu, pfu, req, vack, buffer, mlock, n, rhdr, rpay, next, pfVars>>

VfWriteHeader(t) ==
  /\ pc[t] = "w0"
  /\ hdr' = Msg("req", n[t])
  /\ Goto(t, "w1")
  /\ UNCHANGED <<mode, bits, pay, mlock, n, rhdr, rpay, next, pfVars>>

VfWritePayload(t) ==
  /\ pc[t] = "w1"
  /\ pay' = n[t]
  /\ Goto(t, "kick")
  /\ UNCHANGED <<mode, bits, hdr, mlock, n, rhdr, rpay, next, pfVars>>

\* REQ is set; the legacy write clears VFU with the same register write and does
\* not wait for an acknowledgement.
VfKick(t) ==
  /\ pc[t] = "kick"
  /\ req' = TRUE
  /\ vfu' = IF legacy THEN FALSE ELSE vfu
  /\ Goto(t, IF legacy THEN "msgwait" ELSE "release")
  /\ UNCHANGED <<mode, pfu, sts, ack, vack, buffer, mlock, n, rhdr, rpay, next, pfVars>>

\* ixgbe_release_mbx_lock_vf
VfRelease(t) ==
  /\ pc[t] = "release"
  /\ vfu' = FALSE
  /\ Goto(t, "ackwait")
  /\ UNCHANGED <<mode, pfu, sts, ack, req, vack, buffer, mlock, n, rhdr, rpay, next, pfVars>>

\* ixgbe_poll_for_ack: ixgbe_check_for_ack_vf clears the bit it finds.
VfAck(t) ==
  /\ pc[t] = "ackwait" /\ ack
  /\ ack' = FALSE
  /\ Goto(t, "msgwait")
  /\ UNCHANGED <<mode, vfu, pfu, sts, req, vack, buffer, mlock, n, rhdr, rpay, next, pfVars>>

\* ixgbe_poll_for_msg; the legacy read locks the buffer and leaves PFSTS as it is.
VfMsg(t) ==
  /\ pc[t] = "msgwait" /\ sts
  /\ Goto(t, IF legacy THEN "rlock" ELSE "rcheck")
  /\ UNCHANGED <<mode, bits, buffer, mlock, n, rhdr, rpay, next, pfVars>>

\* ixgbe_read_mbx_vf: no message, no read.
VfReadCheck(t) ==
  /\ pc[t] = "rcheck"
  /\ sts' = FALSE
  /\ Goto(t, IF sts THEN "r0" ELSE "return")
  /\ UNCHANGED <<mode, vfu, pfu, ack, req, vack, buffer, mlock, n, rhdr, rpay, next, pfVars>>

VfReadHeader(t) ==
  /\ pc[t] = "r0"
  /\ rhdr' = [rhdr EXCEPT ![t] = hdr]
  /\ Goto(t, IF n[t] = 0 THEN "sendack" ELSE "r1")
  /\ UNCHANGED <<mode, bits, buffer, mlock, n, rpay, next, pfVars>>

VfReadPayload(t) ==
  /\ pc[t] = "r1"
  /\ rpay' = [rpay EXCEPT ![t] = pay]
  /\ Goto(t, "sendack")
  /\ UNCHANGED <<mode, bits, buffer, mlock, n, rhdr, next, pfVars>>

\* Acknowledge; the legacy read clears VFU with the same register write.
VfSendAck(t) ==
  /\ pc[t] = "sendack"
  /\ vack' = TRUE
  /\ vfu' = IF legacy THEN FALSE ELSE vfu
  /\ Goto(t, "done")
  /\ UNCHANGED <<mode, pfu, sts, ack, req, buffer, mlock, n, rhdr, rpay, next, pfVars>>

\* Nothing the PF is doing will end a wait of the VF, and the other way round.
PfStuck == (ppc = "idle" /\ ~req) \/ (ppc = "ackwait" /\ ~vack)
VfStuck == \A t \in Threads :
  \/ pc[t] = "idle"
  \/ pc[t] = "ackwait" /\ ~ack
  \/ pc[t] = "msgwait" /\ ~sts

\* Mutant: the wait for the acknowledgement has no countdown.
VfTimeoutNotAck(t) ==
  /\ \/ mode.early /\ pc[t] \in {"lock", "rlock", "ackwait", "msgwait"}
     \/ mode.pings /\ pc[t] \in {"lock", "rlock"} /\ pfu
     \/ pc[t] = "msgwait" /\ ~sts /\ PfStuck
  /\ Goto(t, "return")
  /\ UNCHANGED <<mode, bits, buffer, mlock, n, rhdr, rpay, next, pfVars>>

\* A countdown ends; the call fails.  A PF that keeps sending can also keep the VF
\* from the buffer.
VfTimeout(t) ==
  /\ \/ mode.early /\ pc[t] \in {"lock", "rlock", "ackwait", "msgwait"}
     \/ mode.pings /\ pc[t] \in {"lock", "rlock"} /\ pfu
     \/ pc[t] = "ackwait" /\ ~ack /\ PfStuck
     \/ pc[t] = "msgwait" /\ ~sts /\ PfStuck
  /\ Goto(t, "return")
  /\ UNCHANGED <<mode, bits, buffer, mlock, n, rhdr, rpay, next, pfVars>>

\* The caller has its answer, or an error, and drops mbx_lock.
VfReturn(t) ==
  /\ pc[t] \in {"done", "return"}
  /\ mlock' = IF mlock = t THEN None ELSE mlock
  /\ n' = [n EXCEPT ![t] = 0]
  /\ rhdr' = [rhdr EXCEPT ![t] = NoMsg] /\ rpay' = [rpay EXCEPT ![t] = 0]
  /\ Goto(t, "idle")
  /\ UNCHANGED <<mode, bits, buffer, next, pfVars>>

-----------------------------------------------------------------------------
(* The PF side of the same file, and when the PF driver uses it.           *)

\* The PF driver sees a request and reads it: ixgbe_read_mbx_pf clears it first,
\* the legacy read locks the buffer instead.
PfRequest ==
  /\ ppc = "idle" /\ req
  /\ req' = IF legacy THEN req ELSE FALSE
  /\ ppc' = IF legacy THEN "rlock" ELSE "r0"
  /\ UNCHANGED <<mode, vfu, pfu, sts, ack, vack, buffer, vfVars, phdr, ppay, pout, taken>>

\* The PF driver pings its VFs (the link has changed, the PF comes and goes).
PfPing ==
  /\ mode.pings /\ ppc = "idle"
  /\ pout' = Msg("ping", 0) /\ ppc' = "lock"
  /\ UNCHANGED <<mode, bits, buffer, vfVars, phdr, ppay, taken>>

\* ixgbe_obtain_mbx_lock_pf, with the same test, set and read back
PfLockRead ==
  /\ ppc \in {"lock", "rlock"} /\ BufferFree
  /\ ppc' = IF ppc = "lock" THEN "lockset" ELSE "rlockset"
  /\ UNCHANGED <<mode, bits, buffer, vfVars, phdr, ppay, pout, taken>>

PfLockSet ==
  /\ ppc \in {"lockset", "rlockset"}
  /\ pfu' = ~vfu
  /\ ppc' = IF ppc = "lockset" THEN IF pfu' THEN "flush" ELSE "lock"
                               ELSE IF pfu' THEN "r0" ELSE "rlock"
  /\ UNCHANGED <<mode, vfu, sts, ack, req, vack, buffer, vfVars, phdr, ppay, pout, taken>>

PfReadHeader ==
  /\ ppc = "r0"
  /\ phdr' = hdr /\ ppc' = "r1"
  /\ UNCHANGED <<mode, bits, buffer, vfVars, ppay, pout, taken>>

PfReadPayload ==
  /\ ppc = "r1"
  /\ ppay' = pay /\ ppc' = "sendack"
  /\ UNCHANGED <<mode, bits, buffer, vfVars, phdr, pout, taken>>

\* Mutant: the request is served without an acknowledgement.
PfServeNoAck ==
  /\ ppc = "sendack"
  /\ pfu' = IF legacy THEN FALSE ELSE pfu
  /\ taken' = IF phdr.kind = "req" /\ phdr.n = ppay THEN taken \cup {ppay} ELSE taken
  /\ pout' = Msg("rep", phdr.n)
  /\ ppc' = "lock"
  /\ phdr' = NoMsg /\ ppay' = 0
  /\ UNCHANGED <<mode, vfu, sts, ack, req, vack, buffer, vfVars>>

\* The PF acknowledges, does what it was asked to, and replies with the type of the
\* request.  The legacy read clears PFU with the same register write.
PfServe ==
  /\ ppc = "sendack"
  /\ ack' = TRUE
  /\ pfu' = IF legacy THEN FALSE ELSE pfu
  /\ taken' = IF phdr.kind = "req" /\ phdr.n = ppay THEN taken \cup {ppay} ELSE taken
  /\ pout' = Msg("rep", phdr.n)
  /\ ppc' = "lock"
  /\ phdr' = NoMsg /\ ppay' = 0
  /\ UNCHANGED <<mode, vfu, sts, req, vack, buffer, vfVars>>

\* ixgbe_clear_msg_pf, ixgbe_clear_ack_pf
PfFlush ==
  /\ ppc = "flush"
  /\ req' = FALSE /\ vack' = FALSE
  /\ ppc' = "w0"
  /\ UNCHANGED <<mode, vfu, pfu, sts, ack, buffer, vfVars, phdr, ppay, pout, taken>>

\* Mutant: the last word of the message is not copied.
PfWriteHeaderOnly ==
  /\ ppc = "w0"
  /\ hdr' = pout
  /\ ppc' = "kick"
  /\ UNCHANGED <<mode, bits, pay, vfVars, phdr, ppay, pout, taken>>

\* A ping is one word.
PfWriteHeader ==
  /\ ppc = "w0"
  /\ hdr' = pout
  /\ ppc' = IF pout.kind = "ping" THEN "kick" ELSE "w1"
  /\ UNCHANGED <<mode, bits, pay, vfVars, phdr, ppay, pout, taken>>

PfWritePayload ==
  /\ ppc = "w1"
  /\ pay' = Answer(pout.n)
  /\ ppc' = "kick"
  /\ UNCHANGED <<mode, bits, hdr, vfVars, phdr, ppay, pout, taken>>

\* STS is set; the legacy write clears PFU with the same register write.
PfKick ==
  /\ ppc = "kick"
  /\ sts' = TRUE
  /\ pfu' = IF legacy THEN FALSE ELSE pfu
  /\ ppc' = IF legacy THEN "idle" ELSE "release"
  /\ pout' = IF legacy THEN NoMsg ELSE pout
  /\ UNCHANGED <<mode, vfu, ack, req, vack, buffer, vfVars, phdr, ppay, taken>>

\* ixgbe_release_mbx_lock_pf
PfRelease ==
  /\ ppc = "release"
  /\ pfu' = FALSE
  /\ ppc' = "ackwait"
  /\ UNCHANGED <<mode, vfu, sts, ack, req, vack, buffer, vfVars, phdr, ppay, pout, taken>>

\* The VF is clear to send, so the PF waits for its acknowledgement.
PfAck ==
  /\ ppc = "ackwait" /\ vack
  /\ vack' = FALSE
  /\ ppc' = "idle" /\ pout' = NoMsg
  /\ UNCHANGED <<mode, vfu, pfu, sts, ack, req, buffer, vfVars, phdr, ppay, taken>>

PfTimeout ==
  /\ \/ mode.early /\ ppc \in {"lock", "rlock", "ackwait"}
     \/ ppc = "ackwait" /\ ~vack /\ VfStuck
  /\ ppc' = "idle" /\ pout' = NoMsg
  /\ UNCHANGED <<mode, bits, buffer, vfVars, phdr, ppay, taken>>

-----------------------------------------------------------------------------
VfStep(t) ==
  \/ VfLockRead(t) \/ VfLockSet(t) \/ VfFlush(t) \/ VfWriteHeader(t) \/ VfWritePayload(t)
  \/ VfKick(t) \/ VfRelease(t) \/ VfAck(t) \/ VfMsg(t) \/ VfReadCheck(t)
  \/ VfReadHeader(t) \/ VfReadPayload(t) \/ VfSendAck(t) \/ VfTimeout(t) \/ VfReturn(t)

Vf == \E t \in Threads : VfCall(t) \/ VfLinkRead(t) \/ VfStep(t)

PfStep ==
  \/ PfRequest \/ PfLockRead \/ PfLockSet \/ PfReadHeader \/ PfReadPayload \/ PfServe
  \/ PfFlush \/ PfWriteHeader \/ PfWritePayload \/ PfKick \/ PfRelease \/ PfAck \/ PfTimeout

Next == Vf \/ PfPing \/ PfStep

Spec == Init /\ [][Next]_vars

\* Each caller runs in its own context, and the PF on its own processor; a countdown
\* ends even if what it waits for comes and goes (strong fairness).
Fairness ==
  /\ \A t \in Threads : WF_vars(VfStep(t)) /\ SF_vars(VfTimeout(t))
  /\ WF_vars(PfStep)
FairSpec == Spec /\ Fairness

-----------------------------------------------------------------------------
(* Properties.                                                             *)

Labels == {"idle", "lock", "lockset", "flush", "w0", "w1", "kick", "release", "ackwait",
           "msgwait", "rlock", "rlockset", "rcheck", "r0", "r1", "sendack", "done", "return"}
Word == [kind : {"none", "req", "rep", "ping"}, n : 0 .. MaxReq]

\* Type invariant of the registers, the buffer and both drivers; the PF never reads
\* the payload of an answer of its own.
TypeOK ==
  /\ {vfu, pfu, sts, ack, req, vack} \subseteq BOOLEAN
  /\ mode \in Mode /\ hdr \in Word /\ pay \in 0 .. 2 * MaxReq
  /\ mlock \in Threads \cup {None} /\ next \in 1 .. MaxReq + 1
  /\ pc \in [Threads -> Labels]
  /\ n \in [Threads -> 0 .. MaxReq]
  /\ rhdr \in [Threads -> Word] /\ rpay \in [Threads -> 0 .. 2 * MaxReq]
  /\ ppc \in {"idle", "rlock", "rlockset", "r0", "r1", "sendack", "lock", "lockset", "flush",
              "w0", "w1", "kick", "release", "ackwait"}
  /\ phdr \in Word /\ ppay \in 0 .. MaxReq /\ pout \in Word
  /\ taken \subseteq 1 .. MaxReq

\* places where a side is writing the buffer, or has the right to
VfOwns(t) == pc[t] \in {"flush", "w0", "w1", "kick", "release"}
               \/ (legacy /\ pc[t] \in {"r0", "r1", "sendack"})
PfOwns == ppc \in {"flush", "w0", "w1", "kick", "release"}
               \/ (legacy /\ ppc \in {"r0", "r1", "sendack"})

\* Why they cannot meet: a call is in progress only under mbx_lock, the buffer is
\* touched only under one's own lock bit, and the two bits exclude each other.
LockInv ==
  /\ pc \in [Threads -> Labels] /\ vfu \in BOOLEAN /\ pfu \in BOOLEAN
  /\ \A t \in Threads : pc[t] # "idle" => mlock = t
  /\ \A t \in Threads : legacy => pc[t] # "rcheck"
  /\ \A t \in Threads : VfOwns(t) => vfu
  /\ PfOwns => pfu
  /\ ~(vfu /\ pfu)

\* The lock bits keep the two sides, and the VF's callers, from writing the
\* buffer together.
BufferExclusive ==
  /\ \A t \in Threads : VfOwns(t) => ~PfOwns
  /\ \A t, u \in Threads : VfOwns(t) /\ VfOwns(u) => t = u

\* A caller that takes a message for the reply to its request (the header says so)
\* has the whole reply to this very request, as long as no wait ends early; with the
\* legacy operations, which hold the buffer while they read, control messages may cross.
ReplyMatches ==
  ~mode.early /\ (mode.pings => legacy) =>
    \A t \in Threads : pc[t] = "done" /\ rhdr[t].kind = "rep" /\ n[t] # 0
                         => rhdr[t].n = n[t] /\ rpay[t] = Answer(n[t])

\* ixgbe_write_mbx "received an ACK to that message": when the wait for the
\* acknowledgement ends the PF has read this very request, as long as no wait ends early
\* and no control message crosses it.
AckMeansTaken ==
  ~mode.early /\ ~mode.pings =>
    \A t \in Threads : pc[t] = "msgwait" /\ ~legacy => n[t] \in taken

\* A request that no control message crosses and no early timeout cuts short is
\* answered: the two waits, for the acknowledgement and for the reply, both end well.
RequestAnswered ==
  \A t \in Threads :
    (pc[t] = "lock" /\ n[t] # 0 /\ ~mode.early /\ ~mode.pings) ~> (pc[t] = "done")

\* When a control message and a request cross, each side waits for an acknowledgement
\* that the other, waiting itself, does not send; a PF can send for ever and keep the
\* buffer busy.  Every call that has entered the mailbox code still comes back and drops
\* mbx_lock.
WaitsEnd == \A t \in Threads : (pc[t] # "idle") ~> (pc[t] = "idle")

\* What ixgbe_write_mbx takes for the acknowledgement of a request, and ixgbe_poll_mbx for
\* the reply to it, is that.
AnswersMatch == TypeOK /\ ReplyMatches /\ AckMeansTaken

\* No call stays in the mailbox code for ever, and one that is left alone ends with its
\* answer.
RequestsEnd == RequestAnswered /\ WaitsEnd
=============================================================================
