------------------------- MODULE TxRingQueueProofs --------------------------
(* What TxRing promises the network stack, for every ring and packet size: *)
(* no socket buffer and no DMA mapping is lost or given up twice, and the  *)
(* ring implements the first-in first-out queue of TxQueue.                *)
EXTENDS TxRingProofs, TxRingQueue


\* a packet starts at i; and while an xmit call holds its frame outside the ring
Start(i) == apc # "down" /\ ntw[i] # None
InFlight == xpc \in {"stop", "recheck", "build", "map", "watch"}

\* SkbOwnership socket buffer by socket buffer, with what makes it inductive: the
\* frame being built is the one `first` holds.
Owned ==
  /\ InFlight => xskb \in Skbs
  /\ xpc \in {"map", "watch"} => skb[first] = xskb
  /\ \A s \in Skbs : owner[s] = "driver" <=>
       (InFlight /\ xskb = s) \/ \E i \in Slot : Start(i) /\ skb[i] = s
  /\ \A i \in Slot : Start(i) => skb[i] \in Skbs /\ (InFlight => skb[i] # xskb)
  /\ \A i, j \in Slot : Start(i) /\ Start(j) /\ skb[i] = skb[j] => i = j

\* The packets are linked: each but the first, and the end of the last, comes right
\* after another.  This is why the walk of ixgbevf_clean_tx_ring meets them all.
Chained ==
  \A i \in Slot : (ntw[i] # None \/ i = FrameEnd) /\ i # CleanPos =>
    \E j \in Slot : ntw[j] # None /\ Nxt(ntw[j]) = i

\* The inductive invariant, next to TypeOK and RingInv.
LossInv == Owned /\ NoLeakedMapping /\ (apc # "down" => Chained)

-----------------------------------------------------------------------------
\* A packet starts before the end of the packets, so that none starts there.
LEMMA StartsBehind ==
  ASSUME TypeRing, Core
  PROVE  /\ \A i \in Slot : ntw[i] # None => Dist(CleanPos, i) < Dist(CleanPos, FrameEnd)
         /\ ntw[FrameEnd] = None
<1>1. CleanPos \in Slot /\ FrameEnd \in Slot /\ Count \in Nat
  BY PosTypes, CountAssumption
<1>2. ASSUME NEW i \in Slot, ntw[i] # None PROVE Dist(CleanPos, i) < Dist(CleanPos, FrameEnd)
  <2>1. ntw[i] \in Slot
    BY <1>2 DEF TypeRing
  <2>2. /\ Dist(CleanPos, i) \in Nat /\ Dist(CleanPos, ntw[i]) \in Nat
        /\ Dist(CleanPos, FrameEnd) \in Nat
    BY <1>1, <2>1, DistBasics
  <2> QED BY <1>2, <2>2 DEF Core, Framing
<1>3. Dist(CleanPos, FrameEnd) \in Nat
  BY <1>1, DistBasics
<1> QED BY <1>1, <1>2, <1>3

\* The slot a frame is built in starts no packet.
LEMMA BuildsOutside ==
  ASSUME TypeRing, Core
  PROVE  /\ xpc \in {"map", "watch"} => ntw[first] = None
         /\ xpc \notin {"map", "watch"} => ntw[ntu] = None
BY StartsBehind DEF FrameEnd

-----------------------------------------------------------------------------
(* Socket buffers.                                                         *)

\* Steps that leave the packets, the owners and the frame in flight alone.
LEMMA OwnedQuiet ==
  ASSUME Owned, UNCHANGED <<ntw, skb, owner>>, apc' = "down" <=> apc = "down",
         \/ UNCHANGED <<xpc, xskb, first>>
         \/ xpc' \notin {"map", "watch"} /\ InFlight /\ InFlight' /\ xskb' = xskb
         \/ xpc = "map" /\ xpc' = "watch" /\ UNCHANGED <<xskb, first>>
         \/ ~InFlight /\ ~InFlight'
  PROVE  Owned'
BY DEF Owned, Start, InFlight

\* An xmit call gives its frame up: it was in no packet.
LEMMA OwnedDrop ==
  ASSUME Owned, TypeOK, InFlight, NEW i \in Slot, ~Start(i), UNCHANGED <<ntw, apc>>,
         skb' = [skb EXCEPT ![i] = None] \/ skb' = skb, FreeSkb(xskb), xpc' = "idle"
  PROVE  Owned'
<1>1. \A j \in Slot : Start(j) => skb'[j] = skb[j]
  BY DEF TypeOK, TypeRing
<1>2. \A j \in Slot : Start(j)' <=> Start(j)
  BY DEF Start
<1>3. \A s \in Skbs : owner'[s] = IF s = xskb THEN "stack" ELSE owner[s]
  BY DEF FreeSkb, TypeOK, TypeControl
<1> QED BY <1>1, <1>2, <1>3 DEF Owned, InFlight

\* Every step keeps each buffer the driver holds in one place.
LEMMA OwnedStep ==
  ASSUME TypeOK, Quiesced, Owned, apc # "down" => Core /\ Chained, [Next]_vars
  PROVE  Owned'
<1> USE DEF ringVars, hwVars, xVars, cVars, hangVars, admVars
<1>t. TypeRing /\ TypeControl
  BY DEF TypeOK
<1>d. xpc # "idle" => apc # "down"
  BY DEF Quiesced
<1>1. ASSUME NEW s \in Skbs, NEW n \in 1 .. MaxData, NEW ctx \in Ctxs, NEW more \in Mores,
             NEW map \in Mappings(n), XmitCall(s, n, map, ctx, more)
      PROVE Owned'
  <2>1. ~InFlight /\ InFlight' /\ xskb' = s /\ owner[s] = "stack" /\ xpc' \notin {"map", "watch"}
    BY <1>1 DEF XmitCall, InFlight
  <2>2. \A i \in Slot : (Start(i)' <=> Start(i)) /\ skb'[i] = skb[i]
    BY <1>1 DEF XmitCall, Start
  <2>3. \A r \in Skbs : owner'[r] = IF r = s THEN "driver" ELSE owner[r]
    BY <1>1, <1>t DEF XmitCall, TypeControl
  <2>4. \A i \in Slot : Start(i) => skb[i] # s
    BY <2>1 DEF Owned
  <2> QED BY <2>1, <2>2, <2>3, <2>4 DEF Owned
<1>2. CASE XmitStop \/ XmitStopCheck \/ XmitStopRecheck
  BY <1>2, OwnedQuiet DEF XmitStop, XmitStopCheck, XmitStopRecheck, InFlight
<1>3. CASE XmitRecheck
  <2>1. CASE RoomFor(xn + Gap)
    BY <1>3, <2>1, OwnedQuiet DEF XmitRecheck, InFlight
  <2>2. CASE ~RoomFor(xn + Gap)
    <3>1. InFlight /\ xpc = "recheck" /\ FreeSkb(xskb) /\ xpc' = "idle" /\ UNCHANGED <<ntw, apc, skb>>
      BY <1>3, <2>2 DEF XmitRecheck, XmitReturn, InFlight, FreeSkb
    <3>2. ntu \in Slot /\ ~Start(ntu)
      BY <1>t, <1>d, <3>1, BuildsOutside DEF TypeRing, Start
    <3> QED BY <3>1, <3>2, OwnedDrop
  <2> QED BY <2>1, <2>2
<1>4. CASE XmitBuild
  <2>1. xpc = "build" /\ xpc' = "map" /\ first' = ntu /\ skb' = [skb EXCEPT ![ntu] = xskb]
        /\ UNCHANGED <<ntw, apc, owner, xskb>> /\ InFlight /\ InFlight'
    BY <1>4 DEF XmitBuild, InFlight
  <2>2. ntu \in Slot /\ ntw[ntu] = None
    BY <1>t, <1>d, <2>1, BuildsOutside DEF TypeRing
  <2>3. \A i \in Slot : (Start(i)' <=> Start(i)) /\ (Start(i) => skb'[i] = skb[i])
    BY <1>t, <2>1, <2>2 DEF Start, TypeRing
  <2>4. skb'[first'] = xskb'
    BY <1>t, <2>1, <2>2 DEF TypeRing
  <2> QED BY <2>1, <2>3, <2>4 DEF Owned
<1>5. CASE XmitOutDrop
  <2>1. InFlight /\ xpc = "build" /\ FreeSkb(xskb) /\ xpc' = "idle" /\ UNCHANGED <<ntw, apc>>
        /\ skb' = [skb EXCEPT ![ntu] = None]
    BY <1>5 DEF XmitOutDrop, XmitReturn, InFlight
  <2>2. ntu \in Slot /\ ~Start(ntu)
    BY <1>t, <1>d, <2>1, BuildsOutside DEF TypeRing, Start
  <2> QED BY <2>1, <2>2, OwnedDrop
<1>6. CASE XmitMap
  BY <1>6, OwnedQuiet DEF XmitMap
<1>7. ASSUME NEW k \in 1 .. MaxData, XmitDmaError(k) PROVE Owned'
  <2>1. InFlight /\ xpc = "map" /\ FreeSkb(xskb) /\ xpc' = "idle" /\ UNCHANGED <<ntw, apc>>
        /\ skb' = [skb EXCEPT ![first] = None]
    BY <1>7 DEF XmitDmaError, XmitReturn, InFlight
  <2>2. first \in Slot /\ ~Start(first)
    BY <1>t, <1>d, <2>1, BuildsOutside DEF TypeRing, Start
  <2> QED BY <2>1, <2>2, OwnedDrop
<1>8. CASE XmitWatch
  <2>1. xpc = "watch" /\ xpc' = "stopcheck" /\ ntw' = [ntw EXCEPT ![first] = DataSlot(xn)]
        /\ UNCHANGED <<skb, apc, owner, xskb>> /\ InFlight /\ ~InFlight'
    BY <1>8 DEF XmitWatch, InFlight
  <2>2. first \in Slot /\ ntw[first] = None /\ apc # "down" /\ DataSlot(xn) # None
    BY <1>t, <1>d, <2>1, BuildsOutside, DataSlotType, NoneAssumption DEF TypeRing
  <2>3. \A i \in Slot : Start(i)' <=> Start(i) \/ i = first
    BY <1>t, <2>1, <2>2 DEF Start, TypeRing
  <2>4. skb[first] = xskb /\ xskb \in Skbs
    BY <2>1 DEF Owned
  <2> QED BY <2>1, <2>2, <2>3, <2>4 DEF Owned
<1>9. ASSUME NEW bql \in BOOLEAN, XmitTail(bql) PROVE Owned'
  BY <1>9, OwnedQuiet DEF XmitTail, XmitReturn, InFlight
<1>10. CASE CleanPacket
  <2>1. ntw[ci] # None /\ ntw' = [ntw EXCEPT ![ci] = None] /\ FreeSkb(skb[ci])
        /\ UNCHANGED <<skb, apc, xpc, xskb, first>> /\ (InFlight' <=> InFlight)
    BY <1>10 DEF CleanPacket, PacketDone, InFlight
  <2>2. ci \in Slot /\ apc # "down"
    BY <1>t, <1>10 DEF CleanPacket, TypeRing, Quiesced
  <2>3. \A i \in Slot : Start(i)' <=> Start(i) /\ i # ci
    BY <1>t, <2>1, <2>2 DEF Start, TypeRing
  <2>4. Start(ci) /\ skb[ci] \in Skbs
    BY <2>1, <2>2 DEF Start, Owned
  <2>5. \A s \in Skbs : owner'[s] = IF s = skb[ci] THEN "stack" ELSE owner[s]
    BY <1>t, <2>1, <2>4 DEF FreeSkb, TypeControl
  <2> QED BY <2>1, <2>2, <2>3, <2>4, <2>5 DEF Owned
<1>11. CASE CleanStart \/ CleanDone \/ CleanHang \/ CleanWakeTest \/ CleanWakeCheck \/ CleanWake
  BY <1>11, OwnedQuiet DEF CleanStart, CleanDone, CleanHang, CleanWakeTest, CleanWakeCheck,
     CleanWake
<1>12. CASE HwFetch \/ HwStall
  BY <1>12, OwnedQuiet DEF HwFetch, HwStall
<1>13. CASE DownResetClean
  <2>1. xpc = "idle" /\ cpc = "idle" /\ apc # "down" /\ apc' = "down" /\ xpc' = "idle"
    BY <1>13 DEF DownResetClean, Quiesced
  <2>2. \A i \in Slot : ntw[i] # None => i \in PacketStarts
    <3> SUFFICES ASSUME NEW i \in Slot, ntw[i] # None PROVE i \in PacketStarts
      OBVIOUS
    <3>1. CleanPos = ntc /\ FrameEnd = ntu
      BY <2>1 DEF CleanPos, FrameEnd
    <3>2. \A j \in Slot : ntw[j] # None => j \in Between(ntc, ntu)
      BY <1>t, <2>1, <3>1, StartsBehind DEF Between
    <3> QED BY <2>1, <3>1, <3>2 DEF PacketStarts, Chained
  <2>3. \A s \in Skbs : owner'[s] # "driver"
    <3> SUFFICES ASSUME NEW s \in Skbs, owner[s] = "driver" PROVE \E i \in PacketStarts : skb[i] = s
      BY <1>13, <1>t DEF DownResetClean, TypeControl
    <3>1. PICK i \in Slot : Start(i) /\ skb[i] = s
      BY <2>1 DEF Owned, InFlight
    <3> QED BY <2>2, <3>1 DEF Start
  <2> QED BY <2>1, <2>3 DEF Owned, InFlight, Start
<1>14. CASE ConfigureTxRing
  <2>1. apc = "down" /\ xpc = "idle" /\ xpc' = "idle" /\ owner' = owner
        /\ \A i \in Slot : ntw'[i] = None
    BY <1>14 DEF ConfigureTxRing, Quiesced
  <2>2. \A s \in Skbs : owner[s] # "driver"
    BY <2>1 DEF Owned, InFlight, Start
  <2> QED BY <2>1, <2>2 DEF Owned, InFlight, Start
<1>15. CASE UserDown \/ DownStopQueues \/ DownNapiDisable \/ UpComplete
            \/ ServiceReset \/ ServiceHangCheck \/ TxTimeout \/ UNCHANGED vars
  BY <1>15, OwnedQuiet DEF UserDown, DownBegin, DownStopQueues, DownNapiDisable, UpComplete,
                 ServiceReset, ServiceHangCheck, TxTimeout, vars
<1>16. ASSUME NEW up \in BOOLEAN, ServiceLink(up) PROVE Owned'
  BY <1>16, OwnedQuiet DEF ServiceLink
<1> QED
  BY <1>1, <1>2, <1>3, <1>4, <1>5, <1>6, <1>7, <1>8, <1>9, <1>10, <1>11, <1>12, <1>13, <1>14,
     <1>15, <1>16
  DEF Next, Xmit, Clean, Hw, Admin, Service

-----------------------------------------------------------------------------
(* DMA mappings.                                                           *)

\* one past the last slot a mapping may be recorded in
UsedEnd == IF xpc = "watch" THEN Adv(ntu, xn) ELSE ntu

LEMMA LeakQuiet ==
  ASSUME NoLeakedMapping, apc # "down", len' = len, CleanPos' = CleanPos, UsedEnd' = UsedEnd
  PROVE  NoLeakedMapping'
BY DEF NoLeakedMapping, UsedEnd, Between

\* Every mapping an xmit call makes is recorded in its own slots, or undone; what clean
\* leaves behind its position is unmapped.
LEMMA LeakStep ==
  ASSUME TypeRing, Quiesced, Reserved, NoLeakedMapping, apc # "down" => Core, [Next]_vars,
         apc' # "down"
  PROVE  NoLeakedMapping'
<1> USE DEF ringVars, hwVars, xVars, cVars, hangVars, admVars
<1>d. xpc # "idle" \/ cpc # "idle" => apc # "down"
  BY DEF Quiesced
<1>t. /\ CleanPos \in Slot /\ FrameEnd \in Slot /\ ntu \in Slot /\ first \in Slot /\ len \subseteq Slot
      /\ xn \in 1 .. MaxData /\ xn \in Nat /\ Count \in Nat /\ ci \in Slot
      /\ \A j \in Slot : Dist(CleanPos, j) \in Nat
  BY PosTypes, DistBasics, CountAssumption, DataAssumption DEF TypeRing
<1>m. ASSUME xpc \in {"map", "watch"}
      PROVE  /\ Adv(ntu, xn) \in Slot /\ Dist(CleanPos, Adv(ntu, xn)) = Dist(CleanPos, ntu) + xn
             /\ \A k \in 1 .. xn : /\ DataSlot(k) \in Slot
                                    /\ Dist(CleanPos, DataSlot(k)) = Dist(CleanPos, ntu) + k - 1
             /\ Nxt(DataSlot(xn)) \in Slot
             /\ Dist(CleanPos, Nxt(DataSlot(xn))) = Dist(CleanPos, ntu) + xn
             /\ Dist(CleanPos, first) <= Dist(CleanPos, ntu)
             /\ first # ntu => ntu = Nxt(first)
  BY <1>d, <1>m, <1>t, RoomAhead, DistAdv, FrameSlots DEF Core, CursorOrder, FrameEnd
<1>n. apc # "down" /\ xpc # "watch" =>
        \A j \in len : Dist(CleanPos, j) < Dist(CleanPos, ntu)
  BY DEF NoLeakedMapping, Between
<1>1. ASSUME NEW s \in Skbs, NEW n \in 1 .. MaxData, NEW ctx \in Ctxs, NEW more \in Mores,
             NEW map \in Mappings(n), XmitCall(s, n, map, ctx, more)
      PROVE NoLeakedMapping'
  BY <1>1, LeakQuiet DEF XmitCall, CleanPos, UsedEnd
<1>2. CASE XmitStop \/ XmitRecheck \/ XmitOutDrop \/ XmitStopCheck \/ XmitStopRecheck
  <2>1. apc # "down" /\ CleanPos' = CleanPos /\ UsedEnd' = UsedEnd /\ len' = len
    BY <1>2 DEF XmitStop, XmitRecheck, XmitOutDrop, XmitStopCheck, XmitStopRecheck, XmitReturn,
                CleanPos, UsedEnd
  <2> QED BY <2>1, LeakQuiet
<1>3. CASE XmitBuild
  <2>1. xpc = "build" /\ xpc' = "map" /\ (ntu' = ntu \/ ntu' = Nxt(ntu)) /\ len' = len
        /\ CleanPos' = CleanPos /\ apc # "down"
    BY <1>3, <1>d DEF XmitBuild, CleanPos
  <2>2. Dist(CleanPos, Nxt(ntu)) = Dist(CleanPos, ntu) + 1
    BY <1>t, <2>1, RoomAhead, DistNxt DEF Core
  <2>3. \A j \in len' : j \in Slot /\ Dist(CleanPos, j) < Dist(CleanPos, ntu')
    BY <1>t, <1>n, <2>1, <2>2
  <2> QED BY <2>1, <2>3 DEF NoLeakedMapping, Between
<1>4. CASE XmitMap
  <2>1. xpc = "map" /\ xpc' = "watch" /\ CleanPos' = CleanPos /\ apc # "down"
        /\ UNCHANGED <<ntu, xn>> /\ len' = len \cup {BufSlot(k) : k \in Starts}
    BY <1>4, <1>d DEF XmitMap, CleanPos
  <2>2. \A k \in 1 .. xn : BufSlot(k) \in Slot /\ Dist(CleanPos, BufSlot(k)) < Dist(CleanPos, ntu) + xn
    <3> TAKE k \in 1 .. xn
    <3>1. CASE k = 1
      BY <1>t, <1>m, <2>1, <3>1 DEF BufSlot
    <3>2. CASE k # 1
      BY <1>t, <1>m, <2>1, <3>2 DEF BufSlot
    <3> QED BY <3>1, <3>2
  <2>3. \A j \in len' : j \in Slot /\ Dist(CleanPos, j) < Dist(CleanPos, Adv(ntu, xn))
    BY <1>t, <1>n, <1>m, <2>1, <2>2 DEF Starts
  <2> QED BY <2>1, <2>3 DEF NoLeakedMapping, Between
<1>5. ASSUME NEW k \in 1 .. MaxData, XmitDmaError(k) PROVE NoLeakedMapping'
  <2>1. /\ xpc = "map" /\ xpc' = "idle" /\ CleanPos' = CleanPos /\ apc # "down" /\ ntu' = first
        /\ len' = (len \cup {BufSlot(m) : m \in Starts \cap 1 .. k - 1}) \ Undone(k)
    BY <1>5, <1>d DEF XmitDmaError, XmitReturn, CleanPos
  <2>2. k \in Nat /\ \A m \in 1 .. k - 1 : m \in 1 .. k
    OBVIOUS
  <2>3. \A m \in 1 .. k - 1 : BufSlot(m) \in Undone(k)
    BY <2>2 DEF BufSlot, Undone, DataSlots
  <2>4. ASSUME NEW j \in len, j # first PROVE Dist(CleanPos, j) < Dist(CleanPos, first)
    <3>1. Dist(CleanPos, j) < Dist(CleanPos, ntu) /\ j \in Slot
      BY <1>t, <1>n, <2>1
    <3>2. CASE first = ntu
      BY <3>1, <3>2
    <3>3. CASE first # ntu
      <4>1. Dist(CleanPos, first) < Count - 1
        BY <1>t, <1>m, <2>1, <3>3, DistBasics, RoomAhead DEF Core
      <4>2. Dist(CleanPos, ntu) = Dist(CleanPos, first) + 1
        BY <1>t, <1>m, <2>1, <3>3, <4>1, DistNxt
      <4>3. Dist(CleanPos, j) # Dist(CleanPos, first)
        BY <1>t, <2>4, <3>1, DistBasics
      <4> QED BY <1>t, <3>1, <4>2, <4>3
    <3> QED BY <3>2, <3>3
  <2>5. \A j \in len' : j \in Slot /\ Dist(CleanPos, j) < Dist(CleanPos, first)
    BY <1>t, <2>1, <2>3, <2>4 DEF Undone
  <2> QED BY <2>1, <2>5 DEF NoLeakedMapping, Between
<1>6. CASE XmitWatch
  <2>1. xpc = "watch" /\ xpc' = "stopcheck" /\ CleanPos' = CleanPos /\ apc # "down"
        /\ ntu' = Nxt(DataSlot(xn)) /\ len' = len
    BY <1>6, <1>d DEF XmitWatch, CleanPos
  <2>2. \A j \in len : j \in Slot /\ Dist(CleanPos, j) < Dist(CleanPos, Adv(ntu, xn))
    BY <2>1 DEF NoLeakedMapping, Between
  <2>3. Dist(CleanPos, Adv(ntu, xn)) = Dist(CleanPos, ntu')
    BY <1>m, <2>1
  <2> QED BY <2>1, <2>2, <2>3 DEF NoLeakedMapping, Between
<1>7. ASSUME NEW bql \in BOOLEAN, XmitTail(bql) PROVE NoLeakedMapping'
  BY <1>7, LeakQuiet DEF XmitTail, XmitReturn, CleanPos, UsedEnd
<1>8. CASE CleanPacket
  <2> DEFINE last == ntw[CleanPos]
             n == Dist(CleanPos, last) + 1
  <2>1. /\ CleanPos = ci /\ CleanPos' = Nxt(last) /\ UsedEnd' = UsedEnd /\ apc # "down"
        /\ len' = len \ Unmapped(CleanPos) /\ last # None /\ FrameEnd' = FrameEnd
    BY <1>8, <1>d DEF CleanPacket, PacketDone, CleanPos, UsedEnd, FrameEnd
  <2>2. last \in Slot /\ Nxt(last) \in Slot /\ n \in Nat
    BY <1>t, <2>1, DistNxt DEF TypeRing
  <2>3. UsedEnd \in Slot /\ Dist(CleanPos, ntu) <= Dist(CleanPos, UsedEnd)
    BY <1>t, <1>m DEF UsedEnd
  <2>4. Dist(CleanPos, last) < Dist(CleanPos, FrameEnd)
        /\ Dist(CleanPos, FrameEnd) <= Dist(CleanPos, ntu)
    BY <1>t, <2>1 DEF Core, Framing, CursorOrder
  <2>5. Dist(CleanPos, UsedEnd) < Count /\ n <= Dist(CleanPos, UsedEnd) /\ Dist(CleanPos, last) < Count - 1
    BY <1>t, <2>2, <2>3, <2>4, DistBasics
  <2>6. Dist(CleanPos, Nxt(last)) = n
    BY <1>t, <2>2, <2>5, DistNxt
  <2>7. \A j \in len' : j \in Slot /\ Dist(CleanPos, j) >= n /\ Dist(CleanPos, j) < Dist(CleanPos, UsedEnd)
    <3> SUFFICES ASSUME NEW j \in len' PROVE j \in Slot /\ Dist(CleanPos, j) >= n /\ Dist(CleanPos, j) < Dist(CleanPos, UsedEnd)
      OBVIOUS
    <3>1. j \in len /\ j \in Slot /\ ~(Dist(CleanPos, j) <= Dist(CleanPos, last))
      BY <1>t, <2>1 DEF Unmapped
    <3>2. Dist(CleanPos, j) < Dist(CleanPos, UsedEnd)
      BY <2>1, <3>1 DEF NoLeakedMapping, Between, UsedEnd
    <3> QED BY <1>t, <2>2, <3>1, <3>2
  <2>8. \A j \in len' : j \in Slot /\ Dist(Nxt(last), j) < Dist(Nxt(last), UsedEnd)
    <3> HIDE DEF last, n
    <3> SUFFICES ASSUME NEW j \in len' PROVE j \in Slot /\ Dist(Nxt(last), j) < Dist(Nxt(last), UsedEnd)
      OBVIOUS
    <3>1. Dist(Nxt(last), j) = Dist(CleanPos, j) - n
      BY <1>t, <2>2, <2>6, <2>7, DistSplit
    <3>2. Dist(Nxt(last), UsedEnd) = Dist(CleanPos, UsedEnd) - n
      BY <1>t, <2>2, <2>3, <2>5, <2>6, DistSplit
    <3> QED BY <1>t, <2>2, <2>3, <2>7, <3>1, <3>2
  <2> HIDE DEF last, n
  <2> QED BY <2>1, <2>8 DEF NoLeakedMapping, Between, UsedEnd
<1>9. CASE CleanStart \/ CleanDone \/ CleanHang \/ CleanWakeTest \/ CleanWakeCheck \/ CleanWake
  <2>1. apc # "down" /\ CleanPos' = CleanPos /\ UsedEnd' = UsedEnd /\ len' = len
    BY <1>9 DEF CleanStart, CleanDone, CleanHang, CleanWakeTest, CleanWakeCheck, CleanWake,
       CleanReturn,
                 CleanPos, UsedEnd
  <2> QED BY <2>1, LeakQuiet
<1>10. CASE HwFetch \/ HwStall
  BY <1>10, LeakQuiet DEF HwFetch, HwStall, CleanPos, UsedEnd
<1>11. CASE ConfigureTxRing
  BY <1>11 DEF ConfigureTxRing, NoLeakedMapping
<1>12. CASE UserDown \/ DownStopQueues \/ DownNapiDisable \/ DownResetClean \/ UpComplete
            \/ ServiceReset \/ ServiceHangCheck \/ TxTimeout \/ UNCHANGED vars
  <2>1. apc # "down" /\ CleanPos' = CleanPos /\ UsedEnd' = UsedEnd /\ len' = len
    BY <1>12 DEF UserDown, DownBegin, DownStopQueues, DownNapiDisable, DownResetClean, UpComplete,
                 ServiceReset, ServiceHangCheck, TxTimeout, vars, CleanPos, UsedEnd
  <2> QED BY <2>1, LeakQuiet
<1>13. ASSUME NEW up \in BOOLEAN, ServiceLink(up) PROVE NoLeakedMapping'
  BY <1>13, LeakQuiet DEF ServiceLink, CleanPos, UsedEnd
<1> QED
  BY <1>1, <1>2, <1>3, <1>4, <1>5, <1>6, <1>7, <1>8, <1>9, <1>10, <1>11, <1>12, <1>13
  DEF Next, Xmit, Clean, Hw, Admin, Service

-----------------------------------------------------------------------------
(* The chain of packets.                                                   *)

LEMMA ChainQuiet ==
  ASSUME Chained, ntw' = ntw, CleanPos' = CleanPos, FrameEnd' = FrameEnd
  PROVE  Chained'
BY DEF Chained

LEMMA ChainStep ==
  ASSUME TypeRing, Quiesced, apc # "down" => Core /\ Chained, [Next]_vars, apc' # "down"
  PROVE  Chained'
<1> USE DEF ringVars, hwVars, xVars, cVars, hangVars, admVars
<1>d. xpc # "idle" \/ cpc # "idle" => apc # "down"
  BY DEF Quiesced
<1>1. ASSUME NEW s \in Skbs, NEW n \in 1 .. MaxData, NEW ctx \in Ctxs, NEW more \in Mores,
             NEW map \in Mappings(n), XmitCall(s, n, map, ctx, more)
      PROVE Chained'
  BY <1>1, ChainQuiet DEF XmitCall, CleanPos, FrameEnd
<1>2. CASE XmitStop \/ XmitRecheck \/ XmitOutDrop \/ XmitStopCheck \/ XmitStopRecheck
  <2>1. apc # "down" /\ CleanPos' = CleanPos /\ FrameEnd' = FrameEnd /\ ntw' = ntw
    BY <1>2 DEF XmitStop, XmitRecheck, XmitOutDrop, XmitStopCheck, XmitStopRecheck, XmitReturn,
                CleanPos, FrameEnd
  <2> QED BY <2>1, ChainQuiet
<1>3. CASE XmitBuild
  BY <1>3, <1>d, ChainQuiet DEF XmitBuild, CleanPos, FrameEnd
<1>4. CASE XmitMap
  BY <1>4, <1>d, ChainQuiet DEF XmitMap, CleanPos, FrameEnd
<1>5. ASSUME NEW k \in 1 .. MaxData, XmitDmaError(k) PROVE Chained'
  BY <1>5, <1>d, ChainQuiet DEF XmitDmaError, XmitReturn, CleanPos, FrameEnd
<1>6. CASE XmitWatch
  <2>1. /\ xpc = "watch" /\ CleanPos' = CleanPos /\ apc # "down" /\ FrameEnd = first
        /\ FrameEnd' = Nxt(DataSlot(xn)) /\ ntw' = [ntw EXCEPT ![first] = DataSlot(xn)]
    BY <1>6, <1>d DEF XmitWatch, CleanPos, FrameEnd
  <2>2. first \in Slot /\ ntw[first] = None /\ DataSlot(xn) # None
    BY <2>1, BuildsOutside, DataSlotType, NoneAssumption DEF TypeRing
  <2>3. /\ ntw'[first] = DataSlot(xn)
        /\ \A i \in Slot : i # first => ntw'[i] = ntw[i]
    BY <2>1, <2>2 DEF TypeRing
  <2> SUFFICES ASSUME NEW i \in Slot, ntw'[i] # None \/ i = FrameEnd', i # CleanPos
               PROVE  \E j \in Slot : ntw'[j] # None /\ Nxt(ntw'[j]) = i
    BY <2>1 DEF Chained
  <2>4. CASE i = FrameEnd'
    BY <2>1, <2>2, <2>3, <2>4
  <2>5. CASE i # FrameEnd'
    <3>1. ntw[i] # None \/ i = FrameEnd
      BY <2>1, <2>3, <2>5
    <3>2. PICK j \in Slot : ntw[j] # None /\ Nxt(ntw[j]) = i
      BY <2>1, <3>1 DEF Chained
    <3> QED BY <2>2, <2>3, <3>2
  <2> QED BY <2>4, <2>5
<1>7. ASSUME NEW bql \in BOOLEAN, XmitTail(bql) PROVE Chained'
  BY <1>7, <1>d, ChainQuiet DEF XmitTail, XmitReturn, CleanPos, FrameEnd
<1>8. CASE CleanPacket
  <2>1. /\ CleanPos = ci /\ CleanPos' = Nxt(ntw[ci]) /\ FrameEnd' = FrameEnd /\ apc # "down"
        /\ ntw[ci] # None /\ ntw' = [ntw EXCEPT ![ci] = None]
    BY <1>8, <1>d DEF CleanPacket, PacketDone, CleanPos, FrameEnd
  <2>2. ci \in Slot /\ ntw[FrameEnd] = None
    BY StartsBehind, <2>1 DEF TypeRing
  <2>3. /\ ntw'[ci] = None
        /\ \A i \in Slot : i # ci => ntw'[i] = ntw[i]
    BY <2>1, <2>2 DEF TypeRing
  <2> SUFFICES ASSUME NEW i \in Slot, ntw'[i] # None \/ i = FrameEnd, i # CleanPos'
               PROVE  \E j \in Slot : ntw'[j] # None /\ Nxt(ntw'[j]) = i
    BY <2>1 DEF Chained
  <2>4. i # CleanPos /\ (ntw[i] # None \/ i = FrameEnd)
    BY <2>1, <2>2, <2>3
  <2>5. PICK j \in Slot : ntw[j] # None /\ Nxt(ntw[j]) = i
    BY <2>1, <2>4 DEF Chained
  <2>6. j # ci
    BY <2>1, <2>5
  <2> QED BY <2>3, <2>5, <2>6
<1>9. CASE CleanStart \/ CleanDone \/ CleanHang \/ CleanWakeTest \/ CleanWakeCheck \/ CleanWake
  <2>1. apc # "down" /\ CleanPos' = CleanPos /\ FrameEnd' = FrameEnd /\ ntw' = ntw
    BY <1>9 DEF CleanStart, CleanDone, CleanHang, CleanWakeTest, CleanWakeCheck, CleanWake,
       CleanReturn,
                 CleanPos, FrameEnd
  <2> QED BY <2>1, ChainQuiet
<1>10. CASE HwFetch \/ HwStall
  BY <1>10, ChainQuiet DEF HwFetch, HwStall, CleanPos, FrameEnd
<1>11. CASE ConfigureTxRing
  <2>1. xpc' = "idle" /\ cpc' = "idle" /\ ntu' = 0 /\ ntc' = 0 /\ \A i \in Slot : ntw'[i] = None
    BY <1>11 DEF ConfigureTxRing, Quiesced
  <2>2. CleanPos' = FrameEnd'
    BY <2>1 DEF CleanPos, FrameEnd
  <2> QED BY <2>1, <2>2 DEF Chained
<1>12. CASE UserDown \/ DownStopQueues \/ DownNapiDisable \/ DownResetClean \/ UpComplete
            \/ ServiceReset \/ ServiceHangCheck \/ TxTimeout \/ UNCHANGED vars
  <2>1. apc # "down" /\ CleanPos' = CleanPos /\ FrameEnd' = FrameEnd /\ ntw' = ntw
    BY <1>12 DEF UserDown, DownBegin, DownStopQueues, DownNapiDisable, DownResetClean, UpComplete,
                 ServiceReset, ServiceHangCheck, TxTimeout, vars, CleanPos, FrameEnd
  <2> QED BY <2>1, ChainQuiet
<1>13. ASSUME NEW up \in BOOLEAN, ServiceLink(up) PROVE Chained'
  BY <1>13, ChainQuiet DEF ServiceLink, CleanPos, FrameEnd
<1> QED
  BY <1>1, <1>2, <1>3, <1>4, <1>5, <1>6, <1>7, <1>8, <1>9, <1>10, <1>11, <1>12, <1>13
  DEF Next, Xmit, Clean, Hw, Admin, Service

-----------------------------------------------------------------------------
LEMMA LossInit == Init => LossInv
<1> SUFFICES ASSUME Init PROVE LossInv
  OBVIOUS
<1>1. Owned
  BY DEF Init, InitBut, Owned, InFlight, Start
<1>2. NoLeakedMapping
  BY DEF Init, InitBut, NoLeakedMapping
<1>3. Chained
  BY DEF Init, InitBut, Chained, CleanPos, FrameEnd
<1> QED BY <1>1, <1>2, <1>3 DEF LossInv

LEMMA LossStep ==
  ASSUME TypeOK, RingInv, LossInv, [Next]_vars PROVE LossInv'
<1>1. TypeRing /\ Quiesced /\ Reserved /\ (apc # "down" => Core /\ Chained)
  BY DEF TypeOK, RingInv, Core, LossInv
<1>2. Owned'
  BY <1>1, OwnedStep DEF LossInv
<1>3. NoLeakedMapping'
  <2>1. CASE apc' = "down"
    BY <2>1 DEF NoLeakedMapping
  <2>2. CASE apc' # "down"
    BY <1>1, <2>2, LeakStep DEF LossInv
  <2> QED BY <2>1, <2>2
<1>4. apc' # "down" => Chained'
  BY <1>1, ChainStep
<1> QED BY <1>2, <1>3, <1>4 DEF LossInv

LEMMA LossSays ==
  ASSUME TypeOK, LossInv PROVE NothingLost
<1> DEFINE starts == {i \in Slot : apc # "down" /\ ntw[i] # None}
           inFlight == IF InFlight THEN {xskb} ELSE {}
<1>1. \A i : i \in starts <=> i \in Slot /\ Start(i)
  BY DEF Start
<1>2. {s \in Skbs : owner[s] = "driver"} = {skb[i] : i \in starts} \cup inFlight
  <2>1. ASSUME NEW s \in Skbs, owner[s] = "driver" PROVE s \in {skb[i] : i \in starts} \cup inFlight
    BY <1>1, <2>1 DEF LossInv, Owned
  <2>2. ASSUME NEW s \in {skb[i] : i \in starts} \cup inFlight PROVE s \in Skbs /\ owner[s] = "driver"
    BY <1>1, <2>2 DEF LossInv, Owned
  <2> QED BY <2>1, <2>2
<1>3. /\ \A i, j \in starts : skb[i] = skb[j] => i = j
      /\ \A i \in starts : skb[i] \notin inFlight
  BY <1>1 DEF LossInv, Owned
<1> QED BY <1>2, <1>3 DEF NothingLost, SkbOwnership, InFlight, LossInv

\* Every socket buffer the stack hands down is in one packet of the ring or in the
\* running xmit call until it is given back, once, and no DMA mapping outlives its
\* packet: through dropped frames, failed mappings, cleaning and resets of the ring.
THEOREM NoneLost == SleepOutlastsPoll => (Spec => []NothingLost)
<1> SUFFICES ASSUME SleepOutlastsPoll PROVE Spec => []NothingLost
  OBVIOUS
<1>1. TypeOK /\ RingInv /\ LossInv /\ [Next]_vars => LossInv'
  BY LossStep
<1>2. TypeOK /\ LossInv => NothingLost
  BY LossSays
<1> QED BY <1>1, <1>2, LossInit, TypeCorrect, RingCorrect, PTL DEF Spec

-----------------------------------------------------------------------------
(* The refinement of TxQueue.                                              *)


\* The hardware has written back every packet it has passed: the last descriptor of a
\* packet asks for it.
WrittenBack ==
  /\ \A i \in Slot : ntw[i] # None =>
       /\ ntw[i] \in eop
       /\ Dist(CleanPos, ntw[i]) < Dist(CleanPos, head) => ntw[i] \in dd
  /\ xpc = "watch" => DataSlot(xn) \in eop

\* Packets end in different slots.
LEMMA LastUnique ==
  ASSUME TypeRing, Core, NEW i \in Slot, NEW j \in Slot, ntw[i] # None, ntw[i] = ntw[j]
  PROVE  i = j
<1>1. CleanPos \in Slot /\ ntw[i] \in Slot /\ Count \in Nat
  BY PosTypes, CountAssumption DEF TypeRing
<1>2. Dist(CleanPos, i) \in Nat /\ Dist(CleanPos, j) \in Nat /\ Dist(CleanPos, ntw[i]) \in Nat
  BY <1>1, DistBasics
<1>3. /\ ~(Dist(CleanPos, i) < Dist(CleanPos, j))
      /\ ~(Dist(CleanPos, j) < Dist(CleanPos, i))
  BY <1>2 DEF Core, Framing
<1> QED BY <1>1, <1>2, <1>3, DistBasics

\* Cleaning a packet moves the position behind it; the others and the hardware are
\* that much nearer.
LEMMA CleanShift ==
  ASSUME TypeRing, Core, CleanPacket
  PROVE  LET n == Dist(CleanPos, ntw[CleanPos]) + 1
         IN  /\ CleanPos = ci /\ ntw[ci] # None
             /\ \A j \in Slot : n <= Dist(CleanPos, j) => Dist(CleanPos', j) = Dist(CleanPos, j) - n
             /\ \A j \in Slot : ntw[j] # None /\ j # CleanPos => n <= Dist(CleanPos, j)
             /\ n <= Dist(CleanPos, head)
<1> DEFINE last == ntw[CleanPos]
           n == Dist(CleanPos, last) + 1
<1>1. CleanPos = ci /\ CleanPos' = Nxt(last) /\ last # None /\ last \in dd
  BY DEF CleanPacket, PacketDone, CleanPos
<1>2. CleanPos \in Slot /\ FrameEnd \in Slot /\ head \in Slot /\ last \in Slot /\ Nxt(last) \in Slot
      /\ ntu \in Slot
  BY <1>1, PosTypes, DistNxt DEF TypeRing
<1>3. /\ \A j \in Slot : Dist(CleanPos, j) \in Nat /\ Dist(CleanPos, j) < Count
      /\ Dist(CleanPos, CleanPos) = 0 /\ Count \in Nat
      /\ \A j \in Slot : j # CleanPos => Dist(CleanPos, j) > 0
  BY <1>2, DistBasics, CountAssumption
<1>4. n <= Dist(CleanPos, FrameEnd) /\ n <= Dist(CleanPos, ntu)
  BY <1>1, <1>2, <1>3 DEF Core, Framing, CursorOrder
<1>5. Dist(CleanPos, Nxt(last)) = n
  BY <1>2, <1>3, <1>4, DistNxt
<1>6. \A j \in Slot : n <= Dist(CleanPos, j) => Dist(CleanPos', j) = Dist(CleanPos, j) - n
  BY <1>1, <1>2, <1>5, DistSplit
<1>7. \A j \in Slot : ntw[j] # None /\ j # CleanPos => n <= Dist(CleanPos, j)
  BY <1>1, <1>2, <1>3 DEF Core, Framing
<1>8. n <= Dist(CleanPos, head)
  BY <1>1, <1>2, <1>3, <1>4 DEF Core, NoStaleDone
<1> QED BY <1>1, <1>6, <1>7, <1>8

\* The slots a frame is written to come after every packet.
LEMMA WritesBehind ==
  ASSUME TypeRing, Reserved, Core, NEW i \in Slot, ntw[i] # None
  PROVE  /\ ntw[i] \in Slot
         /\ xpc \notin {"map", "watch"} => ntw[i] # ntu
         /\ xpc \in {"map", "watch"} =>
              i # first /\ \A k \in 1 .. xn : ntw[i] # DataSlot(k)
<1>1. CleanPos \in Slot /\ FrameEnd \in Slot /\ ntu \in Slot /\ ntw[i] \in Slot /\ Count \in Nat
  BY PosTypes, CountAssumption DEF TypeRing
<1>2. Dist(CleanPos, ntw[i]) \in Nat /\ Dist(CleanPos, ntu) \in Nat /\ Dist(CleanPos, FrameEnd) \in Nat
  BY <1>1, DistBasics
<1>3. Dist(CleanPos, ntw[i]) < Dist(CleanPos, ntu)
  BY <1>1, <1>2 DEF Core, Framing, CursorOrder
<1>4. ASSUME xpc \in {"map", "watch"}, NEW k \in 1 .. xn PROVE ntw[i] # DataSlot(k)
  <2>1. Dist(CleanPos, DataSlot(k)) = Dist(CleanPos, ntu) + k - 1
    BY <1>4, FrameSlots DEF Core
  <2> QED BY <1>2, <1>3, <2>1, <1>4
<1> QED BY <1>1, <1>2, <1>3, <1>4, BuildsOutside

LEMMA BackQuiet ==
  ASSUME WrittenBack, UNCHANGED <<ntw, dd, eop, head>>, CleanPos' = CleanPos,
         xpc' # "watch" \/ UNCHANGED <<xpc, ntu, xn>>
  PROVE  WrittenBack'
BY DEF WrittenBack, DataSlot

LEMMA BackStep ==
  ASSUME TypeRing, Quiesced, Reserved, apc # "down" => Core /\ WrittenBack, [Next]_vars,
         apc' # "down"
  PROVE  WrittenBack'
<1> USE DEF ringVars, hwVars, xVars, cVars, hangVars, admVars
<1>d. xpc # "idle" \/ cpc # "idle" => apc # "down"
  BY DEF Quiesced
<1>t. /\ CleanPos \in Slot /\ FrameEnd \in Slot /\ ntu \in Slot /\ head \in Slot /\ xn \in Nat
      /\ Count \in Nat /\ \A j \in Slot : Dist(CleanPos, j) \in Nat
  BY PosTypes, DistBasics, CountAssumption, DataAssumption DEF TypeRing
<1>1. ASSUME NEW s \in Skbs, NEW n \in 1 .. MaxData, NEW ctx \in Ctxs, NEW more \in Mores,
             NEW map \in Mappings(n), XmitCall(s, n, map, ctx, more)
      PROVE WrittenBack'
  BY <1>1, BackQuiet DEF XmitCall, CleanPos
<1>2. CASE XmitStop \/ XmitRecheck \/ XmitOutDrop \/ XmitStopCheck \/ XmitStopRecheck
  <2>1. apc # "down" /\ CleanPos' = CleanPos /\ UNCHANGED <<ntw, dd, eop, head>> /\ xpc' # "watch"
    BY <1>2 DEF XmitStop, XmitRecheck, XmitOutDrop, XmitStopCheck, XmitStopRecheck, XmitReturn,
       CleanPos
  <2> QED BY <2>1, BackQuiet
<1>3. CASE XmitBuild
  <2>1. /\ CleanPos' = CleanPos /\ apc # "down" /\ xpc = "build" /\ xpc' = "map"
        /\ UNCHANGED <<ntw, head>>
        /\ \A j \in Slot : j # ntu => (j \in dd => j \in dd') /\ (j \in eop => j \in eop')
    BY <1>3, <1>d DEF XmitBuild, CleanPos
  <2> QED BY <2>1, WritesBehind DEF WrittenBack
<1>4. CASE XmitMap
  <2>1. /\ CleanPos' = CleanPos /\ apc # "down" /\ xpc = "map" /\ UNCHANGED <<ntw, head, ntu, xn>>
        /\ \A j \in Slot : j \notin DataSlots(xn) => (j \in dd => j \in dd') /\ (j \in eop => j \in eop')
        /\ DataSlot(xn) \in eop' /\ DataSlot(xn)' = DataSlot(xn)
    BY <1>4, <1>d DEF XmitMap, CleanPos, DataSlot
  <2>2. \A i \in Slot : ntw[i] # None => ntw[i] \in Slot /\ ntw[i] \notin DataSlots(xn)
    BY <2>1, WritesBehind DEF DataSlots
  <2> QED BY <2>1, <2>2 DEF WrittenBack
<1>5. ASSUME NEW k \in 1 .. MaxData, XmitDmaError(k) PROVE WrittenBack'
  <2>1. /\ CleanPos' = CleanPos /\ apc # "down" /\ xpc = "map" /\ xpc' = "idle" /\ UNCHANGED <<ntw, head>>
        /\ \A j \in Slot : j \notin DataSlots(k) \cup DataSlots(k - 1)
             => (j \in dd => j \in dd') /\ (j \in eop => j \in eop')
    BY <1>5, <1>d DEF XmitDmaError, XmitReturn, CleanPos
  <2>2. \A m \in 1 .. k : m \in 1 .. xn
    BY <1>5, <1>t DEF XmitDmaError, Starts
  <2>3. \A m \in 1 .. k - 1 : m \in 1 .. xn
    BY <2>2
  <2>4. \A i \in Slot : ntw[i] # None =>
          ntw[i] \in Slot /\ ntw[i] \notin DataSlots(k) \cup DataSlots(k - 1)
    BY <2>1, <2>2, <2>3, WritesBehind DEF DataSlots
  <2> QED BY <2>1, <2>4 DEF WrittenBack
<1>6. CASE XmitWatch
  <2>1. /\ CleanPos' = CleanPos /\ apc # "down" /\ xpc = "watch" /\ xpc' = "stopcheck"
        /\ ntw' = [ntw EXCEPT ![first] = DataSlot(xn)] /\ UNCHANGED <<head, dd, eop>>
    BY <1>6, <1>d DEF XmitWatch, CleanPos
  <2>2. xn \in 1 .. xn /\ first \in Slot /\ tail \in Slot
    BY DataSlotType DEF TypeRing
  <2>3. Dist(CleanPos, DataSlot(xn)) = Dist(CleanPos, ntu) + xn - 1
    BY <2>1, <2>2, FrameSlots DEF Core
  <2>4. ~(Dist(CleanPos, DataSlot(xn)) < Dist(CleanPos, head))
    BY <1>t, <2>1, <2>2, <2>3 DEF Core, CursorOrder
  <2>5. /\ ntw'[first] = DataSlot(xn)
        /\ \A i \in Slot : i # first => ntw'[i] = ntw[i]
    BY <2>1, <2>2 DEF TypeRing
  <2> QED BY <2>1, <2>4, <2>5 DEF WrittenBack
<1>7. ASSUME NEW bql \in BOOLEAN, XmitTail(bql) PROVE WrittenBack'
  BY <1>7, <1>d, BackQuiet DEF XmitTail, XmitReturn, CleanPos
<1>8. CASE CleanPacket
  <2> DEFINE n == Dist(CleanPos, ntw[CleanPos]) + 1
  <2>1. /\ apc # "down" /\ UNCHANGED <<xpc, xn, ntu, head, dd, eop>> /\ ntw' = [ntw EXCEPT ![ci] = None]
    BY <1>8, <1>d DEF CleanPacket
  <2>2. /\ CleanPos = ci /\ ntw[ci] # None
        /\ \A j \in Slot : n <= Dist(CleanPos, j) => Dist(CleanPos', j) = Dist(CleanPos, j) - n
        /\ \A j \in Slot : ntw[j] # None /\ j # CleanPos => n <= Dist(CleanPos, j)
        /\ n <= Dist(CleanPos, head)
    BY <1>8, <2>1, CleanShift
  <2>3. ntw[CleanPos] \in Slot /\ n \in Nat
    BY <1>t, <2>2 DEF TypeRing
  <2> HIDE DEF n
  <2>4. /\ ntw'[ci] = None
        /\ \A i \in Slot : i # ci => ntw'[i] = ntw[i]
    BY <1>t, <2>1, <2>2 DEF TypeRing
  <2>5. ASSUME NEW i \in Slot, ntw'[i] # None, Dist(CleanPos', ntw[i]) < Dist(CleanPos', head)
        PROVE  ntw[i] \in dd
    <3>1. i # ci /\ ntw[i] # None /\ ntw[i] \in Slot
      BY <2>4, <2>5 DEF TypeRing
    <3>2. n <= Dist(CleanPos, ntw[i])
      <4>1. Dist(CleanPos, i) <= Dist(CleanPos, ntw[i])
        BY <2>1, <3>1 DEF Core, Framing
      <4> QED BY <1>t, <2>2, <2>3, <3>1, <4>1
    <3>3. Dist(CleanPos, ntw[i]) < Dist(CleanPos, head)
      BY <1>t, <2>2, <2>3, <2>5, <3>1, <3>2
    <3> QED BY <2>1, <3>1, <3>3 DEF WrittenBack
  <2> QED BY <2>1, <2>4, <2>5 DEF WrittenBack, DataSlot
<1>9. CASE CleanStart \/ CleanDone \/ CleanHang \/ CleanWakeTest \/ CleanWakeCheck \/ CleanWake
  <2>1. apc # "down" /\ CleanPos' = CleanPos /\ UNCHANGED <<ntw, dd, eop, head, xpc, ntu, xn>>
    BY <1>9 DEF CleanStart, CleanDone, CleanHang, CleanWakeTest, CleanWakeCheck, CleanWake,
       CleanReturn,
                 CleanPos
  <2> QED BY <2>1, BackQuiet
<1>10. CASE HwFetch
  <2>1. /\ apc # "down" /\ CleanPos' = CleanPos /\ UNCHANGED <<ntw, eop, xpc, ntu, xn>>
        /\ head' = Nxt(head) /\ dd' = dd \cup ({head} \cap eop) /\ head # tail
    BY <1>10 DEF HwFetch, CleanPos
  <2>2. tail \in Slot
    BY DEF TypeRing
  <2>3. Dist(CleanPos, head) < Count - 1
    BY <1>t, <2>1, <2>2, DistBasics DEF Core, CursorOrder
  <2>4. Dist(CleanPos, head') = Dist(CleanPos, head) + 1
    BY <1>t, <2>1, <2>3, DistNxt
  <2>5. ASSUME NEW i \in Slot, ntw[i] # None, Dist(CleanPos, ntw[i]) < Dist(CleanPos, head')
        PROVE  ntw[i] \in dd'
    <3>1. ntw[i] \in Slot
      BY <2>5 DEF TypeRing
    <3>2. CASE Dist(CleanPos, ntw[i]) < Dist(CleanPos, head)
      BY <2>1, <2>5, <3>2 DEF WrittenBack
    <3>3. CASE ~(Dist(CleanPos, ntw[i]) < Dist(CleanPos, head))
      <4>1. ntw[i] = head
        BY <1>t, <2>4, <2>5, <3>1, <3>3, DistBasics
      <4> QED BY <2>1, <2>5, <4>1 DEF WrittenBack
    <3> QED BY <3>2, <3>3
  <2> QED BY <2>1, <2>5 DEF WrittenBack, DataSlot
<1>11. CASE ConfigureTxRing
  BY <1>11 DEF ConfigureTxRing, Quiesced, WrittenBack
<1>12. CASE HwStall \/ UserDown \/ DownStopQueues \/ DownNapiDisable \/ DownResetClean \/ UpComplete
            \/ ServiceReset \/ ServiceHangCheck \/ TxTimeout \/ UNCHANGED vars
  <2>1. apc # "down" /\ CleanPos' = CleanPos /\ UNCHANGED <<ntw, dd, eop, head, xpc, ntu, xn>>
    BY <1>12 DEF HwStall, UserDown, DownBegin, DownStopQueues, DownNapiDisable, DownResetClean,
       UpComplete,
                 ServiceReset, ServiceHangCheck, TxTimeout, vars, CleanPos
  <2> QED BY <2>1, BackQuiet
<1>13. ASSUME NEW up \in BOOLEAN, ServiceLink(up) PROVE WrittenBack'
  BY <1>13, BackQuiet DEF ServiceLink, CleanPos
<1> QED
  BY <1>1, <1>2, <1>3, <1>4, <1>5, <1>6, <1>7, <1>8, <1>9, <1>10, <1>11, <1>12, <1>13
  DEF Next, Xmit, Clean, Hw, Admin, Service

-----------------------------------------------------------------------------
(* Each step of the ring is a step of the queue, or none.                  *)

bars == <<queuedBar, aheadBar, sentBar>>

\* Steps that leave the packets, their order and their write-back alone.
LEMMA BarsQuiet ==
  ASSUME StartSlots' = StartSlots,
         \A i \in StartSlots : skb'[i] = skb[i] /\ (PacketDone(i)' <=> PacketDone(i)),
         \A i, j \in StartSlots : Earlier(i, j)' <=> Earlier(i, j)
  PROVE  UNCHANGED bars
<1>1. queuedBar' = queuedBar
  BY DEF queuedBar
<1>2. aheadBar' = aheadBar
  BY DEF aheadBar
<1>3. sentBar' = sentBar
  BY DEF sentBar
<1> QED BY <1>1, <1>2, <1>3 DEF bars

\* Ring, skb pointers and write-back unchanged.
LEMMA BarsSame ==
  ASSUME UNCHANGED <<ntw, skb, dd>>, CleanPos' = CleanPos, apc' = "down" <=> apc = "down"
  PROVE  UNCHANGED bars
<1>1. StartSlots' = StartSlots
  BY DEF StartSlots
<1>2. \A i \in StartSlots : skb'[i] = skb[i] /\ (PacketDone(i)' <=> PacketDone(i))
  BY DEF PacketDone
<1>3. \A i, j \in StartSlots : Earlier(i, j)' <=> Earlier(i, j)
  BY DEF Earlier
<1> QED BY <1>1, <1>2, <1>3, BarsQuiet

\* An xmit call that writes descriptors behind the packets and then gives up or goes on.
LEMMA BarsWrite ==
  ASSUME TypeRing, Reserved, Core, apc # "down", UNCHANGED <<ntw, apc>>, CleanPos' = CleanPos,
         \A i \in Slot : ntw[i] # None => skb'[i] = skb[i] /\ (ntw[i] \in dd' <=> ntw[i] \in dd)
  PROVE  UNCHANGED bars
<1>1. StartSlots' = StartSlots
  BY DEF StartSlots
<1>2. \A i \in StartSlots : skb'[i] = skb[i] /\ (PacketDone(i)' <=> PacketDone(i))
  BY DEF PacketDone, StartSlots
<1>3. \A i, j \in StartSlots : Earlier(i, j)' <=> Earlier(i, j)
  BY DEF Earlier
<1> QED BY <1>1, <1>2, <1>3, BarsQuiet

\* What Owned says of the packets.
LEMMA StartFrames ==
  ASSUME Owned
  PROVE  /\ \A i \in StartSlots : i \in Slot /\ skb[i] \in Skbs
         /\ \A i, j \in StartSlots : skb[i] = skb[j] => i = j
         /\ \A i \in StartSlots : InFlight => skb[i] # xskb
BY DEF Owned, Start, StartSlots

\* first->next_to_watch makes the frame visible: it joins the queue behind the others.
LEMMA WatchAccepts ==
  ASSUME TypeOK, Reserved, Core, Owned, apc # "down", XmitWatch
  PROVE  Queue!Accept(xskb) /\ xskb \in Skbs
<1>t. TypeRing
  BY DEF TypeOK
<1>1. /\ CleanPos' = CleanPos /\ xpc = "watch" /\ ntw' = [ntw EXCEPT ![first] = DataSlot(xn)]
      /\ UNCHANGED <<apc, skb, dd, first>> /\ FrameEnd = first /\ InFlight
  BY DEF XmitWatch, CleanPos, FrameEnd, cVars, admVars, InFlight
<1>2. first \in Slot /\ ntw[first] = None /\ DataSlot(xn) \in Slot /\ DataSlot(xn) # None /\ xn \in 1 .. xn
  BY <1>t, <1>1, BuildsOutside, DataSlotType, NoneAssumption DEF TypeRing
<1>3. /\ StartSlots' = StartSlots \cup {first} /\ first \notin StartSlots
  BY <1>t, <1>1, <1>2 DEF StartSlots, TypeRing
<1>4. skb[first] = xskb /\ xskb \in Skbs
  BY <1>1 DEF Owned, InFlight
<1>5. \A i, j \in StartSlots : Earlier(i, j)' <=> Earlier(i, j)
  BY <1>1 DEF Earlier
<1>6. \A i \in StartSlots : Earlier(i, first)' /\ ~Earlier(first, i)'
  <2> SUFFICES ASSUME NEW i \in StartSlots PROVE Earlier(i, first)' /\ ~Earlier(first, i)'
    OBVIOUS
  <2>1. i \in Slot /\ ntw[i] # None
    BY DEF StartSlots
  <2>2. Dist(CleanPos, i) < Dist(CleanPos, first)
    BY <1>t, <1>1, <2>1, StartsBehind
  <2>3. Dist(CleanPos, i) \in Int /\ Dist(CleanPos, first) \in Int
    BY <1>t, <1>2, <2>1, PosTypes, DistBasics
  <2> QED BY <1>1, <2>2, <2>3 DEF Earlier
<1>7. ~Earlier(first, first)'
  <2>1. Dist(CleanPos, first) \in Int
    BY <1>t, <1>2, PosTypes, DistBasics
  <2> QED BY <1>1, <2>1 DEF Earlier
<1>8. xskb \notin queuedBar /\ queuedBar' = queuedBar \cup {xskb}
  BY <1>1, <1>3, <1>4, StartFrames DEF queuedBar
<1>9. aheadBar' = [aheadBar EXCEPT ![xskb] = queuedBar]
  <2>1. ASSUME NEW f \in Skbs, f # xskb PROVE aheadBar'[f] = aheadBar[f]
    BY <1>1, <1>3, <1>4, <1>5, <1>6, <1>7, <2>1 DEF aheadBar
  <2>2. aheadBar'[xskb] = queuedBar
    <3>1. \A i, j \in StartSlots' : skb'[j] = xskb /\ Earlier(i, j)' <=> j = first /\ i \in StartSlots
      BY <1>1, <1>3, <1>4, <1>6, <1>7, StartFrames
    <3> QED BY <1>1, <1>3, <1>4, <3>1, StartFrames DEF aheadBar, queuedBar
  <2> QED BY <1>4, <2>1, <2>2 DEF aheadBar
<1>10. sentBar' = sentBar
  <2>1. \A i \in StartSlots : PacketDone(i)' <=> PacketDone(i)
    BY <1>t, <1>1, <1>2, <1>3 DEF PacketDone, StartSlots, TypeRing
  <2>2. ~PacketDone(first)'
    BY <1>t, <1>1, <1>2 DEF PacketDone, TypeRing, Core, NoStaleDone
  <2> QED BY <1>1, <1>3, <2>1, <2>2 DEF sentBar
<1> QED BY <1>4, <1>8, <1>9, <1>10 DEF Queue!Accept

\* The write-back of a packet's last descriptor: it is the oldest that is not sent.
LEMMA FetchSends ==
  ASSUME TypeOK, Reserved, Core, Owned, WrittenBack, apc # "down", HwFetch
  PROVE  UNCHANGED bars \/ \E f \in Skbs : Queue!Send(f)
<1>t. TypeRing
  BY DEF TypeOK
<1>1. /\ CleanPos' = CleanPos /\ UNCHANGED <<ntw, skb, apc>> /\ dd' = dd \cup ({head} \cap eop)
  BY DEF HwFetch, CleanPos, cVars, admVars
<1>2. StartSlots' = StartSlots /\ \A i, j \in StartSlots : Earlier(i, j)' <=> Earlier(i, j)
  BY <1>1 DEF StartSlots, Earlier
<1>3. CASE \A i \in StartSlots : ntw[i] # head
  <2>1. \A i \in StartSlots : skb'[i] = skb[i] /\ (PacketDone(i)' <=> PacketDone(i))
    BY <1>1, <1>3 DEF PacketDone
  <2> QED BY <1>2, <2>1, BarsQuiet
<1>4. ASSUME NEW i \in StartSlots, ntw[i] = head PROVE \E f \in Skbs : Queue!Send(f)
  <2>1. /\ i \in Slot /\ ntw[i] # None /\ head \in Slot /\ CleanPos \in Slot /\ ntu \in Slot
        /\ tail \in Slot /\ FrameEnd \in Slot
    BY <1>t, <1>4, PosTypes DEF StartSlots, TypeRing
  <2>2. \A j \in Slot : Dist(CleanPos, j) \in Nat
    BY <2>1, DistBasics, CountAssumption
  <2>3. head \notin dd
    <3>1. Dist(CleanPos, head) < Dist(CleanPos, ntu)
      BY <1>4, <2>1, <2>2 DEF Core, Framing, CursorOrder
    <3> QED BY <2>1, <2>2, <3>1 DEF Core, NoStaleDone
  <2>4. dd' = dd \cup {head}
    BY <1>1, <1>4, <2>1 DEF WrittenBack
  <2>5. ~PacketDone(i) /\ PacketDone(i)'
    BY <1>1, <1>4, <2>1, <2>3, <2>4 DEF PacketDone
  <2>6. \A j \in StartSlots : j # i => (PacketDone(j)' <=> PacketDone(j))
    <3> SUFFICES ASSUME NEW j \in StartSlots, j # i PROVE ntw[j] # head
      BY <1>1, <2>4 DEF PacketDone
    <3> QED BY <1>t, <1>4, <2>1, LastUnique DEF StartSlots
  <2>7. skb[i] \in Skbs /\ skb[i] \in queuedBar
    BY <1>4, StartFrames DEF queuedBar
  <2>8. skb[i] \notin sentBar /\ sentBar' = sentBar \cup {skb[i]}
    BY <1>1, <1>2, <2>5, <2>6, StartFrames DEF sentBar
  <2>9. UNCHANGED <<queuedBar, aheadBar>>
    BY <1>1, <1>2 DEF queuedBar, aheadBar
  <2>10. aheadBar[skb[i]] \subseteq sentBar
    <3> SUFFICES ASSUME NEW g \in aheadBar[skb[i]] PROVE g \in sentBar
      OBVIOUS
    <3>1. PICK a, b \in StartSlots : skb[a] = g /\ skb[b] = skb[i] /\ Earlier(a, b)
      BY <2>7 DEF aheadBar
    <3>2. b = i /\ a \in Slot /\ ntw[a] # None /\ ntw[a] \in Slot
      BY <1>t, <1>4, <3>1, StartFrames DEF StartSlots, TypeRing
    <3>3. Dist(CleanPos, ntw[a]) < Dist(CleanPos, i) /\ Dist(CleanPos, i) <= Dist(CleanPos, head)
      BY <1>4, <2>1, <3>1, <3>2 DEF Earlier, Core, Framing
    <3>4. ntw[a] \in dd
      BY <2>1, <2>2, <3>2, <3>3 DEF WrittenBack
    <3> QED BY <3>1, <3>2, <3>4 DEF sentBar, PacketDone
  <2> QED BY <2>7, <2>8, <2>9, <2>10 DEF Queue!Send
<1> QED BY <1>3, <1>4

\* Cleaning a packet completes the oldest frame, which has been sent.
LEMMA CleanCompletes ==
  ASSUME TypeOK, Reserved, Core, Owned, apc # "down", CleanPacket
  PROVE  Queue!Complete(skb[ci]) /\ skb[ci] \in Skbs
<1>t. TypeRing
  BY DEF TypeOK
<1> DEFINE n == Dist(CleanPos, ntw[CleanPos]) + 1
<1>1. /\ UNCHANGED <<skb, apc, dd>> /\ ntw' = [ntw EXCEPT ![ci] = None] /\ PacketDone(ci)
  BY DEF CleanPacket, admVars
<1>2. /\ CleanPos = ci /\ ntw[ci] # None
      /\ \A j \in Slot : n <= Dist(CleanPos, j) => Dist(CleanPos', j) = Dist(CleanPos, j) - n
      /\ \A j \in Slot : ntw[j] # None /\ j # CleanPos => n <= Dist(CleanPos, j)
  BY <1>t, CleanShift
<1>3. ci \in Slot /\ ntw[ci] \in Slot /\ n \in Nat /\ \A j \in Slot : Dist(CleanPos, j) \in Nat
  BY <1>t, <1>2, DistBasics, CountAssumption DEF TypeRing
<1> HIDE DEF n
<1>4. StartSlots' = StartSlots \ {ci} /\ ci \in StartSlots
  BY <1>t, <1>1, <1>2, <1>3 DEF StartSlots, TypeRing
<1>5. \A i, j \in StartSlots' : Earlier(i, j)' <=> Earlier(i, j)
  <2> SUFFICES ASSUME NEW i \in StartSlots', NEW j \in StartSlots' PROVE Earlier(i, j)' <=> Earlier(i, j)
    OBVIOUS
  <2>1. i \in Slot /\ j \in Slot /\ n <= Dist(CleanPos, i) /\ n <= Dist(CleanPos, j)
    BY <1>2, <1>4 DEF StartSlots
  <2>2. Dist(CleanPos', i) = Dist(CleanPos, i) - n /\ Dist(CleanPos', j) = Dist(CleanPos, j) - n
    BY <1>2, <2>1
  <2> QED BY <1>3, <2>1, <2>2 DEF Earlier
<1>6. \A i \in StartSlots : ~Earlier(i, ci)
  <2> SUFFICES ASSUME NEW i \in StartSlots PROVE ~Earlier(i, ci)
    OBVIOUS
  <2>1. i \in Slot /\ Dist(CleanPos, ci) = 0
    BY <1>2, <1>3, DistBasics DEF StartSlots
  <2> QED BY <1>3, <2>1 DEF Earlier
<1>7. skb[ci] \in Skbs /\ skb[ci] \in sentBar
  BY <1>1, <1>4, StartFrames DEF sentBar
<1>8. \A i \in StartSlots' : PacketDone(i)' <=> PacketDone(i)
  BY <1>t, <1>1, <1>3, <1>4 DEF PacketDone, StartSlots, TypeRing
<1>9. queuedBar' = queuedBar \ {skb[ci]}
  BY <1>1, <1>4, StartFrames DEF queuedBar
<1>10. sentBar' = sentBar \ {skb[ci]}
  BY <1>1, <1>4, <1>8, StartFrames DEF sentBar
<1>11. aheadBar[skb[ci]] = {}
  BY <1>4, <1>6, <1>7, StartFrames DEF aheadBar
<1>12. aheadBar' = [g \in Skbs |-> aheadBar[g] \ {skb[ci]}]
  <2>1. ASSUME NEW g \in Skbs PROVE aheadBar'[g] = aheadBar[g] \ {skb[ci]}
    <3>1. ASSUME NEW h \in aheadBar'[g] PROVE h \in aheadBar[g] /\ h # skb[ci]
      <4>1. PICK i, j \in StartSlots' : skb'[i] = h /\ skb'[j] = g /\ Earlier(i, j)'
        BY <3>1 DEF aheadBar
      <4> QED BY <1>1, <1>4, <1>5, <1>7, <3>1, <4>1, StartFrames DEF aheadBar
    <3>2. ASSUME NEW h \in aheadBar[g], h # skb[ci] PROVE h \in aheadBar'[g]
      <4>1. PICK i, j \in StartSlots : skb[i] = h /\ skb[j] = g /\ Earlier(i, j)
        BY <3>2 DEF aheadBar
      <4>2. i # ci /\ j # ci
        BY <1>6, <3>2, <4>1
      <4> QED BY <1>1, <1>4, <1>5, <3>2, <4>1, <4>2 DEF aheadBar
    <3> QED BY <3>1, <3>2
  <2> QED BY <2>1 DEF aheadBar
<1> QED BY <1>7, <1>9, <1>10, <1>11, <1>12 DEF Queue!Complete

LEMMA QueueStep ==
  ASSUME TypeOK, Quiesced, Reserved, Owned, apc # "down" => Core /\ WrittenBack, [Next]_vars
  PROVE  [Queue!Next]_bars
<1> USE DEF ringVars, hwVars, xVars, cVars, hangVars, admVars
<1>d. xpc # "idle" \/ cpc # "idle" => apc # "down"
  BY DEF Quiesced
<1>t. TypeRing
  BY DEF TypeOK
<1>1. ASSUME NEW s \in Skbs, NEW n \in 1 .. MaxData, NEW ctx \in Ctxs, NEW more \in Mores,
             NEW map \in Mappings(n), XmitCall(s, n, map, ctx, more)
      PROVE UNCHANGED bars
  BY <1>1, BarsSame DEF XmitCall, CleanPos
<1>2. CASE XmitStop \/ XmitRecheck \/ XmitStopCheck \/ XmitStopRecheck
  <2>1. UNCHANGED <<apc, ntw, skb, dd>> /\ CleanPos' = CleanPos
    BY <1>2 DEF XmitStop, XmitRecheck, XmitStopCheck, XmitStopRecheck, CleanPos
  <2> QED BY <2>1, BarsSame
<1>3. CASE XmitBuild \/ XmitOutDrop
  <2>1. /\ xpc = "build" /\ apc # "down" /\ UNCHANGED <<ntw, apc>> /\ CleanPos' = CleanPos
        /\ skb' = [skb EXCEPT ![ntu] = xskb] \/ skb' = [skb EXCEPT ![ntu] = None]
        /\ dd' = dd \/ dd' = dd \ {ntu}
    BY <1>3, <1>d DEF XmitBuild, XmitOutDrop, CleanPos
  <2>2. \A i \in Slot : ntw[i] # None => i # ntu /\ ntw[i] # ntu
    BY <1>t, <2>1, WritesBehind, BuildsOutside
  <2>3. \A i \in Slot : ntw[i] # None => skb'[i] = skb[i] /\ (ntw[i] \in dd' <=> ntw[i] \in dd)
    BY <1>t, <2>1, <2>2 DEF TypeRing
  <2> QED BY <1>t, <2>1, <2>3, BarsWrite
<1>4. CASE XmitMap
  <2>1. /\ xpc = "map" /\ apc # "down" /\ UNCHANGED <<ntw, apc, skb>> /\ CleanPos' = CleanPos
        /\ dd' = dd \ DataSlots(xn)
    BY <1>4, <1>d DEF XmitMap, CleanPos
  <2>2. \A i \in Slot : ntw[i] # None => ntw[i] \notin DataSlots(xn)
    BY <1>t, <2>1, WritesBehind DEF DataSlots
  <2> QED BY <1>t, <2>1, <2>2, BarsWrite
<1>5. ASSUME NEW k \in 1 .. MaxData, XmitDmaError(k) PROVE UNCHANGED bars
  <2>1. /\ xpc = "map" /\ apc # "down" /\ UNCHANGED <<ntw, apc>> /\ CleanPos' = CleanPos
        /\ skb' = [skb EXCEPT ![first] = None] /\ dd' = dd \ DataSlots(k)
    BY <1>5, <1>d DEF XmitDmaError, CleanPos
  <2>2. \A m \in 1 .. k : m \in 1 .. xn
    BY <1>5, <1>t, DataAssumption DEF XmitDmaError, Starts, TypeRing
  <2>3. \A i \in Slot : ntw[i] # None => i # first /\ ntw[i] \notin DataSlots(k)
    BY <1>t, <2>1, <2>2, WritesBehind DEF DataSlots
  <2>4. \A i \in Slot : ntw[i] # None => skb'[i] = skb[i] /\ (ntw[i] \in dd' <=> ntw[i] \in dd)
    BY <1>t, <2>1, <2>3 DEF TypeRing
  <2> QED BY <1>t, <2>1, <2>4, BarsWrite
<1>6. CASE XmitWatch
  BY <1>6, <1>d, WatchAccepts DEF Queue!Next, XmitWatch
<1>7. ASSUME NEW bql \in BOOLEAN, XmitTail(bql) PROVE UNCHANGED bars
  BY <1>7, BarsSame DEF XmitTail, CleanPos
<1>8. CASE CleanPacket
  BY <1>8, <1>d, CleanCompletes DEF Queue!Next, CleanPacket
<1>9. CASE CleanStart \/ CleanDone \/ CleanHang \/ CleanWakeTest \/ CleanWakeCheck \/ CleanWake
  <2>1. UNCHANGED <<apc, ntw, skb, dd>> /\ CleanPos' = CleanPos
    BY <1>9 DEF CleanStart, CleanDone, CleanHang, CleanWakeTest, CleanWakeCheck, CleanWake,
       CleanReturn,
                CleanPos
  <2> QED BY <2>1, BarsSame
<1>10. CASE HwFetch
  <2>1. CASE apc # "down"
    BY <1>10, <2>1, FetchSends DEF Queue!Next
  <2>2. CASE apc = "down"
    <3>1. StartSlots = {} /\ StartSlots' = {}
      BY <1>10, <2>2 DEF HwFetch, StartSlots
    <3> QED BY <3>1, BarsQuiet
  <2> QED BY <2>1, <2>2
<1>11. CASE DownResetClean
  <2>1. StartSlots' = {}
    BY <1>11 DEF DownResetClean, StartSlots
  <2>2. queuedBar' = {} /\ sentBar' = {} /\ aheadBar' = [f \in Skbs |-> {}]
    BY <2>1 DEF queuedBar, sentBar, aheadBar
  <2> QED BY <2>2 DEF Queue!Next, Queue!Flush
<1>12. CASE ConfigureTxRing
  <2>1. StartSlots = {} /\ StartSlots' = {}
    BY <1>12 DEF ConfigureTxRing, StartSlots
  <2> QED BY <2>1, BarsQuiet
<1>13. CASE HwStall \/ UserDown \/ DownStopQueues \/ DownNapiDisable \/ UpComplete
            \/ ServiceReset \/ ServiceHangCheck \/ TxTimeout \/ UNCHANGED vars
  <2>1. UNCHANGED <<ntw, skb, dd>> /\ CleanPos' = CleanPos /\ (apc' = "down" <=> apc = "down")
    BY <1>13 DEF HwStall, UserDown, DownBegin, DownStopQueues, DownNapiDisable, UpComplete,
                 ServiceReset, ServiceHangCheck, TxTimeout, vars, CleanPos
  <2> QED BY <2>1, BarsSame
<1>14. ASSUME NEW up \in BOOLEAN, ServiceLink(up) PROVE UNCHANGED bars
  BY <1>14, BarsSame DEF ServiceLink, CleanPos
<1> QED
  BY <1>1, <1>2, <1>3, <1>4, <1>5, <1>6, <1>7, <1>8, <1>9, <1>10, <1>11, <1>12, <1>13, <1>14
  DEF Next, Xmit, Clean, Hw, Admin, Service

LEMMA QueueInit == Init => Queue!Empty /\ WrittenBack
<1> SUFFICES ASSUME Init PROVE Queue!Empty /\ WrittenBack
  OBVIOUS
<1>1. StartSlots = {} /\ \A i \in Slot : ntw[i] = None
  BY DEF Init, InitBut, StartSlots
<1>2. queuedBar = {} /\ sentBar = {} /\ aheadBar = [f \in Skbs |-> {}]
  BY <1>1 DEF queuedBar, sentBar, aheadBar
<1> QED BY <1>1, <1>2 DEF Queue!Empty, WrittenBack, Init, InitBut

\* The ring implements the queue of TxQueue, whatever its size and however xmit, cleaning,
\* the hardware and the resets interleave: frames are sent and completed in the order they
\* were accepted, none is completed before it was sent, and only a reset drops frames.
THEOREM RingIsQueue == SleepOutlastsPoll => (Spec => ImplementsQueue)
<1> SUFFICES ASSUME SleepOutlastsPoll PROVE Spec => Queue!Spec
  BY DEF ImplementsQueue
<1> DEFINE Inv == TypeOK /\ RingInv /\ LossInv /\ (apc # "down" => WrittenBack)
<1>1. Init => Inv
  BY TypeInit, RingInvInit, LossInit, QueueInit
<1>2. Inv /\ [Next]_vars => Inv'
  <2> SUFFICES ASSUME Inv, [Next]_vars PROVE Inv'
    OBVIOUS
  <2>1. TypeOK' /\ RingInv' /\ LossInv'
    BY TypeStep, RingInvStep, LossStep
  <2>2. apc' # "down" => WrittenBack'
    BY BackStep DEF TypeOK, RingInv, Core
  <2> QED BY <2>1, <2>2
<1>3. Inv /\ [Next]_vars => [Queue!Next]_<<queuedBar, aheadBar, sentBar>>
  BY QueueStep DEF TypeOK, RingInv, Core, LossInv, bars
<1>4. Init => Queue!Empty
  BY QueueInit
<1> QED BY <1>1, <1>2, <1>3, <1>4, PTL DEF Spec, Queue!Spec
=============================================================================
