---------------------------- MODULE TxRingProofs ----------------------------
(* Proofs about module TxRing, for every ring size and packet size: types, *)
(* then that RingInv is inductive and that the hardware only reads mapped  *)
(* buffers.                                                                *)
EXTENDS TxRing, TLAPS

\* Dist counts steps: it stays below Count and tells slots apart.
LEMMA DistBasics ==
  \A a, b, c \in Slot :
    /\ Dist(a, b) \in 0 .. Count - 1
    /\ Dist(a, a) = 0
    /\ Dist(a, b) = Dist(a, c) => b = c
    /\ Dist(a, b) = 0 => a = b
BY CountAssumption DEF Dist, Slot

\* One more step, as long as it does not come back to the start.
LEMMA DistNxt ==
  \A a, b \in Slot :
    /\ Nxt(b) \in Slot
    /\ Dist(a, b) < Count - 1 => Dist(a, Nxt(b)) = Dist(a, b) + 1
BY CountAssumption DEF Dist, Slot, Nxt

\* k more steps, as long as they do not come back to the start.
LEMMA DistAdv ==
  \A a, b \in Slot : \A k \in Nat :
    Dist(a, b) + k <= Count - 1 =>
      Adv(b, k) \in Slot /\ Dist(a, Adv(b, k)) = Dist(a, b) + k
BY CountAssumption DEF Dist, Slot, Adv

\* Going from a to c through b.
LEMMA DistSplit ==
  \A a, b, c \in Slot :
    Dist(a, b) <= Dist(a, c) => Dist(b, c) = Dist(a, c) - Dist(a, b)
BY CountAssumption DEF Dist, Slot

\* ixgbevf_desc_unused is what is left besides the occupied slots and the one
\* that keeps next_to_use from meeting next_to_clean.
LEMMA UnusedIsRest ==
  ASSUME ntu \in Slot, ntc \in Slot
  PROVE  DescUnused = Count - 1 - Dist(ntc, ntu)
BY CountAssumption DEF Dist, Slot, DescUnused

-----------------------------------------------------------------------------
\* A frame fits the ring, so that its descriptors are distinct slots.
LEMMA FrameFits == MaxData < Count /\ MaxData \in Nat /\ Count \in Nat
BY CountAssumption, DataAssumption, GapAssumption, SizeAssumption DEF WakeThreshold

LEMMA OneMappingType == OneMapping \in Mappings(1)
BY DEF OneMapping, Mappings

\* The slots xmit computes are slots of the ring.
LEMMA DataSlotType ==
  ASSUME TypeRing
  PROVE  /\ \A k \in 1 .. xn : DataSlot(k) \in Slot /\ BufSlot(k) \in Slot
         /\ \A k \in 1 .. xn : Dist(ntu, DataSlot(k)) = k - 1
         /\ xmap \in [1 .. xn -> 1 .. xn]
         /\ xn \in 1 .. xn
BY FrameFits DEF TypeRing, DataSlot, BufSlot, Adv, Dist, Slot, Mappings

LEMMA SrcAfterType ==
  ASSUME TypeRing, NEW n \in 0 .. xn PROVE SrcAfter(n) \in [Slot -> Slot]
<1>1. \A j \in DataSlots(n) : BufSlot(xmap[Dist(ntu, j) + 1]) \in Slot
  <2> SUFFICES ASSUME NEW k \in 1 .. n PROVE BufSlot(xmap[Dist(ntu, DataSlot(k)) + 1]) \in Slot
    BY DEF DataSlots
  <2>1. k \in 1 .. xn
    BY DataAssumption DEF TypeRing
  <2>2. Dist(ntu, DataSlot(k)) + 1 = k /\ xmap[k] \in 1 .. xn
    BY <2>1, DataSlotType
  <2> QED BY <2>2, DataSlotType
<1> QED BY <1>1 DEF SrcAfter, TypeRing

LEMMA ZeroSlot == 0 \in Slot
BY CountAssumption DEF Slot

LEMMA ReturnType == XmitReturn => /\ xskb' = None /\ xn' \in 1 .. MaxData
                                  /\ xmap' \in Mappings(xn') /\ first' \in Slot
BY OneMappingType, FrameFits, CountAssumption, DataAssumption DEF XmitReturn, Slot

LEMMA TypeInit == Init => TypeOK
<1> SUFFICES ASSUME Init PROVE TypeOK
  OBVIOUS
<1>1. TypeRing
  BY OneMappingType, FrameFits, CountAssumption, DataAssumption DEF Init, InitBut, TypeRing, Slot
<1>2. TypeControl
  BY DEF Init, InitBut, TypeControl
<1>3. TypeFlags
  BY Zenon DEF Init, InitBut, TypeFlags
<1> QED BY <1>1, <1>2, <1>3 DEF TypeOK

\* Every step keeps the cursors, the slots' fields and the locals in range.
LEMMA RingStep == TypeRing /\ [Next]_vars => TypeRing'
<1> SUFFICES ASSUME TypeRing, [Next]_vars PROVE TypeRing'
  OBVIOUS
<1> USE DEF TypeRing, ringVars, hwVars, xVars, cVars, hangVars, admVars
<1>1. ASSUME NEW s \in Skbs, NEW n \in 1 .. MaxData, NEW ctx \in Ctxs, NEW more \in Mores,
             NEW map \in Mappings(n), XmitCall(s, n, map, ctx, more)
      PROVE TypeRing'
  BY <1>1 DEF XmitCall
<1>2. CASE XmitRecheck
  BY <1>2, ReturnType DEF XmitRecheck
<1>3. CASE XmitBuild
  BY <1>3, DistNxt DEF XmitBuild
<1>4. CASE XmitOutDrop
  BY <1>4, ReturnType DEF XmitOutDrop
<1>5. CASE XmitMap
  <2>1. src' \in [Slot -> Slot]
    BY <1>5, SrcAfterType, DataSlotType DEF XmitMap
  <2>2. DataSlots(xn) \subseteq Slot /\ DataSlot(xn) \in Slot
    BY DataSlotType DEF DataSlots
  <2>3. {BufSlot(k) : k \in Starts} \subseteq Slot
    BY DataSlotType DEF Starts
  <2> QED BY <1>5, <2>1, <2>2, <2>3 DEF XmitMap
<1>6. ASSUME NEW k \in 1 .. MaxData, XmitDmaError(k) PROVE TypeRing'
  <2>1. {BufSlot(m) : m \in Starts \cap 1 .. k - 1} \subseteq Slot
    BY DataSlotType DEF Starts
  <2>2. k - 1 \in 0 .. xn
    BY <1>6 DEF XmitDmaError, Starts
  <2>3. src' \in [Slot -> Slot]
    BY <1>6, <2>2, SrcAfterType DEF XmitDmaError
  <2> QED BY <1>6, <2>1, <2>3, ReturnType DEF XmitDmaError
<1>7. CASE XmitWatch
  <2>2. DataSlot(xn) \in Slot /\ Nxt(DataSlot(xn)) \in Slot
    BY DataSlotType, DistNxt
  <2> QED BY <1>7, <2>2 DEF XmitWatch
<1>8. CASE XmitStop \/ XmitStopCheck \/ XmitStopRecheck
  BY <1>8 DEF XmitStop, XmitStopCheck, XmitStopRecheck
<1>9. ASSUME NEW bql \in BOOLEAN, XmitTail(bql) PROVE TypeRing'
  BY <1>9, ReturnType DEF XmitTail
<1>10. CASE CleanStart
  BY <1>10, CountAssumption DEF CleanStart
<1>11. CASE CleanPacket
  <2>1. ntw[ci] \in Slot /\ Nxt(ntw[ci]) \in Slot
    BY <1>11, DistNxt DEF CleanPacket, PacketDone
  <2>2. budget' \in 0 .. Count
    BY <1>11, CountAssumption DEF CleanPacket
  <2> QED BY <1>11, <2>1, <2>2 DEF CleanPacket
<1>12. CASE CleanDone
  BY <1>12, CountAssumption, ZeroSlot DEF CleanDone
<1>13. CASE CleanHang
  BY <1>13 DEF CleanHang, TxTimeoutReset, CleanReturn
<1>14. CASE CleanWakeTest \/ CleanWakeCheck \/ CleanWake
  BY <1>14 DEF CleanWakeTest, CleanWakeCheck, CleanWake, CleanReturn
<1>15. CASE HwFetch
  BY <1>15, DistNxt DEF HwFetch
<1>16. CASE HwStall
  BY <1>16 DEF HwStall
<1>17. CASE UserDown \/ DownStopQueues \/ DownNapiDisable \/ DownResetClean
  BY <1>17, ZeroSlot DEF UserDown, DownBegin, DownStopQueues, DownNapiDisable, DownResetClean
<1>18. CASE ConfigureTxRing \/ UpComplete
  BY <1>18, ZeroSlot DEF ConfigureTxRing, UpComplete
<1>19. CASE ServiceReset \/ ServiceHangCheck \/ TxTimeout
  BY <1>19 DEF ServiceReset, DownBegin, ServiceHangCheck, TxTimeout, TxTimeoutReset
<1>20. ASSUME NEW up \in BOOLEAN, ServiceLink(up) PROVE TypeRing'
  BY <1>20 DEF ServiceLink
<1>21. CASE UNCHANGED vars
  BY <1>21 DEF vars
<1> QED
  BY <1>1, <1>2, <1>3, <1>4, <1>5, <1>6, <1>7, <1>8, <1>9, <1>10, <1>11, <1>12, <1>13, <1>14,
     <1>15, <1>16, <1>17, <1>18, <1>19, <1>20, <1>21
  DEF Next, Xmit, Clean, Hw, Admin, Service

\* Every step keeps the program counters and the owners in range.
LEMMA ControlStep == TypeControl /\ [Next]_vars => TypeControl'
<1> SUFFICES ASSUME TypeControl, [Next]_vars PROVE TypeControl'
  OBVIOUS
<1> USE DEF TypeControl, ringVars, hwVars, xVars, cVars, hangVars, admVars
<1>1. ASSUME NEW s \in Skbs, NEW n \in 1 .. MaxData, NEW ctx \in Ctxs, NEW more \in Mores,
             NEW map \in Mappings(n), XmitCall(s, n, map, ctx, more)
     PROVE TypeControl'
  BY <1>1 DEF XmitCall
<1>2. CASE XmitRecheck
  BY <1>2 DEF XmitRecheck, XmitReturn
<1>3. CASE XmitBuild \/ XmitOutDrop \/ XmitMap
  BY <1>3 DEF XmitBuild, XmitOutDrop, XmitMap, XmitReturn, FreeSkb
<1>4. ASSUME NEW k \in 1 .. MaxData, XmitDmaError(k)
     PROVE TypeControl'
  BY <1>4 DEF XmitDmaError, XmitReturn, FreeSkb
<1>5. CASE XmitStop \/ XmitWatch \/ XmitStopCheck \/ XmitStopRecheck
  BY <1>5 DEF XmitStop, XmitWatch, XmitStopCheck, XmitStopRecheck
<1>6. ASSUME NEW bql \in BOOLEAN, XmitTail(bql)
     PROVE TypeControl'
  BY <1>6 DEF XmitTail, XmitReturn
<1>7. CASE CleanStart \/ CleanPacket \/ CleanDone
  BY <1>7 DEF CleanStart, CleanPacket, CleanDone, FreeSkb
<1>8. CASE CleanHang
  BY <1>8 DEF CleanHang, TxTimeoutReset, CleanReturn
<1>9. CASE CleanWakeTest \/ CleanWakeCheck \/ CleanWake
  BY <1>9 DEF CleanWakeTest, CleanWakeCheck, CleanWake, CleanReturn
<1>10. CASE HwFetch \/ HwStall
  BY <1>10 DEF HwFetch, HwStall
<1>11. CASE UserDown \/ DownStopQueues \/ DownNapiDisable
  BY <1>11 DEF UserDown, DownBegin, DownStopQueues, DownNapiDisable
<1>12. CASE DownResetClean \/ ConfigureTxRing \/ UpComplete
  BY <1>12 DEF DownResetClean, ConfigureTxRing, UpComplete
<1>13. CASE ServiceReset \/ ServiceHangCheck \/ TxTimeout
  BY <1>13 DEF ServiceReset, DownBegin, ServiceHangCheck, TxTimeout, TxTimeoutReset
<1>14. ASSUME NEW up \in BOOLEAN, ServiceLink(up)
     PROVE TypeControl'
  BY <1>14 DEF ServiceLink
<1>15. CASE UNCHANGED vars
  BY <1>15 DEF vars
<1> QED
  BY <1>1, <1>2, <1>3, <1>4, <1>5, <1>6, <1>7, <1>8, <1>9, <1>10, <1>11, <1>12, <1>13, <1>14, <1>15
  DEF Next, Xmit, Clean, Hw, Admin, Service

\* Every step keeps the flags Boolean.
LEMMA FlagsStep == TypeFlags /\ [Next]_vars => TypeFlags'
<1> SUFFICES ASSUME TypeFlags, [Next]_vars PROVE TypeFlags'
  OBVIOUS
<1> USE SwitchAssumption DEF TypeFlags, ringVars, hwVars, xVars, cVars, hangVars, admVars
<1>1. ASSUME NEW s \in Skbs, NEW n \in 1 .. MaxData, NEW ctx \in Ctxs, NEW more \in Mores,
             NEW map \in Mappings(n), XmitCall(s, n, map, ctx, more)
     PROVE TypeFlags'
  BY Zenon, <1>1 DEF XmitCall
<1>2. CASE XmitRecheck
  BY Zenon, <1>2 DEF XmitRecheck, XmitReturn
<1>3. CASE XmitBuild
  BY Zenon, <1>3 DEF XmitBuild
<1>4. CASE XmitOutDrop
  BY Zenon, <1>4 DEF XmitOutDrop, XmitReturn
<1>5. CASE XmitMap
  BY Zenon, <1>5 DEF XmitMap
<1>6. ASSUME NEW k \in 1 .. MaxData, XmitDmaError(k)
     PROVE TypeFlags'
  BY Zenon, <1>6 DEF XmitDmaError, XmitReturn
<1>7. CASE XmitWatch
  BY Zenon, <1>7 DEF XmitWatch
<1>8. CASE XmitStopCheck
  BY Zenon, <1>8 DEF XmitStopCheck
<1>9. CASE XmitStopRecheck
  BY Zenon, <1>9 DEF XmitStopRecheck
<1>10. ASSUME NEW bql \in BOOLEAN, XmitTail(bql)
     PROVE TypeFlags'
  BY Zenon, <1>10 DEF XmitTail, XmitReturn
<1>11. CASE CleanStart
  BY Zenon, <1>11 DEF CleanStart
<1>12. CASE CleanPacket
  BY Zenon, <1>12 DEF CleanPacket
<1>13. CASE CleanDone
  BY Zenon, <1>13 DEF CleanDone
<1>14. CASE CleanHang
  BY Zenon, <1>14 DEF CleanHang, TxTimeoutReset, CleanReturn
<1>15. CASE CleanWakeTest
  BY Zenon, <1>15 DEF CleanWakeTest, CleanReturn
<1>16. CASE CleanWakeCheck
  BY Zenon, <1>16 DEF CleanWakeCheck, CleanReturn
<1>17. CASE CleanWake
  BY Zenon, <1>17 DEF CleanWake, CleanReturn
<1>18. CASE HwFetch
  BY Zenon, <1>18 DEF HwFetch
<1>19. CASE HwStall
  BY Zenon, <1>19 DEF HwStall
<1>20. CASE UserDown
  BY Zenon, <1>20 DEF UserDown, DownBegin
<1>21. CASE DownStopQueues
  BY Zenon, <1>21 DEF DownStopQueues
<1>22. CASE DownNapiDisable
  BY Zenon, <1>22 DEF DownNapiDisable
<1>23. CASE DownResetClean
  BY Zenon, <1>23 DEF DownResetClean
<1>24. CASE ConfigureTxRing
  BY Zenon, <1>24 DEF ConfigureTxRing
<1>25. CASE UpComplete
  BY Zenon, <1>25 DEF UpComplete
<1>26. CASE ServiceReset
  BY Zenon, <1>26 DEF ServiceReset, DownBegin
<1>27. ASSUME NEW up \in BOOLEAN, ServiceLink(up)
     PROVE TypeFlags'
  BY Zenon, <1>27 DEF ServiceLink
<1>28. CASE ServiceHangCheck
  BY Zenon, <1>28 DEF ServiceHangCheck
<1>29. CASE TxTimeout
  BY Zenon, <1>29 DEF TxTimeout, TxTimeoutReset
<1>30. CASE UNCHANGED vars
  BY Zenon, <1>30 DEF vars
<1>31. CASE XmitStop
  BY Zenon, <1>31 DEF XmitStop
<1> QED
  BY <1>1, <1>2, <1>3, <1>4, <1>5, <1>6, <1>7, <1>8, <1>9, <1>10, <1>11, <1>12, <1>13, <1>14,
     <1>15, <1>16, <1>17, <1>18, <1>19, <1>20, <1>21, <1>22, <1>23, <1>24, <1>25, <1>26, <1>27,
     <1>28, <1>29, <1>30, <1>31
  DEF Next, Xmit, Clean, Hw, Admin, Service

LEMMA TypeStep == TypeOK /\ [Next]_vars => TypeOK'
BY RingStep, ControlStep, FlagsStep DEF TypeOK

\* Every variable of the ring keeps its type, for every ring and packet size.
THEOREM TypeCorrect == Spec => []TypeOK
BY TypeInit, TypeStep, PTL DEF Spec

-----------------------------------------------------------------------------
(* The ring of packets.                                                    *)

\* what RingInv says of a ring that is not being reset
Core == CursorOrder /\ Framing /\ NoStaleDone /\ Mapped

\* Going from a to c through b, the other way round.
LEMMA DistJoin ==
  \A a, b, c \in Slot :
    Dist(a, b) + Dist(b, c) < Count => Dist(a, c) = Dist(a, b) + Dist(b, c)
BY CountAssumption DEF Dist, Slot

LEMMA PosTypes == TypeRing => CleanPos \in Slot /\ FrameEnd \in Slot
BY DEF TypeRing, CleanPos, FrameEnd

\* The descriptors a frame still needs lie between next_to_use and the slot
\* that separates it from the clean position.
LEMMA RoomAhead ==
  ASSUME TypeRing, Reserved, CursorOrder
  PROVE  /\ Dist(CleanPos, ntu) = Dist(ntc, ntu) - Dist(ntc, CleanPos)
         /\ xpc = "build" => Dist(ntc, ntu) < Count - 1 /\ Dist(CleanPos, ntu) < Count - 1
         /\ xpc \in {"map", "watch"} =>
              Dist(CleanPos, ntu) + xn <= Count - 1 /\ Dist(ntc, ntu) + xn <= Count - 1
<1>1. CleanPos \in Slot /\ FrameEnd \in Slot /\ ntc \in Slot /\ ntu \in Slot /\ xn \in 1 .. MaxData
  BY PosTypes DEF TypeRing
<1>2. Dist(CleanPos, ntu) = Dist(ntc, ntu) - Dist(ntc, CleanPos)
  BY <1>1, DistSplit, DistBasics, CountAssumption DEF CursorOrder
<1>3. DescUnused = Count - 1 - Dist(ntc, ntu)
  BY <1>1, UnusedIsRest
<1>4. Dist(ntc, CleanPos) \in 0 .. Count - 1 /\ Dist(ntc, ntu) \in 0 .. Count - 1
  BY <1>1, DistBasics
<1>5. MaxData \in Nat /\ Gap \in Nat /\ Gap > 0 /\ Count \in Nat
  BY DataAssumption, GapAssumption, CountAssumption
<1> QED BY <1>1, <1>2, <1>3, <1>4, <1>5 DEF Reserved

\* Where the descriptors of the frame being mapped are.
LEMMA FrameSlots ==
  ASSUME TypeRing, Reserved, CursorOrder, xpc \in {"map", "watch"}
  PROVE  /\ \A k \in 1 .. xn : /\ DataSlot(k) \in Slot
                               /\ Dist(CleanPos, DataSlot(k)) = Dist(CleanPos, ntu) + k - 1
         /\ Nxt(DataSlot(xn)) \in Slot
         /\ Dist(CleanPos, Nxt(DataSlot(xn))) = Dist(CleanPos, ntu) + xn
         /\ Dist(ntc, Nxt(DataSlot(xn))) = Dist(ntc, ntu) + xn
<1>1. CleanPos \in Slot /\ ntc \in Slot /\ ntu \in Slot /\ xn \in 1 .. MaxData /\ MaxData \in Nat /\ Count \in Nat
  BY PosTypes, DataAssumption, CountAssumption DEF TypeRing
<1>2. Dist(CleanPos, ntu) + xn <= Count - 1 /\ Dist(ntc, ntu) + xn <= Count - 1
  BY RoomAhead
<1>3. Dist(CleanPos, ntu) \in 0 .. Count - 1 /\ Dist(ntc, ntu) \in 0 .. Count - 1
  BY <1>1, DistBasics
<1>4. ASSUME NEW k \in 1 .. xn
      PROVE  /\ DataSlot(k) \in Slot
             /\ Dist(CleanPos, DataSlot(k)) = Dist(CleanPos, ntu) + k - 1
             /\ Dist(ntc, DataSlot(k)) = Dist(ntc, ntu) + k - 1
  <2>1. k - 1 \in Nat /\ k <= xn
    BY <1>1
  <2>2. Dist(CleanPos, ntu) + (k - 1) <= Count - 1 /\ Dist(ntc, ntu) + (k - 1) <= Count - 1
    BY <1>1, <1>2, <1>3, <2>1
  <2>3. /\ Adv(ntu, k - 1) \in Slot
        /\ Dist(CleanPos, Adv(ntu, k - 1)) = Dist(CleanPos, ntu) + (k - 1)
        /\ Dist(ntc, Adv(ntu, k - 1)) = Dist(ntc, ntu) + (k - 1)
    BY <1>1, <2>1, <2>2, DistAdv
  <2> QED BY <1>1, <1>3, <2>1, <2>3 DEF DataSlot
<1>5. xn \in 1 .. xn
  BY <1>1
<1>6. Dist(CleanPos, DataSlot(xn)) < Count - 1 /\ Dist(ntc, DataSlot(xn)) < Count - 1
  BY <1>1, <1>2, <1>3, <1>4, <1>5
<1>7. /\ Nxt(DataSlot(xn)) \in Slot
      /\ Dist(CleanPos, Nxt(DataSlot(xn))) = Dist(CleanPos, DataSlot(xn)) + 1
      /\ Dist(ntc, Nxt(DataSlot(xn))) = Dist(ntc, DataSlot(xn)) + 1
  BY <1>1, <1>4, <1>5, <1>6, DistNxt
<1> QED BY <1>1, <1>3, <1>4, <1>5, <1>7

-----------------------------------------------------------------------------
(* The actions that move a cursor or write a slot.                         *)

LEMMA CoreBuild ==
  ASSUME TypeRing, Reserved, Core, XmitBuild PROVE Core'
<1>1. CleanPos' = CleanPos /\ FrameEnd = ntu /\ FrameEnd' = ntu /\ first' = ntu /\ xpc' = "map"
  BY DEF XmitBuild, CleanPos, FrameEnd, cVars
<1>2. CleanPos \in Slot /\ ntu \in Slot /\ ntc \in Slot /\ head \in Slot /\ Nxt(ntu) \in Slot
  BY PosTypes, DistNxt DEF TypeRing
<1>3. /\ Dist(CleanPos, Nxt(ntu)) = Dist(CleanPos, ntu) + 1
      /\ Dist(ntc, Nxt(ntu)) = Dist(ntc, ntu) + 1
  BY <1>2, RoomAhead, DistNxt DEF Core, XmitBuild
<1>4. /\ ntu' = ntu \/ (xctx /\ ntu' = Nxt(ntu))
      /\ dd' \subseteq dd /\ (ntu' = Nxt(ntu) => ntu \notin dd')
      /\ \A j \in Slot : j # ntu => src'[j] = src[j]
      /\ ntu' = Nxt(ntu) => src'[ntu] = ntu
      /\ UNCHANGED <<ntc, ntw, len, head, tail, xctx>>
  <2>1. CASE xctx
    BY <2>1, <1>2 DEF XmitBuild, hwVars, TypeRing
  <2>2. CASE ~xctx
    BY <2>2, <1>2, <1>3, DistBasics, CountAssumption DEF XmitBuild, hwVars, TypeRing
  <2> QED BY <2>1, <2>2
<1>5. \A j \in Slot : Dist(CleanPos, j) \in 0 .. Count - 1 /\ (Dist(CleanPos, j) = Dist(CleanPos, ntu) => j = ntu)
  BY <1>2, DistBasics
<1>6. Dist(ntc, ntu) \in 0 .. Count - 1 /\ Dist(ntc, CleanPos) \in 0 .. Count - 1
  BY <1>2, DistBasics
<1>a. CursorOrder'
  BY <1>1, <1>2, <1>3, <1>4, <1>5, <1>6, CountAssumption DEF Core, CursorOrder
<1>b. Framing'
  BY <1>1, <1>4 DEF Core, Framing
<1>c. NoStaleDone'
  BY <1>1, <1>2, <1>3, <1>4, <1>5, CountAssumption DEF Core, NoStaleDone
<1>d. Mapped'
  BY <1>1, <1>2, <1>3, <1>4, <1>5, CountAssumption DEF Core, Mapped
<1> QED BY <1>a, <1>b, <1>c, <1>d DEF Core

LEMMA CoreFetch ==
  ASSUME TypeRing, Reserved, Core, HwFetch PROVE Core'
<1>1. CleanPos' = CleanPos /\ FrameEnd' = FrameEnd
  BY DEF HwFetch, CleanPos, FrameEnd, cVars, xVars
<1>2. CleanPos \in Slot /\ FrameEnd \in Slot /\ ntu \in Slot /\ ntc \in Slot /\ head \in Slot
      /\ tail \in Slot /\ Nxt(head) \in Slot
  BY PosTypes, DistNxt DEF TypeRing
<1>3. UNCHANGED <<ntu, ntc, src, ntw, len, tail, xpc, xn, xctx, first>> /\ head' = Nxt(head)
      /\ \A j \in Slot : j \in dd' => j \in dd \/ j = head
  BY DEF HwFetch, xVars
<1>4. \A j \in Slot : Dist(CleanPos, j) \in 0 .. Count - 1
  BY <1>2, DistBasics
<1>5. Dist(CleanPos, head) < Dist(CleanPos, tail)
  <2>1. head # tail
    BY DEF HwFetch
  <2>2. Dist(CleanPos, head) # Dist(CleanPos, tail)
    BY <1>2, <2>1, DistBasics
  <2> QED BY <1>2, <1>4, <2>2, CountAssumption DEF Core, CursorOrder
<1>6. Dist(CleanPos, Nxt(head)) = Dist(CleanPos, head) + 1
  BY <1>2, <1>4, <1>5, DistNxt, CountAssumption
<1>a. CursorOrder'
  BY <1>1, <1>2, <1>3, <1>4, <1>5, <1>6, CountAssumption DEF Core, CursorOrder
<1>b. Framing'
  BY <1>1, <1>3 DEF Core, Framing
<1>c. NoStaleDone'
  <2>1. ASSUME NEW j \in Slot, Dist(CleanPos, head') <= Dist(CleanPos, j), Dist(CleanPos, j) < Dist(CleanPos, ntu)
        PROVE j \notin dd'
    BY <2>1, <1>2, <1>3, <1>4, <1>6, CountAssumption DEF Core, NoStaleDone
  <2>2. ASSUME xpc = "watch", NEW k \in 1 .. xn PROVE DataSlot(k) \notin dd'
    <3>1. DataSlot(k) \in Slot /\ Dist(CleanPos, DataSlot(k)) = Dist(CleanPos, ntu) + k - 1
      BY <2>2, FrameSlots DEF Core
    <3>2. Dist(CleanPos, head) < Dist(CleanPos, DataSlot(k))
      BY <3>1, <1>2, <1>4, <1>5, CountAssumption, DataAssumption DEF Core, CursorOrder, TypeRing
    <3> QED BY <2>2, <3>1, <3>2, <1>2, <1>3, <1>4, CountAssumption DEF Core, NoStaleDone
  <2> QED BY <1>1, <1>3, <2>1, <2>2 DEF NoStaleDone, DataSlot
<1>d. Mapped'
  BY <1>1, <1>3 DEF Core, Mapped, DataSlot
<1> QED BY <1>a, <1>b, <1>c, <1>d DEF Core

LEMMA CoreMap ==
  ASSUME TypeRing, Reserved, Core, XmitMap PROVE Core'
<1>1. CleanPos' = CleanPos /\ FrameEnd = first /\ FrameEnd' = first /\ xpc = "map" /\ xpc' = "watch"
  BY DEF XmitMap, CleanPos, FrameEnd, cVars
<1>2. CleanPos \in Slot /\ ntu \in Slot /\ first \in Slot /\ xn \in Nat
  BY PosTypes, DataAssumption DEF TypeRing
<1>3. \A k \in 1 .. xn : /\ DataSlot(k) \in Slot
                         /\ Dist(CleanPos, DataSlot(k)) = Dist(CleanPos, ntu) + k - 1
                         /\ Dist(ntu, DataSlot(k)) = k - 1
  BY <1>1, FrameSlots, DataSlotType DEF Core
<1>4. \A j \in Slot : Dist(CleanPos, j) \in 0 .. Count - 1
  BY <1>2, DistBasics
<1>5. \A j \in Slot : Dist(CleanPos, j) < Dist(CleanPos, ntu) => j \notin DataSlots(xn)
  BY <1>2, <1>3, <1>4, CountAssumption DEF DataSlots
<1>6. /\ UNCHANGED <<ntu, ntc, ntw, head, tail, xn, xctx, first>>
      /\ dd' = dd \ DataSlots(xn)
      /\ len' = len \cup {BufSlot(k) : k \in Starts}
      /\ \A j \in Slot : src'[j] = IF j \in DataSlots(xn) THEN BufSlot(xmap[Dist(ntu, j) + 1]) ELSE src[j]
  BY DEF XmitMap, SrcAfter, hwVars
<1>7. \A k \in 1 .. xn : xmap[k] \in Starts /\ xmap[k] \in 1 .. k
  BY <1>2 DEF TypeRing, Mappings, Starts
<1>8. \A k \in 1 .. xn : DataSlot(k) \in DataSlots(xn) /\ src'[DataSlot(k)] = BufSlot(xmap[k])
  BY <1>2, <1>3, <1>6 DEF DataSlots
<1>9. Dist(CleanPos, first) <= Dist(CleanPos, ntu)
  BY <1>1 DEF Core, CursorOrder
<1>a. CursorOrder'
  BY <1>1, <1>6 DEF Core, CursorOrder
<1>b. Framing'
  BY <1>1, <1>6 DEF Core, Framing
<1>c. NoStaleDone'
  BY <1>1, <1>6, <1>8 DEF Core, NoStaleDone, DataSlot
<1>d. Mapped'
  <2>1. ASSUME NEW j \in Slot, Dist(CleanPos, j) < Dist(CleanPos, ntu)
        PROVE  src'[j] = src[j] /\ (src[j] \in len => src[j] \in len')
    BY <2>1, <1>5, <1>6
  <2>2. \A j \in Slot : Dist(CleanPos, j) < Dist(CleanPos, first) =>
          /\ src'[j] \in len'
          /\ Dist(CleanPos, src'[j]) <= Dist(CleanPos, j)
          /\ \A i \in Slot : ntw[i] # None /\ Dist(CleanPos, i) <= Dist(CleanPos, j)
                               => Dist(CleanPos, i) <= Dist(CleanPos, src'[j])
    BY <1>1, <1>2, <1>4, <1>9, <2>1, CountAssumption DEF Core, Mapped
  <2>3. \A j \in Slot :
          Dist(CleanPos, first) <= Dist(CleanPos, j) /\ Dist(CleanPos, j) < Dist(CleanPos, ntu)
            => src'[j] = first
    BY <1>1, <2>1 DEF Core, Mapped
  <2>4. first \in len'
    <3>1. 1 \in 1 .. xn
      BY DataAssumption DEF TypeRing
    <3>2. xmap[1] = 1
      BY <3>1, <1>7
    <3> QED BY <3>1, <3>2, <1>6, <1>7 DEF BufSlot
  <2>5. ASSUME NEW k \in 1 .. xn
        PROVE  /\ src'[DataSlot(k)] \in len'
               /\ Dist(CleanPos, first) <= Dist(CleanPos, src'[DataSlot(k)])
               /\ Dist(CleanPos, src'[DataSlot(k)]) <= Dist(CleanPos, DataSlot(k))
    <3>1. src'[DataSlot(k)] = BufSlot(xmap[k]) /\ xmap[k] \in Starts /\ xmap[k] \in 1 .. k
      BY <1>7, <1>8
    <3>2. xmap[k] \in 1 .. xn
      BY <1>2, <3>1
    <3>3. BufSlot(xmap[k]) = first \/ BufSlot(xmap[k]) = DataSlot(xmap[k])
      BY DEF BufSlot
    <3>4. /\ Dist(CleanPos, DataSlot(k)) = Dist(CleanPos, ntu) + k - 1
          /\ Dist(CleanPos, DataSlot(xmap[k])) = Dist(CleanPos, ntu) + xmap[k] - 1
      BY <1>3, <3>2
    <3>5. Dist(CleanPos, first) \in Nat /\ Dist(CleanPos, ntu) \in Nat
      BY <1>2, <1>4, CountAssumption
    <3>6. src'[DataSlot(k)] \in len'
      BY <1>6, <3>1
    <3>7. CASE BufSlot(xmap[k]) = first
      BY <1>2, <1>9, <3>1, <3>4, <3>5, <3>6, <3>7
    <3>8. CASE BufSlot(xmap[k]) = DataSlot(xmap[k])
      BY <1>2, <1>9, <3>1, <3>4, <3>5, <3>6, <3>8
    <3> QED BY <3>3, <3>7, <3>8
  <2> QED BY <1>1, <1>6, <2>2, <2>3, <2>4, <2>5 DEF Mapped, DataSlot
<1> QED BY <1>a, <1>b, <1>c, <1>d DEF Core

LEMMA CoreDmaError ==
  ASSUME TypeRing, Reserved, Core, NEW k \in 1 .. MaxData, XmitDmaError(k) PROVE Core'
<1>1. CleanPos' = CleanPos /\ FrameEnd = first /\ ntu' = first /\ FrameEnd' = first
      /\ xpc = "map" /\ xpc' = "idle"
  BY DEF XmitDmaError, XmitReturn, CleanPos, FrameEnd, cVars
<1>2. CleanPos \in Slot /\ ntu \in Slot /\ first \in Slot /\ xn \in Nat /\ k \in 1 .. xn
  BY PosTypes, DataAssumption DEF TypeRing, XmitDmaError, Starts
<1>3. \A m \in 1 .. xn : /\ DataSlot(m) \in Slot
                         /\ Dist(CleanPos, DataSlot(m)) = Dist(CleanPos, ntu) + m - 1
  BY <1>1, FrameSlots DEF Core
<1>4. \A j \in Slot : Dist(CleanPos, j) \in 0 .. Count - 1
  BY <1>2, DistBasics
<1>5. Dist(CleanPos, first) <= Dist(CleanPos, ntu)
  BY <1>1 DEF Core, CursorOrder
<1>6. /\ UNCHANGED <<ntc, ntw, head, tail>>
      /\ dd' \subseteq dd
      /\ \A j \in Slot : src'[j] = src[j] \/ \E m \in 1 .. k - 1 : j = DataSlot(m)
      /\ \A j \in len : j = first \/ (\E m \in 1 .. k : j = DataSlot(m)) \/ j \in len'
  BY DEF XmitDmaError, Undone, SrcAfter, DataSlots, hwVars
<1>7. \A j \in Slot : Dist(CleanPos, j) < Dist(CleanPos, first) /\ j \in len => j \in len'
  <2> SUFFICES ASSUME NEW j \in Slot, Dist(CleanPos, j) < Dist(CleanPos, first), j \in len,
                      NEW m \in 1 .. k
               PROVE  j # first /\ j # DataSlot(m)
    BY <1>2, <1>6
  <2>1. m \in 1 .. xn
    BY <1>2
  <2> QED BY <1>2, <1>3, <1>4, <1>5, <2>1, CountAssumption
<1>a. CursorOrder'
  <2>1. Dist(ntc, first) \in Int /\ Dist(CleanPos, first) \in Int
    BY <1>2, <1>4, DistBasics, CountAssumption DEF TypeRing
  <2> QED BY <1>1, <1>2, <1>6, <2>1 DEF Core, CursorOrder
<1>b. Framing'
  BY <1>1, <1>6 DEF Core, Framing
<1>c. NoStaleDone'
  BY <1>1, <1>2, <1>4, <1>5, <1>6, CountAssumption DEF Core, NoStaleDone
<1>d. Mapped'
  <2>1. \A j \in Slot : src[j] \in Slot
    BY DEF TypeRing
  <2>2. \A j \in Slot : Dist(CleanPos, j) < Dist(CleanPos, first) => src'[j] = src[j]
    <3> SUFFICES ASSUME NEW j \in Slot, Dist(CleanPos, j) < Dist(CleanPos, first),
                        NEW m \in 1 .. k - 1
                 PROVE  j # DataSlot(m)
      BY <1>6
    <3>1. m \in 1 .. xn
      BY <1>2
    <3> QED BY <1>2, <1>3, <1>4, <1>5, <3>1, CountAssumption
  <2> QED BY <1>1, <1>2, <1>4, <1>6, <1>7, <2>1, <2>2, CountAssumption DEF Core, Mapped
<1> QED BY <1>a, <1>b, <1>c, <1>d DEF Core

LEMMA CoreWatch ==
  ASSUME TypeRing, Reserved, Core, XmitWatch PROVE Core'
<1>1. CleanPos' = CleanPos /\ FrameEnd = first /\ FrameEnd' = ntu' /\ ntu' = Nxt(DataSlot(xn))
      /\ xpc = "watch" /\ xpc' = "stopcheck"
  BY DEF XmitWatch, CleanPos, FrameEnd, cVars
<1>2. CleanPos \in Slot /\ ntu \in Slot /\ ntc \in Slot /\ first \in Slot /\ head \in Slot
      /\ tail \in Slot /\ xn \in Nat /\ xn \in 1 .. xn
  BY PosTypes, DataAssumption DEF TypeRing
<1>3. /\ \A k \in 1 .. xn : /\ DataSlot(k) \in Slot
                            /\ Dist(CleanPos, DataSlot(k)) = Dist(CleanPos, ntu) + k - 1
      /\ ntu' \in Slot
      /\ Dist(CleanPos, ntu') = Dist(CleanPos, ntu) + xn
      /\ Dist(ntc, ntu') = Dist(ntc, ntu) + xn
  BY <1>1, FrameSlots DEF Core
<1>4. /\ \A j \in Slot : Dist(CleanPos, j) \in Nat
      /\ \A i, j \in Slot : Dist(CleanPos, i) = Dist(CleanPos, j) => i = j
      /\ \A j \in Slot : Dist(ntc, j) \in Nat
  BY <1>2, DistBasics, CountAssumption
<1>5. Dist(CleanPos, first) <= Dist(CleanPos, ntu)
  BY <1>1 DEF Core, CursorOrder
<1>6. /\ UNCHANGED <<ntc, dd, src, len, head, tail>>
      /\ ntw'[first] = DataSlot(xn)
      /\ \A i \in Slot : i # first => ntw'[i] = ntw[i]
  BY <1>2 DEF XmitWatch, hwVars, TypeRing
<1>7. \A i \in Slot : ntw[i] # None =>
        /\ ntw[i] \in Slot
        /\ Dist(CleanPos, i) <= Dist(CleanPos, ntw[i])
        /\ Dist(CleanPos, ntw[i]) < Dist(CleanPos, first)
  BY <1>1 DEF Core, Framing, TypeRing
<1>8. DataSlot(xn) \in Slot /\ DataSlot(xn) # None
      /\ Dist(CleanPos, DataSlot(xn)) = Dist(CleanPos, ntu) + xn - 1
  BY <1>2, <1>3, NoneAssumption
<1>9. \A j \in Slot : Dist(CleanPos, ntu) <= Dist(CleanPos, j) /\ Dist(CleanPos, j) < Dist(CleanPos, ntu')
        => \E k \in 1 .. xn : j = DataSlot(k)
  <2> SUFFICES ASSUME NEW j \in Slot, Dist(CleanPos, ntu) <= Dist(CleanPos, j),
                      Dist(CleanPos, j) < Dist(CleanPos, ntu')
               PROVE  \E k \in 1 .. xn : j = DataSlot(k)
    OBVIOUS
  <2>1. Dist(CleanPos, j) - Dist(CleanPos, ntu) + 1 \in 1 .. xn
    BY <1>2, <1>3, <1>4
  <2>2. j = DataSlot(Dist(CleanPos, j) - Dist(CleanPos, ntu) + 1)
    BY <1>2, <1>3, <1>4, <2>1
  <2> QED BY <2>1, <2>2
<1>a. CursorOrder'
  BY <1>1, <1>2, <1>3, <1>4, <1>5, <1>6 DEF Core, CursorOrder
<1>b. Framing'
  <2>1. CleanPos # ntu' => ntw'[CleanPos] # None
    BY <1>1, <1>2, <1>6, <1>8 DEF Core, Framing
  <2>2. ASSUME NEW i \in Slot, ntw'[i] # None
        PROVE  /\ Dist(CleanPos, i) <= Dist(CleanPos, ntw'[i])
               /\ Dist(CleanPos, ntw'[i]) < Dist(CleanPos, ntu')
               /\ Nxt(ntw'[i]) = ntu' \/ ntw'[Nxt(ntw'[i])] # None
               /\ \A m \in Slot : ntw'[m] # None /\ Dist(CleanPos, i) < Dist(CleanPos, m)
                                    => Dist(CleanPos, ntw'[i]) < Dist(CleanPos, m)
    <3>1. CASE i = first
      <4>1. \A m \in Slot : ntw'[m] # None => Dist(CleanPos, m) <= Dist(CleanPos, first)
        BY <1>2, <1>4, <1>6, <1>7
      <4> QED BY <3>1, <4>1, <1>1, <1>2, <1>3, <1>4, <1>5, <1>6, <1>8
    <3>2. CASE i # first
      <4>1. ntw'[i] = ntw[i] /\ ntw[i] \in Slot /\ Dist(CleanPos, i) <= Dist(CleanPos, ntw[i])
            /\ Dist(CleanPos, ntw[i]) < Dist(CleanPos, first)
        BY <2>2, <3>2, <1>6, <1>7
      <4>2. Dist(CleanPos, first) < Dist(CleanPos, ntu')
        BY <1>2, <1>3, <1>4, <1>5
      <4>3. Nxt(ntw[i]) \in Slot
        BY <4>1, DistNxt
      <4>4. Nxt(ntw[i]) = first \/ ntw[Nxt(ntw[i])] # None
        BY <2>2, <4>1, <1>1 DEF Core, Framing
      <4>5. ntw'[Nxt(ntw[i])] # None
        BY <4>3, <4>4, <1>6, <1>8
      <4>6. \A m \in Slot : ntw'[m] # None /\ Dist(CleanPos, i) < Dist(CleanPos, m)
                                    => Dist(CleanPos, ntw[i]) < Dist(CleanPos, m)
        BY <2>2, <4>1, <1>6 DEF Core, Framing
      <4> QED BY <4>1, <4>2, <4>5, <4>6, <1>2, <1>3, <1>4
    <3> QED BY <3>1, <3>2
  <2> QED BY <1>1, <2>1, <2>2 DEF Framing
<1>c. NoStaleDone'
  <2>1. ASSUME NEW j \in Slot, Dist(CleanPos, head) <= Dist(CleanPos, j),
               Dist(CleanPos, j) < Dist(CleanPos, ntu')
        PROVE  j \notin dd
    <3>1. CASE Dist(CleanPos, j) < Dist(CleanPos, ntu)
      BY <2>1, <3>1 DEF Core, NoStaleDone
    <3>2. CASE Dist(CleanPos, ntu) <= Dist(CleanPos, j)
      BY <2>1, <3>2, <1>1, <1>9 DEF Core, NoStaleDone
    <3> QED BY <3>1, <3>2, <1>2, <1>4
  <2> QED BY <1>1, <1>6, <2>1 DEF NoStaleDone
<1>d. Mapped'
  <2>1. ASSUME NEW i \in Slot, ntw'[i] # None PROVE i = first \/ ntw[i] # None
    BY <2>1, <1>6
  <2>2. ASSUME NEW j \in Slot, Dist(CleanPos, j) < Dist(CleanPos, ntu')
        PROVE  /\ src[j] \in len
               /\ Dist(CleanPos, src[j]) <= Dist(CleanPos, j)
               /\ \A i \in Slot : ntw'[i] # None /\ Dist(CleanPos, i) <= Dist(CleanPos, j)
                                    => Dist(CleanPos, i) <= Dist(CleanPos, src[j])
    <3>0. src[j] \in Slot
      BY DEF TypeRing
    <3>1. CASE Dist(CleanPos, j) < Dist(CleanPos, first)
      BY <3>0, <3>1, <2>1, <1>1, <1>2, <1>4 DEF Core, Mapped
    <3>2. CASE Dist(CleanPos, first) <= Dist(CleanPos, j)
      <4>1. src[j] \in len /\ Dist(CleanPos, first) <= Dist(CleanPos, src[j])
            /\ Dist(CleanPos, src[j]) <= Dist(CleanPos, j)
        <5>1. CASE Dist(CleanPos, j) < Dist(CleanPos, ntu)
          BY <3>2, <5>1, <1>1, <1>2, <1>4 DEF Core, Mapped
        <5>2. CASE Dist(CleanPos, ntu) <= Dist(CleanPos, j)
          BY <2>2, <5>2, <1>1, <1>9 DEF Core, Mapped
        <5> QED BY <5>1, <5>2, <1>2, <1>4
      <4>2. \A i \in Slot : ntw'[i] # None => Dist(CleanPos, i) <= Dist(CleanPos, first)
        BY <2>1, <1>2, <1>4, <1>7
      <4> QED BY <3>0, <4>1, <4>2, <1>2, <1>4
    <3> QED BY <3>1, <3>2, <1>2, <1>4
  <2> QED BY <1>1, <1>6, <2>2 DEF Mapped
<1> QED BY <1>a, <1>b, <1>c, <1>d DEF Core

LEMMA CoreCleanPacket ==
  ASSUME TypeRing, Reserved, Core, CleanPacket PROVE Core'
<1> DEFINE last == ntw[CleanPos]
           n == Dist(CleanPos, last) + 1
<1>1. CleanPos = ci /\ CleanPos' = Nxt(last) /\ FrameEnd' = FrameEnd
      /\ last # None /\ last \in dd
  BY DEF CleanPacket, PacketDone, CleanPos, FrameEnd, xVars
<1>2. CleanPos \in Slot /\ FrameEnd \in Slot /\ ntu \in Slot /\ ntc \in Slot /\ first \in Slot
      /\ head \in Slot /\ tail \in Slot /\ last \in Slot /\ Nxt(last) \in Slot /\ xn \in Nat
  BY <1>1, PosTypes, DistNxt, DataAssumption DEF TypeRing
<1>3. /\ \A j \in Slot : Dist(CleanPos, j) \in Nat /\ Dist(ntc, j) \in Nat
      /\ \A j \in Slot : Dist(CleanPos, j) < Count /\ Dist(ntc, j) < Count
      /\ Dist(CleanPos, CleanPos) = 0
      /\ Count \in Nat
  BY <1>2, DistBasics, CountAssumption
<1>4. n <= Dist(CleanPos, FrameEnd) /\ n <= Dist(CleanPos, ntu) /\ n < Count
  BY <1>1, <1>2, <1>3 DEF Core, Framing, CursorOrder
<1>5. Dist(CleanPos, Nxt(last)) = n
  BY <1>2, <1>3, <1>4, DistNxt
<1>6. \A j \in Slot : n <= Dist(CleanPos, j) => Dist(Nxt(last), j) = Dist(CleanPos, j) - n
  BY <1>2, <1>5, DistSplit
<1>7. n <= Dist(CleanPos, head) /\ n <= Dist(CleanPos, tail)
  <2>1. Dist(CleanPos, last) < Dist(CleanPos, head)
    BY <1>1, <1>2, <1>3, <1>4 DEF Core, NoStaleDone
  <2> QED BY <2>1, <1>2, <1>3 DEF Core, CursorOrder
\* What lies behind the new position is as far away as a full round allows.
<1>8. \A j \in Slot : Dist(CleanPos, j) < n => Dist(Nxt(last), j) = Dist(CleanPos, j) - n + Count
  <2> SUFFICES ASSUME NEW j \in Slot, Dist(CleanPos, j) < n
               PROVE  Dist(Nxt(last), j) = Dist(CleanPos, j) - n + Count
    OBVIOUS
  <2> HIDE DEF last
  <2>1. Nxt(last) \in Slot /\ Dist(CleanPos, j) < Dist(CleanPos, Nxt(last)) /\ n \in Int
    BY <1>2, <1>3, <1>5
  <2>2. \A a, b, c \in Slot : Dist(a, c) < Dist(a, b) => Dist(b, c) = Dist(a, c) - Dist(a, b) + Count
    BY CountAssumption DEF Dist, Slot
  <2> QED BY <1>2, <1>5, <2>1, <2>2
<1>9. /\ UNCHANGED <<ntu, ntc, dd, src, head, tail, xpc, xn, xctx, first>>
      /\ len' = len \ {j \in Slot : Dist(CleanPos, j) < n}
      /\ ntw'[CleanPos] = None
      /\ \A i \in Slot : i # CleanPos => ntw'[i] = ntw[i]
  <2>1. len' = len \ {j \in Slot : Dist(CleanPos, j) <= Dist(CleanPos, last)}
    BY <1>1 DEF CleanPacket, Unmapped
  <2>2. UNCHANGED <<ntu, ntc, dd, src, head, tail, xpc, xn, xctx, first>>
        /\ ntw' = [ntw EXCEPT ![CleanPos] = None]
    BY <1>1 DEF CleanPacket, hwVars, xVars
  <2> QED BY <1>2, <1>3, <2>1, <2>2 DEF TypeRing
<1>10. \A i \in Slot : ntw'[i] # None =>
         /\ ntw[i] # None /\ ntw'[i] = ntw[i] /\ ntw[i] \in Slot
         /\ n <= Dist(CleanPos, i) /\ n <= Dist(CleanPos, ntw[i])
  <2> SUFFICES ASSUME NEW i \in Slot, ntw'[i] # None
               PROVE  /\ ntw[i] # None /\ ntw'[i] = ntw[i] /\ ntw[i] \in Slot
                      /\ n <= Dist(CleanPos, i) /\ n <= Dist(CleanPos, ntw[i])
    OBVIOUS
  <2>1. i # CleanPos /\ ntw'[i] = ntw[i] /\ ntw[i] # None /\ ntw[i] \in Slot
    BY <1>9 DEF TypeRing
  <2>2. Dist(CleanPos, CleanPos) < Dist(CleanPos, i)
    BY <2>1, <1>2, <1>3, DistBasics
  <2>3. Dist(CleanPos, last) < Dist(CleanPos, i)
    BY <1>1, <1>2, <2>1, <2>2 DEF Core, Framing
  <2>4. Dist(CleanPos, i) <= Dist(CleanPos, ntw[i])
    BY <2>1 DEF Core, Framing
  <2> QED BY <2>1, <2>3, <2>4, <1>2, <1>3
<1>11. Dist(ntc, Nxt(last)) = Dist(ntc, CleanPos) + n
  <2>1. Dist(CleanPos, FrameEnd) = Dist(ntc, FrameEnd) - Dist(ntc, CleanPos)
    BY <1>2, DistSplit DEF Core, CursorOrder
  <2>2. Dist(ntc, CleanPos) + n < Count
    BY <1>2, <1>3, <1>4, <2>1
  <2> QED BY <1>2, <1>5, <2>2, DistJoin
<1>12. Dist(ntc, Nxt(last)) <= Dist(ntc, FrameEnd)
  <2>1. Dist(CleanPos, FrameEnd) = Dist(ntc, FrameEnd) - Dist(ntc, CleanPos)
    BY <1>2, DistSplit DEF Core, CursorOrder
  <2> QED BY <1>2, <1>3, <1>4, <1>11, <2>1
<1>13. xpc \in {"map", "watch"} => \A k \in 1 .. xn :
         DataSlot(k) \in Slot /\ n <= Dist(CleanPos, DataSlot(k))
  BY <1>2, <1>3, <1>4, FrameSlots DEF Core
<1>14. xpc \in {"map", "watch"} => FrameEnd = first
  BY DEF FrameEnd
<1> HIDE DEF last, n
<1>a. CursorOrder'
  <2>1. n \in Int
    BY <1>2, <1>3, <1>5
  <2> QED BY <1>1, <1>2, <1>3, <1>4, <1>6, <1>7, <1>9, <1>12, <2>1 DEF Core, CursorOrder
<1>b. Framing'
  <2>1. Nxt(last) = FrameEnd \/ ntw[Nxt(last)] # None
    BY <1>1, <1>2 DEF Core, Framing, last
  <2>2. Nxt(last) # FrameEnd => ntw'[Nxt(last)] # None
    <3>1. Nxt(last) # CleanPos
      BY <1>2, <1>3, <1>5 DEF n
    <3> QED BY <2>1, <3>1, <1>2, <1>9
  <2>3. ASSUME NEW i \in Slot, ntw'[i] # None
        PROVE  /\ Dist(Nxt(last), i) <= Dist(Nxt(last), ntw'[i])
               /\ Dist(Nxt(last), ntw'[i]) < Dist(Nxt(last), FrameEnd)
               /\ Nxt(ntw'[i]) = FrameEnd \/ ntw'[Nxt(ntw'[i])] # None
               /\ \A m \in Slot : ntw'[m] # None /\ Dist(Nxt(last), i) < Dist(Nxt(last), m)
                                    => Dist(Nxt(last), ntw'[i]) < Dist(Nxt(last), m)
    <3>1. /\ ntw[i] # None /\ ntw'[i] = ntw[i] /\ ntw[i] \in Slot
          /\ n <= Dist(CleanPos, i) /\ n <= Dist(CleanPos, ntw[i])
      BY <2>3, <1>10
    <3>2. /\ Dist(CleanPos, i) <= Dist(CleanPos, ntw[i])
          /\ Dist(CleanPos, ntw[i]) < Dist(CleanPos, FrameEnd)
          /\ Nxt(ntw[i]) = FrameEnd \/ ntw[Nxt(ntw[i])] # None
      BY <3>1 DEF Core, Framing
    <3>3. n \in Nat
      BY <1>2, <1>3, <1>5
    <3>4. /\ Dist(Nxt(last), i) = Dist(CleanPos, i) - n
          /\ Dist(Nxt(last), ntw[i]) = Dist(CleanPos, ntw[i]) - n
          /\ Dist(Nxt(last), FrameEnd) = Dist(CleanPos, FrameEnd) - n
      BY <3>1, <1>2, <1>4, <1>6
    <3>5. Nxt(ntw[i]) = FrameEnd \/ ntw'[Nxt(ntw[i])] # None
      <4>1. Nxt(ntw[i]) \in Slot /\ Dist(CleanPos, Nxt(ntw[i])) = Dist(CleanPos, ntw[i]) + 1
        BY <3>1, <3>2, <1>2, <1>3, DistNxt
      <4>2. Nxt(ntw[i]) # CleanPos
        BY <4>1, <3>1, <1>3
      <4> QED BY <4>1, <4>2, <3>2, <1>9
    <3>6. \A m \in Slot : ntw'[m] # None /\ Dist(Nxt(last), i) < Dist(Nxt(last), m)
                            => Dist(Nxt(last), ntw[i]) < Dist(Nxt(last), m)
      <4> SUFFICES ASSUME NEW m \in Slot, ntw'[m] # None, Dist(Nxt(last), i) < Dist(Nxt(last), m)
                   PROVE  Dist(Nxt(last), ntw[i]) < Dist(Nxt(last), m)
        OBVIOUS
      <4>1. ntw[m] # None /\ n <= Dist(CleanPos, m)
        BY <1>10
      <4>2. Dist(Nxt(last), m) = Dist(CleanPos, m) - n
        BY <4>1, <1>6
      <4>3. Dist(CleanPos, i) < Dist(CleanPos, m)
        BY <4>2, <3>3, <3>4, <1>3
      <4>4. Dist(CleanPos, ntw[i]) < Dist(CleanPos, m)
        BY <4>1, <4>3, <3>1 DEF Core, Framing
      <4> QED BY <4>2, <4>4, <3>1, <3>3, <3>4, <1>3
    <3> QED BY <3>1, <3>2, <3>3, <3>4, <3>5, <3>6, <1>2, <1>3
  <2> QED BY <1>1, <2>2, <2>3 DEF Framing
<1>15. n \in Nat
  BY <1>2, <1>3, <1>5
\* The order of two slots is the same seen from both positions, unless the
\* first of them has just been cleaned.
<1>16. \A j, m \in Slot : n <= Dist(CleanPos, m) /\ Dist(Nxt(last), j) < Dist(Nxt(last), m) =>
         n <= Dist(CleanPos, j) /\ Dist(CleanPos, j) < Dist(CleanPos, m)
  BY <1>3, <1>6, <1>8, <1>15
<1>c. NoStaleDone'
  <2>1. ASSUME NEW j \in Slot, Dist(Nxt(last), head) <= Dist(Nxt(last), j),
               Dist(Nxt(last), j) < Dist(Nxt(last), ntu)
        PROVE  j \notin dd
    <3>1. n <= Dist(CleanPos, j) /\ Dist(CleanPos, j) < Dist(CleanPos, ntu)
      BY <2>1, <1>2, <1>4, <1>16
    <3>2. Dist(CleanPos, head) <= Dist(CleanPos, j)
      BY <2>1, <3>1, <1>2, <1>3, <1>6, <1>7, <1>15
    <3> QED BY <3>1, <3>2 DEF Core, NoStaleDone
  <2> QED BY <1>1, <1>9, <2>1 DEF Core, NoStaleDone, DataSlot
<1>d. Mapped'
  <2>1. ASSUME NEW j \in Slot, n <= Dist(CleanPos, j), j \in len PROVE j \in len'
    BY <2>1, <1>3, <1>9, <1>15
  <2>2. ASSUME NEW j \in Slot, Dist(Nxt(last), j) < Dist(Nxt(last), FrameEnd)
        PROVE  /\ src[j] \in len'
               /\ Dist(Nxt(last), src[j]) <= Dist(Nxt(last), j)
               /\ \A i \in Slot : ntw'[i] # None /\ Dist(Nxt(last), i) <= Dist(Nxt(last), j)
                                    => Dist(Nxt(last), i) <= Dist(Nxt(last), src[j])
    <3>1. n <= Dist(CleanPos, j) /\ Dist(CleanPos, j) < Dist(CleanPos, FrameEnd)
      BY <2>2, <1>2, <1>4, <1>16
    <3>2. /\ src[j] \in len /\ src[j] \in Slot
          /\ Dist(CleanPos, src[j]) <= Dist(CleanPos, j)
          /\ \A i \in Slot : ntw[i] # None /\ Dist(CleanPos, i) <= Dist(CleanPos, j)
                                    => Dist(CleanPos, i) <= Dist(CleanPos, src[j])
      BY <3>1 DEF Core, Mapped, TypeRing
    <3>3. ntw[Nxt(last)] # None
      <4>1. Nxt(last) # FrameEnd
        BY <3>1, <1>2, <1>3, <1>5, <1>15
      <4> QED BY <4>1, <1>1, <1>2 DEF Core, Framing, last
    <3>4. n <= Dist(CleanPos, src[j])
      BY <3>1, <3>2, <3>3, <1>2, <1>5
    <3>5. /\ Dist(Nxt(last), src[j]) = Dist(CleanPos, src[j]) - n
          /\ Dist(Nxt(last), j) = Dist(CleanPos, j) - n
      BY <3>1, <3>2, <3>4, <1>6
    <3>6. \A i \in Slot : ntw'[i] # None => ntw[i] # None /\ Dist(Nxt(last), i) = Dist(CleanPos, i) - n
      BY <1>6, <1>10
    <3> QED BY <2>1, <3>2, <3>4, <3>5, <3>6, <1>3, <1>15
  <2>3. ASSUME xpc \in {"map", "watch"}, NEW j \in Slot,
               Dist(Nxt(last), first) <= Dist(Nxt(last), j), Dist(Nxt(last), j) < Dist(Nxt(last), ntu)
        PROVE  src[j] = first
    <3>1. n <= Dist(CleanPos, j) /\ Dist(CleanPos, j) < Dist(CleanPos, ntu)
      BY <2>3, <1>2, <1>4, <1>16
    <3>2. Dist(CleanPos, first) <= Dist(CleanPos, j)
      BY <2>3, <3>1, <1>2, <1>3, <1>4, <1>6, <1>14, <1>15
    <3> QED BY <2>3, <3>1, <3>2 DEF Core, Mapped
  <2>4. ASSUME xpc = "watch", NEW k \in 1 .. xn
        PROVE  /\ first \in len'
               /\ src[DataSlot(k)] \in len'
               /\ Dist(Nxt(last), first) <= Dist(Nxt(last), src[DataSlot(k)])
               /\ Dist(Nxt(last), src[DataSlot(k)]) <= Dist(Nxt(last), DataSlot(k))
    <3>1. /\ first \in len /\ src[DataSlot(k)] \in len
          /\ Dist(CleanPos, first) <= Dist(CleanPos, src[DataSlot(k)])
          /\ Dist(CleanPos, src[DataSlot(k)]) <= Dist(CleanPos, DataSlot(k))
      BY <2>4 DEF Core, Mapped
    <3>2. DataSlot(k) \in Slot /\ src[DataSlot(k)] \in Slot
      BY <2>4, <1>13 DEF TypeRing
    <3>3. n <= Dist(CleanPos, first)
      BY <2>4, <1>4, <1>14
    <3> QED BY <2>1, <3>1, <3>2, <3>3, <1>2, <1>3, <1>6, <1>15
  <2>5. 1 \in 1 .. xn
    BY DataAssumption DEF TypeRing
  <2>6. xpc = "watch" => first \in len'
    BY <2>4, <2>5
  <2>7. xpc = "watch" => \A k \in 1 .. xn :
          /\ src[DataSlot(k)] \in len'
          /\ Dist(Nxt(last), first) <= Dist(Nxt(last), src[DataSlot(k)])
          /\ Dist(Nxt(last), src[DataSlot(k)]) <= Dist(Nxt(last), DataSlot(k))
    BY <2>4
  <2>8. \A k \in 1 .. xn : DataSlot(k)' = DataSlot(k)
    BY <1>9 DEF DataSlot
  <2> QED BY <1>1, <1>9, <2>2, <2>3, <2>6, <2>7, <2>8 DEF Mapped
<1> QED BY <1>a, <1>b, <1>c, <1>d DEF Core

\* Steps that touch neither the slots nor, as far as Core reads it, the frame
\* being built.
LEMMA CoreRest ==
  ASSUME Core, CursorOrder', UNCHANGED <<ntu, dd, src, ntw, len, head>>,
         CleanPos' = CleanPos, FrameEnd' = FrameEnd,
         UNCHANGED <<xpc, xn, first>> \/ xpc' \notin {"map", "watch"}
  PROVE  Core'
<1>1. Framing'
  BY DEF Core, Framing
<1>2. NoStaleDone'
  BY DEF Core, NoStaleDone, DataSlot
<1>3. Mapped'
  BY DEF Core, Mapped, DataSlot
<1> QED BY <1>1, <1>2, <1>3 DEF Core

LEMMA CoreQuiet ==
  ASSUME Core, UNCHANGED <<ntu, ntc, dd, src, ntw, len, head, tail>>,
         CleanPos' = CleanPos, FrameEnd' = FrameEnd,
         UNCHANGED <<xpc, xn, first, xctx>> \/ (xpc' \notin {"map", "watch"} /\ FrameEnd' = ntu')
  PROVE  Core'
<1>1. CursorOrder'
  BY DEF Core, CursorOrder
<1> QED BY <1>1, CoreRest

LEMMA CoreCleanDone ==
  ASSUME TypeRing, Core, CleanDone PROVE Core'
<1>1. CleanPos = ci /\ ntc' = ci /\ CleanPos' = ci /\ FrameEnd' = FrameEnd
      /\ UNCHANGED <<ntu, dd, src, ntw, len, head, tail, xpc, xn, first, xctx>>
  BY DEF CleanDone, CleanPos, FrameEnd, hwVars, xVars
<1>2. ci \in Slot /\ FrameEnd \in Slot /\ ntu \in Slot
  BY PosTypes DEF TypeRing
<1>3. Dist(ci, ci) = 0 /\ Dist(ci, FrameEnd) \in Nat
  BY <1>2, DistBasics, CountAssumption
<1>4. CursorOrder'
  BY <1>1, <1>3 DEF Core, CursorOrder
<1> QED BY <1>1, <1>4, CoreRest

LEMMA CoreTail ==
  ASSUME TypeRing, Core, NEW bql \in BOOLEAN, XmitTail(bql) PROVE Core'
<1>1. CleanPos' = CleanPos /\ FrameEnd = ntu /\ FrameEnd' = ntu /\ xpc' = "idle"
      /\ UNCHANGED <<ntu, ntc, dd, src, ntw, len, head>> /\ (tail' = tail \/ tail' = ntu)
  BY DEF XmitTail, XmitReturn, CleanPos, FrameEnd, ringVars, cVars
<1>2. CleanPos \in Slot /\ ntu \in Slot /\ tail \in Slot /\ head \in Slot
  BY PosTypes DEF TypeRing
<1>3. \A j \in Slot : Dist(CleanPos, j) \in Nat
  BY <1>2, DistBasics, CountAssumption
<1>4. CursorOrder'
  BY <1>1, <1>2, <1>3 DEF Core, CursorOrder
<1> QED BY <1>1, <1>4, CoreRest

LEMMA CoreZero ==
  ASSUME ntu = 0, ntc = 0, head = 0, tail = 0, CleanPos = 0, FrameEnd = 0,
         \A i \in Slot : ntw[i] = None, xpc = "idle"
  PROVE  Core
<1>1. Dist(0, 0) = 0 /\ \A j \in Slot : ~(Dist(0, j) < 0)
  BY ZeroSlot, DistBasics, CountAssumption
<1>2. CursorOrder
  BY <1>1 DEF CursorOrder
<1>3. Framing
  BY DEF Framing
<1>4. NoStaleDone
  BY <1>1 DEF NoStaleDone
<1>5. Mapped
  BY <1>1 DEF Mapped
<1> QED BY <1>2, <1>3, <1>4, <1>5 DEF Core

LEMMA CoreConfigure ==
  ASSUME Quiesced, ConfigureTxRing PROVE Core'
<1>1. xpc' = "idle" /\ cpc' = "idle"
  BY DEF Quiesced, ConfigureTxRing, xVars, cVars
<1>2. ntu' = 0 /\ ntc' = 0 /\ head' = 0 /\ tail' = 0 /\ \A i \in Slot : ntw'[i] = None
  BY DEF ConfigureTxRing
<1>3. CleanPos' = 0 /\ FrameEnd' = 0
  BY <1>1, <1>2 DEF CleanPos, FrameEnd
<1>4. Dist(0, 0) = 0 /\ \A j \in Slot : ~(Dist(0, j) < 0)
  BY ZeroSlot, DistBasics, CountAssumption
<1>5. CursorOrder'
  BY <1>2, <1>3, <1>4 DEF CursorOrder
<1>6. Framing'
  BY <1>2, <1>3 DEF Framing
<1>7. NoStaleDone'
  BY <1>1, <1>2, <1>3, <1>4 DEF NoStaleDone
<1>8. Mapped'
  BY <1>1, <1>2, <1>3, <1>4 DEF Mapped
<1> QED BY <1>5, <1>6, <1>7, <1>8 DEF Core

-----------------------------------------------------------------------------
(* The three parts of RingInv, step by step.                               *)

LEMMA CoreStep ==
  ASSUME TypeRing, Quiesced, Reserved, apc # "down" => Core, [Next]_vars, apc' # "down"
  PROVE  Core'
<1> USE DEF ringVars, hwVars, xVars, cVars, hangVars, admVars
<1>1. ASSUME NEW s \in Skbs, NEW n \in 1 .. MaxData, NEW ctx \in Ctxs, NEW more \in Mores,
             NEW map \in Mappings(n), XmitCall(s, n, map, ctx, more)
      PROVE Core'
  <2>1. apc # "down" /\ CleanPos' = CleanPos /\ FrameEnd' = FrameEnd /\ FrameEnd' = ntu'
        /\ UNCHANGED <<ntu, ntc, dd, src, ntw, len, head, tail>> /\ xpc' \notin {"map", "watch"}
    BY <1>1 DEF XmitCall, CleanPos, FrameEnd
  <2> QED BY <2>1, CoreQuiet
<1>2. CASE XmitStop \/ XmitRecheck \/ XmitOutDrop \/ XmitStopCheck \/ XmitStopRecheck
  <2>1. apc # "down" /\ CleanPos' = CleanPos /\ FrameEnd' = FrameEnd /\ FrameEnd' = ntu'
        /\ UNCHANGED <<ntu, ntc, dd, src, ntw, len, head, tail>> /\ xpc' \notin {"map", "watch"}
    BY <1>2 DEF XmitStop, XmitRecheck, XmitOutDrop, XmitStopCheck, XmitStopRecheck, XmitReturn,
       CleanPos, FrameEnd
  <2> QED BY <2>1, CoreQuiet
<1>3. CASE XmitBuild
  BY <1>3, CoreBuild DEF XmitBuild
<1>4. CASE XmitMap
  BY <1>4, CoreMap DEF XmitMap
<1>5. ASSUME NEW k \in 1 .. MaxData, XmitDmaError(k) PROVE Core'
  BY <1>5, CoreDmaError DEF XmitDmaError
<1>6. CASE XmitWatch
  BY <1>6, CoreWatch DEF XmitWatch
<1>7. ASSUME NEW bql \in BOOLEAN, XmitTail(bql) PROVE Core'
  BY <1>7, CoreTail DEF XmitTail
<1>8. CASE CleanPacket
  BY <1>8, CoreCleanPacket DEF CleanPacket
<1>9. CASE CleanDone
  BY <1>9, CoreCleanDone DEF CleanDone
<1>10. CASE CleanStart \/ CleanHang \/ CleanWakeTest \/ CleanWakeCheck \/ CleanWake
  <2>1. apc # "down" /\ CleanPos' = CleanPos /\ FrameEnd' = FrameEnd
        /\ UNCHANGED <<ntu, ntc, dd, src, ntw, len, head, tail, xpc, xn, first, xctx>>
    BY <1>10 DEF CleanStart, CleanHang, CleanWakeTest, CleanWakeCheck, CleanWake, CleanReturn,
                 CleanPos, FrameEnd
  <2> QED BY <2>1, CoreQuiet
<1>11. CASE HwFetch
  BY <1>11, CoreFetch DEF HwFetch
<1>12. CASE DownResetClean \/ ConfigureTxRing
  BY <1>12, CoreConfigure DEF DownResetClean
<1>13. CASE HwStall \/ UserDown \/ DownStopQueues \/ DownNapiDisable \/ UpComplete
            \/ ServiceReset \/ ServiceHangCheck \/ TxTimeout \/ UNCHANGED vars
  <2>1. apc # "down" /\ CleanPos' = CleanPos /\ FrameEnd' = FrameEnd
        /\ UNCHANGED <<ntu, ntc, dd, src, ntw, len, head, tail, xpc, xn, first, xctx>>
    BY <1>13 DEF HwStall, UserDown, DownBegin, DownStopQueues, DownNapiDisable, UpComplete,
                 ServiceReset, ServiceHangCheck, TxTimeout, vars, CleanPos, FrameEnd
  <2> QED BY <2>1, CoreQuiet
<1>14. ASSUME NEW up \in BOOLEAN, ServiceLink(up) PROVE Core'
  <2>1. apc # "down" /\ CleanPos' = CleanPos /\ FrameEnd' = FrameEnd
        /\ UNCHANGED <<ntu, ntc, dd, src, ntw, len, head, tail, xpc, xn, first, xctx>>
    BY <1>14 DEF ServiceLink, CleanPos, FrameEnd
  <2> QED BY <2>1, CoreQuiet
<1> QED
  BY <1>1, <1>2, <1>3, <1>4, <1>5, <1>6, <1>7, <1>8, <1>9, <1>10, <1>11, <1>12, <1>13, <1>14
  DEF Next, Xmit, Clean, Hw, Admin, Service

\* The reservation made at the entry of xmit survives: only xmit takes
\* descriptors, and cleaning only gives some back.
LEMMA ReservedStep ==
  ASSUME TypeRing, Quiesced, Reserved, apc # "down" => Core, [Next]_vars
  PROVE  Reserved'
<1> USE DEF ringVars, hwVars, xVars, cVars, hangVars, admVars
<1>1. ASSUME NEW s \in Skbs, NEW n \in 1 .. MaxData, NEW ctx \in Ctxs, NEW more \in Mores,
             NEW map \in Mappings(n), XmitCall(s, n, map, ctx, more)
      PROVE Reserved'
  BY <1>1 DEF XmitCall, RoomFor, DescUnused, Reserved
<1>2. CASE XmitRecheck
  BY <1>2 DEF XmitRecheck, XmitReturn, RoomFor, DescUnused, Reserved
<1>3. CASE XmitBuild
  <2>1. ntu \in Slot /\ ntc \in Slot /\ Nxt(ntu) \in Slot /\ xn \in Nat /\ Gap \in Nat /\ Count \in Nat
    BY DistNxt, DataAssumption, GapAssumption, CountAssumption DEF TypeRing
  <2>2. (ntu' = ntu \/ ntu' = Nxt(ntu)) /\ ntc' = ntc /\ xn' = xn /\ xpc = "build" /\ xpc' = "map"
        /\ apc # "down"
    BY <1>3 DEF XmitBuild, Quiesced
  <2>3. DescUnused = Count - 1 - Dist(ntc, ntu) /\ DescUnused' = Count - 1 - Dist(ntc, ntu')
    BY <2>1, <2>2, UnusedIsRest DEF DescUnused, Dist, Slot
  <2>4. Dist(ntc, Nxt(ntu)) = Dist(ntc, ntu) + 1 /\ Dist(ntc, ntu) \in Nat
    BY <2>1, <2>2, RoomAhead, DistNxt, DistBasics DEF Core
  <2> QED BY <2>1, <2>2, <2>3, <2>4 DEF Reserved
<1>4. CASE XmitMap
  BY <1>4 DEF XmitMap, Reserved, DescUnused
<1>5. ASSUME NEW k \in 1 .. MaxData, XmitDmaError(k) PROVE Reserved'
  BY <1>5 DEF XmitDmaError, XmitReturn, Reserved
<1>6. CASE XmitStop \/ XmitOutDrop \/ XmitWatch \/ XmitStopCheck \/ XmitStopRecheck
  BY <1>6 DEF XmitStop, XmitOutDrop, XmitWatch, XmitStopCheck, XmitStopRecheck, XmitReturn, Reserved
<1>7. ASSUME NEW bql \in BOOLEAN, XmitTail(bql) PROVE Reserved'
  BY <1>7 DEF XmitTail, XmitReturn, Reserved
<1>8. CASE CleanDone
  <2>1. ntu \in Slot /\ ntc \in Slot /\ ci \in Slot /\ xn \in Nat /\ Gap \in Nat /\ Count \in Nat
    BY DataAssumption, GapAssumption, CountAssumption DEF TypeRing
  <2>2. ntc' = ci /\ CleanPos = ci /\ UNCHANGED <<ntu, xpc, xn>> /\ apc # "down"
    BY <1>8 DEF CleanDone, CleanPos, Quiesced
  <2>3. DescUnused = Count - 1 - Dist(ntc, ntu) /\ DescUnused' = Count - 1 - Dist(ci, ntu)
    BY <2>1, <2>2, UnusedIsRest DEF DescUnused, Dist, Slot
  <2>4. Dist(ci, ntu) = Dist(ntc, ntu) - Dist(ntc, ci) /\ Dist(ntc, ci) \in Nat /\ Dist(ntc, ntu) \in Nat
    BY <2>1, <2>2, RoomAhead, DistBasics DEF Core
  <2> QED BY <2>1, <2>2, <2>3, <2>4 DEF Reserved
<1>9. CASE CleanStart \/ CleanPacket \/ CleanHang \/ CleanWakeTest \/ CleanWakeCheck \/ CleanWake
  BY <1>9 DEF CleanStart, CleanPacket, CleanHang, CleanWakeTest, CleanWakeCheck, CleanWake,
              CleanReturn, Reserved, DescUnused
<1>10. CASE HwFetch \/ HwStall
  BY <1>10 DEF HwFetch, HwStall, Reserved, DescUnused
<1>11. CASE DownResetClean \/ ConfigureTxRing
  BY <1>11 DEF DownResetClean, ConfigureTxRing, Quiesced, Reserved
<1>12. CASE UserDown \/ DownStopQueues \/ DownNapiDisable \/ UpComplete
  BY <1>12 DEF UserDown, DownBegin, DownStopQueues, DownNapiDisable, UpComplete, Reserved,
     DescUnused
<1>13. CASE ServiceReset \/ ServiceHangCheck \/ TxTimeout \/ UNCHANGED vars
  BY <1>13 DEF ServiceReset, DownBegin, ServiceHangCheck, TxTimeout, vars, Reserved, DescUnused
<1>14. ASSUME NEW up \in BOOLEAN, ServiceLink(up) PROVE Reserved'
  BY <1>14 DEF ServiceLink, Reserved, DescUnused
<1> QED
  BY <1>1, <1>2, <1>3, <1>4, <1>5, <1>6, <1>7, <1>8, <1>9, <1>10, <1>11, <1>12, <1>13, <1>14
  DEF Next, Xmit, Clean, Hw, Admin, Service

\* The down sequence keeps the other actors out, given that its sleep outlasts
\* the poll that was running when the DOWN bit was set.
LEMMA QuiescedStep ==
  ASSUME SleepOutlastsPoll, TypeFlags, TypeControl, Quiesced, [Next]_vars
  PROVE  Quiesced'
<1> USE DEF Quiesced, ringVars, hwVars, xVars, cVars, hangVars, admVars
<1>1. ASSUME NEW s \in Skbs, NEW n \in 1 .. MaxData, NEW ctx \in Ctxs, NEW more \in Mores,
             NEW map \in Mappings(n), XmitCall(s, n, map, ctx, more)
      PROVE Quiesced'
  BY Zenon, <1>1 DEF XmitCall
<1>2. CASE XmitRecheck
  BY Zenon, <1>2 DEF XmitRecheck, XmitReturn
<1>3. CASE XmitBuild
  BY Zenon, <1>3 DEF XmitBuild
<1>4. CASE XmitOutDrop
  BY Zenon, <1>4 DEF XmitOutDrop, XmitReturn
<1>5. CASE XmitMap
  BY Zenon, <1>5 DEF XmitMap
<1>6. ASSUME NEW k \in 1 .. MaxData, XmitDmaError(k) PROVE Quiesced'
  BY Zenon, <1>6 DEF XmitDmaError, XmitReturn
<1>7. CASE XmitWatch
  BY Zenon, <1>7 DEF XmitWatch
<1>8. CASE XmitStopCheck
  BY Zenon, <1>8 DEF XmitStopCheck
<1>9. CASE XmitStopRecheck
  BY Zenon, <1>9 DEF XmitStopRecheck
<1>10. ASSUME NEW bql \in BOOLEAN, XmitTail(bql) PROVE Quiesced'
  BY Zenon, <1>10 DEF XmitTail, XmitReturn
<1>11. CASE CleanStart
  BY Zenon, <1>11 DEF CleanStart, NapiEnabled, TypeControl
<1>12. CASE CleanPacket
  BY Zenon, <1>12 DEF CleanPacket
<1>13. CASE CleanDone
  BY Zenon, <1>13 DEF CleanDone
<1>14. CASE CleanHang
  BY Zenon, <1>14 DEF CleanHang, TxTimeoutReset, CleanReturn
<1>15. CASE CleanWakeTest
  BY Zenon, <1>15 DEF CleanWakeTest, CleanReturn
<1>16. CASE CleanWakeCheck
  BY Zenon, <1>16 DEF CleanWakeCheck, CleanReturn
<1>17. CASE CleanWake
  BY Zenon, <1>17 DEF CleanWake, CleanReturn
<1>18. CASE HwFetch
  BY Zenon, <1>18 DEF HwFetch
<1>19. CASE HwStall
  BY Zenon, <1>19 DEF HwStall
<1>20. CASE UserDown
  BY Zenon, <1>20 DEF UserDown, DownBegin
<1>21. CASE DownStopQueues
  BY Zenon, <1>21 DEF DownStopQueues
<1>22. CASE DownNapiDisable
  BY Zenon, <1>22 DEF DownNapiDisable
<1>23. CASE DownResetClean
  BY Zenon, <1>23 DEF DownResetClean
<1>24. CASE ConfigureTxRing
  BY Zenon, <1>24 DEF ConfigureTxRing
<1>25. CASE UpComplete
  BY Zenon, <1>25 DEF UpComplete
<1>26. CASE ServiceReset
  BY Zenon, <1>26 DEF ServiceReset, DownBegin, TypeControl
<1>27. ASSUME NEW up \in BOOLEAN, ServiceLink(up) PROVE Quiesced'
  BY Zenon, <1>27 DEF ServiceLink
<1>28. CASE ServiceHangCheck
  BY Zenon, <1>28 DEF ServiceHangCheck
<1>29. CASE TxTimeout
  BY Zenon, <1>29 DEF TxTimeout, TxTimeoutReset
<1>30. CASE UNCHANGED vars
  BY Zenon, <1>30 DEF vars
<1>31. CASE XmitStop
  BY Zenon, <1>31 DEF XmitStop
<1> QED
  BY <1>1, <1>2, <1>3, <1>4, <1>5, <1>6, <1>7, <1>8, <1>9, <1>10, <1>11, <1>12, <1>13, <1>14,
     <1>15, <1>16, <1>17, <1>18, <1>19, <1>20, <1>21, <1>22, <1>23, <1>24, <1>25, <1>26, <1>27,
     <1>28, <1>29, <1>30, <1>31
  DEF Next, Xmit, Clean, Hw, Admin, Service

-----------------------------------------------------------------------------
(* The theorems.                                                           *)

LEMMA RingInvInit == Init => RingInv
<1> SUFFICES ASSUME Init PROVE RingInv
  OBVIOUS
<1>1. Quiesced
  BY Zenon DEF Init, InitBut, Quiesced
<1>2. Reserved
  BY DEF Init, InitBut, Reserved
<1>3. Core
  BY CoreZero DEF Init, InitBut, CleanPos, FrameEnd
<1> QED BY <1>1, <1>2, <1>3 DEF RingInv, Core

LEMMA RingInvStep ==
  ASSUME SleepOutlastsPoll, TypeOK, RingInv, [Next]_vars
  PROVE  RingInv'
<1>1. Quiesced'
  BY QuiescedStep DEF TypeOK, RingInv
<1>2. Reserved'
  BY ReservedStep DEF TypeOK, RingInv, Core
<1>3. apc' # "down" => Core'
  BY CoreStep DEF TypeOK, RingInv, Core
<1> QED BY <1>1, <1>2, <1>3 DEF RingInv, Core

\* If the sleep of ixgbevf_down outlasts a running poll, the ring is at all times a
\* queue of whole packets with clean position, head, tail and next_to_use in order.
THEOREM RingCorrect == SleepOutlastsPoll => (Spec => []RingInv)
<1> SUFFICES ASSUME SleepOutlastsPoll PROVE Spec => []RingInv
  OBVIOUS
<1>1. TypeOK /\ RingInv /\ [Next]_vars => TypeOK' /\ RingInv'
  BY TypeStep, RingInvStep
<1> QED BY <1>1, TypeInit, RingInvInit, PTL DEF Spec

\* A slot the hardware may fetch lies between head and tail seen from the clean
\* position too.
LEMMA PendingPosition ==
  ASSUME TypeRing, Core, NEW j \in Between(head, tail)
  PROVE  /\ j \in Slot
         /\ Dist(CleanPos, head) <= Dist(CleanPos, j)
         /\ Dist(CleanPos, j) < Dist(CleanPos, tail)
         /\ Dist(CleanPos, tail) <= Dist(CleanPos, FrameEnd)
<1>1. CleanPos \in Slot /\ head \in Slot /\ tail \in Slot /\ j \in Slot
      /\ Dist(head, j) < Dist(head, tail)
  BY PosTypes DEF TypeRing, Between
<1>2. Dist(head, tail) = Dist(CleanPos, tail) - Dist(CleanPos, head)
  BY <1>1, DistSplit DEF Core, CursorOrder
<1>3. Dist(CleanPos, head) + Dist(head, j) < Count
      /\ Dist(CleanPos, head) \in Nat /\ Dist(head, j) \in Nat /\ Dist(CleanPos, tail) \in Nat
  BY <1>1, <1>2, DistBasics, CountAssumption
<1>4. Dist(CleanPos, j) = Dist(CleanPos, head) + Dist(head, j)
  BY <1>1, <1>3, DistJoin
<1> QED BY <1>1, <1>2, <1>3, <1>4 DEF Core, CursorOrder

LEMMA PendingMapped ==
  ASSUME TypeOK, RingInv PROVE HwReadsMapped
<1> SUFFICES ASSUME apc # "down", NEW j \in Between(head, tail) PROVE src[j] \in len
  BY DEF HwReadsMapped
<1>1. TypeRing /\ Core
  BY DEF TypeOK, RingInv, Core
<1>2. /\ j \in Slot
      /\ Dist(CleanPos, j) < Dist(CleanPos, tail)
      /\ Dist(CleanPos, tail) <= Dist(CleanPos, FrameEnd)
  BY <1>1, PendingPosition
<1>3. CleanPos \in Slot /\ FrameEnd \in Slot /\ tail \in Slot
  BY <1>1, PosTypes DEF TypeRing
<1>4. Dist(CleanPos, j) \in Int /\ Dist(CleanPos, tail) \in Int /\ Dist(CleanPos, FrameEnd) \in Int
  BY <1>2, <1>3, DistBasics
<1>5. Dist(CleanPos, j) < Dist(CleanPos, FrameEnd)
  BY <1>2, <1>4
<1> QED BY <1>1, <1>2, <1>5 DEF Core, Mapped

\* No buffer is unmapped between the tail write and its fetch: the hardware only
\* reads buffers the driver still has mapped.
THEOREM ReadsMapped == SleepOutlastsPoll => (Spec => []HwReadsMapped)
<1> SUFFICES ASSUME SleepOutlastsPoll PROVE Spec => []HwReadsMapped
  OBVIOUS
<1>1. TypeOK /\ RingInv => HwReadsMapped
  BY PendingMapped
<1> QED BY <1>1, TypeCorrect, RingCorrect, PTL

\* No xmit call runs from netif_tx_disable until the queue is restarted; only the
\* sleep of ixgbevf_down, not a lock, makes this so.
THEOREM XmitKeptOut == SleepOutlastsPoll => (Spec => []XmitExcluded)
<1> SUFFICES ASSUME SleepOutlastsPoll PROVE Spec => []XmitExcluded
  OBVIOUS
<1>1. RingInv => XmitExcluded
  BY DEF RingInv, Quiesced, XmitExcluded
<1> QED BY <1>1, RingCorrect, PTL

LEMMA PendingKept ==
  ASSUME TypeOK, RingInv, [Next]_vars, NEW j \in Between(head, tail)
  PROVE  src'[j] = src[j] /\ (j \in eop' <=> j \in eop)
<1>1. TypeRing /\ Quiesced /\ Reserved /\ (apc # "down" => Core)
  BY DEF TypeOK, RingInv, Core
<1>2. xpc # "idle" => apc # "down"
  BY <1>1 DEF Quiesced
<1>3. CleanPos \in Slot /\ FrameEnd \in Slot /\ tail \in Slot /\ ntu \in Slot /\ j \in Slot
  BY <1>1, PosTypes DEF TypeRing, Between
<1>4. \A i \in Slot : Dist(CleanPos, i) \in Nat
  BY <1>3, DistBasics, CountAssumption
<1>5. ASSUME xpc # "idle" PROVE Dist(CleanPos, j) < Dist(CleanPos, ntu)
  <2>1. Core
    BY <1>1, <1>2, <1>5
  <2>2. /\ Dist(CleanPos, j) < Dist(CleanPos, tail)
        /\ Dist(CleanPos, tail) <= Dist(CleanPos, FrameEnd)
        /\ Dist(CleanPos, FrameEnd) <= Dist(CleanPos, ntu)
    BY <2>1, <1>1, PendingPosition DEF Core, CursorOrder
  <2> QED BY <2>2, <1>3, <1>4
<1>6. ASSUME xpc \in {"map", "watch"}, NEW m \in 1 .. xn PROVE j # DataSlot(m)
  <2>1. Core /\ Dist(CleanPos, j) < Dist(CleanPos, ntu)
    BY <1>1, <1>2, <1>5, <1>6
  <2>2. DataSlot(m) \in Slot /\ Dist(CleanPos, DataSlot(m)) = Dist(CleanPos, ntu) + m - 1
    BY <1>1, <1>6, <2>1, FrameSlots DEF Core
  <2> QED BY <2>1, <2>2, <1>3, <1>4, DataAssumption DEF TypeRing
<1> USE DEF ringVars, hwVars, xVars, cVars, hangVars, admVars
<1>7. CASE XmitBuild
  <2>1. j # ntu
    BY <1>7, <1>3, <1>4, <1>5 DEF XmitBuild
  <2> QED BY <1>1, <1>3, <1>7, <2>1 DEF XmitBuild, TypeRing
<1>8. CASE XmitMap
  <2>1. j \notin DataSlots(xn)
    BY <1>6, <1>8 DEF XmitMap, DataSlots
  <2>2. DataSlot(xn) \in DataSlots(xn)
    BY <1>1, DataSlotType DEF DataSlots
  <2> QED BY <1>1, <1>3, <1>8, <2>1, <2>2 DEF XmitMap, SrcAfter
<1>9. ASSUME NEW k \in 1 .. MaxData, XmitDmaError(k)
      PROVE  src'[j] = src[j] /\ (j \in eop' <=> j \in eop)
  <2>1. k \in 1 .. xn /\ xn \in Nat
    BY <1>1, <1>9, DataAssumption DEF XmitDmaError, Starts, TypeRing
  <2>2. \A m \in 1 .. k - 1 : m \in 1 .. xn
    BY <2>1
  <2>3. j \notin DataSlots(k - 1)
    BY <1>6, <1>9, <2>2 DEF XmitDmaError, DataSlots
  <2> QED BY <1>3, <1>9, <2>3 DEF XmitDmaError, SrcAfter
<1>10. ASSUME UNCHANGED <<src, eop>> PROVE src'[j] = src[j] /\ (j \in eop' <=> j \in eop)
  BY <1>10
<1>11. ASSUME NEW s \in Skbs, NEW n \in 1 .. MaxData, NEW ctx \in Ctxs, NEW more \in Mores,
             NEW map \in Mappings(n), XmitCall(s, n, map, ctx, more)
       PROVE UNCHANGED <<src, eop>>
  BY <1>11 DEF XmitCall
<1>12. CASE XmitStop \/ XmitRecheck \/ XmitOutDrop \/ XmitWatch \/ XmitStopCheck \/ XmitStopRecheck
            \/ \E bql \in BOOLEAN : XmitTail(bql)
  BY <1>12 DEF XmitStop, XmitRecheck, XmitOutDrop, XmitWatch, XmitStopCheck, XmitStopRecheck,
     XmitTail
<1>13. CASE Clean
  BY <1>13 DEF Clean, CleanStart, CleanPacket, CleanDone, CleanHang, CleanWakeTest, CleanWakeCheck,
               CleanWake
<1>14. CASE Hw \/ Admin
  BY <1>14 DEF Hw, HwFetch, HwStall, Admin, UserDown, DownStopQueues, DownNapiDisable,
               DownResetClean, ConfigureTxRing, UpComplete
<1>15. CASE Service \/ UNCHANGED vars
  BY <1>15 DEF Service, ServiceReset, ServiceLink, ServiceHangCheck, TxTimeout, vars
<1> QED BY <1>7, <1>8, <1>9, <1>10, <1>11, <1>12, <1>13, <1>14, <1>15 DEF Next, Xmit

\* Software never rewrites a descriptor between the tail write and its fetch.
THEOREM PendingUntouched == SleepOutlastsPoll => (Spec => PendingStable)
<1> SUFFICES ASSUME SleepOutlastsPoll PROVE Spec => PendingStable
  OBVIOUS
<1>1. TypeOK /\ RingInv /\ [Next]_vars =>
        [hwOn /\ hwOn' => \A j \in Between(head, tail) :
           src'[j] = src[j] /\ (j \in eop' <=> j \in eop)]_vars
  BY PendingKept
<1> QED BY <1>1, TypeCorrect, RingCorrect, PTL DEF Spec, PendingStable
=============================================================================
