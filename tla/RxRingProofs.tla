----------------------------- MODULE RxRingProofs ---------------------------
(* The receive ring, for every ring size, number of pages, budget and      *)
(* length of frames: the cursors stay in order, no half page has two       *)
(* users, no page reference is lost, and frames are put together whole.    *)
EXTENDS RxRing, TLAPS

-----------------------------------------------------------------------------
(* Going round the ring.                                                   *)

\* Distances are less than the ring is long, and tell slots apart.
LEMMA DistBasics ==
  \A a, b, c \in Slot :
    /\ Dist(a, b) \in 0 .. Count - 1
    /\ Dist(a, b) = 0 <=> a = b
    /\ Dist(a, b) = Dist(a, c) => b = c
BY CountAssumption DEF Dist, Slot

\* What Nxt does to a distance, at its end
LEMMA DistNxt ==
  \A a, b \in Slot :
    /\ Nxt(b) \in Slot /\ Nxt(b) # b
    /\ Dist(a, b) < Count - 1 => Dist(a, Nxt(b)) = Dist(a, b) + 1
    /\ Dist(a, b) = Count - 1 => Nxt(b) = a
BY CountAssumption DEF Dist, Slot, Nxt

\* and at its start.
LEMMA DistAdv ==
  \A a, b \in Slot :
    Dist(Nxt(a), b) = IF b = a THEN Count - 1 ELSE Dist(a, b) - 1
BY CountAssumption DEF Dist, Slot, Nxt

\* Both ends at once: a window that moves keeps its length.
LEMMA DistMove == \A a, b \in Slot : Dist(Nxt(a), Nxt(b)) = Dist(a, b)
BY CountAssumption DEF Dist, Slot, Nxt

\* Two slots have the same successor only if they are one.
LEMMA NxtInjective == \A a, b \in Slot : Nxt(a) = Nxt(b) => a = b
BY CountAssumption DEF Slot, Nxt

\* The way to c by way of b.
LEMMA DistJoin ==
  \A a, b, c \in Slot : Dist(a, b) <= Dist(a, c) => Dist(b, c) = Dist(a, c) - Dist(a, b)
BY CountAssumption DEF Dist, Slot

\* ixgbevf_desc_unused leaves one descriptor free.
LEMMA UnusedIsRest ==
  ASSUME ntc \in Slot, ntu \in Slot
  PROVE  DescUnused = Count - 1 - Dist(ntc, ntu)
BY CountAssumption DEF DescUnused, Dist, Slot

\* The first slot is one.
LEMMA ZeroSlot == 0 \in Slot
BY CountAssumption DEF Slot

-----------------------------------------------------------------------------
(* The inductive invariant.                                                *)

\* how far a slot is from next_to_clean
D(i) == Dist(ntc, i)

\* Slot i is one of Buffers.
On(i) == apc # "down" /\ (D(i) < D(UseEnd) \/ D(i) < D(nta))

\* TypeOK in two parts: numbers and structures, then flags and places.
TypeRing ==
  /\ ntc \in Slot /\ ntu \in Slot /\ nta \in Slot /\ head \in Slot /\ tail \in Slot
  /\ pg \in [Slot -> Pages \cup {None}] /\ off \in [Slot -> Half] /\ bias \in [Slot -> Nat]
  /\ addr \in [Slot -> (Pages \X Half) \cup {None}] /\ wb \in [Slot -> WriteBack \cup {None}]
  /\ rskb \in Skb /\ cskb \in Skb
  /\ refs \in [Pages -> Nat] /\ held \in [Pages \X Half -> Nat] /\ mapped \subseteq Pages
  /\ hpart \in 0 .. MaxBufs - 1
  /\ ccnt \in 0 .. Count - 1 /\ cpk \in 0 .. Budget
  /\ ai \in Slot /\ acnt \in 0 .. Count - 1
TypeFlags ==
  /\ hwOn \in BOOLEAN /\ cause \in BOOLEAN /\ masked \in BOOLEAN
  /\ down \in BOOLEAN /\ xdp \in BOOLEAN
TypePlaces ==
  /\ napi \in {"idle", "sched", "off"}
  /\ cpc \in {"idle", "loop", "alloc", "done", "enable", "unmask"}
  /\ apc \in {"up", "irq", "napi", "reset", "down", "alloc", "configured"}

\* The cursors in order, and a refill that covers what was put back, as distances from
\* next_to_clean.
Cursors ==
  apc # "down" =>
    /\ tail = ntu /\ D(head) <= D(ntu) /\ D(ntu) <= D(nta)
    /\ D(ntu) <= D(UseEnd)
    /\ cpc = "loop" => D(nta) - D(ntu) <= ccnt /\ ccnt <= Count - 1 - D(ntu)
    /\ Allocating => D(nta) <= D(ai) + acnt /\ D(ai) + acnt <= Count - 1

\* A ring that is down is not written to, and has no frame in progress.
DownInv == apc = "down" => ~hwOn /\ rskb = NoSkb

\* BuffersOwned
Owned ==
  apc # "down" =>
    /\ \A i \in Slot : pg[i] # None <=> On(i)
    /\ \A i, j \in Slot : On(i) /\ On(j) /\ pg[i] = pg[j] => i = j

\* references to a page that are not the ring's
Users(p) == held[<<p, 0>>] + held[<<p, 1>>] + FragRefs(CurSkb, p)

\* RefsAccounted: for a page on the ring, and for one that is not.
Counted ==
  \A p \in Pages :
    /\ \A i \in Slot : On(i) /\ pg[i] = p => refs[p] = bias[i] + Users(p)
    /\ (\A i \in Slot : On(i) => pg[i] # p) => refs[p] = Users(p)

\* RingHalfExclusive, and the mapping of what is on the ring.
Halves ==
  \A i \in Slot : On(i) =>
    /\ bias[i] > 0 /\ pg[i] \in mapped
    /\ held[<<pg[i], off[i]>>] = 0
    /\ <<pg[i], off[i]>> \notin CurSkb.frags

\* The descriptors that the hardware has, or is about to get, hold their slot's buffer.
Filled ==
  apc # "down" =>
    \A i \in Slot : D(head) <= D(i) /\ D(i) < D(UseEnd) => addr[i] = <<pg[i], off[i]>>

\* A frame that has not been started refers to nothing, and while an XDP program is
\* attached every frame is one buffer: a verdict on its first is a verdict on all of it.
Whole ==
  /\ CurSkb.parts = 0 => CurSkb.frags = {}
  /\ apc # "down" /\ xdp => \A i \in Slot : D(i) < D(head) => wb[i].eop

\* what depends on the buffers and the descriptors alone
Data ==
  Owned /\ Counted /\ Halves /\ Filled /\ FramesContiguous /\ NoStaleLength /\ Whole

Control == TypeFlags /\ TypePlaces /\ Quiesced /\ DownInv

RxIInv == TypeRing /\ Control /\ Cursors /\ Data

-----------------------------------------------------------------------------
(* Steps that leave the buffers alone.                                     *)

\* Whatever does not touch the buffers, the descriptors and the frame keeps Data.
LEMMA DataSame ==
  ASSUME Data, UNCHANGED <<ntc, nta, bufVars, descVars, pageVars, head, hpart, xdp>>,
         UseEnd' = UseEnd, CurSkb' = CurSkb, apc' = "down" <=> apc = "down"
  PROVE  Data'
<1> USE DEF bufVars, descVars, pageVars
<1>1. \A i : D(i)' = D(i) /\ On(i)' = On(i)
  BY DEF D, On
<1>2. Owned' /\ Filled'
  BY <1>1 DEF Data, Owned, Filled, On, D
<1>3. Counted'
  BY <1>1 DEF Data, Counted, Users, FragRefs
<1>4. Halves'
  BY <1>1 DEF Data, Halves
<1>5. FramesContiguous'
  BY DEF Data, FramesContiguous, Between, Dist
<1>6. NoStaleLength'
  BY DEF Data, NoStaleLength, Dist
<1>7. Whole'
  BY <1>1 DEF Data, Whole, D
<1> QED BY <1>2, <1>3, <1>4, <1>5, <1>6, <1>7 DEF Data

\* Flags stay flags,
LEMMA FlagsStep ==
  ASSUME TypeFlags, [Next]_vars PROVE TypeFlags'
<1> USE DEF TypeFlags, hwVars, irqVars, admVars
<1>1. ASSUME NEW eop \in BOOLEAN, HwWriteBack(eop) PROVE TypeFlags'
  <2>1. cause' \in BOOLEAN
    BY Zenon, <1>1 DEF HwWriteBack
  <2> QED BY <1>1, <2>1 DEF HwWriteBack
<1>2. ASSUME NEW p \in Pages, NEW h \in Half, StackRelease(p, h) PROVE TypeFlags'
  BY <1>2 DEF StackRelease
<1>3. ASSUME NEW p \in Pages, NEW h \in Half, StackGet(p, h) PROVE TypeFlags'
  BY <1>3 DEF StackGet
<1>4. ASSUME NEW fate \in Fates, NEW reserved \in BOOLEAN, CleanFragment(fate, reserved)
      PROVE  TypeFlags'
  BY <1>4 DEF CleanFragment, PutRxBuffer
<1>5. ASSUME NEW fate \in Fates, NEW reserved \in BOOLEAN, CleanXdp(fate, reserved)
      PROVE  TypeFlags'
  BY <1>5 DEF CleanXdp, PutRxBuffer
<1>6. ASSUME NEW fate \in Fates, NEW reserved \in BOOLEAN, CleanBad(fate, reserved)
      PROVE  TypeFlags'
  BY <1>6 DEF CleanBad, PutRxBuffer
<1>7. ASSUME NEW fate \in Fates, NEW reserved \in BOOLEAN, CleanDeliver(fate, reserved)
      PROVE  TypeFlags'
  BY <1>7 DEF CleanDeliver, PutRxBuffer
<1>8. CASE Irq
  <2>1. cause' \in BOOLEAN /\ masked' \in BOOLEAN
    BY Zenon, <1>8 DEF Irq
  <2> QED BY <1>8, <2>1 DEF Irq
<1>9. CASE ServiceStrobe
  <2>1. cause' \in BOOLEAN
    BY Zenon, <1>9 DEF ServiceStrobe
  <2> QED BY <1>9, <2>1 DEF ServiceStrobe
<1>10. CASE AllocSlot
  BY <1>10 DEF AllocSlot, Allocating
<1>11. CASE AllocDone
  BY <1>11 DEF AllocDone, AllocReturn, Allocating
<1>12. CASE PollStart
  BY <1>12 DEF PollStart
<1>13. CASE CleanRefill
  BY <1>13 DEF CleanRefill
<1>14. CASE CleanExit
  BY <1>14 DEF CleanExit
<1>15. CASE PollReturn
  BY <1>15 DEF PollReturn, SavedSkb
<1>16. CASE PollTestDown
  BY <1>16 DEF PollTestDown
<1>17. CASE PollUnmask
  <2>1. masked' \in BOOLEAN
    BY Zenon, <1>17 DEF PollUnmask
  <2> QED BY <1>17, <2>1 DEF PollUnmask
<1>18. CASE DownBegin
  <2>1. down' \in BOOLEAN /\ hwOn' \in BOOLEAN
    BY Zenon, <1>18 DEF DownBegin, DisableRxQueue
  <2> QED BY <1>18, <2>1 DEF DownBegin, DisableRxQueue
<1>19. CASE DownIrqDisable
  <2>1. masked' \in BOOLEAN
    BY Zenon, <1>19 DEF DownIrqDisable
  <2> QED BY <1>19, <2>1 DEF DownIrqDisable
<1>20. CASE DownNapiDisable
  BY <1>20 DEF DownNapiDisable
<1>21. CASE DownResetClean
  <2>1. hwOn' \in BOOLEAN /\ masked' \in BOOLEAN /\ cause' \in BOOLEAN
    BY Zenon, <1>21 DEF DownResetClean, FreeRing
  <2> QED BY <1>21, <2>1 DEF DownResetClean, FreeRing
<1>22. CASE ConfigureRxRing
  <2>1. hwOn' \in BOOLEAN /\ xdp' \in BOOLEAN
    <3>1. hwOn' = TRUE /\ xdp' \in Progs
      BY <1>22 DEF ConfigureRxRing, RxDescQueueEnable
    <3>2. hwOn' \in BOOLEAN
      BY Zenon, <3>1
    <3> QED BY <3>1, <3>2, FateAssumption
  <2> QED BY <1>22, <2>1 DEF ConfigureRxRing
<1>23. CASE UpComplete
  <2>1. down' \in BOOLEAN /\ cause' \in BOOLEAN /\ masked' \in BOOLEAN
    BY Zenon, <1>23 DEF UpComplete
  <2> QED BY <1>23, <2>1 DEF UpComplete
<1>24. CASE UNCHANGED vars
  BY <1>24 DEF vars
<1> QED
  BY <1>1, <1>2, <1>3, <1>4, <1>5, <1>6, <1>7, <1>8, <1>9, <1>10, <1>11, <1>12, <1>13,
     <1>14, <1>15, <1>16, <1>17, <1>18, <1>19, <1>20, <1>21, <1>22, <1>23, <1>24
  DEF Next, Hw, Stack, Poll, CleanBuffer, Alloc, Admin

\* and the poll and the down/up sequence keep out of each other's way.
LEMMA ControlStep ==
  ASSUME Control, [Next]_vars PROVE Control'
<1> SUFFICES (TypePlaces /\ Quiesced /\ DownInv)'
  BY FlagsStep DEF Control
<1> USE DEF Control, TypePlaces, Quiesced, DownInv, Polling, hwVars, pollVars, admVars
<1>1. ASSUME NEW eop \in BOOLEAN, HwWriteBack(eop) PROVE (TypePlaces /\ Quiesced /\ DownInv)'
  BY <1>1 DEF HwWriteBack
<1>2. ASSUME NEW p \in Pages, NEW h \in Half, StackRelease(p, h) PROVE (TypePlaces /\ Quiesced /\ DownInv)'
  BY <1>2 DEF StackRelease
<1>3. ASSUME NEW p \in Pages, NEW h \in Half, StackGet(p, h) PROVE (TypePlaces /\ Quiesced /\ DownInv)'
  BY <1>3 DEF StackGet
<1>4. ASSUME NEW fate \in Fates, NEW reserved \in BOOLEAN, CleanFragment(fate, reserved)
      PROVE  (TypePlaces /\ Quiesced /\ DownInv)'
  BY <1>4 DEF CleanFragment, PutRxBuffer
<1>5. ASSUME NEW fate \in Fates, NEW reserved \in BOOLEAN, CleanXdp(fate, reserved)
      PROVE  (TypePlaces /\ Quiesced /\ DownInv)'
  BY <1>5 DEF CleanXdp, PutRxBuffer
<1>6. ASSUME NEW fate \in Fates, NEW reserved \in BOOLEAN, CleanBad(fate, reserved)
      PROVE  (TypePlaces /\ Quiesced /\ DownInv)'
  BY <1>6 DEF CleanBad, PutRxBuffer
<1>7. ASSUME NEW fate \in Fates, NEW reserved \in BOOLEAN, CleanDeliver(fate, reserved)
      PROVE  (TypePlaces /\ Quiesced /\ DownInv)'
  BY <1>7 DEF CleanDeliver, PutRxBuffer
<1>8. CASE Irq
  BY <1>8 DEF Irq
<1>9. CASE ServiceStrobe
  BY <1>9 DEF ServiceStrobe
<1>10. CASE AllocSlot
  BY <1>10 DEF AllocSlot, Allocating
<1>11. CASE AllocDone
  BY <1>11 DEF AllocDone, AllocReturn, Allocating
<1>12. CASE PollStart
  BY <1>12 DEF PollStart
<1>13. CASE CleanRefill
  BY <1>13 DEF CleanRefill
<1>14. CASE CleanExit
  BY <1>14 DEF CleanExit
<1>15. CASE PollReturn
  BY <1>15 DEF PollReturn, SavedSkb
<1>16. CASE PollTestDown
  BY <1>16 DEF PollTestDown
<1>17. CASE PollUnmask
  BY <1>17 DEF PollUnmask
<1>18. CASE DownBegin
  BY <1>18 DEF DownBegin, DisableRxQueue
<1>19. CASE DownIrqDisable
  BY <1>19 DEF DownIrqDisable
<1>20. CASE DownNapiDisable
  BY <1>20 DEF DownNapiDisable
<1>21. CASE DownResetClean
  BY <1>21 DEF DownResetClean, FreeRing
<1>22. CASE ConfigureRxRing
  BY <1>22 DEF ConfigureRxRing, RxDescQueueEnable, WbConfigured
<1>23. CASE UpComplete
  BY <1>23 DEF UpComplete
<1>24. CASE UNCHANGED vars
  BY <1>24 DEF vars
<1> QED
  BY <1>1, <1>2, <1>3, <1>4, <1>5, <1>6, <1>7, <1>8, <1>9, <1>10, <1>11, <1>12, <1>13,
     <1>14, <1>15, <1>16, <1>17, <1>18, <1>19, <1>20, <1>21, <1>22, <1>23, <1>24
  DEF Next, Hw, Stack, Poll, CleanBuffer, Alloc, Admin

\* The poll comes and goes, a refill starts, an interrupt is raised, taken or masked.
LEMMA QuietStep ==
  ASSUME RxIInv,
         \/ Irq \/ ServiceStrobe \/ PollStart \/ CleanRefill \/ CleanExit \/ PollReturn
         \/ PollTestDown \/ PollUnmask \/ DownBegin \/ DownIrqDisable \/ DownNapiDisable
         \/ UpComplete \/ UNCHANGED vars
  PROVE  TypeRing' /\ Cursors' /\ Data'
<1> USE DEF RxIInv
<1>a. /\ UNCHANGED <<ntc, ntu, nta, bufVars, descVars, pageVars, head, tail, hpart, xdp>>
      /\ UseEnd' = UseEnd /\ CurSkb' = CurSkb /\ (apc' = "down" <=> apc = "down")
  <2> USE DEF Control, TypePlaces, Quiesced, Polling, UseEnd, CurSkb, Allocating, hwVars, pollVars,
              allocVars, admVars
  <2>1. CASE Irq
    BY <2>1 DEF Irq
  <2>2. CASE ServiceStrobe
    BY <2>2 DEF ServiceStrobe
  <2>3. CASE PollStart
    BY <2>3 DEF PollStart
  <2>4. CASE CleanRefill
    BY <2>4 DEF CleanRefill
  <2>5. CASE CleanExit
    BY <2>5 DEF CleanExit
  <2>6. CASE PollReturn
    BY <2>6 DEF PollReturn, SavedSkb
  <2>7. CASE PollTestDown
    BY <2>7 DEF PollTestDown
  <2>8. CASE PollUnmask
    BY <2>8 DEF PollUnmask
  <2>9. CASE DownBegin
    BY <2>9 DEF DownBegin, DisableRxQueue
  <2>10. CASE DownIrqDisable
    BY <2>10 DEF DownIrqDisable
  <2>11. CASE DownNapiDisable
    BY <2>11 DEF DownNapiDisable
  <2>12. CASE UpComplete
    BY <2>12 DEF UpComplete
  <2>13. CASE UNCHANGED vars
    BY <2>13 DEF vars
  <2> QED
    BY <2>1, <2>2, <2>3, <2>4, <2>5, <2>6, <2>7, <2>8, <2>9, <2>10, <2>11, <2>12, <2>13
<1>b. Data'
  BY <1>a, DataSame
<1>c. TypeRing'
  <2> SUFFICES ccnt' \in 0 .. Count - 1 /\ cpk' \in 0 .. Budget /\ ai' \in Slot
               /\ acnt' \in 0 .. Count - 1 /\ rskb' \in Skb /\ cskb' \in Skb
    BY <1>a DEF TypeRing, bufVars, descVars, pageVars
  <2>1. NoSkb \in Skb
    BY BoundAssumption DEF NoSkb, Skb
  <2>2. DescUnused \in 0 .. Count - 1
    BY UnusedIsRest, DistBasics, CountAssumption DEF TypeRing
  <2>3. CASE Irq
    BY <2>3, <2>1, <2>2, BoundAssumption, CountAssumption
    DEF Irq, TypeRing, pollVars, allocVars
  <2>4. CASE ServiceStrobe
    BY <2>4, <2>1, <2>2, BoundAssumption, CountAssumption
    DEF ServiceStrobe, TypeRing, pollVars, allocVars
  <2>5. CASE PollStart
    BY <2>5, <2>1, <2>2, BoundAssumption, CountAssumption
    DEF PollStart, TypeRing, pollVars, allocVars
  <2>6. CASE CleanRefill
    BY <2>6, <2>1, <2>2, BoundAssumption, CountAssumption
    DEF CleanRefill, TypeRing, pollVars, allocVars
  <2>7. CASE CleanExit
    BY <2>7, <2>1, <2>2, BoundAssumption, CountAssumption
    DEF CleanExit, TypeRing, pollVars, allocVars
  <2>8. CASE PollReturn
    BY <2>8, <2>1, <2>2, BoundAssumption, CountAssumption
    DEF PollReturn, SavedSkb, TypeRing, pollVars, allocVars
  <2>9. CASE PollTestDown
    BY <2>9, <2>1, <2>2, BoundAssumption, CountAssumption
    DEF PollTestDown, TypeRing, pollVars, allocVars
  <2>10. CASE PollUnmask
    BY <2>10, <2>1, <2>2, BoundAssumption, CountAssumption
    DEF PollUnmask, TypeRing, pollVars, allocVars
  <2>11. CASE DownBegin
    BY <2>11, <2>1, <2>2, BoundAssumption, CountAssumption
    DEF DownBegin, TypeRing, pollVars, allocVars
  <2>12. CASE DownIrqDisable
    BY <2>12, <2>1, <2>2, BoundAssumption, CountAssumption
    DEF DownIrqDisable, TypeRing, pollVars, allocVars
  <2>13. CASE DownNapiDisable
    BY <2>13, <2>1, <2>2, BoundAssumption, CountAssumption
    DEF DownNapiDisable, TypeRing, pollVars, allocVars
  <2>14. CASE UpComplete
    BY <2>14, <2>1, <2>2, BoundAssumption, CountAssumption
    DEF UpComplete, TypeRing, pollVars, allocVars
  <2>15. CASE UNCHANGED vars
    BY <2>15, <2>1, <2>2, BoundAssumption, CountAssumption
    DEF vars, TypeRing, pollVars, allocVars
  <2> QED
    BY <2>3, <2>4, <2>5, <2>6, <2>7, <2>8, <2>9, <2>10, <2>11, <2>12, <2>13, <2>14,
       <2>15
<1>d. Cursors'
  <2>1. \A i : D(i)' = D(i)
    BY <1>a DEF D
  <2>2. cpc' = "loop" /\ apc' # "down" =>
          D(nta) - D(ntu) <= ccnt' /\ ccnt' <= Count - 1 - D(ntu)
    <3>1. CASE PollStart
      <4>1. ccnt' = Count - 1 - D(ntu)
        BY <3>1, UnusedIsRest DEF PollStart, TypeRing, D
      <4> QED BY <4>1, DistBasics, CountAssumption DEF TypeRing, D
    <3>2. CASE ~PollStart
      <4>1. cpc' = "loop" => cpc = "loop" /\ ccnt' = ccnt
        BY <3>2 DEF Irq, ServiceStrobe, CleanRefill, CleanExit, PollReturn, PollTestDown,
                    PollUnmask, DownBegin, DownIrqDisable, DownNapiDisable, UpComplete,
                    vars, pollVars
      <4> QED BY <1>a, <4>1 DEF Cursors
    <3> QED BY <3>1, <3>2
  <2>3. Allocating' /\ apc' # "down" =>
          D(nta) <= Dist(ntc, ai') + acnt' /\ Dist(ntc, ai') + acnt' <= Count - 1
    <3>1. CASE CleanRefill
      BY <3>1, DistBasics, CountAssumption DEF CleanRefill, TypeRing, D, Cursors, admVars
    <3>2. CASE ~CleanRefill
      <4>1. Allocating' => Allocating /\ ai' = ai /\ acnt' = acnt
        BY <3>2 DEF Irq, ServiceStrobe, PollStart, CleanExit, PollReturn, PollTestDown,
                    PollUnmask, DownBegin, DownIrqDisable, DownNapiDisable, UpComplete,
                    vars, Allocating, pollVars, allocVars, admVars
      <4> QED BY <1>a, <4>1 DEF Cursors, D
    <3> QED BY <3>1, <3>2
  <2> QED BY <1>a, <2>1, <2>2, <2>3 DEF Cursors, D
<1> QED BY <1>b, <1>c, <1>d

-----------------------------------------------------------------------------
(* The hardware and the stack.                                             *)

\* The hardware fills a buffer: it leaves the descriptors it may use for the ones that
\* the poll may clean.
LEMMA HwStep ==
  ASSUME RxIInv, NEW eop \in BOOLEAN, HwWriteBack(eop)
  PROVE  TypeRing' /\ Cursors' /\ Data'
<1> USE DEF RxIInv
<1>1. /\ apc # "down" /\ apc' = apc /\ UseEnd' = UseEnd /\ CurSkb' = CurSkb
      /\ \A i : D(i)' = D(i) /\ On(i)' = On(i)
  BY DEF HwWriteBack, Control, DownInv, pollVars, allocVars, admVars, UseEnd, Allocating, CurSkb,
         Polling, D, On
<1>2. /\ ntc \in Slot /\ ntu \in Slot /\ nta \in Slot /\ head \in Slot /\ ai \in Slot
      /\ UseEnd \in Slot /\ Count \in Int
  BY CountAssumption DEF TypeRing, UseEnd
<1>3. /\ \A i \in Slot : D(i) \in 0 .. Count - 1
      /\ \A i, j \in Slot : D(i) = D(j) => i = j
      /\ D(ntc) = 0
  BY <1>2, DistBasics DEF D
<1>4. D(head) < D(ntu) /\ D(ntu) <= D(nta) /\ D(ntu) <= D(UseEnd)
  BY <1>1, <1>2, <1>3 DEF HwWriteBack, Cursors
<1>5. /\ head' = Nxt(head) /\ Nxt(head) \in Slot /\ D(Nxt(head)) = D(head) + 1
      /\ Nxt(head) # head
  BY <1>2, <1>3, <1>4, DistNxt DEF HwWriteBack, D
<1>a. [part |-> hpart + 1, eop |-> eop] \in WriteBack
  BY BoundAssumption DEF TypeRing, WriteBack
<1>6. TypeRing'
  <2>2. hpart' \in 0 .. MaxBufs - 1
    BY BoundAssumption DEF TypeRing, HwWriteBack
  <2>3. wb' \in [Slot -> WriteBack \cup {None}] /\ addr' \in [Slot -> (Pages \X Half) \cup {None}]
    BY <1>a DEF TypeRing, HwWriteBack
  <2> QED
    BY <1>5, <2>2, <2>3
    DEF TypeRing, HwWriteBack, bufVars, pageVars, pollVars, allocVars
<1>7. Cursors'
  BY <1>1, <1>2, <1>3, <1>4, <1>5
  DEF Cursors, HwWriteBack, pollVars, allocVars, admVars, Allocating, D
<1>8. Owned' /\ Halves'
  BY <1>1 DEF Data, Owned, Halves, HwWriteBack, bufVars, pageVars
<1>9. Counted'
  BY <1>1 DEF Data, Counted, Users, FragRefs, HwWriteBack, bufVars, pageVars
<1>10. Filled'
  BY <1>1, <1>2, <1>3, <1>5 DEF Data, Filled, HwWriteBack, bufVars, TypeRing
<1>11. wb' = [wb EXCEPT ![head] = [part |-> hpart + 1, eop |-> eop]] /\ wb \in [Slot -> WriteBack \cup {None}]
  BY DEF HwWriteBack, TypeRing
<1>12. NoStaleLength'
  <2>1. wb'[head] # None
    <3>1. wb'[head] = [part |-> hpart + 1, eop |-> eop]
      BY <1>2, <1>11
    <3>2. [part |-> hpart + 1, eop |-> eop] # None
      BY <1>a, NoneAssumption DEF WriteBack
    <3> QED BY <3>1, <3>2
  <2> QED
    BY <1>1, <1>2, <1>3, <1>5, <1>11, <2>1 DEF Data, NoStaleLength, D
<1>13. FramesContiguous'
  <2>1. \A i \in Slot : i \in Between(ntc, head) <=> D(i) < D(head)
    BY DEF Between, D
  <2>2. \A i \in Slot : Nxt(i) = Nxt(head) => i = head
    BY <1>2, NxtInjective
  <2>3. /\ wb'[head].part = hpart + 1 /\ wb'[head].eop = eop
        /\ hpart' = (IF eop THEN 0 ELSE hpart + 1)
        /\ \A i \in Slot : i # head => wb'[i] = wb[i]
    BY <1>2, <1>11 DEF HwWriteBack
  <2>4. IF ntc' = head' THEN hpart' = CurSkb'.parts ELSE wb'[ntc'].part = CurSkb'.parts + 1
    <3>1. ntc' = ntc /\ ntc # head'
      BY <1>2, <1>3, <1>5 DEF HwWriteBack
    <3>2. ntc = head => hpart = CurSkb.parts
      BY <1>1 DEF Data, FramesContiguous
    <3>3. ntc # head => wb[ntc].part = CurSkb.parts + 1
      BY <1>1 DEF Data, FramesContiguous
    <3> QED BY <1>1, <1>2, <2>3, <3>1, <3>2, <3>3
  <2>5. ASSUME NEW i \in Slot, D(i) < D(head) + 1
        PROVE  IF Nxt(i) = head' THEN hpart' = (IF wb'[i].eop THEN 0 ELSE wb'[i].part)
               ELSE wb'[Nxt(i)].part = (IF wb'[i].eop THEN 0 ELSE wb'[i].part) + 1
    <3>1. CASE i = head
      BY <1>5, <2>3, <3>1
    <3>2. CASE i # head
      <4>1. D(i) < D(head)
        BY <1>2, <1>3, <2>5, <3>2
      <4>2. IF Nxt(i) = head THEN hpart = (IF wb[i].eop THEN 0 ELSE wb[i].part)
            ELSE wb[Nxt(i)].part = (IF wb[i].eop THEN 0 ELSE wb[i].part) + 1
        BY <1>1, <2>1, <4>1 DEF Data, FramesContiguous
      <4>3. Nxt(i) # head' /\ Nxt(i) \in Slot /\ wb'[i] = wb[i]
        BY <1>5, <2>2, <2>3, <3>2, DistNxt
      <4> QED BY <2>3, <4>2, <4>3
    <3> QED BY <3>1, <3>2
  <2>6. \A i : i \in Between(ntc, head)' <=> i \in Slot /\ D(i) < D(head) + 1
    BY <1>1, <1>5 DEF Between, D, HwWriteBack
  <2> QED BY <2>4, <2>5, <2>6 DEF FramesContiguous
<1>14. Whole'
  <2>1. UNCHANGED <<xdp, ntc>> /\ (xdp => eop)
    BY DEF HwWriteBack, admVars
  <2>2. wb'[head].eop = eop /\ \A i \in Slot : i # head => wb'[i] = wb[i]
    BY <1>2, <1>11
  <2>3. \A i \in Slot : Dist(ntc', i) < Dist(ntc', head') => i = head \/ D(i) < D(head)
    BY <1>2, <1>3, <1>5, <2>1 DEF D
  <2> QED BY <1>1, <2>1, <2>2, <2>3 DEF Data, Whole, D
<1> QED BY <1>6, <1>7, <1>8, <1>9, <1>10, <1>12, <1>13, <1>14 DEF Data

\* The stack drops a reference, or takes another one to what it has already.
LEMMA StackStep ==
  ASSUME RxIInv, NEW p \in Pages, NEW h \in Half, StackRelease(p, h) \/ StackGet(p, h)
  PROVE  TypeRing' /\ Cursors' /\ Data'
<1> USE DEF RxIInv
<1>1. UNCHANGED <<ntc, ntu, nta, bufVars, descVars, rskb, mapped, hwVars, pollVars, allocVars, admVars>>
  BY DEF StackRelease, StackGet
<1>2. /\ UseEnd' = UseEnd /\ CurSkb' = CurSkb
      /\ \A i : D(i)' = D(i) /\ On(i)' = On(i)
  BY <1>1 DEF UseEnd, Allocating, CurSkb, Polling, D, On, pollVars, allocVars, admVars
<1>3. PICK c \in {-1, 1} :
        /\ held' = [held EXCEPT ![<<p, h>>] = @ + c]
        /\ refs' = [refs EXCEPT ![p] = @ + c]
  <2>1. CASE StackRelease(p, h)
    <3>1. held' = [held EXCEPT ![<<p, h>>] = @ + (-1)] /\ refs' = [refs EXCEPT ![p] = @ + (-1)]
      BY <2>1 DEF StackRelease, TypeRing
    <3> QED BY <3>1
  <2>2. CASE StackGet(p, h)
    BY <2>2 DEF StackGet
  <2> QED BY <2>1, <2>2
<1>4. held[<<p, h>>] \in Nat /\ held[<<p, h>>] > 0 /\ <<p, h>> \in Pages \X Half
  BY DEF StackRelease, StackGet, TypeRing
<1>5. \A q \in Pages :
        /\ held[<<q, 0>>] \in Nat /\ held[<<q, 1>>] \in Nat /\ FragRefs(CurSkb, q) \in Nat
        /\ refs[q] \in Nat
  BY DEF TypeRing, FragRefs, Half
<1>6. \A q \in Pages : Users(q)' = IF q = p THEN Users(q) + c ELSE Users(q)
  <2>1. \A q \in Pages :
          /\ held'[<<q, 0>>] = IF q = p /\ h = 0 THEN held[<<q, 0>>] + c ELSE held[<<q, 0>>]
          /\ held'[<<q, 1>>] = IF q = p /\ h = 1 THEN held[<<q, 1>>] + c ELSE held[<<q, 1>>]
    BY <1>3 DEF TypeRing, Half
  <2>2. \A q \in Pages : FragRefs(CurSkb, q)' = FragRefs(CurSkb, q)
    BY <1>2 DEF FragRefs
  <2>3. \A q \in Pages : Users(q)' = held'[<<q, 0>>] + held'[<<q, 1>>] + FragRefs(CurSkb, q)
    BY <2>2 DEF Users
  <2>4. \A q \in Pages : Users(q) = held[<<q, 0>>] + held[<<q, 1>>] + FragRefs(CurSkb, q)
    BY DEF Users
  <2>5. c \in Int
    OBVIOUS
  <2>6. ASSUME NEW q \in Pages, q # p PROVE Users(q)' = Users(q)
    BY <2>1, <2>3, <2>4, <2>6
  <2>7. Users(p)' = Users(p) + c
    <3>1. CASE h = 0
      <4>1. held'[<<p, 0>>] = held[<<p, 0>>] + c /\ held'[<<p, 1>>] = held[<<p, 1>>]
        BY <2>1, <3>1
      <4> QED BY <1>5, <2>3, <2>4, <2>5, <4>1
    <3>2. CASE h = 1
      <4>1. held'[<<p, 1>>] = held[<<p, 1>>] + c /\ held'[<<p, 0>>] = held[<<p, 0>>]
        BY <2>1, <3>2
      <4> QED BY <1>5, <2>3, <2>4, <2>5, <4>1
    <3> QED BY <3>1, <3>2 DEF Half
  <2> QED BY <2>6, <2>7
<1>7. refs[p] >= Users(p) /\ Users(p) >= held[<<p, h>>]
  <2>1. Users(p) >= held[<<p, h>>] /\ Users(p) \in Nat
    BY <1>5 DEF Users, Half
  <2>2. refs[p] = Users(p) \/ \E i \in Slot : refs[p] = bias[i] + Users(p)
    BY DEF Data, Counted
  <2> QED BY <2>1, <2>2 DEF TypeRing
<1>8. TypeRing'
  <2>1. refs' \in [Pages -> Nat]
    BY <1>3, <1>4, <1>5, <1>7 DEF TypeRing, Users
  <2>2. held' \in [Pages \X Half -> Nat]
    BY <1>3, <1>4 DEF TypeRing
  <2> QED
    BY <1>1, <2>1, <2>2 DEF TypeRing, bufVars, descVars, hwVars, pollVars, allocVars
<1>9. Cursors'
  BY <1>1, <1>2 DEF Cursors, Allocating, D, hwVars, pollVars, allocVars, admVars
<1>10. Owned' /\ Filled'
  BY <1>1, <1>2 DEF Data, Owned, Filled, bufVars, descVars, hwVars, admVars
<1>11. Counted'
  <2> SUFFICES ASSUME NEW q \in Pages
               PROVE  /\ \A i \in Slot : On(i)' /\ pg'[i] = q => refs'[q] = bias'[i] + Users(q)'
                      /\ (\A i \in Slot : On(i)' => pg'[i] # q) => refs'[q] = Users(q)'
    BY DEF Counted
  <2>1. refs'[q] = IF q = p THEN refs[q] + c ELSE refs[q]
    BY <1>3 DEF TypeRing
  <2>2. Users(q) \in Nat
    BY <1>5 DEF Users
  <2> QED
    BY <1>1, <1>2, <1>5, <1>6, <2>1, <2>2 DEF Data, Counted, bufVars, TypeRing
<1>12. Halves'
  <2> SUFFICES ASSUME NEW i \in Slot, On(i)
               PROVE  held'[<<pg[i], off[i]>>] = 0
    BY <1>1, <1>2 DEF Data, Halves, bufVars
  <2>1. held[<<pg[i], off[i]>>] = 0
    BY DEF Data, Halves
  <2>2. <<pg[i], off[i]>> # <<p, h>>
    BY <1>4, <2>1
  <2> QED BY <1>3, <2>1, <2>2 DEF TypeRing
<1>13. NoStaleLength' /\ FramesContiguous'
  BY <1>1, <1>2 DEF Data, NoStaleLength, FramesContiguous, Between, Dist, descVars, hwVars, admVars
<1>14. Whole'
  BY <1>1, <1>2 DEF Data, Whole, D, descVars, hwVars, admVars
<1> QED BY <1>8, <1>9, <1>10, <1>11, <1>12, <1>13, <1>14 DEF Data

-----------------------------------------------------------------------------
(* ixgbevf_alloc_rx_buffers.                                               *)

\* the references that are not the ring's are a number
LEMMA UsersNat ==
  ASSUME TypeRing
  PROVE  \A q \in Pages : /\ Users(q) \in Nat /\ FragRefs(CurSkb, q) \in Nat /\ refs[q] \in Nat
                          /\ held[<<q, 0>>] \in Nat /\ held[<<q, 1>>] \in Nat
<1>1. \A q \in Pages : /\ FragRefs(CurSkb, q) \in Nat /\ refs[q] \in Nat
                       /\ held[<<q, 0>>] \in Nat /\ held[<<q, 1>>] \in Nat
  BY DEF TypeRing, FragRefs, Half
<1>2. ASSUME NEW q \in Pages PROVE Users(q) \in Nat
  <2>1. Users(q) = held[<<q, 0>>] + held[<<q, 1>>] + FragRefs(CurSkb, q)
    BY DEF Users
  <2> QED BY <1>1, <2>1
<1> QED BY <1>1, <1>2

\* A free page is not on the ring, and nobody refers to it.
LEMMA FreePage ==
  ASSUME RxIInv, NEW p \in Pages, refs[p] = 0
  PROVE  /\ \A i \in Slot : On(i) => pg[i] # p
         /\ Users(p) = 0 /\ held[<<p, 0>>] = 0 /\ held[<<p, 1>>] = 0
         /\ <<p, 0>> \notin CurSkb.frags /\ <<p, 1>> \notin CurSkb.frags
<1>1. ASSUME NEW i \in Slot, On(i), pg[i] = p PROVE FALSE
  <2>1. refs[p] = bias[i] + Users(p) /\ bias[i] > 0 /\ bias[i] \in Nat
    BY <1>1 DEF RxIInv, Data, Counted, Halves, TypeRing
  <2>2. Users(p) \in Nat
    BY UsersNat DEF RxIInv
  <2> QED BY <2>1, <2>2
<1>2. Users(p) = 0
  BY <1>1 DEF RxIInv, Data, Counted
<1>3. held[<<p, 0>>] = 0 /\ held[<<p, 1>>] = 0 /\ FragRefs(CurSkb, p) = 0
  BY <1>2, UsersNat DEF RxIInv, Users
<1> QED BY <1>1, <1>2, <1>3 DEF FragRefs

\* One turn of the loop: a descriptor gets a buffer.
LEMMA AllocSlotStep ==
  ASSUME RxIInv, AllocSlot
  PROVE  TypeRing' /\ Cursors' /\ Data'
<1> USE DEF RxIInv
<1>1. /\ apc # "down" /\ apc' = apc /\ cpc' = cpc /\ Allocating' = Allocating /\ Allocating
      /\ UseEnd = ai /\ UseEnd' = ai' /\ CurSkb' = CurSkb
      /\ ai' = Nxt(ai) /\ ntc' = ntc /\ nta' = nta /\ ntu' = ntu /\ acnt' = acnt - 1 /\ acnt > 0
  BY DEF AllocSlot, Allocating, Control, TypePlaces, Quiesced, Polling, UseEnd, CurSkb, pollVars,
         admVars
<1>2. /\ ntc \in Slot /\ ntu \in Slot /\ nta \in Slot /\ head \in Slot /\ ai \in Slot
      /\ Count \in Int /\ acnt \in 0 .. Count - 1
  BY CountAssumption DEF TypeRing
<1>3. /\ \A i \in Slot : D(i) \in 0 .. Count - 1
      /\ \A i, j \in Slot : D(i) = D(j) => i = j
  BY <1>2, DistBasics DEF D
<1>4. /\ \A i : D(i)' = D(i)
      /\ D(head) <= D(ntu) /\ D(ntu) <= D(nta) /\ D(ntu) <= D(ai)
      /\ D(nta) <= D(ai) + acnt /\ D(ai) + acnt <= Count - 1
  BY <1>1 DEF Cursors, D
<1>5. D(ai') = D(ai) + 1 /\ ai' \in Slot
  BY <1>1, <1>2, <1>3, <1>4, DistNxt DEF D
<1>6. \A i \in Slot : On(i)' <=> On(i) \/ i = ai
  <2>1. \A i \in Slot : On(i)' <=> D(i) < D(ai) + 1 \/ D(i) < D(nta)
    BY <1>1, <1>4, <1>5 DEF On, D
  <2>2. \A i \in Slot : On(i) <=> D(i) < D(ai) \/ D(i) < D(nta)
    BY <1>1 DEF On
  <2> QED BY <1>2, <1>3, <2>1, <2>2
<1>7. Cursors'
  BY <1>1, <1>2, <1>3, <1>4, <1>5, DistBasics DEF Cursors, D, AllocSlot, hwVars, pollVars
<1>8. /\ addr' = [addr EXCEPT ![ai] = <<pg'[ai], off'[ai]>>]
      /\ wb' = [wb EXCEPT ![Nxt(ai)] = None]
  BY DEF AllocSlot, AddrRefreshed, WbCleared
<1>9. NoStaleLength' /\ FramesContiguous' /\ Whole'
  <2>1. \A i \in Slot : i # ai' => wb'[i] = wb[i]
    BY <1>1, <1>8 DEF TypeRing
  <2>2. wb'[ai'] = None
    BY <1>1, <1>5, <1>8 DEF TypeRing
  <2>3. UNCHANGED <<head, hpart>>
    BY DEF AllocSlot, hwVars
  <2>4. NoStaleLength'
    BY <1>1, <1>2, <1>3, <1>4, <1>5, <2>1, <2>2, <2>3 DEF Data, NoStaleLength, D
  <2>5. \A i \in Slot : D(i) < D(head) => wb'[i] = wb[i] /\ (Nxt(i) # head => wb'[Nxt(i)] = wb[Nxt(i)])
    <3> SUFFICES ASSUME NEW i \in Slot, D(i) < D(head)
                 PROVE  wb'[i] = wb[i] /\ (Nxt(i) # head => wb'[Nxt(i)] = wb[Nxt(i)])
      OBVIOUS
    <3>1. D(Nxt(i)) = D(i) + 1 /\ Nxt(i) \in Slot
      BY <1>2, <1>3, DistNxt DEF D
    <3> QED BY <1>2, <1>3, <1>4, <1>5, <2>1, <3>1
  <2>6. ntc # head => D(ntc) < D(head)
    BY <1>2, DistBasics DEF D
  <2>7. FramesContiguous'
    BY <1>1, <1>2, <2>3, <2>5, <2>6 DEF Data, FramesContiguous, Between, D
  <2>8. Whole'
    BY <1>1, <2>3, <2>5 DEF Data, Whole, D, AllocSlot, admVars
  <2> QED BY <2>4, <2>7, <2>8
<1>10. CASE pg[ai] # None
  <2>1. On(ai) /\ UNCHANGED <<bufVars, pageVars>>
    BY <1>1, <1>2, <1>10 DEF AllocSlot, Data, Owned
  <2>2. \A i \in Slot : On(i)' <=> On(i)
    BY <1>6, <2>1
  <2>3. \A q \in Pages : Users(q)' = Users(q)
    BY <1>1, <2>1 DEF Users, pageVars
  <2>4. Owned' /\ Halves'
    BY <1>1, <2>1, <2>2 DEF Data, Owned, Halves, bufVars, pageVars
  <2>5. Counted'
    BY <2>1, <2>2, <2>3 DEF Data, Counted, bufVars, pageVars
  <2>6. Filled'
    <3>1. addr'[ai] = <<pg[ai], off[ai]>> /\ \A i \in Slot : i # ai => addr'[i] = addr[i]
      BY <1>2, <1>8, <2>1 DEF TypeRing, bufVars
    <3>2. head' = head /\ pg' = pg /\ off' = off
      BY <2>1 DEF AllocSlot, hwVars, bufVars
    <3>3. \A i \in Slot : Dist(ntc', i) < Dist(ntc', UseEnd') => i = ai \/ D(i) < D(ai)
      BY <1>1, <1>2, <1>3, <1>5 DEF D
    <3> QED BY <1>1, <1>2, <3>1, <3>2, <3>3 DEF Data, Filled, D
  <2>7. TypeRing'
    <3>1. <<pg'[ai], off'[ai]>> \in Pages \X Half
      BY <1>2, <1>10, <2>1 DEF TypeRing, bufVars
    <3>2. addr' \in [Slot -> (Pages \X Half) \cup {None}] /\ wb' \in [Slot -> WriteBack \cup {None}]
      BY <1>8, <3>1 DEF TypeRing
    <3> QED
      BY <1>1, <1>2, <1>5, <2>1, <3>2
      DEF TypeRing, AllocSlot, bufVars, pageVars, hwVars, pollVars
  <2> QED BY <1>7, <1>9, <2>4, <2>5, <2>6, <2>7 DEF Data
<1>11. CASE pg[ai] = None
  <2>1. PICK p \in Pages : /\ refs[p] = 0 /\ refs' = [refs EXCEPT ![p] = 1]
                           /\ mapped' = mapped \cup {p} /\ pg' = [pg EXCEPT ![ai] = p]
    BY <1>11 DEF AllocSlot
  <2>2. off' = [off EXCEPT ![ai] = 0] /\ bias' = [bias EXCEPT ![ai] = 1] /\ held' = held
    BY <1>11 DEF AllocSlot
  <2>3. /\ pg'[ai] = p /\ off'[ai] = 0 /\ bias'[ai] = 1
        /\ \A i \in Slot : i # ai => pg'[i] = pg[i] /\ off'[i] = off[i] /\ bias'[i] = bias[i]
    BY <1>2, <2>1, <2>2 DEF TypeRing
  <2>4. ~On(ai)
    BY <1>1, <1>2, <1>11 DEF Data, Owned
  <2>5. /\ \A i \in Slot : On(i) => pg[i] # p
        /\ Users(p) = 0 /\ held[<<p, 0>>] = 0 /\ <<p, 0>> \notin CurSkb.frags
    BY <2>1, FreePage
  <2>6. \A q \in Pages : Users(q)' = Users(q)
    BY <1>1, <2>2 DEF Users
  <2>7. Owned'
    <3>1. p # None
      BY NoneAssumption
    <3>2. \A i \in Slot : pg'[i] # None <=> On(i)'
      BY <1>1, <1>6, <2>3, <2>4, <3>1 DEF Data, Owned
    <3>3. \A i, j \in Slot : On(i)' /\ On(j)' /\ pg'[i] = pg'[j] => i = j
      BY <1>1, <1>6, <2>3, <2>5 DEF Data, Owned
    <3> QED BY <3>2, <3>3 DEF Owned
  <2>8. Counted'
    <3> SUFFICES ASSUME NEW q \in Pages
                 PROVE  /\ \A i \in Slot : On(i)' /\ pg'[i] = q => refs'[q] = bias'[i] + Users(q)
                        /\ (\A i \in Slot : On(i)' => pg'[i] # q) => refs'[q] = Users(q)
      BY <2>6 DEF Counted
    <3>1. CASE q = p
      <4>1. refs'[q] = 1
        BY <2>1, <3>1 DEF TypeRing
      <4>2. \A i \in Slot : On(i)' /\ pg'[i] = q => i = ai
        BY <1>6, <2>3, <2>5, <3>1
      <4>3. \E i \in Slot : On(i)' /\ pg'[i] = q
        BY <1>2, <1>6, <2>3, <3>1
      <4> QED BY <1>2, <2>3, <2>5, <3>1, <4>1, <4>2, <4>3
    <3>2. CASE q # p
      <4>1. refs'[q] = refs[q]
        BY <2>1, <3>2 DEF TypeRing
      <4>2. \A i \in Slot : On(i)' /\ pg'[i] = q <=> On(i) /\ pg[i] = q
        BY <1>6, <2>3, <2>4, <3>2
      <4>3. \A i \in Slot : On(i) /\ pg[i] = q => bias'[i] = bias[i]
        BY <2>3, <2>4
      <4> QED BY <4>1, <4>2, <4>3 DEF Data, Counted
    <3> QED BY <3>1, <3>2
  <2>9. Halves'
    <3> SUFFICES ASSUME NEW i \in Slot, On(i)'
                 PROVE  /\ bias'[i] > 0 /\ pg'[i] \in mapped'
                        /\ held[<<pg'[i], off'[i]>>] = 0
                        /\ <<pg'[i], off'[i]>> \notin CurSkb.frags
      BY <1>1, <2>2 DEF Halves
    <3>1. CASE i = ai
      BY <2>1, <2>3, <2>5, <3>1
    <3>2. CASE i # ai
      BY <1>6, <2>1, <2>3, <3>2 DEF Data, Halves
    <3> QED BY <3>1, <3>2
  <2>10. Filled'
    <3>1. addr'[ai] = <<pg'[ai], off'[ai]>> /\ \A i \in Slot : i # ai => addr'[i] = addr[i]
      BY <1>2, <1>8 DEF TypeRing
    <3>2. head' = head
      BY DEF AllocSlot, hwVars
    <3> QED
      BY <1>1, <1>2, <1>3, <1>4, <1>5, <2>3, <3>1, <3>2 DEF Data, Filled, D
  <2>11. TypeRing'
    <3>1. pg' \in [Slot -> Pages \cup {None}] /\ off' \in [Slot -> Half] /\ bias' \in [Slot -> Nat]
      BY <2>1, <2>2 DEF TypeRing, Half
    <3>2. <<pg'[ai], off'[ai]>> \in Pages \X Half
      BY <2>3 DEF Half
    <3>3. addr' \in [Slot -> (Pages \X Half) \cup {None}] /\ wb' \in [Slot -> WriteBack \cup {None}]
      BY <1>8, <3>2 DEF TypeRing
    <3>4. refs' \in [Pages -> Nat] /\ mapped' \subseteq Pages
      BY <2>1 DEF TypeRing
    <3> QED
      BY <1>1, <1>2, <1>5, <2>2, <3>1, <3>3, <3>4
      DEF TypeRing, AllocSlot, hwVars, pollVars
  <2> QED BY <1>7, <1>9, <2>7, <2>8, <2>9, <2>10, <2>11 DEF Data
<1> QED BY <1>10, <1>11


\* The refill ends: next_to_use and next_to_alloc catch up with it, and none of the
\* pages put back is left behind.
LEMMA AllocDoneStep ==
  ASSUME RxIInv, AllocDone
  PROVE  TypeRing' /\ Cursors' /\ Data'
<1> USE DEF RxIInv
<1>1. /\ apc # "down" /\ apc' # "down" /\ Allocating /\ ~Allocating'
      /\ UseEnd = ai /\ UseEnd' = ntu' /\ CurSkb' = CurSkb
      /\ cpc' = "loop" => ccnt' = 0
  BY DEF AllocDone, AllocReturn, Allocating, Control, TypePlaces, Quiesced, Polling, UseEnd, CurSkb
<1>2. /\ ntc \in Slot /\ ntu \in Slot /\ nta \in Slot /\ head \in Slot /\ ai \in Slot
      /\ Count \in Int /\ acnt \in 0 .. Count - 1
  BY CountAssumption DEF TypeRing
<1>3. /\ \A i \in Slot : D(i) \in 0 .. Count - 1
      /\ \A i, j \in Slot : D(i) = D(j) => i = j
  BY <1>2, DistBasics DEF D
<1>4. /\ D(head) <= D(ntu) /\ D(ntu) <= D(nta) /\ D(ntu) <= D(ai)
      /\ D(nta) <= D(ai) + acnt /\ tail = ntu
  BY <1>1 DEF Cursors
<1>5. D(nta) <= D(ai)
  <2>1. CASE acnt = 0
    BY <1>2, <1>3, <1>4, <2>1
  <2>2. CASE pg[ai] = None
    BY <1>1, <1>2, <1>3, <2>2 DEF Data, Owned, On
  <2> QED BY <2>1, <2>2 DEF AllocDone
<1>6. /\ ntu' = ai /\ nta' = ai /\ tail' = ai /\ ai' = ai /\ UseEnd' = ai
      /\ UNCHANGED <<ntc, bufVars, descVars, rskb, pageVars, head, hpart, cskb, cpk>>
  <2>1. ai = ntu => nta = ai
    BY <1>2, <1>3, <1>4, <1>5
  <2> QED BY <1>1, <1>4, <2>1 DEF AllocDone
<1>7. \A i : D(i)' = D(i)
  BY <1>6 DEF D
<1>8. \A i \in Slot : On(i)' <=> On(i)
  <2>1. \A i \in Slot : On(i)' <=> D(i) < D(ai)
    BY <1>1, <1>6, <1>7 DEF On, D
  <2>2. \A i \in Slot : On(i) <=> D(i) < D(ai) \/ D(i) < D(nta)
    BY <1>1 DEF On
  <2> QED BY <1>2, <1>3, <1>5, <2>1, <2>2
<1>9. TypeRing'
  <2>1. ccnt' \in 0 .. Count - 1 /\ acnt' \in 0 .. Count - 1
    BY CountAssumption DEF AllocDone, AllocReturn, TypeRing
  <2> QED BY <1>2, <1>6, <2>1 DEF TypeRing, bufVars, descVars, pageVars
<1>10. Cursors'
  <2>1. D(ai) \in 0 .. Count - 1 /\ D(head) <= D(ai)
    BY <1>2, <1>3, <1>4
  <2>2. Count - 1 - D(ai) >= 0 /\ D(ai) - D(ai) = 0
    BY <1>2, <2>1
  <2>3. /\ Dist(ntc', head') = D(head) /\ Dist(ntc', ntu') = D(ai) /\ Dist(ntc', nta') = D(ai)
        /\ Dist(ntc', UseEnd') = D(ai)
    BY <1>6 DEF D
  <2> QED BY <1>1, <1>6, <2>1, <2>2, <2>3 DEF Cursors, D
<1>11. \A q \in Pages : Users(q)' = Users(q)
  BY <1>1, <1>6 DEF Users, FragRefs, pageVars
<1>12. Owned' /\ Halves'
  BY <1>1, <1>6, <1>8 DEF Data, Owned, Halves, bufVars, pageVars
<1>13. Counted'
  BY <1>6, <1>8, <1>11 DEF Data, Counted, bufVars, pageVars
<1>14. Filled'
  BY <1>1, <1>6 DEF Data, Filled, D, bufVars, descVars
<1>15. NoStaleLength' /\ FramesContiguous' /\ Whole'
  BY <1>1, <1>6 DEF Data, NoStaleLength, FramesContiguous, Whole, D, Between, Dist, descVars,
     AllocDone
<1> QED BY <1>9, <1>10, <1>12, <1>13, <1>14, <1>15 DEF Data

-----------------------------------------------------------------------------
(* ixgbevf_clean_rx_irq takes one buffer off the ring.                     *)

\* What the poll finds at next_to_clean: a buffer of the ring that holds the next part
\* of the frame.
LEMMA CleanFinds ==
  ASSUME RxIInv, Ready
  PROVE  /\ apc # "down" /\ ~Allocating /\ UseEnd = ntu /\ CurSkb = cskb
         /\ D(ntc) = 0 /\ 1 <= D(head) /\ D(head) <= D(ntu) /\ D(ntu) <= D(nta)
         /\ \A i \in Slot : On(i) <=> D(i) < D(nta)
         /\ On(ntc) /\ ~On(nta) /\ nta # ntc /\ head # ntc /\ ntu # ntc
         /\ pg[ntc] \in Pages /\ off[ntc] \in Half /\ <<pg[ntc], off[ntc]>> \in Pages \X Half
         /\ bias[ntc] \in Nat /\ bias[ntc] > 0
         /\ wb[ntc] \in WriteBack /\ wb[ntc].part = cskb.parts + 1
         /\ refs[pg[ntc]] = bias[ntc] + Users(pg[ntc])
         /\ held[<<pg[ntc], off[ntc]>>] = 0 /\ <<pg[ntc], off[ntc]>> \notin cskb.frags
<1> USE DEF RxIInv
<1>1. apc # "down" /\ ~Allocating /\ UseEnd = ntu /\ CurSkb = cskb
  BY DEF Ready, Control, TypePlaces, Quiesced, Polling, CurSkb, UseEnd, Allocating
<1>2. /\ ntc \in Slot /\ ntu \in Slot /\ nta \in Slot /\ head \in Slot /\ Count \in Int
  BY CountAssumption DEF TypeRing
<1>3. /\ \A i \in Slot : D(i) \in 0 .. Count - 1
      /\ \A i, j \in Slot : D(i) = D(j) => i = j
      /\ D(ntc) = 0
  BY <1>2, DistBasics DEF D
<1>4. D(head) <= D(ntu) /\ D(ntu) <= D(nta)
  BY <1>1 DEF Cursors
<1>5. 1 <= D(head)
  <2>1. D(head) # 0
    BY <1>1, <1>2, <1>3 DEF Data, NoStaleLength, Ready, D
  <2> QED BY <1>2, <1>3, <2>1
<1>6. \A i \in Slot : On(i) <=> D(i) < D(nta)
  BY <1>1, <1>2, <1>3, <1>4 DEF On
<1>7. On(ntc) /\ ~On(nta) /\ nta # ntc /\ head # ntc /\ ntu # ntc
  BY <1>2, <1>3, <1>4, <1>5, <1>6
<1>8. pg[ntc] # None
  BY <1>1, <1>2, <1>7 DEF Data, Owned
<1>9. pg[ntc] \in Pages /\ off[ntc] \in Half /\ bias[ntc] \in Nat
  BY <1>2, <1>8 DEF TypeRing
<1>10. wb[ntc] \in WriteBack /\ wb[ntc].part = cskb.parts + 1
  BY <1>1, <1>2, <1>7 DEF Ready, TypeRing, Data, FramesContiguous
<1>11. /\ bias[ntc] > 0 /\ refs[pg[ntc]] = bias[ntc] + Users(pg[ntc])
       /\ held[<<pg[ntc], off[ntc]>>] = 0 /\ <<pg[ntc], off[ntc]>> \notin cskb.frags
  BY <1>1, <1>2, <1>7, <1>9 DEF Data, Counted, Halves
<1> QED BY <1>1, <1>3, <1>4, <1>5, <1>6, <1>7, <1>9, <1>10, <1>11

\* Where the cursors are after it: the page leaves the ring at next_to_clean and may
\* have come back at next_to_alloc.
LEMMA CleanMoves ==
  ASSUME RxIInv, NEW fate \in Fates, NEW reserved \in BOOLEAN,
         Ready, PutRxBuffer(fate, reserved)
  PROVE  /\ ntc' \in Slot /\ nta' \in Slot /\ ccnt' \in 0 .. Count - 1
         /\ apc' = apc /\ ~Allocating' /\ UseEnd' = ntu /\ CurSkb' = cskb'
         /\ \A i \in Slot : D(i)' = IF i = ntc THEN Count - 1 ELSE D(i) - 1
         /\ \A i \in Slot : On(i)' <=> \/ On(i) /\ i # ntc
                                       \/ CanReuse(fate, reserved) /\ i = nta
         /\ Cursors'
<1> USE DEF RxIInv
<1>1. /\ ntc \in Slot /\ ntu \in Slot /\ nta \in Slot /\ head \in Slot
      /\ Count \in Nat /\ Count > 1 /\ ccnt \in 0 .. Count - 1
      /\ Write \in 1 .. Count - 1
  BY CountAssumption, BoundAssumption DEF TypeRing
<1>2. /\ \A i \in Slot : D(i) \in 0 .. Count - 1
      /\ \A i, j \in Slot : D(i) = D(j) => i = j
  BY <1>1, DistBasics DEF D
<1>3. /\ apc # "down" /\ ~Allocating /\ 1 <= D(head) /\ D(head) <= D(ntu) /\ D(ntu) <= D(nta)
      /\ \A i \in Slot : On(i) <=> D(i) < D(nta)
      /\ nta # ntc /\ head # ntc /\ ntu # ntc
  BY CleanFinds
<1>4. /\ ntc' = Nxt(ntc) /\ ntu' = ntu /\ head' = head /\ tail' = tail /\ ccnt' = ccnt + 1
      /\ cpc' = cpc /\ apc' = apc /\ cpc = "loop" /\ ccnt < Write
      /\ nta' = IF CanReuse(fate, reserved) THEN Nxt(nta) ELSE nta
  BY DEF PutRxBuffer, ReuseRxPage, ReleaseRxPage, Ready, hwVars, admVars
<1>5. ntc' \in Slot /\ nta' \in Slot /\ ccnt' \in 0 .. Count - 1
  BY <1>1, <1>4, DistNxt
<1>6. ~Allocating' /\ UseEnd' = ntu /\ CurSkb' = cskb'
  BY <1>3, <1>4 DEF Allocating, UseEnd, CurSkb, Polling
<1>7. \A i \in Slot : D(i)' = IF i = ntc THEN Count - 1 ELSE D(i) - 1
  BY <1>1, <1>4, DistAdv DEF D
<1>8. Dist(ntc', nta') = IF CanReuse(fate, reserved) THEN D(nta) ELSE D(nta) - 1
  <2>1. CASE CanReuse(fate, reserved)
    BY <1>1, <1>4, <2>1, DistMove DEF D
  <2>2. CASE ~CanReuse(fate, reserved)
    BY <1>1, <1>3, <1>4, <2>2, DistAdv DEF D
  <2> QED BY <2>1, <2>2
<1>9. Dist(ntc', ntu') = D(ntu) - 1 /\ Dist(ntc', head') = D(head) - 1
  BY <1>1, <1>3, <1>4, DistAdv DEF D
<1>10. ASSUME NEW i \in Slot
       PROVE  On(i)' <=> \/ On(i) /\ i # ntc
                         \/ CanReuse(fate, reserved) /\ i = nta
  <2>1. On(i)' <=> D(i)' < D(ntu) - 1 \/ D(i)' < Dist(ntc', nta')
    BY <1>3, <1>4, <1>6, <1>9 DEF On, D
  <2>2. CASE i = ntc
    BY <1>1, <1>2, <1>3, <1>7, <1>8, <2>1, <2>2
  <2>3. CASE i # ntc
    <3>1. D(i)' = D(i) - 1
      BY <1>7, <2>3
    <3>2. CASE CanReuse(fate, reserved)
      BY <1>1, <1>2, <1>3, <1>8, <2>1, <2>3, <3>1, <3>2
    <3>3. CASE ~CanReuse(fate, reserved)
      BY <1>1, <1>2, <1>3, <1>8, <2>1, <2>3, <3>1, <3>3
    <3> QED BY <3>2, <3>3
  <2> QED BY <2>2, <2>3
<1>11. Cursors'
  <2>1. /\ tail = ntu /\ D(nta) - D(ntu) <= ccnt /\ ccnt <= Count - 1 - D(ntu)
    BY <1>3, <1>4 DEF Cursors
  <2>2. D(ntu) \in Int /\ D(nta) \in Int /\ D(head) \in Int /\ ccnt \in Int
    BY <1>1, <1>2
  <2>3. /\ Dist(ntc', head') <= Dist(ntc', ntu') /\ Dist(ntc', ntu') <= Dist(ntc', nta')
        /\ Dist(ntc', nta') - Dist(ntc', ntu') <= ccnt'
        /\ ccnt' <= Count - 1 - Dist(ntc', ntu')
    <3>1. CASE CanReuse(fate, reserved)
      BY <1>1, <1>3, <1>4, <1>8, <1>9, <2>1, <2>2, <3>1
    <3>2. CASE ~CanReuse(fate, reserved)
      BY <1>1, <1>3, <1>4, <1>8, <1>9, <2>1, <2>2, <3>2
    <3> QED BY <3>1, <3>2
  <2>4. Dist(ntc', ntu') <= Dist(ntc', UseEnd')
    BY <1>4, <1>6, <1>9, <2>2
  <2> QED BY <1>4, <1>6, <2>1, <2>3, <2>4 DEF Cursors, D
<1> QED BY <1>4, <1>5, <1>6, <1>7, <1>10, <1>11

\* the reference that leaves the ring with the buffer
Gone(fate) == IF GivenAway(fate) THEN 1 ELSE 0

\* What the others hold changes by the reference the ring gives away, beside what is
\* freed altogether,
Balanced(fate, reserved) ==
  \A q \in Pages :
    /\ Users(q)' \in Nat
    /\ refs'[q] - Users(q)' =
         RefsPut(fate, reserved)[q] - Users(q) - (IF q = pg[ntc] THEN Gone(fate) ELSE 0)
    /\ refs'[q] \in Int

\* and no half page gets a new user except the one given away.
OnlyGiven(fate) ==
  \A b \in Pages \X Half :
    held'[b] # 0 \/ b \in cskb'.frags =>
      \/ held[b] # 0 \/ b \in cskb.frags
      \/ GivenAway(fate) /\ b = <<pg[ntc], off[ntc]>>

\* The buffers after it, whoever got the reference: as long as what the others hold
\* changes by what the ring gives away, pages stay accounted for, and the half that
\* goes back on the ring is free.
LEMMA PutStep ==
  ASSUME RxIInv, NEW fate \in Fates, NEW reserved \in BOOLEAN,
         Ready, PutRxBuffer(fate, reserved),
         Balanced(fate, reserved), OnlyGiven(fate)
  PROVE  /\ Owned' /\ Counted' /\ Halves'
         /\ pg' \in [Slot -> Pages \cup {None}] /\ off' \in [Slot -> Half]
         /\ bias' \in [Slot -> Nat] /\ mapped' \subseteq Pages
         /\ \A q \in Pages : refs'[q] \in Nat
<1> USE DEF RxIInv
<1> DEFINE p == pg[ntc]
           left == BiasLeft(fate)
           reuse == CanReuse(fate, reserved)
<1>1. /\ ntc \in Slot /\ nta \in Slot /\ nta # ntc /\ On(ntc) /\ ~On(nta) /\ apc # "down"
      /\ CurSkb = cskb
      /\ p \in Pages /\ off[ntc] \in Half /\ bias[ntc] \in Nat /\ bias[ntc] > 0
      /\ refs[p] = bias[ntc] + Users(p)
      /\ held[<<p, off[ntc]>>] = 0 /\ <<p, off[ntc]>> \notin cskb.frags
  BY CleanFinds DEF TypeRing
<1>2. /\ apc' = apc /\ CurSkb' = cskb'
      /\ \A i \in Slot : On(i)' <=> (On(i) /\ i # ntc) \/ (reuse /\ i = nta)
  BY CleanMoves
<1>3. /\ \A q \in Pages : Users(q) \in Nat /\ refs[q] \in Nat
      /\ left = bias[ntc] - Gone(fate) /\ left \in Nat /\ Gone(fate) \in {0, 1}
      /\ BiasMax \in Nat /\ BiasMax > 0
      /\ p # None
  <2>1. \A q \in Pages : Users(q) \in Nat /\ refs[q] \in Nat
    BY UsersNat
  <2>2. left = bias[ntc] - Gone(fate) /\ left \in Nat /\ Gone(fate) \in {0, 1}
    BY <1>1 DEF BiasLeft, Gone
  <2> QED BY <1>1, <2>1, <2>2, BoundAssumption, NoneAssumption
<1>4. /\ reuse => pg' = [pg EXCEPT ![nta] = p, ![ntc] = None]
      /\ reuse => off' = [off EXCEPT ![nta] = OffLeft(fate)]
      /\ reuse => bias' = [bias EXCEPT ![nta] = IF left = 0 THEN BiasMax ELSE left]
      /\ reuse => mapped' = mapped
      /\ ~reuse => pg' = [pg EXCEPT ![ntc] = None] /\ off' = off /\ bias' = bias
      /\ ~reuse => mapped' \in {mapped, mapped \ {p}}
  BY DEF PutRxBuffer, ReuseRxPage, ReleaseRxPage
<1>5. OffLeft(fate) \in Half /\ (GivenAway(fate) => OffLeft(fate) # off[ntc])
      /\ (~GivenAway(fate) => OffLeft(fate) = off[ntc])
  BY <1>1 DEF OffLeft, Half
<1>6. /\ pg' \in [Slot -> Pages \cup {None}] /\ off' \in [Slot -> Half]
      /\ bias' \in [Slot -> Nat] /\ mapped' \subseteq Pages
  <2>1. CASE reuse
    BY <1>1, <1>3, <1>4, <1>5, <2>1 DEF TypeRing
  <2>2. CASE ~reuse
    BY <1>1, <1>4, <2>2 DEF TypeRing
  <2> QED BY <2>1, <2>2
<1>7. /\ pg'[ntc] = None
      /\ \A i \in Slot : i # ntc /\ i # nta => pg'[i] = pg[i] /\ off'[i] = off[i] /\ bias'[i] = bias[i]
      /\ reuse => /\ pg'[nta] = p /\ off'[nta] = OffLeft(fate)
                  /\ bias'[nta] = IF left = 0 THEN BiasMax ELSE left
      /\ ~reuse => pg'[nta] = pg[nta]
  <2>1. CASE reuse
    BY <1>1, <1>4, <2>1 DEF TypeRing
  <2>2. CASE ~reuse
    BY <1>1, <1>4, <2>2 DEF TypeRing
  <2> QED BY <2>1, <2>2
<1>8. \A i, j \in Slot : On(i) /\ On(j) /\ pg[i] = pg[j] => i = j
  BY <1>1 DEF Data, Owned
<1>9. Owned'
  <2>1. \A i \in Slot : pg'[i] # None <=> On(i)'
    <3>1. \A i \in Slot : pg[i] # None <=> On(i)
      BY <1>1 DEF Data, Owned
    <3> QED BY <1>1, <1>2, <1>3, <1>7, <3>1
  <2>2. \A i, j \in Slot : On(i)' /\ On(j)' /\ pg'[i] = pg'[j] => i = j
    BY <1>1, <1>2, <1>7, <1>8
  <2> QED BY <2>1, <2>2 DEF Owned
<1>10. Counted'
  <2> SUFFICES ASSUME NEW q \in Pages
               PROVE  /\ \A i \in Slot : On(i)' /\ pg'[i] = q => refs'[q] = bias'[i] + Users(q)'
                      /\ (\A i \in Slot : On(i)' => pg'[i] # q) => refs'[q] = Users(q)'
    BY DEF Counted
  <2>1. /\ Users(q)' \in Nat /\ refs'[q] \in Int /\ Users(q) \in Nat /\ refs[q] \in Nat
        /\ refs'[q] - Users(q)' =
             RefsPut(fate, reserved)[q] - Users(q) - (IF q = p THEN Gone(fate) ELSE 0)
    BY <1>3 DEF Balanced
  <2>2. CASE q = p
    <3>1. RefsPut(fate, reserved)[q] =
            IF ~reuse THEN refs[q] - left ELSE IF left = 0 THEN refs[q] + BiasMax ELSE refs[q]
      BY <1>1, <2>2 DEF RefsPut, TypeRing
    <3>2. CASE reuse
      <4>1. refs'[q] = (IF left = 0 THEN BiasMax ELSE left) + Users(q)'
        BY <1>1, <1>3, <2>1, <2>2, <3>1, <3>2
      <4>2. \A i \in Slot : On(i)' /\ pg'[i] = q => i = nta
        BY <1>1, <1>2, <1>7, <1>8, <2>2
      <4>3. \E i \in Slot : On(i)' /\ pg'[i] = q
        BY <1>1, <1>2, <1>7, <2>2, <3>2
      <4> QED BY <1>7, <3>2, <4>1, <4>2, <4>3
    <3>3. CASE ~reuse
      <4>1. refs'[q] = Users(q)'
        <5> HIDE DEF p, left, reuse
        <5>1. refs[q] - left = Gone(fate) + Users(q)
          BY <1>1, <1>3, <2>1, <2>2
        <5>2. refs'[q] - Users(q)' = 0
          <6>1. RefsPut(fate, reserved)[q] = Gone(fate) + Users(q)
            BY <3>1, <3>3, <5>1
          <6>2. refs'[q] - Users(q)' = RefsPut(fate, reserved)[q] - Users(q) - Gone(fate)
            BY <2>1, <2>2
          <6> QED BY <1>3, <2>1, <6>1, <6>2
        <5> QED BY <2>1, <5>2
      <4>2. \A i \in Slot : ~(On(i)' /\ pg'[i] = q)
        BY <1>1, <1>2, <1>7, <1>8, <2>2, <3>3
      <4> QED BY <4>1, <4>2
    <3> QED BY <3>2, <3>3
  <2>3. CASE q # p
    <3>1. RefsPut(fate, reserved)[q] = refs[q]
      BY <1>1, <2>3 DEF RefsPut, TypeRing
    <3>2. refs'[q] - Users(q)' = refs[q] - Users(q)
      BY <2>1, <2>3, <3>1
    <3>3. \A i \in Slot : On(i)' /\ pg'[i] = q <=> On(i) /\ pg[i] = q
      BY <1>1, <1>2, <1>7, <2>3
    <3>4. \A i \in Slot : On(i) /\ pg[i] = q => bias'[i] = bias[i] /\ bias[i] \in Nat
      BY <1>1, <1>7, <2>3 DEF TypeRing
    <3>5. /\ \A i \in Slot : On(i) /\ pg[i] = q => refs[q] = bias[i] + Users(q)
          /\ (\A i \in Slot : On(i) => pg[i] # q) => refs[q] = Users(q)
      BY DEF Data, Counted
    <3> QED BY <2>1, <3>2, <3>3, <3>4, <3>5
  <2> QED BY <2>2, <2>3
<1>11. Halves'
  <2> SUFFICES ASSUME NEW i \in Slot, On(i)'
               PROVE  /\ bias'[i] > 0 /\ pg'[i] \in mapped'
                      /\ held'[<<pg'[i], off'[i]>>] = 0
                      /\ <<pg'[i], off'[i]>> \notin cskb'.frags
    BY <1>2 DEF Halves
  <2>1. CASE i = nta
    <3>1. reuse
      BY <1>1, <1>2, <2>1
    <3>2. pg'[i] = p /\ off'[i] = OffLeft(fate) /\ bias'[i] > 0
      BY <1>3, <1>7, <2>1, <3>1
    <3>3. p \in mapped'
      BY <1>1, <1>4, <3>1 DEF Data, Halves
    <3>4. GivenAway(fate) => Users(p) = 0
      <4>1. refs[p] - left <= 1
        BY <3>1 DEF CanReuse
      <4> QED BY <1>1, <1>3, <4>1 DEF Gone
    <3>5. held[<<p, OffLeft(fate)>>] = 0 /\ <<p, OffLeft(fate)>> \notin cskb.frags
      <4>1. CASE GivenAway(fate)
        <5>1. /\ held[<<p, 0>>] \in Nat /\ held[<<p, 1>>] \in Nat /\ FragRefs(CurSkb, p) \in Nat
              /\ held[<<p, 0>>] + held[<<p, 1>>] + FragRefs(CurSkb, p) = 0
          BY <1>1, <3>4, <4>1, UsersNat DEF Users
        <5>2. held[<<p, 0>>] = 0 /\ held[<<p, 1>>] = 0 /\ FragRefs(CurSkb, p) = 0
          <6> HIDE DEF p
          <6> QED BY <5>1
        <5> QED BY <1>1, <1>5, <5>2 DEF FragRefs, Half
      <4>2. CASE ~GivenAway(fate)
        BY <1>1, <1>5, <4>2
      <4> QED BY <4>1, <4>2
    <3>6. <<p, OffLeft(fate)>> \in Pages \X Half /\ ~(GivenAway(fate) /\ <<p, OffLeft(fate)>> = <<p, off[ntc]>>)
      BY <1>1, <1>5
    <3> QED BY <3>2, <3>3, <3>5, <3>6 DEF OnlyGiven
  <2>2. CASE i # nta
    <3>1. On(i) /\ i # ntc
      BY <1>2, <2>2
    <3>2. pg'[i] = pg[i] /\ off'[i] = off[i] /\ bias'[i] = bias[i] /\ pg[i] # p
      BY <1>1, <1>7, <1>8, <2>2, <3>1
    <3>3. /\ bias[i] > 0 /\ pg[i] \in mapped
          /\ held[<<pg[i], off[i]>>] = 0 /\ <<pg[i], off[i]>> \notin cskb.frags
      BY <1>1, <3>1 DEF Data, Halves
    <3>4. pg[i] \in mapped'
      BY <1>4, <3>2, <3>3
    <3>5. <<pg[i], off[i]>> \in Pages \X Half /\ <<pg[i], off[i]>> # <<p, off[ntc]>>
      BY <3>2, <3>3 DEF TypeRing
    <3> QED BY <3>2, <3>3, <3>4, <3>5 DEF OnlyGiven
  <2> QED BY <2>1, <2>2
<1>12. ASSUME NEW q \in Pages PROVE refs'[q] \in Nat
  <2>1. refs'[q] = Users(q)' \/ \E i \in Slot : refs'[q] = bias'[i] + Users(q)'
    BY <1>10 DEF Counted
  <2>2. Users(q)' \in Nat
    BY DEF Balanced
  <2> QED BY <1>6, <2>1, <2>2
<1> QED BY <1>6, <1>9, <1>10, <1>11, <1>12

\* The rest: the descriptors, and the frame that is put together from them.
LEMMA CleanFrame ==
  ASSUME RxIInv, NEW fate \in Fates, NEW reserved \in BOOLEAN,
         Ready, PutRxBuffer(fate, reserved),
         cskb'.parts = IF wb[ntc].eop THEN 0 ELSE wb[ntc].part,
         cskb'.parts = 0 => cskb'.frags = {}
  PROVE  Filled' /\ FramesContiguous' /\ NoStaleLength' /\ Whole'
<1> USE DEF RxIInv
<1>1. /\ ntc \in Slot /\ ntu \in Slot /\ nta \in Slot /\ head \in Slot
      /\ Count \in Nat /\ Count > 1
  BY CountAssumption DEF TypeRing
<1>2. /\ \A i \in Slot : D(i) \in 0 .. Count - 1
      /\ \A i, j \in Slot : D(i) = D(j) => i = j
  BY <1>1, DistBasics DEF D
<1>3. /\ apc # "down" /\ UseEnd = ntu /\ CurSkb = cskb
      /\ D(ntc) = 0 /\ 1 <= D(head) /\ D(head) <= D(ntu) /\ D(ntu) <= D(nta)
      /\ nta # ntc /\ head # ntc /\ ntu # ntc
  BY CleanFinds
<1>4. /\ apc' = apc /\ UseEnd' = ntu /\ CurSkb' = cskb' /\ ntc' \in Slot
      /\ \A i \in Slot : D(i)' = IF i = ntc THEN Count - 1 ELSE D(i) - 1
  BY CleanMoves
<1>5. /\ ntc' = Nxt(ntc) /\ head' = head /\ hpart' = hpart /\ wb' = wb /\ addr' = addr
      /\ xdp' = xdp
  BY DEF PutRxBuffer, hwVars, descVars, admVars
<1>6. \A i \in Slot : i # ntc /\ i # nta => pg'[i] = pg[i] /\ off'[i] = off[i]
  <2>1. CASE CanReuse(fate, reserved)
    BY <1>1, <2>1 DEF PutRxBuffer, ReuseRxPage, TypeRing
  <2>2. CASE ~CanReuse(fate, reserved)
    BY <1>1, <2>2 DEF PutRxBuffer, ReleaseRxPage, TypeRing
  <2> QED BY <2>1, <2>2
<1>7. Dist(ntc', head') = D(head) - 1 /\ Dist(ntc', UseEnd') = D(ntu) - 1
  BY <1>1, <1>3, <1>4, <1>5 DEF D
<1>8. \A i \in Slot : /\ Dist(ntc', i) < Dist(ntc', head') <=> i # ntc /\ D(i) < D(head)
                      /\ Dist(ntc', head') <= Dist(ntc', i) <=> i = ntc \/ D(head) <= D(i)
                      /\ Dist(ntc', i) < Dist(ntc', UseEnd') <=> i # ntc /\ D(i) < D(ntu)
                      /\ Dist(ntc', i) <= Dist(ntc', UseEnd') <=> i # ntc /\ D(i) <= D(ntu)
  <2>1. \A i \in Slot : Dist(ntc', i) = IF i = ntc THEN Count - 1 ELSE D(i) - 1
    BY <1>4 DEF D
  <2> SUFFICES ASSUME NEW i \in Slot
               PROVE  /\ Dist(ntc', i) < D(head) - 1 <=> i # ntc /\ D(i) < D(head)
                      /\ D(head) - 1 <= Dist(ntc', i) <=> i = ntc \/ D(head) <= D(i)
                      /\ Dist(ntc', i) < D(ntu) - 1 <=> i # ntc /\ D(i) < D(ntu)
                      /\ Dist(ntc', i) <= D(ntu) - 1 <=> i # ntc /\ D(i) <= D(ntu)
    BY <1>7
  <2>2. D(i) \in 0 .. Count - 1 /\ D(head) \in 0 .. Count - 1 /\ D(ntu) \in 0 .. Count - 1
    BY <1>1, <1>2
  <2>3. CASE i = ntc
    <3>1. Dist(ntc', i) = Count - 1
      BY <2>1, <2>3
    <3> QED BY <1>1, <2>2, <2>3, <3>1
  <2>4. CASE i # ntc
    <3>1. Dist(ntc', i) = D(i) - 1
      BY <2>1, <2>4
    <3> QED BY <1>1, <2>2, <2>4, <3>1
  <2> QED BY <2>3, <2>4
<1>9. Filled'
  <2> SUFFICES ASSUME NEW i \in Slot, Dist(ntc', head') <= Dist(ntc', i),
                      Dist(ntc', i) < Dist(ntc', UseEnd')
               PROVE  addr'[i] = <<pg'[i], off'[i]>>
    BY DEF Filled, D
  <2>1. i # ntc /\ D(head) <= D(i) /\ D(i) < D(ntu)
    BY <1>8
  <2>2. i # nta
    BY <1>1, <1>2, <1>3, <2>1
  <2>3. addr[i] = <<pg[i], off[i]>>
    BY <1>3, <2>1 DEF Data, Filled
  <2> QED BY <1>5, <1>6, <2>1, <2>2, <2>3
<1>10. NoStaleLength'
  BY <1>3, <1>4, <1>5, <1>8 DEF Data, NoStaleLength, D
<1>11. FramesContiguous'
  <2>1. \A i \in Slot : D(i) < D(head) =>
          IF Nxt(i) = head THEN hpart = (IF wb[i].eop THEN 0 ELSE wb[i].part)
          ELSE wb[Nxt(i)].part = (IF wb[i].eop THEN 0 ELSE wb[i].part) + 1
    BY <1>3 DEF Data, FramesContiguous, Between, D
  <2>2. D(ntc) < D(head)
    BY <1>1, <1>2, <1>3
  <2>3. IF ntc' = head THEN hpart = cskb'.parts ELSE wb[ntc'].part = cskb'.parts + 1
    BY <1>1, <1>5, <2>1, <2>2
  <2>4. \A i : i \in Between(ntc', head') => i \in Slot /\ D(i) < D(head)
    BY <1>8 DEF Between
  <2> QED BY <1>4, <1>5, <2>1, <2>3, <2>4 DEF FramesContiguous
<1>12. Whole'
  <2>1. \A i \in Slot : Dist(ntc', i) < Dist(ntc', head') => D(i) < D(head)
    BY <1>8
  <2> QED BY <1>3, <1>4, <1>5, <2>1 DEF Data, Whole, D
<1> QED BY <1>9, <1>10, <1>11, <1>12

\* All of it, for the four things that can become of a frame.
LEMMA CleanStep ==
  ASSUME RxIInv, NEW fate \in Fates, NEW reserved \in BOOLEAN,
         Ready, PutRxBuffer(fate, reserved),
         cpk' \in 0 .. Budget, cskb' \in Skb, held' \in [Pages \X Half -> Nat],
         refs' = [q \in Pages |-> refs'[q]],
         cskb'.parts = IF wb[ntc].eop THEN 0 ELSE wb[ntc].part,
         cskb'.parts = 0 => cskb'.frags = {},
         Balanced(fate, reserved), OnlyGiven(fate)
  PROVE  TypeRing' /\ Cursors' /\ Data'
<1>1. /\ Owned' /\ Counted' /\ Halves'
      /\ pg' \in [Slot -> Pages \cup {None}] /\ off' \in [Slot -> Half]
      /\ bias' \in [Slot -> Nat] /\ mapped' \subseteq Pages
      /\ \A q \in Pages : refs'[q] \in Nat
  BY PutStep
<1>2. Filled' /\ FramesContiguous' /\ NoStaleLength' /\ Whole'
  BY CleanFrame
<1>3. ntc' \in Slot /\ nta' \in Slot /\ ccnt' \in 0 .. Count - 1 /\ Cursors'
  BY CleanMoves
<1>4. refs' \in [Pages -> Nat]
  BY <1>1
<1>5. TypeRing'
  BY <1>1, <1>3, <1>4
  DEF RxIInv, TypeRing, PutRxBuffer, descVars, hwVars, allocVars
<1> QED BY <1>1, <1>2, <1>3, <1>5 DEF Data

\* The frame with the buffer attached.
LEMMA SkbGrows ==
  ASSUME RxIInv, Ready, NEW fate \in Fates
  PROVE  /\ SkbWith(fate) \in Skb /\ SkbWith(fate).parts = wb[ntc].part
         /\ wb[ntc].part \in 1 .. MaxBufs
         /\ \A b : b \in SkbWith(fate).frags <=>
                     b \in cskb.frags \/ (fate = "frag" /\ b = <<pg[ntc], off[ntc]>>)
         /\ \A q \in Pages :
              /\ FragRefs(cskb, q) \in Nat /\ FragRefs(SkbWith(fate), q) \in Nat
              /\ FragRefs(SkbWith(fate), q) =
                   FragRefs(cskb, q) + (IF q = pg[ntc] /\ fate = "frag" THEN 1 ELSE 0)
<1>1. /\ pg[ntc] \in Pages /\ off[ntc] \in Half /\ <<pg[ntc], off[ntc]>> \in Pages \X Half
      /\ wb[ntc] \in WriteBack /\ wb[ntc].part = cskb.parts + 1
      /\ <<pg[ntc], off[ntc]>> \notin cskb.frags
  BY CleanFinds
<1>2. cskb \in Skb
  BY DEF RxIInv, TypeRing
<1>3. wb[ntc].part \in 1 .. MaxBufs
  BY <1>1 DEF WriteBack
<1>4. SkbWith(fate).parts = wb[ntc].part
  BY <1>1 DEF SkbWith
<1>5. SkbWith(fate).frags =
        IF fate = "frag" THEN cskb.frags \cup {<<pg[ntc], off[ntc]>>} ELSE cskb.frags
  BY DEF SkbWith
<1>6. SkbWith(fate) \in Skb
  BY <1>1, <1>2, <1>3, BoundAssumption DEF SkbWith, Skb
<1>7. ASSUME NEW q \in Pages
      PROVE  /\ FragRefs(cskb, q) \in Nat /\ FragRefs(SkbWith(fate), q) \in Nat
             /\ FragRefs(SkbWith(fate), q) =
                  FragRefs(cskb, q) + (IF q = pg[ntc] /\ fate = "frag" THEN 1 ELSE 0)
  <2>1. CASE fate # "frag"
    BY <1>5, <2>1 DEF FragRefs
  <2>2. CASE fate = "frag" /\ q # pg[ntc]
    BY <1>5, <2>2 DEF FragRefs
  <2>3. CASE fate = "frag" /\ q = pg[ntc] /\ off[ntc] = 0
    BY <1>1, <1>5, <2>3 DEF FragRefs
  <2>4. CASE fate = "frag" /\ q = pg[ntc] /\ off[ntc] = 1
    BY <1>1, <1>5, <2>4 DEF FragRefs
  <2> QED BY <1>1, <2>1, <2>2, <2>3, <2>4 DEF Half
<1> QED BY <1>3, <1>4, <1>5, <1>6, <1>7

\* What ixgbevf_put_rx_buffer leaves of the page counts are numbers still.
LEMMA RefsPutInt ==
  ASSUME RxIInv, Ready, NEW fate \in Fates, NEW reserved \in BOOLEAN
  PROVE  RefsPut(fate, reserved) \in [Pages -> Int]
<1>1. pg[ntc] \in Pages /\ bias[ntc] \in Nat /\ refs \in [Pages -> Nat] /\ BiasMax \in Nat
  BY CleanFinds, BoundAssumption DEF RxIInv, TypeRing
<1>2. BiasLeft(fate) \in Int
  BY <1>1 DEF BiasLeft
<1> QED BY <1>1, <1>2 DEF RefsPut

\* The frame goes on in the next buffer.
LEMMA CleanFragmentStep ==
  ASSUME RxIInv, NEW fate \in Fates, NEW reserved \in BOOLEAN, CleanFragment(fate, reserved)
  PROVE  TypeRing' /\ Cursors' /\ Data'
<1>1. /\ Ready /\ ~wb[ntc].eop /\ PutRxBuffer(fate, reserved) /\ fate \in FatesNow
      /\ cskb' = SkbWith(fate) /\ refs' = RefsPut(fate, reserved) /\ held' = held /\ cpk' = cpk
  BY DEF CleanFragment, PutRxBuffer
<1>2. fate = "frag"
  <2>1. ~xdp
    <3>1. ntc \in Slot /\ D(head) \in 0 .. Count - 1
      BY DistBasics DEF RxIInv, TypeRing, D
    <3>2. apc # "down" /\ D(ntc) < D(head)
      BY <1>1, <3>1, CleanFinds, CountAssumption
    <3> QED BY <1>1, <3>1, <3>2 DEF RxIInv, Data, Whole
  <2> QED BY <1>1, <2>1, FateAssumption DEF FatesNow
<1>3. GivenAway(fate) /\ Gone(fate) = 1
  BY <1>2 DEF GivenAway, Gone
<1>4. CurSkb = cskb /\ CurSkb' = cskb'
  BY <1>1, CleanFinds, CleanMoves
<1>5. RefsPut(fate, reserved) \in [Pages -> Int]
  BY <1>1, RefsPutInt
<1>6. ASSUME NEW q \in Pages
      PROVE  /\ Users(q)' \in Nat
             /\ refs'[q] - Users(q)' =
                  RefsPut(fate, reserved)[q] - Users(q) - (IF q = pg[ntc] THEN Gone(fate) ELSE 0)
             /\ refs'[q] \in Int
  <2>1. Users(q)' = held[<<q, 0>>] + held[<<q, 1>>] + FragRefs(SkbWith(fate), q)
    BY <1>1, <1>4 DEF Users, FragRefs
  <2>2. Users(q) = held[<<q, 0>>] + held[<<q, 1>>] + FragRefs(cskb, q)
    BY <1>4 DEF Users
  <2>3. held[<<q, 0>>] \in Nat /\ held[<<q, 1>>] \in Nat /\ Users(q) \in Nat
    BY UsersNat DEF RxIInv
  <2>4. Users(q)' = Users(q) + (IF q = pg[ntc] THEN 1 ELSE 0)
    BY <1>1, <1>2, <2>1, <2>2, <2>3, SkbGrows
  <2>5. refs'[q] = RefsPut(fate, reserved)[q] /\ RefsPut(fate, reserved)[q] \in Int
    BY <1>1, <1>5
  <2> QED BY <1>3, <2>3, <2>4, <2>5
<1>7. /\ cskb' \in Skb /\ cskb'.parts = wb[ntc].part /\ cskb'.parts # 0
      /\ \A b : b \in cskb'.frags <=> b \in cskb.frags \/ b = <<pg[ntc], off[ntc]>>
  BY <1>1, <1>2, SkbGrows
<1>8. cpk' \in 0 .. Budget /\ held' \in [Pages \X Half -> Nat]
  BY <1>1 DEF RxIInv, TypeRing
<1>9. refs' = [q \in Pages |-> refs'[q]]
  BY <1>1, <1>5
<1>10. Balanced(fate, reserved)
  BY <1>6 DEF Balanced
<1>11. OnlyGiven(fate)
  BY <1>1, <1>3, <1>7 DEF OnlyGiven
<1> QED BY <1>1, <1>7, <1>8, <1>9, <1>10, <1>11, CleanStep

\* XDP has taken the frame.
LEMMA CleanXdpStep ==
  ASSUME RxIInv, NEW fate \in Fates, NEW reserved \in BOOLEAN, CleanXdp(fate, reserved)
  PROVE  TypeRing' /\ Cursors' /\ Data'
<1>1. /\ Ready /\ wb[ntc].eop /\ PutRxBuffer(fate, reserved) /\ fate \in FatesNow
      /\ fate \in {"tx", "drop"}
      /\ cskb' = NoSkb /\ refs' = RefsPut(fate, reserved) /\ cpk' = cpk + 1
      /\ held' = IF fate = "tx" THEN [held EXCEPT ![<<pg[ntc], off[ntc]>>] = @ + 1] ELSE held
  BY DEF CleanXdp, PutRxBuffer
<1>2. CurSkb = cskb /\ CurSkb' = cskb'
  BY <1>1, CleanFinds, CleanMoves
<1>3. cskb.frags = {}
  BY <1>1, <1>2 DEF FatesNow, RxIInv, Data, Whole
<1>4. /\ GivenAway(fate) <=> fate = "tx"
      /\ Gone(fate) = IF fate = "tx" THEN 1 ELSE 0
  BY <1>1 DEF GivenAway, Gone
<1>5. RefsPut(fate, reserved) \in [Pages -> Int]
  BY <1>1, RefsPutInt
<1>6. /\ pg[ntc] \in Pages /\ off[ntc] \in Half /\ <<pg[ntc], off[ntc]>> \in Pages \X Half
      /\ held \in [Pages \X Half -> Nat]
  BY <1>1, CleanFinds DEF RxIInv, TypeRing
<1>7. ASSUME NEW q \in Pages
      PROVE  /\ Users(q)' \in Nat
             /\ refs'[q] - Users(q)' =
                  RefsPut(fate, reserved)[q] - Users(q) - (IF q = pg[ntc] THEN Gone(fate) ELSE 0)
             /\ refs'[q] \in Int
  <2>1. Users(q)' = held'[<<q, 0>>] + held'[<<q, 1>>] + 0
    BY <1>1, <1>2 DEF Users, FragRefs, NoSkb
  <2>2. Users(q) = held[<<q, 0>>] + held[<<q, 1>>] + 0
    BY <1>2, <1>3 DEF Users, FragRefs
  <2>3. held[<<q, 0>>] \in Nat /\ held[<<q, 1>>] \in Nat /\ Users(q) \in Nat
    BY UsersNat DEF RxIInv
  <2>4. Users(q)' = Users(q) + (IF q = pg[ntc] THEN Gone(fate) ELSE 0)
    <3>1. CASE fate # "tx"
      BY <1>1, <1>4, <2>1, <2>2, <2>3, <3>1
    <3>2. CASE fate = "tx" /\ q # pg[ntc]
      <4>1. held'[<<q, 0>>] = held[<<q, 0>>] /\ held'[<<q, 1>>] = held[<<q, 1>>]
        BY <1>1, <1>6, <3>2 DEF Half
      <4> QED BY <2>1, <2>2, <2>3, <3>2, <4>1
    <3>3. CASE fate = "tx" /\ q = pg[ntc] /\ off[ntc] = 0
      <4>1. held'[<<q, 0>>] = held[<<q, 0>>] + 1 /\ held'[<<q, 1>>] = held[<<q, 1>>]
        BY <1>1, <1>6, <3>3 DEF Half
      <4> QED BY <1>4, <2>1, <2>2, <2>3, <3>3, <4>1
    <3>4. CASE fate = "tx" /\ q = pg[ntc] /\ off[ntc] = 1
      <4>1. held'[<<q, 0>>] = held[<<q, 0>>] /\ held'[<<q, 1>>] = held[<<q, 1>>] + 1
        BY <1>1, <1>6, <3>4 DEF Half
      <4> QED BY <1>4, <2>1, <2>2, <2>3, <3>4, <4>1
    <3> QED BY <1>6, <3>1, <3>2, <3>3, <3>4 DEF Half
  <2>5. refs'[q] = RefsPut(fate, reserved)[q] /\ RefsPut(fate, reserved)[q] \in Int
    BY <1>1, <1>5
  <2>6. Gone(fate) \in {0, 1}
    BY <1>4
  <2> QED BY <2>3, <2>4, <2>5, <2>6
<1>8. cskb' \in Skb /\ cskb'.parts = 0 /\ cskb'.frags = {}
  BY <1>1, BoundAssumption DEF NoSkb, Skb
<1>9. cpk' \in 0 .. Budget
  BY <1>1, BoundAssumption DEF Ready, RxIInv, TypeRing
<1>10. /\ held' \in [Pages \X Half -> Nat]
       /\ \A b \in Pages \X Half : held'[b] # 0 =>
            held[b] # 0 \/ (GivenAway(fate) /\ b = <<pg[ntc], off[ntc]>>)
  BY <1>1, <1>4, <1>6
<1>11. refs' = [q \in Pages |-> refs'[q]]
  BY <1>1, <1>5
<1>12. Balanced(fate, reserved)
  BY <1>7 DEF Balanced
<1>13. OnlyGiven(fate)
  BY <1>8, <1>10 DEF OnlyGiven
<1> QED BY <1>1, <1>8, <1>9, <1>10, <1>11, <1>12, <1>13, CleanStep

\* The frame is bad and freed.
LEMMA CleanBadStep ==
  ASSUME RxIInv, NEW fate \in Fates, NEW reserved \in BOOLEAN, CleanBad(fate, reserved)
  PROVE  TypeRing' /\ Cursors' /\ Data'
<1>1. /\ Ready /\ wb[ntc].eop /\ PutRxBuffer(fate, reserved)
      /\ fate \in {"frag", "copy"}
      /\ cskb' = NoSkb /\ held' = held /\ cpk' = cpk
      /\ refs' = [q \in Pages |-> RefsPut(fate, reserved)[q] - FragRefs(SkbWith(fate), q)]
  BY DEF CleanBad, RefsFreed
<1>2. CurSkb = cskb /\ CurSkb' = cskb'
  BY <1>1, CleanFinds, CleanMoves
<1>3. Gone(fate) = IF fate = "frag" THEN 1 ELSE 0
  BY <1>1 DEF GivenAway, Gone
<1>4. RefsPut(fate, reserved) \in [Pages -> Int]
  BY <1>1, RefsPutInt
<1>5. ASSUME NEW q \in Pages
      PROVE  /\ Users(q)' \in Nat
             /\ refs'[q] - Users(q)' =
                  RefsPut(fate, reserved)[q] - Users(q) - (IF q = pg[ntc] THEN Gone(fate) ELSE 0)
             /\ refs'[q] \in Int
  <2>1. Users(q)' = held[<<q, 0>>] + held[<<q, 1>>] + 0
    BY <1>1, <1>2 DEF Users, FragRefs, NoSkb
  <2>2. Users(q) = held[<<q, 0>>] + held[<<q, 1>>] + FragRefs(cskb, q)
    BY <1>2 DEF Users
  <2>3. held[<<q, 0>>] \in Nat /\ held[<<q, 1>>] \in Nat /\ Users(q) \in Nat
    BY UsersNat DEF RxIInv
  <2>4. refs'[q] = RefsPut(fate, reserved)[q] - FragRefs(SkbWith(fate), q)
    BY <1>1
  <2>5. RefsPut(fate, reserved)[q] \in Int
    BY <1>4
  <2>6. /\ FragRefs(cskb, q) \in Nat /\ FragRefs(SkbWith(fate), q) \in Nat
        /\ FragRefs(SkbWith(fate), q) =
             FragRefs(cskb, q) + (IF q = pg[ntc] THEN Gone(fate) ELSE 0)
    BY <1>1, <1>3, SkbGrows
  <2>7. Gone(fate) \in {0, 1}
    BY <1>3
  <2> QED BY <2>1, <2>2, <2>3, <2>4, <2>5, <2>6, <2>7
<1>6. cskb' \in Skb /\ cskb'.parts = 0 /\ cskb'.frags = {}
  BY <1>1, BoundAssumption DEF NoSkb, Skb
<1>7. cpk' \in 0 .. Budget /\ held' \in [Pages \X Half -> Nat]
  BY <1>1 DEF RxIInv, TypeRing
<1>8. refs' = [q \in Pages |-> refs'[q]]
  BY <1>1
<1>9. Balanced(fate, reserved)
  BY <1>5 DEF Balanced
<1>10. OnlyGiven(fate)
  BY <1>1, <1>6 DEF OnlyGiven
<1> QED BY <1>1, <1>6, <1>7, <1>8, <1>9, <1>10, CleanStep

\* The stack gets the frame.
LEMMA CleanDeliverStep ==
  ASSUME RxIInv, NEW fate \in Fates, NEW reserved \in BOOLEAN, CleanDeliver(fate, reserved)
  PROVE  TypeRing' /\ Cursors' /\ Data'
<1>1. /\ Ready /\ wb[ntc].eop /\ PutRxBuffer(fate, reserved)
      /\ fate \in {"frag", "copy"}
      /\ held' = [b \in Pages \X Half |->
                    IF b \in SkbWith(fate).frags THEN held[b] + 1 ELSE held[b]]
      /\ cskb' = NoSkb /\ refs' = RefsPut(fate, reserved) /\ cpk' = cpk + 1
  BY DEF CleanDeliver
<1>2. CurSkb = cskb /\ CurSkb' = cskb'
  BY <1>1, CleanFinds, CleanMoves
<1>3. /\ Gone(fate) = IF fate = "frag" THEN 1 ELSE 0
      /\ GivenAway(fate) <=> fate = "frag"
  BY <1>1 DEF GivenAway, Gone
<1>4. RefsPut(fate, reserved) \in [Pages -> Int]
  BY <1>1, RefsPutInt
<1>5. ASSUME NEW q \in Pages
      PROVE  /\ Users(q)' \in Nat
             /\ refs'[q] - Users(q)' =
                  RefsPut(fate, reserved)[q] - Users(q) - (IF q = pg[ntc] THEN Gone(fate) ELSE 0)
             /\ refs'[q] \in Int
  <2>1. Users(q)' = held'[<<q, 0>>] + held'[<<q, 1>>] + 0
    BY <1>1, <1>2 DEF Users, FragRefs, NoSkb
  <2>2. Users(q) = held[<<q, 0>>] + held[<<q, 1>>] + FragRefs(cskb, q)
    BY <1>2 DEF Users
  <2>3. held[<<q, 0>>] \in Nat /\ held[<<q, 1>>] \in Nat /\ Users(q) \in Nat
    BY UsersNat DEF RxIInv
  <2>4. /\ held'[<<q, 0>>] = held[<<q, 0>>] + (IF <<q, 0>> \in SkbWith(fate).frags THEN 1 ELSE 0)
        /\ held'[<<q, 1>>] = held[<<q, 1>>] + (IF <<q, 1>> \in SkbWith(fate).frags THEN 1 ELSE 0)
    BY <1>1, <2>3 DEF Half
  <2>5. FragRefs(SkbWith(fate), q) = (IF <<q, 0>> \in SkbWith(fate).frags THEN 1 ELSE 0)
                                     + (IF <<q, 1>> \in SkbWith(fate).frags THEN 1 ELSE 0)
    BY DEF FragRefs
  <2>6. Users(q)' = held[<<q, 0>>] + held[<<q, 1>>] + FragRefs(SkbWith(fate), q)
    BY <2>1, <2>3, <2>4, <2>5
  <2>7. /\ FragRefs(cskb, q) \in Nat /\ FragRefs(SkbWith(fate), q) \in Nat
        /\ FragRefs(SkbWith(fate), q) =
             FragRefs(cskb, q) + (IF q = pg[ntc] THEN Gone(fate) ELSE 0)
    BY <1>1, <1>3, SkbGrows
  <2>8. refs'[q] = RefsPut(fate, reserved)[q] /\ RefsPut(fate, reserved)[q] \in Int
    BY <1>1, <1>4
  <2>9. Gone(fate) \in {0, 1}
    BY <1>3
  <2> QED BY <2>2, <2>3, <2>6, <2>7, <2>8, <2>9
<1>6. cskb' \in Skb /\ cskb'.parts = 0 /\ cskb'.frags = {}
  BY <1>1, BoundAssumption DEF NoSkb, Skb
<1>7. cpk' \in 0 .. Budget
  BY <1>1, BoundAssumption DEF Ready, RxIInv, TypeRing
<1>8. held' \in [Pages \X Half -> Nat]
  BY <1>1 DEF RxIInv, TypeRing
<1>9. \A b \in Pages \X Half : held'[b] # 0 =>
        held[b] # 0 \/ b \in cskb.frags \/ (GivenAway(fate) /\ b = <<pg[ntc], off[ntc]>>)
  <2>1. \A b \in Pages \X Half : held'[b] = held[b] \/ b \in SkbWith(fate).frags
    BY <1>1
  <2> QED BY <1>1, <1>3, <2>1, SkbGrows
<1>10. refs' = [q \in Pages |-> refs'[q]]
  BY <1>1, <1>4
<1>11. Balanced(fate, reserved)
  BY <1>5 DEF Balanced
<1>12. OnlyGiven(fate)
  BY <1>6, <1>9 DEF OnlyGiven
<1> QED BY <1>1, <1>6, <1>7, <1>8, <1>10, <1>11, <1>12, CleanStep

-----------------------------------------------------------------------------
(* ixgbevf_down and ixgbevf_up, and the theorems.                          *)

\* On(i) is what Buffers says, and each page of the ring is in one slot only.
LEMMA BuffersOn ==
  ASSUME RxIInv
  PROVE  /\ Buffers = {i \in Slot : On(i)}
         /\ \A S \in SUBSET Slot, p \in Pages : (\A i \in S : On(i)) =>
              /\ \A i \in S : pg[i] = p => BiasRefs(S, p) = bias[i]
              /\ (\A i \in S : pg[i] # p) => BiasRefs(S, p) = 0
<1> USE DEF RxIInv
<1>1. Buffers = {i \in Slot : On(i)}
  <2>1. CASE apc = "down"
    BY <2>1 DEF Buffers, On
  <2>2. CASE apc # "down"
    <3>1. ntc \in Slot /\ nta \in Slot /\ UseEnd \in Slot
      BY DEF TypeRing, UseEnd
    <3>2. \A i \in Slot : Dist(ntc, i) \in 0 .. Count - 1
      BY <3>1, DistBasics
    <3>3. \A i \in Slot : On(i) <=> Dist(ntc, i) < Dist(ntc, BufEnd)
      <4>1. CASE Dist(ntc, UseEnd) > Dist(ntc, nta)
        BY <2>2, <3>1, <3>2, <4>1, CountAssumption DEF On, D, BufEnd
      <4>2. CASE ~(Dist(ntc, UseEnd) > Dist(ntc, nta))
        BY <2>2, <3>1, <3>2, <4>2, CountAssumption DEF On, D, BufEnd
      <4> QED BY <4>1, <4>2
    <3> QED BY <2>2, <3>3 DEF Buffers, Between
  <2> QED BY <2>1, <2>2
<1>2. ASSUME NEW S \in SUBSET Slot, NEW p \in Pages, \A i \in S : On(i)
      PROVE  /\ \A i \in S : pg[i] = p => BiasRefs(S, p) = bias[i]
             /\ (\A i \in S : pg[i] # p) => BiasRefs(S, p) = 0
  <2>1. ASSUME NEW i \in S, pg[i] = p PROVE BiasRefs(S, p) = bias[i]
    <3>1. \A j \in S : pg[j] = p => j = i
      BY <1>2, <2>1 DEF Data, Owned, On
    <3>2. (CHOOSE j \in S : pg[j] = p) = i
      BY <2>1, <3>1
    <3>3. \E j \in S : pg[j] = p
      BY <2>1
    <3> QED BY <3>2, <3>3 DEF BiasRefs
  <2>2. (\A i \in S : pg[i] # p) => BiasRefs(S, p) = 0
    BY DEF BiasRefs
  <2> QED BY <2>1, <2>2
<1> QED BY <1>1, <1>2

\* Everything the ring has is freed, and nothing else.
LEMMA DownResetCleanStep ==
  ASSUME RxIInv, DownResetClean
  PROVE  TypeRing' /\ Cursors' /\ Data'
<1> USE DEF RxIInv
<1>1. /\ apc = "reset" /\ apc' = "down" /\ napi = "off" /\ cpc \notin {"loop", "alloc", "done"}
      /\ ~Allocating /\ UseEnd = ntu /\ CurSkb = rskb /\ CurSkb' = NoSkb
  BY DEF DownResetClean, FreeRing, Control, TypePlaces, Quiesced, Polling, Allocating, UseEnd,
     CurSkb,
         pollVars
<1>2. /\ rskb' = NoSkb /\ ntc' = 0 /\ ntu' = 0 /\ nta' = 0 /\ hpart' = 0
      /\ refs' = [p \in Pages |-> refs[p] - FragRefs(rskb, p) - BiasRefs(RingPages, p)]
      /\ mapped' = mapped \ {pg[i] : i \in RingPages}
      /\ UNCHANGED <<bufVars, descVars, held, head, tail, pollVars, allocVars>>
  BY DEF DownResetClean, FreeRing
<1>3. \A i \in Slot : ~On(i)'
  BY <1>1 DEF On
<1>4. RingPages = {i \in Slot : On(i)}
  <2>1. D(ntu) <= D(nta) /\ ntc \in Slot /\ nta \in Slot /\ ntu \in Slot
    BY <1>1 DEF Cursors, TypeRing
  <2>2. \A i \in Slot : Dist(ntc, i) \in 0 .. Count - 1
    BY <2>1, DistBasics
  <2>3. \A i \in Slot : On(i) <=> Dist(ntc, i) < Dist(ntc, nta)
    BY <1>1, <2>1, <2>2, CountAssumption DEF On, D
  <2> QED BY <2>3 DEF RingPages, Between
<1>5. ASSUME NEW q \in Pages
      PROVE  refs'[q] = Users(q)' /\ Users(q)' \in Nat
  <2>1. Users(q)' = held[<<q, 0>>] + held[<<q, 1>>] + 0
    BY <1>1, <1>2 DEF Users, FragRefs, NoSkb
  <2>2. Users(q) = held[<<q, 0>>] + held[<<q, 1>>] + FragRefs(rskb, q)
    BY <1>1 DEF Users
  <2>3. /\ held[<<q, 0>>] \in Nat /\ held[<<q, 1>>] \in Nat /\ Users(q) \in Nat
        /\ FragRefs(rskb, q) \in Nat /\ refs[q] \in Nat
    BY <1>1, UsersNat
  <2>4. refs'[q] = refs[q] - FragRefs(rskb, q) - BiasRefs(RingPages, q)
    BY <1>2
  <2>5. refs[q] = Users(q) + BiasRefs(RingPages, q) /\ BiasRefs(RingPages, q) \in Nat
    <3>1. RingPages \in SUBSET Slot /\ \A i \in RingPages : On(i)
      BY <1>4
    <3>2. CASE \E i \in RingPages : pg[i] = q
      <4>1. PICK i \in RingPages : pg[i] = q
        BY <3>2
      <4>2. BiasRefs(RingPages, q) = bias[i]
        BY <3>1, <4>1, BuffersOn
      <4>3. refs[q] = bias[i] + Users(q) /\ bias[i] \in Nat
        BY <3>1, <4>1 DEF Data, Counted, TypeRing
      <4> QED BY <2>3, <4>2, <4>3
    <3>3. CASE \A i \in RingPages : pg[i] # q
      <4>1. BiasRefs(RingPages, q) = 0
        BY <3>1, <3>3, BuffersOn
      <4>2. refs[q] = Users(q)
        BY <1>4, <3>3 DEF Data, Counted
      <4> QED BY <2>3, <4>1, <4>2
    <3> QED BY <3>2, <3>3
  <2> QED BY <2>1, <2>2, <2>3, <2>4, <2>5
<1>6. Counted' /\ Owned' /\ Halves' /\ Filled'
  BY <1>1, <1>3, <1>5 DEF Counted, Owned, Halves, Filled
<1>7. FramesContiguous' /\ NoStaleLength' /\ Cursors' /\ Whole'
  BY <1>1 DEF FramesContiguous, NoStaleLength, Cursors, Whole, NoSkb
<1>8. TypeRing'
  <2>1. NoSkb \in Skb
    BY BoundAssumption DEF NoSkb, Skb
  <2>2. refs' \in [Pages -> Nat]
    BY <1>2, <1>5
  <2> QED
    BY <1>2, <2>1, <2>2, ZeroSlot, BoundAssumption
    DEF TypeRing, bufVars, descVars, pollVars, allocVars
<1> QED BY <1>6, <1>7, <1>8 DEF Data

\* An empty ring is handed to the hardware.
LEMMA ConfigureStep ==
  ASSUME RxIInv, ConfigureRxRing
  PROVE  TypeRing' /\ Cursors' /\ Data'
<1> USE DEF RxIInv
<1>1. /\ apc = "down" /\ apc' = "alloc" /\ napi = "off" /\ cpc \notin {"loop", "alloc", "done"}
      /\ rskb = NoSkb /\ CurSkb = NoSkb /\ CurSkb' = NoSkb /\ UseEnd' = 0 /\ Allocating'
      /\ cpc' = cpc
  BY DEF ConfigureRxRing, Control, DownInv, TypePlaces, Quiesced, Polling, Allocating, UseEnd,
     CurSkb,
         pollVars
<1>2. /\ ntc' = 0 /\ ntu' = 0 /\ nta' = 0 /\ hpart' = 0 /\ head' = 0 /\ tail' = 0
      /\ ai' = 0 /\ acnt' = Count - 1
      /\ pg' = [i \in Slot |-> None] /\ off' = [i \in Slot |-> 0] /\ bias' = [i \in Slot |-> 0]
      /\ wb' = [wb EXCEPT ![0] = None]
      /\ UNCHANGED <<addr, rskb, pageVars, pollVars>>
  BY DEF ConfigureRxRing, WbConfigured
<1>3. Dist(0, 0) = 0 /\ \A i \in Slot : Dist(0, i) \in 0 .. Count - 1 /\ (Dist(0, i) = 0 => i = 0)
  BY ZeroSlot, DistBasics
<1>4. \A i \in Slot : ~On(i)'
  BY <1>2, <1>1, <1>3 DEF On, D
<1>5. \A q \in Pages : Users(q)' = Users(q)
  BY <1>1, <1>2 DEF Users, pageVars
<1>6. Counted'
  <2>1. \A q \in Pages : refs[q] = Users(q)
    BY <1>1 DEF Data, Counted, On
  <2> QED BY <1>2, <1>4, <1>5, <2>1 DEF Counted, pageVars
<1>7. Owned' /\ Halves' /\ Filled'
  <2>1. \A i \in Slot : pg'[i] = None
    BY <1>2
  <2>2. \A i \in Slot : ~(Dist(ntc', i) < Dist(ntc', UseEnd'))
    BY <1>1, <1>2, <1>3
  <2> QED BY <1>4, <2>1, <2>2 DEF Owned, Halves, Filled, D
<1>8. FramesContiguous' /\ NoStaleLength' /\ Whole'
  <2>1. wb'[0] = None
    BY <1>2, ZeroSlot DEF TypeRing
  <2>2. \A i \in Slot : ~(Dist(ntc', i) < Dist(ntc', head')) /\ (Dist(ntc', i) <= Dist(ntc', UseEnd') => i = 0)
    BY <1>1, <1>2, <1>3
  <2>3. FramesContiguous'
    BY <1>1, <1>2, <2>2 DEF FramesContiguous, Between, NoSkb
  <2>4. NoStaleLength'
    BY <2>1, <2>2 DEF NoStaleLength
  <2>5. Whole'
    BY <1>1, <2>2 DEF Whole, D, NoSkb
  <2> QED BY <2>3, <2>4, <2>5
<1>9. Cursors'
  <2>1. cpc' # "loop"
    BY <1>1
  <2>2. /\ Dist(ntc', ntu') = 0 /\ Dist(ntc', nta') = 0 /\ Dist(ntc', head') = 0
        /\ Dist(ntc', UseEnd') = 0 /\ Dist(ntc', ai') = 0
    BY <1>1, <1>2, <1>3
  <2> QED BY <1>2, <2>1, <2>2, CountAssumption DEF Cursors, D
<1>10. TypeRing'
  BY <1>2, ZeroSlot, BoundAssumption, CountAssumption
  DEF TypeRing, pageVars, pollVars, Half
<1> QED BY <1>6, <1>7, <1>8, <1>9, <1>10 DEF Data

\* The invariant holds at first,
LEMMA InitInv == ASSUME Init PROVE RxIInv
<1> USE DEF Init
<1>1. NoSkb \in Skb
  BY BoundAssumption DEF NoSkb, Skb
<1>2. TypeRing
  BY <1>1, ZeroSlot, BoundAssumption, CountAssumption DEF TypeRing, Half
<1>3. Control
  <2>1. TypeFlags
    BY Zenon DEF TypeFlags
  <2> QED BY <2>1 DEF Control, TypePlaces, Quiesced, Polling, DownInv
<1>4. CurSkb = NoSkb
  BY DEF CurSkb, Polling
<1>5. Counted
  <2>1. \A q \in Pages : Users(q) = 0
    BY <1>4 DEF Users, FragRefs, NoSkb, Half
  <2> QED BY <2>1 DEF Counted, On
<1>6. Owned /\ Halves /\ Filled /\ FramesContiguous /\ NoStaleLength /\ Cursors
  BY DEF Owned, Halves, Filled, FramesContiguous, NoStaleLength, Cursors, On
<1>7. Whole
  BY <1>4 DEF Whole, NoSkb
<1> QED BY <1>2, <1>3, <1>5, <1>6, <1>7 DEF RxIInv, Data

\* is kept by every step,
LEMMA StepInv == ASSUME RxIInv, [Next]_vars PROVE RxIInv'
<1> SUFFICES TypeRing' /\ Cursors' /\ Data'
  BY ControlStep DEF RxIInv
<1>1. CASE Hw
  BY <1>1, HwStep DEF Hw
<1>2. CASE Stack
  BY <1>2, StackStep DEF Stack
<1>3. CASE CleanBuffer
  <2>1. PICK fate \in Fates, reserved \in BOOLEAN :
          \/ CleanFragment(fate, reserved) \/ CleanXdp(fate, reserved)
          \/ CleanBad(fate, reserved) \/ CleanDeliver(fate, reserved)
    BY <1>3 DEF CleanBuffer
  <2> QED BY <2>1, CleanFragmentStep, CleanXdpStep, CleanBadStep, CleanDeliverStep
<1>4. CASE AllocSlot
  BY <1>4, AllocSlotStep
<1>5. CASE AllocDone
  BY <1>5, AllocDoneStep
<1>6. CASE DownResetClean
  BY <1>6, DownResetCleanStep
<1>7. CASE ConfigureRxRing
  BY <1>7, ConfigureStep
<1>8. CASE \/ Irq \/ ServiceStrobe \/ PollStart \/ CleanRefill \/ CleanExit \/ PollReturn
           \/ PollTestDown \/ PollUnmask \/ DownBegin \/ DownIrqDisable \/ DownNapiDisable
           \/ UpComplete \/ UNCHANGED vars
  BY <1>8, QuietStep
<1> QED
  BY <1>1, <1>2, <1>3, <1>4, <1>5, <1>6, <1>7, <1>8 DEF Next, Poll, Alloc, Admin

\* and so holds for ever: what the ring, the refill, the poll, the stack and the
\* down/up sequence rely on about each other.
THEOREM RxInvariant == Spec => []RxIInv
<1>1. Init => RxIInv
  BY InitInv
<1>2. RxIInv /\ [Next]_vars => RxIInv'
  BY StepInv
<1> QED BY <1>1, <1>2, PTL DEF Spec

\* The cursors of poll, refill and hardware stay in order round the ring whatever its
\* size, and a refill covers what reuse has put back.
THEOREM RingOrdered == Spec => []RingInv
<1>1. ASSUME RxIInv PROVE RingInv
  <2> USE <1>1 DEF RxIInv
  <2>1. TypeOK
    BY DEF TypeOK, TypeRing, Control, TypeFlags, TypePlaces
  <2>2. /\ ntc \in Slot /\ ntu \in Slot /\ nta \in Slot /\ ai \in Slot /\ Count \in Nat
        /\ ccnt \in Nat /\ acnt \in Nat
    BY CountAssumption DEF TypeRing
  <2>3. \A i \in Slot : D(i) \in 0 .. Count - 1
    BY <2>2, DistBasics DEF D
  <2>4. Polling \/ Allocating => apc # "down"
    BY DEF Control, TypePlaces, Quiesced, Polling, Allocating
  <2>5. DescUnused = Count - 1 - D(ntu)
    BY <2>2, UnusedIsRest DEF D
  <2>6. \A i \in Slot : D(ntu) <= D(i) => Dist(ntu, i) = D(i) - D(ntu)
    BY <2>2, DistJoin DEF D
  <2>7. ASSUME cpc = "loop" PROVE Dist(ntu, nta) <= ccnt /\ ccnt <= DescUnused
    <3>1. /\ D(ntu) <= D(nta) /\ D(nta) - D(ntu) <= ccnt /\ ccnt <= Count - 1 - D(ntu)
      BY <2>4, <2>7 DEF Cursors, Polling
    <3> QED BY <2>2, <2>5, <2>6, <3>1
  <2>8. ASSUME Allocating
        PROVE  /\ Dist(ntu, nta) <= Dist(ntu, ai) + acnt
               /\ Dist(ntu, ai) + acnt <= DescUnused
               /\ D(ntu) <= D(ai)
    <3>1. /\ D(ntu) <= D(nta) /\ D(ntu) <= D(ai)
          /\ D(nta) <= D(ai) + acnt /\ D(ai) + acnt <= Count - 1
      BY <2>4, <2>8 DEF Cursors, UseEnd
    <3>2. Dist(ntu, nta) = D(nta) - D(ntu) /\ Dist(ntu, ai) = D(ai) - D(ntu)
      BY <2>2, <2>6, <3>1
    <3>3. D(nta) \in Int /\ D(ai) \in Int /\ D(ntu) \in Int
      BY <2>2, <2>3
    <3> QED BY <2>2, <2>5, <3>1, <3>2, <3>3
  <2>9. RefillCovers
    BY <2>7, <2>8 DEF RefillCovers
  <2>10. apc # "down" => CursorOrder
    BY <2>8 DEF CursorOrder, Cursors, D
  <2>11. Quiesced
    BY DEF Control
  <2> QED BY <2>1, <2>9, <2>10, <2>11 DEF RingInv
<1> QED BY <1>1, RxInvariant, PTL

\* Whatever the frames, verdicts and failures, a half page that is on the ring, or that
\* the hardware may write, is used by nobody else.
THEOREM HalvesNeverShared == Spec => []HalvesExclusive
<1>1. ASSUME RxIInv PROVE HalvesExclusive
  <2> USE <1>1 DEF RxIInv
  <2>1. RingHalfExclusive
    BY BuffersOn DEF RingHalfExclusive, Data, Halves
  <2>2. ASSUME hwOn, NEW i \in Between(head, tail)
        PROVE  /\ addr[i] # None
               /\ addr[i][1] \in mapped /\ refs[addr[i][1]] > 0
               /\ held[addr[i]] = 0 /\ addr[i] \notin CurSkb.frags
    <3>1. apc # "down"
      BY <2>2 DEF Control, DownInv
    <3>2. /\ ntc \in Slot /\ head \in Slot /\ ntu \in Slot /\ tail = ntu /\ i \in Slot
          /\ D(head) <= D(ntu) /\ D(ntu) <= D(UseEnd) /\ UseEnd \in Slot
      BY <2>2, <3>1 DEF TypeRing, Cursors, Between, UseEnd
    <3>3. Dist(head, i) < Dist(head, ntu)
      BY <2>2, <3>2 DEF Between
    <3>4. D(head) <= D(i) /\ D(i) < D(ntu)
      BY <3>2, <3>3, CountAssumption DEF D, Dist, Slot
    <3>5. /\ D(i) \in 0 .. Count - 1 /\ D(ntu) \in 0 .. Count - 1
          /\ D(UseEnd) \in 0 .. Count - 1
      BY <3>2, DistBasics DEF D
    <3>6. D(i) < D(UseEnd)
      BY <3>2, <3>4, <3>5, CountAssumption
    <3>7. addr[i] = <<pg[i], off[i]>> /\ On(i)
      BY <3>1, <3>2, <3>4, <3>6 DEF Data, Filled, On
    <3>8. pg[i] \in Pages /\ <<pg[i], off[i]>> \in Pages \X Half
      BY <3>1, <3>2, <3>7 DEF Data, Owned, TypeRing
    <3>9. /\ bias[i] > 0 /\ pg[i] \in mapped
          /\ held[<<pg[i], off[i]>>] = 0 /\ <<pg[i], off[i]>> \notin CurSkb.frags
      BY <3>2, <3>7 DEF Data, Halves
    <3>10. refs[pg[i]] > 0
      <4>1. refs[pg[i]] = bias[i] + Users(pg[i])
        BY <3>2, <3>7, <3>8 DEF Data, Counted
      <4>2. Users(pg[i]) \in Nat /\ bias[i] \in Nat
        BY <3>2, <3>8, UsersNat DEF TypeRing
      <4> QED BY <3>9, <4>1, <4>2
    <3> QED BY <3>7, <3>8, <3>9, <3>10, NoneAssumption
  <2>3. HwBufferExclusive
    BY <2>2 DEF HwBufferExclusive
  <2> QED BY <2>1, <2>3 DEF HalvesExclusive
<1> QED BY <1>1, RxInvariant, PTL

\* No page is leaked or freed early: each reference has one holder.
THEOREM NoPageLost == Spec => []PagesAccounted
<1>1. ASSUME RxIInv PROVE PagesAccounted
  <2> USE <1>1 DEF RxIInv
  <2>1. Buffers = {i \in Slot : On(i)}
    BY BuffersOn
  <2>2. BuffersOwned
    BY <2>1 DEF BuffersOwned, Data, Owned
  <2>3. ASSUME NEW p \in Pages
        PROVE  refs[p] = BiasRefs(Buffers, p) + held[<<p, 0>>] + held[<<p, 1>>] + FragRefs(CurSkb, p)
    <3>1. Users(p) = held[<<p, 0>>] + held[<<p, 1>>] + FragRefs(CurSkb, p)
      BY DEF Users
    <3>2. /\ held[<<p, 0>>] \in Nat /\ held[<<p, 1>>] \in Nat /\ FragRefs(CurSkb, p) \in Nat
      BY UsersNat
    <3>3. Buffers \in SUBSET Slot /\ \A i \in Buffers : On(i)
      BY <2>1
    <3>4. CASE \E i \in Buffers : pg[i] = p
      <4>1. PICK i \in Buffers : pg[i] = p
        BY <3>4
      <4>2. BiasRefs(Buffers, p) = bias[i]
        BY <3>3, <4>1, BuffersOn
      <4>3. refs[p] = bias[i] + Users(p) /\ bias[i] \in Nat
        BY <3>3, <4>1 DEF Data, Counted, TypeRing
      <4> QED BY <3>1, <3>2, <4>2, <4>3
    <3>5. CASE \A i \in Buffers : pg[i] # p
      <4>1. BiasRefs(Buffers, p) = 0
        BY <3>3, <3>5, BuffersOn
      <4>2. refs[p] = Users(p)
        BY <2>1, <3>5 DEF Data, Counted
      <4> QED BY <3>1, <3>2, <4>1, <4>2
    <3> QED BY <3>4, <3>5
  <2>4. RefsAccounted
    BY <2>3 DEF RefsAccounted
  <2> QED BY <2>2, <2>4 DEF PagesAccounted
<1> QED BY <1>1, RxInvariant, PTL

\* Frames are handed over whole, part after part, whenever polls end and refills stop.
THEOREM FramesAreWhole == Spec => []FramesWhole
<1>1. RxIInv => FramesWhole
  BY DEF RxIInv, Data, FramesWhole
<1> QED BY <1>1, RxInvariant, PTL
=============================================================================
