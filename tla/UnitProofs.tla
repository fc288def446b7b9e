----------------------------- MODULE UnitProofs -----------------------------
(* Proofs about seven small units, each on its own: the ownership word of  *)
(* a vector and the budget of its poll (QVector), its interrupt throttling *)
(* (Itr), the counters (Stats), the ring of an XDP program (XdpRing), what *)
(* is said of a packet (Offload) and found in its headers (Headers), and   *)
(* the register test, dump and link report of ethtool (SelfTest).          *)
EXTENDS QVector, Itr, Stats, XdpRing, Packets, SelfTest,
        FiniteSetTheorems, SequenceTheorems, TLAPS

-----------------------------------------------------------------------------
(* QVector, for every number of sockets and rings and every budget.        *)

\* Each bit of the ownership word is held by the context that set it.
LockInv ==
  /\ NapiHas <=> "napi" \in qvState
  /\ (Polling # {}) <=> "poll" \in qvState
  /\ \A s, t \in Polling : s = t
  /\ ~("napi" \in qvState /\ "poll" \in qvState)
  /\ NapiHas => "napi_yield" \notin qvState

\* How far down the adapter is says what NAPI may do and who may own the vector.
AdminInv ==
  /\ adm = "up" => napiOn = "on"
  /\ adm = "napi" => napiOn = "closing"
  /\ adm \in {"qv", "down", "enable"} => napiOn = "off" /\ npc = "idle"
  /\ adm \in {"down", "enable"} => "disabled" \in qvState /\ qvState \cap Owned = {}

\* The places of the polls: which ring, with how much budget, after how much work.
PlaceInv ==
  /\ npc = "ring" => nring \in Ring
  /\ npc \in {"lock", "ring", "unlock"} => weight \in Weights
  /\ npc = "lock" => work = 0
  /\ \A s \in Sockets : spc[s] = "ring" => sring[s] \in Ring
  /\ \A r \in Ring : waiting[r] <= arrived

\* No ring that was cleaned in time used up its share.
ShareInv ==
  /\ npc = "ring" /\ complete => work <= (nring - 1) * (PerRingBudget - 1)
  /\ npc = "unlock" /\ complete => work <= RxRings * (PerRingBudget - 1)

VectorIInv == QVectorTypeOK /\ NoWarning /\ LockInv /\ AdminInv /\ PlaceInv /\ ShareInv

-----------------------------------------------------------------------------
LEMMA ShareType ==
  ASSUME weight \in Weights
  PROVE  /\ PerRingBudget \in Nat /\ PerRingBudget > 0
         /\ RxRings * (PerRingBudget - 1) < weight
<1>1. weight \in Nat /\ weight > 0 /\ RxRings \in Nat /\ RxRings > 0
  BY QVectorAssumption
<1>2. weight \div RxRings \in Nat /\ RxRings * (weight \div RxRings) <= weight
  BY <1>1
<1>3. CASE RxRings = 1
  BY <1>1, <1>3 DEF PerRingBudget
<1>4. CASE RxRings > 1 /\ weight \div RxRings > 1
  <2>1. PerRingBudget = weight \div RxRings
    BY <1>4 DEF PerRingBudget
  <2>2. RxRings * (PerRingBudget - 1) = RxRings * PerRingBudget - RxRings
    BY <1>1, <1>2, <2>1
  <2> QED BY <1>1, <1>2, <1>4, <2>1, <2>2
<1>5. CASE RxRings > 1 /\ ~(weight \div RxRings > 1)
  BY <1>1, <1>2, <1>5 DEF PerRingBudget
<1> QED BY <1>1, <1>3, <1>4, <1>5

\* What is taken from a ring is there, and within the budget.
LEMMA CleanedType ==
  ASSUME QVectorTypeOK, NEW r \in Ring, NEW b \in Nat
  PROVE  /\ CleanedRing(r, b) \in Nat /\ CleanedRing(r, b) <= b
         /\ waiting[r] - CleanedRing(r, b) \in 0 .. MaxFrames
         /\ waiting[r] - CleanedRing(r, b) <= waiting[r]
BY QVectorAssumption DEF QVectorTypeOK, CleanedRing, Lesser

\* Every step keeps the flags Boolean.
LEMMA FlagStep ==
  ASSUME {qvDown, complete, warned} \subseteq BOOLEAN, [QVectorNext]_qvVars
  PROVE  {qvDown, complete, warned}' \subseteq BOOLEAN
<1> DEFINE Flags == qvDown \in BOOLEAN /\ complete \in BOOLEAN /\ warned \in BOOLEAN
<1> SUFFICES ASSUME Flags PROVE Flags'
  BY Zenon
<1> USE DEF rxFrames, napiVars, sockVars
<1>1. ASSUME NEW r \in Ring, Arrive(r) PROVE Flags'
  BY Zenon, <1>1 DEF Arrive
<1>2. ASSUME NEW b \in Weights, NEW txDone \in BOOLEAN, Poll(b, txDone) PROVE Flags'
  BY Zenon, <1>2 DEF Poll
<1>3. ASSUME NEW s \in Sockets, BusyPoll(s) PROVE Flags'
  BY Zenon, <1>3 DEF BusyPoll
<1>4. ASSUME NEW s \in Sockets, LockPoll(s) PROVE Flags'
  BY Zenon, <1>4 DEF LockPoll
<1>5. ASSUME NEW s \in Sockets, BusyPollRing(s) PROVE Flags'
  BY Zenon, <1>5 DEF BusyPollRing
<1>6. ASSUME NEW s \in Sockets, UnlockPoll(s) PROVE Flags'
  BY Zenon, <1>6 DEF UnlockPoll
<1>7. CASE Strobe
  BY Zenon, <1>7 DEF Strobe
<1>8. CASE MsixCleanRings
  BY Zenon, <1>8 DEF MsixCleanRings
<1>9. CASE LockNapi
  BY Zenon, <1>9 DEF LockNapi
<1>10. CASE PollRing
  BY Zenon, <1>10 DEF PollRing
<1>11. CASE UnlockNapi
  BY Zenon, <1>11 DEF UnlockNapi
<1>12. CASE GoDown
  BY Zenon, <1>12 DEF GoDown
<1>13. CASE NapiDisable
  BY Zenon, <1>13 DEF NapiDisable
<1>14. CASE QvDisable
  BY Zenon, <1>14 DEF QvDisable
<1>15. CASE GoUp
  BY Zenon, <1>15 DEF GoUp
<1>16. CASE NapiEnable
  BY Zenon, <1>16 DEF NapiEnable
<1>17. CASE UNCHANGED qvVars
  BY Zenon, <1>17 DEF qvVars
<1> QED
  BY <1>1, <1>2, <1>3, <1>4, <1>5, <1>6, <1>7, <1>8, <1>9, <1>10, <1>11, <1>12, <1>13, <1>14,
     <1>15, <1>16, <1>17
  DEF QVectorNext, NapiStep, SocketStep, AdminStep

\* Places and counters stay in range: a poll takes what is in a ring, and no more
\* frames wait in a ring than have arrived.
LEMMA PlaceStep ==
  ASSUME QVectorTypeOK, PlaceInv, [QVectorNext]_qvVars
  PROVE  PlaceInv'
<1> USE QVectorAssumption DEF QVectorTypeOK, PlaceInv, Ring, rxFrames, napiVars, sockVars
<1>1. ASSUME NEW r \in Ring, Arrive(r) PROVE PlaceInv'
  BY <1>1 DEF Arrive
<1>2. ASSUME NEW b \in Weights, NEW txDone \in BOOLEAN, Poll(b, txDone) PROVE PlaceInv'
  BY <1>2 DEF Poll
<1>3. ASSUME NEW s \in Sockets, BusyPoll(s) PROVE PlaceInv'
  BY <1>3 DEF BusyPoll
<1>4. ASSUME NEW s \in Sockets, LockPoll(s) PROVE PlaceInv'
  BY <1>4 DEF LockPoll
<1>5. ASSUME NEW s \in Sockets, BusyPollRing(s) PROVE PlaceInv'
  <2>1. sring[s] \in Ring /\ BusyMax \in Nat
    BY <1>5 DEF BusyPollRing
  <2>3. /\ waiting[sring[s]] - CleanedRing(sring[s], BusyMax) \in 0 .. MaxFrames
        /\ waiting[sring[s]] - CleanedRing(sring[s], BusyMax) <= waiting[sring[s]]
    BY <2>1, CleanedType
  <2>4. \A r \in Ring : waiting'[r] <= arrived
    <3>1. waiting' = [waiting EXCEPT ![sring[s]] = waiting[sring[s]] - CleanedRing(sring[s], BusyMax)]
      BY <1>5 DEF BusyPollRing
    <3> QED BY <2>1, <2>3, <3>1
  <2>5. \A t \in Sockets : spc'[t] = "ring" => sring'[t] \in Ring
    <3>1. \/ sring' = [sring EXCEPT ![s] = 0] /\ spc' = [spc EXCEPT ![s] = "unlock"]
          \/ sring[s] # RxRings /\ sring' = [sring EXCEPT ![s] = sring[s] + 1] /\ spc' = spc
      BY <1>5 DEF BusyPollRing
    <3> QED BY <2>1, <3>1
  <2> QED BY <1>5, <2>4, <2>5 DEF BusyPollRing
<1>6. ASSUME NEW s \in Sockets, UnlockPoll(s) PROVE PlaceInv'
  BY <1>6 DEF UnlockPoll
<1>7. CASE Strobe
  BY <1>7 DEF Strobe
<1>8. CASE MsixCleanRings
  BY <1>8 DEF MsixCleanRings
<1>9. CASE LockNapi
  BY <1>9 DEF LockNapi
<1>10. CASE PollRing
  <2>1. nring \in Ring /\ weight \in Weights
    BY <1>10 DEF PollRing
  <2>2. PerRingBudget \in Nat
    BY <2>1, ShareType
  <2>3. /\ waiting[nring] - CleanedRing(nring, PerRingBudget) \in 0 .. MaxFrames
        /\ waiting[nring] - CleanedRing(nring, PerRingBudget) <= waiting[nring]
    BY <2>1, <2>2, CleanedType
  <2>4. \A r \in Ring : waiting'[r] <= arrived
    <3>1. waiting' = [waiting EXCEPT ![nring] = waiting[nring] - CleanedRing(nring, PerRingBudget)]
      BY <1>10 DEF PollRing
    <3> QED BY <2>1, <2>3, <3>1
  <2> QED BY <1>10, <2>1, <2>4 DEF PollRing
<1>11. CASE UnlockNapi
  BY <1>11 DEF UnlockNapi
<1>12. CASE GoDown
  BY <1>12 DEF GoDown
<1>13. CASE NapiDisable
  BY <1>13 DEF NapiDisable
<1>14. CASE QvDisable
  BY <1>14 DEF QvDisable
<1>15. CASE GoUp
  BY <1>15 DEF GoUp
<1>16. CASE NapiEnable
  BY <1>16 DEF NapiEnable
<1>17. CASE UNCHANGED qvVars
  BY <1>17 DEF qvVars
<1> QED
  BY <1>1, <1>2, <1>3, <1>4, <1>5, <1>6, <1>7, <1>8, <1>9, <1>10, <1>11, <1>12, <1>13, <1>14,
     <1>15, <1>16, <1>17
  DEF QVectorNext, NapiStep, SocketStep, AdminStep

LEMMA TypeStep ==
  ASSUME QVectorTypeOK, PlaceInv, [QVectorNext]_qvVars
  PROVE  QVectorTypeOK'
<1> DEFINE Fields ==
      /\ qvState \subseteq Locked \cup {"napi_yield", "poll_yield"}
      /\ waiting \in [Ring -> 0 .. MaxFrames] /\ arrived \in 0 .. MaxFrames
      /\ npc \in {"idle", "sched", "lock", "ring", "unlock"} /\ nring \in 0 .. RxRings
      /\ napiOn \in {"on", "closing", "off"} /\ adm \in {"up", "napi", "qv", "down", "enable"}
      /\ work \in Nat /\ weight \in {0} \cup Weights
      /\ spc \in [Sockets -> {"idle", "lock", "ring", "unlock"}]
      /\ sring \in [Sockets -> 0 .. RxRings]
<1> SUFFICES Fields'
  BY FlagStep DEF QVectorTypeOK
<1>a. Fields /\ PlaceInv
  BY DEF QVectorTypeOK
<1>b. 0 \in 0 .. RxRings /\ 1 \in 0 .. RxRings
  BY QVectorAssumption
<1> USE <1>a, <1>b, QVectorAssumption DEF Locked, rxFrames, napiVars, sockVars
<1>1. ASSUME NEW r \in Ring, Arrive(r) PROVE Fields'
  <2>1. waiting[r] + 1 \in 0 .. MaxFrames
    BY <1>1 DEF Arrive, PlaceInv
  <2> QED BY <1>1, <2>1 DEF Arrive
<1>2. ASSUME NEW b \in Weights, NEW txDone \in BOOLEAN, Poll(b, txDone) PROVE Fields'
  BY <1>2 DEF Poll
<1>3. ASSUME NEW s \in Sockets, BusyPoll(s) PROVE Fields'
  BY <1>3 DEF BusyPoll
<1>4. ASSUME NEW s \in Sockets, LockPoll(s) PROVE Fields'
  BY <1>4 DEF LockPoll
<1>5. ASSUME NEW s \in Sockets, BusyPollRing(s) PROVE Fields'
  <2>1. sring[s] \in Ring /\ BusyMax \in Nat
    BY <1>5 DEF BusyPollRing, PlaceInv
  <2>3. waiting[sring[s]] - CleanedRing(sring[s], BusyMax) \in 0 .. MaxFrames
    BY <2>1, CleanedType
  <2>4. sring' \in [Sockets -> 0 .. RxRings]
    BY <1>5, <2>1 DEF BusyPollRing, Ring
  <2> QED BY <1>5, <2>1, <2>3, <2>4 DEF BusyPollRing
<1>6. ASSUME NEW s \in Sockets, UnlockPoll(s) PROVE Fields'
  BY <1>6 DEF UnlockPoll, Kept
<1>7. CASE Strobe
  BY <1>7 DEF Strobe
<1>8. CASE MsixCleanRings
  BY <1>8 DEF MsixCleanRings
<1>9. CASE LockNapi
  <2>1. /\ \/ qvState' = qvState \cup {"napi_yield"} /\ npc' \in {"sched", "idle"}
              /\ weight' = 0 /\ work' = 0 /\ nring' = nring
           \/ qvState' = {"napi"} /\ npc' = "ring" /\ nring' = 1 /\ UNCHANGED <<weight, work>>
        /\ UNCHANGED <<rxFrames, napiOn, sockVars, adm>>
    BY <1>9 DEF LockNapi
  <2>2. qvState' \subseteq Locked \cup {"napi_yield", "poll_yield"}
    BY <2>1
  <2>3. npc' \in {"idle", "sched", "lock", "ring", "unlock"} /\ nring' \in 0 .. RxRings
    BY <2>1
  <2>4. work' \in Nat /\ weight' \in {0} \cup Weights
    BY <2>1
  <2> QED BY <2>1, <2>2, <2>3, <2>4
<1>10. CASE PollRing
  <2>1. nring \in Ring /\ weight \in Weights
    BY <1>10 DEF PollRing, PlaceInv
  <2>2. PerRingBudget \in Nat
    BY <2>1, ShareType
  <2>3. /\ CleanedRing(nring, PerRingBudget) \in Nat
        /\ waiting[nring] - CleanedRing(nring, PerRingBudget) \in 0 .. MaxFrames
    BY <2>1, <2>2, CleanedType
  <2>4. nring' \in 0 .. RxRings
    BY <1>10, <2>1 DEF PollRing, Ring
  <2> QED BY <1>10, <2>1, <2>3, <2>4 DEF PollRing
<1>11. CASE UnlockNapi
  BY <1>11 DEF UnlockNapi, Kept
<1>12. CASE GoDown
  BY <1>12 DEF GoDown
<1>13. CASE NapiDisable
  BY <1>13 DEF NapiDisable
<1>14. CASE QvDisable
  BY <1>14 DEF QvDisable
<1>15. CASE GoUp
  BY <1>15 DEF GoUp
<1>16. CASE NapiEnable
  BY <1>16 DEF NapiEnable
<1>17. CASE UNCHANGED qvVars
  BY <1>17 DEF qvVars
<1> QED
  BY <1>1, <1>2, <1>3, <1>4, <1>5, <1>6, <1>7, <1>8, <1>9, <1>10, <1>11, <1>12, <1>13, <1>14,
     <1>15, <1>16, <1>17
  DEF QVectorNext, NapiStep, SocketStep, AdminStep

\* The share of the budget that each ring in time leaves unused.
LEMMA ShareStep ==
  ASSUME QVectorTypeOK, PlaceInv, ShareInv, [QVectorNext]_qvVars
  PROVE  ShareInv'
<1> USE DEF ShareInv, PerRingBudget, rxFrames, napiVars, sockVars
<1>1. ASSUME NEW r \in Ring, Arrive(r) PROVE ShareInv'
  BY <1>1 DEF Arrive
<1>2. ASSUME NEW b \in Weights, NEW txDone \in BOOLEAN, Poll(b, txDone) PROVE ShareInv'
  BY <1>2 DEF Poll
<1>3. ASSUME NEW s \in Sockets, BusyPoll(s) PROVE ShareInv'
  BY <1>3 DEF BusyPoll
<1>4. ASSUME NEW s \in Sockets, LockPoll(s) PROVE ShareInv'
  BY <1>4 DEF LockPoll
<1>5. ASSUME NEW s \in Sockets, BusyPollRing(s) PROVE ShareInv'
  BY <1>5 DEF BusyPollRing
<1>6. ASSUME NEW s \in Sockets, UnlockPoll(s) PROVE ShareInv'
  BY <1>6 DEF UnlockPoll
<1>7. CASE Strobe
  BY <1>7 DEF Strobe
<1>8. CASE MsixCleanRings
  BY <1>8 DEF MsixCleanRings
<1>9. CASE LockNapi
  <2>1. CASE qvState \cap Held # {}
    BY <1>9, <2>1 DEF LockNapi
  <2>2. CASE qvState \cap Held = {}
    <3>1. work' = 0 /\ npc' = "ring" /\ nring' = 1
      BY <1>9, <2>2 DEF LockNapi, PlaceInv
    <3> HIDE DEF PerRingBudget
    <3>2. weight' \in Weights /\ PerRingBudget \in Nat /\ PerRingBudget' = PerRingBudget
      BY <1>9, <2>2, ShareType DEF LockNapi, PlaceInv, PerRingBudget
    <3> QED BY <3>1, <3>2
  <2> QED BY <2>1, <2>2
<1>10. CASE PollRing
  <2> HIDE DEF PerRingBudget
  <2> DEFINE cleaned == CleanedRing(nring, PerRingBudget)
  <2>1. /\ nring \in Ring /\ weight \in Weights /\ npc = "ring" /\ work' = work + cleaned
        /\ complete' = (complete /\ RingDone(cleaned))
        /\ IF nring = RxRings THEN npc' = "unlock" ELSE nring' = nring + 1 /\ npc' = "ring"
        /\ PerRingBudget' = PerRingBudget
    BY <1>10 DEF PollRing, PlaceInv, PerRingBudget
  <2>2. PerRingBudget \in Nat /\ work \in Nat /\ nring \in Nat
    BY <2>1, ShareType DEF QVectorTypeOK, Ring
  <2>3. cleaned \in Nat
    BY <2>1, <2>2, CleanedType
  <2> HIDE DEF cleaned
  <2>4. ASSUME complete' PROVE work' <= nring * (PerRingBudget - 1)
    <3>1. cleaned <= PerRingBudget - 1 /\ work <= (nring - 1) * (PerRingBudget - 1)
      <4>1. complete /\ RingDone(cleaned)
        BY Zenon, <2>1, <2>4
      <4> QED BY <2>1, <2>2, <2>3, <4>1 DEF RingDone
    <3>2. nring * (PerRingBudget - 1) = (nring - 1) * (PerRingBudget - 1) + (PerRingBudget - 1)
      BY <2>2
    <3>3. (nring - 1) * (PerRingBudget - 1) \in Int
      BY <2>2
    <3> QED BY <2>1, <2>2, <2>3, <3>1, <3>2, <3>3
  <2>5. CASE nring = RxRings
    BY <2>1, <2>4, <2>5
  <2>6. CASE nring # RxRings
    <3>1. nring' - 1 = nring
      BY <2>1, <2>2, <2>6
    <3> QED BY <2>1, <2>4, <2>6, <3>1
  <2> QED BY <2>5, <2>6
<1>11. CASE UnlockNapi
  BY <1>11 DEF UnlockNapi
<1>12. CASE GoDown
  BY <1>12 DEF GoDown
<1>13. CASE NapiDisable
  BY <1>13 DEF NapiDisable
<1>14. CASE QvDisable
  BY <1>14 DEF QvDisable
<1>15. CASE GoUp
  BY <1>15 DEF GoUp
<1>16. CASE NapiEnable
  BY <1>16 DEF NapiEnable
<1>17. CASE UNCHANGED qvVars
  BY <1>17 DEF qvVars
<1> QED
  BY <1>1, <1>2, <1>3, <1>4, <1>5, <1>6, <1>7, <1>8, <1>9, <1>10, <1>11, <1>12, <1>13, <1>14,
     <1>15, <1>16, <1>17
  DEF QVectorNext, NapiStep, SocketStep, AdminStep

\* The vector has one owner at a time, and each bit the owner that set it.
LEMMA LockStep ==
  ASSUME QVectorTypeOK, LockInv, AdminInv, NoWarning, [QVectorNext]_qvVars
  PROVE  LockInv' /\ NoWarning'
<1> DEFINE Inv == LockInv /\ NoWarning
<1> SUFFICES Inv'
  OBVIOUS
<1> USE DEF LockInv, NoWarning, NapiHas, Polling, QVectorTypeOK, rxFrames, napiVars, sockVars
<1>1. ASSUME NEW r \in Ring, Arrive(r) PROVE Inv'
  BY <1>1 DEF Arrive
<1>2. ASSUME NEW b \in Weights, NEW txDone \in BOOLEAN, Poll(b, txDone) PROVE Inv'
  BY <1>2 DEF Poll
<1>3. ASSUME NEW s \in Sockets, BusyPoll(s) PROVE Inv'
  BY <1>3 DEF BusyPoll
<1>4. ASSUME NEW s \in Sockets, LockPoll(s) PROVE Inv'
  BY <1>4 DEF LockPoll, Held, Locked
<1>5. ASSUME NEW s \in Sockets, BusyPollRing(s) PROVE Inv'
  BY <1>5 DEF BusyPollRing
<1>6. ASSUME NEW s \in Sockets, UnlockPoll(s) PROVE Inv'
  BY <1>6 DEF UnlockPoll, Kept
<1>7. CASE Strobe
  BY <1>7 DEF Strobe
<1>8. CASE MsixCleanRings
  BY <1>8 DEF MsixCleanRings
<1>9. CASE LockNapi
  BY <1>9 DEF LockNapi, Held, Locked
<1>10. CASE PollRing
  BY <1>10 DEF PollRing
<1>11. CASE UnlockNapi
  BY <1>11 DEF UnlockNapi, Kept
<1>12. CASE GoDown
  BY <1>12 DEF GoDown
<1>13. CASE NapiDisable
  BY <1>13 DEF NapiDisable
<1>14. CASE QvDisable
  BY <1>14 DEF QvDisable
<1>15. CASE GoUp
  BY <1>15 DEF GoUp
<1>16. CASE NapiEnable
  BY <1>16 DEF NapiEnable, AdminInv, Owned
<1>17. CASE UNCHANGED qvVars
  BY <1>17 DEF qvVars
<1> QED
  BY <1>1, <1>2, <1>3, <1>4, <1>5, <1>6, <1>7, <1>8, <1>9, <1>10, <1>11, <1>12, <1>13, <1>14,
     <1>15, <1>16, <1>17
  DEF QVectorNext, NapiStep, SocketStep, AdminStep

\* Taking the adapter down ends with a vector that nobody owns and nobody can take.
LEMMA AdminStepKeeps ==
  ASSUME QVectorTypeOK, LockInv, AdminInv, [QVectorNext]_qvVars
  PROVE  AdminInv'
<1> USE DEF AdminInv, QVectorTypeOK, Owned, rxFrames, napiVars, sockVars
<1>1. ASSUME NEW r \in Ring, Arrive(r) PROVE AdminInv'
  BY <1>1 DEF Arrive
<1>2. ASSUME NEW b \in Weights, NEW txDone \in BOOLEAN, Poll(b, txDone) PROVE AdminInv'
  BY <1>2 DEF Poll
<1>3. ASSUME NEW s \in Sockets, BusyPoll(s) PROVE AdminInv'
  BY <1>3 DEF BusyPoll
<1>4. ASSUME NEW s \in Sockets, LockPoll(s) PROVE AdminInv'
  BY <1>4 DEF LockPoll, Held, Locked
<1>5. ASSUME NEW s \in Sockets, BusyPollRing(s) PROVE AdminInv'
  BY <1>5 DEF BusyPollRing
<1>6. ASSUME NEW s \in Sockets, UnlockPoll(s) PROVE AdminInv'
  BY <1>6 DEF UnlockPoll, Kept
<1>7. CASE Strobe
  BY <1>7 DEF Strobe
<1>8. CASE MsixCleanRings
  BY <1>8 DEF MsixCleanRings
<1>9. CASE LockNapi
  BY <1>9 DEF LockNapi, Held, Locked
<1>10. CASE PollRing
  BY <1>10 DEF PollRing
<1>11. CASE UnlockNapi
  BY <1>11 DEF UnlockNapi, Kept
<1>12. CASE GoDown
  BY <1>12 DEF GoDown
<1>13. CASE NapiDisable
  BY <1>13 DEF NapiDisable
<1>14. CASE QvDisable
  BY <1>14 DEF QvDisable, Disabled
<1>15. CASE GoUp
  BY <1>15 DEF GoUp
<1>16. CASE NapiEnable
  BY <1>16 DEF NapiEnable
<1>17. CASE UNCHANGED qvVars
  BY <1>17 DEF qvVars
<1> QED
  BY <1>1, <1>2, <1>3, <1>4, <1>5, <1>6, <1>7, <1>8, <1>9, <1>10, <1>11, <1>12, <1>13, <1>14,
     <1>15, <1>16, <1>17
  DEF QVectorNext, NapiStep, SocketStep, AdminStep

-----------------------------------------------------------------------------
LEMMA VectorIInit == QVectorInit => VectorIInv
<1> SUFFICES ASSUME QVectorInit PROVE VectorIInv
  OBVIOUS
<1> USE QVectorAssumption DEF QVectorInit
<1>1. QVectorTypeOK
  <2>1. {qvDown, complete, warned} \subseteq BOOLEAN
    BY Zenon
  <2> QED BY <2>1 DEF QVectorTypeOK, Locked, Ring
<1>2. NoWarning /\ LockInv /\ AdminInv
  BY DEF NoWarning, LockInv, AdminInv, NapiHas, Polling
<1>3. PlaceInv /\ ShareInv
  BY DEF PlaceInv, ShareInv
<1> QED BY <1>1, <1>2, <1>3 DEF VectorIInv

LEMMA VectorIStep ==
  ASSUME VectorIInv, [QVectorNext]_qvVars PROVE VectorIInv'
BY PlaceStep, TypeStep, ShareStep, LockStep, AdminStepKeeps DEF VectorIInv

\* At most one socket polls.
LEMMA OnePoller ==
  ASSUME LockInv PROVE Cardinality(Polling) \in {0, 1} /\ (Polling = {} => Cardinality(Polling) = 0)
<1>1. CASE Polling = {}
  BY <1>1, FS_EmptySet
<1>2. CASE Polling # {}
  <2>1. PICK s : s \in Polling
    BY <1>2
  <2>2. Polling = {s}
    BY <2>1 DEF LockInv
  <2> QED BY <1>2, <2>2, FS_Singleton
<1> QED BY <1>1, <1>2

LEMMA VectorSays ==
  ASSUME VectorIInv PROVE VectorInv
<1> USE DEF VectorIInv
<1>1. VectorExclusive
  <2>1. Polling = {} \/ ~NapiHas
    BY DEF LockInv
  <2>2. Cardinality(Polling) + (IF NapiHas THEN 1 ELSE 0) <= 1
    BY <2>1, OnePoller
  <2>3. adm \in {"down", "enable"} => Polling = {} /\ ~NapiHas
    BY DEF LockInv, AdminInv, Owned
  <2> QED BY <2>2, <2>3 DEF VectorExclusive
<1>2. WorkBelowBudget
  <2> SUFFICES ASSUME npc = "unlock", complete PROVE work < weight
    BY DEF WorkBelowBudget
  <2>1. weight \in Weights /\ work <= RxRings * (PerRingBudget - 1)
    BY DEF PlaceInv, ShareInv
  <2>2. work \in Nat /\ weight \in Nat /\ RxRings \in Nat
    BY <2>1, QVectorAssumption DEF QVectorTypeOK
  <2>3. /\ PerRingBudget \in Nat /\ RxRings * (PerRingBudget - 1) < weight
        /\ RxRings * (PerRingBudget - 1) \in Int
    BY <2>1, <2>2, ShareType
  <2> QED BY <2>1, <2>2, <2>3
<1> QED BY <1>1, <1>2 DEF VectorInv

\* NAPI and the sockets that busy-poll never clean the rings of a vector together, and
\* none of them does while the adapter is down; the lock routines never warn; and
\* napi_complete_done is told of less work than the budget: for any number of sockets
\* and rings, and any budget.
THEOREM VectorCorrect == QVectorSpec => []VectorInv
<1>1. VectorIInv /\ [QVectorNext]_qvVars => VectorIInv'
  BY VectorIStep
<1>2. VectorIInv => VectorInv
  BY VectorSays
<1> QED BY <1>1, <1>2, VectorIInit, PTL DEF QVectorSpec

-----------------------------------------------------------------------------
(* Itr, for every setting of ethtool and every load.                       *)

\* Which rate a vector may have: the setting's, or in dynamic mode one that the smoothing
\* can come to from IXGBE_20K_ITR.
ItrIInv ==
  /\ ItrTypeOK /\ eitr = WriteEitr(qitr)
  /\ ~crossed /\ itrPoll = "set" => rxSetting = 1 /\ ethtool = "idle"
  /\ ~crossed /\ rxSetting = 1 /\ ethtool = "idle" => qitr \in 39 .. 336
  /\ ~crossed /\ rxSetting # 1 /\ ethtool = "idle" => qitr = rxSetting

\* What a quotient is, without the quotient.
LEMMA Quotient ==
  ASSUME NEW n \in Nat, NEW d \in Nat \ {0}
  PROVE  /\ n \div d \in Nat
         /\ (n \div d) * d <= n /\ n < (n \div d) * d + d
OBVIOUS

LEMMA QuotientBounds ==
  ASSUME NEW n \in Nat, NEW d \in Nat \ {0}, NEW k \in Nat
  PROVE  /\ k * d <= n => k <= n \div d
         /\ n < k * d + d => n \div d <= k
<1> DEFINE q == n \div d
<1>1. q \in Nat /\ q * d <= n /\ n < q * d + d
  BY Quotient
<1> HIDE DEF q
<1>2. ASSUME NEW a \in Nat, NEW b \in Nat, a < b PROVE a * d + d <= b * d
  <2>1. PICK c \in Nat : b = a + 1 + c
    <3>1. b - a - 1 \in Nat /\ b = a + 1 + (b - a - 1)
      BY <1>2
    <3> QED BY <3>1
  <2>2. b * d = a * d + d + c * d /\ c * d \in Nat
    BY <2>1
  <2> QED BY <2>2
<1>3. k * d <= n => k <= q
  BY <1>1, <1>2
<1>4. n < k * d + d => q <= k
  BY <1>1, <1>2
<1> QED BY <1>3, <1>4 DEF q

LEMMA ItrClasses == \A c \in 0 .. 2 : ItrOf[c] \in {40, 200, 336}
BY DEF ItrOf

\* "do an exponential smoothing": the result is between the old rate and the new one, and
\* another one than the old unless they are close.
LEMMA SmoothedBounds ==
  ASSUME NEW new \in {40, 200, 336}, qitr \in 0 .. MaxEitr
  PROVE  /\ Smoothed(new) \in Nat
         /\ qitr <= new => qitr <= Smoothed(new) /\ Smoothed(new) <= new
         /\ qitr >= new => new <= Smoothed(new) /\ Smoothed(new) <= qitr
         /\ qitr > new => Smoothed(new) # qitr
         /\ qitr < new /\ qitr >= 39 /\ 20 * (new - qitr) > new => Smoothed(new) # qitr
<1> DEFINE n == 10 * new * qitr
           d == 9 * new + qitr
           q == qitr
<1>1. n \in Nat /\ d \in Nat \ {0} /\ q \in Nat /\ new \in Nat /\ Smoothed(new) = n \div d
  BY DEF Smoothed, MaxEitr
<1>2. q * d = 9 * (new * q) + q * q /\ new * d = 9 * (new * new) + new * q /\ n = 10 * (new * q)
  BY <1>1
<1> HIDE DEF n, d
<1>3. Smoothed(new) \in Nat
  BY <1>1, Quotient
<1>4. ASSUME q <= new PROVE q * q <= new * q /\ new * q <= new * new
  BY <1>1, <1>4
<1>5. ASSUME q >= new PROVE new * q <= q * q /\ new * new <= new * q
  BY <1>1, <1>5
<1>6. ASSUME q <= new PROVE q <= Smoothed(new) /\ Smoothed(new) <= new
  <2>1. q * d <= n
    BY <1>1, <1>2, <1>4, <1>6
  <2>2. n < new * d + d
    BY <1>1, <1>2, <1>4, <1>6
  <2> QED BY <1>1, <2>1, <2>2, QuotientBounds
<1>7. ASSUME q >= new PROVE new <= Smoothed(new) /\ Smoothed(new) <= q
  <2>1. new * d <= n
    BY <1>1, <1>2, <1>5, <1>7
  <2>2. n < q * d + d
    BY <1>1, <1>2, <1>5, <1>7
  <2> QED BY <1>1, <2>1, <2>2, QuotientBounds
<1>8. ASSUME q > new PROVE Smoothed(new) # q
  <2>1. new * q < q * q
    BY <1>1, <1>8
  <2>2. n < q * d
    BY <1>1, <1>2, <2>1
  <2>3. Smoothed(new) * d <= n
    BY <1>1, Quotient
  <2> QED BY <1>1, <1>3, <2>2, <2>3
<1>9. ASSUME q < new, q >= 39, 20 * (new - q) > new PROVE Smoothed(new) # q
  <2>1. q * q + 9 * new + q <= new * q
    <3>1. CASE new = 40
      BY <1>1, <1>9, <3>1
    <3>2. CASE new = 200
      <4>1. q <= 189 /\ (q - 39) * (189 - q) >= 0
        BY <1>1, <1>9, <3>2
      <4>2. (q - 39) * (189 - q) = 228 * q - q * q - 7371
        BY <1>1
      <4> QED BY <1>1, <3>2, <4>1, <4>2
    <3>3. CASE new = 336
      <4>1. q <= 319 /\ (q - 39) * (319 - q) >= 0
        BY <1>1, <1>9, <3>3
      <4>2. (q - 39) * (319 - q) = 358 * q - q * q - 12441
        BY <1>1
      <4> QED BY <1>1, <3>3, <4>1, <4>2
    <3> QED BY <3>1, <3>2, <3>3
  <2>2. (q + 1) * d <= n
    <3>1. (q + 1) * d = q * d + 9 * new + q
      BY <1>1 DEF d
    <3> QED BY <1>1, <1>2, <2>1, <3>1
  <2>3. q + 1 <= Smoothed(new)
    <3>1. q + 1 \in Nat
      BY <1>1
    <3> QED BY <1>1, <2>2, <3>1, QuotientBounds
  <2> QED BY <1>1, <1>3, <2>3
<1> QED BY <1>1, <1>3, <1>6, <1>7, <1>8, <1>9

\* The register has the rate without its three low bits.
LEMMA EitrBounds ==
  ASSUME NEW itr \in 0 .. MaxEitr
  PROVE  WriteEitr(itr) \in 0 .. MaxEitr /\ itr - WriteEitr(itr) \in 0 .. 7
BY DEF WriteEitr, MaxEitr

LEMMA SettingType ==
  ASSUME NEW u \in Nat, Fits(u)
  PROVE  Setting(u) \in {0, 1} \cup 8 .. MaxEitr
BY DEF Setting, Fits, MaxEitr

LEMMA ParamType ==
  ASSUME rxSetting \in {0, 1} \cup 8 .. MaxEitr
  PROVE  /\ Param \in 0 .. MaxEitr
         /\ Param = IF rxSetting = 1 THEN 200 ELSE rxSetting
BY DEF Param, ItrOf, MaxEitr

LEMMA ItrInitInv == ASSUME ItrInit(Settings) PROVE ItrIInv
<1>1. rxSetting \in {0, 1} \cup 8 .. MaxEitr
  BY SettingType, ItrAssumption DEF ItrInit, Settings
<1>2. qitr = (IF rxSetting = 1 THEN 200 ELSE rxSetting) /\ qitr \in 0 .. MaxEitr
      /\ eitr = WriteEitr(qitr)
  BY <1>1 DEF ItrInit, ItrOf, MaxEitr
<1>3. crossed \in BOOLEAN /\ ~crossed
  BY DEF ItrInit
<1>4. ItrTypeOK
  BY <1>1, <1>2, <1>3, EitrBounds DEF ItrInit, ItrTypeOK
<1> QED BY <1>2, <1>3, <1>4 DEF ItrInit, ItrIInv

LEMMA ItrStep == ASSUME ItrIInv, [ItrNext]_itrVars PROVE ItrIInv'
<1> USE DEF ItrIInv
<1>0. crossed \in BOOLEAN
  BY Zenon DEF ItrTypeOK
<1>1. ASSUME NEW cs \in SUBSET {"rx", "tx"}, PollDone(cs) PROVE ItrIInv'
  <2>1. crossed' \in BOOLEAN
    BY <1>1, Zenon DEF PollDone
  <2>2. ItrTypeOK'
    BY <1>1, <2>1 DEF PollDone, ItrTypeOK
  <2>3. eitr' = WriteEitr(qitr)'
    BY <1>1 DEF PollDone, WriteEitr
  <2>4. /\ UNCHANGED <<rxSetting, qitr, ethtool>>
        /\ crossed' <=> crossed \/ (rxSetting = 1 /\ ethtool = "vectors")
        /\ itrPoll' = "set" => rxSetting = 1
    BY <1>1 DEF PollDone
  <2>5. ethtool \in {"idle", "vectors"}
    BY DEF ItrTypeOK
  <2> QED BY <2>2, <2>3, <2>4, <2>5
<1>2. ASSUME NEW rx \in Loads, NEW tx \in Loads, SetItr(rx, tx) PROVE ItrIInv'
  <2>1. latency' \in [{"rx", "tx"} -> 0 .. 2]
    BY <1>2 DEF SetItr, UpdateItr, Class, ItrTypeOK
  <2>2. Target(latency') \in {40, 200, 336}
    BY <2>1, ItrClasses DEF Target
  <2> DEFINE new == Target(latency')
  <2>3. /\ qitr' = (IF new = qitr THEN qitr ELSE Smoothed(new)) /\ eitr' = WriteEitr(qitr')
        /\ UNCHANGED <<rxSetting, ethtool, crossed>> /\ itrPoll' = "idle" /\ moved' = {}
    BY <1>2 DEF SetItr, WriteEitr
  <2> HIDE DEF new
  <2>4. /\ qitr' \in 0 .. MaxEitr
        /\ qitr \in 39 .. 336 => qitr' \in 39 .. 336
    <3>1. qitr \in 0 .. MaxEitr /\ new \in {40, 200, 336}
      BY <2>2 DEF ItrTypeOK, new
    <3>2. /\ Smoothed(new) \in Nat
          /\ qitr <= new => qitr <= Smoothed(new) /\ Smoothed(new) <= new
          /\ qitr >= new => new <= Smoothed(new) /\ Smoothed(new) <= qitr
      BY <3>1, SmoothedBounds
    <3>3. CASE qitr' = qitr
      BY <3>1, <3>3
    <3>4. CASE qitr' = Smoothed(new)
      <4>1. /\ new \in Nat /\ 40 <= new /\ new <= 336
            /\ qitr \in Nat /\ qitr <= 4088
        BY <3>1 DEF MaxEitr
      <4>2. /\ qitr' \in Nat /\ qitr' <= 4088
            /\ qitr >= 39 /\ qitr <= 336 => qitr' >= 39 /\ qitr' <= 336
        BY ONLY <3>2, <3>4, <4>1
      <4> QED BY <4>1, <4>2 DEF MaxEitr
    <3> QED BY <2>3, <3>3, <3>4
  <2>5. crossed' \in BOOLEAN
    BY <1>0, <2>3
  <2>6. ItrTypeOK'
    BY <2>1, <2>3, <2>4, <2>5, EitrBounds DEF ItrTypeOK
  <2>7. ~crossed => rxSetting = 1 /\ ethtool = "idle" /\ qitr \in 39 .. 336
    BY <1>2 DEF SetItr
  <2>8. eitr' = WriteEitr(qitr)'
    BY <2>3 DEF WriteEitr
  <2> QED BY <2>3, <2>4, <2>6, <2>7, <2>8
<1>3. ASSUME NEW u \in Usecs, SetCoalesce(u) PROVE ItrIInv'
  <2>1. rxSetting' \in {0, 1} \cup 8 .. MaxEitr
    BY <1>3, SettingType, ItrAssumption DEF SetCoalesce
  <2>2. crossed' \in BOOLEAN
    BY <1>3, Zenon DEF SetCoalesce
  <2>3. ItrTypeOK'
    BY <1>3, <2>1, <2>2 DEF SetCoalesce, ItrTypeOK
  <2>4. eitr' = WriteEitr(qitr)'
    BY <1>3 DEF SetCoalesce, WriteEitr
  <2> QED BY <1>3, <2>3, <2>4 DEF SetCoalesce
<1>4. CASE SetCoalesceVectors
  <2>1. Param \in 0 .. MaxEitr /\ Param = IF rxSetting = 1 THEN 200 ELSE rxSetting
    BY ParamType DEF ItrTypeOK
  <2>2. ItrTypeOK'
    BY <1>0, <1>4, <2>1, EitrBounds DEF SetCoalesceVectors, ItrTypeOK
  <2>3. eitr' = WriteEitr(qitr)'
    BY <1>4 DEF SetCoalesceVectors, WriteEitr
  <2> QED BY <1>4, <2>1, <2>2, <2>3 DEF SetCoalesceVectors
<1>5. CASE UNCHANGED itrVars
  BY <1>5 DEF itrVars, ItrTypeOK, WriteEitr
<1> QED BY <1>1, <1>2, <1>3, <1>4, <1>5 DEF ItrNext

LEMMA ItrImplied == ASSUME ItrIInv PROVE ItrInv
<1> USE DEF ItrIInv
<1>1. SliceNotZero
  <2>1. qitr \in 39 .. 336 => qitr \div 4 > 0
    OBVIOUS
  <2> QED BY <2>1 DEF SliceNotZero, TimePassed
<1>2. SettingHolds
  BY EitrBounds DEF SettingHolds, GetCoalesce, ItrTypeOK
<1>3. RateFollows
  <2>1. ASSUME NEW class \in 0 .. 2, qitr \in 39 .. 336
        PROVE  LET new == ItrOf[class]
                   step == Smoothed(new)
               IN  /\ qitr < new => qitr <= step /\ step <= new
                   /\ qitr > new => new <= step + 1 /\ step <= qitr
                   /\ 20 * (IF qitr > new THEN qitr - new ELSE new - qitr) > new => step # qitr
    <3> DEFINE new == ItrOf[class]
               step == Smoothed(new)
    <3>1. new \in {40, 200, 336} /\ qitr \in 0 .. MaxEitr /\ qitr \in Nat /\ qitr >= 39
      BY <2>1, ItrClasses DEF MaxEitr
    <3> HIDE DEF new
    <3>2. /\ step \in Nat
          /\ qitr <= new => qitr <= step /\ step <= new
          /\ qitr >= new => new <= step /\ step <= qitr
          /\ qitr > new => step # qitr
          /\ qitr < new /\ qitr >= 39 /\ 20 * (new - qitr) > new => step # qitr
      BY <3>1, SmoothedBounds
    <3> HIDE DEF step
    <3>3. /\ qitr < new => qitr <= step /\ step <= new
          /\ qitr > new => new <= step + 1 /\ step <= qitr
          /\ 20 * (IF qitr > new THEN qitr - new ELSE new - qitr) > new => step # qitr
      BY <3>1, <3>2
    <3> QED BY <3>3 DEF new, step
  <2> QED BY <2>1 DEF RateFollows
<1> QED BY <1>1, <1>2, <1>3 DEF ItrInv

\* Whatever ethtool sets while polls go on and whatever the traffic comes to, a vector
\* throttles by the setting or follows the traffic, within its registers, and does not
\* divide by zero, unless the setting crossed a poll (ixgbevf_set_itr, ixgbevf_set_coalesce).
THEOREM RateCorrect == ItrSpec => []ItrInv
<1>1. ItrInit(Settings) => ItrIInv
  BY ItrInitInv
<1>2. ItrIInv /\ [ItrNext]_itrVars => ItrIInv'
  BY ItrStep
<1>3. ItrIInv => ItrInv
  BY ItrImplied
<1> QED BY <1>1, <1>2, <1>3, PTL DEF ItrSpec

-----------------------------------------------------------------------------
(* Stats, for registers of every width.                                    *)

\* x without what is below the width
Above(x, width) == (x \div width) * width

Counter(width) == [val : Nat, last : 0 .. width - 1, base : 0 .. width - 1, saved : Int]

\* How many frames there were when the counters were read last, or else when the adapter
\* came up; those of 32 bits are read before the others.
ReadAt == IF fresh >= 0 THEN fresh ELSE atUp
NarrowAt == IF half >= 0 THEN half ELSE ReadAt

\* A counter that was read last with `at` frames counted.
RightAt(c, width, above, at) ==
  /\ c.last = (at % width) /\ c.base = (atUp % width)
  /\ Above(c.val, width) = above + c.base + at - atUp - (at % width)

CounterTypes ==
  /\ stState \in {"up", "down"} /\ seen \in 0 .. MaxCount /\ upsLeft \in 0 .. MaxUps
  /\ narrow \in Counter(Low) /\ wide \in Counter(Wide)
  /\ half \in Nat \cup {-1} /\ fresh \in Nat \cup {-1} /\ atUp \in Nat
  /\ carried \in Nat \X Nat

CounterIInv ==
  /\ CounterTypes
  /\ stState = "down" => half = -1
  /\ atUp <= ReadAt /\ ReadAt <= NarrowAt /\ NarrowAt <= seen /\ seen - ReadAt < Low
  /\ RightAt(narrow, Low, carried[1], NarrowAt) /\ RightAt(wide, Wide, carried[2], ReadAt)
  /\ fresh >= 0 \/ half >= 0 => narrow.val = Above(narrow.val, Low) + narrow.last
  /\ fresh >= 0 => wide.val = Above(wide.val, Wide) + wide.last

\* The sequence count is even between updates; a reader that finds it as it was has
\* read between two of them.
PairIInv ==
  /\ seq \in Nat /\ bytes \in Nat /\ packets \in Nat /\ rstart \in Nat
  /\ wstep \in {"idle", "bytes", "packets", "end"}
  /\ rstep \in {"idle", "bytes", "packets", "end"}
  /\ wstep = "idle" <=> (seq % 2) = 0
  /\ bytes = IF wstep = "packets" THEN packets + 1 ELSE packets
  /\ rstep # "idle" => (rstart % 2) = 0 /\ rstart <= seq
  /\ rstep \in {"packets", "end"} /\ seq = rstart => rbytes = bytes
  /\ rstep = "end" /\ seq = rstart => rpackets = packets
  /\ told[1] = told[2]

-----------------------------------------------------------------------------
(* Arithmetic of registers that come round.                                *)

LEMMA Product == \A a, b \in Nat : a * b \in Nat
OBVIOUS

LEMMA Remainder ==
  ASSUME NEW x \in Nat, NEW w \in Nat \ {0}
  PROVE  /\ x \div w \in Nat /\ (x % w) \in 0 .. w - 1
         /\ x = (x \div w) * w + (x % w)
         /\ (x \div w) * w \in Nat
<1>1. /\ x \div w \in Nat /\ (x % w) \in 0 .. w - 1
      /\ x = (x \div w) * w + (x % w)
  OBVIOUS
<1>2. (x \div w) * w \in Nat
  BY <1>1, Product
<1> QED BY <1>1, <1>2

LEMMA Multiples ==
  ASSUME NEW w \in Nat \ {0}, NEW a \in Nat, NEW b \in Nat, a < b
  PROVE  a * w + w <= b * w
<1>1. PICK c \in Nat : b = a + 1 + c
  <2>1. b - a - 1 \in Nat /\ b = a + 1 + (b - a - 1)
    OBVIOUS
  <2> QED BY <2>1
<1>2. b * w = a * w + w + c * w /\ c * w \in Nat
  BY <1>1
<1> QED BY <1>2

\* What is below the width does not count above it.
LEMMA AboveOf ==
  ASSUME NEW w \in Nat \ {0}, NEW a \in Nat, NEW r \in 0 .. w - 1
  PROVE  a * w + r \in Nat /\ Above(a * w + r, w) = a * w
<1> DEFINE x == a * w + r
           q == x \div w
           s == (x % w)
<1>1. x \in Nat /\ a * w \in Nat /\ x = a * w + r
  OBVIOUS
<1> HIDE DEF x
<1>2. q \in Nat /\ s \in 0 .. w - 1 /\ x = q * w + s /\ q * w \in Nat
  BY <1>1, Remainder
<1>3. q = a
  <2>1. CASE q < a
    BY <1>1, <1>2, <2>1, Multiples
  <2>2. CASE a < q
    BY <1>1, <1>2, <2>2, Multiples
  <2> QED BY <1>2, <2>1, <2>2
<1> QED BY <1>1, <1>3 DEF Above, x

\* A register that came round at most once since f tells how many came since.
LEMMA Round ==
  ASSUME NEW w \in Nat \ {0}, NEW f \in Nat, NEW h \in Nat, f <= h, h - f < w
  PROVE  h - f = (h % w) - (f % w) + (IF (h % w) < (f % w) THEN w ELSE 0)
<1> DEFINE p == f \div w
           q == h \div w
           r == (f % w)
           s == (h % w)
<1>1. p \in Nat /\ r \in 0 .. w - 1 /\ f = p * w + r /\ p * w \in Nat
  BY Remainder
<1>2. q \in Nat /\ s \in 0 .. w - 1 /\ h = q * w + s /\ q * w \in Nat
  BY Remainder
<1> HIDE DEF p, q, r, s
<1>3. CASE q < p
  BY <1>1, <1>2, <1>3, Multiples
<1>4. CASE q = p
  BY <1>1, <1>2, <1>4
<1>5. CASE q = p + 1
  <2>1. q * w = p * w + w
    BY <1>1, <1>5
  <2> QED BY <1>1, <1>2, <2>1 DEF r, s
<1>6. CASE q > p + 1
  <2>1. (p + 1) * w = p * w + w /\ (p + 1) * w + w <= q * w
    BY <1>1, <1>2, <1>6, Multiples
  <2> QED BY <1>1, <1>2, <2>1
<1> QED BY <1>1, <1>2, <1>3, <1>4, <1>5, <1>6 DEF r, s

\* A counter that was read with `at` frames counted is read again with h, fewer than a
\* register more.
ReadAgain(c, w, above, at, h) ==
  /\ w \in Nat \ {0} /\ c \in Counter(w) /\ above \in Nat /\ at \in Nat /\ h \in Nat
  /\ at <= h /\ h - at < w /\ RightAt(c, w, above, at)

\* UPDATE_VF_COUNTER
LEMMA ExtendedRight ==
  ASSUME NEW w, NEW c, NEW above, NEW at, NEW h, atUp \in Nat, ReadAgain(c, w, above, at, h)
  PROVE  /\ Extended(c, w, h % w) \in Counter(w)
         /\ RightAt(Extended(c, w, h % w), w, above, h)
         /\ Extended(c, w, h % w).val
              = Above(Extended(c, w, h % w).val, w) + Extended(c, w, h % w).last
<1>0. /\ w \in Nat \ {0} /\ c \in Counter(w) /\ above \in Nat /\ at \in Nat /\ h \in Nat
      /\ at <= h /\ h - at < w /\ RightAt(c, w, above, at)
  BY DEF ReadAgain
<1> USE <1>0
<1> DEFINE wrapped == IF (h % w) < c.last THEN c.val + w ELSE c.val
           new == Extended(c, w, h % w)
<1>1. (h % w) \in 0 .. w - 1 /\ (at % w) \in 0 .. w - 1 /\ c.last = (at % w) /\ c.val \in Nat
  BY Remainder DEF RightAt, Counter
<1>2. c.val \div w \in Nat /\ Above(c.val, w) \in Nat /\ c.val = Above(c.val, w) + (c.val % w)
      /\ (c.val % w) \in 0 .. w - 1
  BY <1>1, Remainder DEF Above
<1> DEFINE g == IF (h % w) < (at % w) THEN w ELSE 0
<1>3. PICK a \in Nat : a * w \in Nat /\ Above(wrapped, w) = a * w /\ a * w = Above(c.val, w) + g
  <2> DEFINE k == c.val \div w
             r == c.val % w
  <2>1. /\ k \in Nat /\ r \in 0 .. w - 1 /\ k * w \in Nat
        /\ c.val = k * w + r /\ Above(c.val, w) = k * w
    BY <1>1, <1>2, Remainder DEF Above
  <2> HIDE DEF k, r
  <2>2. CASE (h % w) < (at % w)
    <3>1. k + 1 \in Nat /\ (k + 1) * w = k * w + w /\ (k + 1) * w \in Nat
      BY <2>1
    <3>2. wrapped = (k + 1) * w + r /\ g = w
      BY <1>1, <2>1, <2>2, <3>1
    <3>3. Above(wrapped, w) = (k + 1) * w
      BY <2>1, <3>1, <3>2, AboveOf
    <3> HIDE DEF wrapped, g
    <3> QED BY <2>1, <3>1, <3>2, <3>3
  <2>3. CASE ~((h % w) < (at % w))
    <3>1. wrapped = c.val /\ g = 0
      BY <1>1, <2>3
    <3>2. Above(wrapped, w) = k * w /\ k * w = Above(c.val, w) + g
      BY <2>1, <3>1
    <3> HIDE DEF wrapped, g
    <3> QED BY <2>1, <3>2
  <2> QED BY <2>2, <2>3
<1>4. new = [c EXCEPT !.last = (h % w), !.val = Above(wrapped, w) + (h % w)]
  BY DEF Extended, Above
<1>5. /\ new \in Counter(w) /\ new.base = c.base /\ new.last = (h % w)
      /\ new.val = a * w + (h % w)
  <2> DEFINE v == a * w + (h % w)
             l == h % w
  <2>1. v \in Nat /\ l \in 0 .. w - 1 /\ new = [c EXCEPT !.last = l, !.val = v]
    <3>1. v \in Nat /\ l \in 0 .. w - 1
      BY <1>1, <1>3
    <3>2. new = [c EXCEPT !.last = l, !.val = v]
      BY <1>3, <1>4, Zenon
    <3> QED BY <3>1, <3>2
  <2> HIDE DEF v, l, new
  <2>2. new \in Counter(w) /\ new.base = c.base /\ new.last = l /\ new.val = v
    BY <2>1 DEF Counter
  <2> QED BY <2>2 DEF v, l
<1>6. Above(new.val, w) = a * w
  BY <1>1, <1>3, <1>5, AboveOf
<1>7. h - at = (h % w) - (at % w) + g
  BY Round
<1>8. Above(new.val, w) = above + c.base + h - atUp - (h % w)
  <2>1. Above(c.val, w) = above + c.base + at - atUp - (at % w) /\ c.base \in Int
    BY DEF RightAt, Counter
  <2> DEFINE b == Above(c.val, w)
             s == (h % w)
             t == (at % w)
  <2>2. b \in Int /\ g \in Int /\ s \in Int /\ t \in Int
    BY <1>1, <1>2
  <2>3. b = above + c.base + at - atUp - t /\ a * w = b + g /\ h - at = s - t + g
    BY <1>3, <1>7, <2>1
  <2> HIDE DEF b, g, s, t, new, wrapped
  <2>4. a * w = above + c.base + h - atUp - s
    BY <2>1, <2>2, <2>3
  <2> QED BY <1>6, <2>4 DEF s
<1> QED BY <1>5, <1>6, <1>8 DEF RightAt

-----------------------------------------------------------------------------
(* The hardware counters.                                                  *)

LEMMA Widths ==
  /\ Low \in Nat \ {0} /\ Wide \in Nat \ {0} /\ Low < Wide
  /\ \A x \in Nat : (x % Low) \in 0 .. Low - 1 /\ (x % Wide) \in 0 .. Wide - 1
BY StatsAssumption, Remainder

LEMMA ReadTypes ==
  ASSUME CounterTypes
  PROVE  ReadAt \in Nat /\ NarrowAt \in Nat /\ seen \in Nat
BY StatsAssumption DEF CounterTypes, ReadAt, NarrowAt

LEMMA CounterInit == ASSUME StatsInit(0 .. MaxCount) PROVE CounterIInv
<1> USE StatsAssumption, Widths DEF StatsInit
<1>1. seen \in Nat
  OBVIOUS
<1>2. narrow \in Counter(Low) /\ wide \in Counter(Wide)
  <2> DEFINE l == seen % Low
             m == seen % Wide
  <2>1. l \in 0 .. Low - 1 /\ m \in 0 .. Wide - 1
    BY <1>1
  <2>2. /\ narrow = [val |-> 0, last |-> l, base |-> l, saved |-> 0]
        /\ wide = [val |-> 0, last |-> m, base |-> m, saved |-> 0]
    BY DEF ZeroCounter
  <2> HIDE DEF l, m
  <2> QED BY <2>1, <2>2 DEF Counter
<1>3. CounterTypes
  BY <1>1, <1>2 DEF CounterTypes
<1>4. ReadAt = seen /\ NarrowAt = seen /\ half = -1 /\ fresh = -1
  BY DEF ReadAt, NarrowAt
<1>5. Above(0, Low) = 0 /\ Above(0, Wide) = 0
  <2>1. 0 * Low + 0 = 0 /\ 0 * Wide + 0 = 0 /\ 0 \in 0 .. Low - 1 /\ 0 \in 0 .. Wide - 1
    OBVIOUS
  <2> QED BY <2>1, AboveOf
<1>6. RightAt(narrow, Low, carried[1], NarrowAt) /\ RightAt(wide, Wide, carried[2], ReadAt)
  <2>1. /\ narrow.val = 0 /\ narrow.last = (seen % Low) /\ narrow.base = (seen % Low)
        /\ wide.val = 0 /\ wide.last = (seen % Wide) /\ wide.base = (seen % Wide)
        /\ atUp = seen /\ carried[1] = 0 /\ carried[2] = 0
    BY DEF ZeroCounter
  <2>2. (seen % Low) \in Int /\ (seen % Wide) \in Int
    BY <1>1
  <2> QED BY <1>1, <1>4, <1>5, <2>1, <2>2 DEF RightAt
<1> QED BY <1>1, <1>3, <1>4, <1>6 DEF CounterIInv

\* A counter starts anew, from where the register stands.
LEMMA InitLastRight ==
  ASSUME NEW w \in Nat \ {0}, NEW c \in Counter(w), NEW l \in 0 .. w - 1
  PROVE  /\ InitLastCounter(SaveResetStats(c), l) \in Counter(w)
         /\ InitLastCounter(SaveResetStats(c), l).val = c.val
         /\ InitLastCounter(SaveResetStats(c), l).last = l
         /\ InitLastCounter(SaveResetStats(c), l).base = l
<1> DEFINE d == SaveResetStats(c)
<1>1. d \in Counter(w) /\ d.val = c.val
  BY DEF SaveResetStats, Counter
<1> HIDE DEF d
<1> QED BY <1>1 DEF InitLastCounter, Counter, d

LEMMA CounterStep == ASSUME CounterIInv, CounterNext PROVE CounterIInv'
<1>0. Low \in Nat \ {0} /\ Wide \in Nat \ {0} /\ Low < Wide
  BY Widths
<1>1. CounterTypes /\ (stState = "down" => half = -1)
  BY DEF CounterIInv
<1>2. /\ ReadAt \in Nat /\ NarrowAt \in Nat /\ seen \in Nat /\ atUp \in Nat
      /\ narrow \in Counter(Low) /\ wide \in Counter(Wide)
      /\ carried[1] \in Nat /\ carried[2] \in Nat
  BY <1>1, ReadTypes DEF CounterTypes
<1>3. atUp <= ReadAt /\ ReadAt <= NarrowAt /\ NarrowAt <= seen /\ seen - ReadAt < Low
  BY DEF CounterIInv
<1>4. RightAt(narrow, Low, carried[1], NarrowAt) /\ RightAt(wide, Wide, carried[2], ReadAt)
  BY DEF CounterIInv
<1>5. /\ fresh >= 0 \/ half >= 0 => narrow.val = Above(narrow.val, Low) + narrow.last
      /\ fresh >= 0 => wide.val = Above(wide.val, Wide) + wide.last
  BY DEF CounterIInv
\* what has to be shown of the next state
<1> DEFINE Ordered == /\ atUp <= ReadAt /\ ReadAt <= NarrowAt /\ NarrowAt <= seen
                      /\ seen - ReadAt < Low
           Right == /\ RightAt(narrow, Low, carried[1], NarrowAt)
                    /\ RightAt(wide, Wide, carried[2], ReadAt)
           Whole == /\ fresh >= 0 \/ half >= 0 => narrow.val = Above(narrow.val, Low) + narrow.last
                    /\ fresh >= 0 => wide.val = Above(wide.val, Wide) + wide.last
<1>6. SUFFICES CounterTypes' /\ (stState' = "down" => half' = -1) /\ Ordered' /\ Right' /\ Whole'
  BY DEF CounterIInv
<1>7. CASE Count
  <2>1. /\ UNCHANGED <<stState, narrow, wide, half, fresh, carried, atUp, upsLeft>>
        /\ seen' = seen + 1 /\ seen' \in 0 .. MaxCount /\ seen - ReadAt < Low - 1
    BY <1>0, <1>1, <1>2, <1>7, StatsAssumption DEF Count, ReadAt, CounterTypes
  <2>2. ReadAt' = ReadAt /\ NarrowAt' = NarrowAt
    BY <2>1 DEF ReadAt, NarrowAt
  <2>3. CounterTypes'
    BY <1>1, <2>1 DEF CounterTypes
  <2>4. Right' /\ Whole'
    BY <1>4, <1>5, <2>1, <2>2 DEF RightAt, Above
  <2>5. Ordered'
    BY <1>0, <1>2, <1>3, <2>1, <2>2
  <2> QED BY <1>1, <2>1, <2>3, <2>4, <2>5
<1>8. CASE UpdateStats
  <2>1. /\ UNCHANGED <<stState, seen, wide, fresh, carried, atUp, upsLeft>>
        /\ narrow' = Extended(narrow, Low, seen % Low) /\ half' = seen /\ half = -1
        /\ stState = "up"
    BY <1>8 DEF UpdateStats
  <2>2. ReadAt' = ReadAt /\ NarrowAt' = seen /\ NarrowAt = ReadAt
    BY <1>2, <2>1 DEF ReadAt, NarrowAt
  <2>3. /\ narrow' \in Counter(Low) /\ RightAt(narrow', Low, carried[1], seen)
        /\ narrow'.val = Above(narrow'.val, Low) + narrow'.last
    <3>1. RightAt(narrow, Low, carried[1], ReadAt) /\ ReadAt <= seen /\ seen - ReadAt < Low
      BY <1>0, <1>2, <1>3, <1>4, <2>2
    <3> DEFINE new == Extended(narrow, Low, seen % Low)
    <3>2. /\ new \in Counter(Low) /\ RightAt(new, Low, carried[1], seen)
          /\ new.val = Above(new.val, Low) + new.last
      <4>1. ReadAgain(narrow, Low, carried[1], ReadAt, seen)
        BY <1>0, <1>2, <3>1 DEF ReadAgain
      <4> QED BY <1>2, <4>1, ExtendedRight
    <3> HIDE DEF new
    <3>3. narrow' = new
      BY <2>1 DEF new
    <3> QED BY <3>2, <3>3, Zenon
  <2>4. Right' /\ Whole'
    BY <1>4, <1>5, <2>1, <2>2, <2>3 DEF RightAt, Above
  <2>5. CounterTypes'
    BY <1>1, <1>2, <2>1, <2>3 DEF CounterTypes
  <2>6. Ordered'
    BY <1>0, <1>2, <1>3, <2>1, <2>2
  <2> QED BY <2>1, <2>4, <2>5, <2>6
<1>9. CASE UpdateStatsHigh
  <2>1. /\ UNCHANGED <<stState, seen, narrow, carried, atUp, upsLeft>>
        /\ wide' = Extended(wide, Wide, half % Wide) /\ fresh' = half /\ half' = -1
        /\ half >= 0 /\ half \in Nat /\ half = NarrowAt
    BY <1>1, <1>9 DEF UpdateStatsHigh, Latched, CounterTypes, NarrowAt
  <2>2. ReadAt' = half /\ NarrowAt' = half
    BY <2>1 DEF ReadAt, NarrowAt
  <2>3. /\ wide' \in Counter(Wide) /\ RightAt(wide', Wide, carried[2], half)
        /\ wide'.val = Above(wide'.val, Wide) + wide'.last
    <3>1. ReadAt <= half /\ half - ReadAt < Wide
      BY <1>0, <1>2, <1>3, <2>1
    <3> DEFINE new == Extended(wide, Wide, half % Wide)
    <3>2. /\ new \in Counter(Wide) /\ RightAt(new, Wide, carried[2], half)
          /\ new.val = Above(new.val, Wide) + new.last
      <4>1. ReadAgain(wide, Wide, carried[2], ReadAt, half)
        BY <1>0, <1>2, <1>4, <2>1, <3>1 DEF ReadAgain
      <4> QED BY <1>2, <4>1, ExtendedRight
    <3> HIDE DEF new
    <3>3. wide' = new
      BY <2>1 DEF new
    <3> QED BY <3>2, <3>3, Zenon
  <2>4. Right' /\ Whole'
    BY <1>4, <1>5, <2>1, <2>2, <2>3 DEF RightAt, Above
  <2>5. CounterTypes'
    BY <1>1, <1>2, <2>1, <2>3 DEF CounterTypes
  <2>6. Ordered'
    BY <1>0, <1>2, <1>3, <2>1, <2>2
  <2> QED BY <2>1, <2>4, <2>5, <2>6
<1>10. CASE StatsDown
  <2>1. /\ UNCHANGED <<seen, narrow, wide, half, fresh, carried, atUp, upsLeft>> /\ half = -1
        /\ stState' = "down"
    BY <1>10 DEF StatsDown
  <2>2. ReadAt' = ReadAt /\ NarrowAt' = NarrowAt
    BY <2>1 DEF ReadAt, NarrowAt
  <2>3. CounterTypes' /\ Ordered'
    BY <1>1, <1>3, <2>1, <2>2 DEF CounterTypes
  <2>4. Right' /\ Whole'
    BY <1>4, <1>5, <2>1, <2>2 DEF RightAt, Above
  <2> QED BY <2>1, <2>3, <2>4
<1>11. CASE StatsUp
  <2>1. /\ UNCHANGED <<seen, half>> /\ half = -1 /\ atUp' = seen /\ fresh' = -1 /\ stState' = "up"
        /\ carried' = <<Above(narrow.val, Low), Above(wide.val, Wide)>>
        /\ narrow' = InitLastCounter(SaveResetStats(narrow), seen % Low)
        /\ wide' = InitLastCounter(SaveResetStats(wide), seen % Wide)
        /\ upsLeft' \in 0 .. MaxUps
    BY <1>0, <1>1, <1>11, StatsAssumption DEF StatsUp, Above, CounterTypes
  <2>2. (seen % Low) \in 0 .. Low - 1 /\ (seen % Wide) \in 0 .. Wide - 1
    BY <1>2, Widths
  <2>3. /\ narrow' \in Counter(Low) /\ narrow'.val = narrow.val
        /\ narrow'.last = (seen % Low) /\ narrow'.base = (seen % Low)
    BY <1>0, <1>2, <2>1, <2>2, InitLastRight
  <2>4. /\ wide' \in Counter(Wide) /\ wide'.val = wide.val
        /\ wide'.last = (seen % Wide) /\ wide'.base = (seen % Wide)
    BY <1>0, <1>2, <2>1, <2>2, InitLastRight
  <2>5. Above(narrow.val, Low) \in Nat /\ Above(wide.val, Wide) \in Nat
    BY <1>0, <1>2, Remainder DEF Counter, Above
  <2>6. ReadAt' = seen /\ NarrowAt' = seen
    BY <2>1 DEF ReadAt, NarrowAt
  <2>7. CounterTypes'
    BY <1>0, <1>1, <1>2, <2>1, <2>3, <2>4, <2>5 DEF CounterTypes
  <2>8. Right'
    <3>1. RightAt(narrow, Low, carried[1], NarrowAt)'
      <4> DEFINE l == seen % Low
                 v == Above(narrow.val, Low)
      <4>1. l \in Int /\ v \in Int /\ seen \in Int
        BY <1>0, <1>2, <2>2, <2>5
      <4> HIDE DEF l, v
      <4>2. v = v + l + seen - seen - l
        BY <4>1
      <4>3. /\ narrow'.last = l /\ narrow'.base = l
            /\ Above(narrow.val, Low)' = v /\ carried'[1] = v
            /\ (NarrowAt % Low)' = l /\ (atUp % Low)' = l /\ atUp' = seen /\ NarrowAt' = seen
        BY <2>1, <2>3, <2>6 DEF l, v, Above
      <4> QED BY <4>2, <4>3 DEF RightAt
    <3>2. RightAt(wide, Wide, carried[2], ReadAt)'
      <4> DEFINE l == seen % Wide
                 v == Above(wide.val, Wide)
      <4>1. l \in Int /\ v \in Int /\ seen \in Int
        BY <1>0, <1>2, <2>2, <2>5
      <4> HIDE DEF l, v
      <4>2. v = v + l + seen - seen - l
        BY <4>1
      <4>3. /\ wide'.last = l /\ wide'.base = l /\ Above(wide.val, Wide)' = v /\ carried'[2] = v
            /\ (ReadAt % Wide)' = l /\ (atUp % Wide)' = l /\ atUp' = seen /\ ReadAt' = seen
        BY <2>1, <2>4, <2>6 DEF l, v, Above
      <4> QED BY <4>2, <4>3 DEF RightAt
    <3> QED BY <3>1, <3>2
  <2>9. Ordered' /\ Whole'
    BY <1>0, <1>2, <2>1, <2>6
  <2> QED BY <2>1, <2>7, <2>8, <2>9
<1> QED BY <1>7, <1>8, <1>9, <1>10, <1>11 DEF CounterNext

-----------------------------------------------------------------------------
(* A ring's pair of counters.                                              *)

LEMMA PairInit == ASSUME StatsInit(0 .. MaxCount) PROVE PairIInv
BY DEF StatsInit, PairIInv

LEMMA Parity == \A n \in Nat : (n + 1) \in Nat /\ ((n + 1) % 2 = 0 <=> ~(n % 2 = 0))
OBVIOUS

LEMMA PairStep == ASSUME PairIInv, PairNext PROVE PairIInv'
<1> USE DEF PairIInv
<1>1. CASE WriteBegin
  BY <1>1, Parity DEF WriteBegin
<1>2. CASE WriteBytes
  BY <1>2 DEF WriteBytes
<1>3. CASE WritePackets
  BY <1>3 DEF WritePackets
<1>4. CASE WriteEnd
  BY <1>4, Parity DEF WriteEnd
<1>5. CASE ReadBegin
  BY <1>5 DEF ReadBegin
<1>6. CASE ReadBytes
  BY <1>6 DEF ReadBytes
<1>7. CASE ReadPackets
  BY <1>7 DEF ReadPackets
<1>8. CASE ReadEnd
  <2>1. ~Retry => rbytes = rpackets
    BY <1>8 DEF ReadEnd, Retry
  <2>2. told'[1] = told'[2]
    <3>1. CASE Retry
      BY <1>8, <3>1 DEF ReadEnd
    <3>2. CASE ~Retry
      BY <1>8, <2>1, <3>2 DEF ReadEnd
    <3> QED BY <3>1, <3>2
  <2>3. UNCHANGED <<seq, bytes, packets, wstep>> /\ rstep' = "idle" /\ rstart' = 0
    BY <1>8 DEF ReadEnd
  <2> QED BY <2>2, <2>3
<1> QED BY <1>1, <1>2, <1>3, <1>4, <1>5, <1>6, <1>7, <1>8 DEF PairNext

-----------------------------------------------------------------------------
LEMMA CounterSame == ASSUME CounterIInv, UNCHANGED hwCounters PROVE CounterIInv'
BY DEF CounterIInv, CounterTypes, hwCounters, ReadAt, NarrowAt, RightAt, Above

LEMMA PairSame == ASSUME PairIInv, UNCHANGED ringCounters PROVE PairIInv'
BY DEF PairIInv, ringCounters

LEMMA CountedImplied == ASSUME CounterIInv, PairIInv PROVE CountedTrue
<1> USE Widths
<1>1. CounterTypes
  BY DEF CounterIInv
<1>2. StatsTypeOK
  BY <1>1 DEF CounterTypes, Counter, StatsTypeOK
<1>3. ASSUME fresh >= 0, half = -1
      PROVE  /\ Multicast = carried[1] + fresh - atUp
             /\ wide.val - wide.base = carried[2] + fresh - atUp
  <2>1. ReadAt = fresh /\ NarrowAt = fresh /\ fresh \in Nat
    BY <1>1, <1>3 DEF ReadAt, NarrowAt, CounterTypes
  <2>2. /\ narrow.base \in Int /\ wide.base \in Int /\ atUp \in Int
        /\ carried[1] \in Int /\ carried[2] \in Int
    BY <1>1 DEF CounterTypes, Counter
  <2> DEFINE l == fresh % Low
             m == fresh % Wide
  <2>3. l \in Int /\ m \in Int
    BY <2>1
  <2>4. /\ narrow.val = Above(narrow.val, Low) + l /\ wide.val = Above(wide.val, Wide) + m
        /\ Above(narrow.val, Low) = carried[1] + narrow.base + fresh - atUp - l
        /\ Above(wide.val, Wide) = carried[2] + wide.base + fresh - atUp - m
    BY <1>3, <2>1 DEF CounterIInv, RightAt
  <2> HIDE DEF l, m
  <2> QED BY <2>1, <2>2, <2>3, <2>4 DEF Multicast
<1>4. CountersExact
  BY <1>3 DEF CountersExact
<1>5. RingPairWhole
  BY DEF PairIInv, RingPairWhole
<1> QED BY <1>2, <1>4, <1>5 DEF CountedTrue

\* The lists of ethtool: the names of a part of it fit the values of that part.
Fit(s, v) ==
  /\ \E S : s \in Seq(S)
  /\ \E V : v \in Seq(V)
  /\ Len(s) = Len(v)
  /\ \A k \in 1 .. Len(s) : Shown(s[k], v[k])

\* a function over 1 .. n is a sequence of what it holds
LEMMA Listed ==
  ASSUME NEW n \in Nat, NEW f, f = [k \in 1 .. n |-> f[k]]
  PROVE  f \in Seq({f[k] : k \in 1 .. n}) /\ Len(f) = n
<1>1. f \in [1 .. n -> {f[k] : k \in 1 .. n}]
  OBVIOUS
<1> QED BY <1>1

\* two parts that fit do so one after the other
LEMMA JoinFits ==
  ASSUME NEW s, NEW v, NEW t, NEW w, Fit(s, v), Fit(t, w)
  PROVE  Fit(s \o t, v \o w) /\ Len(s \o t) = Len(s) + Len(t)
<1> PICK S : s \in Seq(S)
  BY DEF Fit
<1> PICK T : t \in Seq(T)
  BY DEF Fit
<1> PICK V : v \in Seq(V)
  BY DEF Fit
<1> PICK W : w \in Seq(W)
  BY DEF Fit
<1>1. /\ s \in Seq(S \cup T) /\ v \in Seq(V \cup W) /\ Len(s) = Len(v)
      /\ t \in Seq(S \cup T) /\ w \in Seq(V \cup W) /\ Len(t) = Len(w)
      /\ Len(s) \in Nat /\ Len(t) \in Nat
  BY DEF Fit
<1>2. /\ s \o t \in Seq(S \cup T) /\ Len(s \o t) = Len(s) + Len(t)
      /\ v \o w \in Seq(V \cup W) /\ Len(v \o w) = Len(v) + Len(w)
  BY <1>1, ConcatProperties
<1>3. ASSUME NEW k \in 1 .. Len(s \o t) PROVE Shown((s \o t)[k], (v \o w)[k])
  <2>1. CASE k <= Len(s)
    <3>1. k \in 1 .. Len(s)
      BY <1>1, <1>2, <2>1
    <3>2. (s \o t)[k] = s[k] /\ (v \o w)[k] = v[k]
      BY <1>1, <3>1
    <3> QED BY <3>1, <3>2 DEF Fit
  <2>2. CASE ~(k <= Len(s))
    <3>1. k - Len(s) \in 1 .. Len(t)
      BY <1>1, <1>2, <2>2
    <3>2. (s \o t)[k] = t[k - Len(s)] /\ (v \o w)[k] = w[k - Len(s)]
      BY <1>1, <1>2, <3>1
    <3> QED BY <3>1, <3>2 DEF Fit
  <2> QED BY <2>1, <2>2
<1> QED BY <1>1, <1>2, <1>3 DEF Fit

\* the names of a queue's entries are those of its words
LEMMA PartsFit ==
  ASSUME NEW kind \in {"tx", "xdp", "rx"}, NEW ext \in BOOLEAN
  PROVE  /\ Len(QueueNames(kind, ext)) = IF ext THEN 5 ELSE 2
         /\ Len(QueueWords(ext)) = IF ext THEN 5 ELSE 2
         /\ \A p \in 1 .. Len(QueueWords(ext)) :
              QueueWords(ext)[p] = QueueWord[QueueNames(kind, ext)[p]]
<1>1. CASE ~ext
  BY <1>1 DEF QueueNames, QueueWords, QueueWord
<1>2. CASE ext
  <2> DEFINE y == IF kind = "rx" THEN "bp_poll_yield" ELSE "bp_napi_yield"
  <2>1. y \in {"bp_poll_yield", "bp_napi_yield"}
    OBVIOUS
  <2>2. QueueNames(kind, ext) = <<"packets", "bytes", y, "bp_misses", "bp_cleaned">>
    BY <1>2 DEF QueueNames
  <2>3. QueueWords(ext) = <<"packets", "bytes", "yields", "misses", "cleaned">>
    BY <1>2 DEF QueueWords
  <2>4. QueueWord[y] = "yields"
    BY <2>1 DEF QueueWord
  <2>6. LET five == QueueNames(kind, ext)
        IN  /\ Len(five) = 5 /\ five[1] = "packets" /\ five[2] = "bytes" /\ five[3] = y
            /\ five[4] = "bp_misses" /\ five[5] = "bp_cleaned"
    BY <2>2
  <2>7. LET five == QueueWords(ext)
        IN  /\ Len(five) = 5 /\ five[1] = "packets" /\ five[2] = "bytes" /\ five[3] = "yields"
            /\ five[4] = "misses" /\ five[5] = "cleaned"
    BY <2>3
  <2>5. /\ QueueWord["packets"] = "packets" /\ QueueWord["bytes"] = "bytes"
        /\ QueueWord["bp_misses"] = "misses" /\ QueueWord["bp_cleaned"] = "cleaned"
    BY DEF QueueWord
  <2> HIDE DEF y
  <2>8. \A p \in 1 .. 5 : p = 1 \/ p = 2 \/ p = 3 \/ p = 4 \/ p = 5
    OBVIOUS
  <2> QED BY <1>2, <2>4, <2>5, <2>6, <2>7, <2>8
<1> QED BY <1>1, <1>2

\* one queue after the other, as many entries as the queues have together
LEMMA QueuesFit ==
  ASSUME NEW kind \in {"tx", "xdp", "rx"}, NEW ext \in BOOLEAN, queues[kind] \in Nat
  PROVE  /\ Fit(QueueStrings(kind, ext), QueueValues(kind, ext))
         /\ Len(QueueStrings(kind, ext)) = queues[kind] * (IF ext THEN 5 ELSE 2)
<1> DEFINE w == IF ext THEN 5 ELSE 2
           n == queues[kind]
           names == QueueNames(kind, ext)
           words == QueueWords(ext)
<1>1. /\ Len(names) = w /\ Len(words) = w
      /\ \A p \in 1 .. w : words[p] = QueueWord[names[p]]
  BY PartsFit
<1>2. w \in Nat /\ w > 0 /\ n \in Nat
  OBVIOUS
<1>3. /\ QueueStrings(kind, ext) = EachQueue(kind, n, names)
      /\ QueueValues(kind, ext) = [j \in 1 .. Len(EachQueue(kind, n, words)) |->
                                     {EachQueue(kind, n, words)[j]}]
  BY DEF QueueStrings, QueueValues
<1> HIDE DEF w, names, words
<1>4. n * w \in Nat
  BY <1>2
<1> DEFINE s == [j \in 1 .. n * w |-> <<kind, (j - 1) \div w, names[((j - 1) % w) + 1]>>]
           u == [j \in 1 .. n * w |-> <<kind, (j - 1) \div w, words[((j - 1) % w) + 1]>>]
           v == [j \in 1 .. n * w |-> {u[j]}]
<1>5. EachQueue(kind, n, names) = s /\ EachQueue(kind, n, words) = u
  BY <1>1 DEF EachQueue
<1>6. ASSUME NEW j \in 1 .. n * w
      PROVE  Shown(s[j], v[j])
  <2> DEFINE i == (j - 1) \div w
             p == ((j - 1) % w) + 1
  <2>1. i \in Nat /\ p \in 1 .. w
    BY <1>2, <1>4
  <2>2. i < n
    <3>1. j - 1 = i * w + (p - 1) /\ j - 1 < n * w /\ p - 1 >= 0
      BY <1>2, <1>4
    <3> HIDE DEF i, p
    <3>2. i * w < n * w
      BY <1>2, <1>4, <2>1, <3>1
    <3> QED BY <1>2, <2>1, <3>2
  <2>3. words[p] = QueueWord[names[p]]
    BY <1>1, <2>1
  <2>4. s[j] = <<kind, i, names[p]>> /\ u[j] = <<kind, i, words[p]>> /\ v[j] = {u[j]}
    OBVIOUS
  <2> HIDE DEF i, p, s, u, v
  <2>5. Shown(s[j], v[j])
    <3>1. s[j][1] = kind /\ s[j][2] = i /\ s[j][3] = names[p] /\ kind # "all"
      BY <2>4
    <3>2. v[j] = {<<kind, i, QueueWord[names[p]]>>}
      BY <2>3, <2>4
    <3>3. \A c \in v[j] : c[1] = kind /\ c[2] = i
      BY <3>2
    <3> QED BY <2>2, <3>1, <3>2, <3>3 DEF Shown
  <2> QED BY <2>5
<1>7. Len(u) = n * w
  BY <1>4
<1>8. QueueStrings(kind, ext) = s /\ QueueValues(kind, ext) = v
  BY <1>3, <1>5, <1>7
<1>9. (\E S : s \in Seq(S)) /\ (\E V : v \in Seq(V)) /\ Len(s) = n * w /\ Len(v) = n * w
  <2>1. s = [j \in 1 .. n * w |-> s[j]] /\ v = [j \in 1 .. n * w |-> v[j]]
    OBVIOUS
  <2> HIDE DEF s, v
  <2> QED BY <1>4, <2>1, Listed
<1>10. Fit(s, v)
  BY <1>6, <1>9 DEF Fit
<1> HIDE DEF s, u, v, n
<1> QED BY <1>8, <1>9, <1>10 DEF w, n

\* every sum is the one that is meant, of rings that there are
LEMMA StatFits ==
  ASSUME queues.tx \in Nat, queues.xdp \in Nat, queues.rx \in Nat, queues.tx <= queues.rx
  PROVE  /\ Fit([k \in 1 .. Len(StatNames) |-> <<"all", 0, StatNames[k]>>], StatFields)
         /\ Len(StatNames) = 12
<1> DEFINE s == [k \in 1 .. Len(StatNames) |-> <<"all", 0, StatNames[k]>>]
           N == {"rx_packets", "tx_packets", "rx_bytes", "tx_bytes", "tx_busy",
                 "tx_restart_queue", "tx_timeout_count", "multicast",
                 "rx_csum_offload_errors", "alloc_rx_page", "alloc_rx_page_failed",
                 "alloc_rx_buff_failed"}
<1>1. Len(StatNames) = 12 /\ \A k \in 1 .. 12 : StatNames[k] \in N
  BY DEF StatNames
<1>2. s = [k \in 1 .. 12 |-> <<"all", 0, StatNames[k]>>]
      /\ StatFields = [k \in 1 .. 12 |-> StatField[StatNames[k]]]
  BY <1>1 DEF StatFields
<1> DEFINE Right(x) == \A c \in x : c[1] \in {"tx", "xdp", "rx"} => c[2] < queues[c[1]]
<1>3. \A x \in N : StatField[x] = Meant(x)
  <2>1. /\ StatField["rx_packets"] = Meant("rx_packets")
       /\ StatField["tx_packets"] = Meant("tx_packets")
       /\ StatField["rx_bytes"] = Meant("rx_bytes")
       /\ StatField["tx_bytes"] = Meant("tx_bytes")
    BY DEF StatField, Meant, NetStats, AdapterStats, TxWord, RxWord
  <2>2. /\ StatField["tx_busy"] = Meant("tx_busy")
       /\ StatField["tx_restart_queue"] = Meant("tx_restart_queue")
       /\ StatField["tx_timeout_count"] = Meant("tx_timeout_count")
       /\ StatField["multicast"] = Meant("multicast")
    BY DEF StatField, Meant, NetStats, AdapterStats, TxWord, RxWord
  <2>3. /\ StatField["rx_csum_offload_errors"] = Meant("rx_csum_offload_errors")
       /\ StatField["alloc_rx_page"] = Meant("alloc_rx_page")
       /\ StatField["alloc_rx_page_failed"] = Meant("alloc_rx_page_failed")
       /\ StatField["alloc_rx_buff_failed"] = Meant("alloc_rx_buff_failed")
    BY DEF StatField, Meant, NetStats, AdapterStats, TxWord, RxWord
  <2> QED BY <2>1, <2>2, <2>3
<1>4. \A word : /\ Right(Over("rx", queues.rx, word)) /\ Right(Over("rx", queues.tx, word))
                /\ Right(Over("tx", queues.tx, word)) /\ Right(Over("xdp", queues.xdp, word))
  BY DEF Over
<1>5. \A x, y : Right(x) /\ Right(y) => Right(x \cup y)
  OBVIOUS
<1>6. Right({<<"hw", 0, "vfmprc">>}) /\ Right({<<"adapter", 0, "tx_timeout_count">>})
  OBVIOUS
<1> HIDE DEF Right
<1>7. ASSUME NEW x \in N PROVE Right(Meant(x))
  BY <1>4, <1>5, <1>6 DEF Meant
<1> HIDE DEF s, N
<1>8. ASSUME NEW k \in 1 .. 12 PROVE Shown(s[k], StatFields[k])
  <2>1. s[k] = <<"all", 0, StatNames[k]>> /\ StatFields[k] = Meant(StatNames[k])
    BY <1>1, <1>2, <1>3
  <2>2. s[k][1] = "all" /\ s[k][3] = StatNames[k] /\ StatNames[k] \in N
    BY <1>1, <2>1
  <2> QED BY <1>7, <2>1, <2>2 DEF Right, Shown
<1>9. /\ s = [k \in 1 .. 12 |-> s[k]] /\ StatFields = [k \in 1 .. 12 |-> StatFields[k]]
  BY <1>2
<1>10. (\E S : s \in Seq(S)) /\ Len(s) = 12
  BY <1>9, Listed
<1>11. (\E V : StatFields \in Seq(V)) /\ Len(StatFields) = 12
  BY <1>9, Listed
<1>12. Fit(s, StatFields)
  BY <1>8, <1>10, <1>11 DEF Fit
<1> QED BY <1>1, <1>12 DEF s

LEMMA LayoutRight == ASSUME queues \in QueueNumbers PROVE StatsLayout
<1>1. /\ queues.tx \in Nat /\ queues.xdp \in Nat /\ queues.rx \in Nat /\ queues.ext \in BOOLEAN
      /\ queues.tx <= queues.rx /\ (queues.ext => queues.xdp = 0)
  BY StatsAssumption DEF QueueNumbers
<1> DEFINE g == [k \in 1 .. Len(StatNames) |-> <<"all", 0, StatNames[k]>>]
           t == QueueStrings("tx", queues.ext)
           x == QueueStrings("xdp", FALSE)
           r == QueueStrings("rx", queues.ext)
           u == QueueValues("tx", queues.ext)
           y == QueueValues("xdp", FALSE)
           z == QueueValues("rx", queues.ext)
           w == IF queues.ext THEN 5 ELSE 2
<1>2. Fit(g, StatFields) /\ Len(g) = 12 /\ Len(StatNames) = 12
  BY <1>1, StatFits
<1>3. /\ Fit(t, u) /\ Len(t) = queues.tx * w
      /\ Fit(r, z) /\ Len(r) = queues.rx * w
  BY <1>1, QueuesFit
<1>4. Fit(x, y) /\ Len(x) = queues.xdp * w
  <2>1. Fit(x, y) /\ Len(x) = queues.xdp * 2
    BY <1>1, QueuesFit
  <2>2. queues.xdp * 2 = queues.xdp * w
    BY <1>1
  <2> QED BY <2>1, <2>2
<1>5. w \in Nat
  OBVIOUS
<1>6. /\ GetStrings = g \o t \o x \o r /\ GetEthtoolStats = StatFields \o u \o y \o z
      /\ GetSsetCount = Len(StatNames) + (queues.tx + queues.xdp + queues.rx) * w
  BY DEF GetStrings, GetEthtoolStats, GetSsetCount
<1> HIDE DEF g, t, x, r, u, y, z, w
<1>7. Fit(g \o t, StatFields \o u) /\ Len(g \o t) = Len(g) + Len(t)
  BY <1>2, <1>3, JoinFits
<1>8. /\ Fit(g \o t \o x, StatFields \o u \o y) /\ Len(g \o t \o x) = Len(g \o t) + Len(x)
  BY <1>4, <1>7, JoinFits
<1>9. /\ Fit(g \o t \o x \o r, StatFields \o u \o y \o z)
      /\ Len(g \o t \o x \o r) = Len(g \o t \o x) + Len(r)
  BY <1>3, <1>8, JoinFits
<1>10. Len(GetStrings) = 12 + queues.tx * w + queues.xdp * w + queues.rx * w
  BY <1>1, <1>2, <1>3, <1>4, <1>5, <1>6, <1>7, <1>8, <1>9
<1>11. 12 + queues.tx * w + queues.xdp * w + queues.rx * w =
         12 + (queues.tx + queues.xdp + queues.rx) * w
  BY <1>1, <1>5
<1>12. Len(GetStrings) = GetSsetCount
  BY <1>2, <1>6, <1>10, <1>11
<1>13. Fit(GetStrings, GetEthtoolStats)
  BY <1>6, <1>9
<1> QED BY <1>12, <1>13 DEF Fit, StatsLayout

\* For registers of any width, whatever is counted before the driver comes and however
\* often the registers come round: between two readings within one turn the driver counts
\* exactly, over any number of resets (UPDATE_VF_COUNTER_32bit, _36bit,
\* ixgbevf_save_reset_stats); a reader of a ring never mixes two updates
\* (u64_stats_fetch_retry in ixgbevf_get_stats64); and for any number of queues ethtool is
\* given as many names as values (ixgbevf_get_sset_count), each value the sum over existing
\* rings that its name says, but for tx_busy and tx_restart_queue, which ixgbevf_update_stats
\* takes from receive rings.
THEOREM CountedExactly == StatsSpec => []StatsTrue
<1> DEFINE Inv == CounterIInv /\ PairIInv /\ queues \in QueueNumbers
<1>1. StatsInit(0 .. MaxCount) => Inv
  <2>1. StatsInit(0 .. MaxCount) => queues \in QueueNumbers
    BY StatsAssumption DEF StatsInit, QueueNumbers
  <2> QED BY <2>1, CounterInit, PairInit
<1>2. Inv /\ [CounterNext \/ PairNext \/ LayoutNext]_statVars => Inv'
  <2> SUFFICES ASSUME Inv, [CounterNext \/ PairNext \/ LayoutNext]_statVars PROVE Inv'
    OBVIOUS
  <2>1. CASE CounterNext
    <3>1. UNCHANGED <<ringCounters, queues>>
      BY <2>1 DEF CounterNext, Count, UpdateStats, UpdateStatsHigh, StatsDown, StatsUp
    <3> QED BY <2>1, <3>1, CounterStep, PairSame
  <2>2. CASE PairNext
    <3>1. UNCHANGED <<hwCounters, queues>>
      BY <2>2 DEF PairNext, WriteBegin, WriteBytes, WritePackets, WriteEnd, ReadBegin,
                  ReadBytes, ReadPackets, ReadEnd
    <3> QED BY <2>2, <3>1, PairStep, CounterSame
  <2>3. CASE LayoutNext
    BY <2>3, CounterSame, PairSame DEF LayoutNext, Requeue
  <2>4. CASE UNCHANGED statVars
    BY <2>4, CounterSame, PairSame DEF statVars
  <2> QED BY <2>1, <2>2, <2>3, <2>4
<1>3. Inv => StatsTrue
  BY CountedImplied, LayoutRight DEF StatsTrue
<1> QED BY <1>1, <1>2, <1>3, PTL DEF StatsSpec

-----------------------------------------------------------------------------
(* The transmit ring of an XDP program, for every size of the ring, every  *)
(* set of pages and every budget of the cleaning poll.                     *)

\* Where the next cleaning starts: the poll's own i until it stores next_to_clean.
Place == IF cleaning THEN cpos ELSE xntc

Packet(i) == xwatch[i] # Nowhere

\* The packet that brought the context is still on the ring, in slots 0 and 1.
FirstPacket == xwatch[0] = 1

\* How far down the adapter is says which polls may run.
XdpAdmInv ==
  /\ xdpAdm \in {"up", "down", "off", "flushed", "clean"}
  /\ rxPoll \in {"idle", "loop", "watch"} /\ (rxPoll = "idle" => ~xmitted)
  /\ xdpAdm \in {"off", "flushed", "clean"} => rxPoll = "idle" /\ ~cleaning

\* Cleaning follows the hardware, which follows the tail, which follows next_to_use.
OrderInv ==
  /\ Gap(Place, xhead) <= Gap(Place, xtail) /\ Gap(Place, xtail) <= Gap(Place, xntu)
  /\ Gap(xntc, Place) + Gap(Place, xntu) = Gap(xntc, xntu)
  /\ ~xmitted => xtail = xntu

\* Between cleaning and next_to_use every slot starts a packet, save the second slot of
\* the first one.
PacketInv ==
  /\ \A i \in Index : Packet(i) <=> i \in Span(Place, xntu) /\ ~(i = 1 /\ FirstPacket)
  /\ \A i \in Index : Packet(i) => xwatch[i] = i \/ (i = 0 /\ FirstPacket)
  /\ FirstPacket => Place = 0 /\ Gap(0, xntu) >= 2

\* What the hardware has not read is not reported as done.
DoneInv == \A i \in Span(xhead, xntu) : i \notin xdd

\* The context is on the ring exactly as long as the hardware has not seen it.
ContextInv ==
  /\ ~primed => xntu = 0 /\ ~hwCtx /\ rxPoll # "watch"
  /\ ~hwCtx => xhead = 0 /\ Place = 0 /\ xntc = 0 /\ (xntu = 0 \/ FirstPacket)
  /\ primed /\ rxPoll # "watch" => hwCtx \/ FirstPacket
  /\ FirstPacket /\ hwCtx => xhead # 0
  /\ FirstPacket => xdesc[0] = "ctx"

\* A packet holds its page, mapped and in its descriptor; no two hold the same one.
PageInv ==
  /\ \A i \in Index : Packet(i) => xdata[i] \in onRing /\ xlen[i] /\ xdesc[xwatch[i]] = xdata[i]
  /\ \A i, j \in Index : Packet(i) /\ Packet(j) /\ xdata[i] = xdata[j] => i = j
  /\ \A p \in onRing : \E i \in Index : Packet(i) /\ xdata[i] = p

\* The packet under construction: written, in slots that are free and not done.
HandInv ==
  rxPoll = "watch" =>
    /\ Unused > 0 /\ xbuf \in Pages \ onRing
    /\ xdata[xntu] = xbuf /\ xlen[xntu] /\ xdesc[xslot] = xbuf
    /\ xslot \notin xdd /\ xntu \notin xdd
    /\ \/ xslot = xntu /\ (hwCtx \/ FirstPacket)
       \/ xslot = 1 /\ xntu = 0 /\ ~hwCtx /\ xdesc[0] = "ctx"

RingOfPackets == OrderInv /\ PacketInv /\ DoneInv /\ ContextInv /\ PageInv /\ HandInv

XdpIInv ==
  /\ XdpTypeOK /\ XdpAdmInv /\ ~twice /\ (~hwCtx => xhead = 0)
  /\ xdpAdm = "clean" => onRing = {}
  /\ xdpAdm # "clean" => RingOfPackets

-----------------------------------------------------------------------------
(* The ring's arithmetic.                                                  *)

LEMMA IndexFacts ==
  /\ XdpCount \in Nat /\ XdpCount > 2
  /\ 0 \in Index /\ 1 \in Index /\ Nowhere \notin Index
  /\ \A i \in Index : i \in Int /\ 0 <= i /\ i < XdpCount
BY XdpAssumption DEF Index, Nowhere

LEMMA GapFacts ==
  ASSUME NEW a \in Index, NEW b \in Index
  PROVE  /\ Gap(a, b) \in Int /\ 0 <= Gap(a, b) /\ Gap(a, b) < XdpCount
         /\ Gap(a, b) = 0 <=> a = b
         /\ Gap(a, a) = 0
BY IndexFacts DEF Gap, Index

\* A slot is found at its distance only.
LEMMA GapOne ==
  ASSUME NEW a \in Index, NEW b \in Index, NEW c \in Index, Gap(a, b) = Gap(a, c)
  PROVE  b = c
BY IndexFacts DEF Gap, Index

LEMMA AfterFacts ==
  ASSUME NEW a \in Index, NEW b \in Index
  PROVE  /\ After(b) \in Index /\ After(b) # b
         /\ Gap(a, b) < XdpCount - 1 => Gap(a, After(b)) = Gap(a, b) + 1
         /\ Gap(a, b) > 0 => Gap(After(a), b) = Gap(a, b) - 1
BY IndexFacts DEF Gap, After, Index

\* Two ways around the ring are one after the other.
LEMMA GapSum ==
  ASSUME NEW a \in Index, NEW b \in Index, NEW c \in Index
  PROVE  Gap(a, b) <= Gap(a, c) <=> Gap(a, b) + Gap(b, c) = Gap(a, c)
BY IndexFacts DEF Gap, Index

LEMMA GapAdd ==
  ASSUME NEW a \in Index, NEW b \in Index, NEW c \in Index, Gap(a, b) + Gap(b, c) < XdpCount
  PROVE  Gap(a, c) = Gap(a, b) + Gap(b, c)
BY IndexFacts DEF Gap, Index

LEMMA SpanAfter ==
  ASSUME NEW a \in Index, NEW b \in Index, a # b, NEW i \in Index
  PROVE  i \in Span(After(a), b) <=> i \in Span(a, b) /\ i # a
<1>1. CASE i = a
  <2>1. Gap(After(a), a) = XdpCount - 1
    BY IndexFacts DEF Gap, After, Index
  <2> QED BY <1>1, <2>1, IndexFacts, AfterFacts, GapFacts DEF Span
<1>2. CASE i # a
  <2>1. Gap(a, i) \in Int /\ Gap(a, i) > 0 /\ Gap(a, b) \in Int /\ Gap(a, b) > 0
    BY <1>2, GapFacts
  <2>2. Gap(After(a), i) = Gap(a, i) - 1 /\ Gap(After(a), b) = Gap(a, b) - 1
    BY <2>1, AfterFacts
  <2> QED BY <1>2, <2>1, <2>2 DEF Span
<1> QED BY <1>1, <1>2

LEMMA UnusedGap ==
  ASSUME xntc \in Index, xntu \in Index
  PROVE  Unused = XdpCount - 1 - Gap(xntc, xntu)
BY IndexFacts DEF Gap, Unused, Index

-----------------------------------------------------------------------------
LEMMA XdpInitInv == ASSUME XdpInit PROVE XdpIInv
<1> USE IndexFacts
<1>1. XdpTypeOK
  <2>1. {primed, hwCtx, xmitted, cleaning, twice} \subseteq BOOLEAN
    BY Zenon DEF XdpInit
  <2> QED BY <2>1 DEF XdpInit, XdpTypeOK, Nowhere
<1>2. XdpAdmInv /\ ~twice /\ xdpAdm = "up" /\ ~hwCtx /\ xhead = 0 /\ Place = 0
  BY DEF XdpInit, XdpAdmInv, Place
<1>3. \A i \in Index : ~Packet(i)
  BY DEF XdpInit, Packet
<1>4. ~FirstPacket
  BY DEF XdpInit, FirstPacket, Nowhere
<1>5. Span(0, 0) = {}
  BY GapFacts DEF Span
<1>6. OrderInv
  BY <1>2, GapFacts DEF XdpInit, OrderInv
<1>7. PacketInv /\ DoneInv /\ ContextInv /\ PageInv /\ HandInv
  BY <1>2, <1>3, <1>4, <1>5 DEF XdpInit, PacketInv, DoneInv, ContextInv, PageInv, HandInv
<1> QED BY <1>1, <1>2, <1>6, <1>7 DEF XdpIInv, RingOfPackets

-----------------------------------------------------------------------------
(* Types.                                                                  *)

LEMMA XdpTypeStep == ASSUME XdpIInv, XdpNext PROVE XdpTypeOK'
<1> USE IndexFacts DEF xbufVars, xhwVars, xrxVars, xclnVars
<1>0. XdpTypeOK
  BY DEF XdpIInv
<1>1. {primed, hwCtx, xmitted, cleaning, twice} \subseteq BOOLEAN
  BY <1>0, Zenon DEF XdpTypeOK
<1>2. {xntu, xntc, xhead, xtail, cpos, xslot} \subseteq Index
  BY <1>0, Zenon DEF XdpTypeOK
<1>3. /\ xdata \in [Index -> Pages \cup {NoPage}] /\ xlen \in [Index -> BOOLEAN]
      /\ xwatch \in [Index -> 0 .. XdpCount] /\ xdesc \in [Index -> Pages \cup {"ctx", NoPage}]
      /\ xdd \subseteq Index /\ onRing \subseteq Pages /\ xbuf \in Pages \cup {NoPage}
  BY <1>0, Zenon DEF XdpTypeOK
<1>4. ASSUME NEW i \in Index PROVE After(i) \in Index
  BY <1>4, AfterFacts
<1>5. Index \subseteq 0 .. XdpCount /\ Nowhere \in 0 .. XdpCount
  BY DEF Index, Nowhere
<1>10. CASE RxPollBegin
  <2>1. {primed', hwCtx', xmitted', cleaning', twice'} \subseteq BOOLEAN
    BY <1>1, <1>10, Zenon DEF RxPollBegin
  <2> QED BY <1>2, <1>3, <1>10, <2>1 DEF RxPollBegin, XdpTypeOK
<1>11. CASE XmitXdpWatch
  <2>1. {primed', hwCtx', xmitted', cleaning', twice'} \subseteq BOOLEAN
    BY <1>1, <1>11, Zenon DEF XmitXdpWatch
  <2>2. xbuf \in Pages
    BY <1>11 DEF XdpIInv, RingOfPackets, HandInv, XdpAdmInv, XmitXdpWatch
  <2>3. xwatch' \in [Index -> 0 .. XdpCount] /\ After(xslot) \in Index
    BY <1>2, <1>3, <1>4, <1>5, <1>11 DEF XmitXdpWatch
  <2> QED BY <1>2, <1>3, <1>11, <2>1, <2>2, <2>3 DEF XmitXdpWatch, XdpTypeOK
<1>12. CASE RxPollEnd
  <2>1. {primed', hwCtx', xmitted', cleaning', twice'} \subseteq BOOLEAN
    BY <1>1, <1>12, Zenon DEF RxPollEnd
  <2> QED BY <1>2, <1>3, <1>12, <2>1 DEF RxPollEnd, XdpTypeOK
<1>13. ASSUME NEW p \in Pages, XmitXdpRing(p) PROVE XdpTypeOK'
  <2>1. {primed', hwCtx', xmitted', cleaning', twice'} \subseteq BOOLEAN
    BY <1>1, <1>13, Zenon DEF XmitXdpRing
  <2>2. DataAt \in Index
    BY <1>2 DEF DataAt
  <2>3. /\ xdata' \in [Index -> Pages \cup {NoPage}]
        /\ xdesc' \in [Index -> Pages \cup {"ctx", NoPage}]
    BY <1>2, <1>3, <1>13, <2>2 DEF XmitXdpRing
  <2>4. xlen' \in [Index -> BOOLEAN]
    BY <1>3, <1>13, Zenon DEF XmitXdpRing
  <2> QED BY <1>2, <1>3, <1>13, <2>1, <2>2, <2>3, <2>4 DEF XmitXdpRing, XdpTypeOK
<1>14. CASE CleanXdpBegin
  <2>1. {primed', hwCtx', xmitted', cleaning', twice'} \subseteq BOOLEAN
    BY <1>1, <1>14, Zenon DEF CleanXdpBegin
  <2> QED BY <1>2, <1>3, <1>14, <2>1 DEF CleanXdpBegin, XdpTypeOK
<1>15. CASE CleanXdpPacket
  <2>1. {primed', hwCtx', xmitted', cleaning', twice'} \subseteq BOOLEAN
    BY <1>1, <1>15, Zenon DEF CleanXdpPacket
  <2>2. After(xwatch[cpos]) \in Index
    BY <1>3, <1>4, <1>15 DEF CleanXdpPacket, XdpDone
  <2>3. xwatch' \in [Index -> 0 .. XdpCount]
    BY <1>3, <1>5, <1>15 DEF CleanXdpPacket
  <2>4. xlen' \in [Index -> BOOLEAN]
    BY <1>3, <1>15, Zenon DEF CleanXdpPacket
  <2> QED BY <1>2, <1>3, <1>15, <2>1, <2>2, <2>3, <2>4 DEF CleanXdpPacket, XdpTypeOK
<1>16. CASE CleanXdpEnd
  <2>1. {primed', hwCtx', xmitted', cleaning', twice'} \subseteq BOOLEAN
    BY <1>1, <1>16, Zenon DEF CleanXdpEnd
  <2> QED BY <1>2, <1>3, <1>16, <2>1 DEF CleanXdpEnd, XdpTypeOK
<1>17. CASE XdpFetch
  <2>1. {primed', hwCtx', xmitted', cleaning', twice'} \subseteq BOOLEAN
    BY <1>1, <1>17, Zenon DEF XdpFetch
  <2>2. After(xhead) \in Index
    BY <1>2, <1>4
  <2> QED BY <1>2, <1>3, <1>17, <2>1, <2>2 DEF XdpFetch, XdpTypeOK
<1>18. CASE XdpDown \/ XdpNapiOff \/ XdpFlush
  BY <1>0, <1>18 DEF XdpDown, XdpNapiOff, XdpFlush, XdpTypeOK
<1>19. CASE CleanXdpRing
  <2>1. {primed', hwCtx', xmitted', cleaning', twice'} \subseteq BOOLEAN
    BY <1>1, <1>19, Zenon DEF CleanXdpRing
  <2> QED BY <1>2, <1>3, <1>19, <2>1 DEF CleanXdpRing, XdpTypeOK
<1>20. CASE ConfigureXdpRing
  <2>1. {primed', hwCtx', xmitted', cleaning', twice'} \subseteq BOOLEAN
    BY <1>1, <1>20, Zenon DEF ConfigureXdpRing, PrimedAgain
  <2> QED BY <1>2, <1>3, <1>5, <1>20, <2>1 DEF ConfigureXdpRing, XdpTypeOK
<1> QED BY <1>10, <1>11, <1>12, <1>13, <1>14, <1>15, <1>16, <1>17, <1>18, <1>19, <1>20
        DEF XdpNext

-----------------------------------------------------------------------------
(* The ring of packets is kept by every step between two configurations.   *)

\* What the steps below start from.
LEMMA RingFacts ==
  ASSUME XdpIInv
  PROVE  /\ xntu \in Index /\ xntc \in Index /\ xhead \in Index /\ xtail \in Index
         /\ cpos \in Index /\ xslot \in Index /\ Place \in Index
         /\ xdata \in [Index -> Pages \cup {NoPage}] /\ xlen \in [Index -> BOOLEAN]
         /\ xwatch \in [Index -> 0 .. XdpCount]
         /\ xdesc \in [Index -> Pages \cup {"ctx", NoPage}]
         /\ xdd \subseteq Index /\ onRing \subseteq Pages
BY DEF XdpIInv, XdpTypeOK, Place

\* Steps that leave the ring alone, and the tail with it.
LEMMA QuietStep ==
  ASSUME XdpIInv, RingOfPackets, RxPollBegin \/ XdpDown \/ XdpNapiOff \/ XdpFlush
  PROVE  RingOfPackets'
<1>1. /\ UNCHANGED <<xntu, xntc, primed, xdata, xlen, xwatch, xdesc, xdd, xhead, xtail, hwCtx>>
      /\ UNCHANGED <<xbuf, xslot, cleaning, cpos, onRing>>
      /\ (xmitted' <=> xmitted) /\ (rxPoll = "watch" <=> rxPoll' = "watch")
  BY DEF XdpIInv, XdpAdmInv, RxPollBegin, XdpDown, XdpNapiOff, XdpFlush, xbufVars, xhwVars, xrxVars,
         xclnVars
<1>2. Place' = Place /\ (FirstPacket' <=> FirstPacket) /\ Unused' = Unused
      /\ \A i : Packet(i)' <=> Packet(i)
  BY <1>1 DEF Place, FirstPacket, Unused, Packet
<1>3. OrderInv' /\ PacketInv' /\ DoneInv'
  BY <1>1, <1>2 DEF RingOfPackets, OrderInv, PacketInv, DoneInv, Span, Gap
<1>4. ContextInv' /\ PageInv' /\ HandInv'
  BY <1>1, <1>2 DEF RingOfPackets, ContextInv, PageInv, HandInv
<1> QED BY <1>3, <1>4 DEF RingOfPackets

\* The poll ends: the tail goes to next_to_use.
LEMMA PollEndStep ==
  ASSUME XdpIInv, RingOfPackets, RxPollEnd
  PROVE  RingOfPackets'
<1>1. /\ UNCHANGED <<xntu, xntc, primed, xdata, xlen, xwatch, xdesc, xdd, xhead, hwCtx>>
      /\ UNCHANGED <<xbuf, xslot, cleaning, cpos, onRing>>
      /\ xtail' = xntu /\ rxPoll # "watch" /\ rxPoll' # "watch"
  BY DEF RingOfPackets, OrderInv, RxPollEnd, XdpTail, xbufVars, xhwVars, xclnVars
<1>2. Place' = Place /\ (FirstPacket' <=> FirstPacket)
      /\ \A i : Packet(i)' <=> Packet(i)
  BY <1>1 DEF Place, FirstPacket, Packet
<1>3. OrderInv'
  <2>1. Gap(Place, xhead) <= Gap(Place, xntu)
    BY RingFacts, GapFacts DEF RingOfPackets, OrderInv
  <2> QED BY <1>1, <1>2, <2>1, RingFacts, GapFacts DEF RingOfPackets, OrderInv, Gap
<1>4. PacketInv' /\ DoneInv'
  BY <1>1, <1>2 DEF RingOfPackets, PacketInv, DoneInv, Span, Gap
<1>5. ContextInv' /\ PageInv' /\ HandInv'
  BY <1>1, <1>2 DEF RingOfPackets, ContextInv, PageInv, HandInv
<1> QED BY <1>3, <1>4, <1>5 DEF RingOfPackets

\* A cleaning starts at next_to_clean, or ends and moves it.
LEMMA CleanBoundsStep ==
  ASSUME XdpIInv, RingOfPackets, CleanXdpBegin \/ CleanXdpEnd
  PROVE  RingOfPackets'
<1> USE RingFacts, IndexFacts
<1>1. /\ UNCHANGED <<xntu, primed, xdata, xlen, xwatch, xdesc, xdd, xhead, xtail, hwCtx>>
      /\ UNCHANGED <<rxPoll, xmitted, xbuf, xslot, onRing>>
  BY DEF CleanXdpBegin, CleanXdpEnd, xbufVars, xhwVars, xrxVars
<1>2. Place' = Place /\ (xntc' = xntc \/ xntc' = Place) /\ xntc' \in Index
  BY DEF CleanXdpBegin, CleanXdpEnd, Place
<1>3. (FirstPacket' <=> FirstPacket) /\ \A i : Packet(i)' <=> Packet(i)
  BY <1>1 DEF FirstPacket, Packet
<1>4. OrderInv' /\ Gap(xntc', xntu) <= Gap(xntc, xntu)
  <2>1. CASE xntc' = xntc
    <3>1. OrderInv'
      BY <1>1, <1>2, <2>1 DEF RingOfPackets, OrderInv, Gap
    <3> QED BY <2>1, <3>1, GapFacts
  <2>2. CASE xntc' = Place
    <3>1. Gap(Place, xntu) <= Gap(xntc, xntu)
      BY GapFacts DEF RingOfPackets, OrderInv
    <3>2. Gap(xntc, Place)' = 0 /\ Gap(Place, xntu)' = Gap(Place, xntu)
          /\ Gap(xntc, xntu)' = Gap(Place, xntu)
          /\ Gap(Place, xhead)' = Gap(Place, xhead) /\ Gap(Place, xtail)' = Gap(Place, xtail)
      BY <1>1, <1>2, <2>2 DEF Gap
    <3> QED BY <1>1, <2>2, <3>1, <3>2, GapFacts DEF RingOfPackets, OrderInv
  <2> QED BY <1>2, <2>1, <2>2
<1>5. PacketInv' /\ DoneInv'
  BY <1>1, <1>2, <1>3 DEF RingOfPackets, PacketInv, DoneInv, Span, Gap
<1>6. ContextInv' /\ PageInv'
  BY <1>1, <1>2, <1>3 DEF RingOfPackets, ContextInv, PageInv
<1>7. HandInv'
  <2>1. Unused > 0 => Unused' > 0
    <3>1. Unused = XdpCount - 1 - Gap(xntc, xntu)
      BY UnusedGap
    <3>2. xntc' \in Int /\ xntu' = xntu /\ xntu \in Int /\ XdpCount \in Int
      BY <1>1, <1>2
    <3>3. Unused' = XdpCount - 1 - Gap(xntc', xntu)
      BY ONLY <3>2 DEF Gap, Unused
    <3> QED BY <1>2, <1>4, <3>1, <3>3, GapFacts
  <2> QED BY <1>1, <1>3, <2>1 DEF RingOfPackets, HandInv
<1> QED BY <1>4, <1>5, <1>6, <1>7 DEF RingOfPackets

\* Nothing stands at next_to_use, and the hardware has not come to it.
LEMMA NtuFree ==
  ASSUME XdpIInv, RingOfPackets
  PROVE  /\ ~Packet(xntu)
         /\ \A i \in Index : Packet(i) => i # xntu /\ xwatch[i] \in Index /\ xwatch[i] # xntu
         /\ FirstPacket => xntu # 0 /\ xntu # 1
         /\ Gap(Place, xntu) <= Gap(xntc, xntu)
         /\ Gap(Place, xhead) + Gap(xhead, xntu) = Gap(Place, xntu)
         /\ Gap(Place, xhead) <= Gap(Place, xntu)
<1> USE RingFacts, IndexFacts
<1>1. ~Packet(xntu)
  BY GapFacts DEF RingOfPackets, PacketInv, Span
<1>2. FirstPacket => xntu # 0 /\ xntu # 1
  BY DEF RingOfPackets, PacketInv, Gap
<1>3. \A i \in Index : Packet(i) => i # xntu /\ xwatch[i] \in Index /\ xwatch[i] # xntu
  BY <1>1, <1>2 DEF RingOfPackets, PacketInv, FirstPacket
<1>4. Gap(Place, xntu) <= Gap(xntc, xntu) /\ Gap(Place, xhead) <= Gap(Place, xntu)
  BY GapFacts DEF RingOfPackets, OrderInv
<1> QED BY <1>1, <1>2, <1>3, <1>4, GapSum

\* The page and its descriptors are written, in slots that no packet uses.
LEMMA XmitStep ==
  ASSUME XdpIInv, RingOfPackets, NEW p \in Pages, XmitXdpRing(p)
  PROVE  RingOfPackets'
<1> USE RingFacts, IndexFacts
<1>1. /\ UNCHANGED <<xntu, xntc, xwatch, xhead, xtail, hwCtx, xmitted, cleaning, cpos, onRing>>
      /\ rxPoll = "loop" /\ rxPoll' = "watch" /\ primed' /\ Unused > 0 /\ p \notin onRing
      /\ xbuf' = p /\ xslot' = DataAt /\ DataAt \in Index
      /\ xdd' = xdd \ {DataAt, xntu}
  <2>1. ~primed => xntu = 0
    BY DEF RingOfPackets, ContextInv
  <2> QED BY <2>1 DEF XmitXdpRing, DataAt, xhwVars, xclnVars
<1>2. /\ \A i \in Index : xdata'[i] = IF i = xntu THEN p ELSE xdata[i]
      /\ \A i \in Index : xlen'[i] <=> i = xntu \/ xlen[i]
  BY DEF XmitXdpRing
<1>3. /\ Place' = Place /\ (FirstPacket' <=> FirstPacket) /\ Unused' = Unused
      /\ \A i : Packet(i)' <=> Packet(i)
  BY <1>1 DEF Place, FirstPacket, Unused, Packet
<1>4. OrderInv' /\ PacketInv' /\ DoneInv'
  BY <1>1, <1>3 DEF RingOfPackets, OrderInv, PacketInv, DoneInv, Span, Gap
<1>5. CASE primed
  <2>1. DataAt = xntu /\ (hwCtx \/ FirstPacket)
    BY <1>1, <1>5 DEF DataAt, RingOfPackets, ContextInv
  <2>2. \A i \in Index : xdesc'[i] = IF i = xntu THEN p ELSE xdesc[i]
    BY <1>5, <2>1 DEF XmitXdpRing
  <2>3. ContextInv'
    BY <1>1, <1>3, <2>1, <2>2, NtuFree DEF RingOfPackets, ContextInv
  <2>4. PageInv'
    BY <1>1, <1>2, <1>3, <2>2, NtuFree DEF RingOfPackets, PageInv
  <2>5. HandInv'
    BY <1>1, <1>2, <1>3, <2>1, <2>2 DEF HandInv
  <2> QED BY <1>4, <2>3, <2>4, <2>5 DEF RingOfPackets
<1>6. CASE ~primed
  <2>1. DataAt = 1 /\ xntu = 0 /\ ~hwCtx /\ Place = 0 /\ ~FirstPacket
    BY <1>6, NtuFree DEF DataAt, RingOfPackets, ContextInv
  <2>2. \A i \in Index : ~Packet(i)
    BY <2>1, GapFacts DEF RingOfPackets, PacketInv, Span
  <2>3. xdesc'[0] = "ctx" /\ xdesc'[1] = p
    BY <1>6, <2>1 DEF XmitXdpRing
  <2>4. ContextInv'
    BY <1>1, <1>3, <2>1 DEF RingOfPackets, ContextInv
  <2>5. PageInv'
    BY <1>1, <1>3, <2>2 DEF RingOfPackets, PageInv
  <2>6. HandInv'
    BY <1>1, <1>2, <1>3, <2>1, <2>3 DEF HandInv
  <2> QED BY <1>4, <2>4, <2>5, <2>6 DEF RingOfPackets
<1> QED BY <1>5, <1>6

\* The packet becomes one: next_to_watch is set and next_to_use goes past it.
LEMMA WatchStep ==
  ASSUME XdpIInv, RingOfPackets, XmitXdpWatch
  PROVE  RingOfPackets'
<1> USE RingFacts, IndexFacts
<1>1. /\ UNCHANGED <<xntc, primed, xdata, xlen, xdesc, xdd, xhead, xtail, hwCtx, cleaning, cpos>>
      /\ xntu' = After(xslot) /\ rxPoll' # "watch" /\ xmitted' /\ onRing' = onRing \cup {xbuf}
      /\ \A i \in Index : xwatch'[i] = IF i = xntu THEN xslot ELSE xwatch[i]
      /\ xntu' \in Index
  BY AfterFacts DEF XmitXdpWatch, xhwVars, xclnVars
<1>2. HandInv /\ rxPoll = "watch"
  BY DEF RingOfPackets, XmitXdpWatch
<1>3. Place' = Place /\ \A i \in Index : Packet(i)' <=> Packet(i) \/ i = xntu
  BY <1>1 DEF Place, Packet
<1>4. PageInv'
  <2>1. xdata[xntu] = xbuf /\ xbuf \notin onRing /\ xlen[xntu] /\ xdesc[xslot] = xbuf
    BY <1>2 DEF HandInv
  <2> QED BY <1>1, <1>3, <2>1, NtuFree DEF RingOfPackets, PageInv
<1>5. HandInv'
  BY <1>1 DEF HandInv
<1>6. Gap(xntc, xntu) < XdpCount - 1
  BY <1>2, UnusedGap, GapFacts DEF HandInv
<1>7. CASE xslot = xntu /\ (hwCtx \/ FirstPacket)
  <2>1. /\ Gap(Place, xntu') = Gap(Place, xntu) + 1 /\ Gap(xntc, xntu') = Gap(xntc, xntu) + 1
        /\ Gap(xhead, xntu') = Gap(xhead, xntu) + 1
    BY <1>1, <1>6, <1>7, NtuFree, AfterFacts, GapFacts
  <2>2. FirstPacket' <=> FirstPacket
    BY <1>1, <1>7, NtuFree DEF FirstPacket
  <2>3. OrderInv'
    <3>1. /\ Gap(Place, xntu)' = Gap(Place, xntu) + 1 /\ Gap(xntc, xntu)' = Gap(xntc, xntu) + 1
          /\ Gap(Place, xhead)' = Gap(Place, xhead) /\ Gap(Place, xtail)' = Gap(Place, xtail)
          /\ Gap(xntc, Place)' = Gap(xntc, Place)
      BY <1>1, <1>3, <2>1 DEF Gap
    <3> QED BY <1>1, <3>1, GapFacts DEF RingOfPackets, OrderInv
  <2>4. ASSUME NEW i \in Index, NEW a \in Index, Gap(a, xntu') = Gap(a, xntu) + 1
        PROVE  i \in Span(a, xntu)' <=> i \in Span(a, xntu) \/ i = xntu
    BY <1>1, <2>4, GapFacts, GapOne DEF Span
  <2>5. PacketInv'
    <3>1. \A i \in Index : i \in Span(Place, xntu)' <=> i \in Span(Place, xntu) \/ i = xntu
      BY <1>3, <2>1, <2>4 DEF Span, Gap
    <3>2. FirstPacket => Place = 0 /\ Gap(0, xntu') >= 2
      BY <2>1, GapFacts DEF RingOfPackets, PacketInv
    <3>3. \A i \in Index : Packet(i)' => xwatch'[i] = i \/ (i = 0 /\ FirstPacket')
      BY <1>1, <1>3, <1>7, <2>2 DEF RingOfPackets, PacketInv, FirstPacket
    <3> QED BY <1>3, <2>2, <3>1, <3>2, <3>3, NtuFree DEF RingOfPackets, PacketInv, Gap
  <2>6. DoneInv'
    <3>1. \A i \in Index : i \in Span(xhead, xntu)' <=> i \in Span(xhead, xntu) \/ i = xntu
      BY <1>1, <2>1, <2>4 DEF Span, Gap
    <3> QED BY <1>1, <1>2, <3>1 DEF RingOfPackets, DoneInv, HandInv, Span
  <2>7. ContextInv'
    <3>1. hwCtx \/ FirstPacket
      BY <1>7
    <3> QED BY <1>1, <1>2, <1>3, <2>2, <3>1 DEF RingOfPackets, ContextInv
  <2> QED BY <1>4, <1>5, <2>3, <2>5, <2>6, <2>7 DEF RingOfPackets
<1>8. CASE xslot = 1 /\ xntu = 0 /\ ~hwCtx /\ xdesc[0] = "ctx"
  <2>1. Place = 0 /\ xntc = 0 /\ xhead = 0 /\ ~FirstPacket /\ FirstPacket' /\ xntu' = 2
    BY <1>1, <1>8, NtuFree DEF RingOfPackets, ContextInv, FirstPacket, After
  <2>2. Gap(0, xtail) <= Gap(0, 0) /\ xtail = 0
    BY <1>8, <2>1, GapFacts DEF RingOfPackets, OrderInv
  <2>3. \A i \in Index : ~Packet(i)
    BY <1>8, <2>1, GapFacts DEF RingOfPackets, PacketInv, Span
  <2>4. \A i \in Index : i \in Span(0, 2) <=> i \in {0, 1}
    BY DEF Span, Gap, Index
  <2>5. OrderInv'
    BY <1>1, <1>3, <2>1, <2>2 DEF OrderInv, Gap
  <2>6. PacketInv'
    <3>1. \A i \in Index : i \in Span(Place, xntu)' <=> i \in {0, 1}
      BY <1>3, <2>1, <2>4 DEF Span, Gap
    <3> QED BY <1>1, <1>3, <1>8, <2>1, <2>3, <3>1 DEF PacketInv, Gap
  <2>7. DoneInv'
    <3>1. \A i \in Index : i \in Span(xhead, xntu)' <=> i \in {0, 1}
      BY <1>1, <2>1, <2>4 DEF Span, Gap
    <3> QED BY <1>1, <1>2, <1>8, <3>1 DEF DoneInv, HandInv, Span
  <2>8. ContextInv'
    BY <1>1, <1>2, <1>3, <1>8, <2>1 DEF RingOfPackets, ContextInv
  <2> QED BY <1>4, <1>5, <2>5, <2>6, <2>7, <2>8 DEF RingOfPackets
<1> QED BY <1>2, <1>7, <1>8 DEF HandInv

\* What the hardware is about to read is what XdpReads says.
LEMMA ReadsRight ==
  ASSUME XdpIInv, RingOfPackets, NEW i \in Span(xhead, xtail)
  PROVE  IF ~hwCtx /\ i = 0 THEN xdesc[i] = "ctx" ELSE xdesc[i] \in onRing
<1> USE RingFacts, IndexFacts
<1>1. i \in Index /\ Gap(xhead, i) < Gap(xhead, xtail)
  BY DEF Span
<1>2. i \in Span(Place, xntu) /\ xntu # Place
  <2>1. Gap(Place, xhead) + Gap(xhead, xtail) = Gap(Place, xtail)
    BY GapSum DEF RingOfPackets, OrderInv
  <2>2. Gap(Place, i) < Gap(Place, xtail)
    <3>1. Gap(Place, xhead) + Gap(xhead, i) < Gap(Place, xtail) /\ Gap(Place, xtail) < XdpCount
      BY <1>1, <2>1, GapFacts
    <3>2. Gap(Place, xhead) + Gap(xhead, i) < XdpCount
      BY <1>1, <3>1, GapFacts
    <3> QED BY <1>1, <3>1, <3>2, GapAdd
  <2> QED BY <1>1, <2>2, GapFacts DEF RingOfPackets, OrderInv, Span
<1>3. CASE Packet(i) /\ xwatch[i] = i
  <2>1. ~(~hwCtx /\ i = 0)
    BY <1>2, <1>3 DEF RingOfPackets, ContextInv, FirstPacket
  <2> QED BY <1>1, <1>3, <2>1 DEF RingOfPackets, PageInv
<1>4. CASE i = 0 /\ FirstPacket
  <2>1. xhead = 0
    BY <1>1, <1>4 DEF RingOfPackets, PacketInv, OrderInv, Gap, Index
  <2> QED BY <1>4, <2>1 DEF RingOfPackets, ContextInv
<1>5. CASE i = 1 /\ FirstPacket
  <2>1. Packet(0)
    BY <1>5 DEF Packet, FirstPacket, Nowhere
  <2> QED BY <1>5, <2>1 DEF RingOfPackets, PageInv, FirstPacket
<1> QED BY <1>1, <1>2, <1>3, <1>4, <1>5 DEF RingOfPackets, PacketInv

\* The hardware takes a descriptor.
LEMMA FetchStep ==
  ASSUME XdpIInv, RingOfPackets, XdpFetch
  PROVE  RingOfPackets'
<1> USE RingFacts, IndexFacts
<1>1. /\ UNCHANGED <<xntu, xntc, primed, xdata, xlen, xwatch, xdesc, xtail, cleaning, cpos>>
      /\ UNCHANGED <<rxPoll, xbuf, xslot, xmitted, onRing>>
      /\ xhead # xtail /\ xhead' = After(xhead) /\ xhead' \in Index
  BY AfterFacts DEF XdpFetch, xbufVars, xrxVars, xclnVars
<1>2. /\ Place' = Place /\ (FirstPacket' <=> FirstPacket) /\ Unused' = Unused
      /\ \A i : Packet(i)' <=> Packet(i)
  BY <1>1 DEF Place, FirstPacket, Unused, Packet
<1>3. Gap(Place, xhead) < Gap(Place, xtail) /\ xhead # xntu
  <2>1. Gap(Place, xhead) # Gap(Place, xtail)
    BY <1>1, GapOne
  <2> QED BY <2>1, GapFacts DEF RingOfPackets, OrderInv
<1>4. Gap(Place, xhead') = Gap(Place, xhead) + 1
  BY <1>1, <1>3, AfterFacts, GapFacts
<1>5. OrderInv'
  <2>1. /\ Gap(Place, xhead)' = Gap(Place, xhead) + 1 /\ Gap(Place, xtail)' = Gap(Place, xtail)
        /\ Gap(Place, xntu)' = Gap(Place, xntu) /\ Gap(xntc, Place)' = Gap(xntc, Place)
        /\ Gap(xntc, xntu)' = Gap(xntc, xntu)
    BY <1>1, <1>2, <1>4 DEF Gap
  <2> QED BY <1>1, <1>3, <2>1, GapFacts DEF RingOfPackets, OrderInv
<1>6. PacketInv' /\ PageInv'
  BY <1>1, <1>2 DEF RingOfPackets, PacketInv, PageInv, Span, Gap
<1>7. xhead \in Span(xhead, xtail)
  BY <1>1, GapFacts DEF Span
<1>8. /\ hwCtx' /\ xdd' = (IF hwCtx THEN xdd \cup {xhead} ELSE xdd)
  <2>1. CASE hwCtx
    <3>1. xdesc[xhead] # "ctx"
      BY <1>7, <2>1, ReadsRight, XdpAssumption
    <3> QED BY <2>1, <3>1 DEF XdpFetch
  <2>2. CASE ~hwCtx
    <3>1. xhead = 0 /\ xdesc[xhead] = "ctx"
      BY <1>7, <2>2, ReadsRight DEF RingOfPackets, ContextInv
    <3> QED BY <2>2, <3>1 DEF XdpFetch
  <2> QED BY <2>1, <2>2
<1>9. DoneInv'
  <2>1. ASSUME NEW i \in Span(xhead, xntu)' PROVE i \in Span(xhead, xntu) /\ i # xhead
    <3>1. i \in Index /\ i \in Span(After(xhead), xntu)
      BY <1>1, <2>1 DEF Span, Gap
    <3> QED BY <1>3, <3>1, SpanAfter
  <2> QED BY <1>8, <2>1 DEF RingOfPackets, DoneInv
<1>10. ContextInv'
  <2>1. FirstPacket => xhead' # 0
    <3>1. FirstPacket => Place = 0
      BY DEF RingOfPackets, PacketInv
    <3> QED BY <1>1, <1>4, <3>1, GapFacts
  <2>2. primed
    BY <1>1, <1>3 DEF RingOfPackets, ContextInv
  <2> QED BY <1>1, <1>2, <1>8, <2>1, <2>2 DEF ContextInv, RingOfPackets
<1>11. HandInv'
  <2>1. ~hwCtx /\ xntu = 0 => FALSE
    BY <1>3 DEF RingOfPackets, ContextInv
  <2> QED BY <1>1, <1>2, <1>3, <1>8, <2>1 DEF RingOfPackets, HandInv
<1> QED BY <1>5, <1>6, <1>9, <1>10, <1>11 DEF RingOfPackets

\* The cleaning poll frees a packet that the hardware is done with.
LEMMA PacketStep ==
  ASSUME XdpIInv, RingOfPackets, CleanXdpPacket
  PROVE  RingOfPackets' /\ ~twice'
<1> USE RingFacts, IndexFacts
<1> DEFINE w == xwatch[cpos]
<1>1. /\ UNCHANGED <<xntu, xntc, primed, xdata, xdesc, xdd, xhead, xtail, hwCtx>>
      /\ UNCHANGED <<rxPoll, xbuf, xslot, xmitted>>
      /\ cleaning /\ (cleaning' <=> cleaning) /\ Place = cpos /\ Place' = cpos'
      /\ w \in xdd /\ w \in Index /\ cpos' = After(w) /\ cpos' \in Index /\ Packet(cpos)
      /\ onRing' = onRing \ {xdata[cpos]}
  BY AfterFacts DEF CleanXdpPacket, XdpDone, Place, Packet, xhwVars, xrxVars
<1>2. /\ \A i \in Index : xwatch'[i] = IF i = cpos THEN Nowhere ELSE xwatch[i]
      /\ \A i \in Index : Packet(i)' <=> Packet(i) /\ i # cpos
  BY DEF CleanXdpPacket, Packet
<1>3. \A i \in Index : xlen'[i] <=> xlen[i] /\ i \notin Span(cpos, After(w))
  BY DEF CleanXdpPacket
<1>4. ~twice'
  BY <1>1 DEF CleanXdpPacket, XdpIInv, RingOfPackets, PageInv
<1>5. cpos \in Span(cpos, xntu) /\ cpos # xntu
  BY <1>1, NtuFree DEF RingOfPackets, PacketInv
<1>6. Unused' = Unused
  BY <1>1 DEF Unused
<1> DEFINE Moved ==
      /\ Gap(xntc, cpos') + Gap(cpos', xntu) = Gap(xntc, xntu)
      /\ Gap(cpos', xhead) <= Gap(cpos', xtail) /\ Gap(cpos', xtail) <= Gap(cpos', xntu)
      /\ \A i \in Index : i \in Span(cpos', xntu) <=> Packet(i)'
      /\ \A i \in Index : i \in Span(cpos, After(w)) => i # xntu /\ ~Packet(i)'
      /\ \A i \in Index : Packet(i)' => xwatch[i] = i
      /\ hwCtx /\ ~FirstPacket'
<1>7. ASSUME w = cpos PROVE Moved
  <2>1. ~FirstPacket /\ ~FirstPacket' /\ hwCtx
    BY <1>1, <1>2, <1>5, <1>7 DEF RingOfPackets, PacketInv, ContextInv, FirstPacket, Nowhere
  <2>2. xhead # cpos /\ xtail # cpos
    <3>1. xhead # cpos
      BY <1>1, <1>5, <1>7 DEF RingOfPackets, DoneInv
    <3> QED BY <1>1, <3>1, GapFacts DEF RingOfPackets, OrderInv
  <2>3. /\ Gap(cpos', xhead) = Gap(cpos, xhead) - 1 /\ Gap(cpos', xtail) = Gap(cpos, xtail) - 1
        /\ Gap(cpos', xntu) = Gap(cpos, xntu) - 1 /\ Gap(cpos, xntu) > 0
    BY <1>1, <1>5, <1>7, <2>2, AfterFacts, GapFacts
  <2>4. Gap(xntc, cpos') = Gap(xntc, cpos) + 1
    BY <1>1, <1>7, <2>3, AfterFacts, GapFacts DEF RingOfPackets, OrderInv
  <2>5. \A i \in Index : i \in Span(cpos, After(w)) <=> i = cpos
    <3>1. Gap(cpos, After(cpos)) = 1
      BY AfterFacts, GapFacts
    <3> QED BY <1>7, <3>1, GapFacts DEF Span
  <2>6. \A i \in Index : i \in Span(cpos', xntu) <=> Packet(i)'
    BY <1>1, <1>2, <1>5, <1>7, <2>1, SpanAfter DEF RingOfPackets, PacketInv
  <2>7. \A i \in Index : Packet(i)' => xwatch[i] = i
    BY <1>2, <2>1 DEF RingOfPackets, PacketInv
  <2> QED BY <1>1, <1>2, <1>5, <2>1, <2>3, <2>4, <2>5, <2>6, <2>7, GapFacts
          DEF RingOfPackets, OrderInv
<1>8. ASSUME cpos = 0, FirstPacket PROVE Moved
  <2>1. w = 1 /\ cpos' = 2 /\ 2 \in Index /\ xntu >= 2 /\ After(0) = 1 /\ After(1) = 2
    BY <1>1, <1>8 DEF RingOfPackets, PacketInv, FirstPacket, Gap, After, Index
  <2>2. xhead >= 2 /\ xtail >= xhead /\ xtail <= xntu
    <3>1. 1 \in Span(0, xntu) /\ 1 \in Span(1, xntu)
      BY <2>1 DEF Span, Gap
    <3>2. 1 \notin Span(xhead, xntu)
      BY <1>1, <2>1 DEF RingOfPackets, DoneInv
    <3>3. xhead # 0 /\ xhead # 1
      BY <3>1, <3>2
    <3> QED BY <1>1, <1>8, <3>3 DEF RingOfPackets, OrderInv, Gap
  <2>3. hwCtx /\ ~FirstPacket'
    BY <1>2, <1>8, <2>2 DEF RingOfPackets, ContextInv, FirstPacket, Nowhere
  <2>4. Gap(xntc, cpos') + Gap(cpos', xntu) = Gap(xntc, xntu)
    <3>1. Gap(0, 2) = 2 /\ Gap(0, xntu) = xntu /\ Gap(2, xntu) = xntu - 2
      BY <2>1 DEF Gap
    <3>2. Gap(xntc, 0) + xntu = Gap(xntc, xntu)
      BY <1>1, <1>8, <3>1 DEF RingOfPackets, OrderInv
    <3>3. Gap(xntc, 0) \in Int /\ Gap(xntc, xntu) < XdpCount /\ Gap(xntc, xntu) \in Int
      BY GapFacts
    <3>4. Gap(xntc, 0) + Gap(0, 2) < XdpCount
      BY <2>1, <3>1, <3>2, <3>3
    <3>5. Gap(xntc, 2) = Gap(xntc, 0) + 2
      BY <2>1, <3>1, <3>4, GapAdd
    <3> QED BY <2>1, <3>1, <3>2, <3>3, <3>5
  <2>5. Gap(cpos', xhead) <= Gap(cpos', xtail) /\ Gap(cpos', xtail) <= Gap(cpos', xntu)
    BY <2>1, <2>2 DEF Gap
  <2>6. \A i \in Index : i \in Span(cpos', xntu) <=> i \in Span(0, xntu) /\ i # 0 /\ i # 1
    BY <2>1, SpanAfter
  <2>7. \A i \in Index : i \in Span(cpos', xntu) <=> Packet(i)'
    BY <1>1, <1>2, <1>8, <2>6 DEF RingOfPackets, PacketInv
  <2>8. \A i \in Index : i \in Span(cpos, After(w)) => i \in {0, 1}
    BY <1>8, <2>1 DEF Span, Gap
  <2>9. \A i \in Index : Packet(i)' => xwatch[i] = i
    BY <1>2, <1>8 DEF RingOfPackets, PacketInv
  <2> QED BY <2>1, <2>3, <2>4, <2>5, <2>6, <2>7, <2>8, <2>9
<1>9. Moved
  BY <1>1, <1>7, <1>8 DEF RingOfPackets, PacketInv
<1>10. OrderInv' /\ PacketInv' /\ DoneInv' /\ ContextInv'
  <2>1. OrderInv'
    BY <1>1, <1>9 DEF RingOfPackets, OrderInv, Gap
  <2>2. Span(Place, xntu)' = Span(cpos', xntu)
    BY <1>1 DEF Span, Gap
  <2>3. PacketInv'
    BY <1>1, <1>2, <1>9, <2>2 DEF PacketInv
  <2>4. DoneInv'
    BY <1>1 DEF RingOfPackets, DoneInv, Span, Gap
  <2>5. ContextInv'
    BY <1>1, <1>9 DEF RingOfPackets, ContextInv
  <2> QED BY <2>1, <2>3, <2>4, <2>5
<1>11. PageInv'
  BY <1>1, <1>2, <1>3, <1>9 DEF RingOfPackets, PageInv
<1>12. HandInv'
  BY <1>1, <1>3, <1>6, <1>9 DEF RingOfPackets, HandInv
<1> QED BY <1>4, <1>10, <1>11, <1>12 DEF RingOfPackets

-----------------------------------------------------------------------------
(* The ring is emptied and configured.                                     *)

\* Every page of the ring is in one packet, and is freed once.
LEMMA CleanRingStep ==
  ASSUME XdpIInv, CleanXdpRing
  PROVE  ~twice' /\ onRing' = {}
<1> USE RingFacts, IndexFacts
<1>1. RingOfPackets /\ Place = xntc /\ ~twice
  BY DEF XdpIInv, XdpAdmInv, CleanXdpRing, Place
<1>2. PacketsLeft = {i \in Index : Packet(i)}
  BY <1>1 DEF PacketsLeft, RingOfPackets, PacketInv, Packet, Span
<1>3. CleanedPages = onRing
  BY <1>1, <1>2 DEF RingOfPackets, PageInv, CleanedPages
<1>4. Cardinality(CleanedPages) = Cardinality(PacketsLeft)
  <2> DEFINE f == [i \in PacketsLeft |-> xdata[i]]
  <2>1. f \in Injection(PacketsLeft, CleanedPages)
    BY <1>1, <1>2 DEF RingOfPackets, PageInv, CleanedPages, Injection, IsInjective
  <2>2. f \in Surjection(PacketsLeft, CleanedPages)
    BY <1>2 DEF CleanedPages, Surjection
  <2>3. IsFiniteSet(PacketsLeft)
    <3>1. IsFiniteSet(Index)
      BY FS_Interval DEF Index
    <3> QED BY <1>2, <3>1, FS_Subset
  <2> QED BY <2>1, <2>2, <2>3, FS_Bijection DEF ExistsBijection, Bijection
<1> QED BY <1>1, <1>3, <1>4 DEF CleanXdpRing

\* A configured ring holds nothing.
LEMMA ConfigureStep ==
  ASSUME XdpIInv, ConfigureXdpRing
  PROVE  RingOfPackets' /\ xhead' = 0 /\ onRing' = {} /\ (twice' <=> twice)
<1> USE IndexFacts
<1>1. /\ xntu' = 0 /\ xntc' = 0 /\ xhead' = 0 /\ xtail' = 0 /\ ~hwCtx' /\ ~primed'
      /\ onRing' = {} /\ rxPoll' = "idle" /\ ~cleaning' /\ (twice' <=> twice) /\ ~xmitted'
      /\ \A i \in Index : xwatch'[i] = Nowhere
  BY DEF ConfigureXdpRing, PrimedAgain, XdpIInv, XdpAdmInv, xrxVars, xclnVars
<1>2. Place' = 0 /\ ~FirstPacket' /\ \A i \in Index : ~Packet(i)'
  BY <1>1 DEF Place, FirstPacket, Packet, Nowhere
<1>3. Gap(0, 0) = 0 /\ Span(0, 0) = {}
  BY GapFacts DEF Span
<1>4. Span(Place, xntu)' = {} /\ Span(xhead, xntu)' = {}
  BY <1>1, <1>2, <1>3 DEF Span, Gap
<1>5. OrderInv'
  BY <1>1, <1>2, <1>3 DEF OrderInv, Gap
<1>6. PacketInv' /\ DoneInv' /\ ContextInv' /\ PageInv' /\ HandInv'
  BY <1>1, <1>2, <1>4 DEF PacketInv, DoneInv, ContextInv, PageInv, HandInv
<1> QED BY <1>1, <1>5, <1>6 DEF RingOfPackets

-----------------------------------------------------------------------------
LEMMA XdpAdmStep == ASSUME XdpIInv, XdpNext PROVE XdpAdmInv'
BY DEF XdpIInv, XdpNext, XdpAdmInv, RxPollBegin, XmitXdpWatch, RxPollEnd, XmitXdpRing,
       CleanXdpBegin, CleanXdpPacket, CleanXdpEnd, XdpFetch, XdpDown, XdpNapiOff, XdpFlush,
       CleanXdpRing, ConfigureXdpRing, xrxVars, xclnVars

LEMMA XdpStep == ASSUME XdpIInv, [XdpNext]_xdpVars PROVE XdpIInv'
<1>1. CASE XdpNext
  <2>1. XdpTypeOK' /\ XdpAdmInv'
    BY <1>1, XdpTypeStep, XdpAdmStep
  <2>2. CASE CleanXdpRing
    <3>1. xdpAdm' = "clean" /\ UNCHANGED <<xhead, hwCtx>>
      BY <2>2 DEF CleanXdpRing, xhwVars
    <3> QED BY <2>1, <2>2, <3>1, CleanRingStep DEF XdpIInv
  <2>3. CASE ConfigureXdpRing
    <3>1. xdpAdm' = "up"
      BY <2>3 DEF ConfigureXdpRing
    <3> QED BY <2>1, <2>3, <3>1, ConfigureStep DEF XdpIInv
  <2>4. CASE ~CleanXdpRing /\ ~ConfigureXdpRing
    <3>1. xdpAdm # "clean" /\ xdpAdm' # "clean" /\ RingOfPackets
      BY <1>1, <2>4 DEF XdpNext, XdpIInv, XdpAdmInv, RxPollBegin, XmitXdpWatch, RxPollEnd,
         XmitXdpRing, CleanXdpBegin, CleanXdpPacket, CleanXdpEnd, XdpFetch, XdpDown, XdpNapiOff,
         XdpFlush
    <3>2. RingOfPackets'
      BY <1>1, <2>4, <3>1, QuietStep, PollEndStep, XmitStep, WatchStep, CleanBoundsStep,
         PacketStep, FetchStep DEF XdpNext
    <3>3. ~twice'
      <4>1. CASE CleanXdpPacket
        BY <3>1, <4>1, PacketStep
      <4>2. CASE ~CleanXdpPacket
        BY <1>1, <2>4, <4>2 DEF XdpNext, XdpIInv, RxPollBegin, XmitXdpWatch, RxPollEnd,
           XmitXdpRing, CleanXdpBegin, CleanXdpEnd, XdpFetch, XdpDown, XdpNapiOff, XdpFlush
      <4> QED BY <4>1, <4>2
    <3> QED BY <2>1, <3>1, <3>2, <3>3 DEF XdpIInv, RingOfPackets, ContextInv
  <2> QED BY <2>2, <2>3, <2>4
<1>2. CASE UNCHANGED xdpVars
  <2>1. /\ UNCHANGED <<xntu, xntc, primed, xdata, xlen, xwatch, xdesc, xdd, xhead, xtail, hwCtx>>
        /\ UNCHANGED <<rxPoll, xbuf, xslot, xmitted, cleaning, cpos, xdpAdm, onRing, twice>>
    BY <1>2 DEF xdpVars, xbufVars, xhwVars, xrxVars, xclnVars
  <2>2. XdpTypeOK' /\ XdpAdmInv'
    BY <2>1 DEF XdpIInv, XdpTypeOK, XdpAdmInv
  <2>3. RingOfPackets => RingOfPackets'
    BY <2>1 DEF RingOfPackets, OrderInv, PacketInv, DoneInv, ContextInv, PageInv, HandInv, Place,
                Packet, FirstPacket, Unused, Span, Gap
  <2> QED BY <2>1, <2>2, <2>3 DEF XdpIInv
<1> QED BY <1>1, <1>2

\* The invariant says what the property does.
LEMMA XdpImplied == ASSUME XdpIInv PROVE XdpInv
<1> USE RingFacts, IndexFacts
<1>1. XdpFlushed
  BY DEF XdpIInv, XdpAdmInv, RingOfPackets, OrderInv, XdpFlushed
<1>2. XdpReads
  BY ReadsRight DEF XdpReads, XdpIInv
<1>3. XdpHolds
  <2>1. ASSUME RingOfPackets, NEW p \in Pages
        PROVE  Cardinality({i \in Index : xwatch[i] # Nowhere /\ xdata[i] = p /\ xlen[i]})
                 = IF p \in onRing THEN 1 ELSE 0
    <3> DEFINE Where == {i \in Index : xwatch[i] # Nowhere /\ xdata[i] = p /\ xlen[i]}
    <3>1. CASE p \in onRing
      <4>1. PICK i \in Index : Packet(i) /\ xdata[i] = p
        BY <2>1, <3>1 DEF RingOfPackets, PageInv
      <4>2. Where = {i}
        BY <2>1, <4>1 DEF RingOfPackets, PageInv, Packet
      <4> QED BY <3>1, <4>2, FS_Singleton
    <3>2. CASE p \notin onRing
      <4>1. Where = {}
        BY <2>1, <3>2 DEF RingOfPackets, PageInv, Packet
      <4> QED BY <3>2, <4>1, FS_EmptySet
    <3> QED BY <3>1, <3>2
  <2> QED BY <2>1 DEF XdpHolds, XdpIInv
<1> QED BY <1>1, <1>2, <1>3 DEF XdpInv, XdpIInv

\* The receive poll, the cleaning poll, the hardware and going down, in any order: a page
\* put on the XDP ring is read by the hardware while the ring holds it, after the context
\* and before the poll's tail write is forgotten, and it is freed exactly once
\* (ixgbevf_xmit_xdp_ring, ixgbevf_clean_tx_irq, ixgbevf_clean_tx_ring).
THEOREM XdpSentAndFreedOnce == XdpSpec => []XdpInv
<1>1. XdpInit => XdpIInv
  BY XdpInitInv
<1>2. XdpIInv /\ [XdpNext]_xdpVars => XdpIInv'
  BY XdpStep
<1>3. XdpIInv => XdpInv
  BY XdpImplied
<1> QED BY <1>1, <1>2, <1>3, PTL DEF XdpSpec

-----------------------------------------------------------------------------
(* Offload, for all lengths of headers and every segment size.            *)

LEMMA OrZero == ASSUME NEW b \in Nat PROVE Or(0, b) = b
<1>1. \A k \in 1 .. 16 : BitWeights[k] \in Nat \ {0}
  BY DEF BitWeights
<1>2. \A w \in Nat \ {0} : 0 \div w = 0
  OBVIOUS
<1>3. Ones(0) = {}
  BY <1>1, <1>2 DEF Ones
<1>4. \A n : n \in b .. 0 + b <=> n = b
  OBVIOUS
<1>5. Ones(b) = Ones(0) \cup Ones(b)
  BY <1>3
<1>6. \A n : n \in b .. 0 + b /\ Ones(n) = Ones(0) \cup Ones(b) <=> n = b
  BY <1>4, <1>5
<1> QED BY <1>6 DEF Or

\* What ixgbevf_features_check leaves and the stack prepares.
Left(s, f) ==
  /\ f \subseteq TxFeatures /\ ("tso" \in f => "csum" \in f)
  /\ s.mac > 127 => f \cap {"csum", "vlan", "tso"} = {}
  /\ s.net > 511 => f \cap {"csum", "tso"} = {}
Prepared(s) ==
  /\ DOMAIN s = {"mac", "net", "doff", "kind", "v4", "partial", "gso", "encap", "tag", "inline"}
  /\ s.net = before.net /\ s.doff = before.doff /\ s.kind = before.kind /\ s.v4 = before.v4
  /\ s.gso \in BOOLEAN /\ s.partial \in BOOLEAN
  /\ s.gso => s.kind = "tcp" /\ s.partial
  /\ s.partial => before.partial /\ s.net <= 511 /\ before.mac <= 127
  /\ \/ s.mac = before.mac /\ s.tag = before.tag /\ s.inline = 0
        /\ (s.tag # 0 => s.mac <= 127)
     \/ s.mac = before.mac + 4 /\ s.tag = 0 /\ s.inline = before.tag /\ before.tag # 0
OffloadIInv ==
  /\ opc \in {"choose", "check", "stack", "xmit", "done", "dropped", "received"}
  /\ offered \subseteq TxFeatures
  /\ opc = "check" =>
       before \in Skb /\ skbuff = before /\ Sendable(before) /\ ("tso" \in offered => "csum" \in offered)
  /\ opc = "stack" =>
       before \in Skb /\ skbuff = before /\ Sendable(before) /\ Left(before, offered)
  /\ opc = "xmit" => before \in Skb /\ Sendable(before) /\ Prepared(skbuff)
  /\ OffloadTypeOK /\ OffloadDescribed /\ OffloadOnce /\ ChecksumTrusted

LEMMA PacketFields ==
  ASSUME NEW s \in Skb
  PROVE  /\ s.mac \in 0 .. MaxU16 /\ s.net \in 0 .. MaxU16 /\ s.doff \in 5 .. 15 /\ s.tag \in Nat
         /\ s.kind \in L4Kinds /\ s.v4 \in BOOLEAN /\ s.gso \in BOOLEAN /\ s.partial \in BOOLEAN
<1>1. s.mac \in MacLens /\ s.net \in NetLens /\ s.doff \in Doffs /\ s.tag \in Tags
  BY DEF Skb
<1>2. s.kind \in L4Kinds /\ s.v4 \in BOOLEAN
  BY DEF Skb
<1>3. s.gso \in BOOLEAN /\ s.partial \in BOOLEAN
  BY DEF Skb
<1>4. s.mac \in 0 .. MaxU16 /\ s.net \in 0 .. MaxU16 /\ s.doff \in 5 .. 15 /\ s.tag \in 0 .. MaxU16
  BY <1>1, OffloadAssumption
<1>5. MaxU16 \in Nat
  BY DEF MaxU16
<1>6. s.tag \in Nat
  BY <1>4, <1>5
<1> QED BY <1>2, <1>3, <1>4, <1>6

LEMMA Sizes ==
  ASSUME NEW s \in Skb
  PROVE  /\ s.mac \in Nat /\ s.mac <= 65535 /\ s.net \in Nat /\ s.net <= 65535
         /\ s.doff \in Nat /\ 5 <= s.doff /\ s.doff <= 15
<1>1. MaxU16 \in Nat /\ MaxU16 <= 65535
  BY DEF MaxU16
<1>2. s.mac \in 0 .. MaxU16 /\ s.net \in 0 .. MaxU16 /\ s.doff \in 5 .. 15
  BY PacketFields
<1> QED BY <1>1, <1>2

LEMMA NotYet ==
  ASSUME opc' \in {"choose", "check", "stack", "xmit", "dropped"}, offered' \subseteq TxFeatures
  PROVE  OffloadTypeOK' /\ OffloadDescribed' /\ OffloadOnce' /\ ChecksumTrusted'
<1>1. opc' # "done" /\ opc' # "received"
  OBVIOUS
<1>2. OffloadTypeOK'
  BY <1>1 DEF OffloadTypeOK
<1>3. OffloadDescribed'
  BY <1>1 DEF OffloadDescribed
<1>4. OffloadOnce'
  BY <1>1 DEF OffloadOnce
<1>5. ChecksumTrusted'
  BY <1>1 DEF ChecksumTrusted
<1> QED BY <1>2, <1>3, <1>4, <1>5

LEMMA OffInit == ASSUME OffloadInit PROVE OffloadIInv
<1>1. opc = "choose" /\ offered = {}
  BY DEF OffloadInit
<1>2. opc # "done" /\ opc # "received" /\ opc # "check" /\ opc # "stack" /\ opc # "xmit"
  BY <1>1
<1>3. OffloadTypeOK
  BY <1>1, <1>2 DEF OffloadTypeOK
<1>4. OffloadDescribed
  BY <1>2 DEF OffloadDescribed
<1>5. OffloadOnce
  BY <1>2 DEF OffloadOnce
<1>6. ChecksumTrusted
  BY <1>2 DEF ChecksumTrusted
<1> QED BY <1>1, <1>2, <1>3, <1>4, <1>5, <1>6 DEF OffloadIInv

LEMMA ChooseKeeps ==
  ASSUME OffloadIInv, NEW s \in Skb, NEW user \in SUBSET TxFeatures, Choose(s, user)
  PROVE  OffloadIInv'
<1>1. opc' = "check" /\ offered' \subseteq TxFeatures
  BY DEF Choose
<1>2. before' \in Skb /\ skbuff' = before' /\ Sendable(before)' /\ ("tso" \in offered' => "csum" \in offered')
  BY DEF Choose, Sendable
<1> QED BY <1>1, <1>2, NotYet DEF OffloadIInv

LEMMA CheckKeeps == ASSUME OffloadIInv, FeaturesCheck PROVE OffloadIInv'
<1>1. /\ before \in Skb /\ skbuff = before /\ Sendable(before) /\ offered \subseteq TxFeatures
      /\ ("tso" \in offered => "csum" \in offered)
  BY DEF OffloadIInv, FeaturesCheck
<1>2. /\ offered' = FeaturesLeft(before, offered) /\ opc' = "stack"
      /\ before' = before /\ skbuff' = skbuff
  BY <1>1 DEF FeaturesCheck
<1>3. Left(before, offered')
  <2> DEFINE s == before
             f == offered
             g == offered'
  <2>1. s.mac \in Int /\ s.net \in Int
    BY <1>1, Sizes
  <2>2. g = (IF s.mac > 127 THEN f \ {"csum", "vlan", "tso"}
             ELSE IF s.net > 511 THEN f \ {"csum", "tso"}
             ELSE IF s.encap /\ "mangle" \notin f /\ s.v4 THEN f \ {"tso"} ELSE f)
    BY <1>1, <1>2 DEF FeaturesLeft, MaxMacHdrLen, MaxNetworkHdrLen
  <2>3. f \subseteq TxFeatures /\ ("tso" \in f => "csum" \in f)
    BY <1>1
  <2> HIDE DEF s, f, g
  <2>4. CASE s.mac > 127
    <3>1. g = f \ {"csum", "vlan", "tso"}
      BY <2>2, <2>4
    <3> QED BY <2>1, <2>3, <2>4, <3>1 DEF Left, s, g
  <2>5. CASE ~(s.mac > 127) /\ s.net > 511
    <3>1. g = f \ {"csum", "tso"}
      BY <2>2, <2>5
    <3> QED BY <2>1, <2>3, <2>5, <3>1 DEF Left, s, g
  <2>6. CASE ~(s.mac > 127) /\ ~(s.net > 511)
    <3>1. g = f \ {"tso"} \/ g = f
      BY <2>2, <2>6
    <3> QED BY <2>1, <2>3, <2>6, <3>1 DEF Left, s, g
  <2> QED BY <2>4, <2>5, <2>6
<1>4. offered' \subseteq TxFeatures
  BY <1>3 DEF Left
<1>5. Sendable(before)' /\ Left(before, offered)'
  BY <1>1, <1>2, <1>3 DEF Sendable, Left
<1> QED BY <1>1, <1>2, <1>4, <1>5, NotYet DEF OffloadIInv

LEMMA PreparesKeeps == ASSUME OffloadIInv, StackPrepares PROVE OffloadIInv'
<1>1. /\ before \in Skb /\ skbuff = before /\ Sendable(before) /\ Left(before, offered)
  BY DEF OffloadIInv, StackPrepares
<1> DEFINE push == before.tag # 0 /\ "vlan" \notin offered
           s == [before EXCEPT
                   !.mac = IF push THEN @ + 4 ELSE @,
                   !.inline = IF push THEN before.tag ELSE 0,
                   !.tag = IF push THEN 0 ELSE @,
                   !.gso = @ /\ "tso" \in offered,
                   !.partial = @ /\ "csum" \in offered]
<1>2. skbuff' = s /\ opc' = "xmit" /\ before' = before /\ offered' = offered
  BY <1>1 DEF StackPrepares
<1>3. /\ s.net = before.net /\ s.doff = before.doff /\ s.kind = before.kind /\ s.v4 = before.v4
      /\ s.mac = IF push THEN before.mac + 4 ELSE before.mac
      /\ s.inline = IF push THEN before.tag ELSE 0
      /\ s.tag = IF push THEN 0 ELSE before.tag
      /\ s.gso = (before.gso /\ "tso" \in offered)
      /\ s.partial = (before.partial /\ "csum" \in offered)
  <2> HIDE DEF push
  <2> QED BY <1>1 DEF Skb
<1>14. DOMAIN s = {"mac", "net", "doff", "kind", "v4", "partial", "gso", "encap", "tag", "inline"}
  <2> HIDE DEF push
  <2> QED BY <1>1 DEF Skb
<1>4. before.mac \in Nat /\ before.net \in Nat /\ before.tag \in Nat
  BY <1>1, Sizes, PacketFields
<1>8. before.gso \in BOOLEAN /\ before.partial \in BOOLEAN
  BY <1>1, PacketFields
<1> HIDE DEF s
<1>9. /\ before.gso => before.kind = "tcp" /\ before.partial
      /\ "tso" \in offered => "csum" \in offered
      /\ "csum" \in offered => ~(before.mac > 127) /\ ~(before.net > 511)
      /\ "vlan" \in offered => ~(before.mac > 127)
  BY <1>1 DEF Sendable, Left
<1>10. s.gso \in BOOLEAN /\ s.partial \in BOOLEAN
  BY <1>3, <1>8, Zenon
<1>11. s.gso => s.kind = "tcp" /\ s.partial
  BY <1>3, <1>8, <1>9
<1>12. s.partial => before.partial /\ "csum" \in offered
  BY <1>3, <1>8
<1>5. s.partial => before.partial /\ s.net <= 511 /\ before.mac <= 127
  BY <1>3, <1>4, <1>9, <1>12
<1>6. \/ s.mac = before.mac /\ s.tag = before.tag /\ s.inline = 0 /\ (s.tag # 0 => s.mac <= 127)
      \/ s.mac = before.mac + 4 /\ s.tag = 0 /\ s.inline = before.tag /\ before.tag # 0
  BY <1>3, <1>4, <1>9
<1>7. Prepared(s)
  BY <1>3, <1>5, <1>6, <1>10, <1>11, <1>14 DEF Prepared
<1>13. Prepared(skbuff)' /\ Sendable(before)' /\ offered' \subseteq TxFeatures
  BY <1>1, <1>2, <1>7 DEF Prepared, Sendable, Left
<1> QED BY <1>1, <1>2, <1>13, NotYet DEF OffloadIInv

LEMMA FieldsLens ==
  ASSUME NEW iplen \in Nat, iplen <= 511, NEW maclen \in Nat, maclen <= 127, NEW tag, NEW l4t,
         NEW ipv4, NEW l4len, NEW mss, NEW idx
  PROVE  /\ CtxFields(iplen, maclen, tag, l4t, ipv4, l4len, mss, idx).iplen = iplen
         /\ CtxFields(iplen, maclen, tag, l4t, ipv4, l4len, mss, idx).maclen = maclen
<1>1. iplen \div 512 = 0 /\ iplen % 512 = iplen /\ maclen % 128 = maclen
  OBVIOUS
<1>2. Or(0, maclen) = maclen
  BY OrZero
<1> QED BY <1>1, <1>2 DEF CtxFields

LEMMA FieldsRest ==
  ASSUME NEW iplen, NEW maclen, NEW tag, NEW l4t, NEW ipv4, NEW l4len, NEW mss, NEW idx
  PROVE  /\ CtxFields(iplen, maclen, tag, l4t, ipv4, l4len, mss, idx).l4t = l4t
         /\ CtxFields(iplen, maclen, tag, l4t, ipv4, l4len, mss, idx).ipv4 = ipv4
         /\ CtxFields(iplen, maclen, tag, l4t, ipv4, l4len, mss, idx).l4len = l4len % 256
         /\ CtxFields(iplen, maclen, tag, l4t, ipv4, l4len, mss, idx).idx = idx
         /\ (~(l4len < 0) => CtxFields(iplen, maclen, tag, l4t, ipv4, l4len, mss, idx).mss = mss)
  BY DEF CtxFields

LEMMA XmitKeeps == ASSUME OffloadIInv, XmitFrame PROVE OffloadIInv'
<1> DEFINE s == skbuff
           t == skbuff'
           c == ctxDesc'
           d == dataDesc'
<1>1. before \in Skb /\ Sendable(before) /\ Prepared(s) /\ offered \subseteq TxFeatures
  BY DEF OffloadIInv, XmitFrame
<1>2. /\ c = (IF s.gso THEN TsoContext(s) ELSE CsumContext(s)) /\ d = DataOf(s)
      /\ t = [s EXCEPT !.partial = @ /\ Asked(s)] /\ opc' = "done" /\ before' = before
      /\ offered' = offered
  BY DEF XmitFrame
<1>3. /\ before.mac \in Nat /\ before.net \in Nat /\ before.doff \in Nat /\ before.tag \in Nat
      /\ before.mac <= 65535 /\ before.net <= 65535 /\ 5 <= before.doff /\ before.doff <= 15
  BY <1>1, Sizes, PacketFields
<1>4. /\ s.net = before.net /\ s.doff = before.doff /\ s.kind = before.kind /\ s.v4 = before.v4
      /\ s.gso \in BOOLEAN /\ s.partial \in BOOLEAN
  BY <1>1 DEF Prepared
<1>5. /\ s.gso => s.kind = "tcp" /\ s.partial
      /\ s.partial => before.partial /\ s.net <= 511 /\ before.mac <= 127
  BY <1>1 DEF Prepared
<1>6. \/ s.mac = before.mac /\ s.tag = before.tag /\ s.inline = 0 /\ (s.tag # 0 => s.mac <= 127)
      \/ s.mac = before.mac + 4 /\ s.tag = 0 /\ s.inline = before.tag /\ before.tag # 0
  BY <1>1 DEF Prepared
<1>7. /\ t.mac = s.mac /\ t.net = s.net /\ t.doff = s.doff /\ t.kind = s.kind /\ t.gso = s.gso
      /\ t.inline = s.inline /\ t.partial = (s.partial /\ Asked(s))
  <2>1. DOMAIN s = {"mac", "net", "doff", "kind", "v4", "partial", "gso", "encap", "tag", "inline"}
    BY <1>1 DEF Prepared
  <2> QED BY <1>2, <2>1
<1>8. /\ d.vle = (s.tag # 0) /\ d.tse = s.gso /\ d.txsm = (s.gso \/ Asked(s))
      /\ d.ixsm = (s.gso /\ s.v4) /\ d.idx = (IF s.gso THEN 1 ELSE 0) /\ d.paylen = Paylen(s)
  BY <1>2 DEF DataOf
<1>9. s.mac \in Nat /\ s.net \in Nat /\ s.doff \in Nat /\ s.tag \in Nat
  BY <1>3, <1>4, <1>6
<1> HIDE DEF s, t, c, d
<1>10. L4Offset(s) = s.mac + s.net /\ L4Offset(s) \in Nat
  BY <1>9 DEF L4Offset
<1>11. Payload \in Nat /\ 1 <= Payload /\ Payload <= 65535
  <2>1. Payload \in 1 .. MaxU16
    BY OffloadAssumption
  <2>2. MaxU16 \in Nat /\ MaxU16 <= 65535
    BY DEF MaxU16
  <2> QED BY <2>1, <2>2
<1>19. s.v4 \in BOOLEAN
  BY <1>1, <1>4, PacketFields
<1>12. OffloadTypeOK'
  <2> DEFINE p == Paylen(s)
             x == 4 * s.doff + L4Offset(s)
  <2>1. x \in Nat /\ 20 <= x
    BY <1>3, <1>4, <1>9, <1>10
  <2>2. x % 256 \in Nat /\ x % 256 <= x
    <3> HIDE DEF x
    <3> QED BY <2>1
  <2>3. p \in Int /\ 1 <= p /\ p <= 262143
    <3>1. CASE s.gso
      <4>1. p = x + Payload - (x % 256)
        BY <3>1, <1>9, <1>10, <1>11, <2>1, <2>2 DEF Paylen, SkbLen, HdrLen
      <4>2. x <= 702
        BY <3>1, <1>3, <1>4, <1>5, <1>6, <1>9, <1>10
      <4> HIDE DEF x, p
      <4> QED BY <4>1, <4>2, <2>1, <2>2, <1>11
    <3>2. CASE ~s.gso
      <4>1. p = x
        BY <3>2, <1>9, <1>10, <2>1 DEF Paylen, SkbLen, HdrLen
      <4>2. x <= 131134
        BY <1>3, <1>4, <1>6, <1>9, <1>10
      <4> HIDE DEF x, p
      <4> QED BY <4>1, <4>2, <2>1
    <3> QED BY <3>1, <3>2, <1>4
  <2>4. p <= MaxPaylen /\ MaxPaylen \in Int
    <3> HIDE DEF p
    <3> QED BY <2>3 DEF MaxPaylen
  <2>5. p \in 1 .. MaxPaylen
    <3> HIDE DEF p
    <3> QED BY <2>3, <2>4
  <2>6. dataDesc'.paylen \in 1 .. MaxPaylen
    BY <2>5, <1>8 DEF d
  <2> QED BY <2>6, <1>1, <1>2 DEF OffloadTypeOK
<1>16. d.txsm = t.partial
  <2>1. CASE s.gso
    <3>1. Asked(s)
      BY <2>1, <1>5 DEF Asked, L4Type
    <3> QED BY <2>1, <3>1, <1>5, <1>7, <1>8
  <2>2. CASE ~s.gso
    <3>1. d.txsm = Asked(s)
      BY <2>2, <1>8 DEF Asked
    <3>2. t.partial = Asked(s)
      BY <1>4, <1>7 DEF Asked
    <3> QED BY <3>1, <3>2
  <2> QED BY <2>1, <2>2, <1>4
<1>17. t.partial => s.partial
  BY <1>7
<1>18. s.tag # 0 => s.mac <= 127 /\ s.tag = before.tag /\ c.tag = s.tag
  <2> SUFFICES ASSUME s.tag # 0
               PROVE  s.mac <= 127 /\ s.tag = before.tag /\ c.tag = s.tag
    OBVIOUS
  <2>1. s.mac <= 127 /\ s.tag = before.tag
    BY <1>6
  <2>2. TxTag(s) = s.tag
    BY DEF TxTag
  <2>8. Or(s.mac \div 128, s.tag) = s.tag
    <3>1. s.mac \div 128 = 0
      BY <2>1, <1>9
    <3> QED BY <3>1, <1>9, OrZero
  <2>3. TsoContext(s).tag = s.tag
    BY <2>2, <2>8, Zenon DEF TsoContext, CtxFields
  <2>4. CtxFields(s.net, s.mac, s.tag, L4Type(s), s.v4, 0, 0, 0).tag = s.tag
    BY <2>8, Zenon DEF CtxFields
  <2>5. CtxFields(0, s.mac, s.tag, "udp", FALSE, 0, 0, 0).tag = s.tag
    BY <2>8, Zenon DEF CtxFields
  <2>6. CsumContext(s).tag = s.tag
    BY <2>2, <2>4, <2>5, Zenon DEF CsumContext
  <2>7. c = TsoContext(s) \/ c = CsumContext(s)
    BY <1>2 DEF c
  <2> QED BY <2>1, <2>3, <2>6, <2>7
<1>13. OffloadOnce'
  <2>1. d.vle = (before.tag # 0 /\ t.inline = 0)
    BY <1>6, <1>7, <1>8, <1>3
  <2>2. d.vle => c.tag = before.tag
    BY <1>8, <1>18
  <2>3. t.partial => before.partial
    BY <1>17, <1>5
  <2> QED BY <1>16, <1>2, <2>1, <2>2, <2>3 DEF OffloadOnce, t, c, d
<1>14. OffloadDescribed'
  <2> SUFFICES ASSUME ~(t.mac > 127 /\ before.mac <= 127),
                      t.gso => L4Offset(t) + 4 * t.doff < 256
               PROVE  Described'
    BY <1>2 DEF OffloadDescribed, Outgrown, t, L4Offset
  <2>1. s.partial => s.mac <= 127 /\ s.net <= 511
    BY <1>5, <1>7, <1>3, <1>9
  <2>2. s.gso => s.partial
    BY <1>5
  <2>3. CASE s.gso
    <3>1. c = TsoContext(s)
      BY <2>3, <1>2 DEF c
    <3>2. c.iplen = s.net /\ c.maclen = s.mac
      BY <3>1, <2>1, <2>2, <2>3, <1>9, FieldsLens DEF TsoContext
    <3>3. c.l4t = s.kind /\ c.ipv4 = s.v4 /\ c.idx = 1 /\ c.l4len = (HdrLen(s) - L4Offset(s)) % 256
          /\ (~(HdrLen(s) - L4Offset(s) < 0) => c.mss = Mss)
      BY <3>1, <2>3, <1>5, FieldsRest DEF TsoContext
    <3>4. 4 * s.doff + L4Offset(s) < 256
      BY <2>3, <1>7, <1>9, <1>10 DEF L4Offset
    <3>5. HdrLen(s) = 4 * s.doff + L4Offset(s)
      BY <3>4, <1>9, <1>10 DEF HdrLen
    <3>6. HdrLen(s) - L4Offset(s) = 4 * s.doff /\ (4 * s.doff) % 256 = 4 * s.doff
      BY <3>4, <3>5, <1>9, <1>10
    <3>7. c.l4len = 4 * s.doff /\ c.mss = Mss
      BY <3>3, <3>6, <1>9
    <3>8. d.paylen = Payload
      BY <2>3, <3>5, <1>8, <1>9, <1>10, <1>11 DEF Paylen, SkbLen
    <3>9. c.ipv4 = d.ixsm
      BY <3>3, <1>8, <2>3, <1>19
    <3> QED BY <3>2, <3>3, <3>7, <3>8, <3>9, <2>3, <1>7, <1>8 DEF Described, c, d, t
  <2>4. CASE ~s.gso /\ Asked(s)
    <3>1. c = CtxFields(s.net, s.mac, TxTag(s), L4Type(s), s.v4, 0, 0, 0)
      BY <2>4, <1>2 DEF c, CsumContext
    <3>2. s.partial /\ L4Type(s) = s.kind
      BY <2>4 DEF Asked, L4Type
    <3>3. c.iplen = s.net /\ c.maclen = s.mac
      BY <3>1, <3>2, <2>1, <1>9, FieldsLens
    <3>4. c.l4t = s.kind /\ c.idx = 0
      BY <3>1, <3>2, FieldsRest
    <3> QED BY <3>3, <3>4, <2>4, <1>7, <1>8 DEF Described, c, d, t
  <2>5. CASE ~s.gso /\ ~Asked(s)
    <3>1. c = CtxFields(0, s.mac, TxTag(s), "udp", FALSE, 0, 0, 0)
      BY <2>5, <1>2 DEF c, CsumContext
    <3>2. c.idx = 0
      BY <3>1, Zenon DEF CtxFields
    <3>3. ~d.txsm /\ ~d.tse /\ d.idx = 0
      BY <2>5, <1>8
    <3> QED BY <3>2, <3>3 DEF Described, c, d
  <2> QED BY <2>3, <2>4, <2>5
<1>15. ChecksumTrusted'
  BY <1>2 DEF ChecksumTrusted
<1> QED BY <1>1, <1>2, <1>12, <1>13, <1>14, <1>15 DEF OffloadIInv

LEMMA DropKeeps == ASSUME OffloadIInv, XmitDrop PROVE OffloadIInv'
<1>1. opc' = "dropped" /\ offered' \subseteq TxFeatures
  BY DEF XmitDrop, OffloadIInv
<1> QED BY <1>1, NotYet DEF OffloadIInv

\* What the stack is told of a frame, whatever the frame is.
LEMMA Trusted ==
  ASSUME NEW f \in Frame, Receivable(f)
  PROVE  /\ Summed(f, WrittenBack(f)) => ~f.ipBad /\ ~f.l4Bad /\ f.l4 # "none"
         /\ CsumErr(f, WrittenBack(f)) => f.ipBad \/ f.l4Bad
         /\ f.rxcsum /\ (f.ipBad \/ f.l4Bad) =>
              CsumErr(f, WrittenBack(f)) \/ (f.l4 = "udp" /\ f.is82599)
<1> DEFINE w == WrittenBack(f)
<1>1. /\ f.ip \in BOOLEAN /\ f.ipBad \in BOOLEAN /\ f.l4Bad \in BOOLEAN /\ f.udpZero \in BOOLEAN
      /\ f.rxcsum \in BOOLEAN /\ f.is82599 \in BOOLEAN
  BY DEF Frame
<1>2. /\ w.ipcs <=> f.ip
      /\ w.ipe <=> f.ipBad
      /\ w.l4cs <=> f.l4 # "none"
      /\ w.tcpe <=> f.l4Bad \/ (f.udpZero /\ f.is82599)
      /\ w.udp <=> f.l4 = "udp"
  BY <1>1 DEF WrittenBack
<1>3. /\ f.ipBad => f.ip
      /\ f.l4Bad => f.l4 # "none"
      /\ f.udpZero => f.l4 = "udp" /\ ~f.l4Bad
  BY DEF Receivable
<1>4. /\ Summed(f, w) <=> f.rxcsum /\ ~(w.ipcs /\ w.ipe) /\ w.l4cs /\ ~w.tcpe
      /\ CsumErr(f, w) <=> f.rxcsum /\ ((w.ipcs /\ w.ipe)
                                        \/ (w.l4cs /\ w.tcpe /\ ~(w.udp /\ f.is82599)))
  BY DEF Summed, CsumErr, IpError, Erratum
<1> HIDE DEF w
<1>5. Summed(f, w) => ~f.ipBad /\ ~f.l4Bad /\ f.l4 # "none"
  BY <1>1, <1>2, <1>3, <1>4
<1>6. CsumErr(f, w) => f.ipBad \/ f.l4Bad
  BY <1>1, <1>2, <1>3, <1>4
<1>7. f.rxcsum /\ (f.ipBad \/ f.l4Bad) => CsumErr(f, w) \/ (f.l4 = "udp" /\ f.is82599)
  BY <1>1, <1>2, <1>3, <1>4
<1> QED BY <1>5, <1>6, <1>7 DEF w

LEMMA ReceiveKeeps ==
  ASSUME OffloadIInv, NEW f \in Frame, ProcessSkbFields(f) PROVE OffloadIInv'
<1>1. opc' = "received" /\ offered' \subseteq TxFeatures
  BY DEF ProcessSkbFields, OffloadIInv
<1>2. rxDesc' = f /\ Receivable(f)
  BY DEF ProcessSkbFields
<1>3. rxSkb'.summed = Summed(f, WrittenBack(f)) /\ rxSkb'.err = CsumErr(f, WrittenBack(f))
  BY DEF ProcessSkbFields
<1>4. OffloadTypeOK'
  BY <1>1 DEF OffloadTypeOK
<1>5. OffloadDescribed'
  BY <1>1 DEF OffloadDescribed
<1>6. OffloadOnce'
  BY <1>1 DEF OffloadOnce
<1>7. ChecksumTrusted'
  BY <1>2, <1>3, Trusted DEF ChecksumTrusted
<1> QED BY <1>1, <1>4, <1>5, <1>6, <1>7 DEF OffloadIInv

LEMMA OffStutter == ASSUME OffloadIInv, UNCHANGED offloadVars PROVE OffloadIInv'
<1>1. /\ opc' = opc /\ skbuff' = skbuff /\ offered' = offered /\ before' = before /\ ctxDesc' = ctxDesc
      /\ dataDesc' = dataDesc /\ rxDesc' = rxDesc /\ rxSkb' = rxSkb
  BY DEF offloadVars
<1>2. OffloadTypeOK' /\ OffloadDescribed' /\ OffloadOnce' /\ ChecksumTrusted'
  <2>1. OffloadTypeOK /\ OffloadDescribed /\ OffloadOnce /\ ChecksumTrusted
    BY DEF OffloadIInv
  <2> QED BY <1>1, <2>1, Zenon DEF OffloadTypeOK, OffloadDescribed, OffloadOnce, ChecksumTrusted, Outgrown,
            L4Offset, Described
<1>3. Prepared(skbuff)' <=> Prepared(skbuff)
  BY <1>1, Zenon DEF Prepared
<1> QED BY <1>1, <1>2, <1>3, Zenon DEF OffloadIInv, Sendable

LEMMA OffStep == ASSUME OffloadIInv, [OffloadNext]_offloadVars PROVE OffloadIInv'
<1>1. CASE \E s \in Skb, user \in SUBSET TxFeatures : Choose(s, user)
  BY <1>1, ChooseKeeps
<1>2. CASE \E f \in Frame : ProcessSkbFields(f)
  BY <1>2, ReceiveKeeps
<1>3. CASE FeaturesCheck \/ StackPrepares \/ XmitFrame \/ XmitDrop
  BY <1>3, CheckKeeps, PreparesKeeps, XmitKeeps, DropKeeps
<1>4. CASE UNCHANGED offloadVars
  BY <1>4, OffStutter
<1> QED BY <1>1, <1>2, <1>3, <1>4 DEF OffloadNext

-----------------------------------------------------------------------------
(* Headers: eth_get_headlen, for every size of the buffer and any frame.   *)

HeadTypes ==
  /\ hstep \in {"eth", "l2", "l4", "done"} /\ hproto \in Protos /\ hnext \in NextHdrs
  /\ hat \in Nat /\ hread \in Nat /\ hend \in Nat /\ hlen \in 0 .. HdrSize
\* No header is begun past the buffer but the last one.
HeadIInv ==
  /\ HeadTypes
  /\ hstep = "eth" => hat = 0
  /\ hstep = "l2" => hat <= HdrSize
  /\ HeadlenWithin /\ HeadlenExact

LEMMA HeadInit == ASSUME HeadersInit PROVE HeadIInv
  BY HeadersAssumption DEF HeadersInit, HeadIInv, HeadTypes, Protos, NextHdrs, HeadlenWithin, HeadlenExact

LEMMA ReturnedRight ==
  ASSUME HeadIInv, NEW len \in 0 .. HdrSize, NEW end \in Nat, Returned(len, end),
         len = IF end <= HdrSize THEN end ELSE HdrSize,
         hread' \in Nat, hread' <= HdrSize, hat' = hat, hproto' = hproto, hnext' = hnext
  PROVE  HeadIInv'
  BY HeadersAssumption DEF HeadIInv, HeadTypes, HeadlenWithin, HeadlenExact, Returned

LEMMA ForwardRight ==
  ASSUME HeadIInv, NEW n \in Nat, NEW step \in {"l2", "l4"}, Forward(step, n),
         step = "l2" => hat + n <= HdrSize,
         hread' \in Nat, hread' <= HdrSize, hproto' \in Protos, hnext' \in NextHdrs,
         hend' = hend, hlen' = hlen
  PROVE  HeadIInv'
  BY HeadersAssumption DEF HeadIInv, HeadTypes, HeadlenWithin, HeadlenExact, Forward

LEMMA BeyondRight ==
  ASSUME HeadIInv, NEW n \in {4, 20, 40}, Beyond(n)
  PROVE  HeadIInv'
<1>1. hat \in Nat /\ hat + n > HdrSize /\ hread \in Nat /\ hread <= HdrSize
  BY HeadersAssumption DEF HeadIInv, HeadTypes, Beyond, RoomFor, HeadlenWithin
<1>2. Returned(HdrSize, hat + n) /\ UNCHANGED <<hat, hproto, hnext, hread>>
  BY DEF Beyond
<1> QED BY <1>1, <1>2, ReturnedRight, HeadersAssumption

LEMMA HeadStep == ASSUME HeadIInv, [EthGetHeadlen]_headVars PROVE HeadIInv'
<1> USE HeadersAssumption
<1>0. /\ hat \in Nat /\ hread \in Nat /\ hread <= HdrSize /\ hproto \in Protos /\ hnext \in NextHdrs
      /\ (hstep = "l2" => hat <= HdrSize) /\ (hstep = "eth" => hat = 0) /\ HdrSize >= 14 /\ HdrSize \in Nat
  BY DEF HeadIInv, HeadTypes, HeadlenWithin
<1>1. CASE UNCHANGED headVars
  BY <1>1 DEF headVars, HeadIInv, HeadTypes, HeadlenWithin, HeadlenExact
<1>2. ASSUME NEW p \in Protos, EthHeader(p) PROVE HeadIInv'
  BY <1>0, <1>2, ForwardRight DEF EthHeader, EthLen
<1>3. ASSUME NEW p \in Protos, VlanTagged(p) PROVE HeadIInv'
  <2>1. CASE Beyond(VlanLen)
    BY <2>1, BeyondRight DEF VlanLen
  <2>2. CASE RoomFor(VlanLen) /\ ~Beyond(VlanLen)
    BY <1>0, <1>3, <2>2, ForwardRight DEF VlanTagged, RoomFor, VlanLen
  <2> QED BY <1>3, <2>1, <2>2 DEF VlanTagged
<1>4. ASSUME NEW w \in IpWords, NEW f \in BOOLEAN, NEW n \in NextHdrs, Ipv4Header(w, f, n)
      PROVE  HeadIInv'
  <2>0. w \in 0 .. 15 /\ hstep = "l2"
    BY <1>4 DEF Ipv4Header
  <2>1. CASE Beyond(IpLen)
    BY <2>1, BeyondRight DEF IpLen
  <2>2. CASE RoomFor(IpLen) /\ 4 * w < IpLen /\ ~Beyond(IpLen)
    <3>1. Returned(hat, hat) /\ hread' = hat + 1 /\ UNCHANGED <<hat, hproto, hnext>>
      BY <1>4, <2>0, <2>2 DEF Ipv4Header, IpLen
    <3>2. hat + 20 <= HdrSize
      BY <1>0, <2>2 DEF RoomFor, IpLen
    <3> QED BY <1>0, <3>1, <3>2, ReturnedRight
  <2>3. CASE RoomFor(IpLen) /\ 4 * w >= IpLen /\ ~Beyond(IpLen)
    <3>1. /\ hnext' = (IF f THEN n ELSE "none") /\ Forward("l4", 4 * w)
          /\ hread' = hat + (IF f THEN 10 ELSE 8) /\ UNCHANGED <<hproto, hend, hlen>>
      BY <1>4, <2>0, <2>3 DEF Ipv4Header, IpLen
    <3>2. hat + 20 <= HdrSize
      BY <1>0, <2>3 DEF RoomFor, IpLen
    <3>3. hnext' \in NextHdrs /\ hread' \in Nat /\ hread' <= HdrSize /\ 4 * w \in Nat
      BY <1>0, <2>0, <3>1, <3>2 DEF NextHdrs
    <3> QED BY <1>0, <3>1, <3>3, ForwardRight
  <2> QED BY <1>4, <2>1, <2>2, <2>3 DEF Ipv4Header
<1>5. ASSUME NEW n \in NextHdrs, Ipv6Header(n) PROVE HeadIInv'
  <2>1. CASE Beyond(Ip6Len)
    BY <2>1, BeyondRight DEF Ip6Len
  <2>2. CASE RoomFor(Ip6Len) /\ ~Beyond(Ip6Len)
    <3>1. hat + 40 <= HdrSize
      BY <1>0, <2>2 DEF RoomFor, Ip6Len
    <3> QED BY <1>0, <1>5, <2>2, <3>1, ForwardRight DEF Ipv6Header, Ip6Len
  <2> QED BY <1>5, <2>1, <2>2 DEF Ipv6Header
<1>6. CASE FcoeHeader
  BY <1>0, <1>6, ForwardRight DEF FcoeHeader, FcoeLen, HeadIInv, HeadTypes
<1>7. CASE OtherHeader
  BY <1>0, <1>7, ReturnedRight DEF OtherHeader
<1>8. ASSUME NEW w \in TcpWords, TcpHeader(w) PROVE HeadIInv'
  <2>0. w \in 0 .. 15 /\ hstep = "l4"
    BY <1>8 DEF TcpHeader
  <2>1. CASE Beyond(TcpLen)
    BY <2>1, BeyondRight DEF TcpLen
  <2>2. CASE RoomFor(TcpLen) /\ ~Beyond(TcpLen)
    <3>1. hat + 20 <= HdrSize
      BY <1>0, <2>2 DEF RoomFor, TcpLen
    <3>2. TcpBytes(w) = IF w < 5 THEN 20 ELSE 4 * w
      BY <2>0 DEF TcpBytes, TcpLen
    <3> DEFINE end == hat + IF w < 5 THEN 20 ELSE 4 * w
    <3>3. end \in Nat /\ Returned(Cut(end), end) /\ hread' = hat + 13 /\ UNCHANGED <<hat, hproto, hnext>>
      BY <1>0, <1>8, <2>0, <2>2, <3>2 DEF TcpHeader
    <3> HIDE DEF end
    <3>4. Cut(end) \in 0 .. HdrSize /\ Cut(end) = IF end <= HdrSize THEN end ELSE HdrSize
      BY <1>0, <3>3 DEF Cut
    <3> QED BY <1>0, <3>1, <3>3, <3>4, ReturnedRight
  <2> QED BY <1>8, <2>1, <2>2 DEF TcpHeader
<1>9. ASSUME NEW n, NEW l \in {8, 12, 0}, PlainL4(n, l) PROVE HeadIInv'
  <2> DEFINE end == hat + l
  <2>1. end \in Nat /\ Returned(Cut(end), end) /\ UNCHANGED <<hat, hproto, hnext, hread>>
    BY <1>0, <1>9 DEF PlainL4
  <2> HIDE DEF end
  <2>2. Cut(end) \in 0 .. HdrSize /\ Cut(end) = IF end <= HdrSize THEN end ELSE HdrSize
    BY <1>0, <2>1 DEF Cut
  <2> QED BY <1>0, <2>1, <2>2, ReturnedRight
<1>10. CASE PlainL4("udp", UdpLen) \/ PlainL4("sctp", SctpLen) \/ PlainL4("none", 0)
  BY <1>9, <1>10 DEF UdpLen, SctpLen
<1> QED BY <1>1, <1>2, <1>3, <1>4, <1>5, <1>6, <1>7, <1>8, <1>10 DEF EthGetHeadlen

-----------------------------------------------------------------------------
(* Headers: __kc_ipv6_find_hdr, for any chain of extension headers.        *)

Lengths == {8, 12, 16, 24}

LEMMA ExtHeader ==
  ASSUME NEW e \in Ext
  PROVE  e.len \in Lengths /\ (e.kind # "fragN" => HdrLenOf(e) = e.len)
  BY DEF Ext, HdrLenOf, Lengths

LEMMA BeforeFinite ==
  ASSUME NEW chain, NEW n \in Nat, NEW len
  PROVE  IsFiniteSet(Before(chain, n, len)) /\ Cardinality(Before(chain, n, len)) \in Nat
<1>1. IsFiniteSet(1 .. n - 1)
  BY FS_Interval
<1>2. Before(chain, n, len) \subseteq 1 .. n - 1
  BY DEF Before
<1> QED BY <1>1, <1>2, FS_Subset, FS_CardinalityType

LEMMA CountStep ==
  ASSUME NEW chain, NEW n \in Nat \ {0}, NEW len
  PROVE  Cardinality(Before(chain, n + 1, len)) =
           Cardinality(Before(chain, n, len)) + IF chain[n].len = len THEN 1 ELSE 0
<1>1. IsFiniteSet(Before(chain, n, len)) /\ Cardinality(Before(chain, n, len)) \in Nat
  BY BeforeFinite
<1>2. n \notin Before(chain, n, len)
  BY DEF Before
<1>3. CASE chain[n].len = len
  <2>1. Before(chain, n + 1, len) = Before(chain, n, len) \cup {n}
    BY <1>3 DEF Before
  <2> QED BY <1>1, <1>2, <1>3, <2>1, FS_AddElement
<1>4. CASE chain[n].len # len
  <2>1. Before(chain, n + 1, len) = Before(chain, n, len)
    BY <1>4 DEF Before
  <2> QED BY <1>1, <1>4, <2>1
<1> QED BY <1>3, <1>4

\* Each header begins where the one before it ends.
LEMMA StartStep ==
  ASSUME NEW chain, NEW n \in Nat \ {0}, chain[n].len \in Lengths
  PROVE  StartOf(chain, n) \in Nat /\ StartOf(chain, n + 1) = StartOf(chain, n) + chain[n].len
<1> DEFINE c(k, len) == Cardinality(Before(chain, k, len))
<1>1. \A len \in Lengths : c(n, len) \in Nat
  BY BeforeFinite
<1>2. \A len \in Lengths : c(n + 1, len) = c(n, len) + IF chain[n].len = len THEN 1 ELSE 0
  BY CountStep
<1>3. \A k : StartOf(chain, k) = 54 + 8 * c(k, 8) + 12 * c(k, 12) + 16 * c(k, 16) + 24 * c(k, 24)
  BY DEF StartOf, WalkBase, EthLen, Ip6Len
<1> HIDE DEF c
<1>4. StartOf(chain, n) \in Nat
  BY <1>1, <1>3 DEF Lengths
<1>5. StartOf(chain, n + 1) = StartOf(chain, n) + chain[n].len
  BY <1>1, <1>2, <1>3 DEF Lengths
<1> QED BY <1>4, <1>5

LEMMA StartsRise ==
  ASSUME NEW chain, NEW k \in Nat, NEW n \in Nat, k <= n
  PROVE  /\ StartOf(chain, k) \in Nat /\ StartOf(chain, n) \in Nat
         /\ StartOf(chain, k) <= StartOf(chain, n)
<1> DEFINE c(m, len) == Cardinality(Before(chain, m, len))
<1>1. \A len \in Lengths : c(k, len) \in Nat /\ c(n, len) \in Nat
  BY BeforeFinite
<1>2. ASSUME NEW len \in Lengths PROVE c(k, len) <= c(n, len)
  <2>1. Before(chain, k, len) \subseteq Before(chain, n, len)
    BY DEF Before
  <2> QED BY <2>1, BeforeFinite, FS_Subset
<1>3. \A m : StartOf(chain, m) = 54 + 8 * c(m, 8) + 12 * c(m, 12) + 16 * c(m, 16) + 24 * c(m, 24)
  BY DEF StartOf, WalkBase, EthLen, Ip6Len
<1> HIDE DEF c
<1> QED BY <1>1, <1>2, <1>3 DEF Lengths

LEMMA FirstStart == ASSUME NEW chain PROVE StartOf(chain, 1) = WalkBase
<1>1. \A len : Before(chain, 1, len) = {}
  BY DEF Before
<1>2. \A len : Cardinality(Before(chain, 1, len)) = 0
  BY <1>1, FS_EmptySet
<1> QED BY <1>2 DEF StartOf, WalkBase, EthLen, Ip6Len

\* the walk is at the start of a header, and has come past no later fragment
Walking ==
  /\ wix \in 1 .. Len(wchain) + 1
  /\ wat = StartOf(wchain, wix)
  /\ \A k \in 1 .. wix - 1 : wchain[k].kind # "fragN"
FindIInv ==
  /\ fstep \in {"start", "walk", "done"} /\ wix \in 0 .. ExtMax + 1 /\ wtold \in BOOLEAN
  /\ fstep # "start" => (\E n \in 0 .. ExtMax : wchain \in [1 .. n -> Ext]) /\ wlen \in Nat
  /\ fstep = "walk" => Walking
  /\ SctpTold

LEMMA FindInit == ASSUME HeadersInit PROVE FindIInv
<1>1. fstep = "start" /\ wix = 0 /\ wtold = FALSE
  BY DEF HeadersInit
<1>2. 0 \in 0 .. ExtMax + 1
  BY HeadersAssumption
<1>3. SctpTold
  BY <1>1 DEF SctpTold
<1> QED BY <1>1, <1>2, <1>3 DEF FindIInv

LEMMA WalkStartKeeps ==
  ASSUME FindIInv, NEW n \in 0 .. ExtMax, NEW chain \in [1 .. n -> Ext], NEW upper,
         NEW len \in WalkLens, NEW c, WalkStart(chain, upper, len, c)
  PROVE  FindIInv'
<1> USE HeadersAssumption
<1>1. /\ fstep' = "walk" /\ wchain' = chain /\ wlen' = WalkBase + len /\ wat' = WalkBase /\ wix' = 1
      /\ wtold' = wtold
  BY DEF WalkStart
<1>2. Len(chain) = n /\ n \in Nat
  OBVIOUS
<1>3. Walking'
  BY <1>1, <1>2, FirstStart DEF Walking
<1>4. wlen' \in Nat /\ wix' \in 0 .. ExtMax + 1
  BY <1>1 DEF WalkBase, EthLen, Ip6Len
<1> QED BY <1>1, <1>3, <1>4 DEF FindIInv, SctpTold

LEMMA FindHdrKeeps == ASSUME FindIInv, FindHdr PROVE FindIInv'
<1> USE HeadersAssumption
<1>0. fstep = "walk" /\ Walking /\ UNCHANGED <<wchain, wupper, wlen, wcsum>> /\ wlen \in Nat /\ wtold \in BOOLEAN
  BY DEF FindHdr, FindIInv
<1>1. PICK n \in 0 .. ExtMax : wchain \in [1 .. n -> Ext]
  BY <1>0 DEF FindIInv
<1>2. Len(wchain) = n /\ DOMAIN wchain = 1 .. n /\ n \in Nat
  BY <1>1
<1>3. wix \in 1 .. n + 1 /\ wat = StartOf(wchain, wix)
  BY <1>0, <1>2 DEF Walking
<1>4. ASSUME fstep' = "done", wix' = wix, wtold' \in BOOLEAN,
             wtold' => wupper = "sctp" /\ wcsum = UpperStart(wchain),
             /\ wupper = "sctp" /\ wcsum = UpperStart(wchain) /\ wlen >= UpperStart(wchain)
             /\ \A i \in DOMAIN wchain : wchain[i].kind # "fragN"
             => wtold'
      PROVE  FindIInv'
  <2>1. SctpTold'
    BY <1>0, <1>4 DEF SctpTold, UpperStart, Before, StartOf
  <2> QED BY <1>0, <1>1, <1>3, <1>4, <2>1 DEF FindIInv
<1>5. CASE wix > n
  <2>1. wix = n + 1 /\ wat = UpperStart(wchain)
    BY <1>2, <1>3, <1>5 DEF UpperStart
  <2>2. CASE wupper = "sctp"
    <3>1. fstep' = "done" /\ wtold' = (wat = wcsum) /\ wix' = wix
      BY <1>2, <1>5, <2>2 DEF FindHdr
    <3> QED BY <1>4, <2>1, <2>2, <3>1
  <2>3. CASE wupper # "sctp"
    <3>1. fstep' = "done" /\ wtold' = FALSE /\ wix' = wix
      BY <1>2, <1>5, <2>3 DEF FindHdr, NotFound
    <3> QED BY <1>4, <2>1, <2>3, <3>1
  <2> QED BY <2>2, <2>3
<1>6. CASE ~(wix > n)
  <2> DEFINE e == wchain[wix]
             stops == \/ ~Pointer(2)
                      \/ e.kind \in {"routing", "frag", "fragN"} /\ ~Pointer(4)
                      \/ e.kind = "fragN"
  <2>1. wix \in 1 .. n /\ e \in Ext
    BY <1>1, <1>3, <1>6
  <2>2. e.len \in Lengths /\ (e.kind # "fragN" => HdrLenOf(e) = e.len)
    BY <2>1, ExtHeader
  <2>3. wat \in Nat /\ StartOf(wchain, wix + 1) = wat + e.len
    BY <1>3, <2>1, <2>2, StartStep
  <2>4. CASE stops
    <3>1. fstep' = "done" /\ wtold' = FALSE /\ wix' = wix
      BY <1>2, <1>6, <2>4 DEF FindHdr, NotFound
    <3>2. ASSUME wlen >= UpperStart(wchain), e.kind # "fragN" PROVE FALSE
      <4>1. StartOf(wchain, wix + 1) <= UpperStart(wchain) /\ UpperStart(wchain) \in Nat
        BY <1>2, <2>1, StartsRise DEF UpperStart
      <4>2. wat + 8 <= wlen
        BY <1>0, <2>2, <2>3, <3>2, <4>1 DEF Lengths
      <4>3. Pointer(2) /\ Pointer(4)
        BY <1>0, <2>3, <4>2 DEF Pointer
      <4> QED BY <2>4, <3>2, <4>3
    <3>3. \A i \in DOMAIN wchain : wchain[i].kind # "fragN" => (wlen >= UpperStart(wchain) => wix # i)
      BY <3>2
    <3> QED BY <1>2, <1>4, <2>1, <3>1, <3>3
  <2>5. CASE ~stops
    <3>1. wat' = wat + HdrLenOf(e) /\ wix' = wix + 1 /\ UNCHANGED <<fstep, wtold>>
      BY <1>2, <1>6, <2>5 DEF FindHdr
    <3>2. e.kind # "fragN"
      BY <2>5
    <3>3. wat' = StartOf(wchain, wix + 1)
      BY <2>2, <2>3, <3>1, <3>2
    <3>4. \A k \in 1 .. (wix + 1) - 1 : wchain[k].kind # "fragN"
      <4>1. \A k \in 1 .. wix - 1 : wchain[k].kind # "fragN"
        BY <1>0 DEF Walking
      <4> QED BY <2>1, <3>2, <4>1
    <3>5. Walking'
      BY <1>0, <1>2, <2>1, <3>1, <3>3, <3>4 DEF Walking
    <3> QED BY <1>0, <1>1, <1>2, <2>1, <3>1, <3>5 DEF FindIInv, SctpTold
  <2> QED BY <2>4, <2>5
<1> QED BY <1>5, <1>6

LEMMA FindStep == ASSUME FindIInv, [FindNext]_findVars PROVE FindIInv'
<1>1. CASE UNCHANGED findVars
  BY <1>1 DEF findVars, FindIInv, Walking, SctpTold, UpperStart, StartOf, Before
<1>2. ASSUME NEW n \in 0 .. ExtMax, NEW chain \in [1 .. n -> Ext], NEW upper \in {"sctp", "udp"},
             NEW len \in WalkLens, NEW c \in 1 .. ExtMax + 1, WalkStart(chain, upper, len, c)
      PROVE  FindIInv'
  BY <1>2, WalkStartKeeps
<1> QED BY <1>1, <1>2, FindHdrKeeps DEF FindNext

-----------------------------------------------------------------------------
LEMMA HeadersImplied ==
  ASSUME HeadIInv, FindIInv
  PROVE  HeadersTypeOK /\ HeadlenWithin /\ HeadlenExact /\ SctpTold
<1>1. hlen \in Nat /\ hlen <= HdrSize /\ HdrSize \in Nat /\ HdrSize % 8 = 0
  BY HeadersAssumption DEF HeadIInv, HeadTypes
<1>2. 8 * ((hlen + 7) \div 8) <= HdrSize
  BY <1>1
<1> QED BY <1>1, <1>2 DEF HeadIInv, HeadTypes, FindIInv, HeadersTypeOK

LEMMA HeadersKept == HeadersSpec => [](HeadersTypeOK /\ HeadlenWithin /\ HeadlenExact /\ SctpTold)
<1> DEFINE HInv == HeadIInv /\ FindIInv
<1>1. HeadersInit => HInv
  BY HeadInit, FindInit
<1>2. HInv /\ [EthGetHeadlen]_headVars /\ [FindNext]_findVars => HInv'
  BY HeadStep, FindStep
<1>3. HInv => HeadersTypeOK /\ HeadlenWithin /\ HeadlenExact /\ SctpTold
  BY HeadersImplied
<1> QED BY <1>1, <1>2, <1>3, PTL DEF HeadersSpec

\* Where the hardware is asked for a checksum or for segments, the descriptor fields are the
\* packet's, whatever features are left on, except of a packet to be segmented whose headers
\* take more than 255 bytes (hdr_len is a u8) and of one that grew past 127 bytes of MAC
\* header when the stack pushed its tag into it; open checksums are computed and tags sent
\* once, and CHECKSUM_UNNECESSARY is said of good frames only.  In a buffer of any size
\* that is a multiple of 8 and holds an Ethernet header, eth_get_headlen finds exactly the
\* headers, and __kc_ipv6_find_hdr finds SCTP behind any extension headers.
THEOREM PacketsAreDescribed == OffloadSpec /\ HeadersSpec => []PacketsDescribed
<1>1. OffloadInit => OffloadIInv
  BY OffInit
<1>2. OffloadIInv /\ [OffloadNext]_offloadVars => OffloadIInv'
  BY OffStep
<1>3. OffloadIInv => OffloadTypeOK /\ OffloadDescribed /\ OffloadOnce /\ ChecksumTrusted
  BY DEF OffloadIInv
<1>4. /\ OffloadTypeOK /\ OffloadDescribed /\ OffloadOnce /\ ChecksumTrusted
      /\ HeadersTypeOK /\ HeadlenWithin /\ HeadlenExact /\ SctpTold
      => PacketsDescribed
  BY DEF PacketsDescribed
<1> QED BY <1>1, <1>2, <1>3, <1>4, HeadersKept, PTL DEF OffloadSpec

-----------------------------------------------------------------------------
(* SelfTest, for any number of elements and any stuck bit.                 *)

\* The table of tests, line by line.
LEMMA Lines ==
  /\ DOMAIN RegTests = 1 .. 9 /\ Len(RegTests) = 9
  /\ RegTests[1] = [reg |-> "rdbal", test |-> TRUE, mask |-> Bits \ LowBits, write |-> Bits \ LowBits]
  /\ RegTests[2] = [reg |-> "rdbah", test |-> TRUE, mask |-> Bits, write |-> Bits]
  /\ RegTests[3] = [reg |-> "rdlen", test |-> TRUE, mask |-> Mid \cup Top,
                    write |-> LowBits \cup Mid \cup Top]
  /\ RegTests[4] = [reg |-> "rxdctl", test |-> FALSE, mask |-> {}, write |-> {4}]
  /\ RegTests[5] = [reg |-> "rdt", test |-> TRUE, mask |-> LowBits \cup Mid, write |-> LowBits \cup Mid]
  /\ RegTests[6] = [reg |-> "rxdctl", test |-> FALSE, mask |-> {}, write |-> {}]
  /\ RegTests[7] = [reg |-> "tdbal", test |-> TRUE, mask |-> Bits \ LowBits, write |-> Bits]
  /\ RegTests[8] = [reg |-> "tdbah", test |-> TRUE, mask |-> Bits, write |-> Bits]
  /\ RegTests[9] = [reg |-> "tdlen", test |-> TRUE, mask |-> Mid \cup Top, write |-> Mid \cup Top]
  BY DEF RegTests

LEMMA Names ==
  /\ RegTests[1].reg = "rdbal" /\ RegTests[2].reg = "rdbah" /\ RegTests[3].reg = "rdlen"
  /\ RegTests[4].reg = "rxdctl" /\ RegTests[5].reg = "rdt" /\ RegTests[6].reg = "rxdctl"
  /\ RegTests[7].reg = "tdbal" /\ RegTests[8].reg = "tdbah" /\ RegTests[9].reg = "tdlen"
  BY Lines

LEMMA Which ==
  ASSUME NEW i \in 1 .. 9
  PROVE  /\ RegTests[i].test <=> i # 4 /\ i # 6
         /\ RegTests[i].reg = "rdt" <=> i = 5
         /\ RegTests[i].reg = "rxdctl" <=> ~RegTests[i].test
<1>1. /\ RegTests[1].test /\ RegTests[2].test /\ RegTests[3].test /\ ~RegTests[4].test
      /\ RegTests[5].test /\ ~RegTests[6].test /\ RegTests[7].test /\ RegTests[8].test /\ RegTests[9].test
  BY Lines
<1>2. i = 1 \/ i = 2 \/ i = 3 \/ i = 4 \/ i = 5 \/ i = 6 \/ i = 7 \/ i = 8 \/ i = 9
  OBVIOUS
<1> QED BY <1>1, <1>2, Names

\* What is compared is what the register has, and all of that is written.
LEMMA Masks ==
  ASSUME NEW i \in 1 .. 9, RegTests[i].test
  PROVE  RegTests[i].mask = Wired(RegTests[i].reg) /\ Wired(RegTests[i].reg) \subseteq RegTests[i].write
<1>2. i = 1 \/ i = 2 \/ i = 3 \/ i = 5 \/ i = 7 \/ i = 8 \/ i = 9
  BY Which
<1>3. CASE i \in {1, 2}
  BY <1>3, Lines DEF Wired
<1>4. CASE i \in {3, 5}
  BY <1>4, Lines DEF Wired
<1>5. CASE i \in {7, 8, 9}
  BY <1>5, Lines DEF Wired
<1> QED BY <1>2, <1>3, <1>4, <1>5

LEMMA OneLine ==
  ASSUME NEW i \in 1 .. 9, NEW j \in 1 .. 9, RegTests[i].test, RegTests[i].reg = RegTests[j].reg
  PROVE  i = j
<1>2. i = 1 \/ i = 2 \/ i = 3 \/ i = 5 \/ i = 7 \/ i = 8 \/ i = 9
  BY Which
<1>3. j = 1 \/ j = 2 \/ j = 3 \/ j = 4 \/ j = 5 \/ j = 6 \/ j = 7 \/ j = 8 \/ j = 9
  OBVIOUS
<1> QED BY <1>2, <1>3, Names

LEMMA PatternList ==
  /\ DOMAIN Patterns = 1 .. 4 /\ Len(Patterns) = 4
  /\ Patterns[3] = {} /\ Patterns[4] = Bits
  BY DEF Patterns

LEMMA WiredBits == \A r : Wired(r) \subseteq Bits
  BY DEF Wired, Bits, LowBits, Mid, Top

LEMMA InRegisters ==
  /\ \A i \in 1 .. 9, q \in 1 .. TestQueues : <<RegTests[i].reg, q>> \in Registers
  /\ \A r \in Registers : r[2] \in 1 .. TestQueues /\ r = <<r[1], r[2]>>
  /\ \A r \in Registers : \E i \in 1 .. 9 : r[1] = RegTests[i].reg
  BY Lines DEF Registers, Tested

-----------------------------------------------------------------------------
\* The test has left the q-th element of the i-th register behind.
Past(i, q) == ti > i \/ (ti = i /\ ri > q)
Running == tpc \in {"reg", "read"}
RegTypes ==
  /\ DOMAIN regs = Registers /\ DOMAIN regsAt = Registers
  /\ \A r \in Registers : regs[r] \subseteq Wired(r[1]) /\ regsAt[r] \subseteq Wired(r[1])
OtherSelfTypes ==
  /\ tpc \in {"idle", "reg", "read", "tested", "done"}
  /\ ti \in 1 .. 9 /\ ri \in 1 .. TestQueues /\ pat \in 1 .. 4
  /\ regResult \in {"none", "pass", "fail"} /\ gone \in BOOLEAN /\ noticed \in BOOLEAN
  /\ noticed => gone
  /\ stuck = {} \/ \E f \in Faults : stuck = {f}
SelfTypes == RegTypes /\ OtherSelfTypes
\* No register with a fault that shows has been passed, nor the empty pattern with a one.
Unpassed ==
  Running /\ ~gone =>
    \A f \in stuck, i \in 1 .. 9 :
      RegTests[i].reg = f.reg[1] /\ RegTests[i].test /\ (f.at \/ f.bit \in Wired(f.reg[1])) =>
        /\ ~Past(i, f.reg[2])
        /\ ti = i /\ ri = f.reg[2] /\ f.at => pat <= 3
\* While tails are tested the queues are enabled.
Enabled ==
  Running /\ ~gone =>
    \A q \in 1 .. TestQueues : ti = 5 \/ (ti = 4 /\ q < ri) => 4 \in regs[<<"rxdctl", q>>]
\* Between writing and reading the register has the pattern.
Written ==
  tpc = "read" =>
    /\ Test.test
    /\ ~gone => regs[Reg] = Patterns[pat] \cap Test.write \cap Wired(Test.reg)
    /\ ~gone /\ Test.reg # "rdt" /\ Broken(Reg) = {} => saved = regsAt[Reg]
KeptRegs ==
  (Running \/ tpc = "tested") /\ ~gone =>
    \A r \in Registers :
      r[1] \notin {"rxdctl", "rdt"} /\ Broken(r) = {} =>
        (tpc = "read" /\ r = Reg) \/ regs[r] = regsAt[r]
Verdict ==
  /\ Running => regResult = "none"
  /\ FaultFound
  /\ tpc = "done" /\ ~gone => \A q \in 1 .. TestQueues : regs[<<"rxdctl", q>>] = {}
DumpedAll == {w \in DumpWrites : IsDumped(w)}
Reports == (dump = {} \/ dump = DumpedAll) /\ SpeedReported
SelfIInv == SelfTypes /\ Unpassed /\ Enabled /\ Written /\ KeptRegs /\ Verdict /\ Reports

-----------------------------------------------------------------------------
LEMMA RegIn == ASSUME OtherSelfTypes
               PROVE  Reg \in Registers /\ Reg[1] = Test.reg /\ Reg[2] = ri
  BY InRegisters DEF OtherSelfTypes, Reg, Test

LEMMA FaultIn ==
  ASSUME OtherSelfTypes, NEW f \in stuck
  PROVE  f \in Faults /\ f.reg \in Registers /\ f.bit \in Bits /\ f.at \in BOOLEAN /\ stuck = {f}
  BY DEF OtherSelfTypes, Faults

LEMMA ReadsOf ==
  ASSUME OtherSelfTypes, ~gone, NEW r
  PROVE  /\ Broken(r) = {} => Read(r) = regs[r]
         /\ \A f \in stuck : f.reg = r => Read(r) = IF f.at THEN regs[r] \cup {f.bit} ELSE regs[r] \ {f.bit}
<1>1. ASSUME Broken(r) = {} PROVE Read(r) = regs[r]
  BY <1>1 DEF Read
<1>2. ASSUME NEW f \in stuck, f.reg = r
      PROVE  Read(r) = IF f.at THEN regs[r] \cup {f.bit} ELSE regs[r] \ {f.bit}
  <2>1. stuck = {f} /\ f.at \in BOOLEAN
    BY FaultIn
  <2>2. Broken(r) = {f}
    BY <1>2, <2>1 DEF Broken
  <2>3. CASE f.at
    <3>1. {g \in Broken(r) : g.at} = {f} /\ {g \in Broken(r) : ~g.at} = {}
      BY <2>2, <2>3
    <3> QED BY <2>3, <3>1 DEF Read
  <2>4. CASE ~f.at
    <3>1. {g \in Broken(r) : g.at} = {} /\ {g \in Broken(r) : ~g.at} = {f}
      BY <2>2, <2>4
    <3> QED BY <2>4, <3>1 DEF Read
  <2> QED BY <2>1, <2>3, <2>4
<1> QED BY <1>1, <1>2

\* A pattern that comes back shows that the register has not the faults it is for.
LEMMA MatchSays ==
  ASSUME SelfTypes, Written, tpc = "read", ~gone, Matches(Read(Reg)), NEW f \in stuck, f.reg = Reg
  PROVE  /\ pat = 3 => ~f.at
         /\ pat = 4 => f.at \/ f.bit \notin Wired(Test.reg)
<1> USE DEF SelfTypes
<1>1. Read(Reg) = IF f.at THEN regs[Reg] \cup {f.bit} ELSE regs[Reg] \ {f.bit}
  BY ReadsOf
<1>2. Read(Reg) = Patterns[pat] \cap Test.write \cap Test.mask
  BY DEF Matches
<1>3. Test.mask = Wired(Test.reg) /\ Wired(Test.reg) \subseteq Test.write /\ f.bit \in Bits
  BY Masks, FaultIn DEF Test, OtherSelfTypes, Written
<1>4. ASSUME pat = 3, f.at PROVE FALSE
  BY <1>1, <1>2, <1>4, PatternList
<1>5. ASSUME pat = 4, ~f.at, f.bit \in Wired(Test.reg) PROVE FALSE
  BY <1>1, <1>2, <1>3, <1>5, PatternList
<1> QED BY <1>4, <1>5

\* A pattern that does not come back is the work of a fault that shows.
LEMMA MismatchSays ==
  ASSUME SelfTypes, Written, tpc = "read", ~gone, ~Matches(Read(Reg))
  PROVE  \E f \in stuck : Visible(f)
<1> USE DEF SelfTypes
<1>1. /\ Test.mask = Wired(Test.reg) /\ Test.test
      /\ regs[Reg] = Patterns[pat] \cap Test.write \cap Wired(Test.reg)
  BY Masks DEF Test, OtherSelfTypes, Written
<1>2. Read(Reg) # regs[Reg]
  BY <1>1 DEF Matches
<1>3. Broken(Reg) # {}
  BY <1>2, ReadsOf
<1>4. PICK f \in stuck : f.reg = Reg
  BY <1>3 DEF Broken
<1>5. f.at \/ f.bit \in Wired(Test.reg)
  BY <1>1, <1>2, <1>4, ReadsOf
<1>6. ti \in DOMAIN RegTests /\ RegTests[ti].reg = f.reg[1] /\ RegTests[ti].test /\ f.reg[1] = Test.reg
  BY <1>1, <1>4, RegIn, Lines DEF OtherSelfTypes, Test
<1> QED BY <1>5, <1>6 DEF Visible

LEMMA LastDiffers == ASSUME gone, ti = 9 PROVE ~Matches(Read(Reg))
<1>1. Read(Reg) = Bits
  BY DEF Read
<1>2. Test.mask = Mid \cup Top
  BY Lines DEF Test
<1>3. 0 \in Bits /\ 0 \notin Mid \cup Top
  BY DEF Bits, Mid, Top
<1> QED BY <1>1, <1>2, <1>3 DEF Matches

LEMMA Around ==
  ASSUME NEW n \in Nat \ {0}, NEW k \in 1 .. n
  PROVE  (k % n) + 1 = IF k = n THEN 1 ELSE k + 1
  OBVIOUS

LEMMA Advances ==
  ASSUME OtherSelfTypes, Advance
  PROVE  \/ /\ ti = 9 /\ ri = TestQueues /\ tpc' = "tested" /\ regResult' = "pass"
            /\ ti' = 9 /\ ri' = 1 /\ pat' = 1
         \/ /\ tpc' = "reg" /\ regResult' = regResult /\ pat' = 1
            /\ ti' \in 1 .. 9 /\ ri' \in 1 .. TestQueues
            /\ \/ ti' = ti /\ ri' = ri + 1
               \/ ti' = ti + 1 /\ ri' = 1 /\ ri = TestQueues
<1>1. ti \in 1 .. 9 /\ ri \in 1 .. TestQueues /\ TestQueues \in Nat \ {0}
  BY SelfTestAssumption DEF OtherSelfTypes
<1>2. ri' = IF ri = TestQueues THEN 1 ELSE ri + 1
  BY <1>1, Around DEF Advance
<1>3. CASE ri = TestQueues /\ ti = 9
  BY <1>1, <1>2, <1>3, Lines DEF Advance
<1>4. CASE ri = TestQueues /\ ti # 9
  BY <1>1, <1>2, <1>4, Lines DEF Advance
<1>5. CASE ri # TestQueues
  BY <1>1, <1>2, <1>5, Lines DEF Advance
<1> QED BY <1>3, <1>4, <1>5

LEMMA StoredIs ==
  ASSUME RegTypes, NEW r \in Registers, NEW v
  PROVE  /\ DOMAIN Stored(r, v) = Registers
         /\ Stored(r, v)[r] = IF Writable(r) THEN v \cap Wired(r[1]) ELSE regs[r]
         /\ \A s \in Registers : s # r => Stored(r, v)[s] = regs[s]
         /\ \A s \in Registers : Stored(r, v)[s] \subseteq Wired(s[1])
  BY DEF Stored, RegTypes

-----------------------------------------------------------------------------
LEMMA SelfInit == ASSUME SelfTestInit(Faults) PROVE SelfIInv
<1>1. /\ regs = [r \in Registers |-> IF r[1] \in {"rdt", "rxdctl"} THEN {} ELSE Wired(r[1]) \cap Odd]
      /\ regsAt = regs /\ tpc = "idle" /\ gone = FALSE /\ noticed = FALSE
      /\ ti = 1 /\ ri = 1 /\ pat = 1 /\ regResult = "none" /\ dump = {} /\ linkOut = "none"
  BY DEF SelfTestInit
<1>2. stuck = {} \/ \E f \in Faults : stuck = {f}
  BY DEF SelfTestInit
<1>3. RegTypes
  BY <1>1 DEF RegTypes
<1>4. OtherSelfTypes
  <2>1. gone \in BOOLEAN /\ noticed \in BOOLEAN /\ ~noticed
    BY <1>1
  <2>2. ti \in 1 .. 9 /\ ri \in 1 .. TestQueues /\ pat \in 1 .. 4
    BY <1>1, SelfTestAssumption
  <2> QED BY <1>1, <1>2, <2>1, <2>2 DEF OtherSelfTypes
<1>5. Unpassed /\ Enabled /\ Written /\ KeptRegs /\ Verdict /\ Reports
  BY <1>1 DEF Unpassed, Enabled, Written, KeptRegs, Verdict, Reports, Running, FaultFound, SpeedReported
<1> QED BY <1>3, <1>4, <1>5 DEF SelfIInv, SelfTypes

LEMMA SelfSame ==
  ASSUME SelfIInv,
         UNCHANGED <<regs, stuck, gone, noticed, tpc, ti, ri, pat, saved, regsAt, regResult>>
  PROVE  SelfTypes' /\ Unpassed' /\ Enabled' /\ Written' /\ KeptRegs' /\ Verdict'
<1>1. SelfTypes'
  BY DEF SelfIInv, SelfTypes, RegTypes, OtherSelfTypes
<1>2. Unpassed' /\ Enabled'
  BY DEF SelfIInv, Unpassed, Enabled, Past, Running
<1>3. Written' /\ KeptRegs'
  BY DEF SelfIInv, Written, KeptRegs, Running, Test, Reg, Broken
<1>4. Verdict'
  BY DEF SelfIInv, Verdict, Running, FaultFound
<1> QED BY <1>1, <1>2, <1>3, <1>4

LEMMA VanishKeeps == ASSUME SelfIInv, Vanish PROVE SelfIInv'
<1>1. /\ gone' = TRUE /\ regs' = regs /\ stuck' = stuck /\ noticed' = noticed /\ tpc' = tpc /\ ti' = ti
      /\ ri' = ri /\ pat' = pat /\ regsAt' = regsAt /\ regResult' = regResult
      /\ dump' = dump /\ linkIn' = linkIn /\ linkOut' = linkOut
  BY DEF Vanish, testVars, linkReport
<1>2. SelfTypes'
  BY <1>1 DEF SelfIInv, SelfTypes, RegTypes, OtherSelfTypes
<1>3. Unpassed' /\ Enabled' /\ KeptRegs'
  BY <1>1 DEF Unpassed, Enabled, KeptRegs
<1>4. Written'
  BY <1>1 DEF SelfIInv, Written, Test
<1>5. Verdict'
  BY <1>1 DEF SelfIInv, Verdict, Running, FaultFound
<1>6. Reports'
  BY <1>1 DEF SelfIInv, Reports, SpeedReported
<1> QED BY <1>2, <1>3, <1>4, <1>5, <1>6 DEF SelfIInv

LEMMA DiagTestKeeps == ASSUME SelfIInv, DiagTest PROVE SelfIInv'
<1>1. /\ tpc' = (IF noticed THEN "tested" ELSE "reg") /\ regResult' = (IF noticed THEN "fail" ELSE "none")
      /\ ti' = 1 /\ ri' = 1 /\ pat' = 1 /\ regsAt' = regs /\ regs' = regs /\ stuck' = stuck
      /\ gone' = gone /\ noticed' = noticed /\ dump' = dump /\ linkIn' = linkIn /\ linkOut' = linkOut
  BY DEF DiagTest, linkReport
<1>2. RegTypes /\ OtherSelfTypes
  BY DEF SelfIInv, SelfTypes
<1>3. SelfTypes'
  BY <1>1, <1>2, SelfTestAssumption DEF SelfTypes, RegTypes, OtherSelfTypes
<1>4. Unpassed'
  <2>1. \A f \in stuck : f.reg[2] \in 1 .. TestQueues
    BY <1>2, FaultIn, InRegisters
  <2> QED BY <1>1, <2>1 DEF Unpassed, Past
<1>5. Enabled' /\ Written'
  BY <1>1 DEF Enabled, Written
<1>6. KeptRegs'
  BY <1>1 DEF KeptRegs
<1>7. Verdict'
  BY <1>1, <1>2 DEF Verdict, Running, FaultFound, OtherSelfTypes
<1>8. Reports'
  BY <1>1 DEF SelfIInv, Reports, SpeedReported
<1> QED BY <1>3, <1>4, <1>5, <1>6, <1>7, <1>8 DEF SelfIInv

LEMMA WriteNoTestKeeps == ASSUME SelfIInv, WriteNoTest PROVE SelfIInv'
<1>1. /\ tpc = "reg" /\ ~Test.test /\ regs' = Stored(Reg, Test.write) /\ Advance
      /\ stuck' = stuck /\ gone' = gone /\ noticed' = noticed /\ regsAt' = regsAt
      /\ dump' = dump /\ linkIn' = linkIn /\ linkOut' = linkOut
  BY DEF WriteNoTest, linkReport
<1>2. /\ RegTypes /\ OtherSelfTypes /\ Unpassed /\ Enabled /\ KeptRegs /\ Verdict
  BY DEF SelfIInv, SelfTypes
<1>3. Test = RegTests[ti] /\ ti \in 1 .. 9 /\ ri \in 1 .. TestQueues /\ TestQueues \in Nat
  BY <1>2, SelfTestAssumption DEF Test, OtherSelfTypes
<1>4. (ti = 4 \/ ti = 6) /\ Test.reg = "rxdctl"
  BY <1>1, <1>3, Which
<1>5. Reg = <<"rxdctl", ri>> /\ Reg \in Registers
  BY <1>2, <1>4, RegIn DEF Reg
<1>6. /\ tpc' = "reg" /\ regResult' = regResult /\ pat' = 1
      /\ ti' \in 1 .. 9 /\ ri' \in 1 .. TestQueues
      /\ \/ ti' = ti /\ ri' = ri + 1
         \/ ti' = ti + 1 /\ ri' = 1 /\ ri = TestQueues
  BY <1>1, <1>2, <1>4, Advances
<1>7. /\ DOMAIN regs' = Registers
      /\ regs'[Reg] = IF Writable(Reg) THEN Test.write \cap Wired(Reg[1]) ELSE regs[Reg]
      /\ \A s \in Registers : s # Reg => regs'[s] = regs[s]
      /\ \A s \in Registers : regs'[s] \subseteq Wired(s[1])
  BY <1>1, <1>2, <1>5, StoredIs
<1>8. RegTypes'
  BY <1>1, <1>2, <1>7 DEF RegTypes
<1>9. OtherSelfTypes'
  BY <1>1, <1>2, <1>6 DEF OtherSelfTypes
<1>10. Unpassed'
  <2> SUFFICES ASSUME ~gone, NEW f \in stuck, NEW i \in 1 .. 9,
                      RegTests[i].reg = f.reg[1], RegTests[i].test, f.at \/ f.bit \in Wired(f.reg[1])
               PROVE  ~Past(i, f.reg[2])' /\ pat' <= 3
    BY <1>1, <1>6 DEF Unpassed
  <2>1. ~Past(i, f.reg[2])
    BY <1>1, <1>2 DEF Unpassed, Running
  <2>2. i # ti /\ f.reg[2] \in 1 .. TestQueues
    BY <1>1, <1>2, <1>3, FaultIn, InRegisters
  <2>3. ~Past(i, f.reg[2])'
    BY <2>1, <2>2, <1>1, <1>3, <1>6 DEF Past
  <2> QED BY <2>3, <1>6
<1>11. Enabled'
  <2> SUFFICES ASSUME ~gone, NEW q \in 1 .. TestQueues, ti' = 5 \/ (ti' = 4 /\ q < ri')
               PROVE  4 \in regs'[<<"rxdctl", q>>]
    BY <1>1 DEF Enabled
  <2>1. ti = 4
    BY <1>4, <1>6
  <2>2. q < ri \/ q = ri
    BY <2>1, <1>3, <1>6
  <2>3. <<"rxdctl", q>> \in Registers
    BY InRegisters, Names
  <2>4. CASE q = ri
    <3>1. Writable(Reg) /\ Reg[1] = "rxdctl"
      BY <1>5 DEF Writable
    <3>2. Test.write = {4} /\ 4 \in Wired("rxdctl")
      BY <2>1, <1>3, Lines DEF Wired, Bits
    <3> QED BY <2>4, <3>1, <3>2, <1>5, <1>7
  <2>5. CASE q < ri
    <3>1. 4 \in regs[<<"rxdctl", q>>]
      BY <2>1, <2>5, <1>1, <1>2 DEF Enabled, Running
    <3>2. <<"rxdctl", q>> # Reg
      BY <2>5, <1>3, <1>5
    <3> QED BY <2>3, <3>1, <3>2, <1>7
  <2> QED BY <2>2, <2>4, <2>5
<1>12. Written'
  BY <1>6 DEF Written
<1>13. KeptRegs'
  <2> SUFFICES ASSUME ~gone, NEW r \in Registers, r[1] \notin {"rxdctl", "rdt"}, Broken(r) = {}
               PROVE  regs'[r] = regsAt[r]
    BY <1>1 DEF KeptRegs, Broken
  <2>1. r # Reg
    BY <1>5
  <2>2. regs[r] = regsAt[r]
    BY <1>1, <1>2 DEF KeptRegs, Running
  <2> QED BY <2>1, <2>2, <1>7
<1>14. Verdict'
  BY <1>1, <1>2, <1>6 DEF Verdict, Running, FaultFound
<1>15. Reports'
  BY <1>1 DEF SelfIInv, Reports, SpeedReported
<1> QED BY <1>8, <1>9, <1>10, <1>11, <1>12, <1>13, <1>14, <1>15 DEF SelfIInv, SelfTypes

LEMMA PatternWriteKeeps == ASSUME SelfIInv, PatternWrite PROVE SelfIInv'
<1>1. /\ tpc = "reg" /\ Test.test /\ stuck' = stuck /\ gone' = gone /\ ti' = ti /\ ri' = ri /\ pat' = pat
      /\ regsAt' = regsAt /\ dump' = dump /\ linkIn' = linkIn /\ linkOut' = linkOut
  BY DEF PatternWrite, linkReport
<1>2. /\ RegTypes /\ OtherSelfTypes /\ Unpassed /\ Enabled /\ KeptRegs /\ Verdict
  BY DEF SelfIInv, SelfTypes
<1>3. Test' = Test /\ Reg' = Reg /\ Test = RegTests[ti] /\ ti \in 1 .. 9
  BY <1>1, <1>2 DEF Test, Reg, OtherSelfTypes
<1>4. Reg \in Registers /\ Reg[1] = Test.reg /\ Reg[2] = ri /\ ri \in 1 .. TestQueues
  BY <1>2, RegIn DEF OtherSelfTypes
<1>5. \A r : Broken(r)' = Broken(r)
  BY <1>1 DEF Broken
<1>6. Reports'
  BY <1>1 DEF SelfIInv, Reports, SpeedReported
<1>7. CASE pat = 1 /\ noticed
  <2>1. regResult' = "fail" /\ tpc' = "tested" /\ regs' = regs /\ noticed' = noticed /\ gone
    BY <1>2, <1>7 DEF PatternWrite, OtherSelfTypes
  <2>2. SelfTypes'
    BY <1>1, <1>2, <2>1 DEF SelfTypes, RegTypes, OtherSelfTypes
  <2>3. Unpassed' /\ Enabled' /\ Written' /\ KeptRegs' /\ Verdict'
    BY <1>1, <2>1 DEF Unpassed, Enabled, Written, KeptRegs, Verdict, Running, FaultFound
  <2> QED BY <1>6, <2>2, <2>3 DEF SelfIInv
<1>8. CASE ~(pat = 1 /\ noticed)
  <2>1. /\ saved' = Read(Reg) /\ noticed' = (noticed \/ gone)
        /\ regs' = Stored(Reg, Patterns[pat] \cap Test.write) /\ tpc' = "read" /\ regResult' = regResult
    BY <1>8 DEF PatternWrite
  <2>2. /\ DOMAIN regs' = Registers
        /\ regs'[Reg] = IF Writable(Reg) THEN (Patterns[pat] \cap Test.write) \cap Wired(Reg[1])
                                         ELSE regs[Reg]
        /\ \A s \in Registers : s # Reg => regs'[s] = regs[s]
        /\ \A s \in Registers : regs'[s] \subseteq Wired(s[1])
    <3> DEFINE v == Patterns[pat] \cap Test.write
    <3>1. /\ DOMAIN Stored(Reg, v) = Registers
          /\ Stored(Reg, v)[Reg] = IF Writable(Reg) THEN v \cap Wired(Reg[1]) ELSE regs[Reg]
          /\ \A s \in Registers : s # Reg => Stored(Reg, v)[s] = regs[s]
          /\ \A s \in Registers : Stored(Reg, v)[s] \subseteq Wired(s[1])
      <4> HIDE DEF v
      <4> QED BY <1>2, <1>4, StoredIs
    <3> QED BY <2>1, <3>1
  <2>3. Test.reg # "rxdctl" /\ (Test.reg = "rdt" => ti = 5)
    BY <1>1, <1>3, Which
  <2>4. RegTypes'
    BY <1>1, <1>2, <2>2 DEF RegTypes
  <2>5. OtherSelfTypes'
    <3>1. noticed' \in BOOLEAN /\ (noticed' => gone)
      BY <1>2, <2>1 DEF OtherSelfTypes
    <3> QED BY <1>1, <1>2, <2>1, <3>1 DEF OtherSelfTypes
  <2>6. Unpassed'
    BY <1>1, <1>2, <2>1 DEF Unpassed, Past, Running
  <2>7. \A q \in 1 .. TestQueues : regs'[<<"rxdctl", q>>] = regs[<<"rxdctl", q>>]
    <3>1. \A q \in 1 .. TestQueues : <<"rxdctl", q>> \in Registers /\ <<"rxdctl", q>> # Reg
      BY InRegisters, Names, <1>4, <2>3
    <3> QED BY <3>1, <2>2
  <2>8. Enabled'
    BY <1>1, <1>2, <2>1, <2>7 DEF Enabled, Running
  <2>9. ASSUME ~gone PROVE Writable(Reg)
    <3>1. Reg = <<Test.reg, ri>>
      BY DEF Reg
    <3>2. CASE Test.reg = "rdt"
      <4>1. 4 \in regs[<<"rxdctl", ri>>]
        BY <1>1, <1>2, <1>4, <2>3, <2>9, <3>2 DEF Enabled, Running
      <4> QED BY <1>4, <2>9, <4>1 DEF Writable
    <3>3. CASE Test.reg # "rdt"
      BY <1>4, <2>9, <3>3 DEF Writable
    <3> QED BY <3>2, <3>3
  <2>10. Written'
    <3>1. ~gone => regs'[Reg] = Patterns[pat] \cap Test.write \cap Wired(Test.reg)
      BY <1>4, <2>2, <2>9
    <3>2. ASSUME ~gone, Test.reg # "rdt", Broken(Reg) = {} PROVE saved' = regsAt[Reg]
      <4>1. regs[Reg] = regsAt[Reg]
        BY <1>1, <1>2, <1>4, <2>3, <3>2 DEF KeptRegs, Running
      <4> QED BY <1>2, <2>1, <3>2, <4>1, ReadsOf
    <3> QED BY <1>1, <1>3, <1>5, <3>1, <3>2 DEF Written
  <2>11. KeptRegs'
    BY <1>1, <1>2, <1>3, <1>5, <2>1, <2>2 DEF KeptRegs, Running
  <2>12. Verdict'
    BY <1>1, <1>2, <2>1 DEF Verdict, Running, FaultFound
  <2> QED BY <1>6, <2>4, <2>5, <2>6, <2>8, <2>10, <2>11, <2>12 DEF SelfIInv, SelfTypes
<1> QED BY <1>7, <1>8

LEMMA PatternReadKeeps == ASSUME SelfIInv, PatternRead PROVE SelfIInv'
<1> DEFINE ok == Matches(Read(Reg))
<1>1. /\ tpc = "read" /\ stuck' = stuck /\ gone' = gone /\ noticed' = (noticed \/ gone)
      /\ regsAt' = regsAt /\ regs' = Stored(Reg, saved)
      /\ dump' = dump /\ linkIn' = linkIn /\ linkOut' = linkOut
  BY DEF PatternRead, linkReport, GivenBack
<1>2. IF ~ok THEN tpc' = "tested" /\ regResult' = "fail" /\ UNCHANGED <<ti, ri, pat>>
      ELSE IF pat < 4 THEN pat' = pat + 1 /\ tpc' = "reg" /\ UNCHANGED <<ti, ri, regResult>>
      ELSE Advance
  BY PatternList DEF PatternRead
<1>3. /\ RegTypes /\ OtherSelfTypes /\ Unpassed /\ Enabled /\ Written /\ KeptRegs /\ Verdict /\ SelfTypes
  BY DEF SelfIInv, SelfTypes
<1>4. /\ Test = RegTests[ti] /\ ti \in 1 .. 9 /\ ri \in 1 .. TestQueues /\ pat \in 1 .. 4
      /\ Test.test /\ TestQueues \in Nat
  BY <1>1, <1>3, SelfTestAssumption DEF Test, OtherSelfTypes, Written
<1>5. Reg \in Registers /\ Reg[1] = Test.reg /\ Reg[2] = ri /\ Test.reg # "rxdctl"
  BY <1>3, <1>4, RegIn, Which
<1> HIDE DEF ok
<1>6. /\ DOMAIN regs' = Registers
      /\ regs'[Reg] = IF Writable(Reg) THEN saved \cap Wired(Reg[1]) ELSE regs[Reg]
      /\ \A s \in Registers : s # Reg => regs'[s] = regs[s]
      /\ \A s \in Registers : regs'[s] \subseteq Wired(s[1])
  <2>1. /\ DOMAIN Stored(Reg, saved) = Registers
        /\ Stored(Reg, saved)[Reg] = IF Writable(Reg) THEN saved \cap Wired(Reg[1]) ELSE regs[Reg]
        /\ \A s \in Registers : s # Reg => Stored(Reg, saved)[s] = regs[s]
        /\ \A s \in Registers : Stored(Reg, saved)[s] \subseteq Wired(s[1])
    BY <1>3, <1>5, StoredIs
  <2> QED BY <1>1, <2>1
<1>7. RegTypes'
  BY <1>1, <1>3, <1>6 DEF RegTypes
<1>8. noticed' \in BOOLEAN /\ (noticed' => gone)
  BY <1>1, <1>3 DEF OtherSelfTypes
<1>9. ASSUME ~gone, NEW r \in Registers, r[1] \notin {"rxdctl", "rdt"}, Broken(r) = {}
      PROVE  regs'[r] = regsAt[r]
  <2>1. CASE r # Reg
    <3>1. regs[r] = regsAt[r]
      BY <1>1, <1>3, <1>9, <2>1 DEF KeptRegs, Running
    <3> QED BY <1>6, <2>1, <3>1
  <2>2. CASE r = Reg
    <3>1. saved = regsAt[Reg] /\ Writable(Reg)
      BY <1>1, <1>3, <1>5, <1>9, <2>2 DEF Written, Writable
    <3>2. regsAt[Reg] \subseteq Wired(Reg[1])
      BY <1>3, <1>5 DEF RegTypes
    <3> QED BY <1>6, <2>2, <3>1, <3>2
  <2> QED BY <2>1, <2>2
<1>10. \A q \in 1 .. TestQueues : regs'[<<"rxdctl", q>>] = regs[<<"rxdctl", q>>]
  <2>1. \A q \in 1 .. TestQueues : <<"rxdctl", q>> \in Registers /\ <<"rxdctl", q>> # Reg
    BY InRegisters, Names, <1>5
  <2> QED BY <2>1, <1>6
<1>11. Reports'
  BY <1>1 DEF SelfIInv, Reports, SpeedReported
<1>12. \A r : Broken(r)' = Broken(r)
  BY <1>1 DEF Broken
<1>13. tpc' # "read" => KeptRegs'
  BY <1>1, <1>9, <1>12 DEF KeptRegs
<1>14. CASE ~ok
  <2>1. tpc' = "tested" /\ regResult' = "fail" /\ ti' = ti /\ ri' = ri /\ pat' = pat
    BY <1>2, <1>14
  <2>2. OtherSelfTypes'
    BY <1>1, <1>3, <1>8, <2>1 DEF OtherSelfTypes
  <2>3. Unpassed' /\ Enabled' /\ Written'
    BY <2>1 DEF Unpassed, Enabled, Written, Running
  <2>4. gone \/ \E f \in stuck : Visible(f)
    BY <1>1, <1>3, <1>14, MismatchSays DEF ok
  <2>5. Verdict'
    BY <1>1, <2>1, <2>4 DEF Verdict, Running, FaultFound
  <2> QED BY <1>7, <1>11, <1>13, <2>1, <2>2, <2>3, <2>5 DEF SelfIInv, SelfTypes
<1>15. CASE ok /\ pat < 4
  <2>1. pat' = pat + 1 /\ tpc' = "reg" /\ ti' = ti /\ ri' = ri /\ regResult' = regResult
    BY <1>2, <1>15
  <2>2. OtherSelfTypes'
    <3>1. pat' \in 1 .. 4
      BY <1>4, <1>15, <2>1
    <3> QED BY <1>1, <1>3, <1>8, <2>1, <3>1 DEF OtherSelfTypes
  <2>3. Unpassed'
    <3> SUFFICES ASSUME ~gone, NEW f \in stuck, NEW i \in 1 .. 9,
                        RegTests[i].reg = f.reg[1], RegTests[i].test, f.at \/ f.bit \in Wired(f.reg[1])
                 PROVE  ~Past(i, f.reg[2])' /\ (ti = i /\ ri = f.reg[2] /\ f.at => pat' <= 3)
      BY <1>1, <2>1 DEF Unpassed
    <3>1. ~Past(i, f.reg[2]) /\ (ti = i /\ ri = f.reg[2] /\ f.at => pat <= 3)
      BY <1>1, <1>3 DEF Unpassed, Running
    <3>2. ~Past(i, f.reg[2])'
      BY <3>1, <1>1, <2>1 DEF Past
    <3>3. ASSUME ti = i, ri = f.reg[2], f.at PROVE pat' <= 3
      <4>1. f.reg = Reg
        BY <1>1, <1>3, <3>3, FaultIn, InRegisters DEF Reg, Test
      <4>2. pat # 3
        BY <1>1, <1>3, <1>15, <3>3, <4>1, MatchSays DEF ok
      <4> QED BY <1>4, <2>1, <3>1, <3>3, <4>2
    <3> QED BY <3>2, <3>3
  <2>4. Enabled'
    BY <1>1, <1>3, <1>10, <2>1 DEF Enabled, Running
  <2>5. Written'
    BY <2>1 DEF Written
  <2>6. Verdict'
    BY <1>1, <1>3, <2>1 DEF Verdict, Running, FaultFound
  <2> QED BY <1>7, <1>11, <1>13, <2>1, <2>2, <2>3, <2>4, <2>5, <2>6 DEF SelfIInv, SelfTypes
<1>16. CASE ok /\ ~(pat < 4)
  <2>1. pat = 4 /\ Advance
    BY <1>2, <1>4, <1>16
  <2>2. \/ /\ ti = 9 /\ ri = TestQueues /\ tpc' = "tested" /\ regResult' = "pass"
           /\ ti' = 9 /\ ri' = 1 /\ pat' = 1
        \/ /\ tpc' = "reg" /\ regResult' = regResult /\ pat' = 1
           /\ ti' \in 1 .. 9 /\ ri' \in 1 .. TestQueues
           /\ \/ ti' = ti /\ ri' = ri + 1
              \/ ti' = ti + 1 /\ ri' = 1 /\ ri = TestQueues
    BY <1>3, <2>1, Advances
  \* no fault that shows lies before the next element
  <2>3. ASSUME ~gone, NEW f \in stuck, NEW i \in 1 .. 9,
               RegTests[i].reg = f.reg[1], RegTests[i].test, f.at \/ f.bit \in Wired(f.reg[1])
        PROVE  ~Past(i, f.reg[2]) /\ ~(ti = i /\ ri = f.reg[2]) /\ f.reg[2] \in 1 .. TestQueues
    <3>1. ~Past(i, f.reg[2]) /\ (ti = i /\ ri = f.reg[2] /\ f.at => pat <= 3)
      BY <1>1, <1>3, <2>3 DEF Unpassed, Running
    <3>2. ASSUME ti = i, ri = f.reg[2] PROVE FALSE
      <4>1. f.reg = Reg
        BY <1>1, <1>3, <2>3, <3>2, FaultIn, InRegisters DEF Reg, Test
      <4>2. f.at \/ f.bit \notin Wired(Test.reg)
        BY <1>1, <1>3, <1>16, <2>1, <2>3, <4>1, MatchSays DEF ok
      <4>3. f.reg[1] = Test.reg
        BY <4>1, <1>5
      <4> QED BY <2>1, <2>3, <3>1, <3>2, <4>2, <4>3
    <3>3. f.reg[2] \in 1 .. TestQueues
      BY <1>3, <2>3, FaultIn, InRegisters
    <3> QED BY <3>1, <3>2, <3>3
  <2>4. OtherSelfTypes'
    <3>1. ti' \in 1 .. 9 /\ ri' \in 1 .. TestQueues /\ pat' \in 1 .. 4
      BY <1>4, <2>2
    <3>2. tpc' \in {"reg", "tested"} /\ regResult' \in {"none", "pass", "fail"}
      BY <1>3, <2>2 DEF OtherSelfTypes
    <3> QED BY <1>1, <1>3, <1>8, <3>1, <3>2 DEF OtherSelfTypes
  <2>5. Written' /\ KeptRegs'
    BY <2>2, <1>13 DEF Written
  <2>6. CASE tpc' = "tested"
    <3>1. ti = 9 /\ ri = TestQueues /\ regResult' = "pass"
      BY <2>2, <2>6
    <3>2. ~gone
      BY <1>16, <3>1, LastDiffers DEF ok
    <3>3. Unpassed' /\ Enabled'
      BY <2>6 DEF Unpassed, Enabled, Running
    <3>4. ASSUME NEW f \in stuck, Visible(f) PROVE FALSE
      <4>1. PICK i \in 1 .. 9 :
              RegTests[i].reg = f.reg[1] /\ RegTests[i].test /\ (f.at \/ f.bit \in Wired(f.reg[1]))
        BY <3>4, Lines DEF Visible
      <4>2. ~Past(i, f.reg[2]) /\ ~(ti = i /\ ri = f.reg[2]) /\ f.reg[2] \in 1 .. TestQueues
        BY <2>3, <3>2, <4>1
      <4> QED BY <1>4, <3>1, <4>2 DEF Past
    <3>5. ~noticed'
      BY <1>8, <3>2
    <3>6. Verdict'
      BY <1>1, <2>6, <3>1, <3>4, <3>5 DEF Verdict, Running, FaultFound
    <3> QED BY <1>7, <1>11, <2>4, <2>5, <3>3, <3>6 DEF SelfIInv, SelfTypes
  <2>7. CASE tpc' = "reg"
    <3>1. /\ regResult' = regResult /\ pat' = 1
          /\ \/ ti' = ti /\ ri' = ri + 1
             \/ ti' = ti + 1 /\ ri' = 1 /\ ri = TestQueues
      BY <2>2, <2>7
    <3>2. Unpassed'
      <4> SUFFICES ASSUME ~gone, NEW f \in stuck, NEW i \in 1 .. 9,
                          RegTests[i].reg = f.reg[1], RegTests[i].test,
                          f.at \/ f.bit \in Wired(f.reg[1])
                   PROVE  ~Past(i, f.reg[2])' /\ pat' <= 3
        BY <1>1, <3>1 DEF Unpassed
      <4>1. ~Past(i, f.reg[2]) /\ ~(ti = i /\ ri = f.reg[2]) /\ f.reg[2] \in 1 .. TestQueues
        BY <2>3
      <4>2. ~Past(i, f.reg[2])'
        BY <4>1, <1>1, <1>4, <3>1 DEF Past
      <4> QED BY <4>2, <3>1
    <3>3. Enabled'
      <4>1. ti # 4
        BY <1>4, Which
      <4> QED BY <4>1, <1>1, <1>3, <1>4, <1>10, <2>7, <3>1 DEF Enabled, Running
    <3>4. Verdict'
      BY <1>1, <1>3, <2>7, <3>1 DEF Verdict, Running, FaultFound
    <3> QED BY <1>7, <1>11, <2>4, <2>5, <3>2, <3>3, <3>4 DEF SelfIInv, SelfTypes
  <2> QED BY <2>2, <2>6, <2>7
<1> QED BY <1>14, <1>15, <1>16

LEMMA TestResetKeeps == ASSUME SelfIInv, TestReset PROVE SelfIInv'
<1>1. /\ tpc = "tested" /\ tpc' = "done" /\ noticed' = (noticed \/ gone) /\ stuck' = stuck /\ gone' = gone
      /\ regs' = (IF gone THEN regs ELSE [r \in Registers |-> IF r[1] \in Cleared THEN {} ELSE regs[r]])
      /\ ti' = ti /\ ri' = ri /\ pat' = pat /\ regsAt' = regsAt /\ regResult' = regResult
      /\ dump' = dump /\ linkIn' = linkIn /\ linkOut' = linkOut
  BY DEF TestReset, linkReport
<1>2. /\ RegTypes /\ OtherSelfTypes /\ Verdict
  BY DEF SelfIInv, SelfTypes
<1>3. RegTypes'
  BY <1>1, <1>2 DEF RegTypes
<1>4. OtherSelfTypes'
  <2>1. noticed' \in BOOLEAN /\ (noticed' => gone)
    BY <1>1, <1>2 DEF OtherSelfTypes
  <2> QED BY <1>1, <1>2, <2>1 DEF OtherSelfTypes
<1>5. Unpassed' /\ Enabled' /\ Written' /\ KeptRegs'
  BY <1>1 DEF Unpassed, Enabled, Written, KeptRegs, Running
<1>6. ~gone => \A q \in 1 .. TestQueues : regs'[<<"rxdctl", q>>] = {}
  BY <1>1, InRegisters, Names DEF Cleared
<1>7. Verdict'
  BY <1>1, <1>2, <1>6 DEF Verdict, Running, FaultFound
<1>8. Reports'
  BY <1>1 DEF SelfIInv, Reports, SpeedReported
<1> QED BY <1>3, <1>4, <1>5, <1>7, <1>8 DEF SelfIInv, SelfTypes

\* What VFLINKS says of a speed is taken for that speed.
LEMMA SpeedIsRight ==
  ASSUME NEW mac \in LinkMacs, NEW s \in Speeds(mac)
  PROVE  VflinksSpeed(mac, LinkCode(s), NonStandard(s)) = s
<1>1. mac = "82599" \/ mac = "x550" \/ mac = "x550em"
  BY SelfTestAssumption
<1>2. CASE mac = "82599"
  BY <1>2 DEF Speeds, VflinksSpeed, LinkCode, NonStandard, NonStdMacs
<1>3. CASE mac = "x550"
  BY <1>3 DEF Speeds, VflinksSpeed, LinkCode, NonStandard, NonStdMacs
<1>4. CASE mac = "x550em"
  BY <1>4 DEF Speeds, VflinksSpeed, LinkCode, NonStandard, NonStdMacs
<1> QED BY <1>1, <1>2, <1>3, <1>4

LEMMA SelfStep == ASSUME SelfIInv, [SelfTestNext]_selfVars PROVE SelfIInv'
<1>1. CASE GetRegs
  <2>1. /\ UNCHANGED <<regs, stuck, gone, noticed, tpc, ti, ri, pat, saved, regsAt, regResult>>
        /\ dump' = DumpedAll /\ linkIn' = linkIn /\ linkOut' = linkOut
    BY <1>1 DEF GetRegs, testVars, linkReport, DumpedAll
  <2>2. Reports'
    BY <2>1 DEF SelfIInv, Reports, SpeedReported
  <2> QED BY <2>1, <2>2, SelfSame DEF SelfIInv
<1>2. ASSUME NEW mac \in LinkMacs, NEW up \in BOOLEAN, NEW s \in Speeds(mac), GetLinkKsettings(mac, s, up)
      PROVE  SelfIInv'
  <2>1. /\ UNCHANGED <<regs, stuck, gone, noticed, tpc, ti, ri, pat, saved, regsAt, regResult>>
        /\ dump' = dump /\ linkIn' = <<s, up>>
        /\ linkOut' = Ksettings(up, VflinksSpeed(mac, LinkCode(s), NonStandard(s)))
    BY <1>2 DEF GetLinkKsettings, testVars
  <2>2. linkOut' = IF up THEN s ELSE "unknown"
    BY <2>1, SpeedIsRight DEF Ksettings
  <2>3. SpeedReported'
    BY <2>1, <2>2 DEF SpeedReported
  <2>4. Reports'
    BY <2>1, <2>3 DEF SelfIInv, Reports
  <2> QED BY <2>1, <2>4, SelfSame DEF SelfIInv
<1>3. CASE UNCHANGED selfVars
  <2>1. /\ UNCHANGED <<regs, stuck, gone, noticed, tpc, ti, ri, pat, saved, regsAt, regResult>>
        /\ dump' = dump /\ linkIn' = linkIn /\ linkOut' = linkOut
    BY <1>3 DEF selfVars
  <2>2. Reports'
    BY <2>1 DEF SelfIInv, Reports, SpeedReported
  <2> QED BY <2>1, <2>2, SelfSame DEF SelfIInv
<1> QED BY <1>1, <1>2, <1>3, VanishKeeps, DiagTestKeeps, WriteNoTestKeeps, PatternWriteKeeps,
           PatternReadKeeps, TestResetKeeps DEF SelfTestNext

-----------------------------------------------------------------------------
\* The dump: which word comes from which group.
LEMMA Groups ==
  ASSUME NEW k \in 1 .. 16
  PROVE  /\ DumpAt[k] = IF k <= 8 THEN 12 + 2 * k ELSE 11 + 2 * k
         /\ DumpNames[k] = "psrtype" <=> k = 8
<1>1. \/ k = 1 \/ k = 2 \/ k = 3 \/ k = 4 \/ k = 5 \/ k = 6 \/ k = 7 \/ k = 8
      \/ k = 9 \/ k = 10 \/ k = 11 \/ k = 12 \/ k = 13 \/ k = 14 \/ k = 15 \/ k = 16
  OBVIOUS
<1> QED BY <1>1 DEF DumpAt, DumpNames

LEMMA GroupsDiffer ==
  ASSUME NEW k \in 1 .. 16, NEW l \in 1 .. 16, DumpNames[k] = DumpNames[l] PROVE k = l
<1>1. \/ k = 1 \/ k = 2 \/ k = 3 \/ k = 4 \/ k = 5 \/ k = 6 \/ k = 7 \/ k = 8
      \/ k = 9 \/ k = 10 \/ k = 11 \/ k = 12 \/ k = 13 \/ k = 14 \/ k = 15 \/ k = 16
  OBVIOUS
<1>2. \/ l = 1 \/ l = 2 \/ l = 3 \/ l = 4 \/ l = 5 \/ l = 6 \/ l = 7 \/ l = 8
      \/ l = 9 \/ l = 10 \/ l = 11 \/ l = 12 \/ l = 13 \/ l = 14 \/ l = 15 \/ l = 16
  OBVIOUS
<1> QED BY <1>1, <1>2 DEF DumpNames

LEMMA HeadsDiffer ==
  ASSUME NEW i \in 1 .. 14, NEW j \in 1 .. 14, DumpHead[i] = DumpHead[j], DumpHead[i] # "eics" PROVE i = j
<1>1. \/ i = 1 \/ i = 2 \/ i = 3 \/ i = 4 \/ i = 5 \/ i = 6 \/ i = 7 \/ i = 8
      \/ i = 9 \/ i = 10 \/ i = 11 \/ i = 12 \/ i = 13 \/ i = 14
  OBVIOUS
<1>2. \/ j = 1 \/ j = 2 \/ j = 3 \/ j = 4 \/ j = 5 \/ j = 6 \/ j = 7 \/ j = 8
      \/ j = 9 \/ j = 10 \/ j = 11 \/ j = 12 \/ j = 13 \/ j = 14
  OBVIOUS
<1> QED BY <1>1, <1>2 DEF DumpHead

LEMMA HeadsApart ==
  ASSUME NEW i \in 1 .. 14, NEW k \in 1 .. 16
  PROVE  DumpHead[i] # DumpNames[k] /\ DumpHead[i] # "psrtype" /\ DumpNames[k] # "eics"
<1>1. \/ i = 1 \/ i = 2 \/ i = 3 \/ i = 4 \/ i = 5 \/ i = 6 \/ i = 7 \/ i = 8
      \/ i = 9 \/ i = 10 \/ i = 11 \/ i = 12 \/ i = 13 \/ i = 14
  OBVIOUS
<1>2. \/ k = 1 \/ k = 2 \/ k = 3 \/ k = 4 \/ k = 5 \/ k = 6 \/ k = 7 \/ k = 8
      \/ k = 9 \/ k = 10 \/ k = 11 \/ k = 12 \/ k = 13 \/ k = 14 \/ k = 15 \/ k = 16
  OBVIOUS
<1> QED BY <1>1, <1>2 DEF DumpHead, DumpNames

LEMMA DumpedOnce ==
  /\ {w[1] : w \in DumpedAll} = 0 .. DumpLen - 1
  /\ \A v, w \in DumpedAll :
       v # w => v[1] # w[1] /\ (v[2] # "eics" => <<v[2], v[3]>> # <<w[2], w[3]>>)
<1> DEFINE head(w) == \E i \in 1 .. 14 : w = <<i - 1, DumpHead[i], 0>>
           body(w) == \E k \in 1 .. 16, e \in {0, 1} :
                        w = <<DumpAt[k] + e, DumpNames[k], e>> /\ (k = 8 => e = 0)
<1>1. \A w : w \in DumpedAll <=> head(w) \/ body(w)
  BY Groups, HeadsApart DEF DumpedAll, DumpWrites, IsDumped
<1>2. \A w \in DumpedAll : w[1] \in 0 .. DumpLen - 1
  BY <1>1, Groups DEF DumpLen
<1>3. \A n \in 0 .. DumpLen - 1 : \E w \in DumpedAll : w[1] = n
  <2> TAKE n \in 0 .. DumpLen - 1
  <2>1. CASE n < 14
    <3>1. head(<<n, DumpHead[n + 1], 0>>)
      BY <2>1
    <3> QED BY <1>1, <3>1
  <2>2. CASE n >= 14 /\ n <= 28
    <3> DEFINE k == (n - 12) \div 2
               e == (n - 12) % 2
    <3>1. k \in 1 .. 8 /\ e \in {0, 1} /\ 12 + 2 * k + e = n /\ (k = 8 => e = 0)
      BY <2>2
    <3>2. DumpAt[k] + e = n
      BY <3>1, Groups
    <3> HIDE DEF k, e
    <3> DEFINE w == <<DumpAt[k] + e, DumpNames[k], e>>
    <3>3. body(w)
      BY <3>1
    <3>4. w[1] = n
      BY <3>2
    <3> HIDE DEF w, body
    <3> QED BY <1>1, <3>3, <3>4
  <2>3. CASE n > 28
    <3> DEFINE k == (n - 11) \div 2
               e == (n - 11) % 2
    <3>1. k \in 9 .. 16 /\ e \in {0, 1} /\ 11 + 2 * k + e = n
      BY <2>3 DEF DumpLen
    <3>2. DumpAt[k] + e = n
      BY <3>1, Groups
    <3> HIDE DEF k, e
    <3> DEFINE w == <<DumpAt[k] + e, DumpNames[k], e>>
    <3>3. body(w)
      BY <3>1
    <3>4. w[1] = n
      BY <3>2
    <3> HIDE DEF w, body
    <3> QED BY <1>1, <3>3, <3>4
  <2> QED BY <2>1, <2>2, <2>3
<1>4. ASSUME NEW v \in DumpedAll, NEW w \in DumpedAll, v # w
      PROVE  v[1] # w[1] /\ (v[2] # "eics" => <<v[2], v[3]>> # <<w[2], w[3]>>)
  <2>1. CASE head(v) /\ head(w)
    BY <1>4, <2>1, HeadsDiffer
  <2>2. CASE head(v) /\ body(w)
    BY <2>2, HeadsApart, Groups
  <2>3. CASE body(v) /\ head(w)
    BY <2>3, HeadsApart, Groups
  <2>4. CASE body(v) /\ body(w)
    <3>1. PICK k \in 1 .. 16, e \in {0, 1} : v = <<DumpAt[k] + e, DumpNames[k], e>> /\ (k = 8 => e = 0)
      BY <2>4
    <3>2. PICK l \in 1 .. 16, f \in {0, 1} : w = <<DumpAt[l] + f, DumpNames[l], f>> /\ (l = 8 => f = 0)
      BY <2>4
    <3>3. k # l \/ e # f
      BY <1>4, <3>1, <3>2
    <3>4. DumpAt[k] + e # DumpAt[l] + f
      BY <3>1, <3>2, <3>3, Groups
    <3>5. DumpNames[k] # DumpNames[l] \/ e # f
      BY <3>3, GroupsDiffer
    <3> QED BY <3>1, <3>2, <3>4, <3>5
  <2> QED BY <1>1, <2>1, <2>2, <2>3, <2>4
<1> QED BY <1>2, <1>3, <1>4

\* The register test passes exactly the adapters without a fault that shows, whatever the bit,
\* register, value and number of queues, and gives every register back; the dump holds each
\* register in one word; and the link speed is the link's.
THEOREM SelfTestTells == SelfTestSpec => []SelfTestTrue
<1>1. SelfTestInit(Faults) => SelfIInv
  BY SelfInit
<1>2. SelfIInv /\ [SelfTestNext]_selfVars => SelfIInv'
  BY SelfStep
<1>3. SelfIInv => SelfTestTrue
  <2> SUFFICES ASSUME SelfIInv PROVE SelfTestTrue
    OBVIOUS
  <2>1. SelfTestTypeOK
    BY Lines, PatternList DEF SelfIInv, SelfTypes, RegTypes, OtherSelfTypes, SelfTestTypeOK
  <2>2. FaultFound /\ SpeedReported
    BY DEF SelfIInv, Verdict, Reports
  <2>3. RegsGivenBack
    BY DEF SelfIInv, Verdict, KeptRegs, RegsGivenBack
  <2>4. DumpExact
    BY DumpedOnce DEF SelfIInv, Reports, DumpExact
  <2> QED BY <2>1, <2>2, <2>3, <2>4 DEF SelfTestTrue
<1> QED BY <1>1, <1>2, <1>3, PTL DEF SelfTestSpec

==============================================================================
