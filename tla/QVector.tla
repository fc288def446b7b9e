------------------------------- MODULE QVector ------------------------------
(***************************************************************************)
(* One interrupt vector shared by NAPI and by sockets that busy-poll, on   *)
(* kernels that have ndo_busy_poll: the ownership word of the q_vector,    *)
(* the poll with its budget spread over the receive rings, and the way the *)
(* adapter goes down and up underneath.  Frames are only counted; RxRing   *)
(* has what becomes of them.                                               *)
(***************************************************************************)
EXTENDS Integers, FiniteSets

CONSTANTS
  Sockets,   \* contexts that busy-poll
  RxRings,   \* how many receive rings the vector has
  Weights,   \* budgets that NAPI is polled with (NAPI_POLL_WEIGHT is 64)
  BusyMax,   \* frames a busy poll takes from a ring at most (4)
  MaxFrames, \* bound on frames that arrive
  MaxDowns   \* bound on the times the adapter goes down

ASSUME QVectorAssumption ==
  /\ IsFiniteSet(Sockets) /\ RxRings \in Nat \ {0} /\ Weights \subseteq Nat \ {0}
  /\ BusyMax \in Nat \ {0} /\ MaxFrames \in Nat /\ MaxDowns \in Nat

Ring == 1 .. RxRings

VARIABLES
  qvState,   \* q_vector->state: a set of "napi", "poll", "disabled", "napi_yield", "poll_yield"
  qvDown,    \* __IXGBEVF_DOWN
  waiting,   \* frames in each ring
  arrived,   \* how many have come in all
  cause,     \* the vector's interrupt is pending
  napiOn,    \* napi_enable: "on", "closing" (napi_disable waits), "off"
  npc, nring,               \* the NAPI poll: place, ring it is at
  work, complete, weight,   \* its work_done, clean_complete and budget
  spc, sring,               \* each socket: place, ring it is at
  adm,       \* who takes the adapter down: "up", "napi", "qv", "down"
  downsLeft,
  warned     \* a WARN_ON has fired

rxFrames == <<waiting, arrived, cause>>
napiVars == <<npc, nring, work, complete, weight>>
sockVars == <<spc, sring>>
qvVars == <<qvState, qvDown, rxFrames, napiOn, napiVars, sockVars, adm, downsLeft, warned>>

Locked == {"napi", "poll", "disabled"}
Owned == {"napi", "poll"}

QVectorInit ==
  /\ qvState = {} /\ qvDown = FALSE
  /\ waiting = [r \in Ring |-> 0] /\ arrived = 0 /\ cause = FALSE
  /\ napiOn = "on" /\ npc = "idle" /\ nring = 0 /\ work = 0 /\ complete = TRUE /\ weight = 0
  /\ spc = [s \in Sockets |-> "idle"] /\ sring = [s \in Sockets |-> 0]
  /\ adm = "up" /\ downsLeft = MaxDowns /\ warned = FALSE

Lesser(a, b) == IF a < b THEN a ELSE b

\* A frame arrives in a ring that is enabled.
Arrive(r) ==
  /\ arrived < MaxFrames /\ arrived' = arrived + 1
  /\ waiting' = [waiting EXCEPT ![r] = @ + 1] /\ cause' = TRUE
  /\ UNCHANGED <<qvState, qvDown, napiOn, napiVars, sockVars, adm, downsLeft, warned>>

\* ixgbevf_check_hang_subtask: "get one bit for every active tx/rx interrupt vector"
Strobe ==
  /\ ~qvDown /\ ~cause /\ cause' = TRUE
  /\ UNCHANGED <<qvState, qvDown, waiting, arrived, napiOn, napiVars, sockVars, adm, downsLeft,
                 warned>>

\* ixgbevf_msix_clean_rings; the vector is masked until the poll is over
MsixCleanRings ==
  /\ cause /\ npc = "idle" /\ napiOn = "on" /\ ~qvDown
  /\ cause' = FALSE /\ npc' = "sched"
  /\ UNCHANGED <<qvState, qvDown, waiting, arrived, napiOn, nring, work, complete, weight,
                 sockVars, adm, downsLeft, warned>>

-----------------------------------------------------------------------------
(* ixgbevf_poll.                                                           *)

\* ixgbevf_poll up to the lock: the transmit rings are cleaned, with or without work left.
Poll(budget, txDone) ==
  /\ npc = "sched"
  /\ npc' = "lock" /\ weight' = budget /\ complete' = txDone /\ work' = 0
  /\ UNCHANGED <<nring, qvState, qvDown, rxFrames, napiOn, sockVars, adm, downsLeft, warned>>

\* Mutant: a poller that has the vector is not noticed.
LockedNapi == {"napi", "disabled"}

\* what keeps NAPI and pollers out
Held == Locked

\* ixgbevf_qv_lock_napi; without the vector the poll returns its budget and comes again,
\* unless NAPI is being disabled
LockNapi ==
  /\ npc = "lock"
  /\ IF qvState \cap Held # {}
       THEN /\ warned' = (warned \/ "napi" \in qvState)
            /\ qvState' = qvState \cup {"napi_yield"}
            /\ npc' = IF napiOn = "on" THEN "sched" ELSE "idle"
            /\ weight' = 0 /\ work' = 0 /\ complete' = TRUE /\ UNCHANGED nring
       ELSE /\ qvState' = {"napi"} /\ npc' = "ring" /\ nring' = 1
            /\ UNCHANGED <<warned, weight, work, complete>>
  /\ UNCHANGED <<qvDown, rxFrames, napiOn, sockVars, adm, downsLeft>>

\* Mutant: the share may come to nothing.
ShareDown == weight \div RxRings

\* "attempt to distribute budget to each queue fairly, but don't allow the budget to go
\* below 1 because we'll exit polling"
PerRingBudget ==
  IF RxRings > 1 THEN IF weight \div RxRings > 1 THEN weight \div RxRings ELSE 1 ELSE weight

RingDone(cleaned) == cleaned < PerRingBudget

\* what ixgbevf_clean_rx_irq takes from a ring: as much as there is, or the budget
CleanedRing(r, budget) == Lesser(waiting[r], budget)

\* ixgbevf_clean_rx_irq for the next ring
PollRing ==
  /\ npc = "ring"
  /\ LET cleaned == CleanedRing(nring, PerRingBudget)
     IN  /\ waiting' = [waiting EXCEPT ![nring] = @ - cleaned]
         /\ work' = work + cleaned
         /\ complete' = (complete /\ RingDone(cleaned))
  /\ IF nring = RxRings THEN npc' = "unlock" /\ nring' = 0 ELSE nring' = nring + 1 /\ UNCHANGED npc
  /\ UNCHANGED <<qvState, qvDown, arrived, cause, napiOn, weight, sockVars, adm, downsLeft,
                 warned>>

\* "reset state to idle, unless QV is disabled"
Kept == qvState \cap {"disabled"}

\* ixgbevf_qv_unlock_napi, then napi_complete_done or another round
UnlockNapi ==
  /\ npc = "unlock"
  /\ warned' = (warned \/ qvState \cap {"poll", "napi_yield"} # {})
  /\ qvState' = Kept
  /\ npc' = IF complete \/ napiOn # "on" THEN "idle" ELSE "sched"
  /\ weight' = 0 /\ work' = 0 /\ complete' = TRUE
  /\ UNCHANGED <<nring, qvDown, rxFrames, napiOn, sockVars, adm, downsLeft>>

-----------------------------------------------------------------------------
(* ixgbevf_busy_poll_recv.                                                 *)

\* it looks at DOWN, and will not look again
BusyPoll(s) ==
  /\ spc[s] = "idle" /\ ~qvDown
  /\ spc' = [spc EXCEPT ![s] = "lock"]
  /\ UNCHANGED <<qvState, qvDown, rxFrames, napiOn, napiVars, sring, adm, downsLeft, warned>>

\* ixgbevf_qv_lock_poll
LockPoll(s) ==
  /\ spc[s] = "lock"
  /\ IF qvState \cap Held # {}
       THEN /\ qvState' = qvState \cup {"poll_yield"}
            /\ spc' = [spc EXCEPT ![s] = "idle"] /\ UNCHANGED sring
       ELSE /\ qvState' = qvState \cup {"poll"}
            /\ spc' = [spc EXCEPT ![s] = "ring"] /\ sring' = [sring EXCEPT ![s] = 1]
  /\ UNCHANGED <<qvDown, rxFrames, napiOn, napiVars, adm, downsLeft, warned>>

\* one ring after the other, until one has frames
BusyPollRing(s) ==
  /\ spc[s] = "ring"
  /\ LET found == CleanedRing(sring[s], BusyMax)
     IN  /\ waiting' = [waiting EXCEPT ![sring[s]] = @ - found]
         /\ IF found > 0 \/ sring[s] = RxRings
              THEN spc' = [spc EXCEPT ![s] = "unlock"] /\ sring' = [sring EXCEPT ![s] = 0]
              ELSE sring' = [sring EXCEPT ![s] = @ + 1] /\ UNCHANGED spc
  /\ UNCHANGED <<qvState, qvDown, arrived, cause, napiOn, napiVars, adm, downsLeft, warned>>

\* ixgbevf_qv_unlock_poll
UnlockPoll(s) ==
  /\ spc[s] = "unlock"
  /\ warned' = (warned \/ "napi" \in qvState)
  /\ qvState' = Kept
  /\ spc' = [spc EXCEPT ![s] = "idle"]
  /\ UNCHANGED <<qvDown, rxFrames, napiOn, napiVars, sring, adm, downsLeft>>

-----------------------------------------------------------------------------
(* ixgbevf_down and ixgbevf_up_complete.                                   *)

GoDown ==
  /\ adm = "up" /\ downsLeft > 0 /\ downsLeft' = downsLeft - 1
  /\ qvDown' = TRUE /\ adm' = "napi" /\ napiOn' = "closing"
  /\ UNCHANGED <<qvState, rxFrames, napiVars, sockVars, warned>>

\* napi_disable waits for the poll to end
NapiDisable ==
  /\ adm = "napi" /\ npc = "idle"
  /\ napiOn' = "off" /\ adm' = "qv"
  /\ UNCHANGED <<qvState, qvDown, rxFrames, napiVars, sockVars, downsLeft, warned>>

\* false if the vector is currently owned
Disabled == qvState \cap Owned = {}

\* ixgbevf_qv_disable, called until it says that nobody has the vector
QvDisable ==
  /\ adm = "qv"
  /\ qvState' = qvState \cup {"disabled"}
  /\ adm' = IF Disabled THEN "down" ELSE adm
  /\ UNCHANGED <<qvDown, rxFrames, napiOn, napiVars, sockVars, downsLeft, warned>>

\* The rings are emptied and enabled; then DOWN is cleared.
GoUp ==
  /\ adm = "down"
  /\ qvDown' = FALSE /\ adm' = "enable"
  /\ waiting' = [r \in Ring |-> 0]
  /\ UNCHANGED <<qvState, arrived, cause, napiOn, napiVars, sockVars, downsLeft, warned>>

\* ixgbevf_qv_init_lock, napi_enable, and the read that clears pending interrupts
NapiEnable ==
  /\ adm = "enable"
  /\ qvState' = {} /\ napiOn' = "on" /\ adm' = "up" /\ cause' = FALSE
  /\ UNCHANGED <<qvDown, waiting, arrived, napiVars, sockVars, downsLeft, warned>>

-----------------------------------------------------------------------------
NapiStep ==
  \/ \E b \in Weights, txDone \in BOOLEAN : Poll(b, txDone)
  \/ LockNapi \/ PollRing \/ UnlockNapi
SocketStep(s) == LockPoll(s) \/ BusyPollRing(s) \/ UnlockPoll(s)
AdminStep == NapiDisable \/ QvDisable \/ GoUp \/ NapiEnable

QVectorNext ==
  \/ \E r \in Ring : Arrive(r)
  \/ Strobe \/ MsixCleanRings \/ NapiStep
  \/ \E s \in Sockets : BusyPoll(s) \/ SocketStep(s)
  \/ GoDown \/ AdminStep

QVectorSpec == QVectorInit /\ [][QVectorNext]_qvVars

-----------------------------------------------------------------------------
(* Properties.                                                             *)

\* Type invariant of the vector.
QVectorTypeOK ==
  /\ qvState \subseteq Locked \cup {"napi_yield", "poll_yield"}
  /\ waiting \in [Ring -> 0 .. MaxFrames] /\ arrived \in 0 .. MaxFrames
  /\ npc \in {"idle", "sched", "lock", "ring", "unlock"} /\ nring \in 0 .. RxRings
  /\ napiOn \in {"on", "closing", "off"} /\ adm \in {"up", "napi", "qv", "down", "enable"}
  /\ {qvDown, complete, warned} \subseteq BOOLEAN
  /\ work \in Nat /\ weight \in {0} \cup Weights
  /\ spc \in [Sockets -> {"idle", "lock", "ring", "unlock"}]
  /\ sring \in [Sockets -> 0 .. RxRings]

NapiHas == npc \in {"ring", "unlock"}
Polling == {s \in Sockets : spc[s] \in {"ring", "unlock"}}

\* The rings of a vector are cleaned by one context at a time, and by none once
\* ixgbevf_napi_disable_all is through with it: not by a socket either that looked at
\* DOWN before it was set, nor by one that comes back while the adapter is coming up.
VectorExclusive ==
  /\ Cardinality(Polling) + (IF NapiHas THEN 1 ELSE 0) <= 1
  /\ adm \in {"down", "enable"} => Polling = {} /\ ~NapiHas

\* None of the WARN_ONs in the lock routines ever fires.
NoWarning == ~warned

\* napi_complete_done is told of less work than the budget allows: a ring that was cut
\* short keeps the poll going, however the budget divides among the rings.
WorkBelowBudget == npc = "unlock" /\ complete => work < weight

\* While the adapter stays up a frame is taken from its ring in the end, by NAPI or by
\* the sockets that keep NAPI from it, and however small the budget.
FramesPolled ==
  \A r \in Ring : (waiting[r] > 0 /\ adm = "up") ~> (waiting[r] = 0 \/ adm # "up")

\* The lock routines of ixgbevf.h and the budget of ixgbevf_poll do their work.
VectorInv == QVectorTypeOK /\ VectorExclusive /\ NoWarning /\ WorkBelowBudget
=============================================================================
