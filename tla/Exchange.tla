------------------------------ MODULE Exchange ------------------------------
(***************************************************************************)
(* What the mailbox promises to the VF driver, with no buffer and no bits  *)
(* in it: one exchange at a time, in which the PF first acts on the        *)
(* request and the caller then has its answer.  When waits may be cut      *)
(* short, or control messages cross the exchange, it may also fail, before *)
(* or after the PF has acted, and an answer no longer means that it has.   *)
(***************************************************************************)
CONSTANTS Callers, None

VARIABLES
  strict,  \* waits are patient and no control message crosses an exchange
  caller,  \* who is in an exchange
  phase    \* "asked", "served", then "answered" or "failed"

Init == strict \in BOOLEAN /\ caller = None /\ phase = "none"

Ask ==
  /\ phase = "none" /\ phase' = "asked"
  /\ caller' \in Callers /\ UNCHANGED strict

Serve == phase = "asked" /\ phase' = "served" /\ UNCHANGED <<strict, caller>>

Answer ==
  /\ phase = "served" \/ (~strict /\ phase = "asked")
  /\ phase' = "answered" /\ UNCHANGED <<strict, caller>>

Fail ==
  /\ ~strict /\ phase \in {"asked", "served"}
  /\ phase' = "failed" /\ UNCHANGED <<strict, caller>>

Return ==
  /\ phase \in {"answered", "failed"} /\ phase' = "none"
  /\ caller' = None /\ UNCHANGED strict

Next == Ask \/ Serve \/ Answer \/ Fail \/ Return

Spec == Init /\ [][Next]_<<strict, caller, phase>>
=============================================================================
