------------------------------- MODULE TxQueue ------------------------------
(***************************************************************************)
(* What a transmit ring promises to the network stack, with no ring in it: *)
(* frames leave in the order they were accepted, a frame is completed (its *)
(* buffer goes back to the stack) only after the hardware has sent it and  *)
(* in the same order, and frames are lost only all together, by a reset.   *)
(***************************************************************************)
CONSTANT Frames

VARIABLES
  queued,  \* the frames accepted and not yet completed
  ahead,   \* for each of them, those accepted before it and not yet completed
  sent     \* those the hardware has sent

\* nobody waits, nobody is ahead of anybody
Empty == queued = {} /\ sent = {} /\ ahead = [f \in Frames |-> {}]

Accept(f) ==
  /\ f \notin queued
  /\ queued' = queued \cup {f}
  /\ ahead' = [ahead EXCEPT ![f] = queued]
  /\ UNCHANGED sent

Send(f) ==
  /\ f \in queued \ sent /\ ahead[f] \subseteq sent
  /\ sent' = sent \cup {f}
  /\ UNCHANGED <<queued, ahead>>

Complete(f) ==
  /\ f \in sent /\ ahead[f] = {}
  /\ queued' = queued \ {f} /\ sent' = sent \ {f}
  /\ ahead' = [g \in Frames |-> ahead[g] \ {f}]

Flush == queued' = {} /\ sent' = {} /\ ahead' = [f \in Frames |-> {}]

Next == Flush \/ \E f \in Frames : Accept(f) \/ Send(f) \/ Complete(f)

Spec == Empty /\ [][Next]_<<queued, ahead, sent>>
=============================================================================
