-------------------------- MODULE MailboxExchange ---------------------------
(* The mailbox of Mailbox implements the exchange of Exchange. *)
EXTENDS Mailbox

InExchange == {t \in Threads : n[t] # 0}
callerBar == IF InExchange = {} THEN None ELSE CHOOSE t \in InExchange : TRUE

\* the holder of mbx_lock, and how far its request has got
phaseBar ==
  IF InExchange = {} THEN "none"
  ELSE LET t == callerBar
       IN  IF pc[t] = "return" THEN "failed"
           ELSE IF pc[t] = "done" THEN IF rhdr[t].kind = "rep" THEN "answered" ELSE "failed"
           ELSE IF n[t] \in taken THEN "served"
           ELSE "asked"

Service == INSTANCE Exchange WITH
  Callers <- Threads, strict <- ~mode.early /\ ~mode.pings,
  caller <- callerBar, phase <- phaseBar

\* Under mbx_lock the register protocol, legacy or newer, is one exchange at a time, and
\* a caller whose wait is not cut short or crossed has its answer only after the PF has
\* acted on its request: ixgbe_write_mbx and ixgbe_poll_mbx never take an old reply,
\* or a stale acknowledgement, for the answer, and never fail.
ImplementsExchange == Service!Spec
=============================================================================
