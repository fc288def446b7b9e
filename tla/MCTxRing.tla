------------------------------ MODULE MCTxRing ------------------------------
(* Small instances of TxRing for TLC. *)
EXTENDS TxRingQueue, TLC

SkbSymmetry == Permutations(Skbs)

\* What the driver and the hardware can still read of slots that hold no packet:
\* their skb pointers, buffer addresses and EOP bits are overwritten before use.
Live == Between(CleanPos, IF xpc = "watch" THEN Adv(ntu, xn) ELSE ntu)
RingView ==
  <<ntu, ntc, dd, ntw, len, hwVars, stopped, carrier, owner, xVars, cVars, hangVars, admVars,
    [i \in Slot |-> IF i \in Live THEN src[i] ELSE 0],
    eop \cap Live,
    [i \in Slot |-> IF ntw[i] # None \/ (xpc \in {"map", "watch"} /\ i = first)
                      THEN skb[i] ELSE None]>>
=============================================================================
