------------------------------ MODULE MCRxRing ------------------------------
(* Small instances of RxRing for TLC. *)
EXTENDS RxRing, TLC

PageSymmetry == Permutations(Pages)

\* The two halves of a page are alike: the first is the one that its slot offers next, or
\* that has more users if the page is on no slot.
First(p) ==
  IF \E i \in Buffers : pg[i] = p
    THEN off[CHOOSE i \in Buffers : pg[i] = p]
    ELSE IF held[<<p, 0>>] >= held[<<p, 1>>] THEN 0 ELSE 1
Renamed(b) == <<b[1], IF b[2] = First(b[1]) THEN 0 ELSE 1>>
RenamedSkb(s) == [s EXCEPT !.frags = {Renamed(b) : b \in @}]

\* What is left in slots that hold no page is overwritten before it is read, and
\* so are the write-backs outside the descriptors in use; a page that is free
\* keeps no trace of a mapping that was forgotten.
RingView ==
  <<ntc, ntu, nta, pg, RenamedSkb(rskb), RenamedSkb(cskb), refs,
    [p \in Pages |-> <<held[<<p, First(p)>>], held[<<p, 1 - First(p)>>]>>],
    hwVars, irqVars, napi, cpc, ccnt, cpk, allocVars, admVars,
    [i \in Slot |-> IF i \in Buffers THEN bias[i] ELSE 0],
    [i \in Slot |-> IF i \in Between(head, UseEnd) /\ addr[i] # None THEN Renamed(addr[i])
                                                                   ELSE None],
    [i \in Slot |-> IF i \in Between(ntc, head) THEN wb[i] ELSE wb[i] = None],
    {p \in mapped : \E i \in Buffers : pg[i] = p}>>
=============================================================================
