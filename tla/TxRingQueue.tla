---------------------------- MODULE TxRingQueue -----------------------------
(* The descriptor ring of TxRing implements the queue of TxQueue. *)
EXTENDS TxRing

\* the slots in which a packet starts; an emptied ring keeps stale ones until it is
\* configured
StartSlots == {i \in Slot : apc # "down" /\ ntw[i] # None}
\* the packet at i comes before the one at j, seen from where cleaning has got to
Earlier(i, j) == Dist(CleanPos, i) < Dist(CleanPos, j)

queuedBar == {skb[i] : i \in StartSlots}
aheadBar ==
  [f \in Skbs |->
     {g \in Skbs : \E i, j \in StartSlots : skb[i] = g /\ skb[j] = f /\ Earlier(i, j)}]
sentBar == {skb[i] : i \in {m \in StartSlots : PacketDone(m)}}

Queue == INSTANCE TxQueue
           WITH Frames <- Skbs, queued <- queuedBar, ahead <- aheadBar, sent <- sentBar

\* The ring, with xmit, cleaning, the hardware and resets interleaved, is a first-in
\* first-out queue: next_to_watch makes a frame visible to ixgbevf_clean_tx_irq all at
\* once, the hardware's write-back marks frames in order, and only a reset drops any.
ImplementsQueue == Queue!Spec
=============================================================================
