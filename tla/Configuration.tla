---------------------------- MODULE Configuration ---------------------------
(* What probing, opening and the settings of ethtool have to get right, of *)
(* four units that share no state: queues and vectors, ring memory, the    *)
(* receive buffers, and receive side scaling.                              *)
EXTENDS QueueSetup, RingMemory, RxGeometry, Rss

\* Queues, vectors, interrupts and ring memory are whole when set up, and gone when torn
\* down, wherever one of the steps of ixgbevf_init_interrupt_scheme, ixgbevf_open or
\* ixgbevf_set_ringparam failed; what a failed ixgbevf_request_msix_irqs makes
\* ixgbevf_free_q_vectors forget is exactly the vectors of that scheme.
SetupWhole ==
  /\ QueueTypeOK /\ QueuesCovered /\ RegsDistinct /\ CausesRouted /\ NothingLeft
  /\ RingMemoryTypeOK /\ MemoryHeld /\ NoRingLeak /\ SizesAgree

\* What ixgbevf_configure_rx programs fits the buffers, the frames and the settings of
\* ethtool it was computed from, up to the UDP hash fields, which the reset loses and the
\* flags keep.
RxConfigured ==
  /\ RxGeometryTypeOK /\ BufferHolds /\ XdpWhole /\ MtuReceived
  /\ RssTypeOK /\ TableSpreads /\ HashProgrammed /\ HashRoundTrip /\ TableReported /\ RxfhWhole
=============================================================================
