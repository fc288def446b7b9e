------------------------------- MODULE Packets ------------------------------
(* What the driver says of a packet, to the hardware by a descriptor and to  *)
(* the stack by a socket buffer, and what it finds in a packet's headers:   *)
(* two units that share no state.                                           *)
EXTENDS Offload, Headers

\* What descriptors and socket buffers say of a packet, and what the driver finds in its
\* headers, is true of the packet.
PacketsDescribed ==
  /\ OffloadTypeOK /\ OffloadDescribed /\ OffloadOnce /\ ChecksumTrusted
  /\ HeadersTypeOK /\ HeadlenWithin /\ HeadlenExact /\ SctpTold
=============================================================================
