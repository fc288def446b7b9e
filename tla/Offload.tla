------------------------------- MODULE Offload ------------------------------
(***************************************************************************)
(* What the driver and the hardware tell each other about a packet: on the *)
(* way out, which offloads ixgbevf_features_check leaves, and the context  *)
(* and data descriptors that ask for them; on the way in, what becomes of  *)
(* the checksum bits of a descriptor in the skb.  One packet at a time;    *)
(* TxRing and RxRing have the rings.  Descriptor fields are numbers of their      *)
(* width.  The stack and the hardware are external.                        *)
(***************************************************************************)
EXTENDS Integers, FiniteSets

CONSTANTS
  MacLens, NetLens,  \* lengths of MAC and network header
  Doffs,             \* TCP header lengths, in words
  Tags,              \* VLAN tags; 0 is none
  Payload, Mss       \* of a packet that is to be segmented

MaxU16 == 65535

ASSUME OffloadAssumption ==
  /\ MacLens \subseteq 0 .. MaxU16 /\ NetLens \subseteq 0 .. MaxU16 /\ Doffs \subseteq 5 .. 15
  /\ Tags \subseteq 0 .. MaxU16 /\ 0 \in Tags
  /\ Payload \in 1 .. MaxU16 /\ Mss \in 1 .. MaxU16

\* what csum_offset stands for: the checksum of TCP, UDP, SCTP, the same place in something
\* else, or another place
L4Kinds == {"tcp", "udp", "sctp", "nosctp", "other"}
TxFeatures == {"csum", "vlan", "tso", "mangle"}

Skb == [mac : MacLens, net : NetLens, doff : Doffs, kind : L4Kinds, v4 : BOOLEAN, partial : BOOLEAN,
        gso : BOOLEAN, encap : BOOLEAN, tag : Tags, inline : {0}]

VARIABLES
  opc,               \* "choose", "check", "stack", "xmit", "done", "dropped", "received"
  skbuff, offered,   \* the packet as it is now, and features left for it
  before,            \* the packet as the stack had it
  ctxDesc, dataDesc, \* context descriptor, data descriptor
  rxDesc, rxSkb      \* the descriptor of a received frame, and what the stack is told

offloadVars == <<opc, skbuff, offered, before, ctxDesc, dataDesc, rxDesc, rxSkb>>

NoDesc == [iplen |-> 0]

\* a packet the stack may want to send: only TCP is segmented, with its checksum partial
Sendable(s) == (s.gso => s.kind = "tcp" /\ s.partial) /\ (~s.gso => s.doff = 5)

OffloadInit ==
  /\ opc = "choose" /\ skbuff = <<>> /\ before = <<>> /\ offered = {}
  /\ ctxDesc = NoDesc /\ dataDesc = NoDesc /\ rxDesc = <<>> /\ rxSkb = <<>>

-----------------------------------------------------------------------------
(* Transmit.                                                               *)

\* dev_queue_xmit, with the features the user has left on
Choose(s, user) ==
  /\ Sendable(s) /\ ("tso" \in user => "csum" \in user)
  /\ opc' = "check" /\ skbuff' = s /\ before' = s /\ offered' = user
  /\ UNCHANGED <<ctxDesc, dataDesc, rxDesc, rxSkb>>

\* IXGBEVF_MAX_MAC_HDR_LEN, IXGBEVF_MAX_NETWORK_HDR_LEN
MaxMacHdrLen == 127
MaxNetworkHdrLen == 511

\* ixgbevf_features_check
FeaturesLeft(s, f) ==
  IF s.mac > MaxMacHdrLen THEN f \ {"csum", "vlan", "tso"}
  ELSE IF s.net > MaxNetworkHdrLen THEN f \ {"csum", "tso"}
  ELSE IF s.encap /\ "mangle" \notin f /\ s.v4 THEN f \ {"tso"}
  ELSE f

FeaturesCheck ==
  /\ opc = "check"
  /\ offered' = FeaturesLeft(skbuff, offered) /\ opc' = "stack"
  /\ UNCHANGED <<skbuff, before, ctxDesc, dataDesc, rxDesc, rxSkb>>

\* validate_xmit_skb (external) does itself what the device is not to do: the tag goes
\* into the frame, long packets are cut, checksums computed.
StackPrepares ==
  /\ opc = "stack"
  /\ LET push == skbuff.tag # 0 /\ "vlan" \notin offered
     IN  skbuff' = [skbuff EXCEPT
           !.mac = IF push THEN @ + 4 ELSE @,
           !.inline = IF push THEN skbuff.tag ELSE 0,
           !.tag = IF push THEN 0 ELSE @,
           !.gso = @ /\ "tso" \in offered,
           !.partial = @ /\ "csum" \in offered]
  /\ opc' = "xmit"
  /\ UNCHANGED <<before, offered, ctxDesc, dataDesc, rxDesc, rxSkb>>

L4Offset(s) == s.mac + s.net
SkbLen(s) == L4Offset(s) + 4 * s.doff + IF s.gso THEN Payload ELSE 0

\* hdr_len is a u8
HdrLen(s) == (4 * s.doff + L4Offset(s)) % 256

\* the bits that are one, of the low 16, and a | b
BitWeights ==
  <<1, 2, 4, 8, 16, 32, 64, 128, 256, 512, 1024, 2048, 4096, 8192, 16384, 32768>>
Ones(n) == {k \in 1 .. 16 : (n \div BitWeights[k]) % 2 = 1}
Or(a, b) == CHOOSE n \in b .. a + b : Ones(n) = Ones(a) \cup Ones(b)

\* vlan_macip_lens: HEADLEN (9 bits), MACLEN (7) and the tag or-ed together; and
\* mss_l4len_idx, whose upper half fills with ones if the length is negative.
CtxFields(iplen, maclen, tag, l4t, ipv4, l4len, mss, idx) ==
  [iplen |-> iplen % 512, maclen |-> Or(iplen \div 512, maclen % 128),
   tag |-> Or(maclen \div 128, tag), l4t |-> l4t, ipv4 |-> ipv4, l4len |-> l4len % 256,
   mss |-> IF l4len < 0 THEN MaxU16 ELSE mss, idx |-> idx]

\* skb_vlan_tag_get, or the tag found in the frame
TxTag(s) == IF s.tag # 0 THEN s.tag ELSE s.inline

\* ixgbevf_tso
TsoContext(s) ==
  CtxFields(s.net, s.mac, TxTag(s), "tcp", s.v4, HdrLen(s) - L4Offset(s), Mss, 1)

\* the switch of ixgbevf_tx_csum: SCTP only if the packet is, or else skb_checksum_help
L4Type(s) ==
  IF s.kind \in {"tcp", "udp", "sctp"} THEN s.kind ELSE "none"

\* the hardware is to compute the checksum
Asked(s) == s.partial /\ L4Type(s) # "none"

\* ixgbevf_tx_csum
CsumContext(s) ==
  IF Asked(s) THEN CtxFields(s.net, s.mac, TxTag(s), L4Type(s), s.v4, 0, 0, 0)
              ELSE CtxFields(0, s.mac, TxTag(s), "udp", FALSE, 0, 0, 0)

\* skb->len - hdr_len
Paylen(s) == SkbLen(s) - IF s.gso THEN HdrLen(s) ELSE 0

\* ixgbevf_tx_cmd_type and ixgbevf_tx_olinfo_status
DataOf(s) ==
  [vle |-> s.tag # 0, tse |-> s.gso, txsm |-> s.gso \/ Asked(s), ixsm |-> s.gso /\ s.v4,
   idx |-> IF s.gso THEN 1 ELSE 0, paylen |-> Paylen(s)]

\* ixgbevf_xmit_frame_ring after the descriptors have been counted
XmitFrame ==
  /\ opc = "xmit"
  /\ ctxDesc' = (IF skbuff.gso THEN TsoContext(skbuff) ELSE CsumContext(skbuff))
  /\ dataDesc' = DataOf(skbuff)
  /\ skbuff' = [skbuff EXCEPT !.partial = @ /\ Asked(skbuff)]
  /\ opc' = "done"
  /\ UNCHANGED <<before, offered, rxDesc, rxSkb>>

\* LLDP, a packet that cannot be padded, its VLAN header read or its header be written
XmitDrop ==
  /\ opc = "xmit" /\ opc' = "dropped"
  /\ UNCHANGED <<skbuff, before, offered, ctxDesc, dataDesc, rxDesc, rxSkb>>

-----------------------------------------------------------------------------
(* Receive: ixgbevf_rx_checksum.                                           *)

\* A frame as it is, and the settings and device it meets.  A zero checksum in a UDP frame
\* says that there is none.
Frame == [ip : BOOLEAN, ipBad : BOOLEAN, l4 : {"none", "tcp", "udp"}, l4Bad : BOOLEAN,
          udpZero : BOOLEAN, rxcsum : BOOLEAN, is82599 : BOOLEAN]

Receivable(f) ==
  /\ f.ipBad => f.ip
  /\ f.l4 # "none" => f.ip
  /\ f.l4Bad => f.l4 # "none"
  /\ f.udpZero => f.l4 = "udp" /\ ~f.l4Bad

\* The descriptor the hardware writes (external); the 82599 marks a zero checksum as wrong.
WrittenBack(f) ==
  [ipcs |-> f.ip, ipe |-> f.ipBad, l4cs |-> f.l4 # "none",
   tcpe |-> f.l4Bad \/ (f.udpZero /\ f.is82599), udp |-> f.l4 = "udp"]

\* "if IP and error"
IpError(d) == d.ipcs /\ d.ipe

\* "82599 errata, UDP frames with a 0 checksum can be marked as checksum errors"
Erratum(f, d) == d.udp /\ f.is82599

\* ixgbevf_rx_checksum
Summed(f, d) == f.rxcsum /\ ~IpError(d) /\ d.l4cs /\ ~d.tcpe
CsumErr(f, d) == f.rxcsum /\ (IpError(d) \/ (d.l4cs /\ d.tcpe /\ ~Erratum(f, d)))

\* ixgbevf_process_skb_fields, of which the checksum is modelled
ProcessSkbFields(f) ==
  /\ Receivable(f)
  /\ rxDesc' = f
  /\ rxSkb' = [summed |-> Summed(f, WrittenBack(f)), err |-> CsumErr(f, WrittenBack(f))]
  /\ opc' = "received"
  /\ UNCHANGED <<skbuff, before, offered, ctxDesc, dataDesc>>

-----------------------------------------------------------------------------
OffloadNext ==
  \/ /\ opc = "choose"
     /\ \/ \E s \in Skb, user \in SUBSET TxFeatures : Choose(s, user)
        \/ \E f \in Frame : ProcessSkbFields(f)
  \/ FeaturesCheck \/ StackPrepares \/ XmitFrame \/ XmitDrop

OffloadSpec == OffloadInit /\ [][OffloadNext]_offloadVars

-----------------------------------------------------------------------------
(* Properties.                                                             *)

\* above IXGBE_ADVTXD_PAYLEN_SHIFT there are 18 bits
MaxPaylen == 262143

\* Type invariant of a packet; the length in the data descriptor is not 0 and fits its field.
OffloadTypeOK ==
  /\ opc \in {"choose", "check", "stack", "xmit", "done", "dropped", "received"}
  /\ offered \subseteq TxFeatures
  /\ opc = "done" => dataDesc.paylen \in 1 .. MaxPaylen

\* the stack has put the tag into the frame after ixgbevf_features_check had measured it
Outgrown == skbuff.mac > 127 /\ before.mac <= 127

Described ==
  /\ dataDesc.txsm =>
       /\ ctxDesc.maclen = skbuff.mac /\ ctxDesc.iplen = skbuff.net
       /\ ctxDesc.l4t = skbuff.kind
  /\ dataDesc.tse =>
       /\ ctxDesc.l4len = 4 * skbuff.doff /\ ctxDesc.mss = Mss
       /\ dataDesc.paylen = Payload
       /\ ctxDesc.ipv4 = dataDesc.ixsm
  /\ dataDesc.idx = ctxDesc.idx

\* "Make certain the headers can be described by a context descriptor": where the
\* hardware is asked for a checksum or for segments, the fields it reads are the
\* packet's, neither cut off nor mixed up with one another; but not those of a packet to
\* be segmented whose headers take more than the 255 bytes of hdr_len.
OffloadDescribed ==
  opc = "done" /\ ~Outgrown /\ (skbuff.gso => L4Offset(skbuff) + 4 * skbuff.doff < 256) => Described

\* Every checksum that the stack has left open is computed once, by the stack, by
\* skb_checksum_help or by the hardware, and every tag is sent once.
OffloadOnce ==
  opc = "done" =>
    /\ dataDesc.txsm = skbuff.partial
    /\ skbuff.partial => before.partial
    /\ dataDesc.vle = (before.tag # 0 /\ skbuff.inline = 0)
    /\ dataDesc.vle => ctxDesc.tag = before.tag

\* CHECKSUM_UNNECESSARY is said of good frames only, an error counted of bad ones only,
\* although the 82599 takes zero for a wrong checksum; bad ones are counted but for UDP
\* on the 82599.
ChecksumTrusted ==
  opc = "received" =>
    /\ rxSkb.summed => ~rxDesc.ipBad /\ ~rxDesc.l4Bad /\ rxDesc.l4 # "none"
    /\ rxSkb.err => rxDesc.ipBad \/ rxDesc.l4Bad
    /\ rxDesc.rxcsum /\ (rxDesc.ipBad \/ rxDesc.l4Bad) =>
         rxSkb.err \/ (rxDesc.l4 = "udp" /\ rxDesc.is82599)
=============================================================================
