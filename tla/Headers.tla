------------------------------- MODULE Headers ------------------------------
(***************************************************************************)
(* The two walks over packet headers that the compatibility layer does for *)
(* the driver: eth_get_headlen, which says how much of a received frame    *)
(* ixgbevf_construct_skb copies into the skb, and __kc_ipv6_find_hdr, by   *)
(* which ixgbevf_ipv6_csum_is_sctp decides whether a checksum is SCTP's.   *)
(* A frame is chosen header by header, as the walk comes to it.            *)
(***************************************************************************)
EXTENDS Integers, Sequences, FiniteSets

CONSTANTS
  HdrSize,      \* IXGBEVF_RX_HDR_SIZE
  IpWords,      \* IPv4 header lengths, in words, as frames have them
  TcpWords,     \* TCP header lengths, in words, as frames have them
  ExtMax,       \* most extension headers of a packet
  WalkLens      \* lengths of what follows the IPv6 header

ASSUME HeadersAssumption ==
  /\ HdrSize \in Nat /\ HdrSize % 8 = 0 /\ HdrSize >= 14
  /\ IpWords \subseteq 0 .. 15 /\ TcpWords \subseteq 0 .. 15 /\ ExtMax \in Nat
  /\ WalkLens \subseteq Nat

EthLen == 14
VlanLen == 4
IpLen == 20
Ip6Len == 40
FcoeLen == 38
TcpLen == 20
UdpLen == 8
SctpLen == 12

Protos == {"vlan", "ipv4", "ipv6", "fcoe", "other"}
NextHdrs == {"tcp", "udp", "sctp", "none"}

VARIABLES
  hstep,        \* "eth", "l2", "l4", "done"
  hat,          \* hdr.network - data
  hproto, hnext, \* proto, nexthdr
  hread,        \* bytes of the frame looked at
  hend,         \* where the recognised headers of the frame end, however long they are
  hlen,         \* what eth_get_headlen returns
  fstep,        \* "start", "walk", "done"
  wchain,       \* extension headers of a packet
  wupper,       \* what follows them
  wlen,         \* bytes of the packet
  wcsum,        \* skb_checksum_start_offset
  wat, wix,     \* start, and the header it is at
  wtold         \* what ixgbevf_ipv6_csum_is_sctp returns

headVars == <<hstep, hat, hproto, hnext, hread, hend, hlen>>
findVars == <<fstep, wchain, wupper, wlen, wcsum, wat, wix, wtold>>

HeadersInit ==
  /\ hstep = "eth" /\ hat = 0 /\ hproto = "other" /\ hnext = "none" /\ hread = 0 /\ hend = 0
  /\ hlen = 0
  /\ fstep = "start" /\ wchain = <<>> /\ wupper = "none" /\ wlen = 0 /\ wcsum = 0
  /\ wat = 0 /\ wix = 0 /\ wtold = FALSE

-----------------------------------------------------------------------------
(* eth_get_headlen(data, HdrSize); the frame is longer than that.          *)

\* "(hdr.network - data) > (max_len - ...)", turned round
RoomFor(n) == hat <= HdrSize - n

\* return len, of headers that end at end
Returned(len, end) == hstep' = "done" /\ hlen' = len /\ hend' = end

\* on to the next header, n bytes further
Forward(step, n) == hstep' = step /\ hat' = hat + n

EthHeader(proto) ==
  /\ hstep = "eth"
  /\ Forward("l2", EthLen) /\ hproto' = proto /\ hread' = EthLen
  /\ UNCHANGED <<hnext, hend, hlen>>

\* a header of which the buffer has no room for the fixed n bytes
Beyond(n) ==
  /\ ~RoomFor(n) /\ Returned(HdrSize, hat + n)
  /\ UNCHANGED <<hat, hproto, hnext, hread>>

VlanTagged(proto) ==
  /\ hstep = "l2" /\ hproto = "vlan"
  /\ \/ Beyond(VlanLen)
     \/ /\ RoomFor(VlanLen)
        /\ Forward("l2", VlanLen) /\ hproto' = proto /\ hread' = hat + VlanLen
        /\ UNCHANGED <<hnext, hend, hlen>>

\* A length below the minimum ends the walk; fragments but the first have no L4 header.
Ipv4Header(words, first, next) ==
  /\ hstep = "l2" /\ hproto = "ipv4"
  /\ \/ Beyond(IpLen)
     \/ /\ RoomFor(IpLen) /\ 4 * words < IpLen
        /\ Returned(hat, hat) /\ hread' = hat + 1
        /\ UNCHANGED <<hat, hproto, hnext>>
     \/ /\ RoomFor(IpLen) /\ 4 * words >= IpLen
        /\ hnext' = (IF first THEN next ELSE "none")
        /\ Forward("l4", 4 * words) /\ hread' = hat + IF first THEN 10 ELSE 8
        /\ UNCHANGED <<hproto, hend, hlen>>

Ipv6Header(next) ==
  /\ hstep = "l2" /\ hproto = "ipv6"
  /\ \/ Beyond(Ip6Len)
     \/ /\ RoomFor(Ip6Len)
        /\ hnext' = next /\ Forward("l4", Ip6Len) /\ hread' = hat + 7
        /\ UNCHANGED <<hproto, hend, hlen>>

FcoeHeader ==
  /\ hstep = "l2" /\ hproto = "fcoe" /\ Forward("l4", FcoeLen)
  /\ UNCHANGED <<hproto, hnext, hread, hend, hlen>>

OtherHeader ==
  /\ hstep = "l2" /\ hproto = "other" /\ Returned(hat, hat)
  /\ UNCHANGED <<hat, hproto, hnext, hread>>

\* min_t(unsigned int, hdr.network - data, max_len)
Cut(end) == IF end <= HdrSize THEN end ELSE HdrSize

\* Mutant: what the header says of its length is believed, however little it is.
TcpBytesTold(words) == 4 * words

\* max_t(u8, sizeof(struct tcphdr), ...)
TcpBytes(words) == IF 4 * words >= TcpLen THEN 4 * words ELSE TcpLen

TcpHeader(words) ==
  /\ hstep = "l4" /\ hnext = "tcp"
  /\ \/ Beyond(TcpLen)
     \/ /\ RoomFor(TcpLen) /\ hread' = hat + 13
        /\ Returned(Cut(hat + TcpBytes(words)), hat + IF words < 5 THEN 20 ELSE 4 * words)
        /\ UNCHANGED <<hat, hproto, hnext>>

PlainL4(next, len) ==
  /\ hstep = "l4" /\ hnext = next /\ Returned(Cut(hat + len), hat + len)
  /\ UNCHANGED <<hat, hproto, hnext, hread>>

EthGetHeadlen ==
  \/ \E p \in Protos : EthHeader(p) \/ VlanTagged(p)
  \/ \E w \in IpWords, f \in BOOLEAN, n \in NextHdrs : Ipv4Header(w, f, n)
  \/ \E n \in NextHdrs : Ipv6Header(n)
  \/ FcoeHeader \/ OtherHeader
  \/ \E w \in TcpWords : TcpHeader(w)
  \/ PlainL4("udp", UdpLen) \/ PlainL4("sctp", SctpLen) \/ PlainL4("none", 0)

-----------------------------------------------------------------------------
(* __kc_ipv6_find_hdr(skb, &offset, IPPROTO_SCTP, NULL, NULL), offset 0.    *)

\* Extension headers: kind, length byte and length.  The length byte of a fragment
\* header is reserved; fragN is the header of a fragment but the first.
Ext ==
  [kind : {"hop", "routing", "dest"}, hl : {0}, len : {8}]
    \cup [kind : {"dest"}, hl : {1}, len : {16}]
    \cup [kind : {"auth"}, hl : {1}, len : {12}]
    \cup [kind : {"auth"}, hl : {4}, len : {24}]
    \cup [kind : {"frag", "fragN"}, hl : {0, 1}, len : {8}]

\* skb_network_offset + sizeof(struct ipv6hdr)
WalkBase == EthLen + Ip6Len

\* of the headers before the n-th, those that have len bytes
Before(chain, n, len) == {k \in 1 .. n - 1 : chain[k].len = len}

\* where the n-th header begins
StartOf(chain, n) ==
  WalkBase + 8 * Cardinality(Before(chain, n, 8)) + 12 * Cardinality(Before(chain, n, 12))
           + 16 * Cardinality(Before(chain, n, 16)) + 24 * Cardinality(Before(chain, n, 24))

UpperStart(chain) == StartOf(chain, Len(chain) + 1)

\* The checksum the stack asks for starts at one of the headers.  The packet may end
\* anywhere: what its headers say of their lengths is the sender's word.
WalkStart(chain, upper, len, c) ==
  /\ fstep = "start" /\ c \in 1 .. Len(chain) + 1
  /\ fstep' = "walk" /\ wchain' = chain /\ wupper' = upper /\ wlen' = WalkBase + len
  /\ wcsum' = StartOf(chain, c) /\ wat' = WalkBase /\ wix' = 1
  /\ UNCHANGED wtold

\* skb_header_pointer finds n bytes
Pointer(n) == wat + n <= wlen

\* hdrlen
HdrLenOf(e) ==
  IF e.kind = "frag" THEN 8
  ELSE IF e.kind = "auth" THEN 4 * (e.hl + 2) ELSE 8 * (e.hl + 1)

\* return of an error: offset stays 0, where no checksum starts
NotFound == fstep' = "done" /\ wtold' = FALSE /\ UNCHANGED <<wat, wix>>

FindHdr ==
  /\ fstep = "walk"
  /\ IF wix > Len(wchain)
       THEN IF wupper = "sctp"
              THEN fstep' = "done" /\ wtold' = (wat = wcsum) /\ UNCHANGED <<wat, wix>>
              ELSE NotFound
       ELSE LET e == wchain[wix]
            IN  IF \/ ~Pointer(2)
                   \/ e.kind \in {"routing", "frag", "fragN"} /\ ~Pointer(4)
                   \/ e.kind = "fragN"
                  THEN NotFound
                  ELSE /\ wat' = wat + HdrLenOf(e) /\ wix' = wix + 1
                       /\ UNCHANGED <<fstep, wtold>>
  /\ UNCHANGED <<wchain, wupper, wlen, wcsum>>

FindNext ==
  \/ \E n \in 0 .. ExtMax : \E chain \in [1 .. n -> Ext], upper \in {"sctp", "udp"},
        len \in WalkLens, c \in 1 .. ExtMax + 1 : WalkStart(chain, upper, len, c)
  \/ FindHdr

HeadersSpec == HeadersInit /\ [][EthGetHeadlen]_headVars /\ [][FindNext]_findVars

-----------------------------------------------------------------------------
(* Properties.                                                             *)

\* Type invariant of the walks; what is to be copied fits the buffer it is copied to, and
\* so does the copy, which is rounded up to whole longs.
HeadersTypeOK ==
  /\ hstep \in {"eth", "l2", "l4", "done"} /\ hproto \in Protos /\ hnext \in NextHdrs
  /\ fstep \in {"start", "walk", "done"} /\ wix \in 0 .. ExtMax + 1 /\ wtold \in BOOLEAN
  /\ hlen \in 0 .. HdrSize /\ 8 * ((hlen + 7) \div 8) <= HdrSize

\* eth_get_headlen looks at no byte past max_len, however many tags and options the frame
\* has piled up.
HeadlenWithin == hread <= HdrSize

\* The copied part is exactly the recognised headers of the frame, or the buffer's size
\* if they are longer: no header stays behind in the page, no payload is taken along.
HeadlenExact == hstep = "done" => hlen = IF hend <= HdrSize THEN hend ELSE HdrSize

\* A checksum is taken for SCTP's only if the packet is SCTP and the checksum starts
\* where its header does, and always so for a packet that holds its headers; later
\* fragments have none.
SctpTold ==
  fstep = "done" =>
    LET real == wupper = "sctp" /\ wcsum = UpperStart(wchain)
    IN  /\ wtold => real
        /\ /\ real /\ wlen >= UpperStart(wchain)
           /\ \A i \in DOMAIN wchain : wchain[i].kind # "fragN"
           => wtold
=============================================================================
