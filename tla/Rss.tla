--------------------------------- MODULE Rss --------------------------------
(***************************************************************************)
(* Receive side scaling: the indirection table and the hash fields that    *)
(* ixgbevf_configure_rx programs on X550 and newer, what ethtool changes   *)
(* and reports of them, and, on the older devices where the PF owns the    *)
(* table, the reading of it over the mailbox.  All of it under rtnl.       *)
(***************************************************************************)
EXTENDS Integers, FiniteSets

CONSTANTS
  RssMacs,    \* devices: "82599" (and X540), "x550" (and newer)
  RssApis,    \* API versions of the PF
  QueueCounts, \* numbers of receive queues
  RetaSize,   \* entries of the table, a multiple of 4 (64)
  MaxHashes   \* bound on configurations and settings

ASSUME RssAssumption ==
  /\ RssMacs \subseteq {"82599", "x550"} /\ QueueCounts \subseteq 1 .. 255
  /\ RetaSize \in Nat \ {0} /\ RetaSize % 4 = 0 /\ MaxHashes \in Nat

Entries == 0 .. RetaSize - 1

VARIABLES
  rssMac, rssApi,      \* never change
  rxQueues,            \* num_rx_queues
  udpFlags,            \* IXGBEVF_FLAG_RSS_FIELD_IPV4_UDP, .._IPV6_UDP
  indirTbl,            \* rss_indir_tbl
  vfreta, vfmrqc, rqpl, \* registers: packed table, hash fields, bit 29 of VFPSRTYPE
  pfReta,              \* the PF's table, as it packs it: two bits an entry
  programmed,          \* VFMRQC was last written by ixgbevf_set_rss_hash_opt
  reported,            \* the table ethtool was given since the last configuration, or <<>>
  rxfh,                \* what it had asked for, what it was told, and whose key it was given
  askedHash,           \* what the user has set, or was there before, for each kind of flow
  hashesLeft

rssVars == <<rssMac, rssApi, rxQueues, udpFlags, indirTbl, vfreta, vfmrqc, rqpl, pfReta,
             programmed, reported, rxfh, askedHash, hashesLeft>>

\* kinds of flow; AH, ESP and SCTP are the others, and layer 2 has no hash
HashedFlows == {"tcp4", "udp4", "other4", "ip4", "tcp6", "udp6", "other6", "ip6"}
Flows == HashedFlows \cup {"ether"}
\* RXH_IP_SRC, RXH_IP_DST, RXH_L4_B_0_1, RXH_L4_B_2_3, and anything else
HashBits == {"src", "dst", "l4a", "l4b", "vlan"}
Ports == {"l4a", "l4b"}
Hosts == {"src", "dst"}

NoRxfh == [indir |-> FALSE, key |-> FALSE, err |-> FALSE, keyOf |-> "none"]

Newer == rssMac = "x550"

-----------------------------------------------------------------------------
(* ixgbevf_configure_rx: ixgbevf_setup_psrtype and ixgbevf_setup_vfmrqc.    *)

AlwaysHashed == {"ipv4", "tcp4", "ipv6", "tcp6"}

\* j counts the queues round and round
Spread(n) == [i \in Entries |-> i % n]

\* vfreta |= j << (i & 0x3) * 8, written and cleared after every fourth
Packed(tbl) ==
  [r \in 0 .. (RetaSize \div 4) - 1 |->
     tbl[4 * r] + 256 * tbl[4 * r + 1] + 65536 * tbl[4 * r + 2] + 16777216 * tbl[4 * r + 3]]

\* RSSEN and the always hashed fields; the UDP fields of an earlier setting are gone
ConfiguredHash == AlwaysHashed

\* ixgbevf_setup_psrtype
Rqpl(n) == n > 1

ConfigureRss(n) ==
  /\ hashesLeft > 0 /\ hashesLeft' = hashesLeft - 1
  /\ rxQueues' = n /\ rqpl' = Rqpl(n)
  /\ IF Newer
       THEN /\ indirTbl' = Spread(n) /\ vfreta' = Packed(Spread(n))
            /\ vfmrqc' = ConfiguredHash /\ programmed' = FALSE
       ELSE UNCHANGED <<indirTbl, vfreta, vfmrqc, programmed>>
  /\ reported' = <<>> /\ rxfh' = NoRxfh
  /\ UNCHANGED <<rssMac, rssApi, udpFlags, pfReta, askedHash>>

\* The adapter as ixgbevf_open leaves it; the PF's table is its own affair.
RssInit(macs, apis, counts, spans) ==
  /\ rssMac \in macs /\ rssApi \in apis
  /\ rxQueues \in counts /\ rqpl = Rqpl(rxQueues)
  /\ udpFlags = {}
  /\ indirTbl = (IF Newer THEN Spread(rxQueues) ELSE [i \in Entries |-> 0])
  /\ vfreta = Packed(indirTbl)
  /\ vfmrqc = (IF Newer THEN ConfiguredHash ELSE {})
  /\ pfReta \in {[i \in Entries |-> i % k] : k \in spans}
  /\ programmed = FALSE /\ reported = <<>> /\ rxfh = NoRxfh
  /\ askedHash = [f \in HashedFlows |-> Hosts \cup IF f \in {"tcp4", "tcp6"} THEN Ports ELSE {}]
  /\ hashesLeft = MaxHashes

-----------------------------------------------------------------------------
(* ixgbevf_set_rss_hash_opt and ixgbevf_get_rss_hash_opts.                  *)

\* IPV4_FLOW, IPV6_FLOW and layer 2 are refused; AH, ESP and SCTP hash no ports
Settable(flow, data) ==
  /\ Newer /\ "vlan" \notin data /\ Hosts \subseteq data
  /\ \/ flow \in {"tcp4", "tcp6"} /\ Ports \subseteq data
     \/ flow \in {"udp4", "udp6"} /\ data \cap Ports \in {{}, Ports}
     \/ flow \in {"other4", "other6"} /\ data \cap Ports = {}

UdpAfter(flow, data) ==
  IF flow \notin {"udp4", "udp6"} THEN udpFlags
  ELSE IF Ports \subseteq data THEN udpFlags \cup {flow} ELSE udpFlags \ {flow}

\* read, or-ed, both UDP fields masked out and those of the flags put in
Hashed(flags) == ((vfmrqc \cup AlwaysHashed) \ {"udp4", "udp6"}) \cup flags

\* the register is written only if the flags change
SetRssHashOpt(flow, data) ==
  /\ hashesLeft > 0 /\ hashesLeft' = hashesLeft - 1
  /\ LET flags == UdpAfter(flow, data)
     IN  IF Settable(flow, data) /\ flags # udpFlags
           THEN udpFlags' = flags /\ vfmrqc' = Hashed(flags) /\ programmed' = TRUE
           ELSE UNCHANGED <<udpFlags, vfmrqc, programmed>>
  /\ askedHash' = IF Settable(flow, data) THEN [askedHash EXCEPT ![flow] = data] ELSE askedHash
  /\ UNCHANGED <<rssMac, rssApi, rxQueues, indirTbl, vfreta, rqpl, pfReta, reported,
                 rxfh>>

\* ixgbevf_get_rss_hash_opts falls through from TCP over UDP to the hosts
HashOpts(flow) ==
  Hosts \cup IF flow \in {"tcp4", "tcp6"} \/ flow \in udpFlags THEN Ports ELSE {}

-----------------------------------------------------------------------------
(* ixgbevf_get_rxfh.                                                       *)

\* the reply is GET_RETA with success; a refusal is an error, and a control message in its
\* place or silence is another
RetaReplies == {"reply", "refused", "error"}

\* "We support the RSS querying for 82599 and x540 devices only"
RetaAsked == ~Newer /\ rssApi >= 12

\* "ixgbevf doesn't support more than 2 queues at the moment"
RetaMask == IF rxQueues > 1 THEN 2 ELSE 1

\* ixgbevf_get_reta_locked: two bits an entry, masked
Decoded == [i \in Entries |-> pfReta[i] % RetaMask]

\* "If API doesn't support this operation" as little as for the table; the reply has the
\* key in it: ixgbevf_get_rss_key_locked
KeyRead(out) == RetaAsked /\ out = "reply"

\* "if (!err && key)"
KeyTurn(read) == read

\* Table, key or both are asked for; tout and kout are the PF's replies.  The device's own
\* table and key are at hand, the PF's are asked for under one hold of mbx_lock.
GetRxfh(indir, key, tout, kout) ==
  /\ \/ Newer /\ tout = "reply" /\ kout = "reply"
        /\ reported' = (IF indir THEN indirTbl ELSE reported)
        /\ rxfh' = [indir |-> indir, key |-> key, err |-> FALSE,
                    keyOf |-> IF key THEN "adapter" ELSE "none"]
     \/ /\ ~Newer
        /\ LET read == indir => RetaAsked /\ tout = "reply"
               turn == key /\ KeyTurn(read)
           IN  /\ reported' = (IF ~indir THEN reported ELSE IF read THEN Decoded ELSE <<>>)
               /\ rxfh' = [indir |-> indir, key |-> key,
                           err |-> IF turn THEN ~KeyRead(kout) ELSE ~read,
                           keyOf |-> IF turn /\ KeyRead(kout) THEN "pf" ELSE "none"]
  /\ UNCHANGED <<rssMac, rssApi, rxQueues, udpFlags, indirTbl, vfreta, vfmrqc, rqpl, pfReta,
                 programmed, askedHash, hashesLeft>>

-----------------------------------------------------------------------------
RssNext ==
  \/ \E n \in QueueCounts : ConfigureRss(n)
  \/ \E flow \in Flows, data \in SUBSET HashBits : SetRssHashOpt(flow, data)
  \/ \E indir, key \in BOOLEAN, tout, kout \in RetaReplies : GetRxfh(indir, key, tout, kout)

\* the PF's entries have two bits
RssSpec == RssInit(RssMacs, RssApis, QueueCounts, 1 .. 4) /\ [][RssNext]_rssVars

-----------------------------------------------------------------------------
(* Properties.                                                             *)

\* Type invariant of the RSS state; every entry fits the eight bits of its register.
RssTypeOK ==
  /\ rssMac \in {"82599", "x550"} /\ rxQueues \in QueueCounts
  /\ udpFlags \subseteq {"udp4", "udp6"} /\ vfmrqc \subseteq AlwaysHashed \cup {"udp4", "udp6"}
  /\ indirTbl \in [Entries -> 0 .. 255]
  /\ \A r \in DOMAIN vfreta : vfreta[r] >= 0
  /\ {rqpl, programmed} \subseteq BOOLEAN /\ hashesLeft \in 0 .. MaxHashes
  /\ rxfh \in [indir : BOOLEAN, key : BOOLEAN, err : BOOLEAN, keyOf : {"none", "adapter", "pf"}]

\* the hardware's reading of an entry
Byte(k) == IF k = 0 THEN 1 ELSE IF k = 1 THEN 256 ELSE IF k = 2 THEN 65536 ELSE 16777216
Entry(i) == (vfreta[i \div 4] \div Byte(i % 4)) % 256

\* The packed registers and rss_indir_tbl, which ethtool shows, are the same table; it
\* names no queue that is not there, misses none, and shares the entries out evenly.
TableSpreads ==
  Newer =>
    /\ \A i \in Entries : Entry(i) = indirTbl[i] /\ indirTbl[i] < rxQueues
    /\ LET share(q) == Cardinality({i \in Entries : indirTbl[i] = q})
       IN  \A p, q \in 0 .. rxQueues - 1 : share(p) <= share(q) + 1

\* The hash fields in the register are those of the flags from a change of the flags up to
\* the next reset, after any sequence of settings.  From a reset up to the next change no
\* UDP field is in the register, whatever the flags, and so ethtool, say: the reset loses
\* these fields, and setting again what the flags have does not bring them back.
HashProgrammed ==
  Newer => vfmrqc = AlwaysHashed \cup IF programmed THEN udpFlags ELSE {}

\* ETHTOOL_GRXFH reports for every kind of flow the last setting ETHTOOL_SRXFH accepted
\* for it, whatever was set for the others, refused, or reset in between.
HashRoundTrip == Newer => \A f \in HashedFlows : HashOpts(f) = askedHash[f]

\* The table ethtool reports is the one the hardware goes by, its entries cut to the
\* bit that VFPSRTYPE lets through.
TableReported ==
  reported # <<>> =>
    \A i \in Entries :
      reported[i] = IF Newer THEN Entry(i) ELSE IF rqpl THEN pfReta[i] % 2 ELSE 0

\* ETHTOOL_GRSSH gives all that was asked of it or says that it failed: no success with
\* the table missing after the second of the two messages went well, and no key of the
\* PF's is handed on where the device has its own.
RxfhWhole ==
  ~rxfh.err =>
    /\ rxfh.indir => reported # <<>>
    /\ rxfh.keyOf = IF ~rxfh.key THEN "none" ELSE IF Newer THEN "adapter" ELSE "pf"
=============================================================================
