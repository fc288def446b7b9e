-------------------------------- MODULE Stats -------------------------------
(***************************************************************************)
(* Statistics.  The hardware has counters of 32 bits, and of 36 bits read  *)
(* in two halves, which no reset of the VF clears: the driver extends them *)
(* and remembers where they stood when the adapter came up.  Each ring has *)
(* a pair of software counters that a reader may catch in the middle of an *)
(* update.  ethtool gets them all as two lists, names and values, that     *)
(* must fit each other.  Widths are small here: Low stands for 2^32, Wide  *)
(* for 2^36.                                                               *)
(***************************************************************************)
EXTENDS Integers, Sequences

CONSTANTS
  Low, Wide,      \* 2^32 and 2^36
  MaxCount,       \* bound on frames
  MaxUps,         \* bound on times the adapter comes up
  MaxUpdates,     \* bound on updates of a ring's counters
  MaxQueues       \* bound on queues of each kind

ASSUME StatsAssumption ==
  /\ Low \in Nat \ {0, 1} /\ Wide \in Nat /\ Wide > Low /\ Wide % Low = 0
  /\ MaxCount \in Nat /\ MaxUps \in Nat /\ MaxUpdates \in Nat /\ MaxQueues \in Nat \ {0}

VARIABLES
  stState,          \* "up", or "down": DOWN or RESETTING is set
  seen,             \* frames the hardware has ever counted
  narrow, wide,     \* the driver's two kinds of counters: [val, last, base, saved]
  half,             \* what a 36-bit counter stood at when its low half was read, or -1
  fresh,            \* frames counted when the counters were last read, this time up
  carried,          \* what the counters had above their width when the adapter came up
  atUp,             \* frames counted by then
  upsLeft,
  seq, bytes, packets,                   \* a ring: u64_stats_sync and the counters
  wstep,                                 \* its poll: "idle", "bytes", "packets"
  rstep, rstart, rbytes, rpackets,       \* a reader: place, and what it has in hand
  told,                                  \* the pair it has returned last
  queues                                 \* numbers of queues, and BP_EXTENDED_STATS

hwCounters == <<stState, seen, narrow, wide, half, fresh, carried, atUp, upsLeft>>
ringCounters == <<seq, bytes, packets, wstep, rstep, rstart, rbytes, rpackets, told>>
statVars == <<hwCounters, ringCounters, queues>>

ZeroCounter == [val |-> 0, last |-> 0, base |-> 0, saved |-> 0]

\* Queues of each kind, as ixgbevf_set_num_queues chooses them.  Busy polling and XDP are
\* never in the same kernel.
QueueNumbers ==
  {q \in [tx : 1 .. MaxQueues, xdp : 0 .. MaxQueues, rx : 1 .. MaxQueues, ext : BOOLEAN] :
     /\ q.tx \in {1, q.rx} /\ q.xdp \in {0, q.rx}
     /\ q.ext => q.xdp = 0}

\* The hardware may have counted before the driver was loaded.
StatsInit(startAt) ==
  /\ stState = "down" /\ seen \in startAt
  /\ narrow = [ZeroCounter EXCEPT !.last = seen % Low, !.base = seen % Low]
  /\ wide = [ZeroCounter EXCEPT !.last = seen % Wide, !.base = seen % Wide]
  /\ half = -1 /\ fresh = -1 /\ carried = <<0, 0>> /\ atUp = seen
  /\ upsLeft = MaxUps
  /\ seq = 0 /\ bytes = 0 /\ packets = 0 /\ wstep = "idle"
  /\ rstep = "idle" /\ rstart = 0 /\ rbytes = 0 /\ rpackets = 0 /\ told = <<0, 0>>
  /\ queues = [tx |-> 1, xdp |-> 0, rx |-> 1, ext |-> FALSE]

-----------------------------------------------------------------------------
(* The hardware counters.                                                  *)

\* A frame; between two readings fewer come than a counter can tell.
Count ==
  /\ seen < MaxCount
  /\ fresh >= 0 => seen - fresh < Low - 1
  /\ fresh < 0 => seen - atUp < Low - 1
  /\ seen' = seen + 1
  /\ UNCHANGED <<stState, narrow, wide, half, fresh, carried, atUp, upsLeft, ringCounters,
                 queues>>

\* Mutant: a counter that has come round is taken as it is.
ExtendedFlat(c, width, current) ==
  [c EXCEPT !.last = current, !.val = (c.val \div width) * width + current]

\* UPDATE_VF_COUNTER_32bit and _36bit
Extended(c, width, current) ==
  LET wrapped == IF current < c.last THEN c.val + width ELSE c.val
  IN  [c EXCEPT !.last = current, !.val = (wrapped \div width) * width + current]

\* ixgbevf_update_stats: all the counters of 32 bits, and the low half of those of 36
UpdateStats ==
  /\ stState = "up" /\ half = -1
  /\ narrow' = Extended(narrow, Low, seen % Low)
  /\ half' = seen
  /\ UNCHANGED <<stState, seen, wide, fresh, carried, atUp, upsLeft, ringCounters, queues>>

\* the high half: reading the low one has latched it
Latched == half % Wide

\* the rest of ixgbevf_update_stats
UpdateStatsHigh ==
  /\ half >= 0
  /\ wide' = Extended(wide, Wide, Latched) /\ fresh' = half /\ half' = -1
  /\ UNCHANGED <<stState, seen, narrow, carried, atUp, upsLeft, ringCounters, queues>>

\* The adapter goes down; the counters are left alone.
StatsDown ==
  /\ stState = "up" /\ half = -1 /\ stState' = "down"
  /\ UNCHANGED <<seen, narrow, wide, half, fresh, carried, atUp, upsLeft, ringCounters, queues>>

\* ixgbevf_save_reset_stats: "Only save pre-reset stats if there are some"
SaveResetStats(c) ==
  IF narrow.val # 0 THEN [c EXCEPT !.saved = c.saved + c.val - c.base] ELSE c

\* ixgbevf_init_last_counter_stats
InitLastCounter(c, current) == [c EXCEPT !.last = current, !.base = current]

\* ixgbevf_up_complete, as far as the counters go
StatsUp ==
  /\ stState = "down" /\ upsLeft > 0
  /\ stState' = "up" /\ upsLeft' = upsLeft - 1
  /\ narrow' = InitLastCounter(SaveResetStats(narrow), seen % Low)
  /\ wide' = InitLastCounter(SaveResetStats(wide), seen % Wide)
  /\ carried' = <<(narrow.val \div Low) * Low, (wide.val \div Wide) * Wide>>
  /\ atUp' = seen /\ fresh' = -1
  /\ UNCHANGED <<seen, half, ringCounters, queues>>

\* what ixgbevf_get_stats64 reports as multicast
Multicast == narrow.val - narrow.base

-----------------------------------------------------------------------------
(* A ring's counters: the poll writes, ixgbevf_get_stats64 reads.          *)

\* u64_stats_update_begin
WriteBegin ==
  /\ wstep = "idle" /\ packets < MaxUpdates
  /\ seq' = seq + 1 /\ wstep' = "bytes"
  /\ UNCHANGED <<bytes, packets, rstep, rstart, rbytes, rpackets, told, hwCounters, queues>>

\* ring->stats.bytes
WriteBytes ==
  /\ wstep = "bytes" /\ bytes' = bytes + 1 /\ wstep' = "packets"
  /\ UNCHANGED <<seq, packets, rstep, rstart, rbytes, rpackets, told, hwCounters, queues>>

\* ring->stats.packets
WritePackets ==
  /\ wstep = "packets" /\ packets' = packets + 1 /\ wstep' = "end"
  /\ UNCHANGED <<seq, bytes, rstep, rstart, rbytes, rpackets, told, hwCounters, queues>>

\* u64_stats_update_end
WriteEnd ==
  /\ wstep = "end" /\ seq' = seq + 1 /\ wstep' = "idle"
  /\ UNCHANGED <<bytes, packets, rstep, rstart, rbytes, rpackets, told, hwCounters, queues>>

\* u64_stats_fetch_begin waits for an update to end
ReadBegin ==
  /\ rstep = "idle" /\ seq % 2 = 0
  /\ rstart' = seq /\ rstep' = "bytes"
  /\ UNCHANGED <<seq, bytes, packets, wstep, rbytes, rpackets, told, hwCounters, queues>>

ReadBytes ==
  /\ rstep = "bytes" /\ rbytes' = bytes /\ rstep' = "packets"
  /\ UNCHANGED <<seq, bytes, packets, wstep, rstart, rpackets, told, hwCounters, queues>>

ReadPackets ==
  /\ rstep = "packets" /\ rpackets' = packets /\ rstep' = "end"
  /\ UNCHANGED <<seq, bytes, packets, wstep, rstart, rbytes, told, hwCounters, queues>>

\* u64_stats_fetch_retry
Retry == seq # rstart

ReadEnd ==
  /\ rstep = "end" /\ rstep' = "idle"
  /\ told' = IF Retry THEN told ELSE <<rbytes, rpackets>>
  /\ rstart' = 0 /\ rbytes' = 0 /\ rpackets' = 0
  /\ UNCHANGED <<seq, bytes, packets, wstep, hwCounters, queues>>

-----------------------------------------------------------------------------
(* ethtool.  A value is the sum of some counters, <<array, ring, word>>.   *)

\* A ring's words beside packets and bytes: tx_stats and rx_stats are a union.
TxWord == [restart_queue |-> "word0", tx_busy |-> "word1"]
RxWord == [alloc_rx_page_failed |-> "word0", alloc_rx_buff_failed |-> "word1",
           alloc_rx_page |-> "word2", csum_err |-> "word3"]

\* The interface comes to have other queues, by an XDP program or by the PF's doing.
Requeue(q) == queues' = q /\ UNCHANGED <<hwCounters, ringCounters>>

\* the sum of one word over the first n rings of an array
Over(ring, n, word) == {<<ring, i, word>> : i \in 0 .. n - 1}

\* ixgbevf_get_stats64
NetStats ==
  [rx_packets |-> Over("rx", queues.rx, "packets"), rx_bytes |-> Over("rx", queues.rx, "bytes"),
   tx_packets |-> Over("tx", queues.tx, "packets") \cup Over("xdp", queues.xdp, "packets"),
   tx_bytes |-> Over("tx", queues.tx, "bytes") \cup Over("xdp", queues.xdp, "bytes"),
   multicast |-> {<<"hw", 0, "vfmprc">>}]

\* The sums of ixgbevf_update_stats, called first, as they come out while the adapter is up,
\* and tx_timeout_count.  Those of transmit queues too are taken from rx_ring.
AdapterStats ==
  [hw_csum_rx_error |-> Over("rx", queues.rx, RxWord.csum_err),
   alloc_rx_page_failed |-> Over("rx", queues.rx, RxWord.alloc_rx_page_failed),
   alloc_rx_buff_failed |-> Over("rx", queues.rx, RxWord.alloc_rx_buff_failed),
   alloc_rx_page |-> Over("rx", queues.rx, RxWord.alloc_rx_page),
   restart_queue |-> Over("rx", queues.tx, TxWord.restart_queue),
   tx_busy |-> Over("rx", queues.tx, TxWord.tx_busy),
   tx_timeout_count |-> {<<"adapter", 0, "tx_timeout_count">>}]

\* ixgbe_gstrings_stats: names, and the field of the network statistics or of the adapter
\* each is taken from
StatNames ==
  <<"rx_packets", "tx_packets", "rx_bytes", "tx_bytes", "tx_busy", "tx_restart_queue",
    "tx_timeout_count", "multicast", "rx_csum_offload_errors", "alloc_rx_page",
    "alloc_rx_page_failed", "alloc_rx_buff_failed">>
StatField ==
  [rx_packets |-> NetStats.rx_packets, tx_packets |-> NetStats.tx_packets,
   rx_bytes |-> NetStats.rx_bytes, tx_bytes |-> NetStats.tx_bytes,
   tx_busy |-> AdapterStats.tx_busy, tx_restart_queue |-> AdapterStats.restart_queue,
   tx_timeout_count |-> AdapterStats.tx_timeout_count, multicast |-> NetStats.multicast,
   rx_csum_offload_errors |-> AdapterStats.hw_csum_rx_error,
   alloc_rx_page |-> AdapterStats.alloc_rx_page,
   alloc_rx_page_failed |-> AdapterStats.alloc_rx_page_failed,
   alloc_rx_buff_failed |-> AdapterStats.alloc_rx_buff_failed]
StatFields ==
  LET field == StatField IN [k \in 1 .. Len(StatNames) |-> field[StatNames[k]]]

\* the names of one queue's entries, and the words of its ring's stats; busy polling has
\* three more
QueueNames(kind, ext) ==
  IF ~ext THEN <<"packets", "bytes">>
  ELSE <<"packets", "bytes", IF kind = "rx" THEN "bp_poll_yield" ELSE "bp_napi_yield",
         "bp_misses", "bp_cleaned">>
QueueWords(ext) ==
  IF ext THEN <<"packets", "bytes", "yields", "misses", "cleaned">> ELSE <<"packets", "bytes">>

\* the parts of n queues, one queue after the other
EachQueue(kind, n, parts) ==
  [j \in 1 .. n * Len(parts) |->
     <<kind, (j - 1) \div Len(parts), parts[((j - 1) % Len(parts)) + 1]>>]

QueueStrings(kind, ext) == EachQueue(kind, queues[kind], QueueNames(kind, ext))
QueueValues(kind, ext) ==
  LET from == EachQueue(kind, queues[kind], QueueWords(ext))
  IN  [j \in 1 .. Len(from) |-> {from[j]}]

\* ixgbevf_get_strings, ETH_SS_STATS
GetStrings ==
  [k \in 1 .. Len(StatNames) |-> <<"all", 0, StatNames[k]>>]
    \o QueueStrings("tx", queues.ext) \o QueueStrings("xdp", FALSE)
    \o QueueStrings("rx", queues.ext)

\* Mutant: the values of the XDP queues come after those of the receive queues.
StatsXdpLast ==
  StatFields \o QueueValues("tx", queues.ext) \o QueueValues("rx", queues.ext)
    \o QueueValues("xdp", FALSE)

\* ixgbevf_get_ethtool_stats
GetEthtoolStats ==
  StatFields \o QueueValues("tx", queues.ext) \o QueueValues("xdp", FALSE)
    \o QueueValues("rx", queues.ext)

\* ixgbevf_get_sset_count: IXGBEVF_STATS_LEN, from the size of struct ixgbevf_stats
GetSsetCount ==
  Len(StatNames) + (queues.tx + queues.xdp + queues.rx) * (IF queues.ext THEN 5 ELSE 2)

-----------------------------------------------------------------------------
\* The three have nothing to do with each other; a run takes them one at a time.
CounterNext == Count \/ UpdateStats \/ UpdateStatsHigh \/ StatsDown \/ StatsUp
PairNext ==
  \/ WriteBegin \/ WriteBytes \/ WritePackets \/ WriteEnd
  \/ ReadBegin \/ ReadBytes \/ ReadPackets \/ ReadEnd
LayoutNext == \E q \in QueueNumbers : Requeue(q)

StatsSpec == StatsInit(0 .. MaxCount) /\ [][CounterNext \/ PairNext \/ LayoutNext]_statVars

(* Properties.                                                             *)

\* Type invariant of the statistics.
StatsTypeOK ==
  /\ stState \in {"up", "down"} /\ seen \in 0 .. MaxCount /\ upsLeft \in 0 .. MaxUps
  /\ \A c \in {narrow, wide} : c.val \in Nat /\ c.saved \in Int
  /\ narrow.last \in 0 .. Low - 1 /\ narrow.base \in 0 .. Low - 1
  /\ wide.last \in 0 .. Wide - 1 /\ wide.base \in 0 .. Wide - 1

\* Read out since the adapter came up, a counter has grown since then by exactly the
\* frames that came in, over however many turns of the hardware's register; what is left
\* from before is a multiple of the register's size.
CountersExact ==
  fresh >= 0 /\ half = -1 =>
    /\ Multicast = carried[1] + fresh - atUp
    /\ wide.val - wide.base = carried[2] + fresh - atUp

\* A reader of a ring's counters never returns the bytes of one update with the packets of
\* another, although the poll does not wait for it.
RingPairWhole == told[1] = told[2]

\* The counters a statistic is named for, and those that stand at their places.
QueueWord ==
  [packets |-> "packets", bytes |-> "bytes", bp_napi_yield |-> "yields",
   bp_poll_yield |-> "yields", bp_misses |-> "misses", bp_cleaned |-> "cleaned"]
Meant(name) ==
  CASE name = "rx_packets" -> Over("rx", queues.rx, "packets")
    [] name = "rx_bytes" -> Over("rx", queues.rx, "bytes")
    [] name = "tx_packets" ->
           Over("tx", queues.tx, "packets") \cup Over("xdp", queues.xdp, "packets")
    [] name = "tx_bytes" ->
           Over("tx", queues.tx, "bytes") \cup Over("xdp", queues.xdp, "bytes")
    [] name = "multicast" -> {<<"hw", 0, "vfmprc">>}
    [] name = "tx_timeout_count" -> {<<"adapter", 0, "tx_timeout_count">>}
    [] name = "rx_csum_offload_errors" -> Over("rx", queues.rx, RxWord.csum_err)
    [] name = "alloc_rx_page" -> Over("rx", queues.rx, RxWord.alloc_rx_page)
    [] name = "alloc_rx_page_failed" -> Over("rx", queues.rx, RxWord.alloc_rx_page_failed)
    [] name = "alloc_rx_buff_failed" -> Over("rx", queues.rx, RxWord.alloc_rx_buff_failed)
    [] name = "tx_busy" -> Over("rx", queues.tx, RxWord.alloc_rx_buff_failed)
    [] name = "tx_restart_queue" -> Over("rx", queues.tx, RxWord.alloc_rx_page_failed)

\* An entry shows what its name says, from rings that there are.
Shown(name, value) ==
  /\ value = IF name[1] = "all" THEN Meant(name[3])
             ELSE {<<name[1], name[2], QueueWord[name[3]]>>}
  /\ \A c \in value : c[1] \in {"tx", "xdp", "rx"} => c[2] < queues[c[1]]

\* ethtool is given as many names and values as it has made room for, whatever rings there
\* are; every value is read from rings that there are, and is the sum of what its name says;
\* but tx_busy and tx_restart_queue (ixgbevf_main.c 4053) show what happened to be at their
\* places in receive rings: buffers and pages that could not be had.
StatsLayout ==
  LET names == GetStrings
      values == GetEthtoolStats
  IN  /\ Len(names) = GetSsetCount /\ Len(values) = GetSsetCount
      /\ \A k \in 1 .. GetSsetCount : Shown(names[k], values[k])

\* Every counter is what it counts.
CountedTrue == StatsTypeOK /\ CountersExact /\ RingPairWhole

\* What ethtool and the stack are shown has been counted, whole and under its own name.
StatsTrue == CountedTrue /\ StatsLayout
=============================================================================
