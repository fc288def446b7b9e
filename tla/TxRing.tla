------------------------------- MODULE TxRing -------------------------------
(***************************************************************************)
(* One transmit descriptor ring of the VF driver (src/ixgbevf_main.c).     *)
(*                                                                         *)
(* Four actors share the ring:                                             *)
(*   - ixgbevf_xmit_frame_ring, under the stack's per-queue Tx lock;       *)
(*   - ixgbevf_clean_tx_irq, in NAPI context on another CPU;               *)
(*   - the adapter's down/up sequence, under rtnl;                         *)
(*   - the hardware, which fetches descriptors from head to tail and       *)
(*     reports completed packets by writing DD into their last descriptor. *)
(* The service task (reset request, carrier, hang-check strobe) drives     *)
(* them.  A step is the code between two accesses to shared state that     *)
(* another actor can tell apart; the barriers of the code make the order   *)
(* of those accesses the program order.                                    *)
(***************************************************************************)
EXTENDS Integers

CONSTANTS
  Count,             \* ring->count, descriptors in the ring
  MaxData,           \* most data descriptors one packet needs (TXD_USE_COUNT sum)
  Gap,               \* descriptors asked for besides those: 3 in the code
  DescNeeded,        \* DESC_NEEDED: MAX_SKB_FRAGS + 4 in the code
  Skbs,              \* the socket buffers the stack owns and hands down
  Ctxs,              \* whether frames need a context descriptor (offloads, VLAN)
  Mores,             \* the values netdev_xmit_more() takes: {FALSE} means no batching
  SleepOutlastsPoll, \* the usleep_range of ixgbevf_down outlasts a running poll
  None               \* the NULL pointer

Slot == 0 .. Count - 1
WakeThreshold == DescNeeded * 2

ASSUME CountAssumption == Count \in Nat /\ Count > 0
ASSUME DataAssumption == MaxData \in Nat /\ MaxData > 0 /\ DescNeeded \in Nat
\* One of the gap's descriptors is for the context descriptor.
ASSUME GapAssumption == Gap \in Nat /\ Gap > 0
\* A queue that has been woken accepts a packet of the maximum size, and an empty
\* ring is above the wake threshold.  (A frame with fragments larger than
\* IXGBE_MAX_DATA_PER_TXD may need more than DESC_NEEDED.)
ASSUME SizeAssumption == MaxData + Gap <= WakeThreshold /\ WakeThreshold <= Count - 1
ASSUME NoneAssumption == None \notin Slot /\ None \notin Skbs
ASSUME SwitchAssumption == /\ SleepOutlastsPoll \in BOOLEAN
                           /\ Mores \subseteq BOOLEAN /\ Ctxs \subseteq BOOLEAN

VARIABLES
  ntu, ntc,       \* ring->next_to_use, ring->next_to_clean
  dd, eop, src,   \* descriptors: DD set, EOP|RS set, slot of the buffer they read
  ntw, skb, len,  \* tx_buffer_info: next_to_watch, skb, unmap length not 0
  head, tail,     \* VFTDH, VFTDT
  hwOn, stalled,  \* Tx queue enabled; the hardware has stopped fetching
  stopped,        \* __QUEUE_STATE_DRV_XOFF of the netdev queue
  carrier,        \* netif_carrier_ok
  owner,          \* who must free a socket buffer: "stack" or "driver"
  xpc, xskb, xn, xmap, xctx, xmore, first,  \* the xmit call in progress
  cpc, ci, budget, pkts,                   \* the clean in progress
  chk, armed, doneSince,  \* CHECK_FOR_TX_HANG, HANG_CHECK_ARMED, tx_done # tx_done_old
  down, resetReq, \* __IXGBEVF_DOWN, __IXGBEVF_RESET_REQUESTED
  apc             \* the down/up sequence

ringVars == <<ntu, ntc, dd, eop, src, ntw, skb, len>>
hwVars == <<head, tail, hwOn, stalled>>
xVars == <<xpc, xskb, xn, xmap, xctx, xmore, first>>
cVars == <<cpc, ci, budget, pkts>>
hangVars == <<chk, armed, doneSince>>
admVars == <<down, resetReq, apc>>
vars == <<ringVars, hwVars, stopped, carrier, owner, xVars, cVars, hangVars, admVars>>

-----------------------------------------------------------------------------
(* Ring arithmetic.                                                        *)

\* Mutant: no wrap at ring->count.
NxtNoWrap(i) == i + 1

\* i++; if (i == ring->count) i = 0;
Nxt(i) == IF i + 1 = Count THEN 0 ELSE i + 1

\* k such steps, k <= Count
Adv(i, k) == IF i + k >= Count THEN i + k - Count ELSE i + k

\* how many steps lead from a to b
Dist(a, b) == IF b >= a THEN b - a ELSE b - a + Count

\* the slots from a up to, not including, b
Between(a, b) == {j \in Slot : Dist(a, j) < Dist(a, b)}

\* ixgbevf_desc_unused
DescUnused == (IF ntc > ntu THEN 0 ELSE Count) + ntc - ntu - 1

-----------------------------------------------------------------------------
(* ixgbevf_xmit_frame_ring                                                 *)

\* the mapping of a frame that is a single descriptor
OneMapping == [k \in 1 .. 1 |-> 1]

InitBut(up) ==
  /\ ntu = 0 /\ ntc = 0
  /\ dd = {} /\ eop = {}
  /\ src = [i \in Slot |-> 0]
  /\ ntw = [i \in Slot |-> None] /\ skb = [i \in Slot |-> None]
  /\ len = {}
  /\ head = 0 /\ tail = 0 /\ hwOn = TRUE /\ stalled = FALSE
  /\ stopped = FALSE /\ carrier = up
  /\ owner = [s \in Skbs |-> "stack"]
  /\ xpc = "idle" /\ xskb = None /\ xn = 1 /\ xmap = OneMapping /\ xctx = FALSE
  /\ xmore = FALSE /\ first = 0
  /\ cpc = "idle" /\ ci = 0 /\ budget = 0 /\ pkts = FALSE
  /\ chk = FALSE /\ armed = FALSE /\ doneSince = FALSE
  /\ down = FALSE /\ resetReq = FALSE
  /\ apc = "up"

\* ixgbevf_open leaves the carrier off until the watchdog sees the link.
Init == InitBut(FALSE)

\* room for n more descriptors
RoomFor(n) == DescUnused >= n

\* The stack hands down a frame of n data descriptors; descriptor k lies in the
\* DMA mapping that starts at descriptor map[k]: the header's or a fragment's, each
\* split at IXGBE_MAX_DATA_PER_TXD.  ixgbevf_maybe_stop_tx(count + 3) comes first.
XmitCall(s, n, map, ctx, more) ==
  /\ xpc = "idle" /\ ~stopped /\ owner[s] = "stack"
  /\ xskb' = s /\ xn' = n /\ xmap' = map /\ xctx' = ctx /\ xmore' = more
  /\ owner' = [owner EXCEPT ![s] = "driver"]
  /\ xpc' = IF RoomFor(n + Gap) THEN "build" ELSE "stop"
  /\ UNCHANGED <<ringVars, hwVars, stopped, carrier, first, cVars, hangVars, admVars>>

\* __ixgbevf_maybe_stop_tx: stop the queue, then a barrier.  Clean may have run
\* since the check.
XmitStop ==
  /\ xpc \in {"stop", "stopfull"}
  /\ stopped' = TRUE
  /\ xpc' = IF xpc = "stop" THEN "recheck" ELSE "stoprecheck"
  /\ UNCHANGED <<ringVars, hwVars, carrier, owner, xskb, xn, xmap, xctx, xmore,
                 first, cVars, hangVars, admVars>>

\* The xmit call returns and its local variables are gone.
XmitReturn ==
  /\ xpc' = "idle" /\ xskb' = None /\ xn' = 1 /\ xmap' = OneMapping
  /\ xctx' = FALSE /\ xmore' = FALSE /\ first' = 0

\* Free a socket buffer (napi_consume_skb, dev_kfree_skb_any); and a mutant that leaks it.
LeakSkb(s) == UNCHANGED owner
FreeSkb(s) == owner' = [owner EXCEPT ![s] = "stack"]

\* Mutant: no second look at the ring after stopping the queue.
XmitBusy ==
  /\ xpc = "recheck"
  /\ owner' = [owner EXCEPT ![xskb] = "stack"]
  /\ XmitReturn
  /\ UNCHANGED <<ringVars, hwVars, stopped, carrier, cVars, hangVars, admVars>>

\* __ixgbevf_maybe_stop_tx after its barrier: a reprieve, or NETDEV_TX_BUSY,
\* in which case the stack keeps the frame and gives up its batch.
XmitRecheck ==
  /\ xpc = "recheck"
  /\ IF RoomFor(xn + Gap)
       THEN /\ stopped' = FALSE /\ xpc' = "build"
            /\ UNCHANGED <<owner, xskb, xn, xmap, xctx, xmore, first>>
       ELSE /\ owner' = [owner EXCEPT ![xskb] = "stack"]
            /\ XmitReturn /\ UNCHANGED stopped
  /\ UNCHANGED <<ringVars, hwVars, carrier, cVars, hangVars, admVars>>

\* first = &tx_buffer_info[next_to_use], first->skb = skb, and a context
\* descriptor (ixgbevf_tx_ctxtdesc) when the frame needs one.
XmitBuild ==
  /\ xpc = "build"
  /\ first' = ntu
  /\ skb' = [skb EXCEPT ![ntu] = xskb]
  /\ IF xctx
       THEN /\ ntu' = Nxt(ntu)
            /\ dd' = dd \ {ntu} /\ eop' = eop \ {ntu}
            /\ src' = [src EXCEPT ![ntu] = ntu]
       ELSE UNCHANGED <<ntu, dd, eop, src>>
  /\ xpc' = "map"
  /\ UNCHANGED <<ntc, ntw, len, hwVars, stopped, carrier, owner, xskb, xn, xmap,
                 xctx, xmore, cVars, hangVars, admVars>>

\* out_drop: a malformed VLAN header or a failed ixgbevf_tso.
XmitOutDrop ==
  /\ xpc = "build"
  /\ skb' = [skb EXCEPT ![ntu] = None]
  /\ FreeSkb(xskb)
  /\ XmitReturn
  /\ UNCHANGED <<ntu, ntc, dd, eop, src, ntw, len, hwVars, stopped, carrier,
                 cVars, hangVars, admVars>>

\* The slot of the k-th data descriptor, and the tx_buffer_info slot that
\* records the mapping that starts there: the first one is recorded in `first`.
DataSlot(k) == Adv(ntu, k - 1)
BufSlot(k) == IF k = 1 THEN first ELSE DataSlot(k)
\* the descriptors that start a mapping
Starts == {k \in 1 .. xn : xmap[k] = k}
\* the first n data descriptors, and the buffer addresses once they are written
DataSlots(n) == {DataSlot(k) : k \in 1 .. n}
SrcAfter(n) == [j \in Slot |-> IF j \in DataSlots(n)
                                 THEN BufSlot(xmap[Dist(ntu, j) + 1]) ELSE src[j]]

\* Mutant: the packet before this one, which may be pending, is no longer to be
\* reported on its own.
XmitMapMerge ==
  /\ xpc = "map"
  /\ dd' = dd \ DataSlots(xn)
  /\ eop' = (eop \ (DataSlots(xn) \cup {j \in Slot : Nxt(j) = first})) \cup {DataSlot(xn)}
  /\ src' = SrcAfter(xn)
  /\ len' = len \cup {BufSlot(k) : k \in Starts}
  /\ xpc' = "watch"
  /\ UNCHANGED <<ntu, ntc, ntw, skb, hwVars, stopped, carrier, owner, xskb, xn,
                 xmap, xctx, xmore, first, cVars, hangVars, admVars>>

\* Mutant: the status of the descriptors is left as it was.
XmitMapKeepsDd ==
  /\ xpc = "map"
  /\ eop' = (eop \ DataSlots(xn)) \cup {DataSlot(xn)}
  /\ src' = SrcAfter(xn)
  /\ len' = len \cup {BufSlot(k) : k \in Starts}
  /\ xpc' = "watch"
  /\ UNCHANGED <<ntu, ntc, dd, ntw, skb, hwVars, stopped, carrier, owner, xskb, xn,
                 xmap, xctx, xmore, first, cVars, hangVars, admVars>>

\* ixgbevf_tx_map up to the barrier: map header and fragments, write the
\* descriptors (olinfo_status overlays and clears DD), EOP|RS on the last.
XmitMap ==
  /\ xpc = "map"
  /\ dd' = dd \ DataSlots(xn)
  /\ eop' = (eop \ DataSlots(xn)) \cup {DataSlot(xn)}
  /\ src' = SrcAfter(xn)
  /\ len' = len \cup {BufSlot(k) : k \in Starts}
  /\ xpc' = "watch"
  /\ UNCHANGED <<ntu, ntc, ntw, skb, hwVars, stopped, carrier, owner, xskb, xn,
                 xmap, xctx, xmore, first, cVars, hangVars, admVars>>

\* the slots dma_error unmaps when the mapping that starts at k fails: from the
\* slot reached back to `first`
Undone(k) == {first} \cup DataSlots(k)

\* dma_error: the mappings made so far are undone, the frame is dropped and
\* next_to_use restored.
XmitDmaError(k) ==
  /\ xpc = "map" /\ k \in Starts
  /\ dd' = dd \ DataSlots(k)
  /\ eop' = eop \ DataSlots(k - 1)
  /\ src' = SrcAfter(k - 1)
  /\ len' = (len \cup {BufSlot(m) : m \in Starts \cap 1 .. k - 1}) \ Undone(k)
  /\ skb' = [skb EXCEPT ![first] = None]
  /\ FreeSkb(xskb)
  /\ ntu' = first
  /\ XmitReturn
  /\ UNCHANGED <<ntc, ntw, hwVars, stopped, carrier, cVars, hangVars, admVars>>

\* first->next_to_watch = tx_desc; next_to_use = one past it.
XmitWatch ==
  /\ xpc = "watch"
  /\ ntw' = [ntw EXCEPT ![first] = DataSlot(xn)]
  /\ ntu' = Nxt(DataSlot(xn))
  /\ xpc' = "stopcheck"
  /\ UNCHANGED <<ntc, dd, eop, src, skb, len, hwVars, stopped, carrier, owner,
                 xskb, xn, xmap, xctx, xmore, first, cVars, hangVars, admVars>>

\* ixgbevf_maybe_stop_tx(tx_ring, DESC_NEEDED): first look, then the recheck.
XmitStopCheck ==
  /\ xpc = "stopcheck"
  /\ xpc' = IF RoomFor(DescNeeded) THEN "tail" ELSE "stopfull"
  /\ UNCHANGED <<ringVars, hwVars, stopped, carrier, owner, xskb, xn, xmap, xctx,
                 xmore, first, cVars, hangVars, admVars>>

XmitStopRecheck ==
  /\ xpc = "stoprecheck"
  /\ stopped' = IF RoomFor(DescNeeded) THEN FALSE ELSE stopped
  /\ xpc' = "tail"
  /\ UNCHANGED <<ringVars, hwVars, carrier, owner, xskb, xn, xmap, xctx, xmore,
                 first, cVars, hangVars, admVars>>

\* if (!netdev_xmit_more() || netif_xmit_stopped(txq)) writel(i, tail); byte
\* queue limits (bql) may also have stopped the queue.
XmitTail(bql) ==
  /\ xpc = "tail"
  /\ tail' = IF ~xmore \/ stopped \/ bql THEN ntu ELSE tail
  /\ XmitReturn
  /\ UNCHANGED <<ringVars, head, hwOn, stalled, stopped, carrier, owner, cVars,
                 hangVars, admVars>>

-----------------------------------------------------------------------------
(* ixgbevf_clean_tx_irq                                                    *)

NapiEnabled == apc \in {"up", "stopq", "napi"}

CleanStart ==
  /\ cpc = "idle" /\ NapiEnabled /\ ~down
  /\ ci' = ntc /\ budget' = Count \div 2 /\ pkts' = FALSE
  /\ cpc' = "loop"
  /\ UNCHANGED <<ringVars, hwVars, stopped, carrier, owner, xVars, hangVars, admVars>>

\* The clean call returns.
CleanReturn == cpc' = "idle" /\ pkts' = FALSE

\* Mutant: the DD bit is not tested.
PacketPresent(i) == ntw[i] # None

\* the packet at i has been reported by the hardware
PacketDone(i) == ntw[i] # None /\ ntw[i] \in dd

\* Mutants: one mapping too many is undone; the head's is forgotten.
UnmappedPast(i) == {j \in Slot : Dist(i, j) <= Dist(i, ntw[i]) + 1}
UnmappedFrags(i) == {j \in Slot : Dist(i, j) <= Dist(i, ntw[i]) /\ j # i}

\* the slots whose mappings go with the packet at i: its head's and the others'
Unmapped(i) == {j \in Slot : Dist(i, j) <= Dist(i, ntw[i])}

CleanPacket ==
  /\ cpc = "loop" /\ budget > 0 /\ PacketDone(ci)
  /\ ntw' = [ntw EXCEPT ![ci] = None]
  /\ FreeSkb(skb[ci])
  /\ len' = len \ Unmapped(ci)
  /\ ci' = Nxt(ntw[ci])
  /\ budget' = budget - 1 /\ pkts' = TRUE
  /\ UNCHANGED <<ntu, ntc, dd, eop, src, skb, hwVars, stopped, carrier, xVars,
                 cpc, hangVars, admVars>>

CleanDone ==
  /\ cpc = "loop" /\ (budget = 0 \/ ~PacketDone(ci))
  /\ ntc' = ci
  /\ doneSince' = (doneSince \/ pkts)
  /\ cpc' = "hang" /\ ci' = 0 /\ budget' = 0
  /\ UNCHANGED <<ntu, dd, eop, src, ntw, skb, len, hwVars, stopped, carrier, owner,
                 xVars, pkts, chk, armed, admVars>>

\* ixgbevf_tx_timeout_reset (and a mutant that forgets to ask for the reset)
TxTimeoutIgnored == UNCHANGED resetReq
TxTimeoutReset == resetReq' = (resetReq \/ ~down)

\* check_for_tx_hang && ixgbevf_check_tx_hang: no completion since the last
\* check and work pending, twice in a row.
CleanHang ==
  /\ cpc = "hang"
  /\ chk' = FALSE
  /\ LET suspect == ~doneSince /\ head # tail
     IN  /\ armed' = IF chk THEN suspect ELSE armed
         /\ doneSince' = IF chk /\ ~suspect THEN FALSE ELSE doneSince
         /\ IF chk /\ suspect /\ armed
              THEN stopped' = TRUE /\ TxTimeoutReset /\ CleanReturn
              ELSE cpc' = "wake" /\ UNCHANGED <<stopped, resetReq, pkts>>
  /\ UNCHANGED <<ringVars, hwVars, carrier, owner, xVars, ci, budget, down, apc>>

\* total_packets && netif_carrier_ok && ixgbevf_desc_unused >= TX_WAKE_THRESHOLD
CleanWakeTest ==
  /\ cpc = "wake"
  /\ IF pkts /\ carrier /\ RoomFor(WakeThreshold)
       THEN cpc' = "wakecheck" /\ UNCHANGED pkts
       ELSE CleanReturn
  /\ UNCHANGED <<ringVars, hwVars, stopped, carrier, owner, xVars, ci, budget,
                 hangVars, admVars>>

\* smp_mb(); subqueue stopped && !DOWN
CleanWakeCheck ==
  /\ cpc = "wakecheck"
  /\ IF stopped /\ ~down
       THEN cpc' = "wakequeue" /\ UNCHANGED pkts
       ELSE CleanReturn
  /\ UNCHANGED <<ringVars, hwVars, stopped, carrier, owner, xVars, ci, budget,
                 hangVars, admVars>>

\* netif_wake_subqueue
CleanWake ==
  /\ cpc = "wakequeue"
  /\ stopped' = FALSE
  /\ CleanReturn
  /\ UNCHANGED <<ringVars, hwVars, carrier, owner, xVars, ci, budget, hangVars, admVars>>

-----------------------------------------------------------------------------
(* The hardware (external).                                                *)

\* Fetch one descriptor; the last one of a packet is written back with DD.
HwFetch ==
  /\ hwOn /\ ~stalled /\ head # tail
  /\ head' = Nxt(head)
  /\ dd' = dd \cup ({head} \cap eop)
  /\ UNCHANGED <<ntu, ntc, eop, src, ntw, skb, len, tail, hwOn, stalled, stopped,
                 carrier, owner, xVars, cVars, hangVars, admVars>>

\* The Tx unit hangs until it is reset.
HwStall ==
  /\ hwOn /\ ~stalled
  /\ stalled' = TRUE
  /\ UNCHANGED <<ringVars, head, tail, hwOn, stopped, carrier, owner, xVars, cVars,
                 hangVars, admVars>>

-----------------------------------------------------------------------------
(* ixgbevf_down and ixgbevf_up, under rtnl.                                *)

\* test_and_set_bit(__IXGBEVF_DOWN)
DownBegin ==
  /\ apc = "up"
  /\ down' = TRUE /\ apc' = "stopq"

\* ndo_stop, an MTU or ring change, an ethtool test: any caller but the service task.
UserDown ==
  /\ DownBegin
  /\ UNCHANGED <<ringVars, hwVars, stopped, carrier, owner, xVars, cVars, hangVars, resetReq>>

\* Mutant: the queues are stopped but a running xmit is not waited for.
DownStopQueuesOnly ==
  /\ apc = "stopq"
  /\ SleepOutlastsPoll => cpc = "idle"
  /\ stopped' = TRUE /\ carrier' = FALSE
  /\ apc' = "napi"
  /\ UNCHANGED <<ringVars, hwVars, owner, xVars, cVars, hangVars, down, resetReq>>

\* After usleep_range: stop all queues, carrier off, and netif_tx_disable,
\* which takes the Tx lock and so waits for a running xmit.
DownStopQueues ==
  /\ apc = "stopq" /\ xpc = "idle"
  /\ SleepOutlastsPoll => cpc = "idle"
  /\ stopped' = TRUE /\ carrier' = FALSE
  /\ apc' = "napi"
  /\ UNCHANGED <<ringVars, hwVars, owner, xVars, cVars, hangVars, down, resetReq>>

\* ixgbevf_napi_disable_all waits for the running poll.
DownNapiDisable ==
  /\ apc = "napi" /\ cpc = "idle"
  /\ apc' = "reset"
  /\ UNCHANGED <<ringVars, hwVars, stopped, carrier, owner, xVars, cVars, hangVars,
                 down, resetReq>>

\* ixgbevf_clean_tx_ring walks from next_to_clean to next_to_use packet by
\* packet, from each start to one past its next_to_watch.
PacketStarts ==
  {i \in Between(ntc, ntu) :
     i = ntc \/ \E j \in Between(ntc, ntu) : ntw[j] # None /\ Nxt(ntw[j]) = i}

\* Flush and reset the hardware, then free every packet left in the ring.  The
\* bookkeeping of the slots is left as it is; ixgbevf_configure_tx_ring clears it.
DownResetClean ==
  /\ apc = "reset"
  /\ hwOn' = FALSE /\ stalled' = FALSE
  /\ owner' = [s \in Skbs |-> IF \E i \in PacketStarts : skb[i] = s THEN "stack" ELSE owner[s]]
  /\ ntu' = 0 /\ ntc' = 0
  /\ apc' = "down"
  /\ UNCHANGED <<dd, eop, src, ntw, skb, len, head, tail, stopped, carrier, xVars,
                 cVars, hangVars, down, resetReq>>

\* ixgbevf_configure_tx_ring; descriptor memory is not cleared.
ConfigureTxRing ==
  /\ apc = "down"
  /\ head' = 0 /\ tail' = 0 /\ ntc' = 0 /\ ntu' = 0 /\ hwOn' = TRUE
  /\ ntw' = [i \in Slot |-> None] /\ skb' = [i \in Slot |-> None]
  /\ len' = {}
  /\ armed' = FALSE
  /\ apc' = "configured"
  /\ UNCHANGED <<dd, eop, src, stalled, stopped, carrier, owner, xVars, cVars, chk,
                 doneSince, down, resetReq>>

\* ixgbevf_up_complete: clear DOWN, enable NAPI, start the queues.
UpComplete ==
  /\ apc = "configured"
  /\ down' = FALSE /\ stopped' = FALSE
  /\ apc' = "up"
  /\ UNCHANGED <<ringVars, hwVars, carrier, owner, xVars, cVars, hangVars, resetReq>>

-----------------------------------------------------------------------------
(* The service task, and the stack's transmit watchdog.  Its subtasks are   *)
(* separate steps in any order, which includes the order of the code.       *)

\* ixgbevf_reset_subtask: take rtnl, bail out when down, else reinit.
ServiceReset ==
  /\ resetReq /\ apc \in {"up", "down"}
  /\ resetReq' = FALSE
  /\ IF down THEN UNCHANGED <<down, apc>> ELSE DownBegin
  /\ UNCHANGED <<ringVars, hwVars, stopped, carrier, owner, xVars, cVars, hangVars>>

\* ixgbevf_watchdog_link_is_up / _is_down: only the carrier changes.
ServiceLink(up) ==
  /\ ~down
  /\ carrier' = up
  /\ UNCHANGED <<ringVars, hwVars, stopped, owner, xVars, cVars, hangVars, admVars>>

\* ixgbevf_check_hang_subtask
ServiceHangCheck ==
  /\ ~down /\ carrier
  /\ chk' = TRUE
  /\ UNCHANGED <<ringVars, hwVars, stopped, carrier, owner, xVars, cVars, armed,
                 doneSince, admVars>>

\* dev_watchdog finds the queue stopped for too long: ixgbevf_tx_timeout.
TxTimeout ==
  /\ stopped /\ carrier /\ ~resetReq /\ ~down
  /\ TxTimeoutReset
  /\ UNCHANGED <<ringVars, hwVars, stopped, carrier, owner, xVars, cVars, hangVars,
                 down, apc>>

-----------------------------------------------------------------------------
\* the ways a frame of n data descriptors is covered by consecutive mappings
Mappings(n) ==
  {f \in [1 .. n -> 1 .. n] :
     \A k \in 1 .. n : f[k] <= k /\ f[f[k]] = f[k] /\ (k > 1 => f[k] \in {f[k - 1], k})}

Xmit ==
  \/ \E s \in Skbs, n \in 1 .. MaxData, ctx \in Ctxs, more \in Mores :
       \E map \in Mappings(n) : XmitCall(s, n, map, ctx, more)
  \/ XmitStop \/ XmitRecheck \/ XmitBuild \/ XmitOutDrop \/ XmitMap
  \/ \E k \in 1 .. MaxData : XmitDmaError(k)
  \/ XmitWatch \/ XmitStopCheck \/ XmitStopRecheck
  \/ \E bql \in BOOLEAN : XmitTail(bql)

Clean ==
  \/ CleanStart \/ CleanPacket \/ CleanDone \/ CleanHang
  \/ CleanWakeTest \/ CleanWakeCheck \/ CleanWake

Hw == HwFetch \/ HwStall

Admin ==
  \/ UserDown \/ DownStopQueues \/ DownNapiDisable \/ DownResetClean
  \/ ConfigureTxRing \/ UpComplete

Service ==
  \/ ServiceReset
  \/ \E up \in BOOLEAN : ServiceLink(up)
  \/ ServiceHangCheck \/ TxTimeout

Next == Xmit \/ Clean \/ Hw \/ Admin \/ Service

Spec == Init /\ [][Next]_vars

\* The data path alone: the link stays up, nothing hangs, nobody resets.
SteadyInit == InitBut(TRUE)
SteadyNext == Xmit \/ Clean \/ HwFetch

\* The data path with a link that comes and goes, and resets, but no hang.
FlapNext ==
  \/ Xmit \/ Clean \/ HwFetch \/ Admin \/ ServiceReset \/ TxTimeout
  \/ \E up \in BOOLEAN : ServiceLink(up)

\* A call that has entered the driver runs to its end.
XmitStep ==
  \/ XmitStop \/ XmitRecheck \/ XmitBuild \/ XmitMap \/ XmitWatch \/ XmitStopCheck
  \/ XmitStopRecheck
  \/ \E bql \in BOOLEAN : XmitTail(bql)

\* Interrupts and the service task's software interrupt keep NAPI polling, and
\* hardware that is not hung fetches what it was told of.
DataFairness == WF_vars(XmitStep) /\ WF_vars(Clean) /\ WF_vars(HwFetch)

\* rtnl holders finish a down/up sequence (netif_tx_disable gets the Tx lock:
\* strong fairness), the service timer keeps the subtasks running (the hang check
\* too, in FairSpec), and the stack's watchdog timer finds a queue that stays stopped.
ControlFairness ==
  /\ SF_vars(DownStopQueues)
  /\ WF_vars(DownNapiDisable \/ DownResetClean \/ ConfigureTxRing \/ UpComplete)
  /\ WF_vars(ServiceReset) /\ WF_vars(TxTimeout)

SteadySpec == SteadyInit /\ [][SteadyNext]_vars /\ DataFairness
FlapSpec == Init /\ [][FlapNext]_vars /\ DataFairness /\ ControlFairness
FairSpec == Spec /\ DataFairness /\ ControlFairness /\ WF_vars(ServiceHangCheck)

-----------------------------------------------------------------------------
(* Properties.                                                             *)

TypeRing ==
  /\ ntu \in Slot /\ ntc \in Slot /\ head \in Slot /\ tail \in Slot
  /\ dd \subseteq Slot /\ eop \subseteq Slot /\ src \in [Slot -> Slot]
  /\ ntw \in [Slot -> Slot \cup {None}] /\ skb \in [Slot -> Skbs \cup {None}]
  /\ len \subseteq Slot
  /\ xskb \in Skbs \cup {None} /\ xn \in 1 .. MaxData /\ xmap \in Mappings(xn)
  /\ first \in Slot /\ ci \in Slot /\ budget \in 0 .. Count

TypeControl ==
  /\ owner \in [Skbs -> {"stack", "driver"}]
  /\ xpc \in {"idle", "stop", "recheck", "build", "map", "watch", "stopcheck", "stopfull",
              "stoprecheck", "tail"}
  /\ cpc \in {"idle", "loop", "hang", "wake", "wakecheck", "wakequeue"}
  /\ apc \in {"up", "stopq", "napi", "reset", "down", "configured"}

TypeFlags ==
  /\ hwOn \in BOOLEAN /\ stalled \in BOOLEAN /\ stopped \in BOOLEAN /\ carrier \in BOOLEAN
  /\ xctx \in BOOLEAN /\ xmore \in BOOLEAN /\ pkts \in BOOLEAN
  /\ chk \in BOOLEAN /\ armed \in BOOLEAN /\ doneSince \in BOOLEAN
  /\ down \in BOOLEAN /\ resetReq \in BOOLEAN

\* Type invariant of the ring, the program counters and the flags.
TypeOK == TypeRing /\ TypeControl /\ TypeFlags

\* where cleaning has got to, and where the packets the ring holds end
CleanPos == IF cpc = "loop" THEN ci ELSE ntc
FrameEnd == IF xpc \in {"map", "watch"} THEN first ELSE ntu

\* The down/up sequence excludes the other actors when it relies on it.
Quiesced ==
  /\ apc # "up" <=> down
  /\ apc \in {"napi", "reset", "down", "configured"} =>
       stopped /\ xpc = "idle" /\ cpc = "idle"

\* clean position <= head <= tail <= end of the packets <= next_to_use, going
\* round the ring: the hardware is never ahead of the tail nor behind cleaning.
CursorOrder ==
  /\ Dist(CleanPos, head) <= Dist(CleanPos, tail)
  /\ Dist(CleanPos, tail) <= Dist(CleanPos, FrameEnd)
  /\ Dist(CleanPos, FrameEnd) <= Dist(CleanPos, ntu)
  /\ Dist(ntc, CleanPos) <= Dist(ntc, FrameEnd)
  /\ Dist(ntc, FrameEnd) <= Dist(ntc, ntu)
  /\ FrameEnd # ntu => xctx /\ ntu = Nxt(first)

\* next_to_watch chains the packets: set exactly in the first slot of each, and
\* no packet starts inside another.
Framing ==
  /\ CleanPos # FrameEnd => ntw[CleanPos] # None
  /\ \A i \in Slot : ntw[i] # None =>
       /\ Dist(CleanPos, i) <= Dist(CleanPos, ntw[i])
       /\ Dist(CleanPos, ntw[i]) < Dist(CleanPos, FrameEnd)
       /\ Nxt(ntw[i]) = FrameEnd \/ ntw[Nxt(ntw[i])] # None
       /\ \A m \in Slot : ntw[m] # None /\ Dist(CleanPos, i) < Dist(CleanPos, m)
                            => Dist(CleanPos, ntw[i]) < Dist(CleanPos, m)

\* No stale DD where cleaning could mistake it for a completion.
NoStaleDone ==
  /\ \A j \in Slot : Dist(CleanPos, head) <= Dist(CleanPos, j)
                     /\ Dist(CleanPos, j) < Dist(CleanPos, ntu) => j \notin dd
  /\ xpc = "watch" => \A k \in 1 .. xn : DataSlot(k) \notin dd

\* The entry check of xmit still covers what is left to write.
Reserved ==
  /\ xpc = "build" => DescUnused >= xn + Gap
  /\ xpc \in {"map", "watch"} => DescUnused >= xn + Gap - 1

\* A descriptor reads a mapping recorded in a slot of its own packet, not before
\* the start of the packet and not after the descriptor itself.
Mapped ==
  /\ \A j \in Slot : Dist(CleanPos, j) < Dist(CleanPos, FrameEnd) =>
       /\ src[j] \in len
       /\ Dist(CleanPos, src[j]) <= Dist(CleanPos, j)
       /\ \A i \in Slot : ntw[i] # None /\ Dist(CleanPos, i) <= Dist(CleanPos, j)
                            => Dist(CleanPos, i) <= Dist(CleanPos, src[j])
  /\ xpc \in {"map", "watch"} => \A j \in Slot :
       Dist(CleanPos, first) <= Dist(CleanPos, j) /\ Dist(CleanPos, j) < Dist(CleanPos, ntu)
         => src[j] = first
  /\ xpc = "watch" =>
       /\ first \in len
       /\ \A k \in 1 .. xn :
            /\ src[DataSlot(k)] \in len
            /\ Dist(CleanPos, first) <= Dist(CleanPos, src[DataSlot(k)])
            /\ Dist(CleanPos, src[DataSlot(k)]) <= Dist(CleanPos, DataSlot(k))

\* The inductive invariant: the ring is a queue of whole packets, in order, and
\* xmit, clean and the hardware each stay in their own part of it.
RingInv ==
  /\ Quiesced
  /\ Reserved
  /\ apc # "down" => CursorOrder /\ Framing /\ NoStaleDone /\ Mapped

\* The hardware only ever reads buffers that are still mapped: no packet is
\* unmapped (or its descriptors reused) between the tail write and its fetch.
HwReadsMapped ==
  apc # "down" => \A j \in Between(head, tail) : src[j] \in len

\* Every buffer the driver took is in exactly one packet of the ring or in the
\* running xmit call: none is leaked by an error path, none is freed twice.
SkbOwnership ==
  LET starts == {i \in Slot : apc # "down" /\ ntw[i] # None}
      inFlight == IF xpc \in {"stop", "recheck", "build", "map", "watch"} THEN {xskb} ELSE {}
  IN  /\ {s \in Skbs : owner[s] = "driver"} = {skb[i] : i \in starts} \cup inFlight
      /\ \A i, j \in starts : skb[i] = skb[j] => i = j
      /\ \A i \in starts : skb[i] \notin inFlight

\* A slot that belongs to no packet holds no DMA mapping (dma_error undoes all
\* of them, clean and configure leave none behind).
NoLeakedMapping ==
  LET used == Between(CleanPos, IF xpc = "watch" THEN Adv(ntu, xn) ELSE ntu)
  IN  apc # "down" => len \subseteq used

\* Software never rewrites a descriptor the hardware may still fetch.
PendingStable ==
  [][ hwOn /\ hwOn' =>
        \A j \in Between(head, tail) : src'[j] = src[j] /\ (j \in eop' <=> j \in eop) ]_vars

\* The stop/recheck of __ixgbevf_maybe_stop_tx and the wake test of
\* ixgbevf_clean_tx_irq never miss each other: with the link up a queue that was
\* stopped for lack of descriptors is woken by the completions alone.
StoppedQueueWakes == stopped ~> ~stopped

\* Whatever stopped it, a queue does not stay stopped while the carrier is on: a
\* wake-up lost to a carrier change or a hang is made good by ixgbevf_tx_timeout.
QueueRecovers == (stopped /\ carrier) ~> (~stopped \/ ~carrier)

\* A Tx unit that hangs with work pending is found by the two-pass hang check and
\* reset, even if the queue never fills up.
HangRecovered ==
  (stalled /\ head # tail /\ carrier /\ ~down) ~> (~stalled \/ ~carrier \/ down)

\* From netif_tx_disable until ixgbevf_up_complete restarts the queue no xmit call
\* runs: nothing fills the ring while it is being reset, emptied and configured.
XmitExcluded == apc \in {"napi", "reset", "down", "configured"} => xpc = "idle"

\* Whatever way a frame takes, through an error path, through cleaning or through a ring
\* that is emptied, its buffer is given up once and its mappings are undone.
NothingLost == SkbOwnership /\ NoLeakedMapping

\* A transmit ring does not stay stuck: neither a queue that was stopped nor a unit that
\* hangs is left so by the transmit watchdog and the hang check.
TxRecovers == QueueRecovers /\ HangRecovered
=============================================================================
