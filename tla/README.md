# A TLA+ verification of the ixgbevf driver

Intel's `ixgbevf` is the Linux driver of a virtual function (VF) of the 82599, X540,
X550 and E610 Ethernet controllers. This directory holds TLA+ models of it,
the TLC configurations that check them, and TLAPS proofs about them. Paths below
are relative to the repository's `src/` directory; line numbers are those of the
commit the models were written from. `PROJECT.json` maps every definition to its
lines and lists runs, mutants, findings, hazards and theorems.

## 1. Inventory

| Component | Code | State | Operations | Modules |
|---|---|---|---|---|
| Tx ring | `ixgbevf_main.c` 300-650, 4660-5170 | cursors, descriptors, `tx_buffer_info`, queue-stopped bit | xmit, clean, hang check, configure, empty | `TxRing`, `TxQueue`, `Offload`, `RingMemory` |
| Rx ring | `ixgbevf_main.c` 820-1670 | cursors, descriptors, `rx_buffer_info` (page, half, `pagecnt_bias`), partial frame | refill, clean, reuse, XDP verdicts, configure, empty | `RxRing`, `RxGeometry`, `Offload`, `Headers` |
| XDP Tx ring | `ixgbevf_main.c` 1381-1453 | a Tx ring of its own | transmit one buffer, tail write at the end of a poll | `XdpRing`, `RxRing` |
| Interrupts, NAPI | `ixgbevf_main.c` 1700-2226 | cause, mask, NAPI state, per-vector budget | interrupt, poll, complete, re-enable | `RxRing`, `QVector`, `QueueSetup` |
| busy-poll lock | `ixgbevf.h` 300-400 | `q_vector->state` | lock/unlock from NAPI and from a socket | `QVector` |
| Throttling | `ixgbevf_main.c` 1960-2110 | `itr`, `rx_itr_setting`, counts since the last interrupt | classify, smooth, write EITR, set | `Itr` |
| Down, up, reset | `ixgbevf_main.c` 2993-3395, 4521-4640 | `__IXGBEVF_DOWN`, `_RESETTING`, ... | open, close, reinit, reset, suspend, resume | `Lifecycle` |
| Service task | `ixgbevf_main.c` 138-160, 4066-4290 | work item, timer, request bits, link state | reset, watchdog, hang check | `Lifecycle`, `Session` |
| Mailbox, VF and PF half | `ixgbe_mbx.c` | register bits, 16-word buffer, `mbx_lock`, saved read-to-clear bits | read, write, wait, lock | `Mailbox`, `Exchange` |
| MAC operations | `ixgbe_vf.c` | API version, features, link status, `mbx.timeout` | reset, negotiation, queue layout, link check | `Session`, `Filters` |
| Hyper-V operations | `ixgbe_hv_vf.c` | none | stubs, link check, frame size | `Session`, `Filters` |
| Statistics | `ixgbevf_main.c` 3007-3050, 4013-4060 | 32/36-bit counters, baselines, ring counters | update, save at reset, report | `Stats` |
| Queues and vectors | `ixgbevf_main.c` 2110-2226, 3396-3880 | queues per vector, interrupt registers | count, acquire, distribute, request, free | `QueueSetup`, `RingMemory` |
| Filters | `ixgbevf_main.c` 2668-2950 | `active_vlans`, address lists, MAC, frame limit | add, kill, restore | `Filters` |
| ethtool | `ixgbevf_ethtool.c` | ring sizes, coalescing, RSS, private flags | resize, self-test, dump, reports | `RingMemory`, `Itr`, `Rss`, `SelfTest`, `Stats` |
| Registers, removal | `ixgbevf_main.c` 163-260 | `hw->hw_addr` | read, detect removal | `Lifecycle`, `SelfTest` |
| PCI | `ixgbevf_main.c` 5374-5460, 5857-6260 | device state | probe, remove, error recovery | `Lifecycle` |
| kcompat | `kcompat*` | the XArray's tree | XArray (carried, no caller in this driver), header walks; the rest wraps kernel interfaces | `XArray`, `Headers` |

**How they interact.** The stack calls xmit under a per-queue lock; NAPI polls clean
Tx rings, then Rx rings, of one vector, on any CPU. Xmit and clean share a Tx ring
without a lock: each owns a cursor, and a stop / recheck / wake protocol with
barriers makes up for the missing lock. Rings and hardware share descriptors, head
and tail registers. The down/up sequence (under rtnl, or in the service task) relies
on `netif_tx_disable` and `napi_disable` to have the rings to itself. The service
task asks for resets, sets the carrier, arms the hang check and strobes interrupts.
All requests to the PF go through one mailbox, protected by `mbx_lock` inside the
driver and by two lock bits between VF and PF. What the PF knows of the VF (API version,
filters, queue layout) is lost whenever either side resets, and has to be told again.
Open, close, restarts, suspend, error recovery and the service task meet in the state
bits of the adapter; most of them hold rtnl, but the bits are tested and set without it.

**What is hard.** The lock-free Tx protocol; frames that fail half-way through DMA
mapping; descriptor memory that survives a reset with old completion bits; a page
shared by driver, hardware and stack whose only bookkeeping is a reference count
with a bias; interrupts that are lost or never due; waits that time out while the
other side is still working; a PF that restarts as another version of itself; setup
sequences any step of which may fail and be undone; counters that wrap or are caught
in the middle of an update; buffer sizes that depend on MTU, page size, device and
what the PF lets through; everything of this while the adapter goes down; and tests
of DOWN or of the detached state that are out of date when they are acted on.

**What makes it correct.** Tx: hardware reads only mapped, unchanged descriptors of
whole packets; every socket buffer is freed once; packets leave in order; a stopped
queue is woken. Rx: every page reference has one holder; hardware never fills memory
somebody reads, nor more of it than there is; frames are put together in order; filled
buffers are cleaned and empty rings refilled. Mailbox: one writer at a time; an
acknowledgement and a reply belong to the request they are taken for. Session: both
sides speak the same version, and a VF the PF has forgotten comes back. Filters: what
the PF filters is what the stack asked for. Life of the adapter: what is up has its
rings; what is closed, suspended or removed has given them up; restarts do not meet;
nobody waits for ever.

## 2. Modules

| Module | What it is |
|---|---|
| `TxRing` | one Tx ring: xmit, clean, hardware, down/up, service task |
| `TxRingProofs` | ring arithmetic, type correctness, the inductive invariant and what follows from it |
| `TxQueue` | the abstract queue; `TxRingQueue` maps `TxRing` to it |
| `TxRingQueueProofs` | nothing is lost, and the ring is that queue |
| `RxRing` | one Rx ring: poll, refill, hardware, stack, interrupt, down/up |
| `RxRingProofs` | its inductive invariant and the four theorems that follow |
| `Mailbox` | VF and PF sides of the mailbox, word by word |
| `MailboxProofs` | mutual exclusion of the buffer, answers, the refinement |
| `Exchange` | the abstract request and reply; `MailboxExchange` maps `Mailbox` to it |
| `Session` | reset, negotiation, link and carrier, on top of exchanges |
| `SessionProofs` | the two drivers agree on the version |
| `Lifecycle` | open to remove: user calls, PCI callbacks, service task, timer |
| `Filters` | what the PF is asked to filter, and what it holds |
| `FiltersProofs` | its inductive invariant |
| `QVector` | the vector's ownership word, NAPI and busy polls, budget |
| `XdpRing` | the transmit ring of an XDP program |
| `Stats` | hardware counters, ring counters, ethtool's lists |
| `Itr` | interrupt throttling |
| `UnitProofs` | inductive invariants of the vector, the throttling, the counters and ethtool's lists, the XDP ring, the packets (`Offload`, `Headers`) and the self-test |
| `QueueSetup` | queues, vectors and interrupt registers |
| `RingMemory` | descriptor and buffer memory; resizing rings |
| `RxGeometry` | receive buffers against frame sizes |
| `Rss` | indirection table, hash fields and key |
| `Configuration` | the four above put together, and what is demanded of them |
| `ConfigProofs` | their inductive invariants |
| `Offload` | what descriptors and socket buffers say of a packet |
| `SelfTest` | register test, register dump, link speed |
| `XArray` | the XArray of the compatibility layer |
| `Headers` | the compatibility layer's walks over packet headers |
| `Packets` | `Offload` and `Headers` put together |
| `MCTxRing`, `MCRxRing`, `MCMailbox`, `MCLifecycle`, `MCSession`, `MCRingMemory` | constants, symmetry and views for TLC |
| `MCUnits` | the thirteen units, from `Filters` to `Headers`, side by side |

### TxRing

Variables are the fields of `ixgbevf_ring` and `tx_buffer_info` (`ntu`, `ntc`, `ntw`,
`skb`, `len` for the unmap length), the descriptors (`dd`, `eop`, and `src`, the slot
whose mapping a descriptor reads), head and tail, the queue's stopped bit, the
carrier, and program counters for the running xmit (`xpc`), clean (`cpc`) and
down/up sequence (`apc`). `owner` says who must free a socket buffer; it is the
model's, not the driver's.

A step is the code between two accesses that another actor can tell apart. Xmit is
`XmitCall`, `XmitStop`, `XmitRecheck` (the stop protocol), `XmitBuild` (context
descriptor, or a failed offload), `XmitMap` or `XmitDmaError(k)` (all of the frame's
descriptors, or the first k and their undoing), `XmitWatch` (publication of
`next_to_watch`), `XmitStopCheck` ... `XmitTail`. Clean is `CleanStart`, one
`CleanPacket` per packet, `CleanDone`, `CleanHang`, then the three steps of the
wake-up. A frame's data is only its number of descriptors and how they are split
into DMA mappings. The hardware fetches a descriptor at a time and writes DD into
the last one of a packet; it can also hang.

`SleepOutlastsPoll` names an assumption of `ixgbevf_down`: its `usleep_range(10000,
20000)` is longer than a poll that was running when DOWN was set.

### RxRing

A page is two halves (4 KB pages). `pg`, `off`, `bias` are `rx_buffer_info`; `refs` is
`page_count`; `held` counts references outside the driver. `addr` and `wb` are the two
formats of a descriptor: a write-back erases the buffer address, as in the hardware.
A poll handles one buffer per step (`CleanFragment`, `CleanXdp`, `CleanBad`,
`CleanDeliver`); refilling is one step per descriptor because hardware and stack run
beside it and because an allocation may fail at each. `StackRelease` and `StackGet`
are the stack. Interrupt cause, mask and NAPI state are explicit, so that a lost
interrupt can be told from a late one. `Fates` are the ways a buffer can leave the poll
(attached, copied, XDP transmit, XDP drop); the last two need an XDP program, which is
attached or removed while the ring is down (`xdp`, chosen from `Progs`).

### TxQueue and its refinement

`TxQueue` has the frames accepted and not yet completed, for each of them those ahead of
it, and those sent; it accepts, sends, completes and, at a reset, flushes. A frame is sent
only when all ahead of it are, and completed when none is ahead. `TxRingQueue` maps the ring
to it: the frames are those of the slots with a `next_to_watch`, their order is that of the
slots as seen from where cleaning has got to, and a frame is sent when its last descriptor
has DD. Xmit's publication of `next_to_watch` is `Accept`, the hardware's write-back of an
end of packet `Send`, `CleanPacket` is `Complete`, and all other steps stutter. The run
`tx_life` checks `Queue!Spec` as a property, and `RingIsQueue` proves it.

### Mailbox

A message is a header and one payload word, written and read in separate steps.
Both carry the number of the request, which the drivers do not see. The variable
`mode`, fixed at the start, says three things. `legacy` chooses the operations used
before API 1.5 (release by the same register write, no wait for the acknowledgement,
reads under the lock bit) or the newer ones. `early` lets a wait give up at any moment;
without it, a wait gives up only when the other side will not answer any more. `pings`
lets the PF send control messages of its own accord. The bits the hardware clears on
reading are saved by the driver in `mbx.vf_mailbox`; one variable stands for both.
`Unlocked` is the set of callers that do not hold `mbx_lock`; the runs leave it empty (see
the observations in section 3). The PF's functions are in the same source file; when
the PF driver calls them is external. Both sides use the same generation of
operations here; the change-over is in `Session`.

`Exchange` is what is left when the buffer and the bits are taken away: one caller at a
time asks, the PF serves, the caller has its answer. If waits may be cut short or control
messages cross the exchange, it may fail, and an answer may come before service.
`MailboxExchange` maps the state of the holder of `mbx_lock` to the phase.

### Session

One exchange is one step here, with the outcomes `Exchange` allows: answered, refused,
lost, served without an answer, or crossed by a message of the PF. Two actors run:
the holder of rtnl (`seq`, with `kind` saying whether it is a restart, a queue reset or
an open) goes through `ixgbevf_down`, `ixgbe_reset_hw_vf`, the loop of
`ixgbevf_negotiate_api` (one version per step), the feature request, the upgrade of the
mailbox operations, `ixgbevf_configure_dcb` and `ixgbevf_up_complete`; the service task
(`svc`) looks at the link and sets the carrier. `word`, `unread` and `rst` are what is
left in the mailbox registers, because the link check reads them without an exchange:
a legacy reader may find the VF's own last request there. `dev` chooses the link check of
the older devices, that of E610, or Hyper-V, which has no mailbox. The PF restarts as any
version in `Tops`, and changes its link and its traffic classes.

### Lifecycle

Three callers run driver code: `"user"` (calls of the stack, under rtnl), `"pm"`
(callbacks of the PCI core, one at a time) and `"svc"` (the service task). `todo[c]` is
what a caller has still to do, a sequence of named steps; a function that calls another
puts the callee's steps in front, so `ixgbevf_reinit_locked` is `<<"resetting", "down",
"configure", "up_complete", "up_start", "reset_done">>`, and `"down"` becomes
`<<"quiesce", "del_timer", "reset">>` unless DOWN is set. Each step is an action,
interleaved with those of the other callers, with the timer, with the misc interrupt and
with the removal of the device. Variables are the bits of `adapter->state`, `hw_addr`,
the stack's `running`, `present` and `registered`, what is allocated (`vectors`,
`rings`, `irqs`), what is enabled (`napi`, `txOn`), the timer and the work item. `power`
is what the PCI core knows of the device and decides which callback may come next.

The device may go at any moment: `RemoveAdapter` clears `hw_addr`, as a register read that
fails does. An open may fail wherever its caller looks at the result. `Adverse` switches on
events that the driver counts on not to happen; TLC shows what each breaks:

| Event | What it is | In the run | Breaks, among others |
|---|---|---|---|
| `queue_reset` | the PF changes the number of queues, so that `ixgbevf_queue_reset_subtask` acts on bits it tested before it had rtnl (4641) | yes | `SuspendedIsDown`, then `ClosedIsFreed` |
| `stale_schedule` | the timer's callback schedules the work on bits it saw before `ixgbevf_remove` set REMOVING and cancelled it (140, 6163) | yes | `RemovedIsQuiet` |
| `late_attach` | rtnl is taken between the unlock and the attach of `ixgbevf_resume` (5448-5452) | no | `ClosedIsFreed`, `ActiveHasRings` |
| `reopen_fails` | an open fails whose result is ignored (4662, 5683, 6265) | no | `ActiveHasRings`, `RunningIsUp` |
| `slow_lock` | the service task has seen the device gone and still waits for rtnl when recovery is over (4261) | no | `RunningIsUp` |

The first two are lapses of the code as it stands, and the run `lc_life` meets both. What they
come to is recorded in the history variable `late`: `"rebuild"`, the queue reset gets rtnl when
the device has been detached or its interface unregistered, and goes on to open it; and
`"requeue"`, the work item is queued again while `ixgbevf_remove` is under way.
`SuspendedIsDown` and `RemovedIsQuiet` name these and nothing else as exceptions: an adapter
the PCI core has suspended is down and has given up its rings *unless* a rebuild is under way,
and a removed one has left no work item *unless* it was requeued. The model ends at a rebuild
(`Going`): nothing is claimed of an adapter opened behind the PCI core's back, and the
liveness properties speak of executions that do not come to one. The run leaves the other
three events out; it shows that the rest of the design holds and that these are what it
depends on.

### The units

`MCUnits` extends thirteen modules that share no state within a step of theirs, and
runs one at a time: the variable `part` says which, the others stay in an initial state.
Their state spaces add up instead of multiplying, and each keeps its own names.
(A module's `Init` is an operator of what TLC is to choose from, so that the choices are
made only for the part that runs.)

* **`Filters`**: two threads, one that holds rtnl and one of the stack under
  `netif_addr_lock`, go through `ixgbevf_set_rx_mode` step by step, one after the other
  under `mbx_lock`, and read lists that may have changed; a reset, which does not take
  `mbx_lock`, may come into their midst. `apart` is where PF and VF may
  differ because a request went wrong; the properties speak of the rest.
* **`QVector`**: `q_vector->state` as a set of its bits; NAPI, two sockets and
  `ixgbevf_napi_disable_all` lock and unlock it; the budget is divided among two rings.
* **`XdpRing`**: the receive poll that fills the ring and the poll of another vector that
  cleans it, the hardware, and the stages of going down.
* **`Stats`**: three parts. Counters of `Low` and `Wide` values stand for 32 and 36 bits;
  the high half is read after the low one and frames come in between. A writer and a
  reader of a ring's pair under `u64_stats_sync`. ethtool's lists: a name is what it is in
  `ixgbe_gstrings_stats`, and a value the set of counters it is the sum of, taken from where
  `ixgbevf_update_stats` and `ixgbevf_get_stats64` take it, a ring's words being the union
  they are in the code.
* **`Itr`**: the poll's test of the mode and its computation are two steps, and so are the
  two halves of `ixgbevf_set_coalesce`, so that they cross.
* **`QueueSetup`**: from `ixgbevf_set_num_queues` to `ixgbevf_configure_msix` and back,
  with fewer vectors than asked for and every failure: no vectors, no memory for one, and a
  handler refused to any of them (`RequestFails`). `strays` counts the vectors that nothing
  will free any more, `uncounted` those a refused handler took out of `num_q_vectors`.
* **`RingMemory`**: every allocation of open and of `ixgbevf_set_ringparam` is a step that
  may fail; traffic moves the cursors between them. `FreesOwn` is refuted by `ring_swap`.
* **`RxGeometry`**, **`Rss`**, **`Offload`**: the register and descriptor fields that the
  functions compute, with their widths, against what they are meant to say. On receive,
  `Offload` has the checksum bits only.
* **`SelfTest`**: the register tests one write or read at a time, with a stuck bit at any
  place or a removal at any access.
* **`XArray`**: `xas_*` as operators on an operation state `xas` and a `tree`, the advanced
  and the normal interface on top of them; an operation under `xa_lock` is one attempt,
  and running out of memory in it (at any allocation) another. A reader without the
  lock takes a step per slot. The reference definition is a function from indices to
  entries and marks that is updated beside the tree.
* **`Headers`**: a frame is chosen header by header, as the walk comes to it; `hend`, where the
  headers really end, is kept beside the walk of `eth_get_headlen`. The packets of the other
  walk are chosen whole, cut short or not.

## 3. Runs

| Run | Question | Result |
|---|---|---|
| `tx_data` | data path: frames of every size, every split into mappings, every error path; is a queue stopped for lack of descriptors woken by completions? | holds without batching |
| `tx_life` | link changes, hangs, timeouts and down/up, interleaved with xmit and clean at every step; is the ring a queue? | holds |
| `tx_live` | is a stopped queue restarted and a hung Tx unit found and reset, when the carrier comes and goes? | holds, thanks to the transmit timeout |
| `tx_batch` | is a stopped queue woken with batching (`netdev_xmit_more`)? | **violated** |
| `rx_ring` | page halves, references and frames under every order of reuse, release, refusal, XDP verdict and down/up | holds |
| `rx_live` | are filled buffers cleaned and starved rings refilled? | holds |
| `rx_unmap` | is a page that leaves the ring unmapped? | **violated** |
| `mb_modes` | one writer at a time in every mode; acknowledgements, replies and progress when no wait ends early; is it request and reply? | holds |
| `se_pf` | VF and PF of several versions, restarts, losses, crossings: do they agree, and does the VF come back? | holds |
| `lc_life` | user calls, PCI callbacks, service task, timer and removal in every order, with a PF that changes the number of queues and a timer that acts on old bits | holds, but for the two lapses named by `late` |
| `units` | the thirteen units, each with its faults and rivals | holds |
| `ring_swap` | does resizing free only what it owns? | **violated** |

The three violations are findings in `PROJECT.json`, each against a comment in the
code. `tx_batch` is a rare timing: after a frame that announces more, the ring is down to
its last descriptors and the stop check stops the queue; a clean that had tested for room
before wakes it between the recheck, which fails, and the test of `netif_xmit_stopped`, so
that the frame's tail is not written; the next frame finds no room, stops the queue and
returns NETDEV_TX_BUSY, without a tail write either, and no completion is due. In the
run every frame takes `DescNeeded` descriptors; in the code, where the check stops at fewer
than DESC_NEEDED free ones, a next frame of fewer will do if fewer yet are left.
`ring_swap` needs an allocation to fail, and `rx_unmap` happens on every run of the code it is
about.

A property that a run checks is often a conjunction of named parts, each with its own
comment in the module: `NothingLost` is `SkbOwnership` and `NoLeakedMapping`, `PagesAccounted`
is `BuffersOwned` and `RefsAccounted`, `GivenUp` is `SuspendedIsDown`, `ClosedIsFreed` and
`RemovedIsQuiet`, and so on. Type invariants are parts too, except that of `TxRing`. Those of
`units`:

| Property | What it says, by its parts |
|---|---|
| `FiltersHeld` | the PF filters by the stack's flags and lists when nobody is in `ixgbevf_set_rx_mode` (`FiltersMatch`); a reset brings back the VLANs, and no removed one (`VlansMatch`); both sides have the administrator's address after a restart (`MacFollows`); frames of the MTU pass (`FrameFits`) |
| `VectorInv`, `FramesPolled` | one context at a time cleans a vector, none after it is disabled (`VectorExclusive`); no WARN_ON (`NoWarning`); NAPI completes only below its budget (`WorkBelowBudget`); and, live, frames are polled in the end |
| `XdpInv` | the tail is written at the end of every poll (`XdpFlushed`); context first, then mapped pages (`XdpReads`); a page is in one slot and freed once (`XdpHolds`) |
| `StatsTrue` | counters grow by what came in, over any number of wraps (`CountersExact`); no torn pair (`RingPairWhole`); as many values as names, each from rings there are and the sum its name says, `tx_busy` and `tx_restart_queue` excepted, whose sums over receive rings it states (`StatsLayout`) |
| `ItrInv` | no division by a zero timeslice but by a poll that a setting has crossed (`SliceNotZero`); a setting holds (`SettingHolds`); smoothing approaches and does not stall (`RateFollows`) |
| `SetupWhole` (`QueueSetup`) | each queue on one vector (`QueuesCovered`); no register pair used twice (`RegsDistinct`); causes reach the vector that serves them (`CausesRouted`); a failed scheme or open leaves nothing, and a closed scheme nothing but exactly the vectors that a refused handler took out of `num_q_vectors` (`NothingLeft`) |
| `SetupWhole` (`RingMemory`) | the hardware's memory is allocated and one ring's (`MemoryHeld`); no leak (`NoRingLeak`); sizes are those reported, also after a failed resize (`SizesAgree`) |
| `RxConfigured` (`RxGeometry`) | no write past a buffer or over `skb_shared_info` (`BufferHolds`); XDP sees whole frames (`XdpWhole`); both also for the 82599 while the PF lets through no more than was asked (`FramesLimited`); the MTU is received (`MtuReceived`) |
| `RxConfigured` (`Rss`) | registers and ethtool's table agree and are even (`TableSpreads`); the hash fields are those of the flags from a setting up to the next reset, and the four fixed ones from then on (`HashProgrammed`); ethtool reports the last setting (`HashRoundTrip`); reports are whole (`TableReported`, `RxfhWhole`) |
| `PacketsDescribed` (`Offload`) | context descriptors describe the packet, but for segmented packets with more than 255 bytes of headers and tags that outgrow MACLEN (`OffloadDescribed`); each checksum and tag is done once (`OffloadOnce`); a checksum is trusted only if it was good (`ChecksumTrusted`) |
| `SelfTestTrue` | exactly the faulty adapters fail (`FaultFound`); registers are restored (`RegsGivenBack`); the dump is complete (`DumpExact`); the speed is right (`SpeedReported`) |
| `XaCorrect` | the tree is the map (`XaIsMap`); searches are exact (`XaFindExact`); the lowest free id is handed out (`XaAllocFree`); lock-free readers get a value of their time (`XaReadsTrue`) |
| `PacketsDescribed` (`Headers`) | no byte past `max_len` is read (`HeadlenWithin`); the copied part is the headers (`HeadlenExact`); SCTP is recognised (`SctpTold`) |

Every property of a passing run has a mutant: a plausible slip in one mapped
definition that makes TLC report this property. (The other parts of the conjunctions were
tried in the same way when they were written.) `RingInv` is checked in `tx_life`
and `HwReadsMapped`, which follows from it, in `tx_data`, so that each has such a slip.

### What the passing runs assume

TLC shows what breaks when one of these is dropped.

* With `SleepOutlastsPoll = FALSE` in `tx_life`, a poll that outlives the sleep of
  `ixgbevf_down` wakes the queue after `netif_tx_disable`, and `XmitExcluded` fails.
* With the newer operations and control messages, the acknowledgement of a crossing
  message is taken for that of the request; this is why `AckMeansTaken` and
  `RequestAnswered` speak of modes without `pings`, and `ReplyMatches` of `pings` with the
  legacy operations only. With `early` timeouts a late reply is taken for that of the
  next request.
* With a caller in `Unlocked`, two writers meet in the buffer: `ixgbevf_main.c` 3124 and
  `ixgbe_vf.c` 186 are reached without `mbx_lock`.
* Three of `Lifecycle`'s `Adverse` events (section 2); the other two happen in the run.
* Properties of the units that except a case say so in their comment and name the line.

### Observations

Oddities met on the way that have no run of their own. Most are what a property had to
except; none is claimed to matter in practice.

* **Tx.** The error paths of xmit (5037, 5165) do not write the tail of a batch that they
  end. Segmented packets with headers above 255 bytes overflow the `u8 hdr_len`
  (`Offload`). A tag pushed after `ixgbevf_features_check` can outgrow MACLEN.
* **Rx.** The test that is to prune reflected multicasts (1646-1655) reads
  `skb->pkt_type` before `eth_type_trans` sets it, and so never holds. The 82599 has no
  RLPML, so that only the PF keeps it within a buffer (`RxGeometry`).
* **Session.** A failed feature request leaves the old `pf_features` (3048-3054); a queue
  reset whose request was dropped is not repeated, though the comment at 2987 counts on
  it; an E610 with API below 1.6 keeps the error and ignores a link that goes down;
  `get_link_status` set by an interrupt can be lost to the link check that clears it; a
  crossing ping makes `ixgbevf_get_link_state` read 0; a legacy reader may take its own
  last request for a message; `ixgbevf_configure` does not look at the result of
  `ixgbevf_configure_dcb`.
* **Filters.** The length of the multicast list is read before `mbx_lock` is taken and may
  be out of date; a reset without an answer leaves the version at 1.0, so that the receive
  mode, which the PF has forgotten, is not sent; `ixgbevf_vlan_rx_kill_vid` forgets the VLAN
  also when the PF refuses; the Hyper-V frame limit is or-ed into what the register held.
* **Itr.** `ixgbevf_set_coalesce` crossing a poll can lead to a division by zero (1991),
  or have its setting overwritten by that poll.
* **Queues.** With fewer transmit queues than receive queues a receive queue may be left
  without an XDP ring. A failed `request_irq` sets `num_q_vectors` to 0 (2158), so that
  `ixgbevf_free_q_vectors` frees none: the scheme's vectors, rings and NAPI instances are
  lost, which `NothingLeft` counts. The comment there (2148-2157) says that only reloading
  the driver brings the vectors back, but any rebuilt scheme does (queue reset, XDP setup,
  resume).
* **Memory.** A failed `xdp_rxq_info_reg` (4426) loses the descriptors; the error path of
  open frees before it resets (4577); a resize loses what the rings counted while it ran.
  `set_priv_flags` changes buffers under an attached XDP program; the size check of
  `ixgbevf_xdp_setup` applies to detaching too.
* **Statistics.** `ixgbevf_update_stats` (4052-4057) sums `restart_queue` and `tx_busy` over
  `rx_ring[]`, whose `rx_stats` share a union with `tx_stats`: ethtool's `tx_restart_queue`
  and `tx_busy` show receive pages and buffers that could not be had, and the transmit rings'
  counters are shown nowhere. The multicast counter can come out below its baseline.
* **Rss, registers.** A reset drops the UDP hash bits that the flags, and ethtool, keep, and
  setting again what the flags have does not bring them back;
  `ixgbe_virt_clr_reg` clears seven queues' registers.
* **Compatibility layer.** A cyclic allocation can report a wrap that did not happen
  after running out of memory; a failed store leaves empty nodes. The guards of
  `eth_get_headlen` underflow for a `max_len` of 14 to 19, which the driver never passes.
  Nothing in this driver stores into an XArray; the two hazards of `XArray` are those of the
  carried library.

### Bounds, and why they are enough

* **Rings** have 3 to 6 descriptors. What matters is that frames of every size wrap at
  every slot, that the ring gets full, and that stop and wake thresholds differ; all of
  this happens at 5. `DESC_NEEDED`, the gap of 3 and the wake threshold are constants,
  scaled with the ring; `SizeAssumption` keeps their relations. In the code a ring of
  64 descriptors (the minimum) with `MAX_SKB_FRAGS` configured above 28 would break
  it: such a queue could stop and never reach the wake threshold.
* **Socket buffers** (2, and 3 in `tx_batch`: two on the ring and one refused) are
  interchangeable (symmetry where only safety is checked), so are **pages** (2-3). A frame is
  at most `MaxData` data descriptors on Tx (2 in `tx_data`, which has every split and every
  error path, 1 in the other runs, whose question is one of timing), `MaxBufs` buffers on Rx
  (2, and 1 in `rx_live`). A mapping that fails in the middle of a frame happens in `tx_data`.
* **Batching** (`Mores`) is in `tx_batch` only.
* **`BiasMax`** stands for `USHRT_MAX` and is 2 (1 in `rx_live`), so that `pagecnt_bias` runs
  out and is restocked; `MaxHold` bounds the references the stack takes to a buffer.
* **`Write`** (`IXGBEVF_RX_BUFFER_WRITE`, 16) is 1 or 2, so that refills are both partial
  and batched.
* **Requests** (`MaxReq`, 3): an abandoned request, the next one, and one more.
* **`Lifecycle`** has no bounds: one adapter with its three callers is finite.
* **`Session`**: three kinds of device; PF drivers that speak API 1.7, 1.5 and 1.1, that is
  with features, with the newer mailbox operations only, and with neither; `MaxEvents`
  (2) disturbances in a run that itself has no end, so that one can meet the recovery
  from another.
* **Units.** Sizes that matter for the arithmetic are the real ones: buffer and frame
  sizes, the MTUs on both sides of every limit (`Mtus`), widths of descriptor fields with
  values at and past them (`MacLens`, `NetLens`, `Doffs`), rates, the header buffer of 256
  bytes. Others are scaled: counters of 4 and 8 values wrap several times in `MaxCount`
  frames; `RetaSize` 8 for 64 spreads 1, 2 and 4 queues; `XaShift` 1 for 6 gives the XArray
  nodes of 2 slots and up to 3 levels, so that three operations (`MaxXaOps`) make it grow,
  shrink and run out of memory half-way; rings of 2 or 4 descriptors are resized twice. A
  scheme is built twice (`MaxSchemes`), so that one is built on what the one before it left.
  `Usecs` are the two settings at the end of EITR's width, beside 0 and 1, which stand for no
  throttling and dynamic mode. A stuck bit is the lowest or the highest one of a register.
  `Payload` and `Mss` give three segments of which the last is short; `WalkLens` cut a packet
  inside each kind of header.
  2 sockets and 2 rings share a vector with budgets below and above the number of rings.
  One failing request (`MaxFaults`) meets two changes (`MaxChanges`).
* `VIEW` in the MC modules hides fields that are dead (a program counter is idle), and
  nothing a property reads. That of `RxRing` also takes states for the same that differ in
  which half of a page is called the first: the halves are alike in the code and in every
  property, as pages are.

### Fairness

* A call that has entered the driver runs to its end: weak fairness of xmit's steps,
  of clean, of the poll, of each mailbox caller and of the PF.
* Hardware that is not hung fetches what the tail tells it of (weak).
* NAPI polls again as long as interrupts are raised; `TxRing` takes this as fairness of
  `Clean`, justified by `RxRing`, where interrupts are explicit and the service task's
  strobe (`ixgbevf_check_hang_subtask`, every 2 s) makes up for a lost one.
* The service timer re-arms itself, so reset, hang check and strobe recur (weak). The
  stack's transmit watchdog recurs (weak). `netif_tx_disable` gets the Tx lock although
  xmit takes it again and again (strong: a ticket or queued spinlock).
* In `Lifecycle` every caller runs on, the work queue runs what is queued, and a timer
  that is set fires and its callback finishes (weak; one condition for each context, since it
  does one thing after another). rtnl is a mutex that hands over to those who wait (strong
  for the PCI core and the service task; the stack's own calls come with it), and
  `timer_delete_sync` finds the timer between two callbacks 2 s apart (strong; only one caller
  can be there at a time). No fairness is assumed of user calls, PCI callbacks, interrupts or
  removal.
* In `Session` the holder of rtnl and the service task run on, the timer fires, ten
  seconds pass, and the misc interrupt is delivered (all weak). Nothing is assumed of the
  PF: the properties speak of the time it is there.
* In `QVector` interrupts are delivered, polls and the service task's strobe run, and who
  has begun to busy-poll or to take the adapter down goes on (weak). Nobody has to begin.
* The stack drops its references to pages, and page allocation succeeds again after
  finitely many failures (`rx_live` only).

Runs that check only invariants use no fairness.

`units` and `ring_swap` run without TLC's deadlock check, because a unit stops when its
bounds are used up or its walk is over.

## 4. Proofs

`tlapm` checks these for every value of the constants that satisfies the named
assumptions.

| Theorem | Statement |
|---|---|
| `TxRingProofs!TypeCorrect` | `Spec => []TypeOK` |
| `TxRingProofs!RingCorrect` | `Spec => []RingInv`, if `SleepOutlastsPoll` |
| `TxRingProofs!ReadsMapped` | `Spec => []HwReadsMapped`, if `SleepOutlastsPoll` |
| `TxRingProofs!XmitKeptOut` | `Spec => []XmitExcluded`, if `SleepOutlastsPoll` |
| `TxRingProofs!PendingUntouched` | `Spec => PendingStable`, if `SleepOutlastsPoll` |
| `TxRingQueueProofs!NoneLost` | `Spec => []NothingLost`, if `SleepOutlastsPoll` |
| `TxRingQueueProofs!RingIsQueue` | `Spec => ImplementsQueue`, if `SleepOutlastsPoll` |
| `RxRingProofs!RingOrdered` | `Spec => []RingInv` |
| `RxRingProofs!HalvesNeverShared` | `Spec => []HalvesExclusive` |
| `RxRingProofs!NoPageLost` | `Spec => []PagesAccounted` |
| `RxRingProofs!FramesAreWhole` | `Spec => []FramesWhole` |
| `MailboxProofs!BufferLocked` | `Spec => []BufferExclusive`, if `Unlocked = {}` |
| `MailboxProofs!RepliesAreOwn` | `Spec => []AnswersMatch`, if `Unlocked = {}` |
| `MailboxProofs!MailboxIsExchange` | `Spec => ImplementsExchange`, if `Unlocked = {}` |
| `SessionProofs!VersionsAgree` | `Spec => []SessionInv` |
| `FiltersProofs!PfHoldsTheFilters` | `FiltersSpec => []FiltersHeld` |
| `UnitProofs!VectorCorrect` | `QVectorSpec => []VectorInv` |
| `UnitProofs!RateCorrect` | `ItrSpec => []ItrInv` |
| `UnitProofs!CountedExactly` | `StatsSpec => []StatsTrue` |
| `UnitProofs!XdpSentAndFreedOnce` | `XdpSpec => []XdpInv` |
| `UnitProofs!PacketsAreDescribed` | `OffloadSpec /\ HeadersSpec => []PacketsDescribed` |
| `UnitProofs!SelfTestTells` | `SelfTestSpec => []SelfTestTrue` |
| `ConfigProofs!SetUpWhole` | `QueueSpec /\ RingMemorySpec => []SetupWhole`, if `PfGivesQueues` |
| `ConfigProofs!ReceiveConfigured` | `RxGeometrySpec /\ RssSpec => []RxConfigured` |

The assumptions of the Tx theorems and of the mailbox theorems are needed: see section 3.
`PfGivesQueues` says that a PF gives neither one transmit queue nor three. The ixgbe PF gives
2, 4 or 8; with one, or with three and an XDP program, `RegsDistinct` fails, for the driver
sets up its two queues without comparing them with what it was given.
The others use only the ASSUMEs of their modules, which say that sizes are positive
numbers, that a refill threshold is less than the ring, and that NULL is not one of the
things it is told from. Every inductive invariant below was checked by TLC on the
instances of section 3 before it was proved.

**The Tx ring.** That the hardware reads only mapped buffers is not
inductive: it rests on where the packets are. `RingInv` says that, going round the
ring from where cleaning has got to, head, tail, end of packets and `next_to_use`
come in this order (`CursorOrder`); that `next_to_watch` chains whole packets that do
not overlap (`Framing`); that no completion bit is set where cleaning could mistake it
for news (`NoStaleDone`), which is why descriptor memory that survives a reset does no
harm; that the room tested at the start of xmit is still there (`Reserved`); that each
descriptor's mapping is recorded in its own packet, before it (`Mapped`), so that
cleaning an earlier packet cannot take it away; and that the down/up sequence is alone
when it empties the ring (`Quiesced`). Positions are compared by `Dist`, the number of
steps from one slot to another; the lemmas of `TxRingProofs` state how it changes when
a cursor moves, and all later proofs leave it unexpanded. There is one lemma per action
and conjunct.

**Nothing lost, and the queue.** `LossInv`, next to `RingInv`, says whose each socket
buffer is (`Owned`), and that the packets are linked: each but the first starts right
after the end of another (`Chained`). The walk of `ixgbevf_clean_tx_ring` goes from the end
of one packet to the next slot, so without `Chained` it could stop short of a packet and
leak it. The refinement needs no invariant beyond these: since packets do not overlap, the
packet cleaning is at is ahead of every other, and since completion bits are set in
order, the write-back of an end of packet finds all earlier ones sent.

**The Rx ring.** None of the four properties is inductive alone, and they need each other.
`RxIInv` restates them as distances from `next_to_clean` (`Cursors`) and slot by slot
(`On(i)`: slot i holds a buffer), and adds what the code relies on without testing it:

* `Counted`: page by page, `page_count` is `pagecnt_bias` of the one slot that has the page
  plus `Users`, the references of the stack and of the frame in progress. It makes the
  test of `ixgbevf_can_reuse_rx_page` sufficient: `page_count - pagecnt_bias` of at most one
  means that after the half just given away nobody has the other half.
* `Filled`: a descriptor between head and next_to_use still has the address of its slot's
  buffer, because reuse writes slots from next_to_alloc on only.
* `Whole`: a frame not yet begun refers to nothing, and with an XDP program every frame is
  one buffer, so that a verdict on the first is a verdict on all of it. Without it the
  accounting breaks at XDP_TX.
* `DownInv`: a ring that is down has no frame in progress and no hardware on it.

Steps that take a buffer off the ring share three lemmas: `CleanMoves` (the cursors),
`PutStep` (pages and halves, given that what others hold changes by what the ring gives
away: `Balanced`, `OnlyGiven`) and `CleanFrame` (the descriptors); the four actions only
show where the reference went.

**The mailbox.** `LockInv`: a call is in progress only under
`mbx_lock`, the buffer is touched only under one's own bit, and the hardware never lets
both bits be set. It is preserved at every timeout because a wait never gives up
while it holds a bit. For the answers, `NumberInv` and `PayloadInv` say which request each
word in the buffer, in flight or in a caller's hands belongs to, `PingInv` where a control
message may be, and `PatientInv`, for modes without early timeouts, that an exchange is in
one of its stages (asked, taken and wiped, replying, replied, reading) and what the bits
and the buffer are in each. The refinement maps the stages to the phases of `Exchange`.

**The session.** `AgreeInv`: a PF that is down has forgotten the VF, VF_RESET is sent by an
adapter that is stopped, and until a version is negotiated the VF speaks 1.0.

**The filters.** `FiltersHeld` speaks of moments when nobody is in `ixgbevf_set_rx_mode`;
`FiltersIInv` says how they come about. For each of receive mode, multicast and unicast list:
either somebody is still before the place where it is sent (`Awaited`), or the PF has it
(`ModeInv`, `McInv`, and `UcInv` for a walk that is half-way), or it is known to be `apart`.
That a walk under rtnl may use a list that changes below it does no harm because the change
itself makes the other context await; that flags read before a change are sent after it,
because rtnl then waits for that context (`PlaceInv`). `MacInv` includes perm_addr, the
address a refusal falls back to: it equals the PF's because `ixgbe_init_hw_vf` takes over
what the PF's answer to the reset tells.

**The vector.** `VectorIInv`: the ownership word says who cleans, a disabled vector is
owned by nobody, and no ring that was finished used up its share, so
that the sum over the rings stays below the budget (`ShareInv`).

**The XDP ring.** `XdpIInv` follows the Tx ring with one difference that decides the proof:
every packet is one descriptor, except that the first one after a configuration brings the
context descriptor with it, in slots 0 and 1 (`FirstPacket`). `OrderInv` puts the cursors in
order round the ring; `PacketInv` says that between cleaning and next_to_use every slot
starts a packet, save slot 1 of the first one; `DoneInv` that what the hardware has not read
is not reported as done; `ContextInv` that the context is on the ring exactly as long as
the hardware has not seen it; `PageInv` that a packet holds its page alone, mapped and in its
descriptor; `HandInv` that the packet being written is in free slots. The flush on the way
down is safe only because NAPI is off by then (`XdpAdmInv`).

**The throttling.** `ItrIInv`: in dynamic mode, unless a setting has crossed a poll, the rate
stays within 39 and 336, because each step of the smoothing lies between the old rate and
the class's, less one for the division. From this the divisor of `ixgbevf_update_itr` is
positive. The bounds of the quotient are a lemma of its own, for all positive rates.

**The counters.** What an update must get right is what the driver's sum has above the width
of the register. `RightAt` says it without counting wraps: the sum above the width (`Above`)
is what earlier lives of the adapter have carried over plus the frames since it came up, up to
the last read. `ExtendedRight` shows that one more read keeps this if fewer frames than a
register holds came in between; that they do is a guard of `Count`, in place of the service
task's period. `PairIInv` is the sequence count: even between updates, and a reader
that finds it as it was has read between two of them. ethtool's lists need no induction:
entry j of a queue's part is given by the quotient and the remainder of j, so that the proof
is of lengths, of one entry at a time and of where one part of a list ends; which
counters a value is the sum of follows from the fields, tx_busy and tx_restart_queue as
the code has them.

**Queues and vectors.** `QueueIInv` follows `ixgbevf_alloc_q_vectors` vector by vector: what is
left and what is given out add up to the number of queues (`BuildCounts`), the vectors have
consecutive shares (`BuildVectors`), and the register indices given out are the first ones
(`BuildRegs`). It holds of a scheme that is being built or stands; `StrayInv` is what is left
of one whose handler was refused, and says that what leaves the count is what will be lost.

**Ring memory.** `MemIInv`: every block of memory has one owner (`Owned`), for each stage of
open, close and resizing which rings have memory and what the hardware was told (`MemPhase`),
and the sizes (`SizesRight`).

**Receive configuration.** `GeoIInv`: while the interface is up, buffers and RLPML are those
computed from the MTU and the flag of this moment (`ConfiguredFor`), because every change
goes through `ixgbevf_configure_rx`. `RssIInv` has the packed table entry by entry
(`TableIs`), with the arithmetic of bytes in lemmas of its own.

**Packets.** `OffloadIInv` says of each stage what the packet may be: what
`ixgbevf_features_check` has left of the features decides which lengths reach xmit.
`HeadIInv` keeps the walk of `eth_get_headlen` within the buffer: no header but the last is
begun past it. `FindIInv` ties the offset of `ipv6_find_hdr` to the header it is at
(`StartOf`), so that a chain cut short is told from one that ends.

**The self-test.** `SelfIInv`: a test under way has seen no fault that would fail it
(`Unpassed`, `Verdict`), and, as long as the device is there, a register not under test holds
its own value (`KeptRegs`; queue control and tails are written by the test itself).

**Only model-checked:** the liveness properties (fairness and ENABLED are out of the
prover's reach); all of `Lifecycle`; `XaCorrect`, because `XArray` walks its tree with RECURSIVE
operators, which the prover cannot load (no module with a theorem reaches it, and what a walk
over data computes for every input needs an induction that is out of its reach). The two
properties `MappingsOnRing` and `FreesOwn` and the batched wake-up do not hold. The constants
of `Lifecycle` are a set of five events and a null value, nothing that could grow: its
exhaustive run covers every adapter that meets at most the two events of the run.

## 5. Not modelled

* **Registers and types.** `ixgbe_type*.h`, `ixgbe_defines.h` and most of the other headers are
  tables of offsets and bits; the models use what the code does with them.
* **kcompat.** Declarations, one-line wrappers and fallbacks for kernel interfaces, chosen by
  the preprocessor; `kcompat_packing.c` and other backports that this driver never calls.
  Of the XArray: multi-index entries (`CONFIG_XARRAY_MULTI` is off wherever the file is
  compiled), `xa_dump`, the count of value entries, the wrap at `ULONG_MAX`.
* **ethtool.** Strings, driver information, message level, EEPROM stubs, the offload
  switches of old kernels: reports and single assignments.
* **Mailbox.** Functions that only a PF driver calls (`ixgbe_check_for_rst_pf`,
  `ixgbe_clear_mbx_pf`, parameter tables), size limits, the batching of log lines.
* **Details.** The hash of multicast addresses (`ixgbe_mta_vector`); pages larger than 4 KB;
  the retries on dead reads; a failing `pci_save_state`; timestamps.
* **Memory ordering** is taken as program order wherever the code has its barriers.

Parts listed as partly modelled in `PROJECT.json` carry their reason there.

## 6. Plan

Done: `TxRing` with its proofs and its refinement of `TxQueue`, `RxRing` with its proofs,
`Mailbox` with its proofs and its refinement of `Exchange`, `Session`, `Filters`, the other units
and their compositions `Configuration` and `Packets` with theirs, `Lifecycle` and `XArray` with
TLC.

What is left for the prover: the safety properties of `Lifecycle`. Its callers and constants
are fixed and few, so a proof would not say more than the exhaustive run, except of why the
properties hold, and of which adverse events each of them survives.
