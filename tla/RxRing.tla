------------------------------- MODULE RxRing -------------------------------
(***************************************************************************)
(* One receive descriptor ring of the VF driver (src/ixgbevf_main.c), on a *)
(* machine with 4 KB pages: a page is two buffers.                         *)
(*                                                                         *)
(* ixgbevf_clean_rx_irq passes half a page to the stack and, when nobody   *)
(* else uses the page, puts the other half back on the ring.  Who uses it  *)
(* is read off page_count, of which the driver holds pagecnt_bias.  The    *)
(* actors are the poll (NAPI), the hardware, the stack that drops its      *)
(* references when it likes, the service task's interrupt strobe, and the  *)
(* down/up sequence under rtnl.  Nothing but the tail register and the     *)
(* page counts is shared while the poll handles one buffer, so that is one *)
(* step; refilling the ring is one step per descriptor.                    *)
(***************************************************************************)
EXTENDS Integers

CONSTANTS
  Count,      \* ring->count
  Pages,      \* the pages dev_alloc_pages can return
  Write,      \* IXGBEVF_RX_BUFFER_WRITE: refill when this many are clean
  Budget,     \* NAPI budget of one poll
  BiasMax,    \* USHRT_MAX: references taken at once on a page that is reused
  MaxHold,    \* bound: references the stack takes to one buffer
  MaxBufs,    \* most buffers one frame needs
  Fates,      \* what can become of a buffer that starts a frame
  Progs,      \* whether an XDP program can be attached
  None        \* the NULL pointer

Slot == 0 .. Count - 1
Half == {0, 1}

ASSUME CountAssumption == Count \in Nat /\ Count > 1
ASSUME BoundAssumption ==
  /\ Write \in 1 .. Count - 1 /\ Budget \in Nat \ {0} /\ BiasMax \in Nat \ {0}
  /\ MaxHold \in Nat \ {0} /\ MaxBufs \in Nat \ {0}
\* "frag": attached to the skb; "copy": short, copied; "tx", "drop": XDP verdicts.
ASSUME FateAssumption ==
  /\ "frag" \in Fates /\ Fates \subseteq {"frag", "copy", "tx", "drop"}
  /\ Progs \subseteq BOOLEAN /\ Progs # {}
\* NULL is not a page, not a buffer, and not the length of one
ASSUME NoneAssumption ==
  /\ None \notin Pages /\ None \notin Pages \X Half
  /\ None \notin [part : 1 .. MaxBufs, eop : BOOLEAN]

VARIABLES
  ntc, ntu, nta,    \* next_to_clean, next_to_use, next_to_alloc
  pg, off, bias,    \* rx_buffer_info: page, page_offset (a half), pagecnt_bias
  addr,             \* descriptors, read format: the buffer the hardware fills
  wb,               \* descriptors, write-back format; None when the length is 0
  rskb,             \* rx_ring->skb, the frame a poll left incomplete
  refs,             \* page_count
  held,             \* references to each half of a page outside the driver
  mapped,           \* pages with a DMA mapping
  head, tail, hwOn, \* VFRDH, VFRDT, the queue is enabled
  hpart,            \* buffers of the current frame the hardware has written
  cause, masked,    \* the vector's interrupt cause is set; it is masked
  napi,             \* NAPI: "idle", "sched" or "off" (disabled)
  cpc, cskb, ccnt, cpk,  \* the poll: its skb, cleaned_count, total_rx_packets
  ai, acnt,         \* ixgbevf_alloc_rx_buffers: i, cleaned_count
  down, xdp, apc    \* __IXGBEVF_DOWN, xdp_prog is set, the down/up sequence

bufVars == <<pg, off, bias>>
descVars == <<addr, wb>>
pageVars == <<refs, held, mapped>>
hwVars == <<head, tail, hwOn, hpart>>
irqVars == <<cause, masked>>
pollVars == <<cpc, cskb, ccnt, cpk>>
allocVars == <<ai, acnt>>
admVars == <<down, xdp, apc>>
vars == <<ntc, ntu, nta, bufVars, descVars, rskb, pageVars, hwVars, irqVars, napi,
          pollVars, allocVars, admVars>>

-----------------------------------------------------------------------------
\* ntc++, i++ and nta++ all wrap at ring->count
Nxt(i) == IF i + 1 = Count THEN 0 ELSE i + 1

\* how many steps lead from a to b, and the slots from a up to, not including, b
Dist(a, b) == IF b >= a THEN b - a ELSE b - a + Count
Between(a, b) == {j \in Slot : Dist(a, j) < Dist(a, b)}

\* ixgbevf_desc_unused
DescUnused == (IF ntc > ntu THEN 0 ELSE Count) + ntc - ntu - 1

\* A frame being put together: how many buffers went into it, and which of them
\* it refers to.
NoSkb == [parts |-> 0, frags |-> {}]

\* references of a frame to a page
FragRefs(s, p) == (IF <<p, 0>> \in s.frags THEN 1 ELSE 0) + (IF <<p, 1>> \in s.frags THEN 1 ELSE 0)

Init ==
  /\ ntc = 0 /\ ntu = 0 /\ nta = 0
  /\ pg = [i \in Slot |-> None] /\ off = [i \in Slot |-> 0] /\ bias = [i \in Slot |-> 0]
  /\ addr = [i \in Slot |-> None] /\ wb = [i \in Slot |-> None]
  /\ rskb = NoSkb
  /\ refs = [p \in Pages |-> 0] /\ held = [b \in Pages \X Half |-> 0] /\ mapped = {}
  /\ head = 0 /\ tail = 0 /\ hwOn = FALSE /\ hpart = 0
  /\ cause = FALSE /\ masked = TRUE /\ napi = "off"
  /\ cpc = "idle" /\ cskb = NoSkb /\ ccnt = 0 /\ cpk = 0
  /\ ai = 0 /\ acnt = 0
  /\ down = TRUE /\ xdp = FALSE /\ apc = "down"

-----------------------------------------------------------------------------
(* The hardware, and the interrupt it raises.                              *)

\* Fill the buffer at the head and write its descriptor back, which erases the
\* buffer address.  ixgbevf_xdp_setup refuses a program unless every frame fits one
\* buffer.
HwWriteBack(eop) ==
  /\ hwOn /\ head # tail
  /\ eop \/ (~xdp /\ hpart + 1 < MaxBufs)
  /\ wb' = [wb EXCEPT ![head] = [part |-> hpart + 1, eop |-> eop]]
  /\ addr' = [addr EXCEPT ![head] = None]
  /\ head' = Nxt(head)
  /\ hpart' = IF eop THEN 0 ELSE hpart + 1
  /\ cause' = TRUE
  /\ UNCHANGED <<ntc, ntu, nta, bufVars, rskb, pageVars, tail, hwOn, masked, napi,
                 pollVars, allocVars, admVars>>

\* ixgbevf_msix_clean_rings: the hardware has cleared and masked the cause;
\* napi_schedule does nothing while NAPI is disabled.
Irq ==
  /\ cause /\ ~masked
  /\ cause' = FALSE /\ masked' = TRUE
  /\ napi' = IF napi = "idle" THEN "sched" ELSE napi
  /\ UNCHANGED <<ntc, ntu, nta, bufVars, descVars, rskb, pageVars, hwVars, pollVars,
                 allocVars, admVars>>

\* Mutant: the strobe is skipped.
NoStrobe == FALSE /\ UNCHANGED vars

\* ixgbevf_check_hang_subtask: a software interrupt on every vector.
ServiceStrobe ==
  /\ ~down
  /\ cause' = TRUE
  /\ UNCHANGED <<ntc, ntu, nta, bufVars, descVars, rskb, pageVars, hwVars, masked, napi,
                 pollVars, allocVars, admVars>>

-----------------------------------------------------------------------------
(* The stack.                                                              *)

\* A delivered skb is freed, or a transmitted XDP frame completes.
StackRelease(p, h) ==
  /\ held[<<p, h>>] > 0
  /\ held' = [held EXCEPT ![<<p, h>>] = @ - 1]
  /\ refs' = [refs EXCEPT ![p] = @ - 1]
  /\ UNCHANGED <<ntc, ntu, nta, bufVars, descVars, rskb, mapped, hwVars, irqVars, napi,
                 pollVars, allocVars, admVars>>

\* Somebody else takes a reference to a delivered buffer.
StackGet(p, h) ==
  /\ held[<<p, h>>] \in 1 .. MaxHold - 1
  /\ held' = [held EXCEPT ![<<p, h>>] = @ + 1]
  /\ refs' = [refs EXCEPT ![p] = @ + 1]
  /\ UNCHANGED <<ntc, ntu, nta, bufVars, descVars, rskb, mapped, hwVars, irqVars, napi,
                 pollVars, allocVars, admVars>>

-----------------------------------------------------------------------------
(* ixgbevf_alloc_rx_buffers, called from the poll and from configure.      *)

Allocating == cpc = "alloc" \/ apc = "alloc"

\* rx_desc->wb.upper.length = 0 in the descriptor that will be next_to_use
WbCleared(i) == [wb EXCEPT ![i] = None]

\* "Refresh the desc even if pkt_addr didn't change"
AddrRefreshed(i, buf) == [addr EXCEPT ![i] = buf]

\* One descriptor gets the page its slot has, or a new one mapped for the device.
AllocSlot ==
  /\ Allocating /\ acnt > 0
  /\ \/ pg[ai] # None /\ UNCHANGED <<bufVars, pageVars>>
     \/ /\ pg[ai] = None
        /\ \E p \in Pages :
             /\ refs[p] = 0
             /\ refs' = [refs EXCEPT ![p] = 1]
             /\ mapped' = mapped \cup {p}
             /\ pg' = [pg EXCEPT ![ai] = p]
        /\ off' = [off EXCEPT ![ai] = 0] /\ bias' = [bias EXCEPT ![ai] = 1]
        /\ UNCHANGED held
  /\ addr' = AddrRefreshed(ai, <<pg'[ai], off'[ai]>>)
  /\ wb' = WbCleared(Nxt(ai))
  /\ ai' = Nxt(ai) /\ acnt' = acnt - 1
  /\ UNCHANGED <<ntc, ntu, nta, rskb, hwVars, irqVars, napi, pollVars, admVars>>

\* The caller goes on: the poll has nothing left to return, configure is done.
AllocReturn ==
  /\ cpc' = IF cpc = "alloc" THEN "loop" ELSE cpc
  /\ ccnt' = IF cpc = "alloc" THEN 0 ELSE ccnt
  /\ apc' = IF apc = "alloc" THEN "configured" ELSE apc

\* All done, or a page or its mapping could not be had: publish what was filled.
AllocDone ==
  /\ Allocating
  /\ acnt = 0 \/ pg[ai] = None
  /\ IF ai # ntu THEN ntu' = ai /\ nta' = ai /\ tail' = ai
                 ELSE UNCHANGED <<ntu, nta, tail>>
  /\ acnt' = 0
  /\ AllocReturn
  /\ UNCHANGED <<ntc, bufVars, descVars, rskb, pageVars, head, hwOn, hpart, irqVars,
                 napi, cskb, cpk, ai, down, xdp>>

-----------------------------------------------------------------------------
(* ixgbevf_poll and ixgbevf_clean_rx_irq.                                  *)

PollStart ==
  /\ napi = "sched" /\ cpc = "idle"
  /\ cpc' = "loop"
  /\ ccnt' = DescUnused /\ cskb' = rskb /\ cpk' = 0
  /\ UNCHANGED <<ntc, ntu, nta, bufVars, descVars, rskb, pageVars, hwVars, irqVars, napi,
                 allocVars, admVars>>

\* The test at the top of the loop, and ixgbevf_alloc_rx_buffers(rx_ring, cleaned_count).
CleanRefill ==
  /\ cpc = "loop" /\ cpk < Budget /\ ccnt >= Write
  /\ cpc' = "alloc" /\ ai' = ntu /\ acnt' = ccnt
  /\ UNCHANGED <<ntc, ntu, nta, bufVars, descVars, rskb, pageVars, hwVars, irqVars, napi,
                 cskb, ccnt, cpk, admVars>>

\* a descriptor with a length is there to be cleaned
Ready == cpc = "loop" /\ cpk < Budget /\ ccnt < Write /\ wb[ntc] # None

\* What the poll does with the buffer.  XDP may decide about the first of a frame;
\* a frame of one buffer may be short enough to be copied; the others are attached.
FatesNow ==
  {f \in Fates : /\ f \in {"tx", "drop"} => xdp /\ cskb.parts = 0
                 /\ f = "copy" => cskb.parts = 0 /\ wb[ntc].eop}

\* Mutant: XDP_TX does not flip the page.
OffLeftTx(fate) == IF fate = "frag" THEN 1 - off[ntc] ELSE off[ntc]

\* The reference taken by ixgbevf_get_rx_buffer goes with the buffer, and the ring
\* keeps the other half, unless the data was copied or dropped (pagecnt_bias++).
GivenAway(fate) == fate \in {"frag", "tx"}
BiasLeft(fate) == IF GivenAway(fate) THEN bias[ntc] - 1 ELSE bias[ntc]
OffLeft(fate) == IF GivenAway(fate) THEN 1 - off[ntc] ELSE off[ntc]

\* ixgbevf_can_reuse_rx_page: not a remote or emergency page, at most one other user
CanReuse(fate, reserved) == ~reserved /\ refs[pg[ntc]] - BiasLeft(fate) <= 1

\* Restock an exhausted bias, or drain what the driver holds.
RefsPut(fate, reserved) ==
  [refs EXCEPT ![pg[ntc]] =
     IF ~CanReuse(fate, reserved) THEN @ - BiasLeft(fate)
     ELSE IF BiasLeft(fate) = 0 THEN @ + BiasMax ELSE @]

\* Mutant: rx_buffer->page = NULL is missing.
ReuseKeepsOld(fate) ==
  /\ pg' = [pg EXCEPT ![nta] = pg[ntc]]
  /\ off' = [off EXCEPT ![nta] = OffLeft(fate)]
  /\ bias' = [bias EXCEPT ![nta] = IF BiasLeft(fate) = 0 THEN BiasMax ELSE BiasLeft(fate)]
  /\ nta' = Nxt(nta)
  /\ UNCHANGED mapped

\* ixgbevf_reuse_rx_page
ReuseRxPage(fate) ==
  /\ pg' = [pg EXCEPT ![nta] = pg[ntc], ![ntc] = None]
  /\ off' = [off EXCEPT ![nta] = OffLeft(fate)]
  /\ bias' = [bias EXCEPT ![nta] = IF BiasLeft(fate) = 0 THEN BiasMax ELSE BiasLeft(fate)]
  /\ nta' = Nxt(nta)
  /\ UNCHANGED mapped

\* The page is unmapped only if XDP has kept it from becoming an skb.
ReleaseRxPage(fate) ==
  /\ pg' = [pg EXCEPT ![ntc] = None]
  /\ mapped' = IF fate \in {"tx", "drop"} THEN mapped \ {pg[ntc]} ELSE mapped
  /\ UNCHANGED <<off, bias, nta>>

\* ixgbevf_put_rx_buffer and ixgbevf_is_non_eop
PutRxBuffer(fate, reserved) ==
  /\ fate \in FatesNow
  /\ IF CanReuse(fate, reserved) THEN ReuseRxPage(fate) ELSE ReleaseRxPage(fate)
  /\ ntc' = Nxt(ntc) /\ ccnt' = ccnt + 1
  /\ UNCHANGED <<ntu, descVars, rskb, hwVars, irqVars, napi, cpc, allocVars, admVars>>

\* ixgbevf_build_skb, ixgbevf_construct_skb, ixgbevf_add_rx_frag
SkbWith(fate) ==
  [parts |-> cskb.parts + 1,
   frags |-> IF fate = "frag" THEN cskb.frags \cup {<<pg[ntc], off[ntc]>>} ELSE cskb.frags]

\* page references left when a frame is freed
RefsFreed(r, s) == [p \in Pages |-> r[p] - FragRefs(s, p)]

\* The frame goes on in the next buffer.
CleanFragment(fate, reserved) ==
  /\ Ready /\ ~wb[ntc].eop
  /\ PutRxBuffer(fate, reserved)
  /\ cskb' = SkbWith(fate)
  /\ refs' = RefsPut(fate, reserved)
  /\ UNCHANGED <<held, cpk>>

\* XDP has taken the frame: it is on the XDP ring, or dropped.
CleanXdp(fate, reserved) ==
  /\ Ready /\ wb[ntc].eop /\ fate \in {"tx", "drop"}
  /\ PutRxBuffer(fate, reserved)
  /\ held' = IF fate = "tx" THEN [held EXCEPT ![<<pg[ntc], off[ntc]>>] = @ + 1] ELSE held
  /\ refs' = RefsPut(fate, reserved)
  /\ cskb' = NoSkb /\ cpk' = cpk + 1

\* ixgbevf_cleanup_headers finds an error (or cannot pad) and frees the frame.
CleanBad(fate, reserved) ==
  /\ Ready /\ wb[ntc].eop /\ fate \in {"frag", "copy"}
  /\ PutRxBuffer(fate, reserved)
  /\ refs' = RefsFreed(RefsPut(fate, reserved), SkbWith(fate))
  /\ cskb' = NoSkb
  /\ UNCHANGED <<held, cpk>>

\* ixgbevf_process_skb_fields and ixgbevf_rx_skb: the stack has the frame.  The test in
\* front of them, to prune reflected multicasts, never holds: skb->pkt_type is still
\* PACKET_HOST, because eth_type_trans sets it in ixgbevf_process_skb_fields.
CleanDeliver(fate, reserved) ==
  /\ Ready /\ wb[ntc].eop /\ fate \in {"frag", "copy"}
  /\ PutRxBuffer(fate, reserved)
  /\ held' = [b \in Pages \X Half |->
                IF b \in SkbWith(fate).frags THEN held[b] + 1 ELSE held[b]]
  /\ refs' = RefsPut(fate, reserved)
  /\ cskb' = NoSkb /\ cpk' = cpk + 1

\* The loop ends: nothing to clean, no memory for an skb (the buffer stays where it
\* is, pagecnt_bias is put back), or the budget is used up.
CleanExit ==
  /\ cpc = "loop"
  /\ \/ cpk >= Budget
     \/ cpk < Budget /\ ccnt < Write /\ wb[ntc] = None
     \/ Ready /\ cskb.parts = 0
  /\ cpc' = "done"
  /\ UNCHANGED <<ntc, ntu, nta, bufVars, descVars, rskb, pageVars, hwVars, irqVars, napi,
                 cskb, ccnt, cpk, allocVars, admVars>>

\* Mutant: an incomplete frame is not put back on the ring.
SavedNone == NoSkb
\* rx_ring->skb = skb
SavedSkb == cskb

\* Poll again if the budget was used up; otherwise napi_complete_done.
PollReturn ==
  /\ cpc = "done"
  /\ rskb' = SavedSkb
  /\ IF cpk >= Budget THEN cpc' = "idle" /\ UNCHANGED napi
                      ELSE cpc' = "enable" /\ napi' = "idle"
  /\ cskb' = NoSkb /\ ccnt' = 0 /\ cpk' = 0
  /\ UNCHANGED <<ntc, ntu, nta, bufVars, descVars, pageVars, hwVars, irqVars, allocVars,
                 admVars>>

\* The poll reads DOWN, then unmasks the vector (ixgbevf_irq_enable_queues).
PollTestDown ==
  /\ cpc = "enable"
  /\ cpc' = IF down THEN "idle" ELSE "unmask"
  /\ UNCHANGED <<ntc, ntu, nta, bufVars, descVars, rskb, pageVars, hwVars, irqVars, napi,
                 cskb, ccnt, cpk, allocVars, admVars>>

PollUnmask ==
  /\ cpc = "unmask"
  /\ masked' = FALSE
  /\ cpc' = "idle"
  /\ UNCHANGED <<ntc, ntu, nta, bufVars, descVars, rskb, pageVars, hwVars, cause, napi,
                 cskb, ccnt, cpk, allocVars, admVars>>

-----------------------------------------------------------------------------
(* ixgbevf_down and ixgbevf_up.                                            *)

\* ixgbevf_disable_rx_queue: the wait for the bit to read 0 may time out, and then the
\* hardware goes on until the reset.
DisableRxQueue == hwOn' \in BOOLEAN

\* Set DOWN and disable the queue.
DownBegin ==
  /\ apc = "up"
  /\ down' = TRUE /\ DisableRxQueue
  /\ apc' = "irq"
  /\ UNCHANGED <<ntc, ntu, nta, bufVars, descVars, rskb, pageVars, head, tail, hpart, irqVars,
                 napi, pollVars, allocVars, xdp>>

\* ixgbevf_irq_disable
DownIrqDisable ==
  /\ apc = "irq"
  /\ masked' = TRUE
  /\ apc' = "napi"
  /\ UNCHANGED <<ntc, ntu, nta, bufVars, descVars, rskb, pageVars, hwVars, cause, napi,
                 pollVars, allocVars, down, xdp>>

\* Mutant: NAPI is switched off under a poll that is scheduled or running.
DownNapiNoWait ==
  /\ apc = "napi"
  /\ napi' = "off"
  /\ apc' = "reset"
  /\ UNCHANGED <<ntc, ntu, nta, bufVars, descVars, rskb, pageVars, hwVars, irqVars, pollVars,
                 allocVars, down, xdp>>

\* ixgbevf_napi_disable_all waits until NAPI is no longer scheduled.
DownNapiDisable ==
  /\ apc = "napi" /\ napi = "idle"
  /\ napi' = "off"
  /\ apc' = "reset"
  /\ UNCHANGED <<ntc, ntu, nta, bufVars, descVars, rskb, pageVars, hwVars, irqVars, pollVars,
                 allocVars, down, xdp>>

\* ixgbevf_clean_rx_ring frees the pages from next_to_clean up to next_to_alloc.
RingPages == Between(ntc, nta)

\* references the ring has to page p in the slots S
BiasRefs(S, p) == IF \E i \in S : pg[i] = p THEN bias[CHOOSE i \in S : pg[i] = p] ELSE 0

\* ixgbevf_clean_rx_ring: the incomplete frame and the pages
FreeRing ==
  /\ rskb' = NoSkb
  /\ refs' = [p \in Pages |-> refs[p] - FragRefs(rskb, p) - BiasRefs(RingPages, p)]
  /\ mapped' = mapped \ {pg[i] : i \in RingPages}
  /\ ntc' = 0 /\ ntu' = 0 /\ nta' = 0

\* Reset the hardware, then ixgbevf_clean_rx_ring.  rx_buffer_info
\* is left as it is.
DownResetClean ==
  /\ apc = "reset"
  /\ hwOn' = FALSE /\ hpart' = 0 /\ masked' = TRUE /\ cause' = FALSE
  /\ FreeRing
  /\ apc' = "down"
  /\ UNCHANGED <<bufVars, descVars, held, head, tail, napi, pollVars, allocVars, down, xdp>>

\* "initialize Rx descriptor 0"
WbConfigured == [wb EXCEPT ![0] = None]

\* ixgbevf_rx_desc_queue_enable waits for the bit to read 1 and goes on without it if
\* that takes long: the hardware starts when it likes.
RxDescQueueEnable == hwOn' = TRUE

\* ixgbevf_configure_rx_ring, up to its call of ixgbevf_alloc_rx_buffers; an XDP
\* program may have been attached or removed while the ring was down.
ConfigureRxRing ==
  /\ apc = "down"
  /\ head' = 0 /\ tail' = 0 /\ RxDescQueueEnable /\ hpart' = 0
  /\ pg' = [i \in Slot |-> None]
  /\ off' = [i \in Slot |-> 0] /\ bias' = [i \in Slot |-> 0]
  /\ wb' = WbConfigured
  /\ ntc' = 0 /\ ntu' = 0 /\ nta' = 0
  /\ ai' = 0 /\ acnt' = Count - 1
  /\ xdp' \in Progs
  /\ apc' = "alloc"
  /\ UNCHANGED <<addr, rskb, pageVars, irqVars, napi, pollVars, down>>

\* ixgbevf_up_complete: clear DOWN, enable NAPI, drop pending causes, unmask.
UpComplete ==
  /\ apc = "configured"
  /\ down' = FALSE /\ napi' = "idle"
  /\ cause' = FALSE /\ masked' = FALSE
  /\ apc' = "up"
  /\ UNCHANGED <<ntc, ntu, nta, bufVars, descVars, rskb, pageVars, hwVars, pollVars,
                 allocVars, xdp>>

-----------------------------------------------------------------------------
Hw == \E eop \in BOOLEAN : HwWriteBack(eop)

Stack == \E p \in Pages, h \in Half : StackRelease(p, h) \/ StackGet(p, h)

CleanBuffer ==
  \E fate \in Fates, reserved \in BOOLEAN :
    \/ CleanFragment(fate, reserved) \/ CleanXdp(fate, reserved)
    \/ CleanBad(fate, reserved) \/ CleanDeliver(fate, reserved)

Poll ==
  \/ PollStart \/ CleanRefill \/ CleanBuffer \/ CleanExit \/ PollReturn
  \/ PollTestDown \/ PollUnmask

Alloc == AllocSlot \/ AllocDone

Admin ==
  \/ DownBegin \/ DownIrqDisable \/ DownNapiDisable \/ DownResetClean
  \/ ConfigureRxRing \/ UpComplete

Next == Hw \/ Irq \/ ServiceStrobe \/ Stack \/ Poll \/ Alloc \/ Admin

Spec == Init /\ [][Next]_vars

\* The data path alone: the interface is brought up once and stays up.
SteadyNext ==
  Hw \/ Irq \/ ServiceStrobe \/ Stack \/ Poll \/ Alloc \/ ConfigureRxRing \/ UpComplete
SteadySpec == Init /\ [][SteadyNext]_vars

\* The interrupt is taken, a scheduled poll runs and ends, the service timer keeps
\* strobing, rtnl holders finish.  Memory is not refused for ever: a refill or a
\* buffer that could be handled again and again is handled in the end.
Fairness ==
  /\ WF_vars(Irq) /\ WF_vars(ServiceStrobe)
  /\ WF_vars(Poll \/ AllocDone)
  /\ SF_vars(AllocSlot) /\ SF_vars(CleanBuffer)
  /\ WF_vars(\E p \in Pages, h \in Half : StackRelease(p, h))

FairSpec == Spec /\ Fairness

-----------------------------------------------------------------------------
(* Properties.                                                             *)

Skb == [parts : 0 .. MaxBufs, frags : SUBSET (Pages \X Half)]
WriteBack == [part : 1 .. MaxBufs, eop : BOOLEAN]

\* Type invariant of the ring, the pages and the actors.
TypeOK ==
  /\ ntc \in Slot /\ ntu \in Slot /\ nta \in Slot /\ head \in Slot /\ tail \in Slot
  /\ pg \in [Slot -> Pages \cup {None}] /\ off \in [Slot -> Half] /\ bias \in [Slot -> Nat]
  /\ addr \in [Slot -> (Pages \X Half) \cup {None}] /\ wb \in [Slot -> WriteBack \cup {None}]
  /\ rskb \in Skb /\ cskb \in Skb
  /\ refs \in [Pages -> Nat] /\ held \in [Pages \X Half -> Nat] /\ mapped \subseteq Pages
  /\ hwOn \in BOOLEAN /\ hpart \in 0 .. MaxBufs - 1
  /\ cause \in BOOLEAN /\ masked \in BOOLEAN /\ napi \in {"idle", "sched", "off"}
  /\ cpc \in {"idle", "loop", "alloc", "done", "enable", "unmask"}
  /\ ccnt \in 0 .. Count - 1 /\ cpk \in 0 .. Budget
  /\ ai \in Slot /\ acnt \in 0 .. Count - 1
  /\ down \in BOOLEAN /\ xdp \in BOOLEAN
  /\ apc \in {"up", "irq", "napi", "reset", "down", "alloc", "configured"}

\* a poll owns the ring; the frame in progress; where filled descriptors end; and
\* where buffers end (reuse may be ahead of the refill, or the refill of it)
Polling == cpc \in {"loop", "alloc", "done"}
CurSkb == IF Polling THEN cskb ELSE rskb
UseEnd == IF Allocating THEN ai ELSE ntu
BufEnd == IF Dist(ntc, UseEnd) > Dist(ntc, nta) THEN UseEnd ELSE nta
Buffers == IF apc = "down" THEN {} ELSE Between(ntc, BufEnd)

\* No poll runs, or can start, between napi_disable and ixgbevf_up_complete.
Quiesced ==
  /\ apc \in {"reset", "down", "alloc", "configured"} <=> napi = "off"
  /\ Polling => napi = "sched"
  /\ cpc = "alloc" => apc # "alloc"

\* Round the ring: clean <= head <= tail = next_to_use <= next_to_alloc, one slot
\* always left free.
CursorOrder ==
  /\ tail = ntu
  /\ Dist(ntc, head) <= Dist(ntc, ntu)
  /\ Dist(ntc, ntu) <= Dist(ntc, nta)
  /\ Allocating => Dist(ntc, ntu) <= Dist(ntc, ai)

\* A refill covers every page put back since the last one (or next_to_alloc would
\* move back over them), and no more than there is room for.
RefillCovers ==
  /\ cpc = "loop" => Dist(ntu, nta) <= ccnt /\ ccnt <= DescUnused
  /\ Allocating => /\ Dist(ntu, nta) <= Dist(ntu, ai) + acnt
                    /\ Dist(ntu, ai) + acnt <= DescUnused

\* Exactly the slots from next_to_clean to next_to_alloc have a page, each its own:
\* reuse never overwrites a live buffer, and clean_rx_ring finds them all.
BuffersOwned ==
  apc # "down" =>
    /\ \A i \in Slot : pg[i] # None <=> i \in Buffers
    /\ \A i, j \in Buffers : pg[i] = pg[j] => i = j

\* Every reference to a page has exactly one holder that will drop it: the ring
\* (pagecnt_bias), the frame in progress, or the stack.  No page is leaked or freed
\* while in use, whatever is copied, reused, dropped, or taken down half-way.
RefsAccounted ==
  \A p \in Pages :
    refs[p] = BiasRefs(Buffers, p) + held[<<p, 0>>] + held[<<p, 1>>] + FragRefs(CurSkb, p)

\* A half page on the ring is referred to by nobody else, and the driver holds a
\* reference to it.
RingHalfExclusive ==
  \A i \in Buffers :
    /\ bias[i] > 0
    /\ held[<<pg[i], off[i]>>] = 0
    /\ <<pg[i], off[i]>> \notin CurSkb.frags

\* The hardware only writes to a mapped half page that neither the stack nor the
\* frame in progress is reading.
HwBufferExclusive ==
  hwOn => \A i \in Between(head, tail) :
    /\ addr[i] # None
    /\ addr[i][1] \in mapped /\ refs[addr[i][1]] > 0
    /\ held[addr[i]] = 0 /\ addr[i] \notin CurSkb.frags

\* A length the poll can see is one the hardware has written since the descriptor
\* was last filled: the descriptor at next_to_use is always cleared.
NoStaleLength ==
  apc # "down" =>
    /\ \A i \in Slot : Dist(ntc, i) < Dist(ntc, head) => wb[i] # None
    /\ \A i \in Slot : Dist(ntc, head) <= Dist(ntc, i) /\ Dist(ntc, i) <= Dist(ntc, UseEnd)
                        => wb[i] = None

\* The buffers of a frame are put together in order, none skipped or taken twice,
\* also when a poll ends in the middle of the frame.
FramesContiguous ==
  apc # "down" =>
    /\ IF ntc = head THEN hpart = CurSkb.parts ELSE wb[ntc].part = CurSkb.parts + 1
    /\ \A i \in Between(ntc, head) :
         LET after == IF wb[i].eop THEN 0 ELSE wb[i].part
         IN  IF Nxt(i) = head THEN hpart = after ELSE wb[Nxt(i)].part = after + 1

\* The cursors of poll, refill and hardware stay in order round the ring, and the
\* down/up sequence has the ring to itself when ixgbevf_clean_rx_ring and
\* ixgbevf_configure_rx_ring rely on it.
RingInv == TypeOK /\ Quiesced /\ RefillCovers /\ (apc # "down" => CursorOrder)

\* A page that is no longer on the ring is no longer mapped for the device: "We are
\* not reusing the buffer so unmap it" (ixgbevf_put_rx_buffer).
MappingsOnRing == mapped \subseteq {pg[i] : i \in Buffers}

\* A buffer the hardware has filled is cleaned: if the interrupt was dropped by
\* ixgbevf_up_complete, or the poll gave up for want of an skb, the service task's
\* strobe brings the poll back.
FilledBufferCleaned ==
  \A i \in Slot : (ntc = i /\ wb[i] # None /\ ~down) ~> (ntc # i \/ down)

\* A ring that has run out of buffers because pages could not be allocated raises no
\* interrupt; it is refilled all the same.
StarvedRingRefilled == (ntu = ntc /\ ~down) ~> (ntu # ntc \/ down)

\* Half pages are handed back and forth between ring, hardware, frame and stack by
\* pagecnt_bias alone, and still nobody reads what another may write.
HalvesExclusive == RingHalfExclusive /\ HwBufferExclusive

\* Pages neither leak nor are freed early, through reuse, copies, XDP verdicts, failed
\* allocations and ixgbevf_clean_rx_ring.
PagesAccounted == BuffersOwned /\ RefsAccounted

\* What is handed to the stack as a frame is the buffers of that frame, each with the
\* length the hardware gave it.
FramesWhole == FramesContiguous /\ NoStaleLength

\* A receive ring does not stay stuck, be it full or empty, because the service task's
\* strobe makes up for the interrupt that will not come.
RxProgress == FilledBufferCleaned /\ StarvedRingRefilled
=============================================================================
