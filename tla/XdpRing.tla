------------------------------- MODULE XdpRing ------------------------------
(***************************************************************************)
(* The transmit ring of an XDP program.  The receive poll puts pages on it *)
(* and writes the tail once, when it is over; the poll of the vector that  *)
(* cleans the ring may be another one, and runs at the same time.  Going   *)
(* down waits for both.  The first packet after a configuration brings the *)
(* only context descriptor the ring ever gets.                             *)
(***************************************************************************)
EXTENDS Integers, FiniteSets

CONSTANTS
  XdpCount,    \* descriptors of the ring
  Pages,       \* receive pages
  NoPage,      \* no page
  XdpBudget,   \* packets one cleaning takes at most (count / 2)
  MaxPolls,    \* bound on receive polls
  MaxCycles    \* bound on times the adapter goes down

ASSUME XdpAssumption ==
  /\ XdpCount \in Nat \ {0, 1, 2} /\ IsFiniteSet(Pages) /\ {NoPage, "ctx"} \cap Pages = {}
  /\ XdpBudget \in Nat \ {0} /\ MaxPolls \in Nat /\ MaxCycles \in Nat

Index == 0 .. XdpCount - 1
\* next_to_watch of a buffer without a packet
Nowhere == XdpCount

VARIABLES
  xntu, xntc, primed,        \* next_to_use, next_to_clean, __IXGBEVF_TX_XDP_RING_PRIMED
  xdata, xlen, xwatch,       \* tx_buffer_info: data, whether mapped, next_to_watch
  xdesc, xdd,                \* descriptors: "ctx", a page or NoPage; those with DD
  xhead, xtail, hwCtx,       \* hardware: VFTDH, VFTDT, it has seen a context
  rxPoll, xbuf, xslot, xmitted,  \* receive poll: place, page and slots in hand, xdp_xmit
  cleaning, cpos, cleft,     \* the cleaning poll: it runs, its i, budget left
  xdpAdm,                    \* "up", "down" (DOWN is set), "off" (NAPI is disabled),
                             \* "flushed" (the queue is disabled), "clean"
  onRing,                    \* pages whose reference the ring holds
  twice,                     \* a page was freed that the ring did not hold
  pollsLeft, cyclesLeft

xbufVars == <<xdata, xlen, xwatch>>
xhwVars == <<xhead, xtail, hwCtx>>
xrxVars == <<rxPoll, xbuf, xslot, xmitted>>
xclnVars == <<cleaning, cpos, cleft>>
xdpVars == <<xntu, xntc, primed, xbufVars, xdesc, xdd, xhwVars, xrxVars, xclnVars, xdpAdm,
             onRing, twice, pollsLeft, cyclesLeft>>

After(i) == IF i + 1 = XdpCount THEN 0 ELSE i + 1
Gap(a, b) == IF b >= a THEN b - a ELSE b - a + XdpCount
\* the slots from a up to b
Span(a, b) == {i \in Index : Gap(a, i) < Gap(a, b)}

\* A ring that ixgbevf_configure_tx_ring has just configured.
XdpInit ==
  /\ xntu = 0 /\ xntc = 0 /\ primed = FALSE
  /\ xdata = [i \in Index |-> NoPage] /\ xlen = [i \in Index |-> FALSE]
  /\ xwatch = [i \in Index |-> Nowhere]
  /\ xdesc = [i \in Index |-> NoPage] /\ xdd = {}
  /\ xhead = 0 /\ xtail = 0 /\ hwCtx = FALSE
  /\ rxPoll = "idle" /\ xbuf = NoPage /\ xslot = 0 /\ xmitted = FALSE
  /\ cleaning = FALSE /\ cpos = 0 /\ cleft = 0
  /\ xdpAdm = "up" /\ onRing = {} /\ twice = FALSE
  /\ pollsLeft = MaxPolls /\ cyclesLeft = MaxCycles

-----------------------------------------------------------------------------
(* The receive poll.                                                       *)

\* ixgbevf_clean_rx_irq begins
RxPollBegin ==
  /\ rxPoll = "idle" /\ xdpAdm \in {"up", "down"} /\ pollsLeft > 0
  /\ rxPoll' = "loop" /\ xmitted' = FALSE /\ pollsLeft' = pollsLeft - 1
  /\ UNCHANGED <<xntu, xntc, primed, xbufVars, xdesc, xdd, xhwVars, xbuf, xslot, xclnVars,
                 xdpAdm, onRing, twice, cyclesLeft>>

\* ixgbevf_desc_unused
Unused == (IF xntc > xntu THEN 0 ELSE XdpCount) + xntc - xntu - 1

\* the slot of the data descriptor: behind the context, which is always at 0
DataAt == IF primed THEN xntu ELSE 1

\* ixgbevf_xmit_xdp_ring up to the barrier, for a verdict of XDP_TX.  A full ring or a
\* failed mapping leaves everything as it was, and the frame is dropped.
XmitXdpRing(p) ==
  /\ rxPoll = "loop" /\ p \notin onRing
  /\ Unused > 0
  /\ xdata' = [xdata EXCEPT ![xntu] = p] /\ xlen' = [xlen EXCEPT ![xntu] = TRUE]
  /\ primed' = TRUE
  /\ xdesc' = IF primed THEN [xdesc EXCEPT ![DataAt] = p]
                        ELSE [xdesc EXCEPT ![0] = "ctx", ![DataAt] = p]
  /\ xdd' = xdd \ {DataAt, IF primed THEN DataAt ELSE 0}
  /\ rxPoll' = "watch" /\ xbuf' = p /\ xslot' = DataAt
  /\ UNCHANGED <<xntu, xntc, xwatch, xhwVars, xmitted, xclnVars, xdpAdm, onRing, twice,
                 pollsLeft, cyclesLeft>>

\* ... and from it: "set next_to_watch value indicating a packet is present"
XmitXdpWatch ==
  /\ rxPoll = "watch"
  /\ xwatch' = [xwatch EXCEPT ![xntu] = xslot] /\ xntu' = After(xslot)
  /\ onRing' = onRing \cup {xbuf} /\ xmitted' = TRUE
  /\ rxPoll' = "loop" /\ xbuf' = NoPage /\ xslot' = 0
  /\ UNCHANGED <<xntc, primed, xdata, xlen, xdesc, xdd, xhwVars, xclnVars, xdpAdm, twice,
                 pollsLeft, cyclesLeft>>

\* the hardware is told, once for all packets of the poll
XdpTail == xmitted

\* ixgbevf_clean_rx_irq ends; whatever ended it, the hardware hears of the packets.
RxPollEnd ==
  /\ rxPoll = "loop"
  /\ rxPoll' = "idle" /\ xmitted' = FALSE
  /\ xtail' = IF XdpTail THEN xntu ELSE xtail
  /\ UNCHANGED <<xntu, xntc, primed, xbufVars, xdesc, xdd, xhead, hwCtx, xbuf, xslot, xclnVars,
                 xdpAdm, onRing, twice, pollsLeft, cyclesLeft>>

-----------------------------------------------------------------------------
(* The cleaning poll: ixgbevf_clean_tx_irq where ring_is_xdp.              *)

CleanXdpBegin ==
  /\ ~cleaning /\ xdpAdm = "up"
  /\ cleaning' = TRUE /\ cpos' = xntc /\ cleft' = XdpBudget
  /\ UNCHANGED <<xntu, xntc, primed, xbufVars, xdesc, xdd, xhwVars, xrxVars, xdpAdm, onRing,
                 twice, pollsLeft, cyclesLeft>>

XdpDone == xwatch[cpos] # Nowhere /\ xwatch[cpos] \in xdd

\* a packet: the page is freed, its mapping and those of the slots behind undone
CleanXdpPacket ==
  /\ cleaning /\ cleft > 0 /\ XdpDone
  /\ xwatch' = [xwatch EXCEPT ![cpos] = Nowhere]
  /\ onRing' = onRing \ {xdata[cpos]} /\ twice' = (twice \/ xdata[cpos] \notin onRing)
  /\ xlen' = [i \in Index |-> xlen[i] /\ i \notin Span(cpos, After(xwatch[cpos]))]
  /\ cpos' = After(xwatch[cpos]) /\ cleft' = cleft - 1
  /\ UNCHANGED <<xntu, xntc, primed, xdata, xdesc, xdd, xhwVars, xrxVars, cleaning, xdpAdm,
                 pollsLeft, cyclesLeft>>

\* next_to_clean moves only now
CleanXdpEnd ==
  /\ cleaning /\ (cleft = 0 \/ ~XdpDone)
  /\ cleaning' = FALSE /\ xntc' = cpos /\ cpos' = 0 /\ cleft' = 0
  /\ UNCHANGED <<xntu, primed, xbufVars, xdesc, xdd, xhwVars, xrxVars, xdpAdm, onRing, twice,
                 pollsLeft, cyclesLeft>>

\* The transmit unit takes a descriptor and reports it.
XdpFetch ==
  /\ xdpAdm \in {"up", "down", "off"} /\ xhead # xtail
  /\ hwCtx' = (hwCtx \/ xdesc[xhead] = "ctx")
  /\ xdd' = IF xdesc[xhead] = "ctx" THEN xdd ELSE xdd \cup {xhead}
  /\ xhead' = After(xhead)
  /\ UNCHANGED <<xntu, xntc, primed, xbufVars, xdesc, xtail, xrxVars, xclnVars, xdpAdm, onRing,
                 twice, pollsLeft, cyclesLeft>>

-----------------------------------------------------------------------------
(* ixgbevf_down and ixgbevf_up.                                            *)

XdpDown ==
  /\ xdpAdm = "up" /\ cyclesLeft > 0
  /\ xdpAdm' = "down" /\ cyclesLeft' = cyclesLeft - 1
  /\ UNCHANGED <<xntu, xntc, primed, xbufVars, xdesc, xdd, xhwVars, xrxVars, xclnVars, onRing,
                 twice, pollsLeft>>

\* ixgbevf_napi_disable_all has waited for the polls
XdpNapiOff ==
  /\ xdpAdm = "down" /\ rxPoll = "idle" /\ ~cleaning
  /\ xdpAdm' = "off"
  /\ UNCHANGED <<xntu, xntc, primed, xbufVars, xdesc, xdd, xhwVars, xrxVars, xclnVars, onRing,
                 twice, pollsLeft, cyclesLeft>>

\* VFTXDCTL.SWFLSH and the reset
XdpFlush ==
  /\ xdpAdm = "off" /\ xdpAdm' = "flushed"
  /\ UNCHANGED <<xntu, xntc, primed, xbufVars, xdesc, xdd, xhwVars, xrxVars, xclnVars, onRing,
                 twice, pollsLeft, cyclesLeft>>

\* the slots at which ixgbevf_clean_tx_ring finds packets: from next_to_clean on, each
\* where the one before ends
PacketsLeft == {i \in Span(xntc, xntu) : xwatch[i] # Nowhere}

\* ixgbevf_clean_tx_ring
CleanedPages == {xdata[i] : i \in PacketsLeft}

CleanXdpRing ==
  /\ xdpAdm = "flushed" /\ xdpAdm' = "clean"
  /\ onRing' = onRing \ CleanedPages
  /\ twice' = (twice \/ ~(CleanedPages \subseteq onRing)
                     \/ Cardinality(CleanedPages) # Cardinality(PacketsLeft))
  /\ xntu' = 0 /\ xntc' = 0
  /\ UNCHANGED <<primed, xbufVars, xdesc, xdd, xhwVars, xrxVars, xclnVars, pollsLeft,
                 cyclesLeft>>

\* Mutant: a ring that was primed stays so.
PrimedStill == primed

\* __IXGBEVF_TX_XDP_RING_PRIMED goes with the rest
PrimedAgain == FALSE

\* ixgbevf_configure_tx_ring; the descriptors themselves stay as they were
ConfigureXdpRing ==
  /\ xdpAdm = "clean" /\ xdpAdm' = "up"
  /\ xntu' = 0 /\ xntc' = 0 /\ xhead' = 0 /\ xtail' = 0 /\ hwCtx' = FALSE
  /\ xdata' = [i \in Index |-> NoPage] /\ xlen' = [i \in Index |-> FALSE]
  /\ xwatch' = [i \in Index |-> Nowhere]
  /\ primed' = PrimedAgain
  /\ UNCHANGED <<xdesc, xdd, xrxVars, xclnVars, onRing, twice, pollsLeft, cyclesLeft>>

-----------------------------------------------------------------------------
XdpNext ==
  \/ RxPollBegin \/ XmitXdpWatch \/ RxPollEnd
  \/ \E p \in Pages : XmitXdpRing(p)
  \/ CleanXdpBegin \/ CleanXdpPacket \/ CleanXdpEnd \/ XdpFetch
  \/ XdpDown \/ XdpNapiOff \/ XdpFlush \/ CleanXdpRing \/ ConfigureXdpRing

XdpSpec == XdpInit /\ [][XdpNext]_xdpVars

-----------------------------------------------------------------------------
(* Properties.                                                             *)

\* Type invariant of the XDP ring.
XdpTypeOK ==
  /\ {xntu, xntc, xhead, xtail, cpos, xslot} \subseteq Index
  /\ {primed, hwCtx, xmitted, cleaning, twice} \subseteq BOOLEAN
  /\ xdata \in [Index -> Pages \cup {NoPage}] /\ xlen \in [Index -> BOOLEAN]
  /\ xwatch \in [Index -> 0 .. XdpCount] /\ xdesc \in [Index -> Pages \cup {"ctx", NoPage}]
  /\ xdd \subseteq Index /\ onRing \subseteq Pages /\ xbuf \in Pages \cup {NoPage}

\* Once a receive poll is over the hardware knows of every packet it left on the ring,
\* and no packet is known before the poll's last write.
XdpFlushed == rxPoll = "idle" /\ xdpAdm \in {"up", "down", "off"} => xtail = xntu

\* The hardware meets the context descriptor before any data, after every configuration,
\* and never again: what it is about to read is the descriptor of a page that the ring
\* still holds and that is still mapped.
XdpReads ==
  /\ xdpAdm \in {"up", "down", "off"} =>
       \A i \in Span(xhead, xtail) :
         IF ~hwCtx /\ i = 0 THEN xdesc[i] = "ctx" ELSE xdesc[i] \in onRing
  /\ ~hwCtx => xhead = 0

\* A page the ring holds is in exactly one slot that cleaning has yet to come to, under a
\* packet; it is freed once, by the cleaning poll or by ixgbevf_clean_tx_ring.
XdpHolds ==
  /\ ~twice
  /\ xdpAdm # "clean" =>
       \A p \in Pages :
         Cardinality({i \in Index : xwatch[i] # Nowhere /\ xdata[i] = p /\ xlen[i]})
           = IF p \in onRing THEN 1 ELSE 0
  /\ xdpAdm = "clean" => onRing = {}

\* Between two polls and the hardware a page of the XDP ring is sent whole and freed once.
XdpInv == XdpTypeOK /\ XdpFlushed /\ XdpReads /\ XdpHolds
=============================================================================
