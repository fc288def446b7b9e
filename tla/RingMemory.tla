----------------------------- MODULE RingMemory -----------------------------
(***************************************************************************)
(* Where a ring's memory comes from and goes to: ixgbevf_open allocates,   *)
(* ixgbevf_close frees, and ixgbevf_set_ringparam replaces the memory of   *)
(* an interface that is up: it clones the ring structures with traffic     *)
(* going on, gives the clones memory of their own, and only then takes the *)
(* interface down to put the clones in place.  Any allocation may fail.    *)
(* All of it runs under rtnl; traffic is what interferes.                  *)
(***************************************************************************)
EXTENDS Integers, FiniteSets

CONSTANTS
  MemTx, MemXdp, MemRx,   \* numbers of transmit, XDP and receive rings
  DescMin, DescMax,       \* smallest and largest ring: 64 and 4096
  DescMultiple,           \* what ring sizes are multiples of: 8
  Jumbo,                  \* whether frames may take several receive buffers
  MaxResizes              \* bound on set_ringparam and on opens

ASSUME RingMemoryAssumption ==
  /\ MemTx \in Nat \ {0} /\ MemXdp \in Nat /\ MemRx \in Nat \ {0}
  /\ DescMultiple \in Nat \ {0} /\ DescMin \in Nat \ {0} /\ DescMax \in Nat
  /\ DescMin % DescMultiple = 0 /\ DescMax % DescMultiple = 0 /\ DescMin <= DescMax
  /\ Jumbo \in BOOLEAN
  /\ MaxResizes \in Nat

\* The rings in the order they are gone through, and how the two arrays of clones divide.
TxLast == MemTx + MemXdp
RingNos == 1 .. TxLast + MemRx
IsRx(r) == r > TxLast
Side(r) == IF IsRx(r) THEN "rx" ELSE "tx"

VARIABLES
  ringOf,       \* the adapter's rings: [mem, raw, out, skb, cnt]
  clone,        \* the clones of set_ringparam
  cloned,       \* those there are
  counts,       \* tx_ring_count and rx_ring_count
  wanted,       \* the counts asked for
  mpc, mring,   \* where the call is, and at which ring
  blocks, lost, \* descriptor memory that is allocated; left to a queue not registered
  skbs,         \* frames under construction
  hwMem,        \* memory each queue of the hardware is enabled with, or 0
  badFree,      \* something was freed that the ring did not have
  resizes

memVars == <<ringOf, clone, cloned, counts, wanted, mpc, mring, blocks, lost, skbs, hwMem,
             badFree, resizes>>

\* desc; tx_buffer_info never written to; next_to_clean behind next_to_use (next_to_alloc
\* for receive rings); skb; count
BlankRing(cnt) == [mem |-> 0, raw |-> FALSE, out |-> FALSE, skb |-> 0, cnt |-> cnt]

\* A closed interface.
RingMemoryInit ==
  LET start == DescMin
  IN  /\ ringOf = [r \in RingNos |-> BlankRing(start)]
      /\ clone = [r \in RingNos |-> BlankRing(start)] /\ cloned = {}
      /\ counts = [s \in {"tx", "rx"} |-> start] /\ wanted = counts
      /\ mpc = "closed" /\ mring = 0
      /\ blocks = {} /\ lost = {} /\ skbs = {} /\ hwMem = [r \in RingNos |-> 0]
      /\ badFree = FALSE /\ resizes = MaxResizes

Fresh(set) == CHOOSE b \in 1 .. Cardinality(set) + 1 : b \notin set

-----------------------------------------------------------------------------
(* One ring.                                                               *)

\* Outcomes of ixgbevf_setup_tx_resources and ixgbevf_setup_rx_resources: no memory, or
\* memory but no registration of the queue, which leaves the descriptors allocated
Outcomes(r) == {"ok", "nomem"} \cup IF IsRx(r) THEN {"noreg"} ELSE {}

\* the ring afterwards
SetUpRing(ring, block, out) ==
  IF out = "nomem" THEN [ring EXCEPT !.raw = FALSE, !.mem = 0]
                   ELSE [ring EXCEPT !.raw = (out = "ok"), !.mem = block]

\* ixgbevf_clean_tx_ring and ixgbevf_clean_rx_ring go from next_to_clean on through buffers
\* that are garbage if nothing was ever written there; a receive ring's skb is freed too
FreesBad(ring) == (ring.raw /\ ring.out) \/ (ring.skb # 0 /\ ring.skb \notin skbs)

Freed1(ring) == BlankRing(ring.cnt)

\* ixgbevf_free_tx_resources and ixgbevf_free_rx_resources for a set of rings
FreeRings(rings) ==
  /\ blocks' = blocks \ {ring.mem : ring \in rings}
  /\ skbs' = skbs \ {ring.skb : ring \in rings}
  /\ badFree' = (badFree \/ \E ring \in rings : FreesBad(ring))

\* ixgbevf_free_all_tx_resources, of transmit and XDP rings, and
\* ixgbevf_free_all_rx_resources: every ring that has descriptors
FreeAll ==
  /\ FreeRings({ringOf[r] : r \in RingNos})
  /\ ringOf' = [r \in RingNos |-> Freed1(ringOf[r])]

-----------------------------------------------------------------------------
(* ixgbevf_open and ixgbevf_close.                                         *)

OpenBegin ==
  /\ mpc = "closed" /\ resizes > 0 /\ resizes' = resizes - 1
  /\ mpc' = "open" /\ mring' = 1
  /\ UNCHANGED <<ringOf, clone, cloned, counts, wanted, blocks, skbs, hwMem, badFree, lost>>

\* "rewind the index freeing the rings as we go", and the transmit rings if a receive ring
\* failed
Rewound == 1 .. mring - 1

\* ixgbevf_setup_all_tx_resources and ixgbevf_setup_all_rx_resources, ring after ring
OpenRing(out) ==
  /\ mpc = "open" /\ out \in Outcomes(mring)
  /\ LET block == Fresh(blocks)
         after == SetUpRing(ringOf[mring], block, out)
     IN  IF out = "ok"
           THEN /\ ringOf' = [ringOf EXCEPT ![mring] = after]
                /\ blocks' = blocks \cup {block}
                /\ IF mring = TxLast + MemRx THEN mpc' = "ready" /\ mring' = 0
                                             ELSE mring' = mring + 1 /\ UNCHANGED mpc
                /\ UNCHANGED <<skbs, lost, badFree>>
           ELSE /\ ringOf' = [r \in RingNos |-> IF r \in Rewound THEN Freed1(ringOf[r])
                                              ELSE IF r = mring THEN after ELSE ringOf[r]]
                /\ blocks' = (blocks \ {ringOf[r].mem : r \in Rewound})
                               \cup IF out = "noreg" THEN {block} ELSE {}
                /\ lost' = IF out = "noreg" THEN lost \cup {block} ELSE lost
                /\ badFree' = (badFree \/ \E r \in Rewound : FreesBad(ringOf[r]))
                /\ mpc' = "closed" /\ mring' = 0
                /\ UNCHANGED skbs
  /\ UNCHANGED <<clone, cloned, counts, wanted, hwMem, resizes>>

\* ixgbevf_configure: the queues are enabled, the receive rings filled; whatever the
\* structures carried along is reset, but not the skb
Configured(r) == [ringOf[r] EXCEPT !.raw = FALSE, !.out = IsRx(r)]

Configure ==
  /\ mpc \in {"ready", "swapped"}
  /\ ringOf' = [r \in RingNos |-> Configured(r)]
  /\ hwMem' = [r \in RingNos |-> ringOf[r].mem]
  /\ mpc' = IF mpc = "ready" THEN "irqs" ELSE "up"
  /\ UNCHANGED <<clone, cloned, counts, wanted, mring, blocks, skbs, badFree, resizes,
                 lost>>

OpenDone ==
  /\ mpc = "irqs" /\ mpc' = "up"
  /\ UNCHANGED <<ringOf, clone, cloned, counts, wanted, mring, blocks, skbs, hwMem, badFree,
                 resizes, lost>>

\* err_req_irq and err_set_queues: the memory goes first, then comes the reset
OpenFails ==
  /\ mpc = "irqs" /\ mpc' = "undone"
  /\ FreeAll
  /\ UNCHANGED <<clone, cloned, counts, wanted, mring, hwMem, resizes, lost>>

OpenReset ==
  /\ mpc = "undone" /\ mpc' = "closed"
  /\ hwMem' = [r \in RingNos |-> 0]
  /\ UNCHANGED <<ringOf, clone, cloned, counts, wanted, mring, blocks, skbs, badFree,
                 resizes, lost>>

\* ixgbevf_down stops the queues ...
QueuesOff == [r \in RingNos |-> 0]

\* ... and empties the rings
Emptied(r) == [ringOf[r] EXCEPT !.out = FALSE, !.skb = 0]

\* ixgbevf_close: ixgbevf_down, and the memory of rings that have any
Close ==
  /\ mpc = "up" /\ mpc' = "closed"
  /\ hwMem' = QueuesOff
  /\ FreeAll
  /\ UNCHANGED <<clone, cloned, counts, wanted, mring, resizes, lost>>

-----------------------------------------------------------------------------
(* Traffic, on an interface that is up.                                    *)

Running == mpc \in {"up", "clone"}

\* packets are handed to a transmit ring, or the last one is cleaned
TxTraffic(r) ==
  /\ Running /\ ~IsRx(r)
  /\ ringOf' = [ringOf EXCEPT ![r].out = ~@]
  /\ UNCHANGED <<clone, cloned, counts, wanted, mpc, mring, blocks, skbs, hwMem, badFree,
                 resizes, lost>>

\* a poll ends in the middle of a frame, or completes it
RxTraffic(r) ==
  /\ Running /\ IsRx(r) /\ Jumbo
  /\ IF ringOf[r].skb = 0
       THEN /\ skbs' = skbs \cup {Fresh(skbs)} /\ ringOf' = [ringOf EXCEPT ![r].skb = Fresh(skbs)]
            /\ UNCHANGED badFree
       ELSE /\ skbs' = skbs \ {ringOf[r].skb} /\ ringOf' = [ringOf EXCEPT ![r].skb = 0]
            /\ badFree' = (badFree \/ ringOf[r].skb \notin skbs)
  /\ UNCHANGED <<clone, cloned, counts, wanted, mpc, mring, blocks, hwMem, resizes, lost>>

-----------------------------------------------------------------------------
(* ixgbevf_set_ringparam.                                                  *)

\* the rings whose size is to change
Changed == {r \in RingNos : wanted[Side(r)] # counts[Side(r)]}

\* ALIGN
Aligned(n) == ((n + DescMultiple - 1) \div DescMultiple) * DescMultiple

\* The counts have been checked and rounded.  On an interface that is down they are all
\* there is to change.
SetRingparam(tx, rx) ==
  LET new == [s \in {"tx", "rx"} |-> Aligned(IF s = "tx" THEN tx ELSE rx)] IN
  /\ mpc \in {"closed", "up"} /\ resizes > 0 /\ {tx, rx} \subseteq DescMin .. DescMax
  /\ new # counts
  /\ resizes' = resizes - 1
  /\ IF mpc = "closed"
       THEN /\ counts' = new /\ wanted' = new
            /\ ringOf' = [r \in RingNos |-> [ringOf[r] EXCEPT !.cnt = new[Side(r)]]]
            /\ UNCHANGED <<mpc, mring>>
       ELSE /\ wanted' = new /\ mpc' = "clone" /\ UNCHANGED <<counts, ringOf, mring>>
  /\ UNCHANGED <<clone, cloned, blocks, skbs, hwMem, badFree, lost>>

\* the next ring to clone
NextClone == CHOOSE r \in Changed \ cloned : \A s \in Changed \ cloned : r <= s

\* "clone ring and setup updated count"
Cloned(r, block, out) == SetUpRing([ringOf[r] EXCEPT !.cnt = wanted[Side(r)]], block, out)

CloneRing ==
  /\ mpc = "clone" /\ Changed \ cloned # {}
  /\ clone' = [clone EXCEPT ![NextClone] = Cloned(NextClone, Fresh(blocks), "ok")]
  /\ blocks' = blocks \cup {Fresh(blocks)} /\ cloned' = cloned \cup {NextClone}
  /\ UNCHANGED <<ringOf, counts, wanted, mpc, mring, skbs, hwMem, badFree, resizes, lost>>

\* the clones given up when one fails: "free Tx resources if Rx error is encountered"
Undone == cloned

\* An allocation fails: the clones made so far are freed, the interface stays as it was.
CloneFails(out) ==
  /\ mpc = "clone" /\ Changed \ cloned # {} /\ out \in Outcomes(NextClone) \ {"ok"}
  /\ LET kept == blocks \ {clone[r].mem : r \in Undone}
     IN  blocks' = kept \cup IF out = "noreg" THEN {Fresh(blocks)} ELSE {}
  /\ lost' = IF out = "noreg" THEN lost \cup {Fresh(blocks)} ELSE lost
  /\ skbs' = skbs \ {clone[r].skb : r \in Undone}
  /\ badFree' = (badFree \/ \E r \in Undone : FreesBad(clone[r]) \/ clone[r].skb # 0)
  /\ clone' = [r \in RingNos |-> BlankRing(clone[r].cnt)] /\ cloned' = {}
  /\ mpc' = "up" /\ wanted' = counts
  /\ UNCHANGED <<ringOf, counts, mring, hwMem, resizes>>

\* "bring interface down to prepare for update"
SwapDown ==
  /\ mpc = "clone" /\ Changed \subseteq cloned
  /\ hwMem' = QueuesOff
  /\ ringOf' = [r \in RingNos |-> Emptied(r)]
  /\ skbs' = skbs \ {ringOf[r].skb : r \in RingNos}
  /\ badFree' = (badFree \/ \E r \in RingNos : FreesBad(ringOf[r]))
  /\ mpc' = "swap"
  /\ UNCHANGED <<clone, cloned, counts, wanted, mring, blocks, resizes, lost>>

\* the memory that the rings had
OldMemory == {ringOf[r].mem : r \in cloned}

\* The clones take the places of the rings; then ixgbevf_up.
Swap ==
  /\ mpc = "swap" /\ mpc' = "swapped"
  /\ blocks' = blocks \ OldMemory
  /\ ringOf' = [r \in RingNos |-> IF r \in cloned THEN clone[r] ELSE ringOf[r]]
  /\ counts' = wanted
  /\ clone' = [r \in RingNos |-> BlankRing(clone[r].cnt)] /\ cloned' = {}
  /\ UNCHANGED <<wanted, mring, skbs, hwMem, badFree, resizes, lost>>

-----------------------------------------------------------------------------
RingMemoryNext ==
  \/ OpenBegin \/ OpenDone \/ OpenFails \/ OpenReset \/ Close \/ Configure
  \/ \E out \in {"ok", "nomem", "noreg"} : OpenRing(out)
  \/ \E r \in RingNos : TxTraffic(r) \/ RxTraffic(r)
  \/ \E tx, rx \in DescMin - 1 .. DescMax + 1 : SetRingparam(tx, rx)
  \/ CloneRing \/ SwapDown \/ Swap
  \/ \E out \in {"nomem", "noreg"} : CloneFails(out)

RingMemorySpec == RingMemoryInit /\ [][RingMemoryNext]_memVars

(* Properties.                                                             *)

\* Type invariant of ring memory; a clone is never put in place before it has memory.
RingMemoryTypeOK ==
  /\ \A ring \in {ringOf[r] : r \in RingNos} \cup {clone[r] : r \in RingNos} :
       ring.mem \in Nat /\ {ring.raw, ring.out} \subseteq BOOLEAN /\ ring.skb \in Nat
         /\ ring.cnt \in DescMin .. DescMax /\ ring.cnt % DescMultiple = 0
  /\ cloned \subseteq RingNos
  /\ mpc \in {"closed", "open", "ready", "irqs", "up", "undone", "clone", "swap", "swapped"}
  /\ \A r \in cloned : clone[r].mem # 0
  /\ mring \in {0} \cup RingNos

\* What a queue of the hardware reads and writes is allocated, is its ring's and no other
\* ring's, through every resize and every failure of one.  (The error path of ixgbevf_open
\* frees before it resets, 4577.)
MemoryHeld ==
  mpc # "undone" =>
    \A r \in RingNos : hwMem[r] # 0 =>
      /\ hwMem[r] \in blocks /\ hwMem[r] = ringOf[r].mem
      /\ \A s \in RingNos \ {r} : hwMem[s] # hwMem[r]

\* Nothing leaks: between calls the memory allocated is that of the rings, none if the
\* interface is down, wherever an allocation failed.  (A failed xdp_rxq_info_reg, 4426,
\* loses the descriptors.)
NoRingLeak ==
  /\ mpc = "up" => blocks = {ringOf[r].mem : r \in RingNos} \cup lost
  /\ mpc = "closed" => blocks = lost

\* All rings of a kind have the size that ethtool reports, and what was refused for want of
\* memory has changed none of them.
SizesAgree ==
  mpc \in {"closed", "up", "clone", "irqs"} => \A r \in RingNos : ringOf[r].cnt = counts[Side(r)]

\* "free Tx resources if Rx error is encountered": what is freed with a ring, or with a
\* clone of it, is what that ring has been given, and the frame under construction on a
\* receive ring is completed or freed once.
FreesOwn == ~badFree
=============================================================================
