------------------------------ MODULE QueueSetup ----------------------------
(***************************************************************************)
(* How many queues there are and which vector serves which: counted from   *)
(* what the PF allows, spread over the vectors that could be had, and      *)
(* written into the interrupt registers.  Every step may fail, and what    *)
(* was set up before it has to be undone.  A queue is its index.           *)
(***************************************************************************)
EXTENDS Integers, FiniteSets

CONSTANTS
  Cpus,        \* numbers of processors
  TxQueues,    \* transmit queues a PF may give
  Classes,     \* traffic classes a PF may report
  MaxSchemes   \* bound on how often the scheme is built

ASSUME QueueAssumption ==
  /\ Cpus \subseteq Nat \ {0} /\ TxQueues \subseteq 1 .. 8 /\ Classes \subseteq 0 .. 8
  /\ MaxSchemes \in Nat

Kinds == {"tx", "xdp", "rx"}
MaxRss == 2         \* IXGBEVF_MAX_RSS_QUEUES
Upto(n) == 0 .. n - 1

VARIABLES
  qsetup,        \* "none", "counted", "vectors", "ready", "irqs", "msix", "refused"
  xdpProg,       \* an XDP program is attached
  cpus, maxTx,   \* num_online_cpus, hw->mac.max_tx_queues
  num,           \* num_tx_queues, num_xdp_queues, num_rx_queues
  numVec,        \* num_q_vectors
  entries,       \* msix_entries is allocated
  vector,        \* q_vector[]: vector -> the queues it has of each kind
  left, next,    \* alloc_q_vectors: rings remaining, and indices to go on from
  txReg,         \* reg_idx of the transmit and XDP rings: <<kind, queue>> -> register index
  ivar, miscVec, \* VTIVAR: register byte -> vector, and the vector in VTIVAR_MISC
  eims,          \* eims_enable_mask, as the set of its vectors
  irqs,          \* vectors with an interrupt handler
  strays,        \* vectors, with their rings and napi, that nothing will free any more
  uncounted,     \* vectors that a failed request_irq ever took out of num_q_vectors
  schemesLeft

queueVars == <<qsetup, xdpProg, cpus, maxTx, num, numVec, entries, vector, left, next, txReg,
               ivar, miscVec, eims, irqs, strays, uncounted, schemesLeft>>

NoQueues == [k \in Kinds |-> 0]
NoMap == [x \in {} |-> 0]

\* Before the first scheme; the PF has not been asked for its queues.
QueueInit(cpuSet) ==
  /\ qsetup = "none" /\ xdpProg = FALSE /\ cpus \in cpuSet /\ maxTx = 8
  /\ num = NoQueues /\ numVec = 0 /\ entries = FALSE
  /\ vector = NoMap /\ left = NoQueues /\ next = NoQueues /\ txReg = NoMap
  /\ ivar = NoMap /\ miscVec = 0 /\ eims = {} /\ irqs = {}
  /\ strays = 0 /\ uncounted = 0 /\ schemesLeft = MaxSchemes

Smaller(a, b) == IF a < b THEN a ELSE b
Larger(a, b) == IF a > b THEN a ELSE b
CeilDiv(a, b) == (a + b - 1) \div b

-----------------------------------------------------------------------------
(* ixgbevf_init_interrupt_scheme.                                          *)

\* queues for receive-side scaling; half of them if all transmit queues are taken
RssQueues(allowed) ==
  LET rss == Smaller(cpus, MaxRss) IN IF xdpProg /\ allowed = rss THEN 1 ELSE rss

\* ixgbevf_get_queues failed, or the API has no such request: the base case
BaseCase == [tx |-> 1, xdp |-> 0, rx |-> 1]

\* ixgbevf_set_num_queues, with the PF's answer
Counted(tcs, allowed) ==
  IF tcs > 1 THEN [BaseCase EXCEPT !["rx"] = tcs]
             ELSE [tx |-> RssQueues(allowed), rx |-> RssQueues(allowed),
                   xdp |-> IF xdpProg THEN RssQueues(allowed) ELSE 0]

SetNumQueues(tcs, allowed, answered) ==
  /\ qsetup = "none" /\ schemesLeft > 0 /\ schemesLeft' = schemesLeft - 1
  /\ tcs <= allowed
  /\ num' = IF answered THEN Counted(tcs, allowed) ELSE BaseCase
  /\ maxTx' = IF answered THEN allowed ELSE maxTx
  /\ qsetup' = "counted"
  /\ UNCHANGED <<xdpProg, cpus, numVec, entries, vector, left, next, txReg, ivar, miscVec,
                 eims, irqs, strays, uncounted>>

\* ixgbevf_set_interrupt_capability: vectors asked for, beside the one for other causes
VectorBudget == Smaller(Larger(num["rx"], num["tx"]), cpus)

\* ixgbevf_acquire_msix_vectors: at least one vector for queues, or none at all
AcquireMsixVectors(got) ==
  /\ qsetup = "counted" /\ got \in 0 .. VectorBudget
  /\ IF got = 0
       THEN qsetup' = "none" /\ UNCHANGED <<entries, numVec, left, next>>
       ELSE /\ qsetup' = "vectors" /\ entries' = TRUE /\ numVec' = got
            /\ left' = num /\ next' = NoQueues
  /\ UNCHANGED <<xdpProg, cpus, maxTx, num, vector, txReg, ivar, miscVec, eims, irqs, strays,
                 uncounted, schemesLeft>>

\* vectors without rings so far
Rest == numVec - Cardinality(DOMAIN vector)

\* the next vector's share of each kind
Shares == [k \in Kinds |-> CeilDiv(left[k], Rest)]

\* the queues of one kind that the next vector gets
Got(k) == {next[k] + i : i \in Upto(Shares[k])}

\* where the register indices of a vector's transmit rings begin
RegFrom == next["tx"] + next["xdp"]

\* ixgbevf_alloc_q_vector: first the transmit rings, then those for XDP
Regs ==
  [r \in ({"tx"} \X Got("tx")) \cup ({"xdp"} \X Got("xdp")) |->
     RegFrom + (r[2] - next[r[1]]) + IF r[1] = "xdp" THEN Shares["tx"] ELSE 0]

\* a vector of ixgbevf_alloc_q_vectors; there are never enough vectors to give the receive
\* rings vectors of their own
AllocQVector ==
  /\ qsetup = "vectors" /\ Rest > 0
  /\ vector' = [v \in DOMAIN vector \cup {Cardinality(DOMAIN vector)} |->
                  IF v \in DOMAIN vector THEN vector[v] ELSE [k \in Kinds |-> Got(k)]]
  /\ txReg' = [r \in DOMAIN txReg \cup DOMAIN Regs |->
                 IF r \in DOMAIN Regs THEN Regs[r] ELSE txReg[r]]
  /\ left' = [k \in Kinds |-> left[k] - Shares[k]]
  /\ next' = [k \in Kinds |-> next[k] + Shares[k]]
  /\ qsetup' = IF Rest = 1 THEN "ready" ELSE qsetup
  /\ UNCHANGED <<xdpProg, cpus, maxTx, num, numVec, entries, ivar, miscVec, eims, irqs, strays,
                 uncounted, schemesLeft>>

\* ixgbevf_free_q_vector for all there are, and for all the rings on them; q_vector[] and
\* the arrays of rings are of no use beyond the numbers, which are 0
FreeQVectors == vector' = NoMap /\ txReg' = NoMap

\* No memory for a vector: its err_out, and ixgbevf_reset_interrupt_capability.
AllocFails ==
  /\ qsetup = "vectors" /\ qsetup' = "none"
  /\ num' = NoQueues /\ numVec' = 0 /\ entries' = FALSE
  /\ FreeQVectors
  /\ left' = NoQueues /\ next' = NoQueues
  /\ UNCHANGED <<xdpProg, cpus, maxTx, ivar, miscVec, eims, irqs, strays, uncounted,
                 schemesLeft>>

-----------------------------------------------------------------------------
(* Interrupts.                                                             *)

\* Mutant: both directions of a queue share a byte.
PlaceShared(queue, dir) == <<queue \div 2, 2 * (queue % 2)>>

\* ixgbevf_set_ivar: register and byte of a queue, dir 0 for receive and 1 for transmit
Place(queue, dir) == <<queue \div 2, 2 * (queue % 2) + dir>>

\* what a vector's rings write into VTIVAR
Written(v) ==
  {Place(q, 0) : q \in vector[v]["rx"]}
    \cup {Place(txReg[<<"tx", q>>], 1) : q \in vector[v]["tx"]}
    \cup {Place(txReg[<<"xdp", q>>], 1) : q \in vector[v]["xdp"]}

\* ixgbevf_configure_msix; a place written by two vectors keeps the later one
ConfigureMsix ==
  /\ qsetup = "irqs" /\ qsetup' = "msix"
  /\ LET places == UNION {Written(v) : v \in DOMAIN vector}
         by(p) == CHOOSE v \in DOMAIN vector :
                    p \in Written(v) /\ \A w \in DOMAIN vector : p \in Written(w) => w <= v
     IN  ivar' = [p \in DOMAIN ivar \cup places |-> IF p \in places THEN by(p) ELSE ivar[p]]
  /\ miscVec' = numVec
  /\ eims' = DOMAIN vector \cup {numVec}
  /\ UNCHANGED <<xdpProg, cpus, maxTx, num, numVec, entries, vector, left, next, txReg, irqs,
                 strays, uncounted, schemesLeft>>

\* vectors that have rings
InUse == {v \in DOMAIN vector : \E k \in Kinds : vector[v][k] # {}}

\* ixgbevf_request_msix_irqs that gets them all
RequestIrqs ==
  /\ qsetup = "ready" /\ qsetup' = "irqs"
  /\ irqs' = InUse \cup {numVec}
  /\ UNCHANGED <<xdpProg, cpus, maxTx, num, numVec, entries, vector, left, next, txReg, ivar,
                 miscVec, eims, strays, uncounted, schemesLeft>>

\* Mutant: the loop counts down before it looks, and leaves the first vector's handler.
UndoneIrqsButFirst(at) == 1 .. at - 1

\* free_queue_irqs: the handlers of all vectors before the one that was refused
UndoneIrqs(at) == Upto(at)

\* ixgbevf_request_msix_irqs that is refused a handler, and with it ixgbevf_open, which
\* comes no further than its look at num_q_vectors until there is another scheme
RequestFails(at) ==
  /\ qsetup = "ready" /\ qsetup' = "refused" /\ at \in InUse \cup {numVec}
  /\ irqs' = (irqs \cup (InUse \cap Upto(at))) \ UndoneIrqs(at)
  /\ numVec' = 0 /\ uncounted' = uncounted + numVec
  /\ UNCHANGED <<xdpProg, cpus, maxTx, num, entries, vector, left, next, txReg, ivar,
                 miscVec, eims, strays, schemesLeft>>

\* ixgbevf_free_irq: the handlers that are taken away
Freed == InUse \cup {numVec}

\* ixgbevf_close: ixgbevf_free_irq
FreeIrqs ==
  /\ qsetup \in {"irqs", "msix"} /\ qsetup' = "ready"
  /\ irqs' = irqs \ Freed
  /\ UNCHANGED <<xdpProg, cpus, maxTx, num, numVec, entries, vector, left, next, txReg, ivar,
                 miscVec, eims, strays, uncounted, schemesLeft>>

\* ixgbevf_clear_interrupt_scheme, for a queue reset or because a program comes or goes;
\* ixgbevf_free_q_vectors frees as many vectors as num_q_vectors says
ClearInterruptScheme(prog) ==
  /\ qsetup \in {"ready", "refused"} /\ qsetup' = "none"
  /\ xdpProg' = prog
  /\ num' = NoQueues /\ numVec' = 0 /\ entries' = FALSE
  /\ FreeQVectors /\ strays' = strays + Cardinality(DOMAIN vector \ Upto(numVec))
  /\ left' = NoQueues /\ next' = NoQueues
  /\ UNCHANGED <<cpus, maxTx, ivar, miscVec, eims, irqs, uncounted, schemesLeft>>

-----------------------------------------------------------------------------
QueueNext ==
  \/ \E tcs \in Classes, allowed \in TxQueues, answered \in BOOLEAN :
       SetNumQueues(tcs, allowed, answered)
  \/ \E got \in 0 .. 8 : AcquireMsixVectors(got)
  \/ AllocQVector \/ AllocFails
  \/ RequestIrqs \/ ConfigureMsix \/ FreeIrqs
  \/ \E at \in 0 .. 8 : RequestFails(at)
  \/ \E prog \in BOOLEAN : ClearInterruptScheme(prog)

QueueSpec == QueueInit(Cpus) /\ [][QueueNext]_queueVars

(* Properties.                                                             *)

SetUp == qsetup \in {"ready", "irqs", "msix"}
Queues(k) == Upto(num[k])

\* Type invariant of queue setup.
QueueTypeOK ==
  /\ qsetup \in {"none", "counted", "vectors", "ready", "irqs", "msix", "refused"}
  /\ num \in [Kinds -> 0 .. 8] /\ numVec \in 0 .. 8 /\ {xdpProg, entries} \subseteq BOOLEAN
  /\ \A v \in DOMAIN vector :
       /\ qsetup # "refused" => v < numVec
       /\ \A k \in Kinds : vector[v][k] \subseteq Queues(k)
  /\ strays \in Nat /\ uncounted \in Nat /\ irqs \subseteq 0 .. 8 /\ left \in [Kinds -> 0 .. 8]

\* Once set up, every queue is on exactly one vector, and every vector has a receive ring,
\* however few vectors there were and however unevenly the queues divide among them.
QueuesCovered ==
  SetUp =>
    /\ \A k \in Kinds : \A q \in Queues(k) : \E v \in DOMAIN vector :
         q \in vector[v][k] /\ \A w \in DOMAIN vector \ {v} : q \notin vector[w][k]
    /\ \A v \in DOMAIN vector : vector[v]["rx"] # {}

\* Transmit and XDP rings, which share the transmit queues of the hardware, never get the
\* same one, nor one that the PF has not given to the VF.
RegsDistinct ==
  SetUp =>
    /\ \A r, s \in DOMAIN txReg : txReg[r] = txReg[s] => r = s
    /\ \A r \in DOMAIN txReg : txReg[r] < maxTx

\* When interrupts are on, the cause of each queue goes to the vector whose poll serves it,
\* that vector has a handler and is enabled, and no queue's cause goes to the vector for
\* other causes.
CausesRouted ==
  qsetup = "msix" =>
    /\ \A v \in DOMAIN vector : \A p \in Written(v) : ivar[p] = v
    /\ InUse \subseteq irqs /\ miscVec \in irqs /\ miscVec \notin DOMAIN vector
    /\ eims = irqs

\* A scheme that failed, or that was taken down, leaves nothing behind, no rings, no
\* vectors, no table, and no handlers either once an open has failed or a close is done;
\* but for the vectors of a scheme that was refused a handler: those, with their rings and
\* napi, are out of num_q_vectors (ixgbevf_main.c 2158) and never freed, and no others.
NothingLeft ==
  /\ qsetup \notin {"irqs", "msix"} => irqs = {}
  /\ qsetup = "none" => vector = NoMap /\ txReg = NoMap /\ ~entries /\ numVec = 0
  /\ uncounted = strays + (IF qsetup = "refused" THEN Cardinality(DOMAIN vector) ELSE 0)
=============================================================================
