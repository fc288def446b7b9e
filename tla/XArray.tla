------------------------------- MODULE XArray -------------------------------
(***************************************************************************)
(* The XArray the driver carries for kernels without one (Makefile:25):    *)
(* a radix tree of nodes whose slots hold entries or further nodes, with   *)
(* marks summed up towards the head.  Writers hold xa_lock, so an attempt  *)
(* at an operation is one step; it may run out of memory half way, and     *)
(* __xas_nomem then drops the lock to allocate and tries again.  A reader  *)
(* walks down under RCU only, one slot per step.  CONFIG_XARRAY_MULTI came *)
(* with the kernel's own XArray, so a build that compiles this file has no *)
(* multi-index entries.  An entry is a number: a user's entry, a node, or  *)
(* one of the internal entries; so is xa_node, the place of an operation.  *)
(***************************************************************************)
EXTENDS Integers, FiniteSets, Sequences

CONSTANTS XaShift,      \* XA_CHUNK_SHIFT
          XaLevels,     \* the height of the tallest tree
          XaEntries,    \* entries users store, numbers in 1..10
          XaIndices,    \* the indices users store at
          XaTop,        \* the highest index looked at
          XaLimits,     \* limits passed to xa_alloc: pairs
          XaIdSize,     \* an id is a number below this (2^32 in the code)
          MaxXaOps      \* operations and loads started

VARIABLES xaMode,       \* "plain", "alloc" (XA_FLAGS_ALLOC), "alloc1"
          tree,         \* the head, its marks, and the nodes
          want,         \* what the array has been told to hold
          wantMark,     \* the indices told to be marked
          pend,         \* an operation that dropped the lock to allocate
          rd,           \* a reader in xa_load
          got,          \* the id the last allocation handed out
          cyc,          \* the state of cyclic allocation
          xaOps         \* operations and loads still to start

xaVars == <<xaMode, tree, want, wantMark, pend, rd, got, cyc, xaOps>>

Null == 0
Zero == -1      \* XA_ZERO_ENTRY
Retry0 == -2    \* XA_RETRY_ENTRY
Restart == -3   \* XAS_RESTART
Bounds == -4    \* XAS_BOUNDS
NoMem == -5     \* XA_ERROR(-ENOMEM)
Busy == -6      \* XA_ERROR(-EBUSY)

Chunk == 2 ^ XaShift
Slots == 0 .. Chunk - 1
Marks == {"free", "m"}  \* XA_MARK_0, which is XA_FREE_MARK, and XA_MARK_1
AllIndices == 0 .. XaTop

\* Node memory: two pieces for each place of the tree, so that a place can be filled anew while a
\* reader is still on the node it had.  Which piece of memory a node gets is of no consequence.
PlacesAbove(shift) == (Chunk ^ (XaLevels - 1 - (shift \div XaShift)) - 1) \div (Chunk - 1)
Place0(shift, i) == PlacesAbove(shift) + (i \div (Chunk * (2 ^ shift)))
Pieces(shift, i) == {11 + (2 * Place0(shift, i)), 12 + (2 * Place0(shift, i))}
XaNodes == 11 .. 10 + (2 * ((Chunk ^ XaLevels - 1) \div (Chunk - 1)))
NoOp == [kind |-> "none", i |-> 0, old |-> Null, e |-> Null, lim |-> <<0, 0>>, spare |-> FALSE]
Idle == [pc |-> "idle", i |-> 0, at |-> Null, seen |-> {}, res |-> Null]

TrackFree == xaMode # "plain"
ZeroBusy == xaMode = "alloc1"

BlankNode == [st |-> "free", shift |-> 0, offset |-> 0, parent |-> Null, count |-> 0,
              slots |-> [o \in Slots |-> Null], marks |-> [m \in Marks |-> {}]]

XaInit(modes) ==
    /\ xaMode \in modes
    /\ tree = [head |-> Null, marks |-> IF xaMode = "alloc" THEN {"free"} ELSE {},
               node |-> [n \in XaNodes |-> BlankNode]]
    /\ want = [i \in AllIndices |-> Null]
    /\ wantMark = {}
    /\ pend = NoOp
    /\ rd = Idle
    /\ got = [id |-> 0, least |-> 0, told |-> FALSE, past |-> FALSE]
    /\ cyc = [next |-> XaIdSize - 2, wrapped |-> FALSE, last |-> -1]
    /\ xaOps = MaxXaOps

-----------------------------------------------------------------------------
(* Walking: an operation's state holds the tree it works on.               *)

XaState(t, i, spare, left) ==
    [t |-> t, at |-> Restart, off |-> 0, idx |-> i, e |-> Null, shift |-> 0,
     spare |-> spare, left |-> left]

IsNode(e) == e \in XaNodes
ZeroToNull(e) == IF e = Zero THEN Null ELSE e
Invalid(x) == x.at < 0
Erred(x) == x.at \in {NoMem, Busy}
AtTop(x) == x.at \in {Null, Bounds, Restart}
NodeAt(x) == x.t.node[x.at]
Size(t, n) == 2 ^ t.node[n].shift
MaxIndex(t, e) == IF IsNode(e) THEN (Chunk * Size(t, e)) - 1 ELSE 0
GetOffset(x, n) == (x.idx \div Size(x.t, n)) % Chunk
XaEntry(x) == NodeAt(x).slots[x.off]
XasReload(x) == IF x.at = Null THEN x.t.head ELSE XaEntry(x)
SetBounds(x) == [x EXCEPT !.at = Bounds, !.e = Null]

XasStart(x) ==
    IF ~Invalid(x) THEN [x EXCEPT !.e = XasReload(x)]
    ELSE IF Erred(x) THEN [x EXCEPT !.e = Null]
    ELSE IF x.idx > MaxIndex(x.t, x.t.head) THEN SetBounds(x)
    ELSE [x EXCEPT !.at = Null, !.e = x.t.head]

XasDescend(x, n) ==
    LET o == GetOffset(x, n)
    IN  [x EXCEPT !.at = n, !.off = o, !.e = x.t.node[n].slots[o]]

RECURSIVE XasWalk(_)
XasWalk(x) ==
    IF ~IsNode(x.e) THEN x
    ELSE LET y == XasDescend(x, x.e)
         IN  IF NodeAt(y).shift = 0 THEN y ELSE XasWalk(y)

XasLoad(x) == XasWalk(XasStart(x))
XaLoad(t, i) == ZeroToNull(XasLoad(XaState(t, i, FALSE, 0)).e)

-----------------------------------------------------------------------------
(* Marks: a node's mark bit says that something below the slot has it.     *)

RECURSIVE SetMarkUp(_, _, _, _)
SetMarkUp(t, n, o, m) ==
    IF n = Null THEN [t EXCEPT !.marks = @ \cup {m}]
    ELSE IF o \in t.node[n].marks[m] THEN t
    ELSE SetMarkUp([t EXCEPT !.node[n].marks[m] = @ \cup {o}],
                   t.node[n].parent, t.node[n].offset, m)

RECURSIVE ClearMarkUp(_, _, _, _)
ClearMarkUp(t, n, o, m) ==
    IF n = Null THEN [t EXCEPT !.marks = @ \ {m}]
    ELSE IF o \notin t.node[n].marks[m] THEN t
    ELSE LET u == [t EXCEPT !.node[n].marks[m] = @ \ {o}]
         IN  IF u.node[n].marks[m] # {} THEN u
             ELSE ClearMarkUp(u, t.node[n].parent, t.node[n].offset, m)

XasSetMark(x, m) == IF Invalid(x) THEN x ELSE [x EXCEPT !.t = SetMarkUp(x.t, x.at, x.off, m)]
XasClearMark(x, m) == IF Invalid(x) THEN x ELSE [x EXCEPT !.t = ClearMarkUp(x.t, x.at, x.off, m)]

XasInitMarks(x) ==
    XasClearMark(IF TrackFree THEN XasSetMark(x, "free") ELSE XasClearMark(x, "free"), "m")

XasGetMark(x, m) ==
    ~Invalid(x) /\ IF x.at = Null THEN m \in x.t.marks ELSE x.off \in NodeAt(x).marks[m]

RECURSIVE MarkedWalk(_, _)
MarkedWalk(x, m) ==
    XasGetMark(x, m) /\ (IsNode(x.e) => MarkedWalk(XasDescend(x, x.e), m))

XaGetMark(t, i, m) == MarkedWalk(XasStart(XaState(t, i, FALSE, 0)), m)

-----------------------------------------------------------------------------
(* Growing the tree.                                                       *)

FreeIds(t, shift, i) == {n \in Pieces(shift, i) : t.node[n].st = "free"}
LeastOf(S) == CHOOSE n \in S : \A k \in S : n <= k

\* The node set aside for this operation, or one from the slab if that has memory left.
XasAlloc(x, shift, i) ==
    LET free == FreeIds(x.t, shift, i)
        n == LeastOf(free)
        fresh == [BlankNode EXCEPT !.st = "used", !.shift = shift, !.parent = x.at,
                                   !.offset = IF x.at = Null THEN 0 ELSE x.off]
        t == [x.t EXCEPT !.node[n] = fresh]
    IN  IF free = {} \/ (x.left = 0 /\ ~x.spare) THEN [x EXCEPT !.at = NoMem, !.e = Null]
        ELSE [x EXCEPT !.t = IF x.at = Null THEN t ELSE [t EXCEPT !.node[x.at].count = @ + 1],
                       !.e = n, !.spare = FALSE, !.left = IF x.spare THEN @ ELSE @ - 1]

\* The marks of a new head over the old one; the free mark holds for all that is new.
HeadMarks(t) ==
    [m \in Marks |-> IF TrackFree /\ m = "free" THEN IF m \in t.marks THEN Slots ELSE Slots \ {0}
                     ELSE IF m \in t.marks THEN {0} ELSE {}]

\* The node n, just allocated, becomes the head, with the old one in its first slot.
OnTop(t, n, head) ==
    [t EXCEPT !.node = [k \in XaNodes |->
                 IF k = n THEN [@[n] EXCEPT !.count = 1, !.slots[0] = head, !.marks = HeadMarks(t)]
                 ELSE IF k = head THEN [@[k] EXCEPT !.parent = n, !.offset = 0]
                 ELSE @[k]],
              !.head = n,
              !.marks = IF TrackFree THEN @ \cup {"free"} ELSE @]

RECURSIVE XasExpand(_, _, _)
XasExpand(x, head, shift) ==
    IF Erred(x) THEN x
    ELSE IF x.idx <= MaxIndex(x.t, head)
    THEN [x EXCEPT !.at = IF IsNode(head) THEN head ELSE Null, !.e = x.t.head, !.shift = shift]
    ELSE LET y == XasAlloc(x, shift, 0)
         IN  XasExpand(IF Erred(y) THEN y ELSE [y EXCEPT !.t = OnTop(y.t, y.e, head)],
                       y.e, shift + XaShift)

\* An empty array takes a tree of the right height at once.
RECURSIVE HeightFor(_, _)
HeightFor(i, shift) == IF i \div (2 ^ shift) >= Chunk THEN HeightFor(i, shift + XaShift)
                       ELSE shift + XaShift

ExpandHead(x, head) ==
    IF head = Null
    THEN [x EXCEPT !.at = Null, !.e = Null, !.shift = IF x.idx = 0 THEN 0 ELSE HeightFor(x.idx, 0)]
    ELSE XasExpand([x EXCEPT !.at = Null], head,
                   IF IsNode(head) THEN x.t.node[head].shift + XaShift ELSE 0)

AllFree(x) == IF TrackFree THEN [x EXCEPT !.t.node[x.e].marks["free"] = Slots] ELSE x
SetSlot(x, e) == IF x.at = Null THEN [x EXCEPT !.t.head = e]
                 ELSE [x EXCEPT !.t.node[x.at].slots[x.off] = e]

RECURSIVE CreateDown(_, _)
CreateDown(x, shift) ==
    IF shift = 0 \/ (x.e # Null /\ ~IsNode(x.e)) THEN x
    ELSE IF IsNode(x.e) THEN CreateDown(XasDescend(x, x.e), shift - XaShift)
    ELSE LET y == XasAlloc(x, shift - XaShift, x.idx)
         IN  IF Erred(y) THEN y
             ELSE CreateDown(XasDescend(SetSlot(AllFree(y), y.e), y.e), shift - XaShift)

CreateUnder(y, allowRoot) ==
    IF Erred(y) THEN y
    ELSE CreateDown([y EXCEPT !.e = y.t.head],
                    IF y.shift = 0 /\ ~allowRoot THEN XaShift ELSE y.shift)

XasCreate(x, allowRoot) ==
    IF AtTop(x)
    THEN CreateUnder(ExpandHead(x, IF x.t.head = Null /\ ZeroBusy THEN Zero ELSE x.t.head),
                     allowRoot)
    ELSE IF Erred(x) THEN [x EXCEPT !.e = Null]
    ELSE CreateDown([x EXCEPT !.e = XaEntry(x)], NodeAt(x).shift)

-----------------------------------------------------------------------------
(* Storing, and taking apart what is no longer needed.  A freed node keeps *)
(* its contents for readers until they are gone.                           *)

FreedNode(t, n) == [t EXCEPT !.node[n].st = "rcu", !.node[n].count = 0]

RECURSIVE ShrinkFrom(_, _)
ShrinkFrom(x, n) ==
    LET nd == x.t.node[n]
        raw == nd.slots[0]
        e == IF ZeroBusy THEN ZeroToNull(raw) ELSE raw
        t1 == [FreedNode(x.t, n) EXCEPT !.head = e,
                 !.marks = IF TrackFree /\ 0 \notin nd.marks["free"] THEN @ \ {"free"} ELSE @]
    IN  IF nd.count # 1 \/ raw = Null \/ (~IsNode(raw) /\ nd.shift > 0) THEN x
        ELSE IF ~IsNode(e)
             THEN [x EXCEPT !.at = Bounds, !.t = [t1 EXCEPT !.node[n].slots[0] = Retry0]]
             ELSE ShrinkFrom([x EXCEPT !.at = Bounds, !.t = [t1 EXCEPT !.node[e].parent = Null]], e)

XasShrink(x) == ShrinkFrom(x, x.at)

RECURSIVE XasDeleteNode(_)
XasDeleteNode(x) ==
    LET nd == NodeAt(x)
        t == FreedNode(x.t, x.at)
        p == nd.parent
    IN  IF nd.count > 0 THEN IF p = Null THEN XasShrink(x) ELSE x
        ELSE IF p = Null THEN [x EXCEPT !.at = Bounds, !.t = [t EXCEPT !.head = Null]]
        ELSE XasDeleteNode([x EXCEPT !.at = p, !.off = nd.offset,
                              !.t = [t EXCEPT !.node[p].slots[nd.offset] = Null,
                                              !.node[p].count = @ - 1]])

NonNull(e) == IF e = Null THEN 0 ELSE 1

UpdateNode(x, count) ==
    IF x.at = Null \/ count = 0 THEN x
    ELSE LET y == [x EXCEPT !.t.node[x.at].count = @ + count]
         IN  IF count < 0 THEN XasDeleteNode(y) ELSE y

\* What xas_store does once it has found, or made, the slot.
StoreIn(x, e) ==
    IF Invalid(x) \/ x.e = e THEN x
    ELSE UpdateNode(SetSlot(IF e = Null THEN XasInitMarks(x) ELSE x, e),
                    NonNull(e) - NonNull(x.e))

XasStore(x, e) == StoreIn(IF e # Null THEN XasCreate(x, e # Zero) ELSE XasLoad(x), e)

\* xas_free_nodes: everything below the old head, readers find retry entries.
XasFreeNodes(t) ==
    [t EXCEPT !.node = [n \in XaNodes |->
        IF t.node[n].st # "used" THEN t.node[n]
        ELSE [t.node[n] EXCEPT !.st = "rcu", !.count = 0,
                !.slots = [o \in Slots |-> IF @[o] = Null \/ IsNode(@[o]) THEN @[o] ELSE Retry0]]]]

-----------------------------------------------------------------------------
(* Searching.                                                              *)

MoveIndex(x, o) ==
    [x EXCEPT !.idx = (@ - (@ % (Chunk * Size(x.t, x.at)))) + (o * Size(x.t, x.at))]
NextOffset(x) == MoveIndex([x EXCEPT !.off = @ + 1], x.off + 1)
UpNext(x) == [x EXCEPT !.off = NodeAt(x).offset + 1, !.at = NodeAt(x).parent]

RECURSIVE FindOn(_, _)
FindOn(x, max) ==
    IF x.at = Null \/ x.idx > max THEN [x EXCEPT !.at = IF @ = Null THEN Bounds ELSE @, !.e = Null]
    ELSE IF x.off = Chunk THEN FindOn(UpNext(x), max)
    ELSE IF IsNode(XaEntry(x)) THEN FindOn([x EXCEPT !.at = XaEntry(x), !.off = 0], max)
    ELSE IF XaEntry(x) # Null THEN [x EXCEPT !.e = XaEntry(x)]
    ELSE FindOn(NextOffset(x), max)

XasFind(x, max) ==
    LET y == XasLoad(x)
    IN  IF Erred(x) \/ x.at = Bounds THEN [x EXCEPT !.e = Null]
        ELSE IF x.idx > max THEN SetBounds(x)
        ELSE IF x.at = Null THEN SetBounds([x EXCEPT !.idx = 1])
        ELSE IF x.at = Restart
             THEN IF y.e # Null \/ ~IsNode(y.at) THEN y ELSE FindOn(NextOffset(y), max)
        ELSE IF NodeAt(x).shift = 0 /\ x.off # x.idx % Chunk
             THEN FindOn(NextOffset([x EXCEPT !.off = ((x.idx - 1) % Chunk) + 1]), max)
        ELSE FindOn(NextOffset(x), max)

FindChunk(x, advance, m) ==
    LET S == {o \in NodeAt(x).marks[m] : o >= x.off + (IF advance THEN 1 ELSE 0)}
    IN  IF S = {} THEN Chunk ELSE LeastOf(S)

MaxReached(x) == [x EXCEPT !.at = Restart, !.e = Null]
NoneLeft(x, max) == IF x.idx > max THEN MaxReached(x) ELSE SetBounds(x)

RECURSIVE MarkedOn(_, _, _, _)
MarkedOn(x, max, m, advance) ==
    LET o == FindChunk(x, advance, m)
        y == IF o > x.off THEN [MoveIndex(x, o) EXCEPT !.off = o] ELSE x
        adv == advance /\ o <= x.off
        e == XaEntry(y)
        down == [y EXCEPT !.at = e, !.off = GetOffset(y, e)]
    IN  IF x.idx > max THEN MaxReached(x)
        ELSE IF x.off = Chunk
             THEN IF NodeAt(x).parent = Null THEN NoneLeft([UpNext(x) EXCEPT !.at = Null], max)
                  ELSE MarkedOn(UpNext(x), max, m, FALSE)
        ELSE IF o > x.off /\ y.idx - 1 >= max THEN MaxReached(y)
        ELSE IF o = Chunk THEN MarkedOn(y, max, m, FALSE)
        ELSE IF e = Null /\ ~(TrackFree /\ m = "free") THEN MarkedOn(y, max, m, adv)
        ELSE IF IsNode(e) THEN MarkedOn(down, max, m, adv)
        ELSE [y EXCEPT !.e = e]

XasFindMarked(x, max, m) ==
    LET head == x.t.head
        y == [x EXCEPT !.at = head, !.off = x.idx \div Size(x.t, head)]
    IN  IF Erred(x) THEN [x EXCEPT !.e = Null]
        ELSE IF x.idx > max THEN MaxReached(x)
        ELSE IF x.at = Null THEN NoneLeft([x EXCEPT !.idx = 1], max)
        ELSE IF ~AtTop(x) THEN MarkedOn(x, max, m, TRUE)
        ELSE IF x.idx > MaxIndex(x.t, head) THEN NoneLeft([x EXCEPT !.at = Null], max)
        ELSE IF IsNode(head) THEN MarkedOn(y, max, m, FALSE)
        ELSE IF m \in x.t.marks THEN [x EXCEPT !.at = Null, !.e = head]
        ELSE NoneLeft([x EXCEPT !.at = Null, !.idx = 1], max)

FindBy(x, max, filter) ==
    IF filter = "present" THEN XasFind(x, max) ELSE XasFindMarked(x, max, filter)

RECURSIVE FindFrom(_, _, _)
FindFrom(x, max, filter) ==
    LET y == FindBy(x, max, filter) IN IF y.e = Zero THEN FindFrom(y, max, filter) ELSE y

\* The index xa_find returns, -1 if there is none.
Found(x) == IF x.e = Null THEN -1 ELSE x.idx
XaFind(t, i, max, filter) == Found(FindFrom(XaState(t, i, FALSE, 0), max, filter))
XaFindAfter(t, i, max, filter) == XaFind(t, i + 1, max, filter)

\* The shortcuts of xas_for_each and xas_for_each_marked inside a leaf.
RECURSIVE NextEntry(_, _)
NextEntry(x, max) ==
    IF ~IsNode(x.at) \/ NodeAt(x).shift > 0 \/ x.off # x.idx % Chunk
       \/ x.idx >= max \/ x.off = Chunk - 1
    THEN XasFind(x, max)
    ELSE LET e == NodeAt(x).slots[x.off + 1]
             y == [x EXCEPT !.off = @ + 1, !.idx = @ + 1, !.e = e]
         IN  IF e = Zero THEN XasFind(x, max) ELSE IF e = Null THEN NextEntry(y, max) ELSE y

NextMarked(x, max, m) ==
    LET o == FindChunk(x, TRUE, m)
        y == [x EXCEPT !.off = o, !.idx = (@ - (@ % Chunk)) + o]
    IN  IF ~IsNode(x.at) \/ NodeAt(x).shift > 0 THEN XasFindMarked(x, max, m)
        ELSE IF y.idx > max THEN [y EXCEPT !.e = Null]
        ELSE IF o = Chunk \/ XaEntry(y) = Null THEN XasFindMarked(y, max, m)
        ELSE [y EXCEPT !.e = XaEntry(y)]

RECURSIVE ExtractOn(_, _, _, _)
ExtractOn(x, max, n, filter) ==
    IF x.e = Null \/ n = 0 THEN <<>>
    ELSE LET y == IF filter = "present" THEN NextEntry(x, max) ELSE NextMarked(x, max, filter)
         IN  IF x.e = Zero THEN ExtractOn(y, max, n, filter)
             ELSE <<x.idx>> \o ExtractOn(y, max, n - 1, filter)

\* The indices of the entries xa_extract copies.
XaExtract(t, start, max, n, filter) ==
    ExtractOn(FindBy(XaState(t, start, FALSE, 0), max, filter), max, n, filter)

\* xas_next and xas_prev: one index on or back from where the walk stands.
RECURSIVE StepUp(_, _)
StepUp(x, by) ==
    IF x.at = Null THEN SetBounds(x)
    ELSE IF x.off \in Slots THEN XasWalk([x EXCEPT !.e = XaEntry(x)])
    ELSE StepUp([x EXCEPT !.off = NodeAt(x).offset + by, !.at = NodeAt(x).parent], by)

XasStep(x, by) ==
    LET y == IF x.at \in {Restart, NoMem, Busy} THEN x ELSE [x EXCEPT !.idx = @ + by]
    IN  IF y.at = Null THEN SetBounds(y)
        ELSE IF Invalid(y) THEN XasLoad(y)
        ELSE StepUp(IF y.off # GetOffset(y, y.at) THEN [y EXCEPT !.off = @ + by] ELSE y, by)

\* xas_pause: on from the next index, with a new walk.
XasPause(x) ==
    IF Invalid(x) THEN x
    ELSE IF x.at = Null THEN [x EXCEPT !.at = Restart, !.idx = @ + 1]
    ELSE [x EXCEPT !.at = Restart, !.idx = (@ - (@ % Size(x.t, x.at))) + Size(x.t, x.at)]

\* xas_find_conflict, of a single index: the entry there, the first time it is asked
XasFindConflict(x) == IF Erred(x) \/ x.at = Null \/ ~AtTop(x) THEN Null ELSE XasLoad(x).e

-----------------------------------------------------------------------------
(* One attempt at an operation, under xa_lock; "left" allocations succeed. *)

FreeMarkOff(x, yes) == IF yes THEN XasClearMark(x, "free") ELSE x

StoreOf(op) == IF TrackFree /\ op.e = Null THEN Zero ELSE op.e

\* An entry may also be the reserved one: xa_alloc with NULL.
EntryOf(e) == IF e = Null THEN Zero ELSE e

NoneIsBusy(x) == IF x.at = Restart THEN [x EXCEPT !.at = Busy] ELSE x
XaAllocAt(x, op) ==
    NoneIsBusy(XasFindMarked([x EXCEPT !.idx = op.lim[1]], op.lim[2], "free"))

\* Where the operation looks before it stores: __xa_cmpxchg loads, __xa_alloc searches.
Located(op, x) ==
    CASE op.kind \in {"store", "erase"} -> x
      [] op.kind = "cmpxchg" -> XasLoad(x)
      [] OTHER -> XaAllocAt(x, op)

EntryToStore(op) ==
    CASE op.kind = "store" -> StoreOf(op)
      [] op.kind \in {"erase", "cmpxchg"} -> op.e
      [] OTHER -> EntryOf(op.e)

\* Whether the index is no longer free; __xa_cmpxchg asks what was there.
TakesIndex(op, x) ==
    CASE op.kind = "store" -> TrackFree
      [] op.kind = "erase" -> FALSE
      [] op.kind = "cmpxchg" -> TrackFree /\ op.e # Null /\ x.e = Null
      [] OTHER -> TRUE

StoreLocated(op, x) ==
    IF op.kind = "cmpxchg" /\ x.e # op.old THEN x
    ELSE FreeMarkOff(XasStore(x, EntryToStore(op)), TakesIndex(op, x))

Attempt(op, t, left) == StoreLocated(op, Located(op, XaState(t, op.i, op.spare, left)))

Reading == rd.pc \in {"head", "node"}

\* Nodes whose grace period is over.
Settled(t) ==
    [t EXCEPT !.node = [n \in XaNodes |->
        IF t.node[n].st = "rcu" /\ ~Reading THEN BlankNode ELSE t.node[n]]]

\* What the operation means for the array as a map.
AbstractAt(op, i) ==
    CASE op.kind = "store" -> StoreOf(op)
      [] op.kind = "erase" -> Null
      [] op.kind = "cmpxchg" -> IF want[i] = op.old THEN op.e ELSE want[i]
      [] OTHER -> EntryOf(op.e)

\* A reader may see what its index holds at any moment of its walk.
Witnessed(w) == IF Reading THEN [rd EXCEPT !.seen = @ \cup {ZeroToNull(w[rd.i])}] ELSE Idle

Committed(op, i) ==
    /\ want' = [want EXCEPT ![i] = AbstractAt(op, i)]
    /\ wantMark' = IF AbstractAt(op, i) = Null THEN wantMark \ {i} ELSE wantMark
    /\ rd' = Witnessed(want')

Unanswered == [id |-> 0, least |-> 0, told |-> FALSE, past |-> FALSE]
Allocates(op) == op.kind \in {"alloc", "cyclic", "again"}

IsFree(i) == want[i] = Null /\ ~(ZeroBusy /\ i = 0)
LeastFree(lim) == LET S == {i \in lim[1] .. lim[2] : IsFree(i)} IN IF S = {} THEN -1 ELSE LeastOf(S)

\* The second round of __xa_alloc_cyclic: from the limit's own lower end.
FromMin(op) == [op EXCEPT !.kind = "again", !.lim = <<op.i, op.lim[2]>>, !.spare = FALSE]
HasSecondRound(op) == op.kind = "cyclic" /\ op.lim[1] > op.i

Wrapped(id) == (id + 1) % XaIdSize = 0

AfterCyclic(op, id) ==
    [next |-> (id + 1) % XaIdSize, last |-> id,
     wrapped |-> Wrapped(id) \/ (cyc.wrapped /\ op.kind = "again")]

\* The operation ends: done, or refused for want of an id.
Finish(op, x) ==
    /\ pend' = NoOp
    /\ tree' = Settled(x.t)
    /\ IF x.at = Busy
       THEN /\ got' = [Unanswered EXCEPT !.id = -1, !.least = LeastFree(op.lim)]
            /\ rd' = Witnessed(want)
            /\ UNCHANGED <<want, wantMark, cyc>>
       ELSE LET i == IF Allocates(op) THEN x.idx ELSE op.i
            IN  /\ Committed(op, i)
                /\ got' = IF ~Allocates(op) THEN Unanswered
                          ELSE [id |-> i, least |-> LeastFree(op.lim),
                                told |-> op.kind = "again" \/ (op.kind = "cyclic" /\ cyc.wrapped),
                                past |-> op.kind # "alloc" /\ i <= cyc.last]
                /\ cyc' = IF op.kind \in {"cyclic", "again"} THEN AfterCyclic(op, i) ELSE cyc

\* No memory: the lock is dropped with a node in hand, or the operation gives up.
OutOfMemory(op, x) ==
    /\ got' = Unanswered
    /\ rd' = Witnessed(want)
    /\ UNCHANGED <<want, wantMark, cyc>>
    /\ tree' = Settled(x.t)
    /\ \/ pend' = [op EXCEPT !.spare = TRUE]
       \/ pend' = IF HasSecondRound(op) THEN FromMin(op) ELSE NoOp

Ended(op, x) == IF x.at = NoMem THEN OutOfMemory(op, x) ELSE Finish(op, x)

XaTry(op, left) ==
    /\ \E x \in {Attempt(op, tree, left)} :
          IF x.at = Busy /\ HasSecondRound(op)
          THEN \E y \in {Attempt(FromMin(op), Settled(x.t), left)} : Ended(FromMin(op), y)
          ELSE Ended(op, x)
    /\ UNCHANGED xaMode

\* Index 0 of an array that counts it as busy is not the users'.
Usable == {i \in XaIndices : ~(ZeroBusy /\ i = 0)}
Lefts == {0, 1, 3}
Op(kind, i, old, e, lim) ==
    [kind |-> kind, i |-> i, old |-> old, e |-> e, lim |-> lim, spare |-> FALSE]

\* A new operation; none but erasing needs memory, and erasing goes ahead at any time.
XaBegin(op, left) ==
    /\ pend = NoOp /\ xaOps > 0
    /\ XaTry(op, left)
    /\ xaOps' = xaOps - 1

XaStore(i, e, left) == XaBegin(Op("store", i, Null, e, <<0, 0>>), left)
XaErase(i) == XaBegin(Op("erase", i, Null, Null, <<0, 0>>), 0)
XaCmpxchg(i, old, e, left) == XaBegin(Op("cmpxchg", i, old, e, <<0, 0>>), left)
XaReserve(i, left) == XaCmpxchg(i, Null, Zero, left)
XaRelease(i) == XaCmpxchg(i, Zero, Null, 0)
XaInsert(i, e, left) == XaCmpxchg(i, Null, EntryOf(e), left)
XaAlloc(e, lim, left) == TrackFree /\ XaBegin(Op("alloc", lim[1], Null, e, lim), left)

XaAllocCyclic(e, lim, left) ==
    /\ xaMode = "alloc"
    /\ XaBegin(Op("cyclic", lim[1], Null, e,
                  <<IF cyc.next > lim[1] THEN cyc.next ELSE lim[1], lim[2]>>), left)

\* The operation that dropped the lock tries again; erasing needs no memory and may come between.
XaRetry(left) == pend # NoOp /\ XaTry(pend, left) /\ UNCHANGED xaOps

EraseBetween(i) ==
    \E x \in {XasStore(XaState(tree, i, FALSE, 0), Null)} :
        /\ pend # NoOp /\ xaOps > 0
        /\ xaOps' = xaOps - 1
        /\ tree' = Settled(x.t)
        /\ Committed(Op("erase", i, Null, Null, <<0, 0>>), i)
        /\ got' = Unanswered
        /\ UNCHANGED <<xaMode, pend, cyc>>

XaMark(i, set) ==
    LET x == XasLoad(XaState(tree, i, FALSE, 0))
    IN  /\ xaOps > 0
        /\ xaOps' = xaOps - 1
        /\ tree' = IF x.e = Null THEN tree
                   ELSE IF set THEN XasSetMark(x, "m").t ELSE XasClearMark(x, "m").t
        /\ wantMark' = IF want[i] = Null THEN wantMark
                       ELSE IF set THEN wantMark \cup {i} ELSE wantMark \ {i}
        /\ got' = Unanswered
        /\ rd' = Witnessed(want)
        /\ UNCHANGED <<xaMode, want, pend, cyc>>

XaDestroy ==
    LET x == XasInitMarks([XaState(tree, 0, FALSE, 0) EXCEPT !.at = Null])
        t == [x.t EXCEPT !.head = Null, !.marks = IF ZeroBusy THEN @ \ {"free"} ELSE @]
    IN  /\ pend = NoOp /\ xaOps > 0
        /\ xaOps' = xaOps - 1
        /\ tree' = Settled(XasFreeNodes(t))
        /\ want' = [i \in AllIndices |-> Null]
        /\ wantMark' = {}
        /\ rd' = Witnessed(want')
        /\ got' = Unanswered
        /\ UNCHANGED <<xaMode, pend, cyc>>

-----------------------------------------------------------------------------
(* A reader: xa_load under RCU, one slot per step.                         *)

RdBegin(i) ==
    /\ ~Reading /\ xaOps > 0
    /\ xaOps' = xaOps - 1
    /\ rd' = [Idle EXCEPT !.pc = "head", !.i = i, !.seen = {ZeroToNull(want[i])}]
    /\ got' = Unanswered
    /\ UNCHANGED <<xaMode, tree, want, wantMark, pend, cyc>>

\* A reader that ends lets the freed nodes go.
Answered(e) ==
    /\ rd' = [rd EXCEPT !.pc = "done", !.at = Null, !.res = ZeroToNull(e)]
    /\ tree' = [tree EXCEPT !.node = [n \in XaNodes |->
                   IF tree.node[n].st = "rcu" THEN BlankNode ELSE tree.node[n]]]

RdHead ==
    /\ rd.pc = "head"
    /\ IF rd.i > MaxIndex(tree, tree.head) THEN Answered(Null)
       ELSE IF IsNode(tree.head)
            THEN rd' = [rd EXCEPT !.pc = "node", !.at = tree.head] /\ tree' = tree
            ELSE Answered(tree.head)
    /\ got' = Unanswered
    /\ UNCHANGED <<xaMode, want, wantMark, pend, cyc, xaOps>>

\* Mutant: the entry a shrunk node was left with is taken for one.
RetriedNever(e) == FALSE
Retried(e) == e = Retry0

RdNode ==
    LET e == tree.node[rd.at].slots[(rd.i \div Size(tree, rd.at)) % Chunk]
    IN  /\ rd.pc = "node"
        /\ IF Retried(e) THEN rd' = [rd EXCEPT !.pc = "head", !.at = Null] /\ tree' = tree
           ELSE IF IsNode(e) /\ tree.node[rd.at].shift > 0
                THEN rd' = [rd EXCEPT !.at = e] /\ tree' = tree
                ELSE Answered(e)
        /\ got' = Unanswered
        /\ UNCHANGED <<xaMode, want, wantMark, pend, cyc, xaOps>>

XaNext ==
    \/ \E i \in Usable, e \in XaEntries \cup {Null}, left \in Lefts : XaStore(i, e, left)
    \/ \E i \in Usable : XaErase(i)
    \/ \E i \in Usable, old \in XaEntries, e \in XaEntries \cup {Null} : XaCmpxchg(i, old, e, 3)
    \/ \E i \in Usable, left \in Lefts : XaReserve(i, left)
    \/ \E i \in Usable : XaRelease(i)
    \/ \E i \in Usable, e \in XaEntries, left \in Lefts : XaInsert(i, e, left)
    \/ \E e \in XaEntries, lim \in XaLimits, left \in Lefts : XaAlloc(e, lim, left)
    \/ \E e \in XaEntries, lim \in XaLimits, left \in Lefts : XaAllocCyclic(e, lim, left)
    \/ \E left \in Lefts : XaRetry(left)
    \/ \E i \in Usable : EraseBetween(i)
    \/ \E i \in Usable, set \in BOOLEAN : XaMark(i, set)
    \/ XaDestroy
    \/ \E i \in Usable : RdBegin(i)
    \/ RdHead
    \/ RdNode

-----------------------------------------------------------------------------
Used == {n \in XaNodes : tree.node[n].st = "used"}
RECURSIVE Below(_)
Below(e) == IF IsNode(e) THEN {e} \cup UNION {Below(tree.node[e].slots[o]) : o \in Slots} ELSE {}

(* Types: the memory in use is exactly what the head reaches, every node   *)
(* knows its place and the number of its entries, and a mark of a slot     *)
(* says what the node below it says.                                       *)
XaTypeOK ==
    /\ rd.pc \in {"idle", "head", "node", "done"}
    /\ Used = Below(tree.head)
    /\ \A n \in Used :
          LET nd == tree.node[n]
          IN  /\ nd.count = Cardinality({o \in Slots : nd.slots[o] # Null})
              /\ IF nd.parent = Null THEN tree.head = n
                 ELSE tree.node[nd.parent].slots[nd.offset] = n
              /\ \A o \in Slots, m \in Marks : IsNode(nd.slots[o]) =>
                    /\ tree.node[nd.slots[o]].shift = nd.shift - XaShift
                    /\ (o \in nd.marks[m]) = (tree.node[nd.slots[o]].marks[m] # {})

\* something has been done to the array
XaTouched == xaOps < MaxXaOps

(* The array is the map its users were promised: at every index, xa_load   *)
(* finds what was last stored and not erased, and xa_get_mark the mark     *)
(* last set, whatever order of growing, shrinking, running out of memory   *)
(* and trying again led here.                                              *)
XaIsMap ==
  XaTouched =>
    \A i \in AllIndices :
        /\ XaLoad(tree, i) = ZeroToNull(want[i])
        /\ XaGetMark(tree, i, "m") = (i \in wantMark)

Present(i, filter) == want[i] \notin {Null, Zero} /\ (filter = "m" => i \in wantMark)
Matching(from, filter) == {i \in from .. XaTop : Present(i, filter)}
NextMatch(from, filter) ==
    IF Matching(from, filter) = {} THEN -1 ELSE LeastOf(Matching(from, filter))

RECURSIVE InOrder(_)
InOrder(S) == IF S = {} THEN <<>> ELSE <<LeastOf(S)>> \o InOrder(S \ {LeastOf(S)})

(* Searching misses nothing and invents nothing: xa_find and xa_find_after *)
(* return the lowest matching index, xa_extract all of them in order, also *)
(* after xas_pause, xas_next and xas_prev see the neighbours, and          *)
(* xas_find_conflict reports what is in the way once.  Readers are beside  *)
(* the point: the trees are the same without them.                         *)
XaFindExact ==
  XaTouched /\ rd.pc = "idle" =>
    \A i \in AllIndices, f \in {"present", "m"} :
        LET x == XasLoad(XaState(tree, i, FALSE, 0))
            y == FindFrom(XaState(tree, i, FALSE, 0), XaTop, f)
        IN  /\ XaFind(tree, i, XaTop, f) = NextMatch(i, f)
            /\ XaFindAfter(tree, i, XaTop, f) = NextMatch(i + 1, f)
            /\ XaExtract(tree, i, XaTop, XaTop + 1, f) = InOrder(Matching(i, f))
            /\ y.e # Null => Found(FindFrom(XasPause(y), XaTop, f)) = NextMatch(y.idx + 1, f)
            /\ ZeroToNull(XasFindConflict(XaState(tree, i, FALSE, 0))) = ZeroToNull(want[i])
            /\ XasFindConflict(x) = Null
            /\ i < XaTop => ZeroToNull(XasStep(x, 1).e) = ZeroToNull(want[i + 1])
            /\ i > 0 => ZeroToNull(XasStep(x, -1).e) = ZeroToNull(want[i - 1])

(* An allocation hands out the lowest free index of its limit, never one   *)
(* in use or reserved, and fails only if there is none; a cyclic one that  *)
(* falls back to an id not above the last says that it wrapped.            *)
XaAllocFree == got.id = got.least /\ (got.past => got.told)

(* A reader without the lock gets what its index held at some moment of    *)
(* its walk, though nodes are freed, taken off the top or replaced under   *)
(* it.                                                                     *)
XaReadsTrue == rd.pc = "done" => rd.res \in rd.seen

\* To writers, to searches and to readers without the lock the tree of nodes is an array,
\* through growing, shrinking and running out of memory in __xas_nomem.
XaCorrect == XaTypeOK /\ XaIsMap /\ XaFindExact /\ XaAllocFree /\ XaReadsTrue
=============================================================================
