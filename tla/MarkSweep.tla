----------------------------- MODULE MarkSweep -----------------------------
(***************************************************************************)
(* The mark-sweep collector of module 4.  The free-list space is           *)
(* abstracted to the set of allocated addresses; all objects have one      *)
(* size, so bytes in use are a count.                                      *)
(*                                                                         *)
(* alloc and collect run without interruption.  Their parts are steps: pc  *)
(* says what the collector does next, the program runs only when it is     *)
(* "run", and then says where a collection returns to.  worth is alloc's   *)
(* local worth_collecting, taken before its first collection.              *)
(***************************************************************************)
EXTENDS Mutator

CONSTANTS
  MinThreshold,    \* MIN_THRESHOLD, in objects
  ThrashLimit      \* THRASH_LIMIT

ASSUME ThresholdAssumption == MinThreshold \in Nat \ {0}
ASSUME LimitAssumption == ThrashLimit \in Nat \ {0}

VARIABLES
  allocated,    \* the addresses that hold an object
  marked,       \* the addresses whose header has FLAG_MARK
  worklist,     \* objects reached but not yet scanned
  threshold,    \* objects in use that start the next collection
  thrashing,    \* consecutive collections that reclaimed almost nothing
  before,       \* objects in use when the collection began
  pc, then, worth,
  stale         \* history: what was marked already when the collection began

gcVars == <<allocated, marked, refs, worklist, threshold, thrashing, before, pc, then,
            worth, stale>>
vars == <<stack, globals, gcVars>>

Capacity == Cardinality(Obj)
Used == Cardinality(allocated)

(***************************************************************************)
(* A collection                                                            *)
(***************************************************************************)

\* root_set: the shadow stack, and nothing else.
StackRefs == {stack[i] : i \in DOMAIN stack} \ {Null}

\* collect, up to the loop of mark_from_roots.
Begin(return) ==
  /\ before' = Used
  /\ worklist' = InSomeOrder(StackRefs)
  /\ pc' = "mark" /\ then' = return
  /\ stale' = marked
  /\ UNCHANGED <<stack, globals, allocated, marked, refs, threshold, thrashing>>

\* Slip: an object is marked but its fields are not followed.
ToScanNothing(o) == {}

\* What marking pushes for an object it scans.
ToScan(o) == Children(refs, o)

\* Slip: an object that is marked already is scanned again.
MarkOneAgain ==
  /\ pc = "mark"
  /\ \E i \in DOMAIN worklist :
       LET o    == worklist[i]
           rest == [j \in 1 .. (Len(worklist) - 1) |->
                      IF j < i THEN worklist[j] ELSE worklist[j + 1]]
       IN  /\ marked' = marked \cup {o}
           /\ worklist' = rest \o InSomeOrder(ToScan(o))
  /\ UNCHANGED <<stack, globals, allocated, refs, threshold, thrashing, before, pc, then,
                 worth, stale>>

\* A turn of mark_from_roots.  Its loop is left to the student; this is what
\* its comments ask for: take an object, and unless it is marked already mark
\* it and add what it refers to.
MarkOne ==
  /\ pc = "mark"
  /\ \E i \in DOMAIN worklist :
       LET o    == worklist[i]
           rest == [j \in 1 .. (Len(worklist) - 1) |->
                      IF j < i THEN worklist[j] ELSE worklist[j + 1]]
       IN  /\ marked' = marked \cup {o}
           /\ worklist' = IF o \in marked THEN rest ELSE rest \o InSomeOrder(ToScan(o))
  /\ UNCHANGED <<stack, globals, allocated, refs, threshold, thrashing, before, pc, then,
                 worth, stale>>

\* The walk of sweep: an object without a mark is freed, and the mark of any
\* other stays.  FreeListSpace::free clears the mark and the slots.
Doomed == allocated \ marked
MarksLeft == marked \ Doomed

\* Slip: the threshold may pass the capacity.
NextThresholdUnbounded(live) == IF 2 * live > MinThreshold THEN 2 * live ELSE MinThreshold

\* The next threshold: twice what is live, within bounds.
NextThreshold(live) ==
  LET doubled == IF 2 * live > MinThreshold THEN 2 * live ELSE MinThreshold
  IN  IF doubled < Capacity THEN doubled ELSE Capacity

\* A nearly full heap of which almost nothing was reclaimed.
Fruitless(live) == 16 * live > 15 * Capacity /\ 32 * (before - live) < Capacity

\* sweep, and the rest of collect.  thrashing counts on beyond the limit in
\* the code; what it decides does not change there.
Sweep ==
  /\ pc = "mark" /\ worklist = <<>>
  /\ allocated' = allocated \ Doomed
  /\ marked' = MarksLeft
  /\ refs' = [o \in Obj |-> IF o \in Doomed THEN Blank ELSE refs[o]]
  /\ threshold' = NextThreshold(Cardinality(allocated'))
  /\ thrashing' = IF ~ Fruitless(Cardinality(allocated')) THEN 0
                  ELSE IF thrashing < ThrashLimit THEN thrashing + 1 ELSE thrashing
  /\ pc' = then /\ then' = "run"
  /\ before' = 0 /\ stale' = {}
  /\ UNCHANGED <<stack, globals, worklist, worth>>

(***************************************************************************)
(* Allocation and explicit collection                                      *)
(***************************************************************************)

\* No operation is in progress.  Once an object the program can reach has
\* been freed the model follows the program no further: what it then reads
\* is poison, which the debug assertions of Heap reject.
Running ==
  /\ pc = "run"
  /\ Reachable(refs, RootRefs) \subseteq allocated

\* alloc enters, and collects first if the threshold is reached.
AllocBegin ==
  /\ Running /\ Len(stack) < MaxDepth
  /\ worth' = (thrashing < ThrashLimit)
  /\ IF worth' /\ Used >= threshold
     THEN Begin("take")
     ELSE /\ pc' = "take"
          /\ UNCHANGED <<stack, globals, allocated, marked, refs, worklist, threshold,
                         thrashing, before, then, stale>>

\* alloc has memory, at first or after a collection; try_alloc roots it.
AllocTake(o) ==
  /\ pc \in {"take", "retry"}
  /\ o \notin allocated
  /\ allocated' = allocated \cup {o}
  /\ refs' = [refs EXCEPT ![o] = Blank]
  /\ marked' = marked \ {o}
  /\ stack' = Append(stack, o)
  /\ pc' = "run" /\ worth' = FALSE
  /\ UNCHANGED <<globals, worklist, threshold, thrashing, before, then, stale>>

\* alloc finds no memory and collects, if that is worth while.
AllocCollects ==
  /\ pc = "take" /\ allocated = Obj /\ worth
  /\ Begin("retry")
  /\ UNCHANGED worth

\* alloc returns OutOfMemory.
AllocFails ==
  /\ allocated = Obj
  /\ pc = "retry" \/ (pc = "take" /\ ~ worth)
  /\ pc' = "run" /\ worth' = FALSE
  /\ UNCHANGED <<stack, globals, allocated, marked, refs, worklist, threshold, thrashing,
                 before, then, stale>>

\* collect
Collect ==
  /\ Running
  /\ Begin("run")
  /\ UNCHANGED worth

(***************************************************************************)
(* The state machine                                                       *)
(***************************************************************************)

\* write_field: no barrier.
WriteField(o, i, v) ==
  /\ refs' = [refs EXCEPT ![o][i] = v]
  /\ UNCHANGED <<stack, globals, allocated, marked, worklist, threshold, thrashing, before,
                 pc, then, worth, stale>>

Program ==
  /\ Running
  /\ \/ RootStep /\ UNCHANGED gcVars
     \/ \E o \in StoreTargets, i \in Slot, v \in StoreValues : WriteField(o, i, v)

Init ==
  /\ RootsInit
  /\ allocated = {} /\ marked = {}
  /\ refs = [o \in Obj |-> Blank]
  /\ worklist = <<>>
  /\ threshold = IF MinThreshold < Capacity \div 2 THEN MinThreshold ELSE Capacity \div 2
  /\ thrashing = 0
  /\ before = 0
  /\ pc = "run" /\ then = "run" /\ worth = FALSE
  /\ stale = {}

Collector ==
  \/ MarkOne \/ Sweep
  \/ \E o \in Obj : AllocTake(o)
  \/ AllocCollects \/ AllocFails

Next == Program \/ AllocBegin \/ Collect \/ Collector

Spec == Init /\ [][Next]_vars /\ WF_vars(Collector)

(***************************************************************************)
(* Properties                                                              *)
(***************************************************************************)

TypeOK ==
  /\ RootsTypeOK
  /\ allocated \subseteq Obj /\ marked \subseteq Obj
  /\ refs \in [Obj -> [Slot -> Ref]]
  /\ worklist \in Seq(Obj)
  /\ threshold \in 0 .. Capacity
  /\ thrashing \in 0 .. ThrashLimit
  /\ before \in 0 .. Capacity
  /\ pc \in {"run", "mark", "take", "retry"}
  /\ then \in {"run", "take", "retry"}
  /\ worth \in BOOLEAN /\ stale \subseteq Obj

\* The graph as marking sees it: an object whose mark is left over from an
\* earlier collection is not scanned.
Fresh == [o \in Obj |-> IF o \in stale THEN Blank ELSE refs[o]]

\* "Whatever is left unmarked is unreachable", and what is marked is reachable,
\* but for two things: marks left over from an earlier collection, and globals.
\* What survives out of reach had such a mark; what the shadow stack reaches
\* without passing through an object that had one survives.
OnlyMarksAndGlobalsMislead ==
  [][Sweep => /\ allocated' \ Reachable(refs, RootRefs) \subseteq stale
              /\ Reachable(Fresh, StackRefs) \subseteq allocated']_vars

\* Each object is scanned once, so marking ends on any graph, and every
\* allocation and collection returns.
OperationsReturn == []<>(pc = "run")
=============================================================================
