-------------------------- MODULE MarkSweepProofs --------------------------
(***************************************************************************)
(* Proofs about MarkSweep, for every finite heap, object graph and         *)
(* threshold.                                                              *)
(***************************************************************************)
EXTENDS MarkSweep, GraphProofs

\* A collection and the alloc that called for it end with a push, for which
\* there was room when alloc began.
RoomToPush ==
  pc \in {"take", "retry"} \/ (pc = "mark" /\ then # "run") => Len(stack) < MaxDepth

ToVisit == Entries(worklist)

\* While a collection is marking, what it has marked itself has its references
\* marked or on the worklist, so has the stack, and nothing else is, except
\* what was marked before it began.
MarkingIsExact ==
  pc = "mark" =>
    /\ stale \subseteq marked
    /\ StackRefs \subseteq marked \cup ToVisit
    /\ \A o \in marked \ stale : Children(refs, o) \subseteq marked \cup ToVisit
    /\ marked \cup ToVisit \subseteq stale \cup Reachable(refs, StackRefs)

\* A collection starts in a heap where the program's objects are allocated.
ReachedIsAllocated == pc = "mark" => Reachable(refs, StackRefs) \subseteq allocated

IInv == TypeOK /\ RoomToPush /\ MarkingIsExact /\ ReachedIsAllocated

USE ObjAssumption, MaxDepthAssumption, ThresholdAssumption, LimitAssumption

(***************************************************************************)
(* Operators                                                               *)
(***************************************************************************)

\* The sizes the pacing computes with are counts of objects.
LEMMA HeapSize ==
  /\ Capacity \in Nat
  /\ \A S \in SUBSET Obj : IsFiniteSet(S) /\ Cardinality(S) \in Nat /\ Cardinality(S) <= Capacity
BY FS_Subset, FS_CardinalityType DEF Capacity

\* What the shadow stack reaches, the roots reach.
LEMMA StackIsRooted ==
  ASSUME TypeOK
  PROVE  /\ StackRefs \in SUBSET Obj /\ RootRefs \in SUBSET Obj
         /\ Reachable(refs, StackRefs) \subseteq Reachable(refs, RootRefs)
<1>1. StackRefs \subseteq RootRefs /\ RootRefs \in SUBSET Obj
  BY RootsAreObjects DEF StackRefs, RootRefs, RootSet, TypeOK
<1>. QED
  BY <1>1, ReachableGrows DEF TypeOK

\* The next threshold never exceeds the capacity.
LEMMA ThresholdBounded ==
  ASSUME NEW n \in 0 .. Capacity
  PROVE  NextThreshold(n) \in 0 .. Capacity
BY HeapSize DEF NextThreshold

(***************************************************************************)
(* The invariant                                                           *)
(***************************************************************************)

\* A collection begins with the stack's objects on the worklist.
LEMMA BeginIInv ==
  ASSUME IInv, NEW ret \in {"run", "take", "retry"}, Begin(ret),
         ret # "run" => Len(stack) < MaxDepth,
         Reachable(refs, RootRefs) \subseteq allocated \/ allocated = Obj,
         worth' \in BOOLEAN
  PROVE  IInv'
<1>1. /\ InSomeOrder(StackRefs) \in Seq(Obj) /\ ToVisit' = StackRefs
      /\ StackRefs \in SUBSET Obj /\ StackRefs' = StackRefs
      /\ Reachable(refs, StackRefs) \subseteq Reachable(refs, RootRefs)
  <2>1. /\ StackRefs \in SUBSET Obj /\ StackRefs' = StackRefs
        /\ Reachable(refs, StackRefs) \subseteq Reachable(refs, RootRefs)
    BY StackIsRooted DEF IInv, Begin, StackRefs
  <2>2. worklist' = InSomeOrder(StackRefs)
    BY DEF Begin
  <2>. QED
    BY <2>1, <2>2, OrderOf DEF ToVisit
<1>2. TypeOK'
  BY <1>1, HeapSize DEF IInv, TypeOK, RootsTypeOK, Begin, Used
<1>3. RoomToPush'
  BY DEF RoomToPush, Begin
<1>4. /\ Reachable(refs, StackRefs) \in SUBSET Obj
      /\ StackRefs \subseteq Reachable(refs, StackRefs)
  BY <1>1, ReachableIsLeast DEF IInv, TypeOK
<1>5. MarkingIsExact'
  BY <1>1, <1>4 DEF MarkingIsExact, Begin
<1>6. ReachedIsAllocated'
  BY <1>1, <1>4 DEF ReachedIsAllocated, Begin
<1>. QED
  BY <1>2, <1>3, <1>5, <1>6 DEF IInv

\* A turn of the marking loop moves an object from the worklist to the marks.
LEMMA MarkOneIInv ==
  ASSUME IInv, MarkOne
  PROVE  IInv'
<1>1. PICK i \in DOMAIN worklist :
        /\ marked' = marked \cup {worklist[i]}
        /\ worklist' = IF worklist[i] \in marked THEN Without(worklist, i)
                       ELSE Without(worklist, i) \o InSomeOrder(Children(refs, worklist[i]))
  BY DEF MarkOne, ToScan, Without
<1>. DEFINE o == worklist[i]
            rest == Without(worklist, i)
            left == Entries(rest)
            kids == Children(refs, o)
<1>2. /\ worklist \in Seq(Obj) /\ o \in Obj /\ o \in ToVisit
      /\ kids \in SUBSET Obj
  BY DEF IInv, TypeOK, ToVisit, Entries, Children, Ref
<1>3. /\ rest \in Seq(Obj)
      /\ left \subseteq ToVisit /\ ToVisit \subseteq left \cup {o}
  BY <1>2, RemovedEntry DEF ToVisit
<1>4. worklist' \in Seq(Obj) /\ ToVisit' = left \cup (IF o \in marked THEN {} ELSE kids)
  <2>1. InSomeOrder(kids) \in Seq(Obj) /\ Entries(InSomeOrder(kids)) = kids
    BY <1>2, OrderOf
  <2>2. worklist' = IF o \in marked THEN rest ELSE rest \o InSomeOrder(kids)
    BY <1>1
  <2>3. ToVisit' = Entries(worklist')
    BY DEF ToVisit
  <2>. HIDE DEF o, rest, kids
  <2>4. CASE o \in marked
    BY <1>3, <2>2, <2>3, <2>4
  <2>5. CASE o \notin marked
    BY <1>3, <2>1, <2>2, <2>3, <2>5, EntriesOfConcat
  <2>. QED
    BY <2>4, <2>5
<1>5. /\ marked' = marked \cup {o}
      /\ UNCHANGED <<stack, globals, allocated, refs, threshold, thrashing, before, pc, then,
                     worth, stale>>
  BY <1>1 DEF MarkOne
<1>. HIDE DEF o, rest, left
<1>6. TypeOK'
  BY <1>2, <1>4, <1>5 DEF IInv, TypeOK, RootsTypeOK
<1>7. RoomToPush' /\ ReachedIsAllocated'
  BY <1>5 DEF IInv, RoomToPush, ReachedIsAllocated, StackRefs
<1>8. MarkingIsExact'
  <2>1. pc = "mark" /\ TypeOK
    BY DEF MarkOne, IInv
  <2>2. /\ stale \subseteq marked
        /\ StackRefs \subseteq marked \cup ToVisit
        /\ \A x \in marked \ stale : Children(refs, x) \subseteq marked \cup ToVisit
        /\ marked \cup ToVisit \subseteq stale \cup Reachable(refs, StackRefs)
    BY <2>1 DEF IInv, MarkingIsExact
  <2>3. \A x \in Reachable(refs, StackRefs) : Children(refs, x) \subseteq Reachable(refs, StackRefs)
    BY <2>1, StackIsRooted, ReachableIsLeast DEF TypeOK
  <2>4. CASE o \in marked
    <3>1. marked' = marked /\ ToVisit' \subseteq ToVisit /\ ToVisit \subseteq ToVisit' \cup marked
      BY <1>3, <1>4, <1>5, <2>4
    <3>. QED
      BY <1>5, <2>2, <3>1 DEF MarkingIsExact, StackRefs
  <2>5. CASE o \notin marked
    <3>1. marked' \cup ToVisit' = marked \cup ToVisit \cup kids
      BY <1>2, <1>3, <1>4, <1>5, <2>5
    <3>2. kids \subseteq Reachable(refs, StackRefs)
      BY <1>2, <2>2, <2>3, <2>5
    <3>3. StackRefs' = StackRefs
      BY <1>5 DEF StackRefs
    <3>. QED
      BY <1>2, <1>5, <2>2, <3>1, <3>2, <3>3 DEF MarkingIsExact
  <2>. QED
    BY <2>4, <2>5
<1>. QED
  BY <1>6, <1>7, <1>8 DEF IInv

\* sweep frees what has no mark and sets the pacing.
LEMMA SweepIInv ==
  ASSUME IInv, Sweep
  PROVE  IInv'
<1>1. allocated' \in SUBSET Obj /\ Cardinality(allocated') \in 0 .. Capacity
  BY HeapSize DEF IInv, TypeOK, Sweep, Doomed
<1>2. NextThreshold(Cardinality(allocated')) \in 0 .. Capacity
  BY <1>1, ThresholdBounded
<1>3. Blank \in [Slot -> Ref]
  BY DEF Blank, Ref
<1>4. TypeOK'
  BY <1>1, <1>2, <1>3, HeapSize DEF IInv, TypeOK, RootsTypeOK, Sweep, MarksLeft
<1>5. RoomToPush' /\ MarkingIsExact' /\ ReachedIsAllocated'
  BY DEF IInv, TypeOK, RoomToPush, MarkingIsExact, ReachedIsAllocated, Sweep
<1>. QED
  BY <1>4, <1>5 DEF IInv

\* alloc takes memory that nothing refers to, and roots it.
LEMMA AllocTakeIInv ==
  ASSUME IInv, NEW o \in Obj, AllocTake(o)
  PROVE  IInv'
<1>1. PushRoot(o) /\ pc' = "run"
  BY DEF IInv, RoomToPush, AllocTake, PushRoot
<1>2. RootsTypeOK'
  BY <1>1, PushedRoots DEF IInv, TypeOK, Ref
<1>3. Blank \in [Slot -> Ref]
  BY DEF Blank, Ref
<1>4. TypeOK'
  BY <1>2, <1>3 DEF IInv, TypeOK, AllocTake
<1>. QED
  BY <1>1, <1>4 DEF IInv, RoomToPush, MarkingIsExact, ReachedIsAllocated

\* The program changes roots and fields only between two collections.
LEMMA ProgramIInv ==
  ASSUME IInv, Program
  PROVE  IInv'
<1>1. pc' = "run" /\ TypeOK
  BY DEF IInv, Program, Running, gcVars, WriteField
<1>2. CASE RootStep /\ UNCHANGED gcVars
  <2>1. RootsTypeOK'
    BY <1>1, <1>2, RootStepKeepsReach DEF TypeOK
  <2>. QED
    BY <1>1, <1>2, <2>1 DEF IInv, TypeOK, gcVars, RoomToPush, MarkingIsExact, ReachedIsAllocated
<1>3. ASSUME NEW o \in StoreTargets, NEW i \in Slot, NEW v \in StoreValues, WriteField(o, i, v)
      PROVE  IInv'
  <2>1. o \in Obj /\ v \in Ref
    BY <1>1, StoreOperands DEF TypeOK
  <2>2. TypeOK'
    BY <1>1, <1>3, <2>1 DEF TypeOK, RootsTypeOK, WriteField
  <2>. QED
    BY <1>1, <2>2 DEF IInv, RoomToPush, MarkingIsExact, ReachedIsAllocated
<1>. QED
  BY <1>2, <1>3 DEF Program

\* The empty heap satisfies the invariant.
LEMMA InitIInv == Init => IInv
<1>1. Blank \in [Slot -> Ref]
  BY DEF Blank, Ref
<1>2. Capacity \div 2 \in 0 .. Capacity
  BY HeapSize
<1>3. Init => RootsTypeOK
  BY DEF Init, RootsTypeOK, RootsInit, Ref
<1>4. Init => threshold \in 0 .. Capacity
  BY <1>2, HeapSize DEF Init
<1>5. Init => before \in 0 .. Capacity /\ thrashing \in 0 .. ThrashLimit /\ worklist \in Seq(Obj)
  BY HeapSize DEF Init
<1>6. Init => refs \in [Obj -> [Slot -> Ref]]
  BY <1>1 DEF Init
<1>7. Init => TypeOK
  BY <1>3, <1>4, <1>5, <1>6 DEF Init, TypeOK
<1>. QED
  BY <1>7 DEF Init, IInv, RoomToPush, MarkingIsExact, ReachedIsAllocated

\* Every step of the machine keeps the invariant.
LEMMA NextIInv == IInv /\ [Next]_vars => IInv'
<1>. SUFFICES ASSUME IInv, [Next]_vars
              PROVE  IInv'
  OBVIOUS
<1>1. CASE AllocBegin
  <2>1. CASE worth' /\ Used >= threshold
    <3>1. Begin("take") /\ worth' \in BOOLEAN /\ Len(stack) < MaxDepth
          /\ Reachable(refs, RootRefs) \subseteq allocated
      BY <1>1, <2>1 DEF AllocBegin, Running
    <3>. QED
      BY <3>1, BeginIInv
  <2>2. CASE ~ (worth' /\ Used >= threshold)
    BY <1>1, <2>2 DEF AllocBegin, IInv, TypeOK, RootsTypeOK, RoomToPush, MarkingIsExact,
                      ReachedIsAllocated
  <2>. QED
    BY <2>1, <2>2
<1>2. CASE Collect
  BY <1>2, BeginIInv DEF Collect, Running, IInv, TypeOK
<1>3. CASE AllocCollects
  <2>1. Begin("retry") /\ worth' \in BOOLEAN /\ Len(stack) < MaxDepth /\ allocated = Obj
    BY <1>3 DEF AllocCollects, IInv, TypeOK, RoomToPush
  <2>. QED
    BY <2>1, BeginIInv
<1>4. CASE AllocFails
  BY <1>4 DEF AllocFails, IInv, TypeOK, RootsTypeOK, RoomToPush, MarkingIsExact,
              ReachedIsAllocated
<1>5. CASE UNCHANGED vars
  BY <1>5 DEF vars, gcVars, IInv, TypeOK, RootsTypeOK, RoomToPush, MarkingIsExact,
              ReachedIsAllocated, StackRefs, ToVisit
<1>. QED
  BY <1>1, <1>2, <1>3, <1>4, <1>5, ProgramIInv, MarkOneIInv, SweepIInv, AllocTakeIInv
     DEF Next, Collector

(***************************************************************************)
(* Theorems                                                                *)
(***************************************************************************)

\* The inductive invariant holds throughout: no operation of the program runs
\* while a collection marks, and what marking has reached and what it has still
\* to visit are what the stack reaches and what was marked before.
THEOREM InvariantHolds == Spec => []IInv
BY InitIInv, NextIInv, PTL DEF Spec

\* Whatever is allocated, stored and collected, the threshold stays within the
\* capacity, and alloc always finds room on the stack for what it returns.
THEOREM TypeCorrect == Spec => []TypeOK
<1>1. IInv => TypeOK
  BY DEF IInv
<1>. QED
  BY <1>1, InvariantHolds, PTL

\* When the worklist is empty, the marks are closed in the graph as marking
\* sees it, and a mark that is not left over stands for reachability.
LEMMA SweepIsPrecise ==
  ASSUME IInv, Sweep
  PROVE  /\ allocated' \ Reachable(refs, RootRefs) \subseteq stale
         /\ Reachable(Fresh, StackRefs) \subseteq allocated'
<1>. DEFINE reached == Reachable(refs, StackRefs)
<1>1. /\ pc = "mark" /\ ToVisit = {} /\ TypeOK
      /\ allocated' = allocated \cap marked
  BY DEF IInv, Sweep, ToVisit, Entries, Doomed
<1>2. /\ StackRefs \subseteq marked
      /\ \A o \in marked \ stale : Children(refs, o) \subseteq marked
      /\ marked \subseteq stale \cup reached
      /\ reached \subseteq allocated
      /\ marked \in SUBSET Obj
  BY <1>1 DEF IInv, MarkingIsExact, ReachedIsAllocated, TypeOK
<1>3. allocated' \ Reachable(refs, RootRefs) \subseteq stale
  BY <1>1, <1>2, StackIsRooted
<1>4. /\ Fresh \in [Obj -> [Slot -> Ref]]
      /\ \A o \in Obj : o \in stale => Children(Fresh, o) = {}
      /\ \A o \in Obj : o \notin stale => Children(Fresh, o) = Children(refs, o)
  BY <1>1 DEF TypeOK, Fresh, Blank, Children, Ref
<1>5. Reachable(Fresh, StackRefs) \subseteq marked
  BY <1>1, <1>2, <1>4, StackIsRooted, ReachableIsLeast
<1>6. /\ reached \in SUBSET Obj /\ StackRefs \subseteq reached
      /\ \A o \in reached : Children(refs, o) \subseteq reached
  BY <1>1, StackIsRooted, ReachableIsLeast DEF TypeOK
<1>7. Reachable(Fresh, StackRefs) \subseteq reached
  <2>1. \A o \in reached : Children(Fresh, o) \subseteq reached
    BY <1>4, <1>6
  <2>. QED
    BY <1>1, <1>4, <1>6, <2>1, StackIsRooted, ReachableIsLeast
<1>. QED
  BY <1>1, <1>2, <1>3, <1>5, <1>7

\* "Whatever is left unmarked is unreachable": on any graph, shared or cyclic,
\* in the first collection and in any later one, only a mark left over from an
\* earlier collection keeps what the program has lost, and only such a mark or
\* a reference that starts at a global loses what the program reaches.
THEOREM PreciseUpToOldMarks == Spec => OnlyMarksAndGlobalsMislead
<1>1. IInv /\ [Next]_vars =>
        [Sweep => /\ allocated' \ Reachable(refs, RootRefs) \subseteq stale
                  /\ Reachable(Fresh, StackRefs) \subseteq allocated']_vars
  BY SweepIsPrecise
<1>. QED
  BY InvariantHolds, <1>1, PTL DEF Spec, OnlyMarksAndGlobalsMislead
=============================================================================
