------------------------- MODULE IncrementalProofs -------------------------
(***************************************************************************)
(* Proofs about Incremental, for every finite heap, object graph, mark     *)
(* budget and threshold, and every interleaving of the program's stores    *)
(* with the collector's marking.                                           *)
(***************************************************************************)
EXTENDS Incremental, GraphProofs

\* What a cycle may still find: whatever was not garbage when it began.
NotGarbage == allocated \ garbage

\* An alloc, and the cycle it completes, end with a push, for which there was
\* room when alloc began.
RoomToPush ==
  pc \in {"mark", "take", "retry"} \/ (pc \in {"finish", "drain"} /\ then # "run")
    => Len(stack) < MaxDepth

\* Marking goes on only in a cycle.
MarkingHasBegun == pc \in {"mark", "finish", "drain"} => phase = "Marking"

\* While a cycle marks, the program cannot get at what was garbage when it
\* began: no root, no worklist and no other object leads there.  The rest is
\* allocated, so nothing the program uses is handed out a second time.
GarbageIsOutOfReach ==
  phase = "Marking" =>
    /\ RootRefs \subseteq NotGarbage
    /\ Entries(grey) \subseteq NotGarbage
    /\ \A o \in NotGarbage : Children(refs, o) \subseteq NotGarbage

IInv ==
  /\ TypeOK
  /\ RoomToPush
  /\ MarkingHasBegun
  /\ IdleIsWhite
  /\ OnlyStoresBreakInvariant
  /\ OldGarbageStaysWhite
  /\ GarbageIsOutOfReach

\* What is grey waits on the worklist, and when the last of marking begins the
\* roots of the moment are all shaded: with an empty worklist every root is
\* black.
MarkingMissesNoRoot ==
  /\ \A o \in allocated : colour[o] = Grey => o \in Entries(grey)
  /\ pc = "drain" => \A r \in RootRefs : colour[r] # White

USE ObjAssumption, MaxDepthAssumption, ThresholdAssumption, BudgetAssumption

(***************************************************************************)
(* Operators                                                               *)
(***************************************************************************)

\* The three colours are three.
LEMMA ColoursDiffer == White # Grey /\ White # Black /\ Grey # Black
<1>1. \A a, b : IsFiniteSet({a, b}) /\ Cardinality({a, b}) <= 2
  <2>. SUFFICES ASSUME NEW a, NEW b
                PROVE  IsFiniteSet({a, b}) /\ Cardinality({a, b}) <= 2
    OBVIOUS
  <2>1. IsFiniteSet({a}) /\ Cardinality({a}) = 1 /\ {a, b} = {a} \cup {b}
    BY FS_Singleton
  <2>. QED
    BY <2>1, FS_AddElement
<1>2. White = Grey => {White, Grey, Black} = {White, Black}
  OBVIOUS
<1>3. White = Black => {White, Grey, Black} = {White, Grey}
  OBVIOUS
<1>4. Grey = Black => {White, Grey, Black} = {White, Grey}
  OBVIOUS
<1>5. \A a, b : {White, Grey, Black} # {a, b}
  <2>. SUFFICES ASSUME NEW a, NEW b, {White, Grey, Black} = {a, b}
                PROVE  FALSE
    OBVIOUS
  <2>1. Cardinality({a, b}) <= 2
    BY <1>1
  <2>2. Cardinality({a, b}) = 3
    BY ColourAssumption
  <2>. QED
    BY <2>1, <2>2
<1>. QED
  BY <1>2, <1>3, <1>4, <1>5

\* The sizes the pacing computes with are counts of objects.
LEMMA HeapSize ==
  /\ Capacity \in Nat
  /\ \A S \in SUBSET Obj : IsFiniteSet(S) /\ Cardinality(S) \in Nat /\ Cardinality(S) <= Capacity
BY FS_Subset, FS_CardinalityType DEF Capacity

\* shade turns white objects grey and does nothing else.
LEMMA ShadedFacts ==
  ASSUME TypeOK, NEW S \in SUBSET Obj
  PROVE  /\ Shaded(S) \in [Obj -> Colour]
         /\ \A o \in Obj : Shaded(S)[o] = IF o \in S /\ colour[o] = White THEN Grey ELSE colour[o]
         /\ \A o \in S : Shaded(S)[o] # White
         /\ NewlyGrey(S) \in SUBSET S
BY ColoursDiffer DEF Shaded, NewlyGrey, TypeOK, Colour

\* What ScanOne does, in terms of sets.
LEMMA ScanOneFacts ==
  ASSUME IInv, ScanOne
  PROVE  \E o \in Entries(grey) :
           LET kids == Children(refs, o)
           IN  /\ o \in Obj /\ kids \in SUBSET Obj
               /\ colour' \in [Obj -> Colour]
               /\ colour'[o] = Black
               /\ \A p \in Obj \ {o} :
                    colour'[p] = IF p \in kids /\ colour[p] = White THEN Grey ELSE colour[p]
               /\ grey' \in Seq(Obj)
               /\ Entries(grey') \subseteq Entries(grey) \cup kids
               /\ Entries(grey) \ {o} \subseteq Entries(grey')
               /\ NewlyGrey(kids \ {o}) \subseteq Entries(grey')
<1>1. PICK i \in DOMAIN grey :
        /\ colour' = [Shaded(Children(refs, grey[i]) \ {grey[i]}) EXCEPT ![grey[i]] = Black]
        /\ grey' = Without(grey, i) \o InSomeOrder(NewlyGrey(Children(refs, grey[i]) \ {grey[i]}))
  BY DEF ScanOne, Without
<1>. DEFINE o == grey[i]
            kids == Children(refs, o)
            rest == Without(grey, i)
            new == NewlyGrey(kids \ {o})
<1>2. TypeOK /\ grey \in Seq(Obj) /\ o \in Obj /\ o \in Entries(grey) /\ kids \in SUBSET Obj
  BY DEF IInv, TypeOK, Entries, Children, Ref
<1>3. /\ rest \in Seq(Obj) /\ Entries(rest) \subseteq Entries(grey)
      /\ Entries(grey) \ {o} \subseteq Entries(rest)
  BY <1>2, RemovedEntry
<1>4. /\ Shaded(kids \ {o}) \in [Obj -> Colour]
      /\ \A p \in Obj : Shaded(kids \ {o})[p]
                          = IF p \in kids \ {o} /\ colour[p] = White THEN Grey ELSE colour[p]
      /\ new \in SUBSET kids
  BY <1>2, ShadedFacts
<1>5. InSomeOrder(new) \in Seq(Obj) /\ Entries(InSomeOrder(new)) = new
  BY <1>2, <1>4, OrderOf
<1>6. /\ grey' \in Seq(Obj) /\ Entries(grey') \subseteq Entries(grey) \cup kids
      /\ Entries(grey) \ {o} \subseteq Entries(grey') /\ new \subseteq Entries(grey')
  <2>1. grey' = rest \o InSomeOrder(new)
    BY <1>1
  <2>. HIDE DEF rest, new, o, kids
  <2>. QED
    BY <1>3, <1>4, <1>5, <2>1, EntriesOfConcat
<1>7. /\ colour' \in [Obj -> Colour] /\ colour'[o] = Black
      /\ \A p \in Obj \ {o} :
           colour'[p] = IF p \in kids /\ colour[p] = White THEN Grey ELSE colour[p]
  <2>1. colour' = [Shaded(kids \ {o}) EXCEPT ![o] = Black] /\ Black \in Colour
    BY <1>1 DEF Colour
  <2>. HIDE DEF o, kids
  <2>. QED
    BY <1>2, <1>4, <2>1
<1>. QED
  BY <1>2, <1>6, <1>7

\* The next threshold never exceeds the capacity.
LEMMA ThresholdBounded ==
  ASSUME NEW n \in 0 .. Capacity
  PROVE  NextThreshold(n) \in 0 .. Capacity
BY HeapSize DEF NextThreshold

\* What the roots reach contains the roots and all its own children.
LEMMA ReachedFacts ==
  ASSUME TypeOK
  PROVE  /\ RootRefs \in SUBSET Obj
         /\ Reachable(refs, RootRefs) \in SUBSET Obj
         /\ RootRefs \subseteq Reachable(refs, RootRefs)
         /\ \A o \in Reachable(refs, RootRefs) :
              Children(refs, o) \subseteq Reachable(refs, RootRefs)
BY RootsAreObjects, ReachableIsLeast DEF TypeOK

(***************************************************************************)
(* The invariant                                                           *)
(***************************************************************************)

\* A cycle begins in a heap that is white throughout, where all that the
\* program can reach is allocated.
LEMMA StartCycleIInv ==
  ASSUME IInv, phase = "Idle", StartCycle,
         Reachable(refs, RootRefs) \subseteq allocated,
         UNCHANGED <<stack, globals, allocated, refs>>
  PROVE  /\ colour' \in [Obj -> Colour] /\ grey' \in Seq(Obj)
         /\ stored' \subseteq Obj \X Slot /\ garbage' \subseteq allocated'
         /\ IdleIsWhite' /\ OnlyStoresBreakInvariant' /\ OldGarbageStaysWhite'
         /\ GarbageIsOutOfReach'
<1>. DEFINE reach == Reachable(refs, RootRefs)
<1>1. TypeOK /\ \A o \in allocated : colour[o] = White
  BY DEF IInv, IdleIsWhite
<1>2. /\ RootRefs \in SUBSET Obj /\ RootRefs' = RootRefs /\ reach \in SUBSET Obj
      /\ RootRefs \subseteq reach /\ \A o \in reach : Children(refs, o) \subseteq reach
  BY <1>1, ReachedFacts DEF RootRefs
<1>3. /\ colour' \in [Obj -> Colour]
      /\ \A o \in Obj : colour'[o] = IF o \in RootRefs /\ colour[o] = White THEN Grey ELSE colour[o]
  BY <1>1, <1>2, ShadedFacts DEF StartCycle
<1>4. grey' \in Seq(Obj) /\ Entries(grey') \subseteq RootRefs
  BY <1>1, <1>2, ShadedFacts, OrderOf DEF StartCycle
<1>5. /\ phase' = "Marking" /\ stored' = {} /\ garbage' = allocated \ reach
      /\ NotGarbage' = reach
  BY DEF StartCycle, NotGarbage
<1>. HIDE DEF reach
<1>6. \A o \in allocated : colour'[o] # Black
  BY <1>1, <1>2, <1>3, ColoursDiffer DEF TypeOK
<1>7. OnlyStoresBreakInvariant'
  BY <1>6 DEF OnlyStoresBreakInvariant
<1>8. OldGarbageStaysWhite'
  BY <1>1, <1>2, <1>3, <1>5 DEF OldGarbageStaysWhite, TypeOK
<1>9. GarbageIsOutOfReach'
  BY <1>2, <1>4, <1>5 DEF GarbageIsOutOfReach, Children
<1>. QED
  BY <1>3, <1>4, <1>5, <1>7, <1>8, <1>9 DEF IdleIsWhite

\* A scan blackens an object of the worklist and shades its children.
LEMMA ScanOneIInv ==
  ASSUME IInv, ScanOne, phase = "Marking",
         UNCHANGED <<stack, globals, allocated, refs, phase, threshold, pc, then, stored,
                     garbage>>,
         budget' \in 0 .. MarkBudget
  PROVE  IInv'
<1>1. PICK o \in Entries(grey) :
           /\ o \in Obj /\ Children(refs, o) \in SUBSET Obj
           /\ colour' \in [Obj -> Colour]
           /\ colour'[o] = Black
           /\ \A p \in Obj \ {o} : colour'[p] = IF p \in Children(refs, o) /\ colour[p] = White
                                                THEN Grey ELSE colour[p]
           /\ grey' \in Seq(Obj)
           /\ Entries(grey') \subseteq Entries(grey) \cup Children(refs, o)
  BY ScanOneFacts
<1>2. /\ RootRefs \subseteq NotGarbage /\ Entries(grey) \subseteq NotGarbage
      /\ \A p \in NotGarbage : Children(refs, p) \subseteq NotGarbage
  BY DEF IInv, GarbageIsOutOfReach
<1>3. /\ NotGarbage' = NotGarbage /\ RootRefs' = RootRefs /\ o \in NotGarbage
      /\ Children(refs, o) \subseteq NotGarbage
  BY <1>1, <1>2 DEF NotGarbage, RootRefs
<1>4. TypeOK'
  BY <1>1 DEF IInv, TypeOK, RootsTypeOK
<1>5. RoomToPush' /\ MarkingHasBegun' /\ IdleIsWhite'
  BY DEF IInv, RoomToPush, MarkingHasBegun, IdleIsWhite
<1>6. OnlyStoresBreakInvariant'
  <2>1. SUFFICES ASSUME NEW p \in allocated, NEW i \in Slot, colour'[p] = Black,
                        refs[p][i] # Null, colour'[refs[p][i]] = White
                 PROVE  <<p, i>> \in stored
    BY DEF OnlyStoresBreakInvariant
  <2>2. p \in Obj /\ refs[p][i] \in Obj
    BY <2>1 DEF IInv, TypeOK, Ref
  <2>3. (refs[p][i] # o /\ refs[p][i] \notin Children(refs, o)) \/ colour[refs[p][i]] # White
    BY <1>1, <2>1, <2>2, ColoursDiffer
  <2>4. colour[refs[p][i]] = White /\ refs[p][i] # o
    BY <1>1, <2>1, <2>2, ColoursDiffer
  <2>5. p # o
    BY <2>1, <2>3, <2>4 DEF Children
  <2>6. colour[p] = Black
    BY <1>1, <2>1, <2>2, <2>5, ColoursDiffer
  <2>. QED
    BY <2>1, <2>4, <2>6 DEF IInv, OnlyStoresBreakInvariant
<1>7. OldGarbageStaysWhite'
  <2>1. SUFFICES ASSUME NEW g \in garbage
                 PROVE  g \in allocated /\ colour'[g] = White
    BY DEF OldGarbageStaysWhite
  <2>2. g \in allocated /\ colour[g] = White /\ g \in Obj
    BY DEF IInv, OldGarbageStaysWhite, TypeOK
  <2>3. g # o /\ g \notin Children(refs, o)
    BY <1>3 DEF NotGarbage
  <2>. QED
    BY <1>1, <2>2, <2>3
<1>8. GarbageIsOutOfReach'
  BY <1>1, <1>2, <1>3 DEF GarbageIsOutOfReach, Children
<1>. QED
  BY <1>4, <1>5, <1>6, <1>7, <1>8 DEF IInv

\* The roots of the moment are shaded; they lead to no garbage.
LEMMA ShadeRootsIInv ==
  ASSUME IInv, ShadeRootsAgain
  PROVE  IInv'
<1>1. TypeOK /\ phase = "Marking"
  BY DEF IInv, MarkingHasBegun, ShadeRootsAgain
<1>2. /\ RootRefs \subseteq NotGarbage /\ Entries(grey) \subseteq NotGarbage
      /\ \A p \in NotGarbage : Children(refs, p) \subseteq NotGarbage
  BY <1>1 DEF IInv, GarbageIsOutOfReach
<1>3. /\ NotGarbage' = NotGarbage /\ RootRefs' = RootRefs /\ RootRefs \in SUBSET Obj
      /\ UNCHANGED <<stack, globals, allocated, refs, phase, threshold, budget, then, stored,
                     garbage>>
  BY <1>1, ReachedFacts DEF NotGarbage, RootRefs, ShadeRootsAgain
<1>4. /\ colour' \in [Obj -> Colour]
      /\ \A o \in Obj : colour'[o] = IF o \in RootRefs /\ colour[o] = White THEN Grey ELSE colour[o]
      /\ NewlyGrey(RootRefs) \in SUBSET RootRefs
  BY <1>1, <1>3, ShadedFacts DEF ShadeRootsAgain
<1>5. grey' \in Seq(Obj) /\ Entries(grey') \subseteq Entries(grey) \cup RootRefs
  <2>1. /\ InSomeOrder(NewlyGrey(RootRefs)) \in Seq(Obj)
        /\ Entries(InSomeOrder(NewlyGrey(RootRefs))) = NewlyGrey(RootRefs)
    BY <1>3, <1>4, OrderOf
  <2>. QED
    BY <1>1, <1>4, <2>1, EntriesOfConcat DEF TypeOK, ShadeRootsAgain
<1>6. TypeOK'
  BY <1>1, <1>3, <1>4, <1>5 DEF TypeOK, RootsTypeOK, ShadeRootsAgain
<1>7. RoomToPush' /\ MarkingHasBegun' /\ IdleIsWhite'
  BY <1>1, <1>3 DEF IInv, RoomToPush, MarkingHasBegun, IdleIsWhite, ShadeRootsAgain
<1>8. OnlyStoresBreakInvariant'
  <2>1. SUFFICES ASSUME NEW p \in allocated, NEW i \in Slot, colour'[p] = Black,
                        refs[p][i] # Null, colour'[refs[p][i]] = White
                 PROVE  <<p, i>> \in stored
    BY <1>3 DEF OnlyStoresBreakInvariant
  <2>2. p \in Obj /\ refs[p][i] \in Obj
    BY <1>1, <2>1 DEF TypeOK, Ref
  <2>3. colour[p] = Black /\ colour[refs[p][i]] = White
    BY <1>4, <2>1, <2>2, ColoursDiffer
  <2>. QED
    BY <2>1, <2>3 DEF IInv, OnlyStoresBreakInvariant
<1>9. OldGarbageStaysWhite'
  BY <1>1, <1>2, <1>3, <1>4 DEF IInv, OldGarbageStaysWhite, NotGarbage, TypeOK
<1>10. GarbageIsOutOfReach'
  BY <1>2, <1>3, <1>5 DEF GarbageIsOutOfReach, Children
<1>. QED
  BY <1>6, <1>7, <1>8, <1>9, <1>10 DEF IInv

\* A sweep leaves only white objects, and nothing is marking any more.
LEMMA SweepIInv ==
  ASSUME IInv, Sweep
  PROVE  IInv'
<1>1. TypeOK
  BY DEF IInv
<1>2. allocated' \in SUBSET allocated /\ Cardinality(allocated') \in 0 .. Capacity
  BY <1>1, HeapSize DEF TypeOK, Sweep, Doomed
<1>3. threshold' \in 0 .. Capacity
  BY <1>2, ThresholdBounded DEF Sweep
<1>4. colour' \in [Obj -> Colour] /\ \A o \in allocated : colour'[o] = White
  BY <1>1 DEF TypeOK, Sweep, SweptColour, Colour
<1>5. refs' \in [Obj -> [Slot -> Ref]]
  BY <1>1 DEF TypeOK, Sweep, Blank, Ref
<1>6. TypeOK'
  BY <1>1, <1>2, <1>3, <1>4, <1>5 DEF TypeOK, RootsTypeOK, Sweep
<1>7. RoomToPush' /\ MarkingHasBegun' /\ IdleIsWhite' /\ OldGarbageStaysWhite' /\ GarbageIsOutOfReach'
  BY <1>1, <1>2, <1>4 DEF IInv, TypeOK, RoomToPush, MarkingHasBegun, IdleIsWhite, Sweep,
                          OldGarbageStaysWhite, GarbageIsOutOfReach
<1>8. OnlyStoresBreakInvariant'
  BY <1>2, <1>4, ColoursDiffer DEF OnlyStoresBreakInvariant
<1>. QED
  BY <1>6, <1>7, <1>8 DEF IInv

\* A new object is white, and no black object refers to the address it gets.
LEMMA AllocTakeIInv ==
  ASSUME IInv, NEW o \in Obj, AllocTake(o)
  PROVE  IInv'
<1>1. TypeOK /\ o \notin allocated /\ PushRoot(o) /\ pc' = "run"
  BY DEF IInv, RoomToPush, AllocTake, PushRoot
<1>2. RootsTypeOK' /\ RootRefs' = RootRefs \cup {o}
  BY <1>1, PushedRoots, NullAssumption DEF TypeOK, Ref
<1>3. /\ refs' \in [Obj -> [Slot -> Ref]] /\ Children(refs', o) = {}
      /\ \A p \in Obj \ {o} : refs'[p] = refs[p]
  BY <1>1 DEF TypeOK, AllocTake, Blank, Ref, Children
<1>4. /\ colour' \in [Obj -> Colour] /\ colour'[o] = White
      /\ \A p \in Obj \ {o} : colour'[p] = colour[p]
  BY <1>1 DEF TypeOK, AllocTake, NewbornColour, Colour
<1>5. /\ allocated' = allocated \cup {o}
      /\ UNCHANGED <<globals, grey, phase, threshold, budget, then, stored, garbage>>
  BY DEF AllocTake
<1>6. TypeOK'
  BY <1>1, <1>2, <1>3, <1>4, <1>5 DEF TypeOK
<1>7. RoomToPush' /\ MarkingHasBegun' /\ IdleIsWhite' /\ OldGarbageStaysWhite'
  BY <1>1, <1>4, <1>5 DEF IInv, TypeOK, RoomToPush, MarkingHasBegun, IdleIsWhite,
                          OldGarbageStaysWhite
<1>8. GarbageIsOutOfReach'
  <2>1. SUFFICES ASSUME phase = "Marking"
                 PROVE  GarbageIsOutOfReach'
    BY <1>5 DEF GarbageIsOutOfReach
  <2>2. NotGarbage' = NotGarbage \cup {o}
    BY <1>1, <1>5 DEF NotGarbage, TypeOK
  <2>3. \A p \in NotGarbage : Children(refs', p) = Children(refs, p)
    BY <1>1, <1>3 DEF NotGarbage, Children, TypeOK
  <2>4. \A p \in NotGarbage' : Children(refs', p) \subseteq NotGarbage'
    BY <1>3, <2>1, <2>2, <2>3 DEF IInv, GarbageIsOutOfReach
  <2>. QED
    BY <1>2, <1>5, <2>1, <2>2, <2>4 DEF IInv, GarbageIsOutOfReach, Children
<1>9. OnlyStoresBreakInvariant'
  <2>1. SUFFICES ASSUME NEW p \in allocated', NEW i \in Slot, colour'[p] = Black,
                        refs'[p][i] # Null, colour'[refs'[p][i]] = White
                 PROVE  <<p, i>> \in stored
    BY <1>5 DEF OnlyStoresBreakInvariant
  <2>2. /\ p # o /\ p \in allocated /\ p \in Obj /\ refs'[p] = refs[p] /\ colour[p] = Black
        /\ refs[p][i] \in Obj
    BY <1>1, <1>3, <1>4, <1>5, <2>1, ColoursDiffer DEF TypeOK, Ref
  <2>3. phase = "Marking" /\ p \in NotGarbage
    BY <1>1, <2>2, ColoursDiffer
       DEF IInv, IdleIsWhite, OldGarbageStaysWhite, NotGarbage, TypeOK
  <2>4. refs[p][i] \in allocated
    BY <2>1, <2>2, <2>3 DEF IInv, GarbageIsOutOfReach, NotGarbage, Children
  <2>5. colour[refs[p][i]] = White
    BY <1>1, <1>4, <2>1, <2>2, <2>4
  <2>. QED
    BY <2>1, <2>2, <2>5 DEF IInv, OnlyStoresBreakInvariant
<1>. QED
  BY <1>6, <1>7, <1>8, <1>9 DEF IInv

\* An operation on the roots keeps the program away from the garbage.
LEMMA RootStepIInv ==
  ASSUME IInv, Running, RootStep, UNCHANGED gcVars
  PROVE  IInv'
<1>1. /\ TypeOK /\ pc = "run"
      /\ UNCHANGED <<allocated, refs, colour, grey, phase, threshold, budget, pc, then, stored,
                     garbage>>
  BY DEF IInv, Running, gcVars
<1>2. RootsTypeOK' /\ RootRefs' \subseteq Reachable(refs, RootRefs)
  BY <1>1, RootStepKeepsReach DEF TypeOK
<1>3. TypeOK'
  BY <1>1, <1>2 DEF TypeOK
<1>4. /\ RoomToPush' /\ MarkingHasBegun' /\ IdleIsWhite' /\ OldGarbageStaysWhite'
      /\ OnlyStoresBreakInvariant'
  BY <1>1 DEF IInv, RoomToPush, MarkingHasBegun, IdleIsWhite, OldGarbageStaysWhite,
              OnlyStoresBreakInvariant
<1>5. GarbageIsOutOfReach'
  <2>1. SUFFICES ASSUME phase = "Marking"
                 PROVE  GarbageIsOutOfReach'
    BY <1>1 DEF GarbageIsOutOfReach
  <2>2. /\ NotGarbage \in SUBSET Obj /\ NotGarbage' = NotGarbage
        /\ RootRefs \subseteq NotGarbage /\ Entries(grey) \subseteq NotGarbage
        /\ \A p \in NotGarbage : Children(refs, p) \subseteq NotGarbage
    BY <1>1, <2>1 DEF IInv, GarbageIsOutOfReach, NotGarbage, TypeOK
  <2>3. Reachable(refs, RootRefs) \subseteq NotGarbage
    BY <1>1, <2>2, RootsAreObjects, ReachableIsLeast DEF TypeOK
  <2>. QED
    BY <1>1, <1>2, <2>2, <2>3 DEF GarbageIsOutOfReach, Children
<1>. QED
  BY <1>3, <1>4, <1>5 DEF IInv

\* A store is recorded, and what it writes is no garbage.
LEMMA WriteFieldIInv ==
  ASSUME IInv, Running, UNCHANGED roots,
         NEW o \in StoreTargets, NEW i \in Slot, NEW v \in StoreValues, WriteField(o, i, v)
  PROVE  IInv'
<1>1. /\ TypeOK /\ pc = "run"
      /\ UNCHANGED <<stack, globals, allocated, phase, threshold, budget, pc, then, garbage>>
  BY DEF IInv, Running, roots, WriteField
<1>2. o \in Obj /\ o \in RootRefs /\ v \in Ref /\ (v # Null => v \in RootRefs)
  BY <1>1, StoreOperands DEF TypeOK
<1>3. /\ refs' \in [Obj -> [Slot -> Ref]]
      /\ \A p \in Obj, j \in Slot :
           refs'[p][j] = IF p = o /\ j = i THEN v ELSE refs[p][j]
  BY <1>1, <1>2 DEF TypeOK, WriteField
<1>4. /\ colour' \in [Obj -> Colour]
      /\ \A p \in Obj : \/ colour'[p] = colour[p]
                        \/ phase = "Marking" /\ p = v /\ colour[p] = White /\ colour'[p] = Grey
      /\ phase = "Idle" => UNCHANGED <<colour, grey>>
      /\ grey' \in Seq(Obj) /\ Entries(grey') \subseteq Entries(grey) \cup ({v} \ {Null})
  <2>1. CASE phase = "Marking" /\ v # Null /\ BarrierActsOn(o)
    <3>1. /\ {v} \in SUBSET Obj /\ colour' = Shaded({v})
          /\ grey' = grey \o InSomeOrder(NewlyGrey({v}))
      BY <1>2, <2>1 DEF WriteField, Ref
    <3>2. /\ colour' \in [Obj -> Colour] /\ NewlyGrey({v}) \in SUBSET {v}
          /\ \A p \in Obj : colour'[p] = IF p \in {v} /\ colour[p] = White THEN Grey ELSE colour[p]
      BY <1>1, <3>1, ShadedFacts
    <3>3. /\ InSomeOrder(NewlyGrey({v})) \in Seq(Obj)
          /\ Entries(InSomeOrder(NewlyGrey({v}))) = NewlyGrey({v})
      BY <3>1, <3>2, OrderOf
    <3>4. ASSUME NEW s \in Seq(Obj), NEW t \in Seq(Obj), Entries(t) \subseteq {v}
          PROVE  s \o t \in Seq(Obj) /\ Entries(s \o t) \subseteq Entries(s) \cup {v}
      <4>1. Entries(s \o t) = Entries(s) \cup Entries(t)
        BY EntriesOfConcat
      <4>. QED
        BY <3>4, <4>1
    <3>5. grey' \in Seq(Obj) /\ Entries(grey') \subseteq Entries(grey) \cup {v}
      <4>. DEFINE new == InSomeOrder(NewlyGrey({v}))
      <4>1. grey \in Seq(Obj) /\ new \in Seq(Obj) /\ Entries(new) \subseteq {v} /\ grey' = grey \o new
        BY <1>1, <3>1, <3>2, <3>3 DEF TypeOK
      <4>. HIDE DEF new
      <4>. QED
        BY <3>4, <4>1
    <3>. QED
      BY <2>1, <3>2, <3>5
  <2>2. CASE ~ (phase = "Marking" /\ v # Null /\ BarrierActsOn(o))
    BY <1>1, <2>2 DEF WriteField, TypeOK
  <2>. QED
    BY <2>1, <2>2
<1>5. stored' = IF phase = "Marking" THEN stored \cup {<<o, i>>} ELSE stored
  BY DEF WriteField
<1>6. TypeOK'
  BY <1>1, <1>2, <1>3, <1>4, <1>5 DEF TypeOK, RootsTypeOK
<1>7. RoomToPush' /\ MarkingHasBegun' /\ IdleIsWhite'
  BY <1>1, <1>4 DEF IInv, RoomToPush, MarkingHasBegun, IdleIsWhite
<1>8. OnlyStoresBreakInvariant'
  <2>1. SUFFICES ASSUME NEW p \in allocated, NEW j \in Slot, colour'[p] = Black,
                        refs'[p][j] # Null, colour'[refs'[p][j]] = White
                 PROVE  <<p, j>> \in stored'
    BY <1>1 DEF OnlyStoresBreakInvariant
  <2>2. p \in Obj /\ refs'[p][j] \in Obj
    BY <1>1, <1>3, <2>1 DEF TypeOK, Ref
  <2>3. colour[p] = Black /\ colour[refs'[p][j]] = White
    BY <1>4, <2>1, <2>2, ColoursDiffer
  <2>4. phase = "Marking"
    BY <1>1, <2>1, <2>3, ColoursDiffer DEF IInv, IdleIsWhite, TypeOK
  <2>5. CASE p = o /\ j = i
    BY <1>5, <2>4, <2>5
  <2>6. CASE ~ (p = o /\ j = i)
    BY <1>3, <1>5, <2>1, <2>2, <2>3, <2>6 DEF IInv, OnlyStoresBreakInvariant
  <2>. QED
    BY <2>5, <2>6
<1>9. ASSUME phase = "Marking"
      PROVE  OldGarbageStaysWhite' /\ GarbageIsOutOfReach'
  <2>1. /\ RootRefs \subseteq NotGarbage /\ Entries(grey) \subseteq NotGarbage
        /\ \A p \in NotGarbage : Children(refs, p) \subseteq NotGarbage
        /\ \A g \in garbage : g \in allocated /\ colour[g] = White
    BY <1>9 DEF IInv, GarbageIsOutOfReach, OldGarbageStaysWhite
  <2>2. /\ v # Null => v \in NotGarbage
        /\ NotGarbage' = NotGarbage /\ RootRefs' = RootRefs /\ NotGarbage \subseteq Obj
    BY <1>1, <1>2, <2>1 DEF NotGarbage, RootRefs, TypeOK
  <2>3. \A p \in NotGarbage : Children(refs', p) \subseteq NotGarbage
    <3>1. \A p \in Obj : Children(refs', p) \subseteq Children(refs, p) \cup ({v} \ {Null})
      BY <1>3 DEF Children
    <3>. QED
      BY <2>1, <2>2, <3>1
  <2>4. ASSUME NEW g \in garbage
        PROVE  g \in allocated /\ colour'[g] = White
    <3>1. g \in Obj /\ g # v
      BY <1>1, <1>2, <2>1, <2>2, NullAssumption DEF NotGarbage, TypeOK, Ref
    <3>. QED
      BY <1>4, <2>1, <3>1
  <2>5. OldGarbageStaysWhite'
    BY <1>1, <2>4 DEF OldGarbageStaysWhite
  <2>6. GarbageIsOutOfReach'
    BY <1>4, <2>1, <2>2, <2>3 DEF GarbageIsOutOfReach, Children
  <2>. QED
    BY <2>5, <2>6
<1>10. phase # "Marking" => OldGarbageStaysWhite' /\ GarbageIsOutOfReach'
  BY <1>1 DEF OldGarbageStaysWhite, GarbageIsOutOfReach
<1>. QED
  BY <1>6, <1>7, <1>8, <1>9, <1>10 DEF IInv

\* complete_cycle starts a cycle, or goes on with the one there is.
LEMMA CompleteCycleIInv ==
  ASSUME IInv, NEW ret \in {"run", "take", "retry"}, CompleteCycle(ret),
         ret # "run" => Len(stack) < MaxDepth,
         Reachable(refs, RootRefs) \subseteq allocated
  PROVE  IInv'
<1>1. /\ TypeOK /\ pc' = "finish" /\ then' = ret
      /\ UNCHANGED <<stack, globals, allocated, refs, threshold, budget>>
  BY DEF IInv, CompleteCycle
<1>2. RoomToPush'
  BY <1>1 DEF RoomToPush
<1>3. CASE phase = "Idle"
  <2>1. StartCycle /\ phase' = "Marking"
    BY <1>3 DEF CompleteCycle, StartCycle
  <2>2. /\ colour' \in [Obj -> Colour] /\ grey' \in Seq(Obj)
        /\ stored' \subseteq Obj \X Slot /\ garbage' \subseteq allocated'
        /\ IdleIsWhite' /\ OnlyStoresBreakInvariant' /\ OldGarbageStaysWhite'
        /\ GarbageIsOutOfReach'
    BY <1>1, <1>3, <2>1, StartCycleIInv
  <2>3. TypeOK'
    BY <1>1, <2>1, <2>2 DEF TypeOK, RootsTypeOK
  <2>4. MarkingHasBegun'
    BY <2>1 DEF MarkingHasBegun
  <2>. QED
    BY <1>2, <2>2, <2>3, <2>4 DEF IInv
<1>4. CASE phase = "Marking"
  <2>1. UNCHANGED <<colour, grey, phase, stored, garbage>>
    BY <1>4 DEF CompleteCycle
  <2>. QED
    BY <1>1, <1>2, <1>4, <2>1
       DEF IInv, TypeOK, RootsTypeOK, MarkingHasBegun, IdleIsWhite, OnlyStoresBreakInvariant,
           OldGarbageStaysWhite, GarbageIsOutOfReach, RootRefs, NotGarbage
<1>. QED
  BY <1>1, <1>3, <1>4 DEF TypeOK

\* alloc goes on to take memory or to collect, and changes nothing else yet.
LEMMA AllocBeginIInv ==
  ASSUME IInv, AllocBegin
  PROVE  IInv'
<1>1. /\ TypeOK /\ pc = "run" /\ Reachable(refs, RootRefs) \subseteq allocated
      /\ Len(stack) < MaxDepth
      /\ UNCHANGED <<stack, globals, allocated, refs, threshold, then>>
  BY DEF IInv, AllocBegin, Running
<1>2. RoomToPush'
  BY <1>1 DEF RoomToPush
<1>3. CASE phase = "Idle" /\ StartCycle /\ pc' = "take" /\ UNCHANGED budget
  <2>1. /\ colour' \in [Obj -> Colour] /\ grey' \in Seq(Obj)
        /\ stored' \subseteq Obj \X Slot /\ garbage' \subseteq allocated'
        /\ IdleIsWhite' /\ OnlyStoresBreakInvariant' /\ OldGarbageStaysWhite'
        /\ GarbageIsOutOfReach'
    BY <1>1, <1>3, StartCycleIInv
  <2>2. TypeOK'
    BY <1>1, <1>3, <2>1 DEF TypeOK, RootsTypeOK, StartCycle
  <2>3. MarkingHasBegun'
    BY <1>3 DEF MarkingHasBegun
  <2>. QED
    BY <1>2, <2>1, <2>2, <2>3 DEF IInv
<1>4. CASE /\ UNCHANGED <<colour, grey, phase, stored, garbage>>
           /\ \/ phase = "Marking" /\ budget' = MarkBudget /\ pc' = "mark"
              \/ pc' = "take" /\ UNCHANGED budget
  BY <1>1, <1>2, <1>4
     DEF IInv, TypeOK, RootsTypeOK, MarkingHasBegun, IdleIsWhite, OnlyStoresBreakInvariant,
         OldGarbageStaysWhite, GarbageIsOutOfReach, RootRefs, NotGarbage
<1>. QED
  BY <1>3, <1>4 DEF AllocBegin

\* The empty heap satisfies the invariant.
LEMMA InitIInv == Init => IInv
<1>. SUFFICES ASSUME Init
              PROVE  IInv
  OBVIOUS
<1>1. Capacity \div 2 \in 0 .. Capacity
  BY HeapSize
<1>2. threshold \in 0 .. Capacity
  BY <1>1, HeapSize DEF Init
<1>3. refs \in [Obj -> [Slot -> Ref]] /\ RootsTypeOK
  BY DEF Init, RootsInit, RootsTypeOK, Blank, Ref
<1>4. colour \in [Obj -> Colour] /\ grey \in Seq(Obj) /\ budget \in 0 .. MarkBudget
  BY DEF Init, Colour
<1>5. TypeOK
  BY <1>2, <1>3, <1>4 DEF Init, TypeOK
<1>. QED
  BY <1>5 DEF Init, IInv, RoomToPush, MarkingHasBegun, IdleIsWhite, OnlyStoresBreakInvariant,
              OldGarbageStaysWhite, GarbageIsOutOfReach

\* Every step of the machine keeps the invariant.
LEMMA NextIInv == IInv /\ [Next]_vars => IInv'
<1>. SUFFICES ASSUME IInv, [Next]_vars
              PROVE  IInv'
  OBVIOUS
<1>1. CASE MarkOne
  <2>1. /\ ScanOne /\ phase = "Marking" /\ budget' \in 0 .. MarkBudget
        /\ UNCHANGED <<stack, globals, allocated, refs, phase, threshold, pc, then, stored,
                       garbage>>
    BY <1>1 DEF MarkOne, IInv, MarkingHasBegun, TypeOK
  <2>. QED
    BY <2>1, ScanOneIInv
<1>2. CASE Drain
  <2>1. /\ ScanOne /\ phase = "Marking" /\ budget' \in 0 .. MarkBudget
        /\ UNCHANGED <<stack, globals, allocated, refs, phase, threshold, pc, then, stored,
                       garbage>>
    BY <1>2 DEF Drain, IInv, MarkingHasBegun, TypeOK
  <2>. QED
    BY <2>1, ScanOneIInv
<1>3. CASE MarkDone \/ AllocFails \/ UNCHANGED vars
  <2>1. UNCHANGED <<stack, globals, allocated, refs, colour, grey, phase, threshold,
                    stored, garbage>>
    BY <1>3 DEF MarkDone, AllocFails, vars, gcVars
  <2>2. RoomToPush' /\ MarkingHasBegun'
    BY <1>3, <2>1 DEF MarkDone, AllocFails, vars, gcVars, IInv, RoomToPush, MarkingHasBegun
  <2>3. budget' \in 0 .. MarkBudget /\ pc' \in {"run", "mark", "finish", "drain", "take", "retry"}
        /\ then' \in {"run", "take", "retry"}
    BY <1>3 DEF MarkDone, AllocFails, vars, gcVars, IInv, TypeOK
  <2>. QED
    BY <2>1, <2>2, <2>3
       DEF IInv, TypeOK, RootsTypeOK, IdleIsWhite, OnlyStoresBreakInvariant,
           OldGarbageStaysWhite, GarbageIsOutOfReach, RootRefs, NotGarbage
<1>4. CASE Collect
  BY <1>4, CompleteCycleIInv DEF Collect, Running
<1>5. CASE AllocCollects
  <2>1. /\ CompleteCycle("retry") /\ Len(stack) < MaxDepth
        /\ Reachable(refs, RootRefs) \subseteq allocated
    BY <1>5, ReachedFacts DEF AllocCollects, IInv, RoomToPush
  <2>. QED
    BY <2>1, CompleteCycleIInv
<1>6. CASE Program
  BY <1>6, RootStepIInv, WriteFieldIInv DEF Program
<1>. QED
  BY <1>1, <1>2, <1>3, <1>4, <1>5, <1>6, ShadeRootsIInv, SweepIInv, AllocTakeIInv,
     AllocBeginIInv DEF Next, Collector

(***************************************************************************)
(* What marking reaches                                                    *)
(***************************************************************************)

\* A cycle begins with its roots, and nothing else, grey and listed.
LEMMA StartCycleMissesNoRoot ==
  ASSUME IInv, phase = "Idle", StartCycle, pc' # "drain", UNCHANGED allocated
  PROVE  MarkingMissesNoRoot'
<1>1. TypeOK /\ RootRefs \in SUBSET Obj /\ \A o \in allocated : colour[o] = White
  BY ReachedFacts DEF IInv, IdleIsWhite
<1>2. \A o \in Obj : colour'[o] = IF o \in RootRefs /\ colour[o] = White THEN Grey ELSE colour[o]
  BY <1>1, ShadedFacts DEF StartCycle
<1>3. Entries(grey') = NewlyGrey(RootRefs)
  BY <1>1, OrderOf DEF StartCycle, NewlyGrey
<1>4. \A o \in allocated : colour'[o] = Grey => o \in Entries(grey')
  BY <1>1, <1>2, <1>3, ColoursDiffer DEF NewlyGrey, TypeOK
<1>. QED
  BY <1>4 DEF MarkingMissesNoRoot

\* A scan takes one object off the worklist, which it blackens, and lists all
\* it shades.
LEMMA ScanOneMissesNoRoot ==
  ASSUME IInv, MarkingMissesNoRoot, ScanOne,
         UNCHANGED <<stack, globals, allocated, pc>>
  PROVE  MarkingMissesNoRoot'
<1>1. PICK o \in Entries(grey) :
           /\ o \in Obj /\ Children(refs, o) \in SUBSET Obj
           /\ colour'[o] = Black
           /\ \A p \in Obj \ {o} : colour'[p] = IF p \in Children(refs, o) /\ colour[p] = White
                                                THEN Grey ELSE colour[p]
           /\ Entries(grey) \ {o} \subseteq Entries(grey')
           /\ NewlyGrey(Children(refs, o) \ {o}) \subseteq Entries(grey')
  BY ScanOneFacts
<1>2. TypeOK /\ RootRefs \in SUBSET Obj /\ RootRefs' = RootRefs
  BY ReachedFacts DEF IInv, RootRefs
<1>3. ASSUME NEW p \in allocated, colour'[p] = Grey
      PROVE  p \in Entries(grey')
  <2>1. p \in Obj /\ p # o
    BY <1>1, <1>2, <1>3, ColoursDiffer DEF TypeOK
  <2>2. CASE p \in Children(refs, o) /\ colour[p] = White
    BY <1>1, <2>1, <2>2 DEF NewlyGrey
  <2>3. CASE ~ (p \in Children(refs, o) /\ colour[p] = White)
    BY <1>1, <1>3, <2>1, <2>3 DEF MarkingMissesNoRoot
  <2>. QED
    BY <2>2, <2>3
<1>4. \A p \in Obj : colour[p] # White => colour'[p] # White
  BY <1>1, ColoursDiffer
<1>. QED
  BY <1>2, <1>3, <1>4 DEF MarkingMissesNoRoot

\* Every step of the machine keeps it so.
LEMMA NextMissesNoRoot == IInv /\ MarkingMissesNoRoot /\ [Next]_vars => MarkingMissesNoRoot'
<1>. SUFFICES ASSUME IInv, MarkingMissesNoRoot, [Next]_vars
              PROVE  MarkingMissesNoRoot'
  OBVIOUS
<1>1. TypeOK /\ RootRefs \in SUBSET Obj
  BY ReachedFacts DEF IInv
<1>2. CASE MarkOne \/ Drain
  <2>1. ScanOne /\ UNCHANGED <<stack, globals, allocated, pc>>
    BY <1>2 DEF MarkOne, Drain
  <2>. QED
    BY <2>1, ScanOneMissesNoRoot
<1>3. CASE MarkDone \/ AllocFails \/ UNCHANGED vars
  BY <1>3 DEF MarkDone, AllocFails, vars, gcVars, MarkingMissesNoRoot, RootRefs
<1>4. CASE ShadeRootsAgain
  <2>1. /\ \A o \in Obj : colour'[o] = IF o \in RootRefs /\ colour[o] = White
                                       THEN Grey ELSE colour[o]
        /\ RootRefs' = RootRefs /\ UNCHANGED allocated
    BY <1>1, <1>4, ShadedFacts DEF ShadeRootsAgain, RootRefs
  <2>2. Entries(grey') = Entries(grey) \cup NewlyGrey(RootRefs)
    <3>1. /\ InSomeOrder(NewlyGrey(RootRefs)) \in Seq(Obj)
          /\ Entries(InSomeOrder(NewlyGrey(RootRefs))) = NewlyGrey(RootRefs)
      BY <1>1, OrderOf DEF NewlyGrey
    <3>. QED
      BY <1>1, <1>4, <3>1, EntriesOfConcat DEF TypeOK, ShadeRootsAgain
  <2>3. \A o \in allocated : colour'[o] = Grey => o \in Entries(grey')
    BY <1>1, <2>1, <2>2 DEF MarkingMissesNoRoot, NewlyGrey, TypeOK
  <2>4. \A r \in RootRefs : colour'[r] # White
    BY <1>1, <2>1, ColoursDiffer
  <2>. QED
    BY <2>1, <2>3, <2>4 DEF MarkingMissesNoRoot
<1>5. CASE Sweep
  <2>1. allocated' \subseteq allocated /\ pc' = then /\ then # "drain"
    BY <1>1, <1>5 DEF Sweep, TypeOK
  <2>2. \A o \in allocated : colour'[o] = White
    BY <1>1, <1>5 DEF Sweep, SweptColour, TypeOK
  <2>. QED
    BY <2>1, <2>2, ColoursDiffer DEF MarkingMissesNoRoot
<1>6. ASSUME NEW o \in Obj, AllocTake(o)
      PROVE  MarkingMissesNoRoot'
  <2>1. /\ allocated' = allocated \cup {o} /\ pc' = "run" /\ grey' = grey
        /\ colour'[o] = White /\ \A p \in Obj \ {o} : colour'[p] = colour[p]
    BY <1>1, <1>6 DEF AllocTake, NewbornColour, TypeOK
  <2>. QED
    BY <1>1, <2>1, ColoursDiffer DEF MarkingMissesNoRoot, TypeOK
<1>7. CASE Program /\ UNCHANGED gcVars
  BY <1>7 DEF Program, Running, gcVars, MarkingMissesNoRoot
<1>8. ASSUME Running, NEW o \in StoreTargets, NEW i \in Slot, NEW v \in StoreValues,
             WriteField(o, i, v)
      PROVE  MarkingMissesNoRoot'
  <2>1. pc = "run" /\ UNCHANGED <<allocated, pc>> /\ v \in Ref
    BY <1>1, <1>8, StoreOperands DEF Running, WriteField, TypeOK
  <2>2. CASE phase = "Marking" /\ v # Null /\ BarrierActsOn(o)
    <3>1. /\ {v} \in SUBSET Obj /\ colour' = Shaded({v})
          /\ grey' = grey \o InSomeOrder(NewlyGrey({v}))
      BY <1>8, <2>1, <2>2 DEF WriteField, Ref
    <3>2. \A p \in Obj : colour'[p] = IF p \in {v} /\ colour[p] = White THEN Grey ELSE colour[p]
      BY <1>1, <3>1, ShadedFacts
    <3>3. Entries(grey') = Entries(grey) \cup NewlyGrey({v})
      <4>1. /\ InSomeOrder(NewlyGrey({v})) \in Seq(Obj)
            /\ Entries(InSomeOrder(NewlyGrey({v}))) = NewlyGrey({v})
        BY <3>1, OrderOf DEF NewlyGrey
      <4>. QED
        BY <1>1, <3>1, <4>1, EntriesOfConcat DEF TypeOK
    <3>. QED
      BY <1>1, <2>1, <3>2, <3>3 DEF MarkingMissesNoRoot, NewlyGrey, TypeOK
  <2>3. CASE ~ (phase = "Marking" /\ v # Null /\ BarrierActsOn(o))
    BY <1>8, <2>1, <2>3 DEF WriteField, MarkingMissesNoRoot
  <2>. QED
    BY <2>2, <2>3
<1>9. ASSUME NEW ret, CompleteCycle(ret)
      PROVE  MarkingMissesNoRoot'
  <2>1. CASE phase = "Idle"
    BY <1>9, <2>1, StartCycleMissesNoRoot DEF CompleteCycle
  <2>2. CASE phase # "Idle"
    BY <1>9, <2>2 DEF CompleteCycle, MarkingMissesNoRoot
  <2>. QED
    BY <2>1, <2>2
<1>10. CASE AllocBegin
  <2>1. pc' # "drain" /\ UNCHANGED allocated
    BY <1>10 DEF AllocBegin
  <2>2. CASE phase = "Idle" /\ StartCycle
    BY <2>1, <2>2, StartCycleMissesNoRoot
  <2>3. CASE UNCHANGED <<colour, grey>>
    BY <2>1, <2>3 DEF MarkingMissesNoRoot
  <2>. QED
    BY <1>10, <2>2, <2>3 DEF AllocBegin
<1>. QED
  BY <1>2, <1>3, <1>4, <1>5, <1>6, <1>7, <1>8, <1>9, <1>10
     DEF Next, Collector, Program, Collect, AllocCollects

\* When nothing is grey any more, what the roots reach without the slots stored
\* to is black: the roots are, and a black object passes it on.
LEMMA SweepSparesTheUnstored ==
  ASSUME IInv, MarkingMissesNoRoot, Sweep
  PROVE  Reachable(Unstored, RootRefs) \subseteq allocated'
<1>. DEFINE black == {o \in allocated : colour[o] = Black}
<1>1. /\ TypeOK /\ phase = "Marking" /\ grey = <<>> /\ pc = "drain"
      /\ RootRefs \in SUBSET Obj
  BY ReachedFacts DEF IInv, MarkingHasBegun, Sweep
<1>2. /\ RootRefs \subseteq NotGarbage
      /\ \A p \in NotGarbage : Children(refs, p) \subseteq NotGarbage
      /\ NotGarbage \subseteq allocated
      /\ \A g \in garbage : colour[g] = White
  BY <1>1 DEF IInv, GarbageIsOutOfReach, OldGarbageStaysWhite, NotGarbage
<1>3. \A o \in allocated : colour[o] # White => o \in black
  BY <1>1 DEF MarkingMissesNoRoot, Entries, TypeOK, Colour
<1>4. RootRefs \subseteq black
  BY <1>1, <1>2, <1>3 DEF MarkingMissesNoRoot
<1>5. Unstored \in [Obj -> [Slot -> Ref]]
  BY <1>1 DEF TypeOK, Unstored, Ref
<1>6. ASSUME NEW o \in black
      PROVE  Children(Unstored, o) \subseteq black
  <2>1. SUFFICES ASSUME NEW c \in Children(Unstored, o)
                 PROVE  c \in black
    OBVIOUS
  <2>2. o \in allocated /\ o \in Obj /\ colour[o] = Black
    BY <1>1 DEF TypeOK
  <2>3. PICK i \in Slot : <<o, i>> \notin stored /\ c = refs[o][i] /\ c # Null
    BY <1>1, <2>2 DEF Children, Unstored, TypeOK
  <2>4. colour[c] # White
    BY <2>2, <2>3 DEF IInv, OnlyStoresBreakInvariant
  <2>5. o \in NotGarbage
    BY <1>2, <2>2, ColoursDiffer DEF NotGarbage
  <2>6. c \in allocated
    BY <1>2, <2>3, <2>5 DEF Children
  <2>. QED
    BY <1>3, <2>4, <2>6
<1>7. black \in SUBSET Obj /\ black \subseteq allocated'
  BY <1>1, ColoursDiffer DEF TypeOK, Sweep, Doomed
<1>8. Reachable(Unstored, RootRefs) \subseteq black
  <2>. HIDE DEF black
  <2>. QED
    BY <1>1, <1>4, <1>5, <1>6, <1>7, ReachableIsLeast
<1>. QED
  BY <1>7, <1>8

(***************************************************************************)
(* Theorems                                                                *)
(***************************************************************************)

\* The inductive invariant holds throughout: while a cycle marks, what was
\* garbage when it began stays white and out of the program's reach.
THEOREM InvariantHolds == Spec => []IInv
BY InitIInv, NextIInv, PTL DEF Spec

\* Thresholds stay within the capacity and budgets within MARK_BUDGET, and what
\* a cycle took for garbage stays allocated until its sweep.
THEOREM TypeCorrect == Spec => []TypeOK
<1>1. IInv => TypeOK
  BY DEF IInv
<1>. QED
  BY <1>1, InvariantHolds, PTL

\* "Idle: no cycle in progress.  Every object is white": on every path out of a
\* cycle, and whatever is allocated between cycles.
THEOREM IdleHeapIsWhite == Spec => []IdleIsWhite
<1>1. IInv => IdleIsWhite
  BY DEF IInv
<1>. QED
  BY <1>1, InvariantHolds, PTL

\* The tri-colour invariant is broken by the program's stores only: a black
\* object leads to a white one only through a slot stored to in this cycle,
\* which is what a write barrier has to look after.
THEOREM CollectorKeepsInvariant == Spec => []OnlyStoresBreakInvariant
<1>1. IInv => OnlyStoresBreakInvariant
  BY DEF IInv
<1>. QED
  BY <1>1, InvariantHolds, PTL

\* Floating garbage does not outlive the next cycle: what is unreachable when a
\* cycle begins stays white until its sweep, whatever the program does.
THEOREM GarbageStaysWhite == Spec => []OldGarbageStaysWhite
<1>1. IInv => OldGarbageStaysWhite
  BY DEF IInv
<1>. QED
  BY <1>1, InvariantHolds, PTL

\* "The root set is not the one shaded at the start": a cycle's sweep frees
\* nothing that the roots of that moment reach, new objects and handles loaded
\* while the cycle marked included, except behind a slot the program stored to
\* in the cycle.
THEOREM OnlyStoresLose == Spec => OnlyStoredEdgesLose
<1>1. Init => MarkingMissesNoRoot
  BY DEF Init, MarkingMissesNoRoot
<1>2. IInv /\ MarkingMissesNoRoot =>
        [Sweep => Reachable(Unstored, RootRefs) \subseteq allocated']_vars
  BY SweepSparesTheUnstored
<1>3. Spec => []MarkingMissesNoRoot
  BY <1>1, NextMissesNoRoot, InvariantHolds, PTL DEF Spec
<1>. QED
  BY <1>2, <1>3, InvariantHolds, PTL DEF OnlyStoredEdgesLose
=============================================================================
