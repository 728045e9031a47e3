---------------------------- MODULE Incremental ----------------------------
(***************************************************************************)
(* The incremental tri-colour collector of module 8.  Marking is done a    *)
(* little at each allocation, and the program rewrites the object graph in *)
(* between.  The free-list space is abstracted to the set of allocated     *)
(* addresses; all objects have one size, so bytes in use are a count.      *)
(*                                                                         *)
(* alloc, collect and the calls they make run without interruption.  Their *)
(* loops are unrolled into steps: pc says what the collector does next,    *)
(* the program runs only when it is "run", and then says where a cycle     *)
(* that completes returns to.                                              *)
(***************************************************************************)
EXTENDS Mutator

CONSTANTS
  MinThreshold,    \* MIN_THRESHOLD, in objects
  MarkBudget,      \* MARK_BUDGET
  White, Grey, Black

ASSUME ThresholdAssumption == MinThreshold \in Nat
ASSUME BudgetAssumption == MarkBudget \in Nat \ {0}
ASSUME ColourAssumption == Cardinality({White, Grey, Black}) = 3

VARIABLES
  allocated,    \* the addresses that hold an object
  colour,       \* address -> the colour in its header
  grey,         \* the collector's worklist
  phase,        \* "Idle" or "Marking"
  threshold,    \* objects in use that start the next cycle
  budget,       \* objects the current mark_step may still blacken
  pc,           \* what the collector does next, "run" if nothing
  then,         \* where pc goes when the cycle is complete
  stored,       \* history: the slots stored to while this cycle marks
  garbage       \* history: what was unreachable when this cycle began

gcVars == <<allocated, refs, colour, grey, phase, threshold, budget, pc, then,
            stored, garbage>>
vars == <<stack, globals, gcVars>>

Colour == {White, Grey, Black}
Capacity == Cardinality(Obj)
Used == Cardinality(allocated)

\* shade, for each member of S: a white object turns grey and joins the
\* worklist, any other is left alone.
Shaded(S) == [o \in Obj |-> IF o \in S /\ colour[o] = White THEN Grey ELSE colour[o]]
NewlyGrey(S) == {o \in S : colour[o] = White}

(***************************************************************************)
(* The cycle                                                               *)
(***************************************************************************)

\* start_cycle: the worklist is emptied and the roots are shaded.
StartCycle ==
  /\ colour' = Shaded(RootRefs)
  /\ grey' = InSomeOrder(NewlyGrey(RootRefs))
  /\ phase' = "Marking"
  /\ stored' = {}
  /\ garbage' = allocated \ Reachable(refs, RootRefs)

\* Slip: the object is blackened, its references are forgotten.
ScanOneBlindly ==
  \E i \in DOMAIN grey :
    /\ colour' = [colour EXCEPT ![grey[i]] = Black]
    /\ grey' = [j \in 1 .. (Len(grey) - 1) |-> IF j < i THEN grey[j] ELSE grey[j + 1]]

\* Slip: every reference goes back on the worklist, scanned or not.
ScanOneAgain ==
  \E i \in DOMAIN grey :
    LET kids == Children(refs, grey[i])
        rest == [j \in 1 .. (Len(grey) - 1) |-> IF j < i THEN grey[j] ELSE grey[j + 1]]
    IN  /\ colour' = [Shaded(kids) EXCEPT ![grey[i]] = Black]
        /\ grey' = rest \o InSomeOrder(kids)

\* One object of mark_step.  Its body is left to the student; this is what
\* its comment asks for: take a grey object, shade what it refers to, colour
\* it black.  Which grey object is taken is not said.
ScanOne ==
  \E i \in DOMAIN grey :
    LET o    == grey[i]
        kids == Children(refs, o)
        rest == [j \in 1 .. (Len(grey) - 1) |-> IF j < i THEN grey[j] ELSE grey[j + 1]]
    IN  /\ colour' = [Shaded(kids \ {o}) EXCEPT ![o] = Black]
        /\ grey' = rest \o InSomeOrder(NewlyGrey(kids \ {o}))

\* A turn of mark_step's loop, called from alloc.  When nothing is grey any
\* more, alloc goes on to finish the cycle, otherwise to take its memory.
MarkOne ==
  /\ pc = "mark" /\ budget > 0 /\ grey # <<>>
  /\ ScanOne
  /\ budget' = budget - 1
  /\ UNCHANGED <<stack, globals, allocated, refs, phase, threshold, pc, then, stored,
                 garbage>>

MarkDone ==
  /\ pc = "mark" /\ (budget = 0 \/ grey = <<>>)
  /\ IF grey = <<>> THEN pc' = "finish" /\ then' = "take"
                    ELSE pc' = "take" /\ then' = then
  /\ budget' = 0
  /\ UNCHANGED <<stack, globals, allocated, refs, colour, grey, phase, threshold,
                 stored, garbage>>

\* Slip: the roots are taken to be those shaded when the cycle began.
ShadeRootsOnce ==
  /\ pc = "finish"
  /\ pc' = "drain"
  /\ UNCHANGED <<stack, globals, allocated, refs, colour, grey, phase, threshold, budget,
                 then, stored, garbage>>

\* finish_marking, first half: the roots of this moment are shaded.
ShadeRootsAgain ==
  /\ pc = "finish"
  /\ colour' = Shaded(RootRefs)
  /\ grey' = grey \o InSomeOrder(NewlyGrey(RootRefs))
  /\ pc' = "drain"
  /\ UNCHANGED <<stack, globals, allocated, refs, phase, threshold, budget, then, stored,
                 garbage>>

\* finish_marking, second half: mark_step until nothing is grey.
Drain ==
  /\ pc = "drain" /\ grey # <<>>
  /\ ScanOne
  /\ UNCHANGED <<stack, globals, allocated, refs, phase, threshold, budget, pc, then,
                 stored, garbage>>

\* Slip: the new threshold is not limited to the capacity.
NextThresholdUnbounded(live) == IF 2 * live > MinThreshold THEN 2 * live ELSE MinThreshold

\* sweep's new threshold: twice what is live, within bounds.
NextThreshold(live) ==
  LET doubled == IF 2 * live > MinThreshold THEN 2 * live ELSE MinThreshold
  IN  IF doubled < Capacity THEN doubled ELSE Capacity

\* Slip: the survivors keep their colour.
SweptColourKept == colour

\* sweep: white objects go back to the space, the others turn white.  A free
\* block's header has no slots.
Doomed == {o \in allocated : colour[o] = White}
SweptColour == [o \in Obj |-> IF o \in allocated THEN White ELSE colour[o]]

\* Slip: the phase is not reset.
SweepKeepsMarking ==
  /\ pc = "drain" /\ grey = <<>>
  /\ allocated' = allocated \ Doomed
  /\ refs' = [o \in Obj |-> IF o \in Doomed THEN Blank ELSE refs[o]]
  /\ colour' = SweptColour
  /\ threshold' = NextThreshold(Cardinality(allocated'))
  /\ pc' = then /\ then' = "run"
  /\ stored' = {} /\ garbage' = {}
  /\ UNCHANGED <<stack, globals, grey, budget, phase>>

Sweep ==
  /\ pc = "drain" /\ grey = <<>>
  /\ allocated' = allocated \ Doomed
  /\ refs' = [o \in Obj |-> IF o \in Doomed THEN Blank ELSE refs[o]]
  /\ colour' = SweptColour
  /\ phase' = "Idle"
  /\ threshold' = NextThreshold(Cardinality(allocated'))
  /\ pc' = then /\ then' = "run"
  /\ stored' = {} /\ garbage' = {}
  /\ UNCHANGED <<stack, globals, grey, budget>>

(***************************************************************************)
(* Allocation and explicit collection                                      *)
(***************************************************************************)

\* No operation is in progress.  Once an object the program can reach has
\* been freed the model follows the program no further: what it then reads
\* is poison, which the debug assertions of Heap reject.
Running ==
  /\ pc = "run"
  /\ Reachable(refs, RootRefs) \subseteq allocated

\* alloc, before it asks the space for memory.
AllocBegin ==
  /\ Running /\ Len(stack) < MaxDepth
  /\ \/ /\ phase = "Marking"
        /\ budget' = MarkBudget
        /\ pc' = "mark"
        /\ UNCHANGED <<colour, grey, phase, stored, garbage>>
     \/ /\ phase = "Idle" /\ Used >= threshold
        /\ StartCycle
        /\ pc' = "take"
        /\ UNCHANGED budget
     \/ /\ phase = "Idle" /\ Used < threshold
        /\ pc' = "take"
        /\ UNCHANGED <<colour, grey, phase, budget, stored, garbage>>
  /\ UNCHANGED <<stack, globals, allocated, refs, threshold, then>>

\* The colour alloc gives a new object, whatever the phase.
NewbornColour == White

\* alloc has memory, at first or after a collection; try_alloc roots it.
AllocTake(o) ==
  /\ pc \in {"take", "retry"}
  /\ o \notin allocated
  /\ allocated' = allocated \cup {o}
  /\ refs' = [refs EXCEPT ![o] = Blank]
  /\ colour' = [colour EXCEPT ![o] = NewbornColour]
  /\ stack' = Append(stack, o)
  /\ pc' = "run"
  /\ UNCHANGED <<globals, grey, phase, threshold, budget, then, stored, garbage>>

\* complete_cycle, up to finish_marking.
CompleteCycle(return) ==
  /\ IF phase = "Idle" THEN StartCycle
                       ELSE UNCHANGED <<colour, grey, phase, stored, garbage>>
  /\ pc' = "finish"
  /\ then' = return
  /\ UNCHANGED <<stack, globals, allocated, refs, threshold, budget>>

\* alloc finds no memory: a whole cycle, then one more try.
AllocCollects ==
  /\ pc = "take" /\ allocated = Obj
  /\ CompleteCycle("retry")

\* alloc returns OutOfMemory.
AllocFails ==
  /\ pc = "retry" /\ allocated = Obj
  /\ pc' = "run"
  /\ UNCHANGED <<stack, globals, allocated, refs, colour, grey, phase, threshold,
                 budget, then, stored, garbage>>

\* collect
Collect ==
  /\ Running
  /\ CompleteCycle("run")

(***************************************************************************)
(* The program                                                             *)
(***************************************************************************)

\* Which objects' stores the barrier acts on.
BarrierActsOn(o) == colour[o] # Black

\* write_field with its barrier.
WriteField(o, i, v) ==
  /\ IF phase = "Marking" /\ v # Null /\ BarrierActsOn(o)
     THEN /\ colour' = Shaded({v})
          /\ grey' = grey \o InSomeOrder(NewlyGrey({v}))
     ELSE UNCHANGED <<colour, grey>>
  /\ refs' = [refs EXCEPT ![o][i] = v]
  /\ stored' = IF phase = "Marking" THEN stored \cup {<<o, i>>} ELSE stored
  /\ UNCHANGED <<allocated, phase, threshold, budget, pc, then, garbage>>

Program ==
  /\ Running
  /\ \/ RootStep /\ UNCHANGED gcVars
     \/ /\ \E o \in StoreTargets, i \in Slot, v \in StoreValues : WriteField(o, i, v)
        /\ UNCHANGED roots

Init ==
  /\ RootsInit
  /\ allocated = {}
  /\ refs = [o \in Obj |-> Blank]
  /\ colour = [o \in Obj |-> White]
  /\ grey = <<>>
  /\ phase = "Idle"
  /\ threshold = IF MinThreshold < Capacity \div 2 THEN MinThreshold ELSE Capacity \div 2
  /\ budget = 0
  /\ pc = "run" /\ then = "run"
  /\ stored = {} /\ garbage = {}

Collector ==
  \/ MarkOne \/ MarkDone \/ ShadeRootsAgain \/ Drain \/ Sweep
  \/ \E o \in Obj : AllocTake(o)
  \/ AllocCollects \/ AllocFails

Next == Program \/ AllocBegin \/ Collect \/ Collector

Spec == Init /\ [][Next]_vars /\ WF_vars(Collector)

(***************************************************************************)
(* Properties                                                              *)
(***************************************************************************)

TypeOK ==
  /\ RootsTypeOK
  /\ allocated \subseteq Obj
  /\ refs \in [Obj -> [Slot -> Ref]]
  /\ colour \in [Obj -> Colour]
  /\ grey \in Seq(Obj)
  /\ phase \in {"Idle", "Marking"}
  /\ threshold \in 0 .. Capacity
  /\ budget \in 0 .. MarkBudget
  /\ pc \in {"run", "mark", "finish", "drain", "take", "retry"}
  /\ then \in {"run", "take", "retry"}
  /\ stored \subseteq Obj \X Slot
  /\ garbage \subseteq allocated

\* "Idle: no cycle in progress.  Every object is white" (Phase::Idle): no
\* colour of one cycle is left over for the next, on any path out of a cycle.
IdleIsWhite ==
  phase = "Idle" => grey = <<>> /\ \A o \in allocated : colour[o] = White

\* "While the collector alone is running, the invariant holds for free": a
\* black object refers to a white one only through a slot the program has
\* stored to during this cycle.
OnlyStoresBreakInvariant ==
  \A o \in allocated, i \in Slot :
    colour[o] = Black /\ refs[o][i] # Null /\ colour[refs[o][i]] = White
      => <<o, i>> \in stored

\* "This is floating garbage ... it is collected by the next cycle": what is
\* garbage when a cycle begins is never shaded in it, whatever the program
\* does in between, so its sweep frees it.
OldGarbageStaysWhite ==
  phase = "Marking" => \A o \in garbage : o \in allocated /\ colour[o] = White

\* The slots whose value marking can rely on: those the program has not stored
\* to while the cycle marked.
Unstored == [o \in Obj |-> [i \in Slot |-> IF <<o, i>> \in stored THEN Null ELSE refs[o][i]]]

\* "The root set is not the one shaded at the start": whatever has been rooted,
\* loaded, moved between roots or allocated while the cycle marked, its sweep
\* frees nothing the present roots reach, except behind a slot that has been
\* stored to.
OnlyStoredEdgesLose ==
  [][Sweep => Reachable(Unstored, RootRefs) \subseteq allocated']_vars

\* Shading twice does nothing, or "marking may never terminate": every alloc
\* and collect returns.
OperationsReturn == []<>(pc = "run")

\* "Marking finishes": as long as the program goes on allocating, a cycle in
\* progress ends, again and again, however many new objects the program makes and links.
CyclesEnd ==
  []<><<AllocBegin>>_vars => []<>(phase = "Idle")

\* "The sweep will free it while the program is still using it": what the
\* barrier is there to prevent.
NothingReachableIsFreed == Reachable(refs, RootRefs) \subseteq allocated
=============================================================================
