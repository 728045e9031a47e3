--------------------------- MODULE CycleCollector ---------------------------
(***************************************************************************)
(* The trial-deletion cycle collector of module 3: reference counting, and *)
(* a collection that takes the internal references of every suspect's      *)
(* subgraph away (gray), puts back what is still referenced from outside   *)
(* (black) and frees the rest (white).  The free-list space is abstracted  *)
(* to the set of allocated addresses; all objects have one size.           *)
(*                                                                         *)
(* Each turn of each worklist loop is a step.  The program runs only when  *)
(* no cascade and no pass is in progress.                                  *)
(***************************************************************************)
EXTENDS Mutator
LOCAL INSTANCE SequencesExt

CONSTANTS
  MaxRc,           \* bound: an object with this count is stored nowhere it is not yet
  MaxCandidates,   \* bound: with so many candidates filed nothing is allocated
  MaxMissed,       \* bound: with more counts missed the program is not followed
  Black, Gray, White, Purple

ASSUME ColourAssumption == Cardinality({Black, Gray, White, Purple}) = 4

VARIABLES
  allocated,    \* the addresses that hold an object
  rc,           \* address -> its reference count
  colour,       \* address -> the colour in its header
  buffered,     \* the addresses whose header has FLAG_BUFFERED
  candidates,   \* possible roots of cycles, in the order they were filed
  pending,      \* release's worklist
  dropped,      \* popped roots whose hook has not run
  pc,           \* "run", or the pass in progress, or "retry" in alloc
  then,         \* where pc goes when the collection is complete
  todo,         \* what the pass has still to visit
  cycleRoots,   \* collect_cycles' local of this name
  work,         \* the worklist of mark_gray or scan
  blackWork,    \* the worklist of scan_black
  panicked,     \* a count was to go below zero: the program has aborted
  missed,       \* history: address -> references scan_black did not restore
  passedOver    \* history: candidates an earlier collection dropped from the
                \* list without clearing their flag

heap == <<allocated, refs, rc, colour, buffered>>
history == <<missed, passedOver>>
passVars == <<pc, then, todo, cycleRoots, work, blackWork>>
vars == <<stack, globals, heap, candidates, pending, dropped, passVars, panicked, history>>

Colour == {Black, Gray, White, Purple}

Nonnull(s) == SelectSeq(s, LAMBDA h : h # Null)
Kids(o) == Nonnull(refs[o])
Occurrences(s, o) == Cardinality({i \in DOMAIN s : s[i] = o})

(***************************************************************************)
(* Counting                                                                *)
(***************************************************************************)

\* retain: one more, and no suspect any more.
Retain(h) ==
  IF h = Null THEN UNCHANGED <<rc, colour>>
  ELSE /\ rc' = [rc EXCEPT ![h] = @ + 1]
       /\ colour' = [colour EXCEPT ![h] = Black]

\* possible_root
PossibleRoot(s) ==
  IF colour[s] = Purple THEN UNCHANGED <<colour, buffered, candidates>>
  ELSE /\ colour' = [colour EXCEPT ![s] = Purple]
       /\ buffered' = buffered \cup {s}
       /\ candidates' = IF s \in buffered THEN candidates ELSE Append(candidates, s)

\* free_object, for every member of S.  Freeing zeroes the count, and emplace
\* overwrites the rest of the header before it is read again.
FreeObjects(S) ==
  /\ allocated' = allocated \ S
  /\ refs' = [o \in Obj |-> IF o \in S THEN Blank ELSE refs[o]]
  /\ rc' = [o \in Obj |-> IF o \in S THEN 0 ELSE rc[o]]
  /\ colour' = [o \in Obj |-> IF o \in S THEN Black ELSE colour[o]]
  /\ missed' = [o \in Obj |-> IF o \in S THEN 0 ELSE missed[o]]

\* The flag is cleared, or overwritten with the header.
Unflag(S) ==
  /\ buffered' = buffered \ S
  /\ passedOver' = passedOver \ S

\* A turn of release's loop.
ReleaseStep ==
  /\ pending # <<>> /\ ~ panicked
  /\ LET o    == Last(pending)
         rest == Front(pending)
     IN  \/ /\ rc[o] = 0
            /\ panicked' = TRUE
            /\ UNCHANGED <<heap, candidates, pending, history>>
         \/ /\ rc[o] = 1
            /\ pending' = rest \o Kids(o)
            /\ FreeObjects({o}) /\ Unflag({o})
            /\ UNCHANGED <<candidates, panicked>>
         \/ /\ rc[o] > 1
            /\ rc' = [rc EXCEPT ![o] = @ - 1]
            /\ pending' = rest
            /\ PossibleRoot(o)
            /\ UNCHANGED <<allocated, refs, panicked, history>>
  /\ UNCHANGED <<stack, globals, dropped, passVars>>

\* The next on_root_popped of an assign, an unwind or a global change.
ReleaseNext ==
  /\ pending = <<>> /\ dropped # <<>> /\ ~ panicked
  /\ pending' = <<Head(dropped)>>
  /\ dropped' = Tail(dropped)
  /\ UNCHANGED <<stack, globals, heap, candidates, passVars, panicked, history>>

(***************************************************************************)
(* collect_cycles                                                          *)
(***************************************************************************)

\* The candidates are taken out of the buffer, and the first pass begins.
Begin(return) ==
  /\ pc' = "gray" /\ then' = return
  /\ todo' = candidates
  /\ candidates' = <<>>
  /\ UNCHANGED <<stack, globals, heap, pending, dropped, cycleRoots, work, blackWork,
                 panicked, history>>

\* An entry whose block was freed, or that is no suspect any more, is passed
\* over.  Nothing else happens to it: it keeps its flag.
Skipped(s) ==
  \/ s \notin buffered \/ s \notin allocated
  \/ colour[s] # Purple \/ rc[s] = 0

\* Pass 1, next candidate: mark_gray begins with s itself.
GrayNext ==
  /\ pc = "gray" /\ work = <<>> /\ todo # <<>>
  /\ LET s == Head(todo)
     IN  IF Skipped(s)
         THEN /\ passedOver' = passedOver \cup ({s} \cap buffered)
              /\ UNCHANGED <<colour, cycleRoots, work>>
         ELSE /\ UNCHANGED passedOver
              /\ colour' = [colour EXCEPT ![s] = Gray]
              /\ cycleRoots' = Append(cycleRoots, s)
              /\ work' = <<s>>
  /\ todo' = Tail(todo)
  /\ UNCHANGED <<stack, globals, allocated, refs, rc, buffered, candidates, pending,
                 dropped, pc, then, blackWork, panicked, missed>>

\* Slip: a reference arriving at an object already gray is not subtracted.
GrayTurnFreshOnly ==
  /\ pc = "gray" /\ work # <<>> /\ ~ panicked
  /\ LET fresh == {t \in Children(refs, Last(work)) : colour[t] # Gray}
     IN  /\ rc' = [t \in Obj |-> IF t \in fresh THEN rc[t] - 1 ELSE rc[t]]
         /\ colour' = [t \in Obj |-> IF t \in fresh THEN Gray ELSE colour[t]]
         /\ work' = Front(work) \o SetToSeq(fresh)
  /\ UNCHANGED <<stack, globals, allocated, refs, buffered, candidates, pending, dropped,
                 pc, then, todo, cycleRoots, blackWork, panicked, history>>

\* A turn of mark_gray.  Its body is left to the student; this is what its
\* comment asks for: every reference crossed takes one off its target, and a
\* target not yet gray turns gray and is visited.
GrayTurn ==
  /\ pc = "gray" /\ work # <<>> /\ ~ panicked
  /\ LET s == Last(work)
         taken(t) == Occurrences(Kids(s), t)
         fresh == {t \in Children(refs, s) : colour[t] # Gray}
     IN  IF \E t \in Obj : taken(t) > rc[t]
         THEN /\ panicked' = TRUE
              /\ UNCHANGED <<rc, colour, work>>
         ELSE /\ rc' = [t \in Obj |-> rc[t] - taken(t)]
              /\ colour' = [t \in Obj |-> IF t \in fresh THEN Gray ELSE colour[t]]
              /\ work' = Front(work) \o SetToSeq(fresh)
              /\ UNCHANGED panicked
  /\ UNCHANGED <<stack, globals, allocated, refs, buffered, candidates, pending, dropped,
                 pc, then, todo, cycleRoots, blackWork, history>>

\* Slip: the pass starts over as long as it has found cycle roots.
GrayDoneRepeats ==
  /\ pc = "gray" /\ work = <<>> /\ todo = <<>>
  /\ pc' = (IF cycleRoots = <<>> THEN "scan" ELSE "gray") /\ todo' = cycleRoots
  /\ UNCHANGED <<stack, globals, heap, candidates, pending, dropped, then, cycleRoots, work,
                 blackWork, panicked, history>>

GrayDone ==
  /\ pc = "gray" /\ work = <<>> /\ todo = <<>>
  /\ pc' = "scan" /\ todo' = cycleRoots
  /\ UNCHANGED <<stack, globals, heap, candidates, pending, dropped, then, cycleRoots, work,
                 blackWork, panicked, history>>

\* Pass 2, next cycle root.
ScanNext ==
  /\ pc = "scan" /\ work = <<>> /\ blackWork = <<>> /\ todo # <<>>
  /\ work' = <<Head(todo)>>
  /\ todo' = Tail(todo)
  /\ UNCHANGED <<stack, globals, heap, candidates, pending, dropped, pc, then, cycleRoots,
                 blackWork, panicked, history>>

\* Slip: a survivor turns black, but nothing behind it is put back.
ScanTurnShallow ==
  /\ pc = "scan" /\ work # <<>> /\ blackWork = <<>>
  /\ LET s == Last(work)
     IN  /\ colour' = [colour EXCEPT ![s] = IF @ # Gray THEN @ ELSE IF rc[s] > 0 THEN Black
                                           ELSE White]
         /\ work' = Front(work) \o (IF colour[s] = Gray THEN Kids(s) ELSE <<>>)
  /\ UNCHANGED <<stack, globals, allocated, refs, rc, buffered, candidates, pending, dropped,
                 pc, then, todo, cycleRoots, blackWork, panicked, history>>

\* A turn of scan's loop.
ScanTurn ==
  /\ pc = "scan" /\ work # <<>> /\ blackWork = <<>>
  /\ LET s    == Last(work)
         rest == Front(work)
     IN  \/ /\ colour[s] # Gray
            /\ work' = rest
            /\ UNCHANGED <<colour, blackWork>>
         \/ /\ colour[s] = Gray /\ rc[s] > 0
            /\ colour' = [colour EXCEPT ![s] = Black]
            /\ blackWork' = <<s>>
            /\ work' = rest
         \/ /\ colour[s] = Gray /\ rc[s] = 0
            /\ colour' = [colour EXCEPT ![s] = White]
            /\ work' = rest \o Kids(s)
            /\ UNCHANGED blackWork
  /\ UNCHANGED <<stack, globals, allocated, refs, rc, buffered, candidates, pending, dropped,
                 pc, then, todo, cycleRoots, panicked, history>>

\* A turn of scan_black's loop: of the references s holds, one to each target
\* that is not black is restored.
BlackTurn ==
  /\ blackWork # <<>>
  /\ LET s     == Last(blackWork)
         fresh == {t \in Children(refs, s) : colour[t] # Black}
         restored(t) == IF t \in fresh THEN 1 ELSE 0
     IN  /\ rc' = [t \in Obj |-> rc[t] + restored(t)]
         /\ colour' = [t \in Obj |-> IF t \in fresh THEN Black ELSE colour[t]]
         /\ blackWork' = Front(blackWork) \o SetToSeq(fresh)
         /\ missed' = [t \in Obj |-> missed[t] + Occurrences(Kids(s), t) - restored(t)]
  /\ UNCHANGED <<stack, globals, allocated, refs, buffered, candidates, pending, dropped,
                 pc, then, todo, cycleRoots, work, panicked, passedOver>>

ScanDone ==
  /\ pc = "scan" /\ work = <<>> /\ blackWork = <<>> /\ todo = <<>>
  /\ pc' = "white" /\ todo' = cycleRoots
  /\ UNCHANGED <<stack, globals, heap, candidates, pending, dropped, then, cycleRoots, work,
                 blackWork, panicked, history>>

\* Slip: only the root itself is freed.
WhiteRootOnly(s) == {o \in allocated \cap {s} : colour[o] = White}

\* What collect_white frees: the white part of the root's subgraph, but not
\* what is still buffered nor what lies behind it.
WhitePart(s) ==
  LET free(o) == o \in allocated /\ colour[o] = White /\ (o = s \/ o \notin buffered)
      whites  == [o \in Obj |-> IF free(o) THEN refs[o] ELSE Blank]
  IN  IF free(s) THEN {o \in Reachable(whites, {s}) : free(o)} ELSE {}

\* Slip: the flag of the cycle root stays.
WhiteNextKeepsFlag ==
  /\ pc = "white" /\ todo # <<>>
  /\ FreeObjects(WhitePart(Head(todo)))
  /\ todo' = Tail(todo)
  /\ UNCHANGED <<stack, globals, buffered, passedOver, candidates, pending, dropped, pc,
                 then, cycleRoots, work, blackWork, panicked>>

\* Pass 3, next cycle root.  collect_white's body is left to the student.
WhiteNext ==
  /\ pc = "white" /\ todo # <<>>
  /\ LET s == Head(todo)
     IN  /\ FreeObjects(WhitePart(s))
         /\ Unflag({s} \cup WhitePart(s))
  /\ todo' = Tail(todo)
  /\ UNCHANGED <<stack, globals, candidates, pending, dropped, pc, then, cycleRoots, work,
                 blackWork, panicked>>

WhiteDone ==
  /\ pc = "white" /\ todo = <<>>
  /\ pc' = then /\ then' = "run"
  /\ cycleRoots' = <<>>
  /\ UNCHANGED <<stack, globals, heap, candidates, pending, dropped, todo, work, blackWork,
                 panicked, history>>

(***************************************************************************)
(* The hooks of the Collector trait, and allocation                        *)
(***************************************************************************)

\* Everything that counts refers to objects that exist and count; once that
\* fails the model follows the program no further.  White objects do not
\* count: they are garbage that collect_white left behind.
Intact ==
  LET sound == {o \in allocated : colour[o] # White}
  IN  RootRefs \cup UNION {Children(refs, o) : o \in sound} \subseteq sound

Idle == pc = "run" /\ pending = <<>> /\ dropped = <<>> /\ ~ panicked
Running == Idle /\ Intact /\ \A o \in Obj : missed[o] <= MaxMissed

\* on_root_pushed, after load, dup and global.
OnPushed(h) ==
  /\ Retain(h)
  /\ UNCHANGED <<allocated, refs, buffered, candidates, pending, dropped, passVars, panicked,
                 history>>

\* on_global_changed, and the two hooks of assign: the new value first.
OnReplaced(new, old) ==
  /\ Retain(new)
  /\ dropped' = Nonnull(<<old>>)
  /\ UNCHANGED <<allocated, refs, buffered, candidates, pending, passVars, panicked, history>>

\* on_root_popped, for each handle an unwind drops.
OnDropped(handles) ==
  /\ dropped' = Nonnull(handles)
  /\ UNCHANGED <<heap, candidates, pending, passVars, panicked, history>>

\* write_field: retain the new value, store it, release the old one.
WriteField(o, i, v) ==
  /\ v \notin {Null, refs[o][i]} => rc[v] < MaxRc
  /\ Retain(v)
  /\ refs' = [refs EXCEPT ![o][i] = v]
  /\ pending' = Nonnull(<<refs[o][i]>>)
  /\ UNCHANGED <<stack, globals, allocated, buffered, candidates, dropped, passVars, panicked,
                 history>>

\* alloc has memory, at first or after a collection; try_alloc roots it.
AllocTake(o) ==
  /\ Running \/ (pc = "retry" /\ Intact)
  /\ o \notin allocated
  /\ Len(candidates) < MaxCandidates
  /\ PushRoot(o)
  /\ allocated' = allocated \cup {o}
  /\ refs' = [refs EXCEPT ![o] = Blank]
  /\ rc' = [rc EXCEPT ![o] = 1]
  /\ colour' = [colour EXCEPT ![o] = Black]
  /\ Unflag({o})
  /\ missed' = [missed EXCEPT ![o] = 0]
  /\ pc' = "run"
  /\ UNCHANGED <<candidates, pending, dropped, then, todo, cycleRoots, work, blackWork,
                 panicked>>

AllocCollects ==
  /\ Running /\ Len(stack) < MaxDepth
  /\ allocated = Obj
  /\ Begin("retry")

\* alloc returns OutOfMemory.
AllocFails ==
  /\ pc = "retry" /\ allocated = Obj
  /\ pc' = "run"
  /\ UNCHANGED <<stack, globals, heap, candidates, pending, dropped, then, todo, cycleRoots,
                 work, blackWork, panicked, history>>

\* collect
Collect == Running /\ Begin("run")

(***************************************************************************)
(* The state machine                                                       *)
(***************************************************************************)

Program ==
  /\ Running
  /\ \/ \E o \in StoreTargets, i \in Slot, v \in StoreValues : WriteField(o, i, v)
     \/ \E p \in DOMAIN stack, i \in Slot : Load(p, i) /\ OnPushed(Loaded(p, i))
     \/ \E s \in DOMAIN stack : Dup(s) /\ OnPushed(stack[s])
     \/ \E dst, src \in DOMAIN stack :
          Assign(dst, src) /\ OnReplaced(stack[src], stack[dst])
     \/ \E depth \in 0 .. (Len(stack) - 1) : Unwind(depth) /\ OnDropped(Dropped(depth))
     \/ \E n \in Name, s \in DOMAIN stack :
          SetGlobal(n, s) /\ OnReplaced(stack[s], globals[n])
     \/ \E n \in Name : Global(n) /\ OnPushed(globals[n])
     \/ \E n \in Name : ClearGlobal(n) /\ OnReplaced(Null, globals[n])

Collector ==
  \/ ReleaseStep \/ ReleaseNext
  \/ GrayNext \/ GrayTurn \/ GrayDone
  \/ ScanNext \/ ScanTurn \/ BlackTurn \/ ScanDone
  \/ WhiteNext \/ WhiteDone
  \/ (pc = "retry" /\ \E o \in Obj : AllocTake(o))
  \/ AllocFails

Init ==
  /\ RootsInit
  /\ allocated = {} /\ buffered = {}
  /\ refs = [o \in Obj |-> Blank]
  /\ rc = [o \in Obj |-> 0]
  /\ colour = [o \in Obj |-> Black]
  /\ candidates = <<>> /\ pending = <<>> /\ dropped = <<>>
  /\ pc = "run" /\ then = "run"
  /\ todo = <<>> /\ cycleRoots = <<>> /\ work = <<>> /\ blackWork = <<>>
  /\ panicked = FALSE
  /\ missed = [o \in Obj |-> 0]
  /\ passedOver = {}

Next ==
  \/ Program
  \/ pc = "run" /\ \E o \in Obj : AllocTake(o)
  \/ AllocCollects \/ Collect
  \/ Collector

Spec == Init /\ [][Next]_vars /\ WF_vars(Collector)

(***************************************************************************)
(* Properties                                                              *)
(***************************************************************************)

TypeOK ==
  /\ RootsTypeOK
  /\ allocated \subseteq Obj /\ buffered \subseteq allocated /\ passedOver \subseteq buffered
  /\ refs \in [Obj -> [Slot -> Ref]]
  /\ rc \in [Obj -> Nat] /\ missed \in [Obj -> Nat]
  /\ colour \in [Obj -> Colour]
  /\ \A s \in {candidates, pending, dropped, todo, cycleRoots, work, blackWork} : s \in Seq(Obj)
  /\ pc \in {"run", "gray", "scan", "white", "retry"}
  /\ then \in {"run", "retry"}
  /\ panicked \in BOOLEAN

\* The references to o that some release has still to take away.
References(o) ==
  Occurrences(stack, o)
  + Cardinality({n \in Name : globals[n] = o})
  + Cardinality({<<p, i>> \in allocated \X Slot : refs[p][i] = o /\ colour[p] # White})
  + Occurrences(pending, o)
  + Occurrences(dropped, o)

\* The counts that have to be right: of objects that were not left behind
\* white, between operations of a program that is still intact.
Counted == IF pc = "run" /\ Intact /\ ~ panicked
           THEN {o \in allocated : colour[o] # White} ELSE {}

\* "Undo trial deletion": once a collection is over, what it took away has
\* been put back, reference for reference, except where scan_black met a
\* target that was black already.  No other path through the three passes, or
\* through a cascade, loses or gains a count.
CountsAreExact == \A o \in Counted : rc[o] + missed[o] = References(o)

\* The entries of the list that the next collection will examine.
Suspects == {s \in ToSet(candidates) : ~ Skipped(s)}

\* "Only these are examined": whatever garbage there is hangs from a suspect
\* the next collection examines, or from a candidate that an earlier one
\* passed over.  Nothing else drops off the list: not by reuse of a listed
\* address, an entry listed twice, or a collection that frees part of a cycle.
OnlyPassedOverEscape ==
  Idle /\ Intact =>
    allocated \subseteq Reachable(refs, RootRefs \cup Suspects \cup passedOver)

\* A collection frees nothing the program can reach as long as scan_black has
\* not left a count short.
OnlyMissedCountsLose ==
  [][(\A o \in Obj : missed[o] = 0) =>
       allocated \ allocated' \subseteq Obj \ Reachable(refs, RootRefs)]_vars

\* The passes end on any graph, and every operation returns or panics (or has
\* lost an object that is in use, after which the model follows it no more).
OperationsReturn == []<>(Idle \/ panicked \/ ~ Intact)
=============================================================================
