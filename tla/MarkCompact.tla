---------------------------- MODULE MarkCompact ----------------------------
(***************************************************************************)
(* The mark-compact collector of module 5.  Addresses are counted in       *)
(* objects of one size, from 1 to Capacity, and top says how many are in   *)
(* use.  The program runs against the shadow model.  A turn of marking, an *)
(* object whose references are rewritten and an object that is moved are   *)
(* steps; alloc's two collections are as in MarkSweep.                     *)
(***************************************************************************)
EXTENDS Verifier

CONSTANTS
  Capacity,        \* how many objects the heap holds
  MinThreshold,    \* MIN_THRESHOLD, in objects
  ThrashLimit      \* THRASH_LIMIT

ASSUME CapacityAssumption == Capacity \in Nat /\ Obj = 1 .. Capacity
ASSUME PacingAssumption == MinThreshold \in Nat \ {0} /\ ThrashLimit \in Nat \ {0}

VARIABLES
  top,          \* the last address in use
  marked,       \* the addresses whose header has FLAG_MARK
  forward,      \* address -> the forwarding address in its header
  worklist,     \* mark_from_roots' worklist
  at,           \* how far a pass has come
  after,        \* the last address that will be in use
  threshold, thrashing,
  pc, then,     \* the pass in progress, and where a collection returns to
  worth,        \* alloc's local worth_collecting
  still         \* history: what the last collection left where it was

headers == <<marked, forward>>
pacing == <<threshold, thrashing>>
compactVars == <<top, after, headers, worklist, at, pacing, pc, then, worth, still>>
vars == <<lockstepVars, compactVars>>

Used == 1 .. top

(***************************************************************************)
(* A collection                                                            *)
(***************************************************************************)

\* collect, up to the loop of mark_from_roots.
Begin(return) ==
  /\ worklist' = InSomeOrder(RootRefs)
  /\ pc' = "mark" /\ then' = return
  /\ UNCHANGED <<lockstepVars, top, after, headers, at, pacing, still>>

\* A turn of mark_from_roots.
MarkTurn ==
  /\ pc = "mark" /\ worklist # <<>>
  /\ LET h    == worklist[Len(worklist)]
         rest == SubSeq(worklist, 1, Len(worklist) - 1)
     IN  /\ marked' = marked \cup {h}
         /\ worklist' = IF h \in marked THEN rest
                        ELSE rest \o InSomeOrder(Children(refs, h) \ marked')
  /\ UNCHANGED <<lockstepVars, top, after, forward, at, pacing, pc, then, worth, still>>

\* Where the second cursor stands when the walk is at a survivor.
Destination(a) == Cardinality(marked \cap 1 .. a)

\* compute_forwarding is left to the student; this is its comment.
ComputeForwarding ==
  /\ pc = "mark" /\ worklist = <<>>
  /\ forward' = [a \in Obj |-> IF a \in marked THEN Destination(a) ELSE forward[a]]
  /\ after' = Cardinality(marked)
  /\ still' = {a \in marked : Destination(a) = a}
  /\ pc' = "update" /\ at' = 1
  /\ UNCHANGED <<lockstepVars, top, marked, worklist, pacing, then, worth>>

\* A reference, as update_references rewrites it.
Forwarded(ref) == IF ref = Null THEN Null ELSE forward[ref]

\* Slip: the test for survivors that stay has the wrong sense.
RewritesUnmoved(h) == h \in marked /\ forward[h] = h

\* A survivor that stays where it is is passed over, its fields as they are.
Rewrites(h) == h \in marked /\ forward[h] # h

\* A turn of update_references' walk.
UpdateObject ==
  /\ pc = "update" /\ at <= top
  /\ refs' = IF Rewrites(at) THEN [refs EXCEPT ![at] = [i \in Slot |-> Forwarded(@[i])]]
             ELSE refs
  /\ at' = at + 1
  /\ UNCHANGED <<roots, stamp, modelState, top, after, headers, worklist, pacing, pc, then, worth,
                 still>>

\* Its for_each_mut, over the stack and the globals.
UpdateRoots ==
  /\ pc = "update" /\ at > top
  /\ stack' = [i \in DOMAIN stack |-> Forwarded(stack[i])]
  /\ globals' = [n \in Name |-> Forwarded(globals[n])]
  /\ pc' = "move" /\ at' = 1
  /\ UNCHANGED <<refs, stamp, modelState, top, after, headers, worklist, pacing, then, worth, still>>

\* Slip: the walk goes from the top down.
NextFromTop == top + 1 - at

\* The object move_objects has come to: "from the bottom up".
NextToMove == at

\* A turn of move_objects, which is left to the student; this is its comment.
\* Mark and forwarding address are cleared, then the bytes move.
MoveObject ==
  /\ pc = "move" /\ at <= top
  /\ LET h    == NextToMove
         dest == IF h \in marked THEN forward[h] ELSE h
     IN  /\ refs' = [refs EXCEPT ![dest] = refs[h]]
         /\ stamp' = [stamp EXCEPT ![dest] = stamp[h]]
         /\ marked' = marked \ {h}
         /\ forward' = [forward EXCEPT ![h] = Null]
  /\ at' = at + 1
  /\ UNCHANGED <<roots, modelState, top, after, worklist, pacing, pc, then, worth, still>>

\* Slip: the threshold is not kept within the capacity.
NextThresholdUnbounded(live) == IF 2 * live > MinThreshold THEN 2 * live ELSE MinThreshold

\* The next threshold: twice what is live, within bounds.
NextThreshold(live) ==
  LET doubled == IF 2 * live > MinThreshold THEN 2 * live ELSE MinThreshold
  IN  IF doubled < Capacity THEN doubled ELSE Capacity

\* A nearly full heap of which almost nothing was reclaimed.
Fruitless(live) == 16 * live > 15 * Capacity /\ 32 * (top - live) < Capacity

\* The end of collect.  thrashing counts on beyond the limit in the code; what
\* it decides does not change there.  A heap that is no longer the program's
\* graph, or keeps part of it above top, is "lost": the model follows the program
\* no further.  In any other, what is above top is not read before emplace
\* overwrites it; it is blank here.
Finish ==
  /\ pc = "move" /\ at > top
  /\ top' = after
  /\ threshold' = NextThreshold(after)
  /\ thrashing' = IF ~ Fruitless(after) THEN 0
                  ELSE IF thrashing < ThrashLimit THEN thrashing + 1 ELSE thrashing
  /\ after' = 0 /\ at' = 0
  /\ IF Faithful /\ LiveAddresses \subseteq 1 .. after
     THEN /\ pc' = then /\ still' = {}
          /\ refs' = [a \in Obj |-> IF a > after THEN Blank ELSE refs[a]]
          /\ stamp' = [a \in Obj |-> IF a > after THEN Null ELSE stamp[a]]
     ELSE pc' = "lost" /\ UNCHANGED <<refs, stamp, still>>
  /\ then' = "run"
  /\ UNCHANGED <<roots, modelState, headers, worklist, worth>>

(***************************************************************************)
(* The Collector trait                                                     *)
(***************************************************************************)

Running == pc = "run"

\* alloc enters, and collects first if the threshold is reached.
AllocBegin ==
  /\ Running /\ Len(stack) < MaxDepth
  /\ worth' = (thrashing < ThrashLimit)
  /\ IF worth' /\ top >= threshold
     THEN Begin("take")
     ELSE /\ pc' = "take"
          /\ UNCHANGED <<lockstepVars, top, after, headers, worklist, at, pacing, then, still>>

\* alloc has room, at first or after a collection, and the mutator stamps and
\* roots the object.
AllocTake ==
  /\ pc \in {"take", "retry"} /\ top < Capacity
  /\ top' = top + 1
  /\ StampAndRoot(top')
  /\ pc' = "run" /\ worth' = FALSE
  /\ UNCHANGED <<after, headers, worklist, at, pacing, then, still>>

\* alloc has no room and collects, if that is worth while.
AllocCollects ==
  /\ pc = "take" /\ top = Capacity /\ worth
  /\ Begin("retry")
  /\ UNCHANGED worth

\* alloc returns OutOfMemory.
AllocFails ==
  /\ top = Capacity
  /\ pc = "retry" \/ (pc = "take" /\ ~ worth)
  /\ pc' = "run" /\ worth' = FALSE
  /\ UNCHANGED <<lockstepVars, top, after, headers, worklist, at, pacing, then, still>>

Collect == Running /\ Begin("run") /\ UNCHANGED worth

\* write_field has no barrier.
Program ==
  /\ Running
  /\ \/ BothRootsStep
     \/ \E p \in DOMAIN stack, i \in Slot, c \in 0 .. Len(stack) : Store(p, i, c)
  /\ UNCHANGED compactVars

Init ==
  /\ LockstepInit
  /\ top = 0 /\ after = 0 /\ at = 0
  /\ marked = {} /\ forward = [a \in Obj |-> Null]
  /\ worklist = <<>>
  /\ threshold = IF MinThreshold < Capacity \div 2 THEN MinThreshold ELSE Capacity \div 2
  /\ thrashing = 0
  /\ pc = "run" /\ then = "run" /\ worth = FALSE
  /\ still = {}

Collector ==
  \/ MarkTurn \/ ComputeForwarding \/ UpdateObject \/ UpdateRoots \/ MoveObject \/ Finish
  \/ AllocTake \/ AllocCollects \/ AllocFails

Next == Program \/ AllocBegin \/ Collect \/ Collector

Spec == Init /\ [][Next]_vars

(***************************************************************************)
(* Properties                                                              *)
(***************************************************************************)

TypeOK ==
  /\ LockstepTypeOK
  /\ top \in 0 .. Capacity /\ after \in 0 .. Capacity /\ at \in 0 .. Capacity + 1
  /\ marked \subseteq Obj /\ still \subseteq Obj
  /\ forward \in [Obj -> Ref]
  /\ worklist \in Seq(Obj)
  /\ threshold \in 0 .. Capacity /\ thrashing \in 0 .. ThrashLimit
  /\ pc \in {"run", "mark", "update", "move", "take", "retry", "lost"}
  /\ then \in {"run", "take", "retry"}
  /\ worth \in BOOLEAN

\* "After a collection the free space is one contiguous run": what lies below
\* top then is each object the program can reach, once, and no header shows
\* that there was a collection; whichever objects slid over the places of
\* others, and however often it has been done before.
CompactionIsExact ==
  [][Finish => /\ top' = Cardinality(LiveIds)
               /\ {stamp'[a] : a \in 1 .. top'} = LiveIds
               /\ marked = {} /\ forward = [a \in Obj |-> Null]]_vars

\* "Every reference in the program still names the object it named before",
\* but for the fields of an object that stayed where it was: roots, and the
\* fields of every object that moved, are right after any collection.
OnlyUnmovedGoStale ==
  pc = "lost" =>
    /\ \A i \in DOMAIN stack : Means(stack[i], mStack[i])
    /\ \A n \in Name : Means(globals[n], mGlobals[n])
    /\ \A h \in Used \ still, i \in Slot : Means(refs[h][i], mRefs[stamp[h]][i])

\* "Decides whether the heap agrees with the model": verify reports no
\* violation exactly if the heap is the model's graph, also when stale
\* references lead to the remains of objects above top.
VerdictIsRight == pc \in {"run", "lost"} => (VerifyOk <=> Faithful)
=============================================================================
