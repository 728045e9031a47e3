----------------------------- MODULE SemiSpace -----------------------------
(***************************************************************************)
(* The semi-space copying collector of module 6.  Addresses are counted in *)
(* objects of one size, from 1; a half is Half of them.  The program runs  *)
(* against the shadow model, and a copied root, a copied reference and an  *)
(* advance of the scan cursor are steps.                                   *)
(***************************************************************************)
EXTENDS Verifier

CONSTANT Half     \* how many objects a half holds

ASSUME HalfAssumption == Half \in Nat \ {0} /\ Obj = 1 .. 2 * Half

VARIABLES
  current,      \* where the half in use starts
  free,         \* the next free address in it
  scan,         \* how far to-space has been scanned
  forward,      \* address -> the note left in the header there
  live,         \* live_objects
  copied,       \* objects copied by the collection in progress
  pc,           \* "run", "roots", "scan", "retry" in alloc, or "lost"
  then,         \* where pc goes when the collection is complete
  panicked

spaceVars == <<current, free, scan, forward, live, copied, pc, then, panicked>>
vars == <<lockstepVars, spaceVars>>

HalfAt(base) == (base + 1) .. (base + Half)
InCurrentSpace(h) == h \in HalfAt(current)
Limit == current + Half + 1
FromSpace == Obj \ HalfAt(current)

Running == pc = "run" /\ ~ panicked

(***************************************************************************)
(* A collection                                                            *)
(***************************************************************************)

\* collect, up to its loop over the roots: the halves are swapped.
Begin(return) ==
  /\ current' = Half - current
  /\ free' = current' + 1
  /\ scan' = current' + 1
  /\ copied' = 0
  /\ pc' = "roots" /\ then' = return
  /\ UNCHANGED <<lockstepVars, forward, live, panicked>>

\* Slip: the last place of the half is taken for the end.
OverflowEarly == free >= Limit - 1

\* The assertion of copy_object: to-space overflows.
Overflow == free >= Limit

\* Slip: the payload, and so the stamp, is not copied.
CopyHeaderAndSlots(h, newRefs) ==
  /\ refs' = [newRefs EXCEPT ![free] = refs[h]]
  /\ forward' = [forward EXCEPT ![free] = forward[h], ![h] = free]
  /\ free' = free + 1
  /\ copied' = copied + 1
  /\ UNCHANGED stamp

\* copy_object for an object of from-space: a copy at free, and a note in the
\* original.  The note is not looked at when the object is met again.
CopyObject(h, newRefs) ==
  /\ refs' = [newRefs EXCEPT ![free] = refs[h]]
  /\ stamp' = [stamp EXCEPT ![free] = stamp[h]]
  /\ forward' = [forward EXCEPT ![free] = forward[h], ![h] = free]
  /\ free' = free + 1
  /\ copied' = copied + 1

Abort ==
  /\ panicked' = TRUE
  /\ UNCHANGED <<lockstepVars, current, free, scan, forward, live, copied, pc, then>>

\* Slip: the globals are not visited.
NoGlobals == {}

\* The roots that for_each_mut has still to visit.
StackToDo == {i \in DOMAIN stack : stack[i] \in FromSpace}
GlobalsToDo == {n \in Name : globals[n] \in FromSpace}

\* The first of the places still to visit, which the loops take in order.
FirstOf(S) == {i \in S : \A j \in S : i <= j}

\* for_each_mut, at a slot of the stack.
CopyStackRoot ==
  /\ pc = "roots" /\ ~ panicked
  /\ \E i \in FirstOf(StackToDo) :
       IF Overflow THEN Abort
       ELSE /\ CopyObject(stack[i], refs)
            /\ stack' = [stack EXCEPT ![i] = free]
            /\ UNCHANGED <<globals, modelState, current, scan, live, pc, then, panicked>>

\* for_each_mut, at a global, in the order of a hash table.
CopyGlobalRoot ==
  /\ pc = "roots" /\ ~ panicked /\ StackToDo = {}
  /\ \E n \in GlobalsToDo :
       IF Overflow THEN Abort
       ELSE /\ CopyObject(globals[n], refs)
            /\ globals' = [globals EXCEPT ![n] = free]
            /\ UNCHANGED <<stack, modelState, current, scan, live, pc, then, panicked>>

RootsDone ==
  /\ pc = "roots" /\ ~ panicked /\ StackToDo = {} /\ GlobalsToDo = {}
  /\ pc' = "scan"
  /\ UNCHANGED <<lockstepVars, current, free, scan, forward, live, copied, then, panicked>>

\* The references of the object at scan that are still to be replaced.
SlotsToDo == {i \in Slot : refs[scan][i] \in FromSpace}

\* scan_to_space is left to the student.  This is what its comment asks for:
\* each reference of the object at scan is replaced with the target's copy ...
ScanSlot ==
  /\ pc = "scan" /\ ~ panicked /\ scan < free
  /\ \E i \in FirstOf(SlotsToDo) :
       IF Overflow THEN Abort
       ELSE /\ CopyObject(refs[scan][i], [refs EXCEPT ![scan][i] = free])
            /\ UNCHANGED <<stack, globals, modelState, current, scan, live, pc, then, panicked>>

\* Slip: the cursor does not pass an object without references.
ScanAdvanceIfChildren ==
  /\ pc = "scan" /\ ~ panicked /\ scan < free /\ SlotsToDo = {}
  /\ Children(refs, scan) # {}
  /\ scan' = scan + 1
  /\ UNCHANGED <<lockstepVars, current, free, forward, live, copied, pc, then, panicked>>

\* ... and scan moves past it.
ScanAdvance ==
  /\ pc = "scan" /\ ~ panicked /\ scan < free /\ SlotsToDo = {}
  /\ scan' = scan + 1
  /\ UNCHANGED <<lockstepVars, current, free, forward, live, copied, pc, then, panicked>>

\* The end of collect.  A heap that is no longer the program's graph is "lost":
\* the model follows the program no further.  Taking the survivors from the objects there were is
\* done in u64: with more of them a debug build panics, a release build goes on
\* with a wrong statistic.  What the abandoned half holds is blank from here on.
Finish ==
  /\ pc = "scan" /\ ~ panicked /\ scan = free
  /\ \/ copied > live /\ Abort
     \/ /\ live' = copied
        /\ copied' = 0
        /\ refs' = [a \in Obj |-> IF a \in FromSpace THEN Blank ELSE refs[a]]
        /\ stamp' = [a \in Obj |-> IF a \in FromSpace THEN Null ELSE stamp[a]]
        /\ forward' = [a \in Obj |-> Null]
        /\ pc' = (IF Faithful THEN then ELSE "lost") /\ then' = "run"
        /\ UNCHANGED <<stack, globals, modelState, current, free, scan, panicked>>

(***************************************************************************)
(* The Collector trait                                                     *)
(***************************************************************************)

\* Slip: a half is taken to hold one object more.
HasRoomLate == free <= Limit

HasRoom == free < Limit

\* alloc has room, at first or after a collection, and the mutator stamps and
\* roots the object.  emplace clears the note.
AllocTake ==
  /\ Running \/ pc = "retry"
  /\ HasRoom
  /\ StampAndRoot(free)
  /\ forward' = [forward EXCEPT ![free] = Null]
  /\ free' = free + 1
  /\ live' = live + 1
  /\ pc' = "run"
  /\ UNCHANGED <<current, scan, copied, then, panicked>>

AllocCollects ==
  /\ Running /\ Len(stack) < MaxDepth
  /\ ~ HasRoom
  /\ Begin("retry")

\* alloc returns OutOfMemory.
AllocFails ==
  /\ pc = "retry" /\ ~ HasRoom
  /\ pc' = "run"
  /\ UNCHANGED <<lockstepVars, current, free, scan, forward, live, copied, then, panicked>>

Collect == Running /\ Begin("run")

\* write_field has no barrier.
Program ==
  /\ Running
  /\ \/ BothRootsStep
     \/ \E p \in DOMAIN stack, i \in Slot, c \in 0 .. Len(stack) : Store(p, i, c)
  /\ UNCHANGED spaceVars

Init ==
  /\ LockstepInit
  /\ current = 0 /\ free = 1 /\ scan = 1
  /\ forward = [a \in Obj |-> Null]
  /\ live = 0 /\ copied = 0
  /\ pc = "run" /\ then = "run"
  /\ panicked = FALSE

Collector ==
  \/ CopyStackRoot \/ CopyGlobalRoot \/ RootsDone
  \/ ScanSlot \/ ScanAdvance \/ Finish
  \/ (pc = "retry" /\ AllocTake)
  \/ AllocFails

Next ==
  \/ Program
  \/ pc = "run" /\ AllocTake
  \/ AllocCollects \/ Collect
  \/ Collector

Spec == Init /\ [][Next]_vars /\ WF_vars(Collector)

(***************************************************************************)
(* Properties                                                              *)
(***************************************************************************)

TypeOK ==
  /\ LockstepTypeOK
  /\ current \in {0, Half}
  /\ free \in (current + 1) .. Limit
  /\ scan \in (current + 1) .. Limit
  /\ forward \in [Obj -> Ref]
  /\ live \in 0 .. Half /\ copied \in 0 .. Half
  /\ pc \in {"run", "roots", "scan", "retry", "lost"}
  /\ then \in {"run", "retry"}
  /\ panicked \in BOOLEAN

\* Between any two steps of a collection, half-way through the roots or the
\* scan, every path from a root leads to the bytes of the object it led to.
PathsAlwaysAgree == PathsAgree

\* "Everything between scan and free is copied but not yet examined": what has
\* been scanned refers to to-space only, and once the roots are done so do they.
\* In between, nothing the program can reach lies outside the part in use.
ScannedIsComplete ==
  /\ \A a \in (current + 1) .. (scan - 1), i \in Slot :
       pc \in {"roots", "scan"} => refs[a][i] \notin FromSpace
  /\ pc # "roots" => RootRefs \subseteq (current + 1) .. (free - 1)
  /\ pc \in {"run", "retry", "lost"} => LiveAddresses \subseteq (current + 1) .. (free - 1)

\* How many references the program's graph has to an identity.
InDegree(id) ==
  Cardinality({i \in DOMAIN mStack : mStack[i] = id})
  + Cardinality({n \in Name : mGlobals[n] = id})
  + Cardinality({f \in Id \X Slot : mRefs[f[1]][f[2]] = id})

\* A collection goes wrong (it runs out of to-space, its statistics underflow,
\* or the heap it leaves is no longer the program's) only if some object is
\* referenced more than once, and then all that is wrong is that this object
\* has become several.
OnlySharingIsLost ==
  /\ panicked \/ pc = "lost" => \E id \in LiveIds : InDegree(id) > 1
  /\ pc = "lost" => Violations \subseteq {"DuplicatedIdentity"}

\* On cyclic graphs too, copying comes to an end: the operation returns, or the
\* assertion on to-space stops it.
OperationsReturn == []<>(pc \in {"run", "lost"} \/ panicked)

=============================================================================
