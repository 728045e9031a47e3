----------------------------- MODULE RefCount ------------------------------
(***************************************************************************)
(* The reference-counting collector of module 2.  The free-list space is   *)
(* abstracted to the set of allocated addresses; all objects have one      *)
(* size, so an allocation fails only when no address is free.              *)
(*                                                                         *)
(* release runs its cascade on the explicit worklist pending, one object   *)
(* at a time; each turn of its loop is a step here, and the mutator runs   *)
(* only when the cascade has ended.  dropped holds the handles whose       *)
(* on_root_popped is still to be called, and writing what write_field has  *)
(* left to do once the release of the old value returns.                   *)
(***************************************************************************)
EXTENDS Mutator

CONSTANTS
  NoWrite,
  MaxRc         \* bound: an object with this count is stored nowhere it is not yet
ASSUME NoWriteAssumption == NoWrite \notin [obj : Obj, slot : Slot, val : Ref]

VARIABLES
  allocated,    \* the addresses that hold an object
  rc,           \* address -> its reference count
  pending,      \* handles whose count is to go down, last in first out
  dropped,      \* popped roots whose hook has not run
  writing,      \* the write_field in progress, or NoWrite
  panicked,     \* release met a count of zero: the program has aborted
  leaked        \* history: address -> references of the dead never released

heapVars == <<allocated, refs, rc, pending, dropped, writing, panicked, leaked>>
vars == <<stack, globals, heapVars>>

\* Slip: NULL handles are not filtered out.
NonnullNot(s) == s

Nonnull(s) ==
  LET kept[n \in 0 .. Len(s)] ==
        IF n = 0 THEN <<>>
        ELSE IF s[n] = Null THEN kept[n - 1] ELSE Append(kept[n - 1], s[n])
  IN  kept[Len(s)]

Occurrences(s, o) == Cardinality({i \in DOMAIN s : s[i] = o})

\* retain: nothing for NULL.
Retained(h) == IF h = Null THEN rc ELSE [rc EXCEPT ![h] = @ + 1]

(***************************************************************************)
(* The hooks of the Collector trait                                        *)
(***************************************************************************)

\* Slip: a new root is not counted.
OnPushedUncounted(h) == UNCHANGED heapVars

\* on_root_pushed
OnPushed(h) ==
  /\ rc' = Retained(h)
  /\ UNCHANGED <<allocated, refs, pending, dropped, writing, panicked, leaked>>

\* on_root_pushed for the new value of an assign, then on_root_popped.
OnAssigned(new, old) ==
  /\ rc' = Retained(new)
  /\ dropped' = Nonnull(<<old>>)
  /\ UNCHANGED <<allocated, refs, pending, writing, panicked, leaked>>

\* on_root_popped, for each handle an unwind drops.
OnDropped(handles) ==
  /\ dropped' = Nonnull(handles)
  /\ UNCHANGED <<allocated, refs, rc, pending, writing, panicked, leaked>>

\* Slip: the new binding is not counted.
OnGlobalChangedUncounted(old, new) ==
  /\ dropped' = Nonnull(<<old>>)
  /\ UNCHANGED <<allocated, refs, rc, pending, writing, panicked, leaked>>

\* on_global_changed.  The body is left to the student; this is what its
\* comment asks for, in the order the module's notes give.
OnGlobalChanged(old, new) == OnAssigned(new, old)

\* Slip: the old value is not released.
WriteFieldKeepsOld(o, i, v) ==
  /\ v \notin {Null, refs[o][i]} => rc[v] < MaxRc
  /\ writing' = [obj |-> o, slot |-> i, val |-> v]
  /\ UNCHANGED <<allocated, refs, rc, pending, dropped, panicked, leaked>>

\* write_field: the old value is released first, then the slot is set and
\* the new value retained (FinishWrite).
WriteField(o, i, v) ==
  /\ v \notin {Null, refs[o][i]} => rc[v] < MaxRc
  /\ pending' = Nonnull(<<refs[o][i]>>)
  /\ writing' = [obj |-> o, slot |-> i, val |-> v]
  /\ UNCHANGED <<allocated, refs, rc, dropped, panicked, leaked>>

(***************************************************************************)
(* The cascade                                                             *)
(***************************************************************************)

\* free_object: FreeListSpace::free sets the object's slot count and its
\* reference count to zero, so from here on it has no children.
Freed(o) == [refs EXCEPT ![o] = Blank]

\* One turn of release's loop.  The children are read after free_object.
ReleaseStep ==
  /\ pending # <<>> /\ ~ panicked
  /\ LET o    == pending[Len(pending)]
         rest == SubSeq(pending, 1, Len(pending) - 1)
     IN  \/ /\ rc[o] = 0
            /\ panicked' = TRUE
            /\ UNCHANGED <<allocated, refs, rc, pending, leaked>>
         \/ /\ rc[o] > 1
            /\ rc' = [rc EXCEPT ![o] = @ - 1]
            /\ pending' = rest
            /\ UNCHANGED <<allocated, refs, panicked, leaked>>
         \/ /\ rc[o] = 1
            /\ rc' = [rc EXCEPT ![o] = 0]
            /\ allocated' = allocated \ {o}
            /\ refs' = Freed(o)
            /\ pending' = rest \o Nonnull(refs'[o])
            /\ leaked' = [p \in Obj |-> leaked[p] + Occurrences(refs[o], p)]
            /\ UNCHANGED panicked
  /\ UNCHANGED <<stack, globals, dropped, writing>>

\* The next on_root_popped of an assign, an unwind or a global change.
ReleaseNext ==
  /\ pending = <<>> /\ dropped # <<>> /\ ~ panicked
  /\ pending' = <<Head(dropped)>>
  /\ dropped' = Tail(dropped)
  /\ UNCHANGED <<stack, globals, allocated, refs, rc, writing, panicked, leaked>>

\* The rest of write_field, after release has returned.
FinishWrite ==
  /\ pending = <<>> /\ writing # NoWrite /\ ~ panicked
  /\ refs' = [refs EXCEPT ![writing.obj][writing.slot] = writing.val]
  /\ rc' = Retained(writing.val)
  /\ writing' = NoWrite
  /\ UNCHANGED <<stack, globals, allocated, pending, dropped, panicked, leaked>>

Internal == ReleaseStep \/ ReleaseNext \/ FinishWrite

(***************************************************************************)
(* The state machine                                                       *)
(***************************************************************************)

Idle == pending = <<>> /\ dropped = <<>> /\ writing = NoWrite /\ ~ panicked

\* alloc: any free address will do.  emplace clears slots and count, and
\* try_alloc pushes the new handle.
Alloc(o) ==
  /\ o \notin allocated
  /\ Len(stack) < MaxDepth
  /\ stack' = Append(stack, o)
  /\ allocated' = allocated \cup {o}
  /\ refs' = [refs EXCEPT ![o] = Blank]
  /\ rc' = [rc EXCEPT ![o] = 1]
  /\ UNCHANGED <<globals, pending, dropped, writing, panicked, leaked>>

Init ==
  /\ RootsInit
  /\ allocated = {}
  /\ refs = [o \in Obj |-> Blank]
  /\ rc = [o \in Obj |-> 0]
  /\ pending = <<>> /\ dropped = <<>> /\ writing = NoWrite
  /\ panicked = FALSE
  /\ leaked = [o \in Obj |-> 0]

MutatorOp ==
  /\ Idle
  /\ \/ \E o \in Obj : Alloc(o)
     \/ /\ \E o \in StoreTargets, i \in Slot, v \in StoreValues : WriteField(o, i, v)
        /\ UNCHANGED roots
     \/ \E p \in DOMAIN stack, i \in Slot : Load(p, i) /\ OnPushed(Loaded(p, i))
     \/ \E s \in DOMAIN stack : Dup(s) /\ OnPushed(stack[s])
     \/ \E dst, src \in DOMAIN stack :
          Assign(dst, src) /\ OnAssigned(stack[src], stack[dst])
     \/ \E depth \in 0 .. (Len(stack) - 1) : Unwind(depth) /\ OnDropped(Dropped(depth))
     \/ \E n \in Name, s \in DOMAIN stack :
          SetGlobal(n, s) /\ OnGlobalChanged(globals[n], stack[s])
     \/ \E n \in Name : Global(n) /\ OnPushed(globals[n])
     \/ \E n \in Name : ClearGlobal(n) /\ OnGlobalChanged(globals[n], Null)

Next == MutatorOp \/ Internal

Spec == Init /\ [][Next]_vars

\* A caller of the collector itself: write_field with the value the field has,
\* which no root needs to protect.
StoreBack ==
  /\ Idle
  /\ \E o \in allocated, i \in Slot : WriteField(o, i, refs[o][i])
  /\ UNCHANGED roots

DirectSpec == Init /\ [][Next \/ StoreBack]_vars

(***************************************************************************)
(* Properties                                                              *)
(***************************************************************************)

TypeOK ==
  /\ RootsTypeOK
  /\ allocated \subseteq Obj
  /\ refs \in [Obj -> [Slot -> Ref]]
  /\ rc \in [Obj -> Nat]
  /\ pending \in Seq(Obj) /\ dropped \in Seq(Obj)
  /\ writing \in [obj : Obj, slot : Slot, val : Ref] \cup {NoWrite}
  /\ panicked \in BOOLEAN

BeingWritten(p, i) ==
  writing # NoWrite /\ writing.obj = p /\ writing.slot = i

\* The references to o that some release has still to take away: from roots,
\* from slots of allocated objects, and from the two worklists.
References(o) ==
  Occurrences(stack, o)
  + Cardinality({n \in Name : globals[n] = o})
  + Cardinality({f \in allocated \X Slot :
                   refs[f[1]][f[2]] = o /\ ~ BeingWritten(f[1], f[2])})
  + Occurrences(pending, o)
  + Occurrences(dropped, o)

\* "Missing any one of them is either a leak or a crash": no interleaving of
\* pushes, pops, stores, rebinds and deaths leaves a count below the number
\* of references that will still be released, and release, which asserts as
\* much, never meets a count of zero.
CountsCoverReferences == ~ panicked /\ \A o \in Obj : rc[o] >= References(o)

\* The collector implements the shadow model: whatever the cascade frees, the
\* graph the program can reach changes only by the program's operations, and
\* an address is handed out again only when the program cannot reach it.
\* A slot being written counts as written: between the release of the old
\* value and the store it may dangle, which the program never sees.
settled ==
  IF writing = NoWrite THEN refs
  ELSE [refs EXCEPT ![writing.obj][writing.slot] = writing.val]
graph == KeepReachable(settled, RootRefs)
Shadow == INSTANCE GraphModel WITH refs <- graph
ImplementsModel == Shadow!ModelSpec

\* "Keeping counts exact": at every moment a count is the number of references
\* still to be released, but for what the dead referred to.  The code reads
\* their children where they are gone already; nothing else leaks a count.
OnlyTheDeadLeak == \A o \in allocated : rc[o] = References(o) + leaked[o]

\* "The new value is retained before the old one is released": a field stored
\* back into itself does not lose the object it names.  The code has the order
\* reversed.
ReachableIsAllocated == Idle => Reachable(refs, RootRefs) \subseteq allocated
=============================================================================
