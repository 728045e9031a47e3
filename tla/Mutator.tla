------------------------------ MODULE Mutator ------------------------------
(***************************************************************************)
(* The mutator (mutator.rs) and the root set it works on (roots.rs).       *)
(* Programs hold objects only by slots of the shadow stack and by named    *)
(* globals.  Here is what each operation does to the roots; a collector    *)
(* adds what its hooks do, which see the old roots as stack and globals    *)
(* and the new ones as stack' and globals'.                                *)
(***************************************************************************)
EXTENDS ObjectGraph

CONSTANT MaxDepth      \* bound: how deep the shadow stack may grow

ASSUME MaxDepthAssumption == MaxDepth \in Nat

VARIABLES
  stack,      \* the shadow stack, a sequence of references
  globals,    \* what each global name is bound to
  refs        \* the reference slots of every object: the collector's to write

roots == <<stack, globals>>

RootsTypeOK ==
  /\ stack \in Seq(Ref)
  /\ Len(stack) <= MaxDepth
  /\ globals \in [Name -> Ref]

RootsInit ==
  /\ stack = <<>>
  /\ globals = [n \in Name |-> Null]

RootRefs == RootSet(stack, globals)

\* The end of try_alloc, of load, dup and global: a handle is rooted.
PushRoot(h) ==
  /\ Len(stack) < MaxDepth
  /\ stack' = Append(stack, h)
  /\ globals' = globals

\* store, and store_null when v is Null: the object a slot of the stack holds
\* gets v, from another slot, into a field.  The roots stay as they are.
StoreTargets == {stack[p] : p \in DOMAIN stack} \ {Null}
StoreValues == {stack[c] : c \in DOMAIN stack} \cup {Null}

Loaded(p, i) == refs[stack[p]][i]

Load(p, i) == stack[p] # Null /\ PushRoot(Loaded(p, i))

Dup(s) == PushRoot(stack[s])

Assign(dst, src) ==
  /\ stack' = [stack EXCEPT ![dst] = stack[src]]
  /\ globals' = globals

\* unwind: the stack is cut before any hook runs.
Dropped(depth) == SubSeq(stack, depth + 1, Len(stack))
Unwind(depth) ==
  /\ stack' = SubSeq(stack, 1, depth)
  /\ globals' = globals

SetGlobal(name, s) ==
  /\ globals' = [globals EXCEPT ![name] = stack[s]]
  /\ stack' = stack

Global(name) == PushRoot(globals[name])

ClearGlobal(name) ==
  /\ globals' = [globals EXCEPT ![name] = Null]
  /\ stack' = stack

\* An operation on the roots, for collectors whose root hooks do nothing.
RootStep ==
  \/ \E p \in DOMAIN stack, i \in Slot : Load(p, i)
  \/ \E s \in DOMAIN stack : Dup(s)
  \/ \E dst, src \in DOMAIN stack : Assign(dst, src)
  \/ \E depth \in 0 .. (Len(stack) - 1) : Unwind(depth)
  \/ \E n \in Name, s \in DOMAIN stack : SetGlobal(n, s)
  \/ \E n \in Name : Global(n)
  \/ \E n \in Name : ClearGlobal(n)
=============================================================================
