---------------------------- MODULE ObjectGraph ----------------------------
(***************************************************************************)
(* Objects, references and reachability: the vocabulary every collector of *)
(* the course and the shadow model share.  An object is named by its       *)
(* address; all objects have the same reference slots, and their scalar    *)
(* payload is left out.  Null stands for the handle NULL.                  *)
(***************************************************************************)
EXTENDS Integers, Sequences, FiniteSets

CONSTANTS
  Obj,        \* the places an object can be
  NumSlots,   \* how many reference slots an object has
  Name,       \* the names of global bindings
  Null        \* no object

ASSUME ObjAssumption == IsFiniteSet(Obj)
ASSUME NullAssumption == Null \notin Obj
ASSUME NameAssumption == IsFiniteSet(Name)
ASSUME NumSlotsAssumption == NumSlots \in Nat

Ref == Obj \cup {Null}
Slot == 1 .. NumSlots

\* What Heap::emplace leaves in the slots of a new object.
Blank == [i \in Slot |-> Null]

\* Heap::children: the non-null references an object holds.
Children(refs, o) == {refs[o][i] : i \in Slot} \ {Null}

\* Roots::iter: every non-null root, from the stack and from the globals.  A
\* global that is unbound and one bound to NULL read the same.
RootSet(stk, glb) ==
  ({stk[i] : i \in DOMAIN stk} \cup {glb[n] : n \in Name}) \ {Null}

\* The members of S as a loop over them pushes them.  In what order is of no
\* consequence to what a search comes to.
InSomeOrder(S) == CHOOSE s \in [1 .. Cardinality(S) -> S] : {s[i] : i \in DOMAIN s} = S

\* Model::reachable: R, and whatever a search from it comes to.
Reachable(refs, R) ==
  LET from[seen \in SUBSET Obj] ==
        LET found == UNION {Children(refs, o) : o \in seen}
        IN  IF found \subseteq seen THEN seen ELSE from[seen \cup found]
  IN  from[R]

\* Model::forget_unreachable: what is left of the slots when only what R
\* reaches is kept.
KeepReachable(refs, R) ==
  LET kept == Reachable(refs, R)
  IN  [o \in Obj |-> IF o \in kept THEN refs[o] ELSE Blank]
=============================================================================
