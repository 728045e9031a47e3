------------------------- MODULE AbstractAllocator -------------------------
(***************************************************************************)
(* What every allocator of the course promises: an object occupies memory  *)
(* that no other object occupies, and keeps it, unmoved and unresized,     *)
(* until the caller hands it back.  Which hole is used, and whether an     *)
(* allocation that could succeed does, is left to the implementation.      *)
(***************************************************************************)
EXTENDS Integers

CONSTANTS Capacity, Sizes

VARIABLE objects      \* the objects in use, as [at, len] records

Overlap(o, p) == o.at < p.at + p.len /\ p.at < o.at + o.len

Init == objects = {}

Allocate(at, n) ==
  /\ at + n <= Capacity
  /\ \A o \in objects : ~ Overlap(o, [at |-> at, len |-> n])
  /\ objects' = objects \cup {[at |-> at, len |-> n]}

Release(o) == objects' = objects \ {o}

Next ==
  \/ \E at \in 0 .. (Capacity - 1), n \in Sizes : Allocate(at, n)
  \/ \E o \in objects : Release(o)

Spec == Init /\ [][Next]_objects
=============================================================================
