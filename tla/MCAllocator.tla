---------------------------- MODULE MCAllocator ----------------------------
(* Allocator on a small arena, and its refinement of AbstractAllocator. *)
EXTENDS Allocator

objects == {[at |-> b, len |-> size[b]] : b \in live}

Abstract == INSTANCE AbstractAllocator

\* The allocator of module 1 never hands out memory an object still occupies,
\* and never moves or resizes one, though its free list falls out of order.
ImplementsAllocator == Abstract!Spec
=============================================================================
