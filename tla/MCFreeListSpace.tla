-------------------------- MODULE MCFreeListSpace --------------------------
(* FreeListSpace on a small arena, and its refinement of AbstractAllocator. *)
EXTENDS FreeListSpace

objects == {[at |-> b, len |-> size[b]] : b \in live}

Abstract == INSTANCE AbstractAllocator

\* The free-list space hands out memory as the abstract allocator does: no
\* step of alloc, free, coalesce or the lazy sort moves, resizes or overlaps
\* an object the caller holds.
ImplementsAllocator == Abstract!Spec
=============================================================================
