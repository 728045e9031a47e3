--------------------------- MODULE SizeArithmetic ---------------------------
(***************************************************************************)
(* The 32-bit arithmetic of sizes, as a release build computes it: without *)
(* overflow checks.  The other modules count in whole units; what entitles *)
(* them to, and where it ends, is proved in FreeListSpaceProofs.           *)
(***************************************************************************)
EXTENDS Integers

Width == 4294967296      \* 2^32
U32 == {n \in Nat : n < Width}
U16 == {n \in Nat : n < 65536}

ALIGN == 16
HEADER_SIZE == 16

Aligned(n) == n % ALIGN = 0

\* align_up.  The mask clears what is left over a multiple of ALIGN.
AlignUp(n) == LET sum == (n + ALIGN - 1) % Width IN sum - (sum % ALIGN)

\* What an object of this shape takes, without its padding.
Footprint(nrefs, ndata) == HEADER_SIZE + 4 * nrefs + ndata

\* size_for
SizeFor(nrefs, ndata) == AlignUp(Footprint(nrefs, ndata) % Width)

\* FreeListSpace::alloc finds room above the bump pointer.
BumpHasRoom(bump, need, cap) == (bump + need) % Width <= cap

\* How Generational::new divides a heap of cap bytes.
NurseryBytes(cap) == AlignUp(cap \div 64)

\* When alloc of the generational collector goes on to a major collection.
OldIsFull(used, nursery) == (used * 100) % Width > (nursery * 75) % Width
=============================================================================
