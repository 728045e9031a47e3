------------------------------- MODULE Arena -------------------------------
(***************************************************************************)
(* The arena of heap.rs with a free list and a bump pointer on top of it:  *)
(* what FreeListSpace (space.rs) and the allocator of module 1 have in     *)
(* common.                                                                 *)
(*                                                                         *)
(* Addresses and sizes are counted in units of ALIGN bytes.  ALIGN equals  *)
(* HEADER_SIZE and every size is rounded up to it, so a unit is exactly    *)
(* the space of one header and nothing is lost by the scaling.             *)
(*                                                                         *)
(* The arena is modelled by the header fields a linear walk reads: size[a] *)
(* is the size word at address a, and flagged holds the addresses whose    *)
(* header has FLAG_FREE set.  size[a] = 0 stands for bytes that are no     *)
(* header: the zero fill of emplace and the POISON fill of poison, both of *)
(* which the walk rejects.  Headers that coalescing swallows or that lie   *)
(* above the bump pointer are NOT cleared by the code, so they stay in     *)
(* size and flagged.                                                       *)
(***************************************************************************)
EXTENDS Integers, Sequences, FiniteSets, FiniteSetsExt

CONSTANTS
  Capacity,     \* units in the arena
  Sizes         \* the object sizes, in units, the callers ask for

ASSUME CapacityAssumption == Capacity \in Nat \ {0}
ASSUME SizesAssumption == Sizes \subseteq Nat \ {0}

VARIABLES
  size,         \* address -> size word of the header there, 0 if none
  flagged,      \* the addresses whose header has FLAG_FREE
  free,         \* the free list, in the order the code keeps it
  bump,         \* first address never handed out
  used,         \* units committed to live objects
  live          \* history: the objects handed to the caller and not freed

arenaVars == <<size, flagged, free, bump, used, live>>

Addr == 0 .. (Capacity - 1)

Listed == {free[i] : i \in DOMAIN free}

EndOf(b) == b + size[b]

\* The enumerations of S in strictly increasing order (there is one when S
\* is finite): the outcome of Vec::sort on a list without duplicates.
Ascending(S) ==
  {s \in [1 .. Cardinality(S) -> S] :
     /\ \A i, j \in 1 .. Cardinality(S) : i < j => s[i] < s[j]
     /\ \A a \in S : \E i \in 1 .. Cardinality(S) : s[i] = a}

\* First block of each maximal run of adjacent free blocks.
RunHeads == {b \in Listed : \A c \in Listed : EndOf(c) # b}

\* Where the run headed by b stops: the first end of a listed block, from b
\* on, at which no other listed block begins.
RunEnd(b) ==
  CHOOSE e \in {EndOf(c) : c \in {d \in Listed : d >= b}} :
    /\ e \notin Listed
    /\ \A c \in Listed : c >= b /\ EndOf(c) < e => EndOf(c) \in Listed

ArenaInit ==
  /\ size = [a \in Addr |-> 0]
  /\ flagged = {}
  /\ free = <<>>
  /\ bump = 0
  /\ used = 0
  /\ live = {}

(***************************************************************************)
(* What an operation does to the memory, the list apart                    *)
(***************************************************************************)

\* An object of n units takes the front of a listed block; what is left over
\* becomes a block of its own.  emplace zeroes the object's bytes behind its
\* header.
Leftover(block, n) == size[block] - n
TakeBlock(block, n) ==
  /\ size' = [a \in Addr |->
                IF a = block THEN n
                ELSE IF block < a /\ a < block + n THEN 0
                ELSE IF Leftover(block, n) > 0 /\ a = block + n THEN Leftover(block, n)
                ELSE size[a]]
  /\ flagged' = (flagged \ (block .. (block + n - 1)))
                  \cup (IF Leftover(block, n) > 0 THEN {block + n} ELSE {})
  /\ used' = used + n
  /\ live' = live \cup {block}
  /\ bump' = bump

\* An object of n units takes the front of virgin memory.
TakeVirgin(n) ==
  /\ size' = [a \in Addr |->
                IF a = bump THEN n
                ELSE IF bump < a /\ a < bump + n THEN 0 ELSE size[a]]
  /\ flagged' = flagged \ (bump .. (bump + n - 1))
  /\ bump' = bump + n
  /\ used' = used + n
  /\ live' = live \cup {bump}

\* An object is poisoned, its header flagged free.
GiveBack(h) ==
  /\ size' = [a \in Addr |-> IF h < a /\ a < EndOf(h) THEN 0 ELSE size[a]]
  /\ flagged' = flagged \cup {h}
  /\ used' = used - size[h]
  /\ live' = live \ {h}
  /\ bump' = bump

\* Every run of adjacent free blocks becomes one block.
MergeRuns ==
  /\ size' = [a \in Addr |-> IF a \in RunHeads THEN RunEnd(a) - a ELSE size[a]]
  /\ UNCHANGED <<flagged, used, live>>

(***************************************************************************)
(* What both allocators promise                                            *)
(***************************************************************************)

ArenaTypeOK ==
  /\ size \in [Addr -> 0 .. Capacity]
  /\ flagged \subseteq Addr
  /\ free \in Seq(Addr)
  /\ bump \in 0 .. Capacity
  /\ used \in Int
  /\ live \subseteq Addr

\* A walk from address 0 visits exactly the blocks of B: it starts in B, each
\* block ends where another begins or at the bump pointer, none overlap.
Tiles(B) ==
  /\ bump > 0 => 0 \in B
  /\ \A b \in B : /\ size[b] > 0
                  /\ EndOf(b) <= bump
                  /\ EndOf(b) < bump => EndOf(b) \in B
  /\ \A b, c \in B : b < c => EndOf(b) <= c

\* "Everything in [0, bump) carries a valid header, free blocks included"
\* (space.rs): whatever splits, merges and frees have happened, the walk the
\* sweeps rely on meets the caller's objects and the listed blocks, and
\* nothing else.
HeapWalkable == Tiles(live \cup Listed)

\* The list half of validate(): the blocks the walk finds flagged free are
\* those on the free list, each listed once.
FreeListAgrees ==
  /\ \A b \in live : b \notin flagged
  /\ \A b \in Listed : b \in flagged
  /\ \A i, j \in DOMAIN free : free[i] = free[j] => i = j

\* A hole is a stretch of n units below the capacity that no object occupies.
Hole(n) ==
  \E a \in 0 .. (Capacity - n) :
    \A b \in live : EndOf(b) <= a \/ a + n <= b
=============================================================================
