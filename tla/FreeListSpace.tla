--------------------------- MODULE FreeListSpace ---------------------------
(***************************************************************************)
(* The free-list heap of gc-core (space.rs on top of heap.rs), which the   *)
(* non-moving collectors of modules 2, 3, 4 and 8 allocate from.  Arena    *)
(* describes the memory; here are the free list's discipline and the       *)
(* coalescing.                                                             *)
(***************************************************************************)
EXTENDS Arena

VARIABLE
  sorted        \* the code's claim that free is in address order

vars == <<size, flagged, free, sorted, bump, used, live>>

(***************************************************************************)
(* Operators                                                               *)
(***************************************************************************)

\* Slip: the last entry goes, whichever was taken.
PopLast(s, i) == SubSeq(s, 1, Len(s) - 1)

\* Vec::swap_remove: the last entry takes the place of the removed one.
SwapRemove(s, i) ==
  [j \in 1 .. (Len(s) - 1) |-> IF j = i THEN s[Len(s)] ELSE s[j]]

\* Slip: a block one unit too small will do.
FittingLoosely(n) == {i \in DOMAIN free : size[free[i]] + 1 >= n}

\* Positions of the free list whose block is large enough for n.
Fitting(n) == {i \in DOMAIN free : size[free[i]] >= n}

\* Iterator::position: the first of them.
FirstFit(n) == Min(Fitting(n))

\* Slip: a run at the bump pointer is not given back.
TopRunKept == {}

\* The run, if there is one, that reaches the bump pointer.
TopRun == {b \in RunHeads : RunEnd(b) = bump}

(***************************************************************************)
(* The state machine                                                       *)
(***************************************************************************)

Init == ArenaInit /\ sorted = TRUE

\* alloc, when take_free finds a block.
AllocFromFreeList(n) ==
  /\ Fitting(n) # {}
  /\ LET i     == FirstFit(n)
         block == free[i]
     IN  /\ TakeBlock(block, n)
         /\ free' = IF Leftover(block, n) > 0
                    THEN Append(SwapRemove(free, i), block + n)
                    ELSE SwapRemove(free, i)
  /\ sorted' = FALSE

\* Slip: the limit is off by one.
AllocPastTheEnd(n) ==
  /\ Fitting(n) = {}
  /\ bump + n <= Capacity + 1
  /\ TakeVirgin(n)
  /\ UNCHANGED <<free, sorted>>

\* alloc, when no listed block fits and virgin memory does.
AllocFromBump(n) ==
  /\ Fitting(n) = {}
  /\ bump + n <= Capacity
  /\ TakeVirgin(n)
  /\ UNCHANGED <<free, sorted>>

\* alloc, when it returns None: the caller is told and nothing changes.
AllocFails(n) ==
  /\ Fitting(n) = {}
  /\ bump + n > Capacity
  /\ UNCHANGED vars

\* Slip: the list still counts as sorted.
FreeKeepsSorted(h) ==
  /\ GiveBack(h)
  /\ free' = Append(free, h)
  /\ sorted' = sorted

\* free: the block goes to the end of the list.
Free(h) ==
  /\ GiveBack(h)
  /\ free' = Append(free, h)
  /\ sorted' = FALSE

\* coalesce: the list is sorted and rebuilt from the merged blocks, and a run
\* that reaches the bump pointer goes back to virgin memory.
Coalesce ==
  /\ MergeRuns
  /\ free' \in Ascending(RunHeads \ TopRun)
  /\ bump' = IF TopRun = {} THEN bump ELSE CHOOSE b \in TopRun : TRUE
  /\ sorted' = TRUE

\* free_blocks and validate: both sort the list in place.
SortFree ==
  /\ free' \in IF sorted THEN {free} ELSE Ascending(Listed)
  /\ sorted' = TRUE
  /\ UNCHANGED <<size, flagged, bump, used, live>>

\* Callers free only objects they hold (the code debug_asserts as much).
Next ==
  \/ \E n \in Sizes : AllocFromFreeList(n)
  \/ \E n \in Sizes : AllocFromBump(n)
  \/ \E n \in Sizes : AllocFails(n)
  \/ \E h \in live : Free(h)
  \/ Coalesce
  \/ SortFree

Spec == Init /\ [][Next]_vars

(***************************************************************************)
(* Properties                                                              *)
(***************************************************************************)

TypeOK == ArenaTypeOK /\ sorted \in BOOLEAN

\* The sorted flag never claims an order that swap_remove, a split or a free
\* has destroyed: free_blocks() and coalesce() skip the sort on its word.
SortedIsTrue ==
  sorted => \A i, j \in DOMAIN free : i < j => free[i] < free[j]

\* "A caller that gets None should collect, or call coalesce, and try again":
\* after coalesce, an allocation succeeds whenever the objects leave a hole
\* that can hold it, however the memory had been cut up before.
CoalesceExposesHoles ==
  [][Coalesce =>
       \A n \in Sizes : Hole(n) => (Fitting(n) # {} \/ bump + n <= Capacity)']_vars
=============================================================================
