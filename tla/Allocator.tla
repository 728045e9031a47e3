----------------------------- MODULE Allocator -----------------------------
(***************************************************************************)
(* The explicit-free allocator of module 1: free list first, bump pointer  *)
(* for the rest, with two ways of choosing a block.  Arena describes the   *)
(* memory.                                                                 *)
(*                                                                         *)
(* best_fit and coalesce_all are left to the student in the code; they are *)
(* modelled by what their comments ask for.                                *)
(***************************************************************************)
EXTENDS Arena

VARIABLE
  policy        \* FitPolicy: "First" or "Best", fixed when it is created

vars == <<arenaVars, policy>>

(***************************************************************************)
(* Choosing a block                                                        *)
(***************************************************************************)

\* Slip: a block one unit too small will do.
FitsLoosely(block, n) == size[block] + 1 >= n

\* fits: a remainder of at least a header must be left.
Fits(block, n) == size[block] > n /\ size[block] - n >= 1

Fitting(n) == {i \in DOMAIN free : Fits(free[i], n)}

\* first_fit
FirstFit(n) == Min(Fitting(n))

\* best_fit: the smallest block that fits, of those the lowest.
Tightest(n) ==
  {i \in Fitting(n) : \A j \in Fitting(n) : size[free[i]] <= size[free[j]]}
BestFit(n) ==
  CHOOSE i \in Tightest(n) : \A j \in Tightest(n) : free[i] <= free[j]

Chosen(n) == IF policy = "First" THEN FirstFit(n) ELSE BestFit(n)

\* Vec::remove
Removed(s, i) == [j \in 1 .. (Len(s) - 1) |-> IF j < i THEN s[j] ELSE s[j + 1]]

\* The split of take_from_free_list goes to the end of the list.
AfterTaking(block, n, list) ==
  IF Leftover(block, n) > 0 THEN Append(list, block + n) ELSE list

\* partition_point of a list for h: on a list out of order the standard
\* library promises no more than an index whose neighbours look right.
PartitionPoints(h) ==
  {p \in 0 .. Len(free) : /\ p = 0 \/ free[p] < h
                          /\ p = Len(free) \/ free[p + 1] >= h}

Inserted(h, p) == SubSeq(free, 1, p) \o <<h>> \o SubSeq(free, p + 1, Len(free))

(***************************************************************************)
(* The state machine                                                       *)
(***************************************************************************)

Init == ArenaInit /\ policy \in {"First", "Best"}

\* alloc, when take_from_free_list finds a block.
AllocReuses(n) ==
  /\ Fitting(n) # {}
  /\ LET i     == Chosen(n)
         block == free[i]
     IN  /\ TakeBlock(block, n)
         /\ free' = AfterTaking(block, n, Removed(free, i))
  /\ UNCHANGED policy

\* take_from_virgin: the last unit is never handed out.
VirginHasRoom(n) == n < Capacity - bump

\* alloc, when no listed block fits and virgin memory does.
AllocVirgin(n) ==
  /\ Fitting(n) = {}
  /\ VirginHasRoom(n)
  /\ TakeVirgin(n)
  /\ UNCHANGED <<free, policy>>

\* alloc, when it returns None.
Refused(n) == Fitting(n) = {} /\ ~ VirginHasRoom(n)
AllocRefused(n) == Refused(n) /\ UNCHANGED vars

\* free: the block is inserted where partition_point says.
Free(h) ==
  /\ GiveBack(h)
  /\ \E p \in PartitionPoints(h) : free' = Inserted(h, p)
  /\ UNCHANGED policy

\* coalesce_all: every run becomes one block and the list is rebuilt; virgin
\* memory gets nothing back.  The body is left to the student.  That the runs
\* are complete is from its comment, and that the new list is in address order
\* from its tests, which call validate() on it: both are taken from there, and
\* nothing is concluded about them.
CoalesceAll ==
  /\ MergeRuns
  /\ free' \in Ascending(RunHeads)
  /\ UNCHANGED <<bump, policy>>

\* Callers free only objects they hold (the code asserts as much).
Next ==
  \/ \E n \in Sizes : AllocReuses(n)
  \/ \E n \in Sizes : AllocVirgin(n)
  \/ \E n \in Sizes : AllocRefused(n)
  \/ \E h \in live : Free(h)
  \/ CoalesceAll

Spec == Init /\ [][Next]_vars
=============================================================================
