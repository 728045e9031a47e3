------------------------ MODULE FreeListSpaceProofs ------------------------
(***************************************************************************)
(* Proofs about FreeListSpace, for every Capacity and every set of Sizes:  *)
(* its inductive invariant, that it implements AbstractAllocator, that     *)
(* coalescing exposes every hole, and what its sizes are in 32 bits.       *)
(***************************************************************************)
EXTENDS MCFreeListSpace, SizeArithmetic, FiniteSetTheorems, TLAPS

Blocks == live \cup Listed

\* Every block but the one at 0 begins where another ends, and so does the
\* virgin memory: the half of the tiling that looks backwards.
Predecessors ==
  \A c \in Blocks \cup {bump} : c > 0 => \E d \in Blocks : EndOf(d) = c

IInv ==
  /\ TypeOK
  /\ HeapWalkable
  /\ FreeListAgrees
  /\ SortedIsTrue
  /\ Predecessors

USE CapacityAssumption, SizesAssumption

(***************************************************************************)
(* Sets of naturals, and the operators on lists                            *)
(***************************************************************************)

\* A non-empty set of naturals has a least element.
LEMMA LeastNatural ==
  ASSUME NEW T \in SUBSET Nat, T # {}
  PROVE  \E x \in T : \A y \in T : x <= y
<1>. DEFINE Below(x) == 0 .. (x - 1)
            Down == {Below(x) : x \in T}
            Smaller == StrictSubsetOrdering(Nat)
<1>1. IsWellFoundedOn(Smaller, FiniteSubsetsOf(Nat))
  BY FS_StrictSubsetOrderingWellFounded
<1>2. Down \subseteq FiniteSubsetsOf(Nat)
  <2>1. ASSUME NEW x \in T
        PROVE  Below(x) \in FiniteSubsetsOf(Nat)
    <3>1. IsFiniteSet(Below(x))
      BY FS_Interval, x \in Nat
    <3>2. Below(x) \subseteq Nat
      BY x \in Nat
    <3>3. QED
      BY <3>1, <3>2 DEF FiniteSubsetsOf
  <2>2. QED
    BY <2>1
<1>3. Down # {}
  OBVIOUS
<1>4. PICK D \in Down : \A E \in Down : <<E, D>> \notin Smaller
  <2>. HIDE DEF Down, Smaller
  <2>. QED
    BY <1>1, <1>2, <1>3, WFMin
<1>5. PICK x \in T : D = Below(x)
  OBVIOUS
<1>6. SUFFICES ASSUME NEW y \in T, y < x
               PROVE  FALSE
  BY <1>5
<1>7. Below(y) \subseteq Below(x) /\ Below(y) # Below(x)
  <2>1. x \in Nat /\ y \in Nat
    OBVIOUS
  <2>2. y \in Below(x) /\ y \notin Below(y)
    BY <1>6, <2>1
  <2>3. QED
    BY <1>6, <2>1, <2>2
<1>8. <<Below(y), Below(x)>> \in Smaller
  <2>1. Below(x) \in SUBSET Nat /\ Below(y) \in SUBSET Nat
    BY x \in Nat, y \in Nat
  <2>2. IsFiniteSet(Below(x)) /\ IsFiniteSet(Below(y))
    <3>1. IsFiniteSet(Below(x))
      BY FS_Interval, x \in Nat
    <3>2. IsFiniteSet(Below(y))
      BY FS_Interval, y \in Nat
    <3>3. QED
      BY <3>1, <3>2
  <2>3. QED
    BY <1>7, <2>1, <2>2 DEF StrictSubsetOrdering, FiniteSubsetsOf
<1>9. QED
  BY <1>4, <1>5, <1>8

\* The position FirstFit picks is one of those that fit.
LEMMA FirstFitFits ==
  ASSUME TypeOK, NEW n \in Sizes, Fitting(n) # {}
  PROVE  FirstFit(n) \in Fitting(n)
<1>1. Fitting(n) \in SUBSET Nat
  BY DEF Fitting, TypeOK, ArenaTypeOK
<1>2. \E x \in Fitting(n) : \A y \in Fitting(n) : x <= y
  BY <1>1, LeastNatural
<1>3. QED
  BY <1>2 DEF FirstFit, Min

\* What swap_remove leaves: the other entries, each still listed once.
LEMMA SwapRemoveListed ==
  ASSUME NEW S, NEW s \in Seq(S), NEW i \in DOMAIN s,
         \A j, k \in DOMAIN s : s[j] = s[k] => j = k
  PROVE  /\ SwapRemove(s, i) \in Seq(S)
         /\ Len(SwapRemove(s, i)) = Len(s) - 1
         /\ {SwapRemove(s, i)[j] : j \in DOMAIN SwapRemove(s, i)}
              = {s[j] : j \in DOMAIN s} \ {s[i]}
         /\ \A j, k \in DOMAIN SwapRemove(s, i) :
              SwapRemove(s, i)[j] = SwapRemove(s, i)[k] => j = k
<1>. DEFINE t == SwapRemove(s, i)
<1>1. /\ Len(s) \in Nat \ {0}
      /\ DOMAIN s = 1 .. Len(s)
      /\ i \in 1 .. Len(s)
      /\ \A j \in 1 .. Len(s) : s[j] \in S
  OBVIOUS
<1>2. t = [j \in 1 .. (Len(s) - 1) |-> IF j = i THEN s[Len(s)] ELSE s[j]]
  BY DEF SwapRemove
<1>3. t \in [1 .. (Len(s) - 1) -> S]
  BY <1>1, <1>2
<1>4. t \in Seq(S) /\ Len(t) = Len(s) - 1 /\ DOMAIN t = 1 .. (Len(s) - 1)
  <2>. HIDE DEF t
  <2>1. Len(s) - 1 \in Nat
    BY <1>1
  <2>2. QED
    BY <1>3, <2>1
<1>. HIDE DEF t
<1>5. \A j \in DOMAIN t : t[j] \in {s[k] : k \in DOMAIN s} \ {s[i]}
  BY <1>1, <1>2, <1>4
<1>6. ASSUME NEW k \in DOMAIN s, s[k] # s[i]
      PROVE  \E j \in DOMAIN t : t[j] = s[k]
  <2>1. CASE k = Len(s)
    <3>1. i \in DOMAIN t /\ t[i] = s[k]
      BY <1>1, <1>2, <1>4, <1>6, <2>1
    <3>2. QED
      BY <3>1
  <2>2. CASE k # Len(s)
    <3>1. k \in DOMAIN t /\ t[k] = s[k]
      BY <1>1, <1>2, <1>4, <1>6, <2>2
    <3>2. QED
      BY <3>1
  <2>3. QED
    BY <2>1, <2>2
<1>7. ASSUME NEW j \in DOMAIN t, NEW k \in DOMAIN t, t[j] = t[k]
      PROVE  j = k
  BY <1>1, <1>2, <1>4, <1>7
<1>8. {t[j] : j \in DOMAIN t} = {s[j] : j \in DOMAIN s} \ {s[i]}
  BY <1>5, <1>6
<1>9. QED
  BY <1>4, <1>7, <1>8 DEF t

\* An enumeration of a finite set is a sequence that lists it, each element
\* once and in order.
LEMMA AscendingListed ==
  ASSUME NEW S \in SUBSET Nat, IsFiniteSet(S), NEW s \in Ascending(S)
  PROVE  /\ s \in Seq(S)
         /\ {s[i] : i \in DOMAIN s} = S
         /\ \A i, j \in DOMAIN s : s[i] = s[j] => i = j
         /\ \A i, j \in DOMAIN s : i < j => s[i] < s[j]
<1>1. Cardinality(S) \in Nat
  BY FS_CardinalityType
<1>2. /\ s \in [1 .. Cardinality(S) -> S]
      /\ \A i, j \in 1 .. Cardinality(S) : i < j => s[i] < s[j]
      /\ \A a \in S : \E i \in 1 .. Cardinality(S) : s[i] = a
  BY DEF Ascending
<1>3. s \in Seq(S) /\ DOMAIN s = 1 .. Cardinality(S)
  BY <1>1, <1>2
<1>4. {s[i] : i \in DOMAIN s} = S
  BY <1>2, <1>3
<1>5. \A i, j \in DOMAIN s : s[i] = s[j] => i = j
  <2>1. SUFFICES ASSUME NEW i \in 1 .. Cardinality(S),
                        NEW j \in 1 .. Cardinality(S), i < j
                 PROVE  s[i] # s[j]
    BY <1>1, <1>3
  <2>2. s[i] < s[j] /\ s[i] \in Nat /\ s[j] \in Nat
    BY <1>2, <2>1
  <2>3. QED
    BY <2>2
<1>6. QED
  BY <1>2, <1>3, <1>4, <1>5

(***************************************************************************)
(* Blocks and runs of free blocks                                          *)
(***************************************************************************)

\* What the invariant says of one block, unfolded once for all.
LEMMA BlockFacts ==
  ASSUME IInv
  PROVE  /\ bump \in Nat /\ bump <= Capacity
         /\ Blocks \subseteq Addr /\ live \subseteq Blocks /\ Listed \subseteq Blocks
         /\ Listed \subseteq Nat /\ IsFiniteSet(Listed)
         /\ \A b \in Listed : b \notin live
         /\ \A b \in Blocks : /\ b \in Nat /\ size[b] \in Nat
                              /\ EndOf(b) \in Nat /\ b < EndOf(b)
                              /\ EndOf(b) <= bump
                              /\ EndOf(b) < bump => EndOf(b) \in Blocks
         /\ \A b, c \in Blocks : b < c => EndOf(b) <= c
         /\ bump > 0 => 0 \in Blocks
<1>1. /\ bump \in Nat /\ bump <= Capacity /\ live \subseteq Addr
      /\ size \in [Addr -> 0 .. Capacity]
  BY DEF IInv, TypeOK, ArenaTypeOK
<1>2. Listed \subseteq Addr
  BY DEF IInv, TypeOK, ArenaTypeOK, Listed
<1>3. IsFiniteSet(Listed)
  <2>1. IsFiniteSet(Addr)
    BY FS_Interval DEF Addr
  <2>2. QED
    BY <1>2, <2>1, FS_Subset
<1>4. Addr \subseteq Nat
  BY DEF Addr
<1>5. \A b \in Blocks : b \in Addr /\ b \in Nat /\ size[b] \in Nat
  BY <1>1, <1>2, <1>4 DEF Blocks
<1>6. Tiles(Blocks)
  BY DEF IInv, HeapWalkable, Blocks
<1>7. \A b \in Blocks : EndOf(b) \in Nat /\ b < EndOf(b)
  BY <1>5, <1>6 DEF Tiles, EndOf
<1>8. \A b \in Listed : b \notin live
  BY DEF IInv, FreeListAgrees
<1>9. QED
  BY <1>1, <1>2, <1>3, <1>4, <1>5, <1>6, <1>7, <1>8 DEF Tiles, Blocks

\* RunEnd is well defined: it is the end of a listed block at or after b,
\* beyond which the list has no neighbour.
LEMMA RunEndFacts ==
  ASSUME IInv, NEW b \in Listed
  PROVE  /\ RunEnd(b) \in {EndOf(c) : c \in {d \in Listed : d >= b}}
         /\ RunEnd(b) \notin Listed
         /\ \A c \in Listed : c >= b /\ EndOf(c) < RunEnd(b) => EndOf(c) \in Listed
<1>. DEFINE Ends == {EndOf(c) : c \in {d \in Listed : d >= b}}
            Gaps == {bump - e : e \in Ends}
            Last == {e \in Ends : e \notin Listed}
<1>1. Ends \subseteq Nat /\ (\A e \in Ends : e <= bump) /\ EndOf(b) \in Ends
  BY BlockFacts
<1>2. PICK g \in Ends : \A e \in Ends : e <= g
  <2>1. Gaps \subseteq Nat /\ Gaps # {}
    BY <1>1, BlockFacts
  <2>2. PICK x \in Gaps : \A y \in Gaps : x <= y
    BY <2>1, LeastNatural
  <2>3. PICK g \in Ends : x = bump - g
    OBVIOUS
  <2>4. ASSUME NEW e \in Ends
        PROVE  e <= g
    <3>1. x <= bump - e
      BY <2>2
    <3>2. e \in Nat /\ g \in Nat /\ bump \in Nat
      BY <1>1, BlockFacts
    <3>3. QED
      BY <2>3, <3>1, <3>2
  <2>5. QED
    BY <2>4
<1>3. g \in Last
  <2>1. SUFFICES ASSUME g \in Listed
                 PROVE  FALSE
    OBVIOUS
  <2>2. g >= b /\ g < EndOf(g) /\ g \in Nat
    BY <1>1, <2>1, BlockFacts
  <2>3. EndOf(g) \in Ends
    BY <2>1, <2>2
  <2>4. QED
    BY <1>1, <1>2, <2>2, <2>3
<1>4. PICK e \in Last : \A f \in Last : e <= f
  <2>1. Last \subseteq Nat /\ Last # {}
    BY <1>1, <1>3
  <2>2. QED
    BY <2>1, LeastNatural
<1>5. ASSUME NEW c \in Listed, c >= b, EndOf(c) < e
      PROVE  EndOf(c) \in Listed
  <2>1. EndOf(c) \in Ends /\ EndOf(c) \in Nat /\ e \in Nat
    BY <1>1, <1>5
  <2>2. QED
    BY <1>4, <1>5, <2>1
<1>6. \E x \in Ends : /\ x \notin Listed
                      /\ \A c \in Listed : c >= b /\ EndOf(c) < x => EndOf(c) \in Listed
  BY <1>4, <1>5
<1>7. QED
  BY <1>6 DEF RunEnd

\* A run is free from its head to its end, and stops at a live object or at
\* the bump pointer.
LEMMA RunIsFree ==
  ASSUME IInv, NEW b \in Listed
  PROVE  /\ RunEnd(b) \in Nat /\ b < RunEnd(b) /\ RunEnd(b) <= bump
         /\ RunEnd(b) < bump => RunEnd(b) \in live
         /\ \A c \in Blocks : b <= c /\ c < RunEnd(b) => c \in Listed
<1>. DEFINE e == RunEnd(b)
<1>1. PICK l \in Listed : l >= b /\ e = EndOf(l)
  BY RunEndFacts
<1>2. e \in Nat /\ b < e /\ e <= bump /\ b \in Nat
  <2>1. l \in Nat /\ b \in Nat /\ l < EndOf(l) /\ EndOf(l) <= bump /\ EndOf(l) \in Nat
    BY BlockFacts
  <2>2. QED
    BY <1>1, <2>1
<1>3. e < bump => e \in live
  <2>1. e < bump => e \in Blocks
    BY <1>1, BlockFacts
  <2>2. QED
    BY <2>1, RunEndFacts DEF Blocks
<1>4. \A c \in Listed : c >= b /\ EndOf(c) < e => EndOf(c) \in Listed
  BY RunEndFacts
<1>. HIDE DEF e
<1>5. ASSUME NEW x \in Blocks, b <= x, x < e, x \notin Listed
      PROVE  FALSE
  <2>. DEFINE Bad == {c \in Blocks : b <= c /\ c < e /\ c \notin Listed}
  <2>1. Bad \subseteq Nat /\ Bad # {}
    BY <1>5, BlockFacts
  <2>2. PICK c \in Bad : \A d \in Bad : c <= d
    BY <2>1, LeastNatural
  <2>3. b < c /\ c \in Nat
    BY <1>2, <2>1, <2>2
  <2>4. PICK p \in Blocks : EndOf(p) = c
    BY <1>2, <2>2, <2>3 DEF IInv, Predecessors
  <2>5. p \in Nat /\ p < c
    BY <2>4, BlockFacts
  <2>6. p >= b
    <3>1. b \in Blocks
      BY BlockFacts
    <3>2. p < b => EndOf(p) <= b
      BY <3>1, BlockFacts
    <3>3. QED
      BY <1>2, <2>3, <2>4, <2>5, <3>2
  <2>7. p < e
    BY <1>2, <2>2, <2>3, <2>5
  <2>8. p \in Listed
    <3>1. p \notin Bad
      BY <2>2, <2>3, <2>5
    <3>2. QED
      BY <2>6, <2>7, <3>1
  <2>9. QED
    BY <1>4, <2>2, <2>4, <2>6, <2>8
<1>6. QED
  BY <1>2, <1>3, <1>5 DEF e

\* Two runs do not overlap.
LEMMA RunsDisjoint ==
  ASSUME IInv, NEW b \in RunHeads, NEW c \in RunHeads, b < c
  PROVE  RunEnd(b) <= c
<1>1. /\ b \in Listed /\ c \in Listed /\ c \in Blocks /\ b \in Nat /\ c \in Nat
      /\ b \in Blocks
  BY BlockFacts DEF RunHeads
<1>2. SUFFICES ASSUME c < RunEnd(b)
               PROVE  FALSE
  BY <1>1, RunIsFree
<1>3. PICK p \in Blocks : EndOf(p) = c
  BY <1>1 DEF IInv, Predecessors
<1>4. p \in Nat /\ p < c /\ (p < b => EndOf(p) <= b)
  BY <1>1, <1>3, BlockFacts
<1>5. b <= p /\ p < RunEnd(b)
  BY <1>1, <1>2, <1>3, <1>4, RunIsFree
<1>6. p \in Listed
  BY <1>1, <1>5, RunIsFree
<1>7. QED
  BY <1>1, <1>3, <1>6 DEF RunHeads

\* Every free block belongs to a run.
LEMMA RunOfBlock ==
  ASSUME IInv, NEW d \in Listed
  PROVE  \E b \in RunHeads : b <= d /\ d < RunEnd(b)
<1>. DEFINE FreeDownTo(x) == \A c \in Blocks : x <= c /\ c <= d => c \in Listed
            Start == {x \in Listed : x <= d /\ FreeDownTo(x)}
<1>1. d \in Nat /\ d \in Blocks /\ d < bump /\ bump \in Nat
  <2>1. d \in Blocks
    BY BlockFacts
  <2>2. QED
    BY <2>1, BlockFacts
<1>2. d \in Start
  BY <1>1, BlockFacts
<1>3. Start \subseteq Nat
  BY BlockFacts
<1>4. PICK b \in Start : \A x \in Start : b <= x
  BY <1>2, <1>3, LeastNatural
<1>5. b \in RunHeads
  <2>1. SUFFICES ASSUME NEW p \in Listed, EndOf(p) = b
                 PROVE  FALSE
    BY DEF RunHeads
  <2>2. p \in Nat /\ p < b /\ b \in Nat /\ b <= d
    BY <1>4, <2>1, BlockFacts
  <2>3. ASSUME NEW c \in Blocks, p <= c, c <= d
        PROVE  c \in Listed
    <3>1. c \in Nat /\ (p < c => EndOf(p) <= c)
      BY <2>1, BlockFacts
    <3>2. CASE c = p
      BY <3>2
    <3>3. CASE c >= b
      BY <1>4, <2>3, <3>3
    <3>4. QED
      BY <2>1, <2>2, <2>3, <3>1, <3>2, <3>3
  <2>4. p \in Start
    BY <1>1, <2>2, <2>3
  <2>5. QED
    BY <1>4, <2>2, <2>4
<1>6. d < RunEnd(b)
  <2>1. SUFFICES ASSUME RunEnd(b) <= d
                 PROVE  FALSE
    BY <1>1, <1>4, RunIsFree
  <2>2. RunEnd(b) < bump /\ RunEnd(b) \in live /\ b <= RunEnd(b)
    BY <1>1, <1>3, <1>4, <2>1, RunIsFree
  <2>3. RunEnd(b) \in Blocks /\ RunEnd(b) \notin Listed
    BY <2>2, BlockFacts
  <2>4. QED
    BY <1>4, <2>1, <2>2, <2>3
<1>7. QED
  BY <1>4, <1>5, <1>6

\* At most one run reaches the bump pointer, and no object lies above it.
LEMMA TopRunFacts ==
  ASSUME IInv, NEW t \in TopRun
  PROVE  /\ TopRun = {t}
         /\ t \in Nat /\ t < bump /\ t \in Listed /\ t \in RunHeads
         /\ \A h \in live : EndOf(h) <= t
<1>1. /\ t \in RunHeads /\ RunEnd(t) = bump /\ t \in Listed
      /\ t \in Nat /\ t < bump /\ bump \in Nat /\ t \in Blocks
  BY BlockFacts, RunIsFree DEF TopRun, RunHeads
<1>2. ASSUME NEW u \in TopRun
      PROVE  u = t
  <2>1. u \in RunHeads /\ RunEnd(u) = bump /\ u \in Nat /\ u < bump
    BY BlockFacts, RunIsFree DEF TopRun, RunHeads
  <2>2. ~ (u < t)
    BY <1>1, <2>1, RunsDisjoint
  <2>3. ~ (t < u)
    BY <1>1, <2>1, RunsDisjoint
  <2>4. QED
    BY <1>1, <2>1, <2>2, <2>3
<1>3. ASSUME NEW h \in live
      PROVE  EndOf(h) <= t
  <2>1. h \in Blocks /\ h \notin Listed /\ h \in Nat /\ h < bump
    <3>1. h \in Blocks /\ h \notin Listed
      BY BlockFacts
    <3>2. QED
      BY <3>1, BlockFacts
  <2>2. h < t
    BY <1>1, <2>1, RunIsFree
  <2>3. QED
    BY <1>1, <2>1, <2>2, BlockFacts
<1>4. QED
  BY <1>1, <1>2, <1>3

(***************************************************************************)
(* Each action keeps the invariant                                         *)
(***************************************************************************)

\* The empty space satisfies the invariant.
LEMMA InitIInv == Init => IInv
<1>. SUFFICES ASSUME Init
              PROVE  IInv
  OBVIOUS
<1>1. Listed = {} /\ Blocks = {}
  BY DEF Init, ArenaInit, Listed, Blocks
<1>2. TypeOK
  BY DEF Init, ArenaInit, TypeOK, ArenaTypeOK
<1>3. HeapWalkable /\ Predecessors
  BY <1>1 DEF Init, ArenaInit, HeapWalkable, Tiles, Predecessors, Blocks
<1>4. FreeListAgrees /\ SortedIsTrue
  BY <1>1 DEF Init, ArenaInit, FreeListAgrees, SortedIsTrue
<1>5. QED
  BY <1>2, <1>3, <1>4 DEF IInv

\* alloc from virgin memory adds a last block that begins where the others end.
LEMMA AllocFromBumpIInv ==
  ASSUME IInv, NEW n \in Sizes, AllocFromBump(n)
  PROVE  IInv'
<1>1. /\ n \in Nat /\ n > 0 /\ bump + n <= Capacity /\ bump \in Addr
      /\ bump \in Nat
  BY BlockFacts DEF AllocFromBump, TakeVirgin, Addr
<1>2. /\ free' = free /\ sorted' = sorted /\ Listed' = Listed
      /\ live' = live \cup {bump} /\ Blocks' = Blocks \cup {bump}
      /\ bump' = bump + n /\ used' = used + n
  BY DEF AllocFromBump, TakeVirgin, Listed, Blocks
<1>3. /\ \A b \in Blocks : b # bump /\ size'[b] = size[b] /\ EndOf(b)' = EndOf(b)
                           /\ (b \in flagged' <=> b \in flagged)
      /\ size'[bump] = n /\ bump \notin flagged'
  <2>1. ASSUME NEW b \in Blocks
        PROVE  /\ b # bump /\ size'[b] = size[b] /\ EndOf(b)' = EndOf(b)
               /\ (b \in flagged' <=> b \in flagged)
    <3>1. b \in Addr /\ b \in Nat /\ b < bump
      BY <1>1, BlockFacts
    <3>2. size'[b] = size[b] /\ (b \in flagged' <=> b \in flagged)
      BY <1>1, <3>1 DEF AllocFromBump, TakeVirgin
    <3>3. QED
      BY <1>1, <3>1, <3>2 DEF EndOf
  <2>2. size'[bump] = n /\ bump \notin flagged'
    BY <1>1 DEF AllocFromBump, TakeVirgin
  <2>3. QED
    BY <2>1, <2>2 DEF EndOf
<1>4. TypeOK'
  <2>1. size' \in [Addr -> 0 .. Capacity]
    BY <1>1 DEF AllocFromBump, TakeVirgin, IInv, TypeOK, ArenaTypeOK
  <2>2. flagged' \subseteq Addr
    BY <1>1 DEF AllocFromBump, TakeVirgin, IInv, TypeOK, ArenaTypeOK
  <2>3. QED
    BY <1>1, <1>2, <2>1, <2>2 DEF IInv, TypeOK, ArenaTypeOK
<1>5. HeapWalkable'
  <2>1. ASSUME NEW b \in Blocks
        PROVE  /\ b < bump /\ b \in Nat /\ EndOf(b) <= bump /\ EndOf(b) \in Nat
               /\ size[b] > 0
    BY <1>1, BlockFacts DEF IInv, HeapWalkable, Tiles, Blocks
  <2>2. bump' > 0 => 0 \in Blocks'
    BY <1>1, <1>2, BlockFacts
  <2>3. ASSUME NEW b \in Blocks'
        PROVE  /\ size'[b] > 0 /\ EndOf(b)' <= bump'
               /\ EndOf(b)' < bump' => EndOf(b)' \in Blocks'
    <3>1. CASE b = bump
      BY <1>1, <1>2, <1>3, <3>1 DEF EndOf
    <3>2. CASE b \in Blocks
      <4>1. EndOf(b) < bump => EndOf(b) \in Blocks
        BY <3>2, BlockFacts
      <4>2. QED
        BY <1>1, <1>2, <1>3, <2>1, <3>2, <4>1
    <3>3. QED
      BY <1>2, <3>1, <3>2
  <2>4. ASSUME NEW b \in Blocks', NEW c \in Blocks', b < c
        PROVE  EndOf(b)' <= c
    <3>1. b \in Blocks
      BY <1>1, <1>2, <2>1, <2>4
    <3>2. c \in Blocks => EndOf(b) <= c
      BY <2>4, <3>1, BlockFacts
    <3>3. QED
      BY <1>2, <1>3, <2>1, <3>1, <3>2
  <2>5. Tiles(Blocks)'
    BY <2>2, <2>3, <2>4 DEF Tiles
  <2>6. QED
    BY <2>5 DEF HeapWalkable, Blocks
<1>6. FreeListAgrees'
  BY <1>2, <1>3, BlockFacts DEF IInv, FreeListAgrees
<1>7. SortedIsTrue'
  BY <1>2 DEF IInv, SortedIsTrue
<1>8. Predecessors'
  <2>1. ASSUME NEW c \in Blocks \cup {bump}, c > 0
        PROVE  \E d \in Blocks' : EndOf(d)' = c
    <3>1. PICK d \in Blocks : EndOf(d) = c
      BY <2>1 DEF IInv, Predecessors
    <3>2. d \in Blocks' /\ EndOf(d)' = c
      BY <1>2, <1>3, <3>1
    <3>3. QED
      BY <3>2
  <2>2. \E d \in Blocks' : EndOf(d)' = bump'
    <3>1. bump \in Blocks' /\ bump + size'[bump] = bump'
      BY <1>2, <1>3
    <3>2. QED
      BY <3>1 DEF EndOf
  <2>3. QED
    BY <1>2, <2>1, <2>2 DEF Predecessors
<1>9. QED
  BY <1>4, <1>5, <1>6, <1>7, <1>8 DEF IInv

\* free moves a live block to the end of the list, which then no longer counts
\* as sorted.
LEMMA FreeIInv ==
  ASSUME IInv, NEW h \in live, Free(h)
  PROVE  IInv'
<1>1. /\ h \in Blocks /\ h \in Addr /\ h \notin Listed /\ free \in Seq(Addr)
      /\ h < EndOf(h) /\ h \in Nat /\ EndOf(h) \in Nat
  BY BlockFacts DEF IInv, TypeOK, ArenaTypeOK
<1>2. /\ free' \in Seq(Addr) /\ Len(free') = Len(free) + 1
      /\ \A i \in 1 .. Len(free) : free'[i] = free[i]
      /\ free'[Len(free) + 1] = h
  BY <1>1 DEF Free, GiveBack
<1>3. Listed' = Listed \cup {h}
  <2>1. DOMAIN free = 1 .. Len(free) /\ DOMAIN free' = 1 .. (Len(free) + 1)
        /\ Len(free) \in Nat
    BY <1>1, <1>2
  <2>2. QED
    BY <1>2, <2>1 DEF Listed
<1>4. live' = live \ {h} /\ Blocks' = Blocks /\ bump' = bump /\ sorted' = FALSE
  BY <1>3 DEF Free, GiveBack, Blocks
<1>5. \A b \in Blocks : size'[b] = size[b] /\ EndOf(b)' = EndOf(b)
  <2>1. ASSUME NEW b \in Blocks
        PROVE  size'[b] = size[b]
    <3>1. b \in Addr /\ b \in Nat /\ (h < b => EndOf(h) <= b)
      BY <1>1, BlockFacts
    <3>2. QED
      BY <1>1, <3>1 DEF Free, GiveBack
  <2>2. QED
    BY <2>1 DEF EndOf
<1>6. flagged' = flagged \cup {h}
  BY DEF Free, GiveBack
<1>7. TypeOK'
  <2>1. size' \in [Addr -> 0 .. Capacity]
    BY DEF Free, GiveBack, IInv, TypeOK, ArenaTypeOK
  <2>2. flagged' \subseteq Addr
    BY <1>6 DEF IInv, TypeOK, ArenaTypeOK
  <2>3. used' \in Int
    BY <1>1, BlockFacts DEF Free, GiveBack, IInv, TypeOK, ArenaTypeOK
  <2>4. QED
    BY <1>2, <1>4, <2>1, <2>2, <2>3 DEF IInv, TypeOK, ArenaTypeOK
<1>8. HeapWalkable'
  <2>1. Tiles(Blocks)'
    BY <1>4, <1>5 DEF IInv, HeapWalkable, Tiles, Blocks
  <2>2. QED
    BY <2>1 DEF HeapWalkable, Blocks
<1>9. FreeListAgrees'
  <2>1. \A b \in live' : b \notin flagged'
    BY <1>4, <1>6, BlockFacts DEF IInv, FreeListAgrees, TypeOK, ArenaTypeOK
  <2>2. \A b \in Listed' : b \in flagged'
    BY <1>1, <1>3, <1>6, BlockFacts DEF IInv, FreeListAgrees, TypeOK, ArenaTypeOK
  <2>3. \A i, j \in DOMAIN free' : free'[i] = free'[j] => i = j
    <3>1. DOMAIN free = 1 .. Len(free) /\ DOMAIN free' = 1 .. (Len(free) + 1)
          /\ Len(free) \in Nat
      BY <1>1, <1>2
    <3>2. \A i \in 1 .. Len(free) : free[i] # h
      BY <1>1, <3>1 DEF Listed
    <3>3. QED
      BY <1>2, <3>1, <3>2 DEF IInv, FreeListAgrees
  <2>4. QED
    BY <2>1, <2>2, <2>3 DEF FreeListAgrees
<1>10. SortedIsTrue'
  BY <1>4 DEF SortedIsTrue
<1>11. Predecessors'
  BY <1>4, <1>5 DEF IInv, Predecessors
<1>12. QED
  BY <1>7, <1>8, <1>9, <1>10, <1>11 DEF IInv

\* Taking n units from a listed block leaves the object and, if anything is
\* left over, the remainder as a listed block behind it.
LEMMA AllocFromFreeListIInv ==
  ASSUME IInv, NEW n \in Sizes, AllocFromFreeList(n)
  PROVE  IInv'
<1>. DEFINE i == FirstFit(n)
            block == free[i]
            rest == size[block] - n
            Split == IF rest > 0 THEN {block + n} ELSE {}
            swapped == SwapRemove(free, i)
<1>1. i \in DOMAIN free /\ size[block] >= n
  BY FirstFitFits DEF AllocFromFreeList, TakeBlock, Leftover, Fitting, IInv
<1>2. /\ block \in Listed /\ block \in Blocks /\ block \in Addr /\ block \in Nat
      /\ block \notin live /\ n \in Nat /\ n > 0 /\ size[block] \in Nat
      /\ EndOf(block) = block + size[block] /\ EndOf(block) <= bump
      /\ bump \in Nat /\ bump <= Capacity
  <2>1. block \in Listed
    BY <1>1 DEF Listed
  <2>2. QED
    BY <2>1, BlockFacts DEF EndOf
<1>3. /\ rest \in Nat
      /\ rest > 0 => block + n \in Addr /\ block + n + rest = EndOf(block)
      /\ rest = 0 => block + n = EndOf(block)
  BY <1>1, <1>2 DEF Addr
<1>4. /\ size' = [a \in Addr |->
                    IF a = block THEN n
                    ELSE IF block < a /\ a < block + n THEN 0
                    ELSE IF rest > 0 /\ a = block + n THEN rest
                    ELSE size[a]]
      /\ flagged' = (flagged \ (block .. (block + n - 1))) \cup Split
      /\ free' = IF rest > 0 THEN Append(swapped, block + n) ELSE swapped
      /\ live' = live \cup {block} /\ bump' = bump /\ used' = used + n
      /\ sorted' = FALSE
  BY DEF AllocFromFreeList, TakeBlock, Leftover
<1>5. /\ swapped \in Seq(Addr)
      /\ {swapped[j] : j \in DOMAIN swapped} = Listed \ {block}
      /\ \A j, k \in DOMAIN swapped : swapped[j] = swapped[k] => j = k
  <2>1. free \in Seq(Addr) /\ \A j, k \in DOMAIN free : free[j] = free[k] => j = k
    BY DEF IInv, TypeOK, ArenaTypeOK, FreeListAgrees
  <2>2. QED
    BY <1>1, <2>1, SwapRemoveListed DEF Listed
<1>. HIDE DEF i, block, rest, swapped
<1>6. \A b \in Blocks \ {block} : ~ (block <= b /\ b < EndOf(block))
  BY <1>2, BlockFacts
<1>7. rest > 0 => block + n \notin Blocks
  BY <1>2, <1>3, <1>6
<1>8. /\ free' \in Seq(Addr) /\ Listed' = (Listed \ {block}) \cup Split
      /\ \A j, k \in DOMAIN free' : free'[j] = free'[k] => j = k
  <2>1. CASE rest > 0
    <3>1. /\ free' \in Seq(Addr) /\ Len(free') = Len(swapped) + 1
          /\ \A j \in 1 .. Len(swapped) : free'[j] = swapped[j]
          /\ free'[Len(swapped) + 1] = block + n
          /\ DOMAIN free' = 1 .. (Len(swapped) + 1)
          /\ DOMAIN swapped = 1 .. Len(swapped) /\ Len(swapped) \in Nat
      BY <1>3, <1>4, <1>5, <2>1
    <3>2. {free'[j] : j \in DOMAIN free'} = (Listed \ {block}) \cup {block + n}
      BY <1>5, <3>1
    <3>3. \A j \in DOMAIN swapped : swapped[j] # block + n
      BY <1>5, <1>7, <2>1, BlockFacts
    <3>4. \A j, k \in DOMAIN free' : free'[j] = free'[k] => j = k
      BY <1>5, <3>1, <3>3
    <3>5. QED
      BY <2>1, <3>1, <3>2, <3>4 DEF Listed
  <2>2. CASE ~ (rest > 0)
    BY <1>4, <1>5, <2>2 DEF Listed
  <2>3. QED
    BY <2>1, <2>2
<1>9. Blocks' = Blocks \cup Split
  BY <1>2, <1>4, <1>8 DEF Blocks
<1>10. ASSUME NEW b \in Blocks \ {block}
       PROVE  /\ size'[b] = size[b] /\ EndOf(b)' = EndOf(b)
              /\ b \in flagged' <=> b \in flagged
  <2>1. b \in Addr /\ b \in Nat
    BY BlockFacts
  <2>2. ~ (block <= b /\ b < block + n) /\ ~ (rest > 0 /\ b = block + n)
    BY <1>2, <1>3, <1>6, <1>7, <2>1
  <2>3. size'[b] = size[b] /\ b # block
    BY <1>2, <1>4, <2>1, <2>2
  <2>4. b \in flagged' <=> b \in flagged
    BY <1>2, <1>4, <2>1, <2>2
  <2>5. QED
    BY <2>3, <2>4 DEF EndOf
<1>11. /\ size'[block] = n /\ block + size'[block] = block + n
       /\ block \notin flagged'
  BY <1>2, <1>3, <1>4
<1>12. rest > 0 => /\ size'[block + n] = rest /\ block + n \in flagged'
                   /\ block + n + size'[block + n] = EndOf(block)
  <2>1. ASSUME rest > 0
        PROVE  size'[block + n] = rest /\ block + n \in flagged'
    <3>1. block + n \in Addr /\ block + n # block /\ ~ (block + n < block + n)
      BY <1>2, <1>3, <2>1
    <3>. QED
      BY <1>4, <2>1, <3>1
  <2>. QED
    BY <1>3, <2>1
<1>13. TypeOK'
  <2>1. size' \in [Addr -> 0 .. Capacity]
    BY <1>1, <1>2, <1>3, <1>4 DEF IInv, TypeOK, ArenaTypeOK
  <2>2. flagged' \subseteq Addr
    BY <1>3, <1>4 DEF IInv, TypeOK, ArenaTypeOK
  <2>3. used' \in Int /\ live' \subseteq Addr
    BY <1>2, <1>4 DEF IInv, TypeOK, ArenaTypeOK
  <2>4. bump' \in 0 .. Capacity /\ sorted' \in BOOLEAN
    BY <1>4 DEF IInv, TypeOK, ArenaTypeOK
  <2>5. QED
    BY <1>8, <2>1, <2>2, <2>3, <2>4 DEF TypeOK, ArenaTypeOK
<1>14. HeapWalkable'
  <2>1. bump' > 0 => 0 \in Blocks'
    BY <1>4, <1>9, BlockFacts
  <2>2. EndOf(block) < bump => EndOf(block) \in Blocks
    BY <1>2, BlockFacts
  <2>3. ASSUME NEW b \in Blocks'
        PROVE  /\ size'[b] > 0 /\ EndOf(b)' <= bump'
               /\ EndOf(b)' < bump' => EndOf(b)' \in Blocks'
    <3>1. CASE b = block
      BY <1>2, <1>3, <1>4, <1>9, <1>11, <2>2, <3>1 DEF EndOf
    <3>2. CASE rest > 0 /\ b = block + n
      BY <1>2, <1>3, <1>4, <1>9, <1>12, <2>2, <3>2 DEF EndOf
    <3>3. CASE b \in Blocks \ {block}
      <4>1. /\ size[b] > 0 /\ EndOf(b) <= bump
            /\ EndOf(b) < bump => EndOf(b) \in Blocks
        BY <3>3, BlockFacts DEF IInv, HeapWalkable, Tiles, Blocks
      <4>2. QED
        BY <1>4, <1>9, <1>10, <3>3, <4>1
    <3>4. QED
      BY <1>9, <3>1, <3>2, <3>3
  <2>4. ASSUME NEW b \in Blocks', NEW c \in Blocks', b < c
        PROVE  EndOf(b)' <= c
    <3>1. /\ c \in Blocks => c \in Nat
          /\ b \in Blocks => b \in Nat /\ EndOf(b) \in Nat
          /\ b \in Blocks /\ c \in Blocks => EndOf(b) <= c
          /\ c \in Blocks /\ block < c => EndOf(block) <= c
          /\ b \in Blocks /\ b < block => EndOf(b) <= block
      BY <1>2, <2>4, BlockFacts
    <3>2. b \in Blocks \/ (rest > 0 /\ b = block + n)
      BY <1>9
    <3>3. c \in Blocks \/ (rest > 0 /\ c = block + n)
      BY <1>9
    <3>4. CASE b = block
      <4>1. EndOf(b)' = block + n
        BY <1>11, <3>4 DEF EndOf
      <4>2. QED
        BY <1>2, <1>3, <2>4, <3>1, <3>3, <3>4, <4>1
    <3>5. CASE rest > 0 /\ b = block + n
      <4>1. EndOf(b)' = EndOf(block)
        BY <1>12, <3>5 DEF EndOf
      <4>2. c \in Blocks /\ block < c
        BY <1>2, <2>4, <3>1, <3>3, <3>5
      <4>3. QED
        BY <3>1, <4>1, <4>2
    <3>6. CASE b \in Blocks \ {block}
      <4>1. EndOf(b)' = EndOf(b)
        BY <1>10, <3>6
      <4>2. CASE c \in Blocks
        BY <3>1, <3>6, <4>1, <4>2
      <4>3. CASE rest > 0 /\ c = block + n
        <5>1. b < block
          BY <1>2, <1>3, <1>6, <2>4, <3>1, <3>6, <4>3
        <5>2. QED
          BY <1>2, <3>1, <3>6, <4>1, <4>3, <5>1
      <4>4. QED
        BY <3>3, <4>2, <4>3
    <3>7. QED
      BY <3>2, <3>4, <3>5, <3>6
  <2>5. Tiles(Blocks)'
    BY <2>1, <2>3, <2>4 DEF Tiles
  <2>6. QED
    BY <2>5 DEF HeapWalkable, Blocks
<1>15. FreeListAgrees'
  <2>1. ASSUME NEW b \in live'
        PROVE  b \notin flagged'
    BY <1>4, <1>10, <1>11, BlockFacts DEF IInv, FreeListAgrees
  <2>2. ASSUME NEW b \in Listed'
        PROVE  b \in flagged'
    BY <1>8, <1>10, <1>12, BlockFacts DEF IInv, FreeListAgrees
  <2>3. QED
    BY <1>8, <2>1, <2>2 DEF FreeListAgrees
<1>16. SortedIsTrue'
  BY <1>4 DEF SortedIsTrue
<1>17. Predecessors'
  <2>1. ASSUME NEW c \in Blocks \cup {bump}, c > 0
        PROVE  \E d \in Blocks' : EndOf(d)' = c
    <3>1. PICK d \in Blocks : EndOf(d) = c
      BY <2>1 DEF IInv, Predecessors
    <3>2. CASE d # block
      BY <1>9, <1>10, <3>1, <3>2
    <3>3. CASE d = block /\ rest > 0
      <4>1. \E e \in Blocks' : e + size'[e] = c
        BY <1>9, <1>12, <3>1, <3>3
      <4>2. QED
        BY <4>1 DEF EndOf
    <3>4. CASE d = block /\ ~ (rest > 0)
      <4>1. d \in Blocks' /\ EndOf(d)' = c
        BY <1>3, <1>9, <1>11, <3>1, <3>4 DEF EndOf
      <4>2. QED
        BY <4>1
    <3>5. QED
      BY <3>2, <3>3, <3>4
  <2>2. rest > 0 => \E d \in Blocks' : EndOf(d)' = block + n
    <3>1. block \in Blocks' /\ block + size'[block] = block + n
      BY <1>2, <1>9, <1>11
    <3>2. \E d \in Blocks' : d + size'[d] = block + n
      BY <3>1
    <3>3. QED
      BY <3>2 DEF EndOf
  <2>3. QED
    BY <1>4, <1>9, <2>1, <2>2 DEF Predecessors
<1>18. QED
  BY <1>13, <1>14, <1>15, <1>16, <1>17 DEF IInv

\* Merging every run into its head, and dropping the run that reaches the
\* bump pointer, leaves a tiling.
LEMMA CoalesceIInv ==
  ASSUME IInv, Coalesce
  PROVE  IInv'
<1>. DEFINE Kept == RunHeads \ TopRun
<1>1. /\ RunHeads \subseteq Listed /\ TopRun \subseteq RunHeads
      /\ Kept \subseteq Nat /\ Kept \subseteq Addr /\ IsFiniteSet(Kept)
      /\ Kept \subseteq Blocks /\ \A b \in Kept : b \notin live
  <2>1. RunHeads \subseteq Listed /\ TopRun \subseteq RunHeads
    BY DEF RunHeads, TopRun
  <2>2. Kept \subseteq Listed
    BY <2>1
  <2>3. IsFiniteSet(Kept)
    BY <2>2, BlockFacts, FS_Subset
  <2>4. QED
    BY <2>1, <2>2, <2>3, BlockFacts
<1>2. /\ size' = [a \in Addr |-> IF a \in RunHeads THEN RunEnd(a) - a ELSE size[a]]
      /\ free' \in Ascending(Kept) /\ sorted' = TRUE
      /\ flagged' = flagged /\ used' = used /\ live' = live
  BY DEF Coalesce, MergeRuns
<1>3. /\ free' \in Seq(Addr) /\ Listed' = Kept
      /\ \A i, j \in DOMAIN free' : free'[i] = free'[j] => i = j
      /\ \A i, j \in DOMAIN free' : i < j => free'[i] < free'[j]
  <2>. HIDE DEF Kept
  <2>1. /\ free' \in Seq(Kept) /\ {free'[i] : i \in DOMAIN free'} = Kept
        /\ \A i, j \in DOMAIN free' : free'[i] = free'[j] => i = j
        /\ \A i, j \in DOMAIN free' : i < j => free'[i] < free'[j]
    BY <1>1, <1>2, AscendingListed
  <2>2. free' \in Seq(Addr)
    <3>1. Kept \subseteq Addr /\ free' \in Seq(Kept)
      BY <1>1, <2>1
    <3>2. QED
      BY <3>1
  <2>3. QED
    BY <2>1, <2>2 DEF Listed
<1>4. Blocks' = live \cup Kept
  BY <1>2, <1>3 DEF Blocks
<1>5. /\ bump' \in Nat /\ bump' <= bump
      /\ \A h \in live : EndOf(h) <= bump'
      /\ \A b \in Kept : RunEnd(b) <= bump' /\ RunEnd(b) < bump
      /\ bump' < bump => bump' \in RunHeads
      /\ bump' = bump \/ TopRun = {bump'}
  <2>1. ASSUME NEW b \in Kept
        PROVE  RunEnd(b) < bump /\ b \in Nat /\ RunEnd(b) \in Nat
    <3>1. RunEnd(b) <= bump /\ RunEnd(b) # bump /\ RunEnd(b) \in Nat
      BY <1>1, RunIsFree DEF TopRun
    <3>2. QED
      BY <1>1, <3>1, BlockFacts
  <2>2. CASE TopRun = {}
    <3>1. bump' = bump
      BY <2>2 DEF Coalesce, MergeRuns
    <3>2. QED
      BY <2>1, <3>1, BlockFacts
  <2>3. CASE TopRun # {}
    <3>1. PICK t \in TopRun : bump' = t
      BY <2>3 DEF Coalesce, MergeRuns
    <3>2. /\ TopRun = {t} /\ t \in Nat /\ t < bump /\ t \in RunHeads
          /\ \A h \in live : EndOf(h) <= t /\ RunEnd(t) = bump
      BY <3>1, TopRunFacts DEF TopRun
    <3>3. ASSUME NEW b \in Kept
          PROVE  RunEnd(b) <= t
      <4>1. b # t /\ b \in RunHeads /\ b \in Nat /\ RunEnd(b) < bump
        BY <2>1, <3>2
      <4>2. CASE b < t
        BY <3>2, <4>1, <4>2, RunsDisjoint
      <4>3. CASE t < b
        <5>1. RunEnd(t) = bump
          BY DEF TopRun
        <5>2. bump <= b
          BY <3>2, <4>1, <4>3, <5>1, RunsDisjoint
        <5>3. b < bump
          BY <1>1, <2>1, BlockFacts
        <5>4. QED
          BY <4>1, <5>2, <5>3, BlockFacts
      <4>4. QED
        BY <3>2, <4>1, <4>2, <4>3
    <3>4. QED
      BY <2>1, <3>1, <3>2, <3>3, BlockFacts
  <2>4. QED
    BY <2>2, <2>3
<1>6. \A h \in live : size'[h] = size[h] /\ EndOf(h)' = EndOf(h)
  <2>1. ASSUME NEW h \in live
        PROVE  size'[h] = size[h]
    <3>1. h \in Addr /\ h \notin RunHeads
      BY <1>1, BlockFacts
    <3>2. QED
      BY <1>2, <3>1
  <2>2. QED
    BY <2>1 DEF EndOf
<1>7. \A b \in Kept : /\ size'[b] = RunEnd(b) - b /\ size'[b] > 0
                      /\ EndOf(b)' = RunEnd(b)
  <2>1. ASSUME NEW b \in Kept
        PROVE  size'[b] = RunEnd(b) - b /\ size'[b] > 0 /\ b + size'[b] = RunEnd(b)
    <3>1. b \in Nat /\ RunEnd(b) \in Nat /\ b < RunEnd(b) /\ b \in Addr
      BY <1>1, RunIsFree
    <3>2. size'[b] = RunEnd(b) - b
      BY <1>2, <3>1
    <3>3. QED
      BY <3>1, <3>2
  <2>2. QED
    BY <2>1 DEF EndOf
<1>8. TypeOK'
  <2>1. \A a \in RunHeads : RunEnd(a) - a \in 0 .. Capacity
    <3>1. ASSUME NEW a \in RunHeads
          PROVE  RunEnd(a) - a \in 0 .. Capacity
      <4>1. /\ a \in Nat /\ RunEnd(a) \in Nat /\ a < RunEnd(a) /\ RunEnd(a) <= bump
            /\ bump \in Nat /\ bump <= Capacity
        BY <1>1, RunIsFree, BlockFacts
      <4>2. QED
        BY <4>1
    <3>2. QED
      BY <3>1
  <2>2. size' \in [Addr -> 0 .. Capacity]
    BY <1>2, <2>1 DEF IInv, TypeOK, ArenaTypeOK
  <2>3. bump' \in 0 .. Capacity
    BY <1>5, BlockFacts
  <2>4. QED
    BY <1>2, <1>3, <2>2, <2>3 DEF IInv, TypeOK, ArenaTypeOK
<1>9. HeapWalkable'
  <2>1. bump' > 0 => 0 \in Blocks'
    <3>1. SUFFICES ASSUME bump' > 0, 0 \in Listed
                   PROVE  0 \in Kept
      BY <1>4, <1>5, BlockFacts DEF Blocks
    <3>2. 0 \in RunHeads
      <4>1. SUFFICES ASSUME NEW c \in Listed, EndOf(c) = 0
                     PROVE  FALSE
        BY <3>1 DEF RunHeads
      <4>2. QED
        BY <4>1, BlockFacts
    <3>3. 0 \notin TopRun
      <4>1. SUFFICES ASSUME 0 \in TopRun
                     PROVE  FALSE
        OBVIOUS
      <4>2. TopRun = {0} /\ 0 < bump
        BY <4>1, TopRunFacts
      <4>3. bump' = 0
        BY <4>2 DEF Coalesce, MergeRuns
      <4>4. QED
        BY <3>1, <4>3
    <3>4. QED
      BY <3>2, <3>3
  <2>2. ASSUME NEW b \in Blocks'
        PROVE  /\ size'[b] > 0 /\ EndOf(b)' <= bump'
               /\ EndOf(b)' < bump' => EndOf(b)' \in Blocks'
    <3>1. CASE b \in live
      <4>1. /\ size[b] > 0 /\ EndOf(b) \in Nat
            /\ EndOf(b) < bump => EndOf(b) \in Blocks
        BY <3>1, BlockFacts DEF IInv, HeapWalkable, Tiles, Blocks
      <4>2. ASSUME EndOf(b) < bump', EndOf(b) \in Listed
            PROVE  EndOf(b) \in Kept
        <5>1. ASSUME NEW c \in Listed, EndOf(c) = EndOf(b)
              PROVE  FALSE
          <6>1. /\ b \in Blocks /\ c \in Blocks /\ b # c
                /\ b \in Nat /\ c \in Nat
                /\ b < EndOf(b) /\ c < EndOf(c)
            BY <3>1, <5>1, BlockFacts
          <6>2. (b < c => EndOf(b) <= c) /\ (c < b => EndOf(c) <= b)
            BY <6>1, BlockFacts
          <6>3. QED
            BY <4>1, <5>1, <6>1, <6>2
        <5>2. EndOf(b) \in RunHeads
          BY <4>2, <5>1 DEF RunHeads
        <5>3. EndOf(b) \notin TopRun
          <6>1. SUFFICES ASSUME EndOf(b) \in TopRun
                         PROVE  FALSE
            OBVIOUS
          <6>2. TopRun = {EndOf(b)} /\ EndOf(b) < bump
            BY <6>1, TopRunFacts
          <6>3. bump' = EndOf(b)
            BY <6>2 DEF Coalesce, MergeRuns
          <6>4. QED
            BY <4>1, <4>2, <6>3
        <5>4. QED
          BY <5>2, <5>3
      <4>3. EndOf(b) < bump' => EndOf(b) < bump
        BY <1>5, <4>1, BlockFacts
      <4>4. QED
        BY <1>4, <1>5, <1>6, <3>1, <4>1, <4>2, <4>3 DEF Blocks
    <3>2. CASE b \in Kept
      <4>1. RunEnd(b) < bump /\ RunEnd(b) <= bump'
        BY <1>5, <3>2
      <4>2. RunEnd(b) \in live
        BY <1>1, <3>2, <4>1, RunIsFree
      <4>3. QED
        BY <1>4, <1>7, <3>2, <4>1, <4>2
    <3>3. QED
      BY <1>4, <3>1, <3>2
  <2>3. ASSUME NEW b \in Blocks', NEW c \in Blocks', b < c
        PROVE  EndOf(b)' <= c
    <3>1. b \in Blocks /\ c \in Blocks /\ b \in Nat /\ c \in Nat /\ EndOf(b) <= c
      <4>1. b \in Blocks /\ c \in Blocks
        BY <1>1, <1>4 DEF Blocks
      <4>2. QED
        BY <2>3, <4>1, BlockFacts
    <3>2. CASE b \in live
      BY <1>6, <3>1, <3>2
    <3>3. CASE b \in Kept /\ c \in Kept
      BY <1>7, <2>3, <3>3, RunsDisjoint
    <3>4. CASE b \in Kept /\ c \in live
      <4>1. c \notin Listed /\ RunEnd(b) \in Nat
        BY <1>1, <3>4, BlockFacts, RunIsFree
      <4>2. ~ (c < RunEnd(b))
        BY <1>1, <2>3, <3>1, <3>4, <4>1, RunIsFree
      <4>3. QED
        BY <1>7, <3>1, <3>4, <4>1, <4>2
    <3>5. QED
      BY <1>4, <3>2, <3>3, <3>4
  <2>4. Tiles(Blocks)'
    BY <2>1, <2>2, <2>3 DEF Tiles
  <2>5. QED
    BY <2>4 DEF HeapWalkable, Blocks
<1>10. FreeListAgrees'
  <2>1. \A b \in Kept : b \in flagged
    BY <1>1 DEF IInv, FreeListAgrees
  <2>2. QED
    BY <1>2, <1>3, <2>1 DEF IInv, FreeListAgrees
<1>11. SortedIsTrue'
  BY <1>3 DEF SortedIsTrue
<1>12. Predecessors'
  <2>1. SUFFICES ASSUME NEW c \in Blocks' \cup {bump'}, c > 0
                 PROVE  \E d \in Blocks' : EndOf(d)' = c
    BY DEF Predecessors
  <2>2. /\ c \in Blocks \cup {bump} /\ c \in Nat
        /\ c \in live \/ c \in RunHeads \/ c = bump
    BY <1>1, <1>4, <1>5, <2>1, BlockFacts
  <2>3. PICK p \in Blocks : EndOf(p) = c
    BY <2>1, <2>2 DEF IInv, Predecessors
  <2>4. CASE p \in live
    BY <1>4, <1>6, <2>3, <2>4
  <2>5. CASE p \in Listed
    <3>1. c \notin RunHeads
      BY <2>3, <2>5 DEF RunHeads
    <3>2. PICK b \in RunHeads : b <= p /\ p < RunEnd(b)
      BY <2>5, RunOfBlock
    <3>3. /\ RunEnd(b) \in Nat /\ b \in Nat /\ p \in Nat /\ p < c
          /\ b \in Listed /\ RunEnd(b) \in live \cup {bump}
          /\ p \in Blocks
      <4>1. b \in Listed
        BY <1>1
      <4>2. p \in Nat /\ p < c
        BY <2>3, BlockFacts
      <4>3. QED
        BY <4>1, <4>2, RunIsFree, BlockFacts
    <3>4. c <= RunEnd(b)
      <4>1. CASE RunEnd(b) = bump
        BY <2>3, <4>1, BlockFacts
      <4>2. CASE RunEnd(b) \in live
        BY <2>3, <3>2, <4>2, BlockFacts
      <4>3. QED
        BY <3>3, <4>1, <4>2
    <3>5. c = RunEnd(b)
      <4>1. SUFFICES ASSUME c < RunEnd(b)
                     PROVE  FALSE
        BY <2>2, <3>3, <3>4
      <4>2. b <= c /\ RunEnd(b) <= bump
        BY <2>2, <3>2, <3>3, RunIsFree
      <4>3. c < bump /\ c \in Blocks
        BY <2>2, <3>3, <4>1, <4>2, BlockFacts
      <4>4. c \in Listed
        BY <3>3, <4>1, <4>2, <4>3, RunIsFree
      <4>5. QED
        BY <2>2, <3>1, <4>3, <4>4, BlockFacts
    <3>6. b \in Kept
      <4>1. SUFFICES ASSUME b \in TopRun
                     PROVE  FALSE
        BY <3>2
      <4>2. RunEnd(b) = bump /\ TopRun = {b} /\ b < bump
        BY <4>1, TopRunFacts DEF TopRun
      <4>3. bump' = b
        BY <4>2 DEF Coalesce, MergeRuns
      <4>4. c \in Blocks' /\ c # bump'
        BY <2>1, <3>3, <3>5, <4>2, <4>3
      <4>5. c \in live /\ c < bump
        BY <1>4, <3>1, <4>4, BlockFacts
      <4>6. QED
        BY <3>5, <4>2, <4>5, BlockFacts
    <3>7. QED
      BY <1>4, <1>7, <3>5, <3>6
  <2>6. QED
    BY <2>3, <2>4, <2>5 DEF Blocks
<1>13. QED
  BY <1>8, <1>9, <1>10, <1>11, <1>12 DEF IInv

\* The lazy sort reorders the list and touches no block.
LEMMA SortFreeIInv ==
  ASSUME IInv, SortFree
  PROVE  IInv'
<1>1. /\ UNCHANGED <<size, flagged, bump, used, live>> /\ sorted' = TRUE
      /\ free' \in IF sorted THEN {free} ELSE Ascending(Listed)
  BY DEF SortFree
<1>2. /\ free' \in Seq(Addr) /\ Listed' = Listed
      /\ \A i, j \in DOMAIN free' : free'[i] = free'[j] => i = j
      /\ \A i, j \in DOMAIN free' : i < j => free'[i] < free'[j]
  <2>1. CASE sorted
    BY <1>1, <2>1 DEF IInv, TypeOK, ArenaTypeOK, FreeListAgrees, SortedIsTrue, Listed
  <2>2. CASE ~ sorted
    <3>1. /\ Listed \in SUBSET Nat /\ IsFiniteSet(Listed) /\ Listed \subseteq Addr
          /\ free' \in Ascending(Listed)
      BY <1>1, <2>2, BlockFacts DEF IInv, TypeOK, ArenaTypeOK, Listed
    <3>2. /\ free' \in Seq(Listed) /\ {free'[i] : i \in DOMAIN free'} = Listed
          /\ \A i, j \in DOMAIN free' : free'[i] = free'[j] => i = j
          /\ \A i, j \in DOMAIN free' : i < j => free'[i] < free'[j]
      BY <3>1, AscendingListed
    <3>3. free' \in Seq(Addr)
      BY <3>1, <3>2
    <3>4. Listed' = {free'[i] : i \in DOMAIN free'}
      BY DEF Listed
    <3>5. QED
      BY <3>2, <3>3, <3>4
  <2>3. QED
    BY <2>1, <2>2
<1>3. TypeOK'
  BY <1>1, <1>2 DEF IInv, TypeOK, ArenaTypeOK
<1>4. HeapWalkable' /\ Predecessors'
  BY <1>1, <1>2 DEF IInv, HeapWalkable, Predecessors, Tiles, EndOf, Blocks
<1>5. FreeListAgrees' /\ SortedIsTrue'
  BY <1>1, <1>2 DEF IInv, FreeListAgrees, SortedIsTrue
<1>6. QED
  BY <1>3, <1>4, <1>5 DEF IInv

\* The invariant is about the variables of the specification and no others.
LEMMA StutterIInv ==
  ASSUME IInv, UNCHANGED vars
  PROVE  IInv'
<1>1. Listed' = Listed /\ Blocks' = Blocks
  BY DEF vars, Listed, Blocks
<1>2. HeapWalkable' /\ Predecessors'
  BY <1>1 DEF IInv, HeapWalkable, Predecessors, Tiles, EndOf, vars, Blocks
<1>3. TypeOK' /\ FreeListAgrees' /\ SortedIsTrue'
  BY <1>1 DEF IInv, TypeOK, ArenaTypeOK, FreeListAgrees, SortedIsTrue, vars
<1>4. QED
  BY <1>2, <1>3 DEF IInv

(***************************************************************************)
(* Theorems                                                                *)
(***************************************************************************)

\* The inductive invariant: the four properties below and Predecessors, which
\* coalescing needs to find the block in front of each one that survives.
THEOREM InvariantHolds == Spec => []IInv
<1>1. IInv /\ [Next]_vars => IInv'
  <2>. SUFFICES ASSUME IInv, [Next]_vars
                PROVE  IInv'
    OBVIOUS
  <2>1. ASSUME NEW n \in Sizes, AllocFromFreeList(n) \/ AllocFromBump(n) \/ AllocFails(n)
        PROVE  IInv'
    BY <2>1, AllocFromFreeListIInv, AllocFromBumpIInv, StutterIInv DEF AllocFails
  <2>2. ASSUME NEW h \in live, Free(h)
        PROVE  IInv'
    BY <2>2, FreeIInv
  <2>3. CASE Coalesce
    BY <2>3, CoalesceIInv
  <2>4. CASE SortFree
    BY <2>4, SortFreeIInv
  <2>5. CASE UNCHANGED vars
    BY <2>5, StutterIInv
  <2>6. QED
    BY <2>1, <2>2, <2>3, <2>4, <2>5 DEF Next
<1>2. QED
  BY InitIInv, <1>1, PTL DEF Spec

\* Headers, list, bump pointer and bookkeeping keep their types: no split,
\* merge or free ever writes outside the arena.
THEOREM TypeCorrect == Spec => []TypeOK
<1>1. IInv => TypeOK
  BY DEF IInv
<1>2. QED
  BY InvariantHolds, <1>1, PTL

\* In an arena of any capacity, after any sequence of allocations, frees,
\* merges and sorts, a walk of [0, bump) goes from header to header over the
\* caller's objects and the listed blocks, without gap or overlap.
THEOREM AlwaysWalkable == Spec => []HeapWalkable
<1>1. IInv => HeapWalkable
  BY DEF IInv
<1>2. QED
  BY InvariantHolds, <1>1, PTL

\* The free list and the FLAG_FREE bits the walk reads never disagree.
THEOREM ListAgreesWithWalk == Spec => []FreeListAgrees
<1>1. IInv => FreeListAgrees
  BY DEF IInv
<1>2. QED
  BY InvariantHolds, <1>1, PTL

\* free_blocks() and coalesce() never trust a stale sorted flag.
THEOREM SortedFlagCorrect == Spec => []SortedIsTrue
<1>1. IInv => SortedIsTrue
  BY DEF IInv
<1>2. QED
  BY InvariantHolds, <1>1, PTL

(***************************************************************************)
(* The objects the caller holds                                            *)
(***************************************************************************)

\* An object that begins outside every live one, in memory no live one
\* covers, is one the abstract allocator may hand out.
LEMMA NewObject ==
  ASSUME IInv, NEW at \in Addr, NEW n \in Sizes,
         at + n <= Capacity,
         \A b \in live : EndOf(b) <= at \/ at + n <= b,
         live' = live \cup {at},
         size'[at] = n, \A b \in live : size'[b] = size[b]
  PROVE  Abstract!Next
<1>. DEFINE new == [at |-> at, len |-> n]
<1>1. objects' = objects \cup {new}
  BY DEF objects
<1>2. ASSUME NEW o \in objects
      PROVE  ~ Abstract!Overlap(o, new)
  <2>1. PICK b \in live : o = [at |-> b, len |-> size[b]]
    BY DEF objects
  <2>2. /\ b \in Nat /\ size[b] \in Nat /\ EndOf(b) = b + size[b]
        /\ at \in Nat /\ n \in Nat
    BY BlockFacts DEF Addr, EndOf
  <2>3. o.at = b /\ o.len = size[b] /\ new.at = at /\ new.len = n
    BY <2>1
  <2>4. b + size[b] <= at \/ at + n <= b
    BY <2>2
  <2>. QED
    BY <2>2, <2>3, <2>4 DEF Abstract!Overlap
<1>3. Abstract!Allocate(at, n)
  BY <1>1, <1>2 DEF Abstract!Allocate
<1>. QED
  BY <1>3 DEF Abstract!Next, Addr

\* Two live blocks do not overlap.
LEMMA LiveApart ==
  ASSUME IInv, NEW b \in live, NEW c \in live, b # c
  PROVE  ~ (b < c /\ c < EndOf(b))
BY BlockFacts

\* A step that keeps what is live, and its sizes, changes no object.
LEMMA SameObjects ==
  ASSUME live' = live, \A b \in live : size'[b] = size[b]
  PROVE  objects' = objects
BY DEF objects

\* Each operation of the space is a step of the abstract allocator, or none:
\* first an allocation from the list, whose block lay between live objects.
LEMMA FromFreeListAllocates ==
  ASSUME IInv, NEW n \in Sizes, AllocFromFreeList(n)
  PROVE  Abstract!Next
<1>. DEFINE block == free[FirstFit(n)]
<1>1. FirstFit(n) \in DOMAIN free /\ size[block] >= n
  BY FirstFitFits DEF AllocFromFreeList, Fitting, IInv
<1>2. block \in Listed
  BY <1>1 DEF Listed
<1>3. /\ TakeBlock(block, n)
      /\ n \in Nat /\ n > 0
  BY DEF AllocFromFreeList
<1>. HIDE DEF block
<1>4. /\ block \in Addr /\ block \in Nat /\ block \in Blocks /\ block \notin live
      /\ size[block] \in Nat /\ EndOf(block) = block + size[block]
      /\ EndOf(block) <= bump /\ bump \in Nat /\ bump <= Capacity
  BY <1>2, BlockFacts DEF EndOf
<1>5. ASSUME NEW b \in live
      PROVE  /\ b \in Addr /\ b \in Nat /\ EndOf(b) \in Nat
             /\ EndOf(b) <= block \/ EndOf(block) <= b
             /\ ~ (block <= b /\ b < EndOf(block))
  <2>1. b \in Blocks /\ b # block /\ b \in Addr /\ b \in Nat /\ EndOf(b) \in Nat /\ b < EndOf(b)
    BY <1>4, BlockFacts
  <2>2. b < block \/ block < b
    BY <1>4, <2>1
  <2>3. EndOf(b) <= block \/ EndOf(block) <= b
    BY <1>4, <2>1, <2>2, BlockFacts
  <2>. QED
    BY <1>4, <2>1, <2>3
<1>6. size'[block] = n /\ live' = live \cup {block}
  BY <1>3, <1>4 DEF TakeBlock
<1>7. ASSUME NEW b \in live
      PROVE  size'[b] = size[b]
  <2>1. b # block /\ ~ (block < b /\ b < block + n)
    BY <1>1, <1>3, <1>4, <1>5
  <2>2. ~ (Leftover(block, n) > 0 /\ b = block + n)
    BY <1>1, <1>3, <1>4, <1>5 DEF Leftover
  <2>. QED
    BY <1>3, <1>5, <2>1, <2>2 DEF TakeBlock
<1>8. \A b \in live : EndOf(b) <= block \/ block + n <= b
  BY <1>1, <1>3, <1>4, <1>5
<1>9. block + n <= Capacity
  BY <1>1, <1>3, <1>4
<1>. QED
  BY <1>4, <1>6, <1>7, <1>8, <1>9, NewObject

\* An allocation from virgin memory begins where every live object has ended.
LEMMA FromBumpAllocates ==
  ASSUME IInv, NEW n \in Sizes, AllocFromBump(n)
  PROVE  Abstract!Next
<1>1. /\ n \in Nat /\ n > 0 /\ bump \in Nat /\ bump + n <= Capacity /\ bump \in Addr
      /\ TakeVirgin(n)
  BY BlockFacts DEF AllocFromBump, Addr
<1>2. \A b \in live : b \in Addr /\ b \in Nat /\ EndOf(b) <= bump /\ b < bump
  BY <1>1, BlockFacts
<1>3. /\ size'[bump] = n /\ live' = live \cup {bump}
      /\ \A b \in live : size'[b] = size[b]
  BY <1>1, <1>2 DEF TakeVirgin
<1>. QED
  BY <1>1, <1>2, <1>3, NewObject

\* free releases the object freed and resizes no other.
LEMMA FreeReleases ==
  ASSUME IInv, NEW h \in live, Free(h)
  PROVE  Abstract!Next
<1>. DEFINE gone == [at |-> h, len |-> size[h]]
<1>1. live' = live \ {h} /\ \A b \in live : size'[b] = size[b]
  <2>1. \A b \in live : b \in Addr /\ ~ (h < b /\ b < EndOf(h))
    BY BlockFacts, LiveApart
  <2>. QED
    BY <2>1 DEF Free, GiveBack
<1>2. objects' = objects \ {gone}
  <2>1. objects' = {[at |-> b, len |-> size[b]] : b \in live \ {h}}
    BY <1>1 DEF objects
  <2>2. \A b \in live \ {h} : [at |-> b, len |-> size[b]] # gone
    <3>1. ASSUME NEW b \in live \ {h}
          PROVE  [at |-> b, len |-> size[b]].at # gone.at
      OBVIOUS
    <3>. QED
      BY <3>1
  <2>. QED
    BY <2>1, <2>2 DEF objects
<1>3. gone \in objects /\ Abstract!Release(gone)
  BY <1>2 DEF objects, Abstract!Release
<1>. QED
  BY <1>3 DEF Abstract!Next

\* coalesce resizes only free blocks.
LEMMA CoalesceKeepsObjects ==
  ASSUME IInv, Coalesce
  PROVE  objects' = objects
<1>1. \A b \in live : b \in Addr /\ b \notin RunHeads
  BY BlockFacts DEF RunHeads
<1>2. live' = live /\ \A b \in live : size'[b] = size[b]
  BY <1>1 DEF Coalesce, MergeRuns
<1>. QED
  BY <1>2, SameObjects

\* "What every allocator promises": for every capacity and all sizes, no step of
\* alloc, free, coalesce or the lazy sort moves, resizes or overlaps an object
\* the caller holds.
THEOREM SpaceImplementsAllocator == Spec => ImplementsAllocator
<1>1. Init => Abstract!Init
  BY DEF Init, ArenaInit, Abstract!Init, objects
<1>2. IInv /\ [Next]_vars => [Abstract!Next]_objects
  <2>. SUFFICES ASSUME IInv, [Next]_vars
                PROVE  Abstract!Next \/ objects' = objects
    OBVIOUS
  <2>1. ASSUME NEW n \in Sizes, AllocFromFreeList(n)
        PROVE  Abstract!Next
    BY <2>1, FromFreeListAllocates
  <2>2. ASSUME NEW n \in Sizes, AllocFromBump(n)
        PROVE  Abstract!Next
    BY <2>2, FromBumpAllocates
  <2>3. ASSUME NEW h \in live, Free(h)
        PROVE  Abstract!Next
    BY <2>3, FreeReleases
  <2>4. CASE Coalesce
    BY <2>4, CoalesceKeepsObjects
  <2>5. ASSUME UNCHANGED vars \/ SortFree \/ \E n \in Sizes : AllocFails(n)
        PROVE  objects' = objects
    BY <2>5, SameObjects DEF SortFree, AllocFails, vars
  <2>. QED
    BY <2>1, <2>2, <2>3, <2>4, <2>5 DEF Next
<1>. QED
  BY InvariantHolds, <1>1, <1>2, PTL DEF Spec, ImplementsAllocator, Abstract!Spec

(***************************************************************************)
(* Coalescing                                                              *)
(***************************************************************************)

\* Every address below the bump pointer lies in a block: the last one that
\* begins at it or before it.
LEMMA BlocksCover ==
  ASSUME IInv, NEW a \in Nat, a < bump
  PROVE  \E b \in Blocks : b <= a /\ a < EndOf(b)
<1>. DEFINE Back == {a - b : b \in {c \in Blocks : c <= a}}
<1>1. Back \in SUBSET Nat /\ Back # {}
  BY BlockFacts
<1>2. PICK x \in Back : \A y \in Back : x <= y
  <2>. HIDE DEF Back
  <2>. QED
    BY <1>1, LeastNatural
<1>3. PICK b \in Blocks : b <= a /\ x = a - b
  BY <1>2
<1>4. ASSUME EndOf(b) <= a
      PROVE  FALSE
  <2>1. EndOf(b) \in Blocks /\ b < EndOf(b) /\ b \in Nat /\ EndOf(b) \in Nat
    BY <1>3, <1>4, BlockFacts
  <2>2. a - EndOf(b) \in Back
    BY <1>4, <2>1
  <2>3. x <= a - EndOf(b)
    BY <1>2, <2>2
  <2>. HIDE DEF Back
  <2>. QED
    BY <1>3, <2>1, <2>3
<1>. QED
  BY <1>3, <1>4, BlockFacts

\* What coalesce does to the list, as far as a hole needs it.
LEMMA RunBecomesBlock ==
  ASSUME IInv, Coalesce, NEW b \in RunHeads, b \notin TopRun
  PROVE  b \in Listed' /\ size'[b] = RunEnd(b) - b
<1>1. b \in Listed /\ b \in Addr
  BY BlockFacts DEF RunHeads
<1>2. size'[b] = RunEnd(b) - b
  BY <1>1 DEF Coalesce, MergeRuns
<1>3. free' \in Ascending(RunHeads \ TopRun)
  BY DEF Coalesce
<1>4. PICK i \in 1 .. Cardinality(RunHeads \ TopRun) : free'[i] = b
  BY <1>3 DEF Ascending
<1>5. DOMAIN free' = 1 .. Cardinality(RunHeads \ TopRun)
  BY <1>3 DEF Ascending
<1>. QED
  BY <1>2, <1>4, <1>5 DEF Listed

\* A hole below the new bump pointer is part of one block of the new list.
LEMMA HoleIsInBlock ==
  ASSUME IInv, Coalesce, NEW n \in Sizes, NEW a \in Nat, a < bump',
         \A b \in live : EndOf(b) <= a \/ a + n <= b
  PROVE  \E b \in Listed' : size'[b] >= n
<1>1. n \in Nat /\ n > 0
  OBVIOUS
<1>2. bump' = bump \/ bump' \in TopRun
  BY DEF Coalesce
<1>3. a < bump
  BY <1>2, TopRunFacts, BlockFacts
<1>4. PICK d \in Blocks : d <= a /\ a < EndOf(d)
  BY <1>3, BlocksCover
<1>5. d \in Nat /\ EndOf(d) \in Nat
  BY BlockFacts
<1>6. d \in Listed
  <2>1. d \notin live
    BY <1>1, <1>4, <1>5
  <2>. QED
    BY <2>1 DEF Blocks
<1>7. PICK b \in RunHeads : b <= d /\ d < RunEnd(b)
  BY <1>6, RunOfBlock
<1>8. /\ b \in Listed /\ b \in Nat /\ RunEnd(b) \in Nat /\ RunEnd(b) <= bump
      /\ RunEnd(b) < bump => RunEnd(b) \in live
  BY RunIsFree, BlockFacts DEF RunHeads
<1>9. b \notin TopRun
  <2>1. SUFFICES ASSUME b \in TopRun
                 PROVE  FALSE
    OBVIOUS
  <2>2. bump' = b
    BY <2>1, TopRunFacts DEF Coalesce
  <2>. QED
    BY <1>4, <1>5, <1>7, <1>8, <2>2
<1>10. RunEnd(b) \in live
  <2>1. RunEnd(b) # bump
    BY <1>9 DEF TopRun
  <2>. QED
    BY <1>8, <2>1, BlockFacts
<1>11. a + n <= RunEnd(b)
  <2>1. EndOf(d) <= RunEnd(b) /\ RunEnd(b) < EndOf(RunEnd(b)) /\ EndOf(RunEnd(b)) \in Nat
    BY <1>7, <1>10, BlockFacts
  <2>. QED
    BY <1>4, <1>5, <1>8, <1>10, <2>1
<1>12. b \in Listed' /\ size'[b] = RunEnd(b) - b
  BY <1>9, RunBecomesBlock
<1>. QED
  BY <1>1, <1>4, <1>5, <1>7, <1>8, <1>11, <1>12

\* What ends below the capacity at one address does at any lower one.
LEMMA RoomBelow ==
  ASSUME NEW x \in Nat, NEW y \in Nat, NEW z \in Nat, NEW c \in Nat,
         x <= y, y + z <= c
  PROVE  x + z <= c
OBVIOUS

\* "A caller that gets None should collect, or call coalesce, and try again":
\* for every capacity and all sizes, no hole between objects, however it had been
\* cut up, stays out of reach of an allocation after coalesce.
THEOREM CoalescingExposes == Spec => CoalesceExposesHoles
<1>1. ASSUME IInv, Coalesce, NEW n \in Sizes, Hole(n)
      PROVE  Fitting(n)' # {} \/ bump' + n <= Capacity
  <2>1. n \in Nat /\ Capacity \in Nat
    OBVIOUS
  <2>2. PICK a \in 0 .. (Capacity - n) : \A b \in live : EndOf(b) <= a \/ a + n <= b
    BY <1>1 DEF Hole
  <2>3. a \in Nat /\ a + n <= Capacity
    BY <2>1
  <2>4. bump' \in Nat
    BY <1>1, CoalesceIInv DEF IInv, TypeOK, ArenaTypeOK
  <2>5. ASSUME bump' <= a
        PROVE  bump' + n <= Capacity
    BY <2>1, <2>3, <2>4, <2>5, RoomBelow
  <2>6. ASSUME a < bump'
        PROVE  Fitting(n)' # {}
    <3>1. PICK b \in Listed' : size'[b] >= n
      BY <1>1, <2>2, <2>3, <2>6, HoleIsInBlock
    <3>2. PICK i \in DOMAIN free' : free'[i] = b
      BY <3>1 DEF Listed
    <3>3. i \in Fitting(n)'
      BY <3>1, <3>2 DEF Fitting
    <3>. QED
      BY <3>3
  <2>7. bump' <= a \/ a < bump'
    BY <2>3, <2>4
  <2>. QED
    BY <2>5, <2>6, <2>7
<1>2. IInv /\ [Next]_vars =>
        [Coalesce => \A n \in Sizes : Hole(n) => (Fitting(n) # {} \/ bump + n <= Capacity)']_vars
  BY <1>1
<1>. QED
  BY InvariantHolds, <1>2, PTL DEF Spec, CoalesceExposesHoles

(***************************************************************************)
(* Sizes in 32 bits                                                        *)
(***************************************************************************)

\* "Round n up to the next multiple of ALIGN" (align_up).
LEMMA AlignUpRounds ==
  ASSUME NEW n \in U32, n <= Width - ALIGN
  PROVE  /\ AlignUp(n) \in U32
         /\ Aligned(AlignUp(n))
         /\ n <= AlignUp(n) /\ AlignUp(n) < n + ALIGN
BY SMT DEF AlignUp, Aligned, U32, Width, ALIGN

\* In the last ALIGN bytes of the address range, rounding up gives 0.
LEMMA AlignUpWraps ==
  ASSUME NEW n \in U32, n > Width - ALIGN
  PROVE  AlignUp(n) = 0
BY SMT DEF AlignUp, U32, Width, ALIGN

\* size_for gives an object room for its header, its slots and its payload
\* exactly if their sum is at most 2^32 - 16.  For a larger shape the sum wraps
\* round, and the block alloc looks for is smaller than what emplace and the
\* program write into.
THEOREM SizeForHolds ==
  ASSUME NEW nrefs \in U16, NEW ndata \in U32
  PROVE  SizeFor(nrefs, ndata) >= Footprint(nrefs, ndata)
           <=> Footprint(nrefs, ndata) <= Width - ALIGN
<1>. DEFINE need == Footprint(nrefs, ndata)
<1>1. need \in Nat /\ need >= HEADER_SIZE /\ need < 2 * Width
  BY SMT DEF Footprint, U16, U32, Width, HEADER_SIZE
<1>2. CASE need <= Width - ALIGN
  <2>1. need \in U32 /\ need % Width = need
    BY SMT, <1>1, <1>2 DEF U32, Width, ALIGN
  <2>2. AlignUp(need) >= need
    BY SMT, <2>1, <1>2, AlignUpRounds
  <2>. QED
    BY SMT, <2>1, <2>2, <1>2 DEF SizeFor
<1>3. CASE need > Width - ALIGN /\ need < Width
  <2>1. need \in U32 /\ need % Width = need
    BY SMT, <1>1, <1>3 DEF U32, Width
  <2>2. AlignUp(need) = 0
    BY SMT, <2>1, <1>3, AlignUpWraps
  <2>. QED
    BY SMT, <2>1, <2>2, <1>1, <1>3 DEF SizeFor, HEADER_SIZE, Width, ALIGN
<1>4. CASE need >= Width
  <2>1. need % Width = need - Width
    BY SMT, <1>1, <1>4 DEF Width
  <2>2. need <= Width + 262155
    BY SMT DEF Footprint, U16, U32, Width, HEADER_SIZE
  <2>3. (need - Width) \in U32 /\ need - Width <= Width - ALIGN
    BY SMT, <1>1, <1>4, <2>2 DEF U32, Width, ALIGN
  <2>4. AlignUp(need - Width) < need - Width + ALIGN /\ AlignUp(need - Width) \in U32
    BY SMT, <2>3, AlignUpRounds
  <2>5. AlignUp(need - Width) < need
    BY SMT, <2>4, <1>1 DEF Width, ALIGN, U32
  <2>. QED
    BY SMT, <2>1, <2>5, <1>1, <1>4, <2>4 DEF SizeFor, Width, ALIGN, U32
<1>. QED
  BY SMT, <1>1, <1>2, <1>3, <1>4 DEF Width, ALIGN

\* "Every object size is a multiple of the alignment", so "splitting a free block
\* can never leave a remainder too small to carry a header of its own"
\* (heap.rs, on ALIGN): take_free and old_alloc may always split.
THEOREM SplitsLeaveHeaders ==
  ASSUME NEW block \in U32, Aligned(block),
         NEW nrefs \in U16, NEW ndata \in U32,
         Footprint(nrefs, ndata) <= Width - ALIGN,
         SizeFor(nrefs, ndata) < block
  PROVE  /\ block - SizeFor(nrefs, ndata) >= HEADER_SIZE
         /\ Aligned(block - SizeFor(nrefs, ndata))
<1>. DEFINE taken == SizeFor(nrefs, ndata)
<1>1. Footprint(nrefs, ndata) \in U32
  BY SMT DEF Footprint, U16, U32, Width, ALIGN, HEADER_SIZE
<1>2. Footprint(nrefs, ndata) % Width = Footprint(nrefs, ndata)
  BY SMT, <1>1 DEF U32, Width
<1>3. taken \in U32 /\ Aligned(taken)
  BY SMT, <1>1, <1>2, AlignUpRounds DEF SizeFor
<1>. HIDE DEF taken
<1>4. taken < block => block - taken >= HEADER_SIZE /\ Aligned(block - taken)
  BY SMT, <1>3 DEF U32, Aligned, ALIGN, HEADER_SIZE, Width
<1>. QED
  BY SMT, <1>4 DEF taken

\* What the test for room above the bump pointer accepts: the requests that fit,
\* and those so large that the sum wraps round, each of which it takes for one
\* that fits.  emplace's assertion, which saturates, is what stops the latter.
THEOREM BumpTestHolds ==
  ASSUME NEW cap \in U32, NEW top \in U32, NEW need \in U32, top <= cap
  PROVE  BumpHasRoom(top, need, cap) <=> top + need <= cap \/ top + need >= Width
<1>1. CASE top + need < Width
  <2>1. (top + need) % Width = top + need
    BY SMT, <1>1 DEF U32, Width
  <2>2. ~ (top + need >= Width)
    BY SMT, <1>1 DEF U32, Width
  <2>. QED
    BY <2>1, <2>2 DEF BumpHasRoom
<1>2. CASE top + need >= Width
  <2>1. (top + need) % Width = top + need - Width /\ top + need - Width < top
    BY SMT, <1>2 DEF U32, Width
  <2>2. (top + need) % Width <= cap
    BY SMT, <2>1 DEF U32, Width
  <2>. QED
    BY <2>2, <1>2 DEF BumpHasRoom
<1>. QED
  BY SMT, <1>1, <1>2 DEF U32, Width

\* "Heap too small to divide": from 64 bytes on, any heap Heap::new accepts is
\* divided in two parts, neither of them empty, at an address an object can have.
THEOREM NurseryDivides ==
  ASSUME NEW cap \in U32, Aligned(cap), cap >= 64
  PROVE  /\ 0 < NurseryBytes(cap) /\ NurseryBytes(cap) < cap
         /\ Aligned(cap - NurseryBytes(cap))
<1>. DEFINE part == cap \div 64
            bytes == AlignUp(part)
<1>1. part \in U32 /\ 1 <= part /\ part <= Width - ALIGN /\ 64 * part <= cap
  BY SMT DEF U32, Width, ALIGN
<1>2. bytes \in U32 /\ Aligned(bytes) /\ part <= bytes /\ bytes < part + ALIGN
  BY SMT, <1>1, AlignUpRounds
<1>. HIDE DEF part, bytes
<1>3. 0 < bytes /\ bytes < cap /\ Aligned(cap - bytes)
  BY SMT, <1>1, <1>2 DEF U32, Aligned, ALIGN
<1>. QED
  BY SMT, <1>3 DEF NurseryBytes, bytes, part

\* The occupancy test of the generational collector compares what it means to
\* compare as long as the old generation is no larger than 2^32 / 100 bytes, 40
\* megabytes; beyond, the products may wrap.
THEOREM OccupancyIsExact ==
  ASSUME NEW nursery \in U32, NEW taken \in U32,
         taken <= nursery, nursery <= 42949672
  PROVE  OldIsFull(taken, nursery) <=> taken * 100 > nursery * 75
<1>1. (taken * 100) \in U32 /\ (nursery * 75) \in U32
  BY SMT DEF U32, Width
<1>2. (taken * 100) % Width = taken * 100 /\ (nursery * 75) % Width = nursery * 75
  BY SMT, <1>1 DEF U32, Width
<1>. QED
  BY SMT, <1>2 DEF OldIsFull
=============================================================================
