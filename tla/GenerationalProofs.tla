------------------------ MODULE GenerationalProofs ------------------------
(***************************************************************************)
(* Theorems about the generational collector, for every size of the two    *)
(* generations, every graph and every order of operations.  The invariant  *)
(* comes in three layers, each proved with the help of those before it:    *)
(* what holds of memory and of the remembered set whatever becomes of the  *)
(* heap (Bookkeeping); that the heap is the model's graph, with promotion  *)
(* half done or not (GraphHolds); and how the old generation is divided as *)
(* long as no reservation has been forgotten (OldIsTiled).                 *)
(***************************************************************************)
EXTENDS Generational, GraphProofs

(***************************************************************************)
(* The old generation                                                      *)
(***************************************************************************)

\* The type of old.
OldGeneration ==
  [size : [OldAddress -> 0 .. OldSize], vacant : SUBSET OldAddress, free : Seq(OldAddress),
   bump : 0 .. OldSize, used : 0 .. OldSize]

\* The units of the block at b.
Block(o, b) == b .. (b + o.size[b] - 1)

\* What old_alloc may hand out: the blocks on the list, and what lies above bump.
FreeUnits(o) ==
  {u \in OldAddress : u > o.bump \/ \E i \in DOMAIN o.free : u \in Block(o, o.free[i])}

\* Whatever has been reserved and forgotten: no header reaches beyond bump, no
\* two entries of the list overlap, and the units not yet handed out and those
\* counted as used are no more than there are.
FreeIsSound(o) ==
  /\ \A a \in OldAddress : o.size[a] # 0 => a + o.size[a] <= o.bump + 1
  /\ \A i \in DOMAIN o.free : o.size[o.free[i]] # 0
  /\ \A i, j \in DOMAIN o.free :
       i # j => \/ o.free[i] + o.size[o.free[i]] <= o.free[j]
                \/ o.free[j] + o.size[o.free[j]] <= o.free[i]
  /\ o.used + Cardinality(FreeUnits(o)) <= OldSize

\* A set of naturals that has members has a least one.
LEMMA LeastNatural ==
  ASSUME NEW T \in SUBSET Nat, T # {}
  PROVE  \E x \in T : \A y \in T : x <= y
<1>. DEFINE Below(x) == 0 .. (x - 1)
            Down == {Below(x) : x \in T}
            Smaller == StrictSubsetOrdering(Nat)
<1>1. IsWellFoundedOn(Smaller, FiniteSubsetsOf(Nat))
  BY FS_StrictSubsetOrderingWellFounded
<1>2. Down \subseteq FiniteSubsetsOf(Nat)
  <2>1. ASSUME NEW x \in T
        PROVE  Below(x) \in FiniteSubsetsOf(Nat)
    <3>1. IsFiniteSet(Below(x))
      BY FS_Interval, x \in Nat
    <3>2. Below(x) \subseteq Nat
      BY x \in Nat
    <3>3. QED
      BY <3>1, <3>2 DEF FiniteSubsetsOf
  <2>2. QED
    BY <2>1
<1>3. Down # {}
  OBVIOUS
<1>4. PICK D \in Down : \A E \in Down : <<E, D>> \notin Smaller
  <2>. HIDE DEF Down, Smaller
  <2>. QED
    BY <1>1, <1>2, <1>3, WFMin
<1>5. PICK x \in T : D = Below(x)
  OBVIOUS
<1>6. SUFFICES ASSUME NEW y \in T, y < x
               PROVE  FALSE
  BY <1>5
<1>7. Below(y) \subseteq Below(x) /\ Below(y) # Below(x)
  <2>1. x \in Nat /\ y \in Nat
    OBVIOUS
  <2>2. y \in Below(x) /\ y \notin Below(y)
    BY <1>6, <2>1
  <2>3. QED
    BY <1>6, <2>1, <2>2
<1>8. <<Below(y), Below(x)>> \in Smaller
  <2>1. Below(x) \in SUBSET Nat /\ Below(y) \in SUBSET Nat
    BY x \in Nat, y \in Nat
  <2>2. IsFiniteSet(Below(x)) /\ IsFiniteSet(Below(y))
    <3>1. IsFiniteSet(Below(x))
      BY FS_Interval, x \in Nat
    <3>2. IsFiniteSet(Below(y))
      BY FS_Interval, y \in Nat
    <3>3. QED
      BY <3>1, <3>2
  <2>3. QED
    BY <1>7, <2>1, <2>2 DEF StrictSubsetOrdering, FiniteSubsetsOf
<1>9. QED
  BY <1>4, <1>5, <1>8
\* And one with a bound has a greatest one.
LEMMA GreatestNatural ==
  ASSUME NEW N \in Nat, NEW T \in SUBSET (0 .. N), T # {}
  PROVE  \E x \in T : \A y \in T : y <= x
<1>. DEFINE D == {N - x : x \in T}
<1>0. \A x \in T : x \in Int /\ 0 <= x /\ x <= N
  OBVIOUS
<1>1. D \in SUBSET Nat /\ D # {}
  <2>1. \A x \in T : N - x \in Nat
    BY <1>0
  <2>2. QED
    BY <2>1
<1>2. PICK d \in D : \A e \in D : d <= e
  BY <1>1, LeastNatural
<1>3. PICK x \in T : d = N - x
  OBVIOUS
<1>4. ASSUME NEW y \in T
      PROVE  y <= x
  <2>1. N - y \in D
    OBVIOUS
  <2>2. N - x <= N - y /\ x \in Int /\ y \in Int
    <3>. HIDE DEF D
    <3>1. d <= N - y
      BY <1>2, <2>1
    <3>2. QED
      BY <1>0, <1>3, <3>1
  <2>3. QED
    BY <2>2
<1>5. QED
  BY <1>4

\* The minimum of such a set.
LEMMA MinIsLeast ==
  ASSUME NEW T \in SUBSET Nat, T # {}
  PROVE  Min(T) \in T /\ \A y \in T : Min(T) <= y
BY LeastNatural DEF Min

\* What swap_remove leaves of a list.
LEMMA SwapRemoved ==
  ASSUME NEW S, NEW s \in Seq(S), NEW i \in DOMAIN s
  PROVE  /\ SwapRemove(s, i) \in Seq(S)
         /\ Len(SwapRemove(s, i)) = Len(s) - 1
         /\ \A j \in 1 .. (Len(s) - 1) :
              SwapRemove(s, i)[j] = IF j = i THEN s[Len(s)] ELSE s[j]
<1>1. Len(s) \in Nat /\ Len(s) > 0 /\ DOMAIN s = 1 .. Len(s)
  OBVIOUS
<1>2. s[Len(s)] \in S
  BY <1>1
<1>. DEFINE t == [s EXCEPT ![i] = s[Len(s)]]
<1>3. t \in Seq(S) /\ Len(t) = Len(s)
  BY <1>1, <1>2
<1>4. SwapRemove(s, i) = SubSeq(t, 1, Len(s) - 1)
  BY <1>3 DEF SwapRemove, Front, Last
<1>5. \A j \in 1 .. Len(s) : t[j] = IF j = i THEN s[Len(s)] ELSE s[j]
  BY <1>1
<1>. HIDE DEF t
<1>6. QED
  BY <1>1, <1>3, <1>4, <1>5

\* Taking an interval from a finite set.
LEMMA LessAnInterval ==
  ASSUME NEW S, IsFiniteSet(S), NEW a \in Int, NEW n \in Nat, a .. (a + n - 1) \subseteq S
  PROVE  /\ IsFiniteSet(S \ (a .. (a + n - 1)))
         /\ Cardinality(S \ (a .. (a + n - 1))) = Cardinality(S) - n
         /\ n <= Cardinality(S)
<1>. DEFINE I == a .. (a + n - 1)
<1>1. IsFiniteSet(I) /\ Cardinality(I) = n
  <2>1. a + n - 1 \in Int
    OBVIOUS
  <2>2. IsFiniteSet(I) /\ Cardinality(I) = IF a > a + n - 1 THEN 0 ELSE (a + n - 1) - a + 1
    BY <2>1, FS_Interval
  <2>3. QED
    BY <2>2
<1>2. I \cap S = I /\ I \subseteq S
  OBVIOUS
<1>. HIDE DEF I
<1>3. IsFiniteSet(S \ I) /\ Cardinality(S \ I) = Cardinality(S) - Cardinality(I)
  <2>1. S \cap I = I
    BY <1>2
  <2>2. QED
    BY <2>1, FS_Difference
<1>4. Cardinality(I) <= Cardinality(S)
  BY <1>2, FS_Subset
<1>5. QED
  BY <1>1, <1>3, <1>4 DEF I

\* What is left of the free memory fits the old generation.
LEMMA FreeUnitsFinite ==
  ASSUME NEW o \in OldGeneration
  PROVE  IsFiniteSet(FreeUnits(o)) /\ Cardinality(FreeUnits(o)) \in Nat
<1>1. OldSize \in Int /\ 1 \in Int
  BY SizeAssumption
<1>2. IsFiniteSet(1 .. OldSize)
  BY <1>1, FS_Interval
<1>3. FreeUnits(o) \subseteq 1 .. OldSize
  BY DEF FreeUnits, OldAddress
<1>4. IsFiniteSet(FreeUnits(o))
  BY <1>2, <1>3, FS_Subset
<1>5. QED
  BY <1>4, FS_CardinalityType

\* Where old_alloc finds room.
LEMMA PlaceFacts ==
  ASSUME NEW o \in OldGeneration, FreeIsSound(o), NEW n \in Nat \ {0},
         Place(o, n) # Null
  PROVE  /\ Place(o, n) \in OldAddress
         /\ Place(o, n) .. (Place(o, n) + n - 1) \subseteq FreeUnits(o)
         /\ Fitting(o, n) # {} =>
              /\ Min(Fitting(o, n)) \in DOMAIN o.free
              /\ Place(o, n) = o.free[Min(Fitting(o, n))]
              /\ o.size[Place(o, n)] >= n
              /\ o.size[Place(o, n)] \in 1 .. OldSize
              /\ Place(o, n) + o.size[Place(o, n)] <= o.bump + 1
         /\ Fitting(o, n) = {} => Place(o, n) = o.bump + 1 /\ o.bump + n <= OldSize
<1>1. /\ o.free \in Seq(OldAddress) /\ o.size \in [OldAddress -> 0 .. OldSize]
      /\ o.bump \in 0 .. OldSize /\ OldSize \in Nat
  BY SizeAssumption DEF OldGeneration
<1>2. DOMAIN o.free \subseteq Nat /\ \A i \in DOMAIN o.free : o.free[i] \in 1 .. OldSize
  BY <1>1 DEF OldAddress
<1>3. CASE Fitting(o, n) # {}
  <2>1. Fitting(o, n) \in SUBSET Nat
    BY <1>2 DEF Fitting
  <2>2. Min(Fitting(o, n)) \in Fitting(o, n)
    BY <1>3, <2>1, MinIsLeast
  <2>3. PICK i \in DOMAIN o.free : i = Min(Fitting(o, n)) /\ o.size[o.free[i]] >= n
    BY <2>2 DEF Fitting
  <2>4. Place(o, n) = o.free[i]
    BY <1>3, <2>3 DEF Place
  <2>5. o.free[i] \in OldAddress /\ o.size[o.free[i]] \in 0 .. OldSize /\ o.free[i] \in Nat
    BY <1>1, <1>2 DEF OldAddress
  <2>6. o.size[o.free[i]] # 0
    BY DEF FreeIsSound
  <2>7. o.free[i] + o.size[o.free[i]] <= o.bump + 1
    BY <2>5, <2>6 DEF FreeIsSound
  <2>8. ASSUME NEW u \in o.free[i] .. (o.free[i] + n - 1)
        PROVE  u \in FreeUnits(o)
    <3>1. u \in Block(o, o.free[i])
      BY <2>3, <2>5, <2>6 DEF Block
    <3>2. o.free[i] >= 1 /\ o.free[i] \in Int /\ o.size[o.free[i]] \in Int
          /\ o.bump \in Int /\ o.bump <= OldSize
      BY <1>1, <1>2, <2>5
    <3>3. u \in OldAddress
      <4>1. \A f, z, b \in Int : f >= 1 /\ z >= n /\ f + z <= b + 1 /\ b <= OldSize
               => \A w \in f .. (f + n - 1) : w \in 1 .. OldSize
        BY <1>1
      <4>2. QED
        BY <2>3, <2>7, <3>2, <4>1 DEF OldAddress
    <3>4. QED
      BY <3>1, <3>3 DEF FreeUnits
  <2>9. QED
    BY <1>3, <2>3, <2>4, <2>5, <2>6, <2>7, <2>8
<1>4. CASE Fitting(o, n) = {}
  <2>1. o.bump + n <= OldSize /\ Place(o, n) = o.bump + 1
    BY <1>4 DEF Place
  <2>2. QED
    BY <1>1, <1>4, <2>1 DEF FreeUnits, OldAddress
<1>5. QED
  BY <1>3, <1>4

\* Each of the other entries is still there, and none comes twice.
LEMMA SwapKeepsOthers ==
  ASSUME NEW S, NEW s \in Seq(S), NEW i \in DOMAIN s
  PROVE  /\ SwapRemove(s, i) \in Seq(S)
         /\ \A j \in DOMAIN SwapRemove(s, i) :
              \E k \in DOMAIN s : k # i /\ SwapRemove(s, i)[j] = s[k]
         /\ \A j, l \in DOMAIN SwapRemove(s, i) : j # l =>
              \E k, m \in DOMAIN s : /\ k # m /\ k # i /\ m # i
                                     /\ SwapRemove(s, i)[j] = s[k] /\ SwapRemove(s, i)[l] = s[m]
         /\ \A k \in DOMAIN s : k # i =>
              \E j \in DOMAIN SwapRemove(s, i) : SwapRemove(s, i)[j] = s[k]
<1>. DEFINE t == SwapRemove(s, i)
            was(j) == IF j = i THEN Len(s) ELSE j
<1>1. Len(s) \in Nat /\ DOMAIN s = 1 .. Len(s) /\ i \in 1 .. Len(s)
  OBVIOUS
<1>2. t \in Seq(S) /\ Len(t) = Len(s) - 1
      /\ \A j \in 1 .. (Len(s) - 1) : t[j] = s[was(j)]
  BY SwapRemoved
<1>. HIDE DEF t
<1>3. DOMAIN t = 1 .. (Len(s) - 1)
  BY <1>2
<1>4. \A j \in DOMAIN t : was(j) \in DOMAIN s /\ was(j) # i
  BY <1>1, <1>3
<1>5. \A j, l \in DOMAIN t : j # l => was(j) # was(l)
  BY <1>1, <1>3
<1>6. ASSUME NEW k \in DOMAIN s, k # i
      PROVE  \E j \in DOMAIN t : was(j) = k
  <2>1. CASE k = Len(s)
    BY <1>1, <1>3, <1>6, <2>1
  <2>2. CASE k # Len(s)
    BY <1>1, <1>3, <1>6, <2>2
  <2>3. QED
    BY <2>1, <2>2
<1>. HIDE DEF was
<1>7. QED
  <2>1. \A j \in DOMAIN t : t[j] = s[was(j)]
    BY <1>2, <1>3
  <2>2. \A j \in DOMAIN t : \E k \in DOMAIN s : k # i /\ t[j] = s[k]
    BY <1>4, <2>1
  <2>3. \A j, l \in DOMAIN t : j # l =>
          \E k, m \in DOMAIN s : k # m /\ k # i /\ m # i /\ t[j] = s[k] /\ t[l] = s[m]
    BY <1>4, <1>5, <2>1
  <2>4. \A k \in DOMAIN s : k # i => \E j \in DOMAIN t : t[j] = s[k]
    BY <1>6, <2>1
  <2>5. QED
    BY <1>2, <2>2, <2>3, <2>4 DEF t

\* What old_alloc does to the free memory: it takes what it says it takes.
LEMMA ReservedFacts ==
  ASSUME NEW o \in OldGeneration, FreeIsSound(o), NEW n \in Nat \ {0},
         Place(o, n) # Null
  PROVE  /\ Reserved(o, n) \in OldGeneration
         /\ FreeIsSound(Reserved(o, n))
         /\ FreeUnits(Reserved(o, n)) = FreeUnits(o) \ (Place(o, n) .. (Place(o, n) + n - 1))
         /\ Place(o, n) + n <= Reserved(o, n).bump + 1
         /\ Reserved(o, n).used = o.used + n
<1>. DEFINE a == Place(o, n)
            r == Reserved(o, n)
            taken == a .. (a + n - 1)
<1>1. /\ o.free \in Seq(OldAddress) /\ o.size \in [OldAddress -> 0 .. OldSize]
      /\ o.bump \in 0 .. OldSize /\ OldSize \in Nat /\ o.used \in 0 .. OldSize
      /\ o.vacant \in SUBSET OldAddress
  BY SizeAssumption DEF OldGeneration
<1>2. \A i \in DOMAIN o.free : /\ o.free[i] \in OldAddress /\ o.free[i] \in 1 .. OldSize
                               /\ o.size[o.free[i]] \in 1 .. OldSize
                               /\ o.free[i] + o.size[o.free[i]] <= o.bump + 1
  <2>1. TAKE i \in DOMAIN o.free
  <2>2. o.free[i] \in OldAddress
    BY <1>1
  <2>3. o.size[o.free[i]] # 0 /\ o.size[o.free[i]] \in 0 .. OldSize
    BY <1>1, <2>2 DEF FreeIsSound
  <2>4. QED
    BY <2>2, <2>3 DEF OldAddress, FreeIsSound
<1>3. a \in OldAddress /\ taken \subseteq FreeUnits(o)
  BY PlaceFacts
<1>4. n <= Cardinality(FreeUnits(o)) /\ Cardinality(FreeUnits(o) \ taken) = Cardinality(FreeUnits(o)) - n
  <2>1. a \in Int
    BY <1>3 DEF OldAddress
  <2>2. IsFiniteSet(FreeUnits(o))
    BY FreeUnitsFinite
  <2>. HIDE DEF a
  <2>3. QED
    BY <1>3, <2>1, <2>2, LessAnInterval
<1>5. o.used + n \in 0 .. OldSize
      /\ o.used + n + Cardinality(FreeUnits(o) \ taken) <= OldSize
  <2>1. Cardinality(FreeUnits(o)) \in Nat /\ o.used + Cardinality(FreeUnits(o)) <= OldSize
    BY FreeUnitsFinite DEF FreeIsSound
  <2>2. QED
    BY <1>1, <1>4, <2>1
\* It remains to see that the free memory shrinks, and that the rest is in order.
<1>6. SUFFICES /\ r \in OldGeneration
               /\ r.used = o.used + n
               /\ a + n <= r.bump + 1
               /\ FreeUnits(r) = FreeUnits(o) \ taken
               /\ \A x \in OldAddress : r.size[x] # 0 => x + r.size[x] <= r.bump + 1
               /\ \A i \in DOMAIN r.free : r.size[r.free[i]] # 0
               /\ \A i, j \in DOMAIN r.free :
                    i # j => \/ r.free[i] + r.size[r.free[i]] <= r.free[j]
                             \/ r.free[j] + r.size[r.free[j]] <= r.free[i]
  <2>. HIDE DEF r
  <2>1. FreeIsSound(r)
    BY <1>5, <1>6 DEF FreeIsSound
  <2>2. QED
    BY <1>6, <2>1 DEF r
<1>7. CASE Fitting(o, n) = {}
  <2>1. a = o.bump + 1 /\ o.bump + n <= OldSize
    BY <1>7, PlaceFacts
  <2>2. /\ r = [o EXCEPT !.used = o.used + n, !.bump = o.bump + n]
    BY <1>7 DEF Reserved, OldGeneration
  <2>3. /\ r.size = o.size /\ r.free = o.free /\ r.bump = o.bump + n
        /\ r.used = o.used + n /\ r \in OldGeneration
    <3>. HIDE DEF r
    <3>1. o.bump + n \in 0 .. OldSize
      BY <1>1, <2>1
    <3>2. /\ r.size = o.size /\ r.free = o.free /\ r.bump = o.bump + n
          /\ r.used = o.used + n /\ r \in OldGeneration
      BY <1>5, <2>2, <3>1 DEF OldGeneration
    <3>3. QED
      BY <3>2
  <2>. HIDE DEF r
  <2>4. ASSUME NEW u \in OldAddress
        PROVE  u \in FreeUnits(r) <=> u \in FreeUnits(o) \ taken
    <3>1. u \in Int
      BY DEF OldAddress
    <3>2. \A i \in DOMAIN o.free : Block(r, r.free[i]) = Block(o, o.free[i])
      BY <2>3 DEF Block
    <3>3. \A i \in DOMAIN o.free : u \in Block(o, o.free[i]) => u <= o.bump
      BY <1>1, <1>2, <3>1 DEF Block
    <3>4. u \in FreeUnits(r) <=> u > o.bump + n \/ \E i \in DOMAIN o.free : u \in Block(o, o.free[i])
      BY <2>3, <3>2 DEF FreeUnits
    <3>5. u \in FreeUnits(o) <=> u > o.bump \/ \E i \in DOMAIN o.free : u \in Block(o, o.free[i])
      BY DEF FreeUnits
    <3>6. u \in taken <=> u > o.bump /\ u <= o.bump + n
      BY <1>1, <2>1, <3>1
    <3>7. QED
      BY <1>1, <3>1, <3>3, <3>4, <3>5, <3>6
  <2>5. FreeUnits(r) = FreeUnits(o) \ taken
    <3>1. FreeUnits(r) \subseteq OldAddress /\ FreeUnits(o) \subseteq OldAddress
      BY DEF FreeUnits
    <3>2. QED
      BY ONLY <2>4, <3>1
  <2>6. \A x \in OldAddress : r.size[x] # 0 => x + r.size[x] <= r.bump + 1
    <3>1. \A x \in OldAddress : x \in Int /\ o.size[x] \in Int
      BY <1>1 DEF OldAddress
    <3>2. QED
      BY <1>1, <2>3, <3>1 DEF FreeIsSound
  <2>7. a + n <= r.bump + 1
    BY <1>1, <2>1, <2>3
  <2>8. QED
    BY <2>3, <2>5, <2>6, <2>7 DEF FreeIsSound
<1>8. CASE Fitting(o, n) # {}
  <2>. DEFINE m == Min(Fitting(o, n))
              z == o.size[a]
              list == SwapRemove(o.free, m)
  <2>1. /\ m \in DOMAIN o.free /\ a = o.free[m] /\ z >= n /\ z \in 1 .. OldSize
        /\ a + z <= o.bump + 1 /\ a \in 1 .. OldSize
    BY <1>3, <1>8, PlaceFacts DEF OldAddress
  <2>2. /\ list \in Seq(OldAddress)
        /\ \A j \in DOMAIN list : \E k \in DOMAIN o.free : k # m /\ list[j] = o.free[k]
        /\ \A j, l \in DOMAIN list : j # l =>
             \E k, p \in DOMAIN o.free : /\ k # p /\ k # m /\ p # m
                                         /\ list[j] = o.free[k] /\ list[l] = o.free[p]
        /\ \A k \in DOMAIN o.free : k # m => \E j \in DOMAIN list : list[j] = o.free[k]
    <3>. HIDE DEF m
    <3>1. o.free \in Seq(OldAddress) /\ m \in DOMAIN o.free
      BY <1>1, <2>1
    <3>2. QED
      <4>. HIDE DEF list
      <4>1. list = SwapRemove(o.free, m)
        BY DEF list
      <4>2. PICK s : s = o.free
        OBVIOUS
      <4>3. s \in Seq(OldAddress) /\ m \in DOMAIN s /\ list = SwapRemove(s, m)
        BY <3>1, <4>1, <4>2
      <4>4. list \in Seq(OldAddress)
        BY <4>3, SwapKeepsOthers
      <4>5. \A j \in DOMAIN list : \E k \in DOMAIN s : k # m /\ list[j] = s[k]
        BY <4>3, SwapKeepsOthers
      <4>6. \A k \in DOMAIN s : k # m => \E j \in DOMAIN list : list[j] = s[k]
        BY <4>3, SwapKeepsOthers
      <4>7. \A j, l \in DOMAIN list : j # l =>
              \E k, p \in DOMAIN s : k # p /\ k # m /\ p # m /\ list[j] = s[k] /\ list[l] = s[p]
        BY <4>3, SwapKeepsOthers
      <4>8. QED
        BY <4>2, <4>4, <4>5, <4>6, <4>7
  <2>. HIDE DEF m
\* Another entry lies apart from the one that is taken.
  <2>3. \A k \in DOMAIN o.free : k # m =>
          o.free[k] + o.size[o.free[k]] <= a \/ a + z <= o.free[k]
    BY <2>1 DEF FreeIsSound
  <2>4. \A j \in DOMAIN list :
          /\ list[j] \in OldAddress /\ list[j] \in 1 .. OldSize
          /\ o.size[list[j]] \in 1 .. OldSize
          /\ list[j] + o.size[list[j]] <= a \/ a + z <= list[j]
    BY <1>2, <2>2, <2>3
  <2>5. \A j, l \in DOMAIN list : j # l =>
          list[j] + o.size[list[j]] <= list[l] \/ list[l] + o.size[list[l]] <= list[j]
    <3>1. TAKE j, l \in DOMAIN list
    <3>2. HAVE j # l
    <3>3. PICK k, p \in DOMAIN o.free : k # p /\ list[j] = o.free[k] /\ list[l] = o.free[p]
      BY <2>2, <3>2
    <3>4. QED
      BY <3>3 DEF FreeIsSound
  <2>6. \A u : (\E k \in DOMAIN o.free : u \in Block(o, o.free[k]))
           <=> u \in Block(o, a) \/ \E j \in DOMAIN list : u \in Block(o, list[j])
    <3>1. \A j \in DOMAIN list : \E k \in DOMAIN o.free : list[j] = o.free[k]
      BY <2>2
    <3>2. \A k \in DOMAIN o.free : o.free[k] = a \/ \E j \in DOMAIN list : list[j] = o.free[k]
      BY <2>1, <2>2
    <3>3. QED
      BY <2>1, <3>1, <3>2
  <2>. DEFINE used == [o EXCEPT !.used = o.used + n]
  <2>7. r = IF z - n = 0 THEN [used EXCEPT !.free = list]
            ELSE [used EXCEPT !.free = Append(list, a + n),
                              !.size[a + n] = z - n, !.vacant = o.vacant \cup {a + n}]
    BY <1>8 DEF Reserved, m, OldGeneration
  <2>. HIDE DEF list, r
  <2>8. ASSUME NEW u \in OldAddress
        PROVE  /\ u \in Int
               /\ u \in taken <=> a <= u /\ u < a + n
               /\ u \in Block(o, a) <=> a <= u /\ u < a + z
               /\ \A j \in DOMAIN list : u \in Block(o, list[j]) => u < a \/ u >= a + z
    <3>1. u \in Int /\ a \in Int /\ n \in Int /\ z \in Int
      BY <2>1 DEF OldAddress
    <3>2. u \in taken <=> a <= u /\ u < a + n
      BY <3>1
    <3>3. u \in Block(o, a) <=> a <= u /\ u < a + z
      BY <3>1 DEF Block
    <3>4. ASSUME NEW j \in DOMAIN list, u \in Block(o, list[j])
          PROVE  u < a \/ u >= a + z
      <4>1. list[j] \in Int /\ o.size[list[j]] \in Int
        BY <2>4
      <4>2. list[j] <= u /\ u < list[j] + o.size[list[j]]
        BY <3>1, <3>4, <4>1 DEF Block
      <4>3. QED
        BY <2>4, <3>1, <4>1, <4>2
    <3>5. QED
      BY <3>1, <3>2, <3>3, <3>4
  <2>9. \A u \in OldAddress : u \in FreeUnits(o) <=>
          u > o.bump \/ u \in Block(o, a) \/ \E j \in DOMAIN list : u \in Block(o, list[j])
    BY <2>6 DEF FreeUnits
  <2>10. n \in Int /\ z \in Int /\ a \in Int /\ o.bump \in Int
    BY <1>1, <2>1
  <2>11. FreeUnits(r) \subseteq OldAddress /\ FreeUnits(o) \subseteq OldAddress
    BY DEF FreeUnits
  <2>12. CASE z = n
    <3>1. r = [o EXCEPT !.used = o.used + n, !.free = list]
      BY <2>7, <2>10, <2>12 DEF OldGeneration
    <3>2. /\ r.size = o.size /\ r.free = list /\ r.bump = o.bump /\ r.used = o.used + n
          /\ r \in OldGeneration
      BY <1>5, <2>2, <3>1 DEF OldGeneration
    <3>3. \A u \in OldAddress : u \in FreeUnits(r) <=>
            u > o.bump \/ \E j \in DOMAIN list : u \in Block(o, list[j])
      BY <3>2 DEF FreeUnits, Block
    <3>4. \A u \in OldAddress : u \in FreeUnits(r) <=> u \in FreeUnits(o) \ taken
      <4>1. TAKE u \in OldAddress
      <4>2. /\ u \in Int
            /\ u \in taken <=> a <= u /\ u < a + n
            /\ u \in Block(o, a) <=> a <= u /\ u < a + n
            /\ \A j \in DOMAIN list : u \in Block(o, list[j]) => u < a \/ u >= a + n
        BY <2>8, <2>12
      <4>3. u \in taken => u <= o.bump
        BY <2>1, <2>10, <2>12, <4>2
      <4>4. QED
        BY <2>9, <2>10, <3>3, <4>2, <4>3
    <3>5. FreeUnits(r) = FreeUnits(o) \ taken
      BY ONLY <2>11, <3>4
    <3>6. a + n <= r.bump + 1
      BY <2>1, <2>12, <3>2
    <3>7. \A x \in OldAddress : r.size[x] # 0 => x + r.size[x] <= r.bump + 1
      BY <3>2 DEF FreeIsSound
    <3>8. QED
      BY <2>4, <2>5, <3>2, <3>5, <3>6, <3>7
  <2>13. CASE z # n
    <3>1. z - n \in 1 .. OldSize /\ a + n \in OldAddress /\ a + n + (z - n) = a + z
      <4>. HIDE DEF a, z
      <4>1. \A w, y, b \in Int : /\ 1 <= w /\ n <= y /\ y # n /\ y <= OldSize
                                  /\ w + y <= b + 1 /\ b <= OldSize
               => y - n \in 1 .. OldSize /\ w + n \in 1 .. OldSize /\ w + n + (y - n) = w + y
        BY <1>1
      <4>2. a \in Int /\ z \in Int /\ o.bump \in Int /\ 1 <= a /\ z <= OldSize /\ o.bump <= OldSize
        BY <1>1, <2>1
      <4>3. QED
        BY <2>1, <2>13, <4>1, <4>2 DEF OldAddress
    <3>2. r = [o EXCEPT !.used = o.used + n, !.free = Append(list, a + n),
                        !.size = [o.size EXCEPT ![a + n] = z - n],
                        !.vacant = o.vacant \cup {a + n}]
      BY <2>7, <2>10, <2>13 DEF OldGeneration
    <3>3. /\ r.size = [o.size EXCEPT ![a + n] = z - n] /\ r.free = Append(list, a + n)
          /\ r.bump = o.bump /\ r.used = o.used + n
      BY <3>2 DEF OldGeneration
    <3>4. r \in OldGeneration
      <4>1. Append(list, a + n) \in Seq(OldAddress)
        BY <2>2, <3>1
      <4>2. [o.size EXCEPT ![a + n] = z - n] \in [OldAddress -> 0 .. OldSize]
        BY <1>1, <3>1
      <4>3. o.vacant \cup {a + n} \in SUBSET OldAddress
        BY <1>1, <3>1
      <4>4. QED
        BY <1>5, <3>2, <4>1, <4>2, <4>3 DEF OldGeneration
    <3>5. /\ Len(list) \in Nat /\ DOMAIN list = 1 .. Len(list)
          /\ DOMAIN r.free = 1 .. (Len(list) + 1)
          /\ \A j \in DOMAIN list : r.free[j] = list[j]
          /\ r.free[Len(list) + 1] = a + n
      BY <2>2, <3>1, <3>3
    <3>6. \A x \in OldAddress : r.size[x] = IF x = a + n THEN z - n ELSE o.size[x]
      BY <1>1, <3>3
    <3>7. \A j \in DOMAIN list : list[j] # a + n
      BY <2>4, <2>10, <2>13, <2>1
    <3>8. /\ \A j \in DOMAIN list : r.free[j] = list[j] /\ r.size[r.free[j]] = o.size[list[j]]
          /\ r.size[r.free[Len(list) + 1]] = z - n
      BY <2>4, <3>1, <3>5, <3>6, <3>7
    <3>9. \A u \in OldAddress : u \in FreeUnits(r) <=>
            \/ u > o.bump
            \/ a + n <= u /\ u < a + z
            \/ \E j \in DOMAIN list : u \in Block(o, list[j])
      <4>1. TAKE u \in OldAddress
      <4>2. u \in Block(r, r.free[Len(list) + 1]) <=> a + n <= u /\ u < a + z
        BY <2>8, <2>10, <3>5, <3>8 DEF Block
      <4>3. \A j \in DOMAIN list : u \in Block(r, r.free[j]) <=> u \in Block(o, list[j])
        BY <3>8 DEF Block
      <4>4. (\E j \in DOMAIN r.free : u \in Block(r, r.free[j])) <=>
              \/ u \in Block(r, r.free[Len(list) + 1])
              \/ \E j \in DOMAIN list : u \in Block(r, r.free[j])
        BY <3>5
      <4>5. u \in FreeUnits(r) <=> u > o.bump \/ \E j \in DOMAIN r.free : u \in Block(r, r.free[j])
        BY <3>3 DEF FreeUnits
      <4>6. QED
        BY <4>2, <4>3, <4>4, <4>5
    <3>10. \A u \in OldAddress : u \in FreeUnits(r) <=> u \in FreeUnits(o) \ taken
      <4>1. TAKE u \in OldAddress
      <4>2. u \in taken => u <= o.bump
        BY <2>1, <2>8, <2>10
      <4>3. QED
        BY <2>1, <2>8, <2>9, <2>10, <3>9, <4>2
    <3>11. FreeUnits(r) = FreeUnits(o) \ taken
      BY ONLY <2>11, <3>10
    <3>12. a + n <= r.bump + 1
      BY <2>1, <2>10, <3>3
    <3>13. \A x \in OldAddress : r.size[x] # 0 => x + r.size[x] <= r.bump + 1
      <4>1. a + n + (z - n) <= o.bump + 1
        BY <2>1, <3>1
      <4>2. QED
        BY <3>3, <3>6, <4>1 DEF FreeIsSound
    <3>14. \A i \in DOMAIN r.free : r.size[r.free[i]] # 0
      BY <2>4, <3>1, <3>5, <3>8
    <3>15. \A j \in DOMAIN list :
             \/ list[j] + o.size[list[j]] <= a + n
             \/ a + n + (z - n) <= list[j]
      BY <2>4, <2>10, <3>1
    <3>16. \A i, j \in DOMAIN r.free :
             i # j => \/ r.free[i] + r.size[r.free[i]] <= r.free[j]
                      \/ r.free[j] + r.size[r.free[j]] <= r.free[i]
      <4>1. TAKE i, j \in DOMAIN r.free
      <4>2. HAVE i # j
      <4>3. CASE i \in DOMAIN list /\ j \in DOMAIN list
        BY <2>5, <3>8, <4>2, <4>3
      <4>4. CASE i \in DOMAIN list /\ j = Len(list) + 1
        BY <3>5, <3>8, <3>15, <4>4
      <4>5. CASE i = Len(list) + 1 /\ j \in DOMAIN list
        BY <3>5, <3>8, <3>15, <4>5
      <4>6. QED
        BY <3>5, <4>2, <4>3, <4>4, <4>5
    <3>17. QED
      BY <3>3, <3>4, <3>11, <3>12, <3>13, <3>14, <3>16
  <2>14. QED
    BY <2>12, <2>13
<1>9. QED
  BY <1>7, <1>8

\* The header that the caller writes changes nothing about what is free.
LEMMA HeadedFacts ==
  ASSUME NEW o \in OldGeneration, FreeIsSound(o), NEW a \in OldAddress,
         NEW n \in 1 .. OldSize, a \notin FreeUnits(o), a + n <= o.bump + 1
  PROVE  /\ Headed(o, a, n) \in OldGeneration
         /\ FreeIsSound(Headed(o, a, n))
         /\ FreeUnits(Headed(o, a, n)) = FreeUnits(o)
<1>. DEFINE r == Headed(o, a, n)
<1>1. /\ o.free \in Seq(OldAddress) /\ o.size \in [OldAddress -> 0 .. OldSize]
      /\ o.vacant \in SUBSET OldAddress /\ o.bump \in 0 .. OldSize
  BY DEF OldGeneration
<1>2. r = [o EXCEPT !.size = [o.size EXCEPT ![a] = n], !.vacant = o.vacant \ {a}]
  BY DEF Headed, OldGeneration
<1>. HIDE DEF r
<1>3. /\ r.size = [o.size EXCEPT ![a] = n] /\ r.free = o.free
      /\ r.bump = o.bump /\ r.used = o.used
  BY <1>2 DEF OldGeneration
<1>4. r \in OldGeneration
  <2>1. [o.size EXCEPT ![a] = n] \in [OldAddress -> 0 .. OldSize]
    BY <1>1
  <2>2. o.vacant \ {a} \in SUBSET OldAddress
    BY <1>1
  <2>3. QED
    BY <1>2, <2>1, <2>2 DEF OldGeneration
<1>5. ASSUME NEW i \in DOMAIN o.free
      PROVE  o.free[i] # a
  <2>1. o.free[i] \in OldAddress /\ o.size[o.free[i]] # 0
        /\ o.size[o.free[i]] \in 0 .. OldSize
    BY <1>1 DEF FreeIsSound
  <2>2. o.free[i] \in Block(o, o.free[i])
    BY <2>1 DEF Block, OldAddress
  <2>3. o.free[i] \in FreeUnits(o)
    BY <2>1, <2>2 DEF FreeUnits
  <2>4. QED
    BY <2>3
<1>6. \A i \in DOMAIN o.free : r.size[o.free[i]] = o.size[o.free[i]]
  BY <1>1, <1>3, <1>5
<1>7. FreeUnits(r) = FreeUnits(o)
  BY <1>3, <1>6 DEF FreeUnits, Block
<1>8. \A x \in OldAddress : r.size[x] # 0 => x + r.size[x] <= r.bump + 1
  BY <1>1, <1>3 DEF FreeIsSound
<1>9. FreeIsSound(r)
  BY <1>3, <1>6, <1>7, <1>8 DEF FreeIsSound
<1>10. QED
  BY <1>4, <1>7, <1>9 DEF r

(***************************************************************************)
(* sweep_old                                                               *)
(***************************************************************************)

\* No header reaches beyond the bump pointer.
HeadersEnd(o) == \A a \in OldAddress : o.size[a] # 0 => a + o.size[a] <= o.bump + 1

\* What the walk has come to from an address on: no two blocks overlap, and it
\* comes to the block behind each block, and to nothing else.
WalkIsOrderly(o, a, met) ==
  /\ met \subseteq a .. o.bump
  /\ a <= o.bump => a \in met
  /\ \A x \in met : o.size[x] # 0 /\ x + o.size[x] <= o.bump => x + o.size[x] \in met
  /\ \A x \in met : x = a \/ \E p \in met : o.size[p] # 0 /\ p + o.size[p] = x
  /\ \A x, y \in met : x < y => o.size[x] # 0 /\ x + o.size[x] <= y

\* The equation by which Walked walks.
Walks(from, o) ==
  from = [a \in 1 .. OldSize + 1 |->
            IF a > o.bump THEN {}
            ELSE {a} \cup (IF o.size[a] = 0 THEN {} ELSE from[a + o.size[a]])]

\* It has a solution: from each address, what is reached by adding sizes.
LEMMA WalkExists ==
  ASSUME NEW o \in OldGeneration, HeadersEnd(o)
  PROVE  \E from : Walks(from, o)
<1>. DEFINE N == 1 .. o.bump
            kids == [a \in N |-> IF o.size[a] = 0 \/ a + o.size[a] > o.bump THEN {}
                                 ELSE {a + o.size[a]}]
            from == [a \in 1 .. OldSize + 1 |-> IF a > o.bump THEN {} ELSE Closure(N, kids, {a})]
<1>1. /\ o.bump \in 0 .. OldSize /\ OldSize \in Nat
      /\ \A a \in N : a \in OldAddress /\ a \in Int /\ 1 <= a /\ o.size[a] \in 0 .. OldSize
  BY SizeAssumption DEF OldGeneration, OldAddress
<1>2. kids \in [N -> SUBSET N]
  <2>1. ASSUME NEW a \in N, o.size[a] # 0, a + o.size[a] <= o.bump
        PROVE  {a + o.size[a]} \in SUBSET N
    BY <1>1, <2>1
  <2>2. ASSUME NEW a \in N
        PROVE  (IF o.size[a] = 0 \/ a + o.size[a] > o.bump THEN {} ELSE {a + o.size[a]})
                 \in SUBSET N
    BY <1>1, <2>1, <2>2
  <2>3. QED
    BY <2>2
<1>3. \A a \in N : kids[a] = IF o.size[a] = 0 \/ a + o.size[a] > o.bump THEN {}
                             ELSE {a + o.size[a]}
  OBVIOUS
<1>. HIDE DEF N, kids
<1>4. ASSUME NEW a \in N
      PROVE  Closure(N, kids, {a}) = {a} \cup Closure(N, kids, kids[a])
  <2>1. {a} \in SUBSET N /\ kids[a] \in SUBSET N
    BY <1>2
  <2>. DEFINE C == Closure(N, kids, {a})
              D == Closure(N, kids, kids[a])
  <2>2. /\ C \in SUBSET N /\ {a} \subseteq C /\ ClosedUnder(kids, C)
        /\ \A S \in SUBSET N : {a} \subseteq S /\ ClosedUnder(kids, S) => C \subseteq S
    BY <1>2, <2>1, ClosureIsLeast
  <2>3. /\ D \in SUBSET N /\ kids[a] \subseteq D /\ ClosedUnder(kids, D)
        /\ \A S \in SUBSET N : kids[a] \subseteq S /\ ClosedUnder(kids, S) => D \subseteq S
    BY <1>2, <2>1, ClosureIsLeast
  <2>. HIDE DEF C, D
  <2>4. D \subseteq C
    BY <2>2, <2>3 DEF ClosedUnder
  <2>5. ClosedUnder(kids, {a} \cup D)
    BY <2>3 DEF ClosedUnder
  <2>6. C \subseteq {a} \cup D
    BY <2>1, <2>2, <2>3, <2>5
  <2>7. QED
    BY <2>2, <2>4, <2>6 DEF C, D
<1>5. Closure(N, kids, {}) = {}
  <2>1. ClosedUnder(kids, {}) /\ {} \in SUBSET N
    BY DEF ClosedUnder
  <2>2. QED
    BY <1>2, <2>1, ClosureIsLeast
<1>6. ASSUME NEW a \in 1 .. OldSize + 1, ~ a > o.bump
      PROVE  from[a] = {a} \cup (IF o.size[a] = 0 THEN {} ELSE from[a + o.size[a]])
  <2>1. a \in N /\ a \in Int
    BY <1>1, <1>6 DEF N
  <2>2. from[a] = {a} \cup Closure(N, kids, kids[a])
    BY <1>4, <1>6, <2>1
  <2>3. CASE o.size[a] = 0
    BY <1>3, <1>5, <2>1, <2>2, <2>3
  <2>4. CASE o.size[a] # 0 /\ a + o.size[a] > o.bump
    <3>1. a + o.size[a] \in 1 .. OldSize + 1
      BY <1>1, <2>1, <2>4 DEF HeadersEnd
    <3>2. from[a + o.size[a]] = {}
      BY <2>4, <3>1
    <3>3. kids[a] = {}
      BY <1>3, <2>1, <2>4
    <3>4. QED
      BY <1>5, <2>2, <2>4, <3>2, <3>3
  <2>5. CASE o.size[a] # 0 /\ ~ a + o.size[a] > o.bump
    <3>1. a + o.size[a] \in 1 .. OldSize + 1
      BY <1>1, <2>1, <2>5
    <3>2. from[a + o.size[a]] = Closure(N, kids, {a + o.size[a]})
      BY <2>5, <3>1
    <3>3. kids[a] = {a + o.size[a]}
      BY <1>3, <2>1, <2>5
    <3>4. QED
      BY <2>2, <2>5, <3>2, <3>3
  <2>6. QED
    BY <2>3, <2>4, <2>5
<1>7. from = [a \in 1 .. OldSize + 1 |->
            IF a > o.bump THEN {}
            ELSE {a} \cup (IF o.size[a] = 0 THEN {} ELSE from[a + o.size[a]])]
  <2>1. \A a \in 1 .. OldSize + 1 :
          from[a] = IF a > o.bump THEN {}
                    ELSE {a} \cup (IF o.size[a] = 0 THEN {} ELSE from[a + o.size[a]])
    BY <1>6
  <2>2. from = [a \in 1 .. OldSize + 1 |-> from[a]]
    OBVIOUS
  <2>. HIDE DEF from
  <2>3. QED
    BY <2>1, <2>2
<1>8. QED
  <2>. HIDE DEF from
  <2>1. Walks(from, o)
    BY <1>7 DEF Walks
  <2>2. QED
    BY <2>1

\* Whichever solution it is, the walk is orderly.
LEMMA WalkedFacts ==
  ASSUME NEW o \in OldGeneration, HeadersEnd(o)
  PROVE  WalkIsOrderly(o, 1, Walked(o))
<1>. DEFINE from == CHOOSE f : Walks(f, o)
<1>1. Walks(from, o)
  BY WalkExists
<1>2. Walked(o) = from[1]
  BY DEF Walked, Walks
<1>. HIDE DEF from
<1>3. /\ o.bump \in 0 .. OldSize /\ OldSize \in Nat /\ OldSize + 1 \in Nat
      /\ \A a \in 1 .. o.bump : a \in OldAddress /\ a \in Int /\ 1 <= a /\ o.size[a] \in 0 .. OldSize
  BY SizeAssumption DEF OldGeneration, OldAddress
<1>4. \A a \in 1 .. OldSize + 1 : a > o.bump => from[a] = {}
  BY <1>1 DEF Walks
<1>5. \A a \in 1 .. OldSize + 1 : ~ a > o.bump =>
        from[a] = {a} \cup (IF o.size[a] = 0 THEN {} ELSE from[a + o.size[a]])
  BY <1>1 DEF Walks
<1>. DEFINE Bad == {a \in 1 .. OldSize + 1 : ~ WalkIsOrderly(o, a, from[a])}
<1>6. Bad = {}
  <2>1. SUFFICES ASSUME Bad # {}
                 PROVE  FALSE
    OBVIOUS
  <2>2. Bad \in SUBSET (0 .. OldSize + 1)
    OBVIOUS
  <2>3. PICK a \in Bad : \A b \in Bad : b <= a
    <3>. HIDE DEF Bad
    <3>1. QED
      BY <1>3, <2>1, <2>2, GreatestNatural
  <2>4. a \in 1 .. OldSize + 1 /\ a \in Int
    BY <1>3
  <2>5. CASE a > o.bump
    <3>1. from[a] = {}
      BY <1>4, <2>4, <2>5
    <3>2. WalkIsOrderly(o, a, {})
      BY <1>3, <2>4, <2>5 DEF WalkIsOrderly
    <3>3. QED
      BY <3>1, <3>2
  <2>6. CASE ~ a > o.bump /\ o.size[a] = 0
    <3>1. from[a] = {a} /\ a \in a .. o.bump
      BY <1>3, <1>5, <2>4, <2>6
    <3>2. WalkIsOrderly(o, a, {a})
      BY <2>4, <2>6, <3>1 DEF WalkIsOrderly
    <3>3. QED
      BY <3>1, <3>2
  <2>7. CASE ~ a > o.bump /\ o.size[a] # 0
    <3>. DEFINE b == a + o.size[a]
    <3>1. a \in OldAddress /\ o.size[a] \in 1 .. OldSize /\ a <= o.bump
      BY <1>3, <2>4, <2>7
    <3>2. b \in 1 .. OldSize + 1 /\ a < b /\ b <= o.bump + 1 /\ b \in Int
      BY <1>3, <2>4, <2>7, <3>1 DEF HeadersEnd
    <3>3. from[a] = {a} \cup from[b]
      BY <1>5, <2>4, <2>7
    <3>4. WalkIsOrderly(o, b, from[b])
      <4>1. b \notin Bad
        BY <2>3, <2>4, <3>2
      <4>2. QED
        BY <3>2, <4>1
    <3>. DEFINE met == from[b]
    <3>5. /\ \A x \in met : x \in Int /\ b <= x /\ x <= o.bump
          /\ b <= o.bump => b \in met
          /\ \A x \in met : o.size[x] # 0 /\ x + o.size[x] <= o.bump => x + o.size[x] \in met
          /\ \A x \in met : x = b \/ \E p \in met : o.size[p] # 0 /\ p + o.size[p] = x
          /\ \A x, y \in met : x < y => o.size[x] # 0 /\ x + o.size[x] <= y
      BY <1>3, <3>2, <3>4 DEF WalkIsOrderly
    <3>. HIDE DEF met
    <3>6. {a} \cup met \subseteq a .. o.bump
      BY <1>3, <2>4, <3>1, <3>2, <3>5
    <3>7. \A x \in {a} \cup met : o.size[x] # 0 /\ x + o.size[x] <= o.bump
                                    => x + o.size[x] \in {a} \cup met
      BY <3>5
    <3>8. \A x \in {a} \cup met :
            x = a \/ \E p \in {a} \cup met : o.size[p] # 0 /\ p + o.size[p] = x
      BY <2>7, <3>5
    <3>9. \A x, y \in {a} \cup met : x < y => o.size[x] # 0 /\ x + o.size[x] <= y
      BY <2>4, <2>7, <3>2, <3>5
    <3>10. WalkIsOrderly(o, a, {a} \cup met)
      BY <3>6, <3>7, <3>8, <3>9 DEF WalkIsOrderly
    <3>11. QED
      BY <3>3, <3>10 DEF met
  <2>8. QED
    BY <2>5, <2>6, <2>7
<1>7. 1 \in 1 .. OldSize + 1
  BY <1>3
<1>8. QED
  BY <1>2, <1>6, <1>7

\* The blocks of the old generation, vacant or not.
Headers(o) == {a \in OldAddress : o.size[a] # 0}

\* Blocks lie end to end up to bump.
EndToEnd(o) ==
  /\ o.bump # 0 => 1 \in Headers(o)
  /\ \A a \in Headers(o) : a + o.size[a] \in Headers(o) \cup {o.bump + 1}
  /\ \A a, b \in Headers(o) : a < b => a + o.size[a] <= b

\* The old generation while no reservation has been forgotten: the vacant blocks
\* are those on the list, and the others are what is used.
IsTiled(o) ==
  /\ EndToEnd(o)
  /\ o.vacant \subseteq Headers(o) /\ ToSet(o.free) = o.vacant
  /\ o.used = TotalSize(o, Headers(o) \ o.vacant)

\* Units of blocks that lie apart, and apart from what is free, are no more than
\* what is not free.
LEMMA TotalSizeFits ==
  ASSUME NEW o \in OldGeneration, NEW S \in SUBSET OldAddress, NEW F \in SUBSET OldAddress,
         \A k \in S : /\ k + o.size[k] <= OldSize + 1
                      /\ \A u \in Block(o, k) : u \notin F,
         \A k, m \in S : k < m => k + o.size[k] <= m
  PROVE  TotalSize(o, S) \in Nat /\ TotalSize(o, S) + Cardinality(F) <= OldSize
<1>. DEFINE units == {unit \in S \X (1 .. OldSize) : unit[2] <= o.size[unit[1]]}
            T == OldAddress \ F
            f == [unit \in units |-> unit[1] + unit[2] - 1]
<1>1. OldSize \in Nat /\ \A k \in S : k \in Int /\ 1 <= k /\ o.size[k] \in Int
  BY SizeAssumption DEF OldGeneration, OldAddress
<1>2. IsFiniteSet(OldAddress) /\ Cardinality(OldAddress) = OldSize
  <2>1. 1 \in Int /\ OldSize \in Int
    BY <1>1
  <2>2. IsFiniteSet(1 .. OldSize)
        /\ Cardinality(1 .. OldSize) = IF 1 > OldSize THEN 0 ELSE OldSize - 1 + 1
    BY <2>1, FS_Interval
  <2>3. QED
    BY <1>1, <2>2 DEF OldAddress
<1>3. IsFiniteSet(T) /\ Cardinality(T) = OldSize - Cardinality(F)
      /\ IsFiniteSet(F) /\ Cardinality(F) \in Nat /\ Cardinality(T) \in Nat
  <2>1. IsFiniteSet(F)
    BY <1>2, FS_Subset
  <2>2. IsFiniteSet(T) /\ Cardinality(T) = Cardinality(OldAddress) - Cardinality(OldAddress \cap F)
    BY <1>2, FS_Difference
  <2>3. OldAddress \cap F = F
    OBVIOUS
  <2>. HIDE DEF T
  <2>4. Cardinality(F) \in Nat /\ Cardinality(T) \in Nat
    BY <2>1, <2>2, FS_CardinalityType
  <2>5. QED
    BY <1>2, <2>1, <2>2, <2>3, <2>4
<1>4. ASSUME NEW unit \in units
      PROVE  /\ unit[1] \in S /\ unit[2] \in Int /\ 1 <= unit[2] /\ unit[2] <= o.size[unit[1]]
             /\ unit = <<unit[1], unit[2]>>
  BY <1>1
<1>5. ASSUME NEW unit \in units
      PROVE  f[unit] \in T
  <2>. DEFINE k == unit[1] i == unit[2]
  <2>1. f[unit] = k + i - 1
    OBVIOUS
  <2>2. k \in S /\ i \in Int /\ 1 <= i /\ i <= o.size[k] /\ k \in Int /\ 1 <= k /\ o.size[k] \in Int
    BY <1>1, <1>4
  <2>. HIDE DEF k, i
  <2>3. k + i - 1 \in Block(o, k)
    BY <2>2 DEF Block
  <2>4. k + o.size[k] <= OldSize + 1
    BY <2>2
  <2>5. k + i - 1 \in OldAddress
    BY <1>1, <2>2, <2>4 DEF OldAddress
  <2>6. QED
    BY <2>1, <2>2, <2>3, <2>5
<1>6. ASSUME NEW x \in units, NEW y \in units, f[x] = f[y]
      PROVE  x = y
  <2>1. /\ x[1] \in S /\ x[2] \in Int /\ 1 <= x[2] /\ x[2] <= o.size[x[1]]
        /\ x = <<x[1], x[2]>>
        /\ y[1] \in S /\ y[2] \in Int /\ 1 <= y[2] /\ y[2] <= o.size[y[1]]
        /\ y = <<y[1], y[2]>>
    BY <1>4
  <2>2. x[1] + x[2] - 1 = y[1] + y[2] - 1
    BY <1>6
  <2>3. /\ x[1] \in Int /\ o.size[x[1]] \in Int /\ y[1] \in Int /\ o.size[y[1]] \in Int
        /\ x[1] < y[1] => x[1] + o.size[x[1]] <= y[1]
        /\ y[1] < x[1] => y[1] + o.size[y[1]] <= x[1]
    BY <1>1, <2>1
  <2>4. x[1] = y[1] /\ x[2] = y[2]
    BY <2>1, <2>2, <2>3
  <2>5. QED
    BY <2>1, <2>4
<1>7. f \in Injection(units, T)
  <2>. HIDE DEF units, T
  <2>1. f \in [units -> T]
    BY <1>5
  <2>. HIDE DEF f
  <2>2. IsInjective(f)
    BY <1>6, <2>1 DEF IsInjective
  <2>3. QED
    BY <2>1, <2>2 DEF Injection
<1>8. IsFiniteSet(units) /\ Cardinality(units) <= Cardinality(T)
  <2>. HIDE DEF units, T, f
  <2>1. QED
    BY <1>3, <1>7, FS_Injection
<1>9. Cardinality(units) \in Nat
  BY <1>8, FS_CardinalityType
<1>10. TotalSize(o, S) = Cardinality(units)
  BY DEF TotalSize
<1>. HIDE DEF units, T
<1>11. QED
  BY <1>1, <1>3, <1>8, <1>9, <1>10

\* What sweep_old leaves, when the walk meets a header everywhere: the old
\* generation is tiled, whatever it was before, and nothing kept is free.
LEMMA SweptFacts ==
  ASSUME NEW o \in OldGeneration, HeadersEnd(o), ~ Unwalkable(o), NEW marked,
         NEW list \in Ascending(Runs(o, marked))
  PROVE  LET s == Swept(o, marked, list)
         IN  /\ s \in OldGeneration /\ FreeIsSound(s) /\ IsTiled(s)
             /\ Kept(o, marked) \subseteq Headers(s) \ s.vacant
             /\ Kept(o, marked) \cap FreeUnits(s) = {}
<1>. DEFINE s == Swept(o, marked, list)
            W == Walked(o)
            K == Kept(o, marked)
            G == Gone(o, marked)
            R == Runs(o, marked)
            end(a) == RunEnd(o, marked, a)
<1>1. /\ o.bump \in 0 .. OldSize /\ OldSize \in Nat
      /\ o.size \in [OldAddress -> 0 .. OldSize]
  BY SizeAssumption DEF OldGeneration
<1>2. WalkIsOrderly(o, 1, W)
  BY WalkedFacts
<1>3. /\ W \subseteq OldAddress
      /\ \A a \in W : a \in Int /\ 1 <= a /\ a <= o.bump /\ o.size[a] \in 1 .. OldSize
  <2>1. \A a \in W : a \in 1 .. o.bump /\ a \in OldAddress
    BY <1>1, <1>2 DEF WalkIsOrderly, OldAddress
  <2>2. \A a \in W : o.size[a] # 0 /\ o.size[a] \in 0 .. OldSize
    BY <1>1, <2>1 DEF Unwalkable
  <2>3. QED
    BY <1>1, <2>1, <2>2
<1>4. /\ o.bump # 0 => 1 \in W
      /\ \A a \in W : a + o.size[a] \in W \cup {o.bump + 1}
      /\ \A a \in W : a = 1 \/ \E p \in W : p + o.size[p] = a
      /\ \A a, b \in W : a < b => a + o.size[a] <= b
  <2>1. \A a \in W : a + o.size[a] <= o.bump + 1
    BY <1>3 DEF HeadersEnd
  <2>2. \A a \in W : a + o.size[a] \in W \cup {o.bump + 1}
    BY <1>1, <1>2, <1>3, <2>1 DEF WalkIsOrderly
  <2>3. QED
    BY <1>1, <1>2, <2>2 DEF WalkIsOrderly
<1>5. /\ K \subseteq W /\ G = W \ K /\ R \subseteq G
      /\ \A a \in G : a \in R <=> \A p \in G : p + o.size[p] # a
  BY DEF Kept, Gone, Runs
<1>6. ASSUME NEW a \in G
      PROVE  /\ end(a) \in K \cup {o.bump + 1} /\ end(a) \in Int
             /\ a < end(a) /\ end(a) <= o.bump + 1
             /\ \A k \in K : a < k => end(a) <= k
  <2>. DEFINE T == {k \in K : k > a} \cup {o.bump + 1}
  <2>1. T \in SUBSET Nat /\ T # {}
    BY <1>1, <1>3, <1>5
  <2>2. end(a) = Min(T)
    BY DEF RunEnd
  <2>3. end(a) \in T /\ \A t \in T : end(a) <= t
    <3>. HIDE DEF T, end
    <3>1. QED
      BY <2>1, <2>2, MinIsLeast
  <2>4. a \in Int /\ a <= o.bump /\ \A k \in K : k \in Int /\ k <= o.bump
    BY <1>3, <1>5
  <2>. HIDE DEF end, K
  <2>5. QED
    BY <1>1, <2>3, <2>4
\* The fields of what is left.
<1>7. /\ s = [o EXCEPT !.size = [a \in OldAddress |->
                                   IF a \in K THEN o.size[a]
                                   ELSE IF a \in R THEN end(a) - a ELSE 0],
                       !.vacant = R, !.free = list, !.used = TotalSize(o, K)]
  BY DEF Swept
<1>8. /\ list \in [1 .. Cardinality(R) -> R] /\ ToSet(list) = R
      /\ \A i, j \in DOMAIN list : i < j => list[i] < list[j]
  BY DEF Ascending
<1>. HIDE DEF s, W, K, G, R, end
<1>9. /\ s.size = [a \in OldAddress |-> IF a \in K THEN o.size[a]
                                        ELSE IF a \in R THEN end(a) - a ELSE 0]
      /\ s.vacant = R /\ s.free = list /\ s.used = TotalSize(o, K) /\ s.bump = o.bump
  BY <1>7 DEF OldGeneration
<1>10. /\ \A a \in K : s.size[a] = o.size[a]
       /\ \A a \in R : s.size[a] = end(a) - a
       /\ \A a \in OldAddress : a \notin K /\ a \notin R => s.size[a] = 0
  BY <1>3, <1>5, <1>9
<1>11. Headers(s) = K \cup R
  <2>1. \A a \in K : o.size[a] # 0
    BY <1>3, <1>5
  <2>2. \A a \in R : end(a) - a # 0
    BY <1>3, <1>5, <1>6
  <2>3. \A a \in OldAddress : s.size[a] # 0 <=> a \in K \cup R
    BY <1>10, <2>1, <2>2
  <2>4. K \cup R \subseteq OldAddress
    BY <1>3, <1>5
  <2>5. \A a : a \in Headers(s) <=> a \in OldAddress /\ s.size[a] # 0
    BY DEF Headers
  <2>6. QED
    BY <2>3, <2>4, <2>5
<1>12. \A a \in K \cup R : /\ s.size[a] \in 1 .. OldSize /\ a \in OldAddress
                           /\ a \in Int /\ 1 <= a /\ a <= o.bump
                           /\ a + s.size[a] <= o.bump + 1
  <2>1. TAKE a \in K \cup R
  <2>2. a \in W /\ a \in OldAddress /\ a \in Int /\ 1 <= a /\ a <= o.bump
    BY <1>3, <1>5
  <2>3. CASE a \in K
    <3>1. s.size[a] = o.size[a] /\ o.size[a] \in 1 .. OldSize
      BY <1>3, <1>10, <2>2, <2>3
    <3>2. a + o.size[a] <= o.bump + 1
      BY <2>2, <3>1 DEF HeadersEnd
    <3>3. QED
      BY <2>2, <3>1, <3>2
  <2>4. CASE a \in R
    <3>1. s.size[a] = end(a) - a /\ end(a) \in Int /\ a < end(a) /\ end(a) <= o.bump + 1
      BY <1>5, <1>6, <1>10, <2>4
    <3>2. QED
      BY <1>1, <2>2, <3>1
  <2>5. QED
    BY <2>3, <2>4
\* The blocks that are left lie end to end.
<1>13. o.bump # 0 => 1 \in K \cup R
  <2>1. HAVE o.bump # 0
  <2>2. \A p \in G : p + o.size[p] # 1
    BY <1>3, <1>5
  <2>3. QED
    BY <1>4, <1>5, <2>1, <2>2
<1>14. \A a \in K \cup R : a + s.size[a] \in K \cup R \cup {o.bump + 1}
  <2>1. ASSUME NEW a \in R
        PROVE  a + s.size[a] \in K \cup {o.bump + 1}
    BY <1>3, <1>5, <1>6, <1>10
  <2>2. ASSUME NEW a \in K, a + o.size[a] \in G
        PROVE  a + o.size[a] \in R
    <3>1. ASSUME NEW p \in G, p + o.size[p] = a + o.size[a]
          PROVE  FALSE
      <4>1. /\ p \in Int /\ a \in Int /\ p # a
            /\ o.size[p] \in 1 .. OldSize /\ o.size[a] \in 1 .. OldSize
        BY <1>3, <1>5
      <4>2. /\ p < a => p + o.size[p] <= a
            /\ a < p => a + o.size[a] <= p
        BY <1>4, <1>5
      <4>3. QED
        BY <1>1, <3>1, <4>1, <4>2
    <3>2. QED
      BY <1>5, <2>2, <3>1
  <2>3. QED
    BY <1>4, <1>5, <1>10, <2>1, <2>2
<1>15. \A a, b \in K \cup R : a < b => a + s.size[a] <= b
  <2>1. TAKE a, b \in K \cup R
  <2>2. HAVE a < b
  <2>3. a \in W /\ b \in W /\ a \in Int /\ b \in Int /\ 1 <= a
    BY <1>3, <1>5
  <2>4. CASE a \in K
    BY <1>4, <1>10, <2>2, <2>3, <2>4
  <2>5. CASE a \in R /\ b \in K
    BY <1>5, <1>6, <1>10, <2>2, <2>3, <2>5
  <2>6. CASE a \in R /\ b \in R
    <3>1. /\ s.size[a] = end(a) - a /\ end(a) \in Int /\ a \in G /\ b \in G
          /\ \A k \in K : a < k => end(a) <= k
      BY <1>5, <1>6, <1>10, <2>6
    <3>2. PICK p \in W : p + o.size[p] = b
      BY <1>4, <2>2, <2>3
    <3>3. p \in K
      BY <1>5, <2>6, <3>1, <3>2
    <3>4. p # a /\ p \in Int /\ o.size[p] \in 1 .. OldSize /\ (p < a => p + o.size[p] <= a)
      BY <1>3, <1>4, <1>5, <2>3, <3>1, <3>3
    <3>5. a < p /\ p < b
      BY <1>1, <2>2, <2>3, <3>2, <3>4
    <3>6. end(a) <= p
      BY <3>1, <3>3, <3>5
    <3>7. QED
      BY <2>3, <3>1, <3>4, <3>5, <3>6
  <2>7. QED
    BY <2>4, <2>5, <2>6
<1>16. EndToEnd(s)
  BY <1>9, <1>11, <1>13, <1>14, <1>15 DEF EndToEnd
\* Which units are free.
<1>17. list \in Seq(OldAddress) /\ \A i \in DOMAIN list : list[i] \in R
  <2>1. IsFiniteSet(R)
    <3>1. IsFiniteSet(1 .. OldSize)
      BY <1>1, FS_Interval
    <3>2. QED
      BY <1>3, <1>5, <3>1, FS_Subset DEF OldAddress
  <2>2. Cardinality(R) \in Nat
    BY <2>1, FS_CardinalityType
  <2>3. list \in Seq(R) /\ R \subseteq OldAddress
    BY <1>3, <1>5, <1>8, <2>2
  <2>4. QED
    BY <1>8, <2>3
<1>18. \A k \in K : \A u \in Block(o, k) : u \notin FreeUnits(s)
  <2>1. TAKE k \in K
  <2>2. TAKE u \in Block(o, k)
  <2>3. /\ k \in Int /\ o.size[k] \in Int /\ s.size[k] = o.size[k] /\ k + o.size[k] <= o.bump + 1
    BY <1>3, <1>5, <1>10, <1>12
  <2>4. u \in Int /\ k <= u /\ u < k + o.size[k]
    BY <2>3 DEF Block
  <2>5. ~ u > s.bump
    BY <1>1, <1>9, <2>3, <2>4
  <2>6. ASSUME NEW i \in DOMAIN list, u \in Block(s, list[i])
        PROVE  FALSE
    <3>. DEFINE r == list[i]
    <3>1. r \in R /\ r \in Int /\ s.size[r] \in Int /\ r # k
      BY <1>5, <1>12, <1>17
    <3>2. (r < k => r + s.size[r] <= k) /\ (k < r => k + s.size[k] <= r)
      BY <1>15, <3>1
    <3>. HIDE DEF r
    <3>3. r <= u /\ u < r + s.size[r]
      BY <2>4, <2>6, <3>1 DEF Block, r
    <3>4. QED
      BY <2>3, <2>4, <3>1, <3>2, <3>3
  <2>7. QED
    BY <1>9, <2>5, <2>6 DEF FreeUnits
<1>19. K \cap FreeUnits(s) = {}
  <2>1. \A k \in K : k \in Block(o, k)
    BY <1>3, <1>5 DEF Block
  <2>2. QED
    BY <1>18, <2>1
<1>20. TotalSize(o, K) \in Nat /\ TotalSize(o, K) + Cardinality(FreeUnits(s)) <= OldSize
  <2>1. \A k \in K : k + o.size[k] <= OldSize + 1
    <3>1. \A k \in K : k + o.size[k] <= o.bump + 1 /\ k \in Int /\ o.size[k] \in Int
      BY <1>3, <1>5, <1>10, <1>12
    <3>2. QED
      BY <1>1, <3>1
  <2>2. \A k, m \in K : k < m => k + o.size[k] <= m
    BY <1>4, <1>5
  <2>3. K \in SUBSET OldAddress /\ FreeUnits(s) \in SUBSET OldAddress
    BY <1>3, <1>5 DEF FreeUnits
  <2>4. \A k \in K : /\ k + o.size[k] <= OldSize + 1
                     /\ \A u \in Block(o, k) : u \notin FreeUnits(s)
    BY <1>18, <2>1
  <2>5. PICK F : F = FreeUnits(s)
    OBVIOUS
  <2>6. QED
    BY <2>2, <2>3, <2>4, <2>5, TotalSizeFits
<1>21. s \in OldGeneration
  <2>1. Cardinality(FreeUnits(s)) \in Nat
    <3>1. IsFiniteSet(1 .. OldSize)
      BY <1>1, FS_Interval
    <3>2. FreeUnits(s) \subseteq 1 .. OldSize
      BY DEF FreeUnits, OldAddress
    <3>3. QED
      BY <3>1, <3>2, FS_Subset, FS_CardinalityType
  <2>2. TotalSize(o, K) \in 0 .. OldSize
    BY <1>1, <1>20, <2>1
  <2>3. [a \in OldAddress |-> IF a \in K THEN o.size[a]
                              ELSE IF a \in R THEN end(a) - a ELSE 0]
          \in [OldAddress -> 0 .. OldSize]
    <3>1. \A a \in K : o.size[a] \in 0 .. OldSize
      BY <1>1, <1>3, <1>5
    <3>2. \A a \in R : end(a) - a \in 0 .. OldSize
      BY <1>1, <1>10, <1>12
    <3>3. 0 \in 0 .. OldSize
      BY <1>1
    <3>4. QED
      BY <3>1, <3>2, <3>3
  <2>4. R \in SUBSET OldAddress
    BY <1>3, <1>5
  <2>5. QED
    BY <1>7, <1>17, <2>2, <2>3, <2>4 DEF OldGeneration
<1>22. FreeIsSound(s)
  <2>1. \A a \in OldAddress : s.size[a] # 0 => a + s.size[a] <= s.bump + 1
    BY <1>9, <1>10, <1>12
  <2>2. \A i \in DOMAIN list : s.size[list[i]] # 0
    BY <1>12, <1>17
  <2>3. \A i, j \in DOMAIN list :
          i # j => \/ list[i] + s.size[list[i]] <= list[j]
                   \/ list[j] + s.size[list[j]] <= list[i]
    <3>1. \A i \in DOMAIN list : i \in Int
      BY <1>17
    <3>2. \A i, j \in DOMAIN list : i # j => i < j \/ j < i
      BY <3>1
    <3>3. \A i, j \in DOMAIN list : i < j => list[i] + s.size[list[i]] <= list[j]
      BY <1>8, <1>15, <1>17
    <3>4. QED
      BY <3>2, <3>3
  <2>4. QED
    BY <1>9, <1>20, <2>1, <2>2, <2>3 DEF FreeIsSound
<1>23. IsTiled(s)
  <2>1. R \subseteq Headers(s) /\ Headers(s) \ R = K
    BY <1>5, <1>11
  <2>2. TotalSize(s, K) = TotalSize(o, K)
    <3>1. {unit \in K \X (1 .. OldSize) : unit[2] <= s.size[unit[1]]}
            = {unit \in K \X (1 .. OldSize) : unit[2] <= o.size[unit[1]]}
      BY <1>10
    <3>2. QED
      BY <3>1 DEF TotalSize
  <2>3. QED
    BY <1>8, <1>9, <1>16, <2>1, <2>2 DEF IsTiled
<1>24. K \subseteq Headers(s) \ s.vacant
  BY <1>5, <1>9, <1>11
<1>25. QED
  BY <1>19, <1>21, <1>22, <1>23, <1>24 DEF s, K

(***************************************************************************)
(* What is taken from the old generation while it is tiled                 *)
(***************************************************************************)

\* One more block, of n units.
LEMMA TotalSizeAdds ==
  ASSUME NEW o \in OldGeneration, NEW r \in OldGeneration, NEW U \in SUBSET OldAddress,
         NEW a \in OldAddress, a \notin U, NEW n \in 1 .. OldSize, r.size[a] = n,
         \A u \in U : r.size[u] = o.size[u]
  PROVE  TotalSize(r, U \cup {a}) = TotalSize(o, U) + n
<1>. DEFINE Was == {unit \in U \X (1 .. OldSize) : unit[2] <= o.size[unit[1]]}
            Is == {unit \in (U \cup {a}) \X (1 .. OldSize) : unit[2] <= r.size[unit[1]]}
            New == {a} \X (1 .. n)
<1>1. OldSize \in Nat /\ n \in Int /\ 1 <= n /\ n <= OldSize
  BY SizeAssumption
<1>2. IsFiniteSet(1 .. OldSize) /\ IsFiniteSet(1 .. n) /\ Cardinality(1 .. n) = n
  <2>1. IsFiniteSet(1 .. OldSize)
    BY <1>1, FS_Interval
  <2>2. IsFiniteSet(1 .. n) /\ Cardinality(1 .. n) = IF 1 > n THEN 0 ELSE n - 1 + 1
    BY <1>1, FS_Interval
  <2>3. QED
    BY <1>1, <2>1, <2>2
<1>3. IsFiniteSet(New) /\ Cardinality(New) = n
  <2>1. IsFiniteSet({a}) /\ Cardinality({a}) = 1
    BY FS_Singleton
  <2>2. IsFiniteSet(New) /\ Cardinality(New) = 1 * n
    <3>1. PICK A, B : A = {a} /\ B = 1 .. n
      OBVIOUS
    <3>2. IsFiniteSet(A) /\ IsFiniteSet(B) /\ Cardinality(A) = 1 /\ Cardinality(B) = n
      BY <1>2, <2>1, <3>1
    <3>3. IsFiniteSet(A \X B) /\ Cardinality(A \X B) = Cardinality(A) * Cardinality(B)
      BY <3>2, FS_Product
    <3>4. QED
      BY <3>1, <3>2, <3>3
  <2>3. QED
    BY <1>1, <2>2
<1>4. IsFiniteSet(Was)
  <2>1. IsFiniteSet(U)
    <3>1. OldAddress = 1 .. OldSize
      BY DEF OldAddress
    <3>2. QED
      BY <1>2, <3>1, FS_Subset
  <2>2. IsFiniteSet(U \X (1 .. OldSize))
    BY <1>2, <2>1, FS_Product
  <2>3. Was \subseteq U \X (1 .. OldSize)
    OBVIOUS
  <2>. HIDE DEF Was
  <2>4. QED
    BY <2>2, <2>3, FS_Subset
<1>5. Is = Was \cup New
  <2>1. ASSUME NEW x, x \in Is
        PROVE  x \in Was \cup New
    <3>1. x = <<x[1], x[2]>> /\ x[1] \in U \cup {a} /\ x[2] \in 1 .. OldSize /\ x[2] <= r.size[x[1]]
      BY <2>1
    <3>2. QED
      BY <1>1, <3>1
  <2>2. ASSUME NEW x \in Was
        PROVE  x \in Is
    OBVIOUS
  <2>3. ASSUME NEW x \in New
        PROVE  x \in Is
    <3>1. x = <<x[1], x[2]>> /\ x[1] = a /\ x[2] \in 1 .. n
      OBVIOUS
    <3>2. x[2] \in 1 .. OldSize /\ x[2] <= n
      BY <1>1, <3>1
    <3>3. QED
      BY <3>1, <3>2
  <2>. HIDE DEF Is, Was, New
  <2>4. QED
    BY <2>1, <2>2, <2>3
<1>6. Was \cap New = {}
  OBVIOUS
<1>7. Cardinality(Is) = Cardinality(Was) + n
  <2>. HIDE DEF Is, Was, New
  <2>1. Cardinality(Was \cup New) = Cardinality(Was) + Cardinality(New) - Cardinality({})
    BY <1>3, <1>4, <1>6, FS_Union
  <2>2. Cardinality(Was) \in Nat /\ Cardinality({}) = 0
    BY <1>4, FS_CardinalityType, FS_EmptySet
  <2>3. QED
    BY <1>1, <1>3, <1>5, <2>1, <2>2
<1>8. QED
  BY <1>7 DEF TotalSize

\* What old_alloc and the header its caller writes make of the old generation:
\* it stays tiled, with one block more in use.
LEMMA TakenFacts ==
  ASSUME NEW o \in OldGeneration, FreeIsSound(o), NEW n \in Nat \ {0},
         Place(o, n) # Null
  PROVE  LET a == Place(o, n)
             r == Headed(Reserved(o, n), a, n)
         IN  /\ r \in OldGeneration /\ FreeIsSound(r)
             /\ a \in OldAddress /\ a \in FreeUnits(o)
             /\ a \notin FreeUnits(r) /\ FreeUnits(r) \subseteq FreeUnits(o)
             /\ IsTiled(o) =>
                  /\ IsTiled(r)
                  /\ (Headers(o) \ o.vacant) \cup {a} \subseteq Headers(r) \ r.vacant
<1>. DEFINE a == Place(o, n)
            q == Reserved(o, n)
            r == Headed(q, a, n)
            z == o.size[a]
            i == Min(Fitting(o, n))
<1>1. /\ o.free \in Seq(OldAddress) /\ o.size \in [OldAddress -> 0 .. OldSize]
      /\ o.bump \in 0 .. OldSize /\ OldSize \in Nat /\ o.used \in 0 .. OldSize
      /\ o.vacant \in SUBSET OldAddress
  BY SizeAssumption DEF OldGeneration
<1>2. /\ a \in OldAddress /\ a .. (a + n - 1) \subseteq FreeUnits(o) /\ a \in Int
  BY PlaceFacts DEF OldAddress
<1>3. /\ q \in OldGeneration /\ FreeIsSound(q)
      /\ FreeUnits(q) = FreeUnits(o) \ (a .. (a + n - 1))
      /\ a + n <= q.bump + 1 /\ q.used = o.used + n
  BY ReservedFacts
<1>. HIDE DEF a, q
<1>4. n \in 1 .. OldSize /\ a \in a .. (a + n - 1)
  <2>1. q.bump \in 0 .. OldSize /\ 1 <= a
    BY <1>2, <1>3 DEF OldGeneration, OldAddress
  <2>2. QED
    BY <1>1, <1>2, <1>3, <2>1
<1>5. a \in FreeUnits(o) /\ a \notin FreeUnits(q) /\ FreeUnits(q) \subseteq FreeUnits(o)
  BY <1>2, <1>3, <1>4
<1>6. r \in OldGeneration /\ FreeIsSound(r) /\ FreeUnits(r) = FreeUnits(q)
  BY <1>2, <1>3, <1>4, <1>5, HeadedFacts
<1>7. /\ r = [q EXCEPT !.size = [q.size EXCEPT ![a] = n], !.vacant = q.vacant \ {a}]
  BY <1>3 DEF Headed, OldGeneration
<1>. HIDE DEF r
<1>8. /\ r.size = [q.size EXCEPT ![a] = n] /\ r.vacant = q.vacant \ {a}
      /\ r.free = q.free /\ r.bump = q.bump /\ r.used = o.used + n
  BY <1>3, <1>7 DEF OldGeneration
<1>. DEFINE V == o.vacant
            U == Headers(o) \ V
\* It is enough that one block more is in use.
<1>9. SUFFICES ASSUME IsTiled(o)
               PROVE  /\ EndToEnd(r) /\ r.vacant \subseteq Headers(r) /\ ToSet(r.free) = r.vacant
                      /\ Headers(r) \ r.vacant = U \cup {a}
                      /\ a \notin U
                      /\ \A u \in U : r.size[u] = o.size[u]
  <2>1. ASSUME IsTiled(o)
        PROVE  IsTiled(r) /\ U \cup {a} \subseteq Headers(r) \ r.vacant
    <3>1. /\ EndToEnd(r) /\ r.vacant \subseteq Headers(r) /\ ToSet(r.free) = r.vacant
          /\ Headers(r) \ r.vacant = U \cup {a} /\ a \notin U
          /\ \A u \in U : r.size[u] = o.size[u]
      BY <1>9, <2>1
    <3>2. r.size[a] = n
      BY <1>2, <1>3, <1>8 DEF OldGeneration
    <3>3. U \in SUBSET OldAddress
      BY DEF Headers
    <3>. HIDE DEF U
    <3>4. TotalSize(r, U \cup {a}) = TotalSize(o, U) + n
      BY <1>2, <1>4, <1>6, <3>1, <3>2, <3>3, TotalSizeAdds
    <3>5. o.used = TotalSize(o, U)
      BY <2>1 DEF IsTiled, U
    <3>6. r.used = TotalSize(r, Headers(r) \ r.vacant)
      BY <1>8, <3>1, <3>4, <3>5
    <3>7. QED
      BY <3>1, <3>6 DEF IsTiled
  <2>2. QED
    BY <1>2, <1>5, <1>6, <2>1 DEF a, q, r
<1>. DEFINE H == Headers(o)
<1>10. /\ o.bump # 0 => 1 \in H
       /\ \A x \in H : x + o.size[x] \in H \cup {o.bump + 1}
       /\ \A x, y \in H : x < y => x + o.size[x] <= y
       /\ V \subseteq H /\ ToSet(o.free) = V
  BY <1>9 DEF IsTiled, EndToEnd
<1>11. /\ \A x : x \in H <=> x \in OldAddress /\ o.size[x] # 0
       /\ \A x \in H : x \in Int /\ 1 <= x /\ o.size[x] \in 1 .. OldSize
       /\ \A x \in H : x + o.size[x] <= o.bump + 1
  <2>1. \A x : x \in H <=> x \in OldAddress /\ o.size[x] # 0
    BY DEF Headers
  <2>2. \A x \in H : x \in Int /\ 1 <= x /\ o.size[x] \in 1 .. OldSize
    BY <1>1, <2>1 DEF OldAddress
  <2>3. QED
    BY <2>1, <2>2 DEF FreeIsSound
<1>. HIDE DEF H, V
<1>12. U = H \ V
  BY DEF H
<1>. HIDE DEF U
<1>13. \A x : x \in Headers(r) <=> x \in OldAddress /\ r.size[x] # 0
  BY DEF Headers
<1>14. CASE Fitting(o, n) = {}
  <2>1. a = o.bump + 1 /\ o.bump + n <= OldSize
    BY <1>14, PlaceFacts DEF a
  <2>2. q.size = o.size /\ q.free = o.free /\ q.vacant = V /\ q.bump = o.bump + n
    BY <1>14 DEF q, V, Reserved, OldGeneration
  <2>3. a \notin H
    BY <1>1, <1>11, <2>1
  <2>4. \A x \in OldAddress : r.size[x] = IF x = a THEN n ELSE o.size[x]
    BY <1>1, <1>8, <2>2
  <2>5. Headers(r) = H \cup {a}
    BY <1>2, <1>4, <1>11, <1>13, <2>4
  <2>6. r.vacant = V /\ r.free = o.free /\ r.bump = o.bump + n
    BY <1>8, <1>10, <2>2, <2>3
  <2>7. \A x \in H : r.size[x] = o.size[x]
    BY <1>11, <2>3, <2>4
  <2>8. r.size[a] = n
    BY <1>2, <2>4
  <2>9. r.bump # 0 => 1 \in H \cup {a}
    BY <1>1, <1>10, <2>1
  <2>10. \A x \in H \cup {a} : x + r.size[x] \in H \cup {a} \cup {r.bump + 1}
    <3>1. a + n = r.bump + 1
      BY <1>1, <1>4, <2>1, <2>6
    <3>2. QED
      BY <1>10, <2>1, <2>7, <2>8, <3>1
  <2>11. \A x, y \in H \cup {a} : x < y => x + r.size[x] <= y
    BY <1>1, <1>10, <1>11, <2>1, <2>7
  <2>12. EndToEnd(r)
    BY <2>5, <2>9, <2>10, <2>11 DEF EndToEnd
  <2>13. QED
    BY <1>10, <1>12, <2>3, <2>5, <2>6, <2>7, <2>12
<1>15. CASE Fitting(o, n) # {}
  <2>1. /\ i \in DOMAIN o.free /\ a = o.free[i] /\ z >= n /\ z \in 1 .. OldSize
        /\ a + z <= o.bump + 1
    BY <1>15, PlaceFacts DEF a
  <2>. HIDE DEF i
  <2>2. a \in V /\ a \in H
    BY <1>10, <2>1 DEF ToSet
  <2>. DEFINE list == SwapRemove(o.free, i)
\* The list without the entry.
  <2>3. ToSet(list) = V \ {a} /\ list \in Seq(OldAddress)
    <3>. HIDE DEF list
    <3>1. PICK s : s = o.free
      OBVIOUS
    <3>2. s \in Seq(OldAddress) /\ i \in DOMAIN s /\ list = SwapRemove(s, i)
      BY <1>1, <2>1, <3>1 DEF list
    <3>3. \A j \in DOMAIN list : \E k \in DOMAIN s : k # i /\ list[j] = s[k]
      BY <3>2, SwapKeepsOthers
    <3>4. \A k \in DOMAIN s : k # i => \E j \in DOMAIN list : list[j] = s[k]
      BY <3>2, SwapKeepsOthers
    <3>5. \A k \in DOMAIN s : k # i => s[k] # a
      <4>1. TAKE k \in DOMAIN s
      <4>2. HAVE k # i
      <4>3. \/ s[k] + o.size[s[k]] <= a
            \/ a + z <= s[k]
        BY <2>1, <3>1, <4>2 DEF FreeIsSound
      <4>4. s[k] \in H
        BY <1>10, <3>1 DEF ToSet
      <4>5. QED
        BY <1>2, <1>11, <2>1, <4>3, <4>4
    <3>6. \A k \in DOMAIN s : s[k] \in V
      BY <1>10, <3>1 DEF ToSet
    <3>7. \A v \in V : \E k \in DOMAIN s : s[k] = v
      BY <1>10, <3>1 DEF ToSet
    <3>8. \A x : x \in ToSet(list) <=> \E j \in DOMAIN list : list[j] = x
      BY DEF ToSet
    <3>9. \A x : x \in ToSet(list) <=> x \in V \ {a}
      BY <2>1, <3>1, <3>3, <3>4, <3>5, <3>6, <3>7, <3>8
    <3>10. list \in Seq(OldAddress)
      BY <3>2, SwapKeepsOthers
    <3>11. QED
      BY <3>9, <3>10
  <2>. HIDE DEF list, z
  <2>4. CASE z = n
    <3>1. q.size = o.size /\ q.free = list /\ q.vacant = V /\ q.bump = o.bump
      <4>1. z - n = 0
        BY <1>4, <2>4
      <4>2. q = [o EXCEPT !.used = o.used + n, !.free = list]
        BY <1>15, <4>1 DEF q, Reserved, OldGeneration, list, i, z, a
      <4>3. QED
        BY <4>2 DEF OldGeneration, V
    <3>2. \A x \in OldAddress : r.size[x] = o.size[x]
      BY <1>1, <1>8, <2>4, <3>1 DEF z
    <3>3. Headers(r) = H
      BY <1>11, <1>13, <3>2
    <3>4. r.vacant = V \ {a} /\ r.free = list /\ r.bump = o.bump
      BY <1>8, <3>1
    <3>5. \A x \in H : r.size[x] = o.size[x]
      BY <1>11, <3>2
    <3>6. EndToEnd(r)
      BY <1>10, <3>3, <3>4, <3>5 DEF EndToEnd
    <3>7. QED
      BY <1>10, <1>12, <2>2, <2>3, <3>3, <3>4, <3>5, <3>6
  <2>5. CASE z # n
    <3>. DEFINE b == a + n
    <3>1. /\ z - n \in 1 .. OldSize /\ b \in OldAddress /\ b + (z - n) = a + z /\ a < b /\ b < a + z
          /\ b \in Int
      <4>1. \A w, y, t \in Int : /\ 1 <= w /\ 1 <= n /\ n <= y /\ y # n /\ y <= OldSize
                                 /\ w + y <= t + 1 /\ t <= OldSize
               => /\ y - n \in 1 .. OldSize /\ w + n \in 1 .. OldSize /\ w + n + (y - n) = w + y
                  /\ w < w + n /\ w + n < w + y
        BY <1>1, <1>4
      <4>2. a \in Int /\ z \in Int /\ o.bump \in Int /\ 1 <= a /\ z <= OldSize /\ o.bump <= OldSize
            /\ 1 <= n
        BY <1>1, <1>2, <1>4, <2>1 DEF OldAddress
      <4>3. QED
        BY <1>2, <1>4, <2>1, <2>5, <4>1, <4>2 DEF OldAddress
    <3>. HIDE DEF b
    <3>2. /\ q.size = [o.size EXCEPT ![b] = z - n] /\ q.free = Append(list, b)
          /\ q.vacant = V \cup {b} /\ q.bump = o.bump
      <4>1. ~ z - n = 0
        BY <3>1
      <4>2. q = [o EXCEPT !.used = o.used + n, !.free = Append(list, b),
                          !.size = [o.size EXCEPT ![b] = z - n], !.vacant = o.vacant \cup {b}]
        BY <1>15, <4>1 DEF q, Reserved, OldGeneration, list, i, z, a, b
      <4>3. QED
        BY <4>2 DEF OldGeneration, V
    <3>3. b \notin H
      BY <1>2, <1>10, <1>11, <2>2, <3>1 DEF z
    <3>4. \A x \in OldAddress :
            r.size[x] = IF x = a THEN n ELSE IF x = b THEN z - n ELSE o.size[x]
      BY <1>1, <1>8, <3>1, <3>2
    <3>5. r.size[a] = n /\ r.size[b] = z - n /\ \A x \in H : x # a => r.size[x] = o.size[x]
      BY <1>2, <1>11, <3>1, <3>3, <3>4
    <3>6. Headers(r) = H \cup {b}
      <4>1. n # 0 /\ z - n # 0
        BY <1>4, <3>1
      <4>2. \A x \in OldAddress : r.size[x] # 0 <=> x = a \/ x = b \/ o.size[x] # 0
        BY <3>4, <4>1
      <4>3. \A x : x \in Headers(r) <=> x \in H \cup {b}
        BY <1>11, <1>13, <2>2, <3>1, <4>2
      <4>4. QED
        BY <4>3
    <3>7. r.vacant = (V \ {a}) \cup {b} /\ r.bump = o.bump
      BY <1>8, <3>1, <3>2
    <3>8. ToSet(r.free) = r.vacant
      <4>1. r.free = Append(list, b)
        BY <1>8, <3>2
      <4>2. ToSet(Append(list, b)) = ToSet(list) \cup {b}
        <5>1. /\ Len(list) \in Nat /\ DOMAIN list = 1 .. Len(list)
              /\ DOMAIN Append(list, b) = 1 .. (Len(list) + 1)
              /\ \A j \in 1 .. Len(list) : Append(list, b)[j] = list[j]
              /\ Append(list, b)[Len(list) + 1] = b
          BY <2>3, <3>1
        <5>2. \A j \in 1 .. (Len(list) + 1) : j \in 1 .. Len(list) \/ j = Len(list) + 1
          BY <5>1
        <5>3. 1 .. Len(list) \subseteq 1 .. (Len(list) + 1) /\ Len(list) + 1 \in 1 .. (Len(list) + 1)
          BY <5>1
        <5>4. QED
          BY <5>1, <5>2, <5>3 DEF ToSet
      <4>3. QED
        BY <2>3, <3>7, <4>1, <4>2
    <3>9. r.bump # 0 => 1 \in H \cup {b}
      BY <1>10, <3>7
    <3>10. \A x \in H \cup {b} : x + r.size[x] \in H \cup {b} \cup {r.bump + 1}
      <4>1. a + r.size[a] = b
        BY <3>5 DEF b
      <4>2. b + r.size[b] \in H \cup {o.bump + 1}
        BY <1>10, <2>2, <3>1, <3>5 DEF z
      <4>3. QED
        BY <1>10, <3>5, <3>7, <4>1, <4>2
    <3>11. \A x, y \in H \cup {b} : x < y => x + r.size[x] <= y
      <4>1. a + r.size[a] = b /\ b + r.size[b] = a + z
        BY <3>1, <3>5 DEF b
      <4>2. \A y \in H : a < y => a + z <= y
        BY <1>10, <2>2 DEF z
      <4>3. \A x \in H : x < a => x + o.size[x] <= a
        BY <1>10, <2>2
      <4>4. TAKE x, y \in H \cup {b}
      <4>5. HAVE x < y
      <4>6. x \in Int /\ y \in Int /\ a \in Int /\ b \in Int /\ z \in Int
        BY <1>2, <1>11, <2>1, <3>1
      <4>7. CASE x = b /\ y \in H
        <5>1. a < y
          BY <3>1, <4>5, <4>6, <4>7
        <5>2. QED
          BY <4>1, <4>2, <4>7, <5>1
      <4>8. CASE x = a
        <5>1. y = b \/ (y \in H /\ a < y)
          BY <4>5, <4>8
        <5>2. QED
          BY <3>1, <4>1, <4>2, <4>6, <4>8, <5>1
      <4>9. CASE x \in H /\ x # a /\ y \in H
        BY <1>10, <3>5, <4>5, <4>9
      <4>10. CASE x \in H /\ x # a /\ y = b
        <5>1. x < a \/ a < x
          BY <4>6, <4>10
        <5>2. a < x => a + z <= x
          BY <4>2, <4>10
        <5>3. x < a
          BY <3>1, <4>5, <4>6, <4>10, <5>1, <5>2
        <5>4. x + r.size[x] <= a
          BY <3>5, <4>3, <4>10, <5>3
        <5>5. x + r.size[x] \in Int
          BY <1>11, <3>5, <4>6, <4>10
        <5>6. QED
          BY <3>1, <4>6, <4>10, <5>4, <5>5
      <4>11. QED
        BY <4>5, <4>6, <4>7, <4>8, <4>9, <4>10
    <3>12. EndToEnd(r)
      BY <3>6, <3>9, <3>10, <3>11 DEF EndToEnd
    <3>13. /\ r.vacant \subseteq Headers(r) /\ Headers(r) \ r.vacant = U \cup {a} /\ a \notin U
           /\ \A u \in U : r.size[u] = o.size[u]
      BY <1>10, <1>12, <2>2, <3>1, <3>3, <3>5, <3>6, <3>7
    <3>14. QED
      BY <3>8, <3>12, <3>13
  <2>6. QED
    BY <2>4, <2>5
<1>16. QED
  BY <1>14, <1>15

(***************************************************************************)
(* The invariant                                                           *)
(***************************************************************************)

\* An old object that leads into the nursery is on a list, whether the program
\* can reach it or not.
EdgesAreListed == \A x \in OldAddress : SlotsToDo(x) = {} \/ x \in Listed

\* What holds at each stage of a collection.
StagesAgree ==
  /\ pc \notin {"roots", "fields", "full"} => worklist = <<>> /\ forward = [a \in Obj |-> Null]
  /\ pc = "fields" => StackToDo = {} /\ GlobalsToDo = {}
  /\ pc = "old" => remembered = <<>> /\ youngFree = OldSize + 1

Bookkeeping == TypeOK /\ FreeIsSound(old) /\ EdgesAreListed /\ StagesAgree

\* Where objects may be: in what has been handed out.
HandedOut == (OldAddress \ FreeUnits(old)) \cup (OldSize + 1) .. (youngFree - 1)

\* No root, no list and no object leads out of there, and memory that may be
\* handed out holds no reference.
HeapIsClosed ==
  /\ RootRefs \subseteq HandedOut
  /\ Listed \subseteq HandedOut
  /\ \A x \in HandedOut : Children(refs, x) \subseteq HandedOut

FreeIsBlank == \A x \in FreeUnits(old) : refs[x] = Blank

\* Where the object at x is once it has been promoted.
Final(fwd, x) == IF x = Null THEN Null ELSE IF fwd[x] = Null THEN x ELSE fwd[x]

\* What promotion has copied is the same object, up to promotion.
CopiesAgree ==
  \A h \in Obj : forward[h] # Null =>
    /\ h \in (OldSize + 1) .. (youngFree - 1)
    /\ forward[h] \in OldAddress \ FreeUnits(old)
    /\ stamp[forward[h]] = stamp[h]
    /\ \A i \in Slot : Final(forward, refs[forward[h]][i]) = Final(forward, refs[h][i])

\* The heap is the model's graph, up to promotion.
FaithfulInTheEnd ==
  /\ PathsAgree
  /\ \A h, k \in LiveAddresses : stamp[h] = stamp[k] => Final(forward, h) = Final(forward, k)

GraphHolds ==
  /\ FreeIsBlank
  /\ ~ Stopped => HeapIsClosed /\ CopiesAgree /\ FaithfulInTheEnd

\* While no reservation has been forgotten the program's objects, and those it
\* will have, are among the headers that are not vacant.
ObjectsAreUsed ==
  /\ LiveAddresses \cap OldAddress \subseteq Headers(old) \ old.vacant
  /\ \A h \in Obj : forward[h] # Null => forward[h] \in Headers(old) \ old.vacant

OldIsTiled ==
  /\ ~ wasted => IsTiled(old) /\ (~ Stopped => ObjectsAreUsed)
  /\ OnlyReservationsCorrupt

IInv == Bookkeeping /\ GraphHolds /\ OldIsTiled

(***************************************************************************)
(* What follows in every state                                             *)
(***************************************************************************)

\* The addresses of the two generations.
LEMMA Addresses ==
  ASSUME TypeOK
  PROVE  /\ OldSize \in Nat /\ 1 <= OldSize /\ nurserySize \in Nat /\ 1 <= nurserySize
         /\ OldAddress \subseteq Obj /\ Young \subseteq Obj
         /\ \A x : x \in OldAddress <=> x \in Int /\ 1 <= x /\ x <= OldSize
         /\ \A x : x \in Young <=> x \in Int /\ OldSize < x /\ x <= OldSize + nurserySize
         /\ \A x \in OldAddress : x # Null /\ ~ IsYoung(x)
         /\ \A x \in Young : x # Null /\ IsYoung(x)
         /\ youngFree \in Int /\ OldSize + 1 <= youngFree /\ youngFree <= OldSize + nurserySize + 1
         /\ old \in OldGeneration
<1>1. /\ OldSize \in Nat /\ 1 <= OldSize /\ nurserySize \in Nat /\ 1 <= nurserySize
      /\ 1 .. OldSize + nurserySize \subseteq Obj
  BY SizeAssumption DEF TypeOK
<1>2. /\ \A x : x \in OldAddress <=> x \in Int /\ 1 <= x /\ x <= OldSize
      /\ \A x : x \in Young <=> x \in Int /\ OldSize < x /\ x <= OldSize + nurserySize
  BY <1>1 DEF OldAddress, Young
<1>3. \A x \in OldAddress \cup Young : x \in 1 .. OldSize + nurserySize
  BY <1>1, <1>2
<1>4. OldAddress \subseteq Obj /\ Young \subseteq Obj
  BY <1>1, <1>3
<1>5. \A x \in OldAddress : x # Null /\ ~ IsYoung(x)
  BY <1>1, <1>2, <1>4, NullAssumption DEF IsYoung
<1>6. \A x \in Young : x # Null /\ IsYoung(x)
  BY <1>4, NullAssumption DEF IsYoung
<1>7. youngFree \in Int /\ OldSize + 1 <= youngFree /\ youngFree <= OldSize + nurserySize + 1
  BY <1>1 DEF TypeOK
<1>8. old \in OldGeneration
  BY DEF TypeOK, OldTypeOK, OldGeneration
<1>9. QED
  BY <1>1, <1>2, <1>4, <1>5, <1>6, <1>7, <1>8

\* What has been handed out, and what has not.
LEMMA HandedOutFacts ==
  ASSUME TypeOK
  PROVE  /\ HandedOut \subseteq Obj
         /\ \A x : x \in HandedOut <=> \/ x \in OldAddress /\ x \notin FreeUnits(old)
                                       \/ x \in Young /\ x < youngFree
         /\ FreeUnits(old) \subseteq OldAddress
         /\ FreeUnits(old) \cap HandedOut = {}
         /\ youngFree \notin HandedOut
<1>1. \A x : x \in HandedOut <=> \/ x \in OldAddress /\ x \notin FreeUnits(old)
                                 \/ x \in (OldSize + 1) .. (youngFree - 1)
  BY DEF HandedOut
<1>2. \A x : x \in (OldSize + 1) .. (youngFree - 1) <=> x \in Young /\ x < youngFree
  BY Addresses
<1>3. FreeUnits(old) \subseteq OldAddress
  BY DEF FreeUnits
<1>4. \A x \in Young : x \notin OldAddress
  BY Addresses
<1>5. ~ youngFree < youngFree /\ youngFree \notin OldAddress
  BY Addresses
<1>6. QED
  BY <1>1, <1>2, <1>3, <1>4, <1>5, Addresses

\* The program reaches nothing else.
LEMMA LiveHandedOut ==
  ASSUME TypeOK, HeapIsClosed
  PROVE  LiveAddresses \subseteq HandedOut
<1>1. LockstepTypeOK /\ HandedOut \in SUBSET Obj
  BY HandedOutFacts DEF TypeOK
<1>2. PICK S : S = HandedOut
  OBVIOUS
<1>3. RootRefs \subseteq S /\ \A x \in S : Children(refs, x) \subseteq S
  BY <1>2 DEF HeapIsClosed
<1>4. LiveAddresses \subseteq S
  BY <1>1, <1>2, <1>3, Lives
<1>5. QED
  BY <1>2, <1>4

\* Between collections nothing is forwarded, and the heap is the model's graph.
LEMMA WholeHeap ==
  ASSUME Bookkeeping, GraphHolds, pc \in {"run", "old", "take", "large"}
  PROVE  /\ Faithful /\ HeapIsClosed
         /\ worklist = <<>> /\ \A x \in Obj : forward[x] = Null
         /\ LiveAddresses \subseteq HandedOut
<1>1. worklist = <<>> /\ forward = [a \in Obj |-> Null]
  BY DEF Bookkeeping, StagesAgree
<1>2. HeapIsClosed /\ FaithfulInTheEnd /\ LockstepTypeOK /\ TypeOK
  BY DEF GraphHolds, Stopped, Bookkeeping, TypeOK
<1>3. LiveAddresses \subseteq HandedOut
  BY <1>2, LiveHandedOut
<1>4. \A x \in LiveAddresses : Final(forward, x) = x
  <2>1. LiveAddresses \subseteq Obj
    BY <1>2, Lives
  <2>2. QED
    BY <1>1, <2>1, NullAssumption DEF Final
<1>5. QED
  BY <1>1, <1>2, <1>3, <1>4 DEF Faithful, FaithfulInTheEnd

\* And the other way round.
LEMMA WholeHeapHolds ==
  ASSUME TypeOK', Faithful', HeapIsClosed', FreeIsBlank', \A x \in Obj : forward'[x] = Null
  PROVE  GraphHolds'
<1>1. CopiesAgree'
  BY DEF CopiesAgree
<1>2. FaithfulInTheEnd'
  <2>1. PathsAgree' /\ \A h, k \in LiveAddresses' : stamp'[h] = stamp'[k] => h = k
    BY DEF Faithful
  <2>2. QED
    BY <2>1 DEF FaithfulInTheEnd
<1>3. QED
  BY <1>1, <1>2 DEF GraphHolds

(***************************************************************************)
(* Steps that change neither heap nor lists                                *)
(***************************************************************************)

QuietVars == <<lockstepVars, old, young, forward, remembered, worklist>>

\* The parts of the invariant that such a step leaves as they are.
LEMMA QuietFacts ==
  ASSUME UNCHANGED QuietVars
  PROVE  /\ LockstepTypeOK' <=> LockstepTypeOK
         /\ OldTypeOK' <=> OldTypeOK
         /\ EdgesAreListed' <=> EdgesAreListed
         /\ FreeIsBlank' <=> FreeIsBlank
         /\ HeapIsClosed' <=> HeapIsClosed
         /\ CopiesAgree' <=> CopiesAgree
         /\ FaithfulInTheEnd' <=> FaithfulInTheEnd
         /\ ObjectsAreUsed' <=> ObjectsAreUsed
         /\ StackToDo' = StackToDo /\ GlobalsToDo' = GlobalsToDo
         /\ old' = old
<1>1. /\ UNCHANGED lockstepVars
      /\ old' = old /\ youngFree' = youngFree /\ nurserySize' = nurserySize
      /\ forward' = forward /\ remembered' = remembered /\ worklist' = worklist
  BY DEF QuietVars, young
<1>2. stack' = stack /\ globals' = globals /\ refs' = refs /\ stamp' = stamp
  BY <1>1 DEF lockstepVars
<1>3. /\ LockstepTypeOK' <=> LockstepTypeOK
      /\ PathsAgree' <=> PathsAgree
      /\ LiveAddresses' = LiveAddresses /\ RootRefs' = RootRefs
  BY <1>1, SameHeap
<1>4. Young' = Young /\ \A x : IsYoung(x)' <=> IsYoung(x)
  BY <1>1 DEF Young, IsYoung
<1>5. \A x : SlotsToDo(x)' = SlotsToDo(x)
  BY <1>2, <1>4 DEF SlotsToDo
<1>6. StackToDo' = StackToDo /\ GlobalsToDo' = GlobalsToDo
  BY <1>2, <1>4 DEF StackToDo, GlobalsToDo
<1>7. Listed' = Listed /\ HandedOut' = HandedOut
  BY <1>1 DEF Listed, HandedOut
<1>8. EdgesAreListed' <=> EdgesAreListed
  BY <1>5, <1>7 DEF EdgesAreListed
<1>9. OldTypeOK' <=> OldTypeOK
  BY <1>1 DEF OldTypeOK
<1>10. FreeIsBlank' <=> FreeIsBlank
  BY <1>1, <1>2 DEF FreeIsBlank
<1>11. HeapIsClosed' <=> HeapIsClosed
  BY <1>2, <1>3, <1>7 DEF HeapIsClosed
<1>12. CopiesAgree' <=> CopiesAgree
  BY <1>1, <1>2 DEF CopiesAgree
<1>13. FaithfulInTheEnd' <=> FaithfulInTheEnd
  BY <1>1, <1>2, <1>3 DEF FaithfulInTheEnd
<1>14. ObjectsAreUsed' <=> ObjectsAreUsed
  BY <1>1, <1>3 DEF ObjectsAreUsed
<1>15. QED
  BY <1>1, <1>3, <1>6, <1>8, <1>9, <1>10, <1>11, <1>12, <1>13, <1>14

\* Such a step keeps the invariant, if what it does to the control agrees.
LEMMA QuietStep ==
  ASSUME IInv, UNCHANGED QuietVars, ~ Stopped,
         pc' \in {"run", "roots", "fields", "old", "take", "large", "lost", "full", "broken"},
         then' \in {"run", "take", "large"}, major' \in BOOLEAN, wasted' \in BOOLEAN,
         StagesAgree', wasted => wasted', OnlyReservationsCorrupt'
  PROVE  IInv'
<1>1. /\ TypeOK /\ FreeIsSound(old) /\ EdgesAreListed
      /\ FreeIsBlank /\ HeapIsClosed /\ CopiesAgree /\ FaithfulInTheEnd
      /\ ~ wasted => IsTiled(old) /\ ObjectsAreUsed
  BY DEF IInv, Bookkeeping, GraphHolds, OldIsTiled
<1>2. TypeOK'
  <2>1. nurserySize' = nurserySize /\ youngFree' = youngFree /\ forward' = forward
        /\ remembered' = remembered /\ worklist' = worklist
    BY DEF QuietVars, young
  <2>2. LockstepTypeOK' /\ OldTypeOK'
    BY <1>1, QuietFacts DEF TypeOK
  <2>3. QED
    BY <1>1, <2>1, <2>2 DEF TypeOK
<1>3. Bookkeeping'
  BY <1>1, <1>2, QuietFacts DEF Bookkeeping
<1>4. GraphHolds'
  BY <1>1, QuietFacts DEF GraphHolds
<1>5. OldIsTiled'
  BY <1>1, QuietFacts DEF OldIsTiled
<1>6. QED
  BY <1>3, <1>4, <1>5 DEF IInv

\* A collection begins.
LEMMA BeginIInv ==
  ASSUME IInv, Running, NEW isMajor \in BOOLEAN, NEW return \in {"run", "take", "large"},
         Begin(isMajor, return)
  PROVE  IInv'
<1>1. /\ UNCHANGED QuietVars /\ pc' = "roots" /\ major' = isMajor /\ then' = return
      /\ wasted' = wasted /\ ~ Stopped /\ wasted \in BOOLEAN
  BY DEF Begin, QuietVars, Running, Stopped, IInv, Bookkeeping, TypeOK
<1>2. StagesAgree'
  BY <1>1 DEF StagesAgree
<1>3. OnlyReservationsCorrupt'
  BY <1>1 DEF OnlyReservationsCorrupt
<1>4. QED
  BY <1>1, <1>2, <1>3, QuietStep

\* The roots are done.
LEMMA RootsDoneIInv ==
  ASSUME IInv, RootsDone
  PROVE  IInv'
<1>1. /\ UNCHANGED QuietVars /\ pc = "roots" /\ pc' = "fields" /\ major' = major /\ then' = then
      /\ wasted' = wasted /\ ~ Stopped /\ wasted \in BOOLEAN /\ major \in BOOLEAN
      /\ then \in {"run", "take", "large"} /\ StackToDo = {} /\ GlobalsToDo = {}
  BY DEF RootsDone, QuietVars, Stopped, IInv, Bookkeeping, TypeOK
<1>2. StagesAgree'
  BY <1>1, QuietFacts DEF StagesAgree
<1>3. OnlyReservationsCorrupt'
  BY <1>1 DEF OnlyReservationsCorrupt
<1>4. QED
  BY <1>1, <1>2, <1>3, QuietStep

\* There is no room for a large object.
LEMMA LargeFailsIInv ==
  ASSUME IInv, LargeFails
  PROVE  IInv'
<1>1. /\ UNCHANGED QuietVars /\ pc = "large" /\ pc' = "run" /\ major' = major /\ then' = then
      /\ wasted' = wasted /\ ~ Stopped /\ wasted \in BOOLEAN /\ major \in BOOLEAN
      /\ then \in {"run", "take", "large"}
      /\ worklist' = worklist /\ forward' = forward
  BY DEF LargeFails, QuietVars, Stopped, IInv, Bookkeeping, TypeOK
<1>2. StagesAgree'
  BY <1>1 DEF StagesAgree, IInv, Bookkeeping
<1>3. OnlyReservationsCorrupt'
  BY <1>1 DEF OnlyReservationsCorrupt
<1>4. QED
  BY <1>1, <1>2, <1>3, QuietStep

\* The collector stops.
LEMMA PanicIInv ==
  ASSUME IInv, ~ Stopped,
         \/ Panic("full")
         \/ Panic("broken") /\ pc = "old" /\ wasted
  PROVE  IInv'
<1>1. /\ UNCHANGED QuietVars /\ major' = major /\ then' = then
      /\ wasted' = wasted /\ wasted \in BOOLEAN /\ major \in BOOLEAN
      /\ then \in {"run", "take", "large"} /\ pc' \in {"full", "broken"}
      /\ pc' = "broken" => pc = "old" /\ wasted
      /\ worklist' = worklist /\ forward' = forward
  BY DEF Panic, QuietVars, IInv, Bookkeeping, TypeOK
<1>2. StagesAgree'
  BY <1>1 DEF StagesAgree, IInv, Bookkeeping
<1>3. OnlyReservationsCorrupt'
  BY <1>1 DEF OnlyReservationsCorrupt
<1>4. QED
  BY <1>1, <1>2, <1>3, QuietStep

(***************************************************************************)
(* The program's steps                                                     *)
(***************************************************************************)

\* What it takes for an operation of the program to keep the invariant.
LEMMA IdleStep ==
  ASSUME IInv, pc \in {"run", "take", "large"}, pc' = "run",
         TypeOK', FreeIsSound(old'), EdgesAreListed', Faithful',
         forward' = forward, worklist' = worklist, wasted' = wasted,
         Listed' \subseteq HandedOut', LiveAddresses' \subseteq HandedOut',
         \A x \in HandedOut' : Children(refs', x) \subseteq HandedOut',
         \A x \in FreeUnits(old') : x \in FreeUnits(old) /\ refs'[x] = refs[x],
         ~ wasted => /\ IsTiled(old')
                     /\ LiveAddresses' \cap OldAddress \subseteq Headers(old') \ old'.vacant
  PROVE  IInv'
<1>1. /\ worklist = <<>> /\ forward = [a \in Obj |-> Null] /\ FreeIsBlank
      /\ \A x \in Obj : forward[x] = Null
  BY DEF IInv, Bookkeeping, StagesAgree, GraphHolds
<1>2. StagesAgree'
  BY <1>1 DEF StagesAgree
<1>3. Bookkeeping'
  BY <1>2 DEF Bookkeeping
<1>4. HeapIsClosed'
  <2>1. RootRefs' \subseteq LiveAddresses'
    BY NewLives DEF TypeOK
  <2>2. QED
    BY <2>1 DEF HeapIsClosed
<1>5. FreeIsBlank'
  BY <1>1 DEF FreeIsBlank
<1>6. GraphHolds'
  BY <1>1, <1>4, <1>5, WholeHeapHolds
<1>7. OldIsTiled'
  BY <1>1 DEF OldIsTiled, ObjectsAreUsed, OnlyReservationsCorrupt
<1>8. QED
  BY <1>3, <1>6, <1>7 DEF IInv

\* What the program starts from.
LEMMA IdleFacts ==
  ASSUME IInv, pc \in {"run", "take", "large"}
  PROVE  /\ TypeOK /\ LockstepTypeOK /\ FreeIsSound(old) /\ EdgesAreListed
         /\ Faithful /\ HeapIsClosed /\ FreeIsBlank
         /\ worklist = <<>> /\ \A x \in Obj : forward[x] = Null
         /\ LiveAddresses \subseteq HandedOut /\ LiveAddresses \subseteq Obj
         /\ ~ wasted => /\ IsTiled(old)
                        /\ LiveAddresses \cap OldAddress \subseteq Headers(old) \ old.vacant
<1>1. Faithful /\ HeapIsClosed /\ worklist = <<>>
      /\ (\A x \in Obj : forward[x] = Null) /\ LiveAddresses \subseteq HandedOut
  BY WholeHeap DEF IInv
<1>2. TypeOK /\ LockstepTypeOK /\ FreeIsSound(old) /\ EdgesAreListed /\ FreeIsBlank
      /\ (~ wasted => IsTiled(old) /\ ObjectsAreUsed)
  BY DEF IInv, Bookkeeping, GraphHolds, OldIsTiled, TypeOK, Stopped
<1>3. LiveAddresses \subseteq Obj
  BY <1>2, Lives
<1>4. QED
  BY <1>1, <1>2, <1>3 DEF ObjectsAreUsed

\* An operation on the roots.
LEMMA RootsIInv ==
  ASSUME IInv, Running, BothRootsStep, UNCHANGED genVars
  PROVE  IInv'
<1>1. /\ pc = "run" /\ pc' = "run" /\ refs' = refs /\ stamp' = stamp
      /\ old' = old /\ youngFree' = youngFree /\ nurserySize' = nurserySize
      /\ forward' = forward /\ remembered' = remembered /\ worklist' = worklist
      /\ major' = major /\ then' = then /\ wasted' = wasted
  BY DEF Running, BothRootsStep, genVars, young
<1>2. /\ TypeOK /\ LockstepTypeOK /\ FreeIsSound(old) /\ EdgesAreListed
      /\ Faithful /\ HeapIsClosed /\ LiveAddresses \subseteq HandedOut
      /\ ~ wasted => /\ IsTiled(old)
                     /\ LiveAddresses \cap OldAddress \subseteq Headers(old) \ old.vacant
  BY <1>1, IdleFacts
<1>3. LockstepTypeOK' /\ Faithful' /\ LiveAddresses' \subseteq LiveAddresses
  BY <1>2, RootsStayFaithful
<1>4. TypeOK'
  BY <1>1, <1>2, <1>3 DEF TypeOK, OldTypeOK
<1>5. Listed' = Listed /\ HandedOut' = HandedOut
  BY <1>1 DEF Listed, HandedOut
<1>6. EdgesAreListed'
  <2>1. \A x : SlotsToDo(x)' = SlotsToDo(x)
    BY <1>1 DEF SlotsToDo, IsYoung, Young
  <2>2. QED
    BY <1>2, <1>5, <2>1 DEF EdgesAreListed
<1>7. /\ Listed' \subseteq HandedOut' /\ LiveAddresses' \subseteq HandedOut'
      /\ \A x \in HandedOut' : Children(refs', x) \subseteq HandedOut'
  BY <1>1, <1>2, <1>3, <1>5 DEF HeapIsClosed
<1>8. ~ wasted => /\ IsTiled(old')
                  /\ LiveAddresses' \cap OldAddress \subseteq Headers(old') \ old'.vacant
  BY <1>1, <1>2, <1>3
<1>9. QED
  BY <1>1, <1>2, <1>3, <1>4, <1>6, <1>7, <1>8, IdleStep

\* A store: if it makes an old object refer into the nursery, it is recorded.
LEMMA WriteFieldIInv ==
  ASSUME IInv, NEW p \in DOMAIN stack, NEW i \in Slot, NEW c \in 0 .. Len(stack),
         WriteField(p, i, c)
  PROVE  IInv'
<1>. DEFINE obj == stack[p]
            val == Operand(stack, c)
<1>1. /\ pc = "run" /\ pc' = "run" /\ Store(p, i, c)
      /\ old' = old /\ youngFree' = youngFree /\ nurserySize' = nurserySize
      /\ forward' = forward /\ worklist' = worklist
      /\ major' = major /\ then' = then /\ wasted' = wasted
      /\ refs' = [refs EXCEPT ![obj][i] = val] /\ obj # Null
      /\ IF Records(obj, val) THEN remembered' = Append(remembered, obj)
         ELSE remembered' = remembered
  BY DEF WriteField, Running, Store, young
<1>2. /\ TypeOK /\ LockstepTypeOK /\ FreeIsSound(old) /\ EdgesAreListed
      /\ Faithful /\ HeapIsClosed /\ LiveAddresses \subseteq HandedOut
      /\ ~ wasted => /\ IsTiled(old)
                     /\ LiveAddresses \cap OldAddress \subseteq Headers(old) \ old.vacant
  BY <1>1, IdleFacts
<1>3. LockstepTypeOK' /\ Faithful' /\ LiveAddresses' \subseteq LiveAddresses
  BY <1>1, <1>2, StoreStaysFaithful
<1>4. obj \in HandedOut /\ obj \in Obj /\ val \in HandedOut \cup {Null}
  <2>1. c = 0 \/ c \in DOMAIN stack
    BY <1>2 DEF LockstepTypeOK, RootsTypeOK
  <2>2. \A k \in DOMAIN stack : stack[k] # Null => stack[k] \in HandedOut
    BY <1>2, Places DEF HeapIsClosed
  <2>3. HandedOut \subseteq Obj
    BY <1>2, HandedOutFacts
  <2>4. QED
    BY <1>1, <2>1, <2>2, <2>3 DEF Operand
<1>. HIDE DEF obj, val
<1>5. /\ remembered \in Seq(Obj) /\ remembered' \in Seq(Obj)
      /\ ToSet(remembered) \subseteq ToSet(remembered')
      /\ ToSet(remembered') \subseteq ToSet(remembered) \cup {obj}
      /\ Records(obj, val) => obj \in ToSet(remembered')
  <2>1. remembered \in Seq(Obj)
    BY <1>2 DEF TypeOK
  <2>2. CASE Records(obj, val)
    <3>1. remembered' = Append(remembered, obj)
      BY <1>1, <2>2
    <3>2. /\ Len(remembered) \in Nat /\ DOMAIN remembered = 1 .. Len(remembered)
          /\ DOMAIN remembered' = 1 .. (Len(remembered) + 1)
          /\ \A k \in 1 .. Len(remembered) : remembered'[k] = remembered[k]
          /\ remembered'[Len(remembered) + 1] = obj
          /\ remembered' \in Seq(Obj)
      BY <1>4, <2>1, <3>1
    <3>3. \A k \in DOMAIN remembered' : k \in DOMAIN remembered \/ k = Len(remembered) + 1
      BY <3>2
    <3>4. DOMAIN remembered \subseteq DOMAIN remembered' /\ Len(remembered) + 1 \in DOMAIN remembered'
      BY <3>2
    <3>5. QED
      BY <2>1, <3>2, <3>3, <3>4 DEF ToSet
  <2>3. CASE ~ Records(obj, val)
    BY <1>1, <2>1, <2>3
  <2>4. QED
    BY <2>2, <2>3
<1>. DEFINE same == /\ pc' = "run" /\ old' = old /\ youngFree' = youngFree
                    /\ nurserySize' = nurserySize /\ forward' = forward /\ worklist' = worklist
                    /\ major' = major /\ then' = then /\ wasted' = wasted
<1>s. same
  BY <1>1
<1>6. TypeOK'
  <2>1. OldTypeOK' /\ remembered' \in Seq(Obj)
    BY <1>2, <1>5, <1>s DEF TypeOK, OldTypeOK
  <2>2. QED
    BY <1>2, <1>3, <1>s, <2>1 DEF TypeOK
<1>7. /\ Listed \subseteq Listed' /\ Listed' \subseteq Listed \cup {obj}
      /\ Records(obj, val) => obj \in Listed'
      /\ HandedOut' = HandedOut
  <2>1. ToSet(worklist)' = ToSet(worklist) /\ HandedOut' = HandedOut
    BY <1>s DEF HandedOut
  <2>2. ToSet(remembered)' = ToSet(remembered')
    OBVIOUS
  <2>3. QED
    BY <1>5, <2>1, <2>2 DEF Listed
<1>8. /\ \A x \in Obj : x # obj => refs'[x] = refs[x]
      /\ \A k \in Slot : refs'[obj][k] = IF k = i THEN val ELSE refs[obj][k]
  BY <1>1, <1>2, <1>4 DEF LockstepTypeOK
<1>9. EdgesAreListed'
  <2>1. \A h : IsYoung(h)' <=> IsYoung(h)
    BY <1>1 DEF IsYoung, Young
  <2>2. ASSUME NEW x \in OldAddress
        PROVE  SlotsToDo(x)' = {} \/ x \in Listed'
    <3>1. x \in Obj /\ (SlotsToDo(x) = {} \/ x \in Listed)
      BY <1>2, Addresses DEF EdgesAreListed
    <3>2. CASE x # obj
      BY <1>7, <1>8, <2>1, <3>1, <3>2 DEF SlotsToDo
    <3>3. CASE x = obj /\ IsYoung(val)
      BY <1>7, <3>3 DEF Records
    <3>4. CASE x = obj /\ ~ IsYoung(val)
      <4>1. SlotsToDo(x)' \subseteq SlotsToDo(x)
        BY <1>8, <2>1, <3>4 DEF SlotsToDo
      <4>2. QED
        BY <1>7, <3>1, <4>1
    <3>5. QED
      BY <3>2, <3>3, <3>4
  <2>3. QED
    BY <2>2 DEF EdgesAreListed
<1>10. \A x \in HandedOut' : Children(refs', x) \subseteq HandedOut'
  <2>1. TAKE x \in HandedOut'
  <2>2. x \in HandedOut /\ x \in Obj
    BY <1>2, <1>7, HandedOutFacts
  <2>3. Children(refs, x) \subseteq HandedOut
    BY <1>2, <2>2 DEF HeapIsClosed
  <2>4. \A k \in Slot : refs[x][k] \in HandedOut \cup {Null}
    BY <2>3 DEF Children
  <2>5. \A k \in Slot : refs'[x][k] \in HandedOut \cup {Null}
    BY <1>4, <1>8, <2>2, <2>4
  <2>6. QED
    BY <1>7, <2>5 DEF Children
<1>11. Listed' \subseteq HandedOut' /\ LiveAddresses' \subseteq HandedOut'
  BY <1>2, <1>3, <1>4, <1>7 DEF HeapIsClosed
<1>12. \A x \in FreeUnits(old') : x \in FreeUnits(old) /\ refs'[x] = refs[x]
  <2>1. obj \notin FreeUnits(old) /\ FreeUnits(old) \subseteq Obj
    BY <1>2, <1>4, HandedOutFacts, Addresses
  <2>2. QED
    BY <1>1, <1>8, <2>1
<1>13. ~ wasted => /\ IsTiled(old')
                   /\ LiveAddresses' \cap OldAddress \subseteq Headers(old') \ old'.vacant
  BY <1>1, <1>2, <1>3
<1>14. QED
  BY <1>1, <1>2, <1>3, <1>6, <1>9, <1>10, <1>11, <1>12, <1>13, IdleStep

\* As the free memory shrinks and the nursery fills, more is handed out.
LEMMA HandedOutGrows ==
  ASSUME TypeOK, FreeUnits(old') \subseteq FreeUnits(old),
         youngFree' \in {youngFree, youngFree + 1}
  PROVE  /\ HandedOut \subseteq HandedOut'
         /\ \A x \in HandedOut' : \/ x \in HandedOut \/ x \in FreeUnits(old)
                                  \/ x = youngFree /\ youngFree' = youngFree + 1
         /\ youngFree' = youngFree + 1 => youngFree \in HandedOut'
         /\ \A x \in OldAddress : x \notin FreeUnits(old') => x \in HandedOut'
<1>1. /\ HandedOut' = (OldAddress \ FreeUnits(old')) \cup (OldSize + 1) .. (youngFree' - 1)
      /\ HandedOut = (OldAddress \ FreeUnits(old)) \cup (OldSize + 1) .. (youngFree - 1)
  BY DEF HandedOut
<1>2. youngFree \in Int /\ OldSize \in Int /\ OldSize + 1 <= youngFree
  BY Addresses
<1>3. CASE youngFree' = youngFree
  BY <1>1, <1>2, <1>3
<1>4. CASE youngFree' = youngFree + 1
  <2>1. (OldSize + 1) .. (youngFree' - 1) = (OldSize + 1) .. (youngFree - 1) \cup {youngFree}
    BY <1>2, <1>4
  <2>2. QED
    BY <1>1, <1>4, <2>1
<1>5. QED
  BY <1>3, <1>4

\* An allocation: a new object at a, where the program can reach nothing.
LEMMA NewbornIInv ==
  ASSUME IInv, pc \in {"run", "take", "large"}, pc' = "run",
         NEW a \in Obj, a \notin HandedOut, a \in HandedOut', StampAndRoot(a),
         nurserySize' = nurserySize, forward' = forward, remembered' = remembered,
         worklist' = worklist, major' = major, then' = then, wasted' = wasted,
         youngFree' \in {youngFree, youngFree + 1},
         youngFree' \in (OldSize + 1) .. (OldSize + nurserySize + 1),
         youngFree' = youngFree + 1 => a = youngFree,
         old' \in OldGeneration, FreeIsSound(old'), FreeUnits(old') \subseteq FreeUnits(old),
         a \notin FreeUnits(old'),
         ~ wasted => /\ IsTiled(old')
                     /\ Headers(old) \ old.vacant \subseteq Headers(old') \ old'.vacant
                     /\ a \in OldAddress => a \in Headers(old') \ old'.vacant
  PROVE  IInv'
<1>1. /\ TypeOK /\ LockstepTypeOK /\ EdgesAreListed /\ FreeIsBlank
      /\ Faithful /\ HeapIsClosed /\ LiveAddresses \subseteq HandedOut
      /\ ~ wasted => /\ IsTiled(old)
                     /\ LiveAddresses \cap OldAddress \subseteq Headers(old) \ old.vacant
  BY IdleFacts
<1>2. LockstepTypeOK' /\ Faithful' /\ LiveAddresses' \subseteq LiveAddresses \cup {a}
  BY <1>1, StampStaysFaithful
<1>3. TypeOK'
  <2>1. OldTypeOK'
    BY DEF OldTypeOK, OldGeneration
  <2>2. QED
    BY <1>1, <1>2, <2>1 DEF TypeOK
<1>4. /\ HandedOut \subseteq HandedOut'
      /\ \A x \in HandedOut' : x \in HandedOut \/ x \in FreeUnits(old) \/ x = a
  BY <1>1, HandedOutGrows
<1>5. /\ refs'[a] = Blank
      /\ \A x \in Obj : x # a => refs'[x] = refs[x]
  <2>1. refs' = [refs EXCEPT ![a] = Blank] /\ refs \in [Obj -> [Slot -> Ref]]
    BY <1>1 DEF StampAndRoot, LockstepTypeOK
  <2>2. QED
    BY <2>1
<1>6. Listed' = Listed
  BY DEF Listed
<1>7. EdgesAreListed'
  <2>1. \A h : IsYoung(h)' <=> IsYoung(h)
    BY DEF IsYoung, Young
  <2>2. ASSUME NEW x \in OldAddress
        PROVE  SlotsToDo(x)' = {} \/ x \in Listed'
    <3>1. x \in Obj /\ (SlotsToDo(x) = {} \/ x \in Listed)
      BY <1>1, Addresses DEF EdgesAreListed
    <3>2. CASE x # a
      BY <1>5, <1>6, <2>1, <3>1, <3>2 DEF SlotsToDo
    <3>3. CASE x = a
      <4>1. \A i \in Slot : ~ IsYoung(refs'[x][i])
        BY <1>5, <3>3 DEF IsYoung, Blank
      <4>2. QED
        BY <2>1, <4>1 DEF SlotsToDo
    <3>4. QED
      BY <3>2, <3>3
  <2>3. QED
    BY <2>2 DEF EdgesAreListed
<1>8. \A x \in HandedOut' : Children(refs', x) \subseteq HandedOut'
  <2>1. TAKE x \in HandedOut'
  <2>2. Children(refs', a) = {}
    BY <1>5 DEF Children, Blank
  <2>3. CASE x \in HandedOut
    <3>1. x \in Obj
      BY <1>1, <2>3, HandedOutFacts
    <3>2. Children(refs', x) = Children(refs, x)
      BY <1>5, <2>3, <3>1 DEF Children
    <3>3. QED
      BY <1>1, <1>4, <2>3, <3>2 DEF HeapIsClosed
  <2>4. CASE x \in FreeUnits(old) /\ x # a
    <3>1. x \in Obj
      BY <1>1, <2>4, HandedOutFacts, Addresses
    <3>2. refs'[x] = Blank
      BY <1>1, <1>5, <2>4, <3>1 DEF FreeIsBlank
    <3>3. QED
      BY <3>2 DEF Children, Blank
  <2>5. QED
    BY <1>4, <2>2, <2>3, <2>4
<1>9. Listed' \subseteq HandedOut' /\ LiveAddresses' \subseteq HandedOut'
  BY <1>1, <1>2, <1>4, <1>6 DEF HeapIsClosed
<1>10. \A x \in FreeUnits(old') : x \in FreeUnits(old) /\ refs'[x] = refs[x]
  <2>1. FreeUnits(old) \subseteq Obj
    BY <1>1, HandedOutFacts, Addresses
  <2>2. QED
    BY <1>5, <2>1
<1>11. ~ wasted => /\ IsTiled(old')
                   /\ LiveAddresses' \cap OldAddress \subseteq Headers(old') \ old'.vacant
  BY <1>1, <1>2
<1>12. QED
  BY <1>2, <1>3, <1>7, <1>8, <1>9, <1>10, <1>11, IdleStep

\* A small object, in the nursery.
LEMMA AllocTakeIInv ==
  ASSUME IInv, pc \in {"run", "take"}, AllocTake
  PROVE  IInv'
<1>1. /\ ~ NurseryFull /\ StampAndRoot(youngFree) /\ youngFree' = youngFree + 1 /\ pc' = "run"
      /\ old' = old /\ nurserySize' = nurserySize /\ forward' = forward
      /\ remembered' = remembered /\ worklist' = worklist /\ major' = major
      /\ then' = then /\ wasted' = wasted
  BY DEF AllocTake
<1>2. TypeOK /\ FreeIsSound(old) /\ (~ wasted => IsTiled(old)) /\ old \in OldGeneration
  BY IdleFacts, Addresses DEF IInv, Bookkeeping
<1>3. /\ youngFree \in Young /\ youngFree \in Obj
      /\ youngFree' \in (OldSize + 1) .. (OldSize + nurserySize + 1)
      /\ youngFree \notin OldAddress
  <2>1. youngFree <= OldSize + nurserySize
    BY <1>1, <1>2, Addresses DEF NurseryFull
  <2>2. youngFree \in Young
    BY <1>2, <2>1, Addresses
  <2>3. youngFree + 1 \in (OldSize + 1) .. (OldSize + nurserySize + 1)
    BY <1>2, <2>1, Addresses
  <2>4. youngFree \notin OldAddress
    BY <1>2, Addresses
  <2>5. QED
    BY <1>1, <1>2, <2>2, <2>3, <2>4, Addresses
<1>4. youngFree \notin HandedOut /\ youngFree \in HandedOut'
  BY <1>1, <1>2, HandedOutFacts, HandedOutGrows
<1>5. youngFree \notin FreeUnits(old')
  BY <1>1, <1>3 DEF FreeUnits
<1>6. PICK a : a = youngFree
  OBVIOUS
<1>7. QED
  BY <1>1, <1>2, <1>3, <1>4, <1>5, <1>6, NewbornIInv

\* A large object, in the old generation.
LEMMA LargeTakeIInv ==
  ASSUME IInv, LargeTake
  PROVE  IInv'
<1>1. /\ pc = "large" /\ Place(old, Large) # Null /\ pc' = "run"
      /\ StampAndRoot(Place(old, Large))
      /\ old' = Headed(Reserved(old, Large), Place(old, Large), Large)
      /\ youngFree' = youngFree /\ nurserySize' = nurserySize /\ forward' = forward
      /\ remembered' = remembered /\ worklist' = worklist /\ major' = major
      /\ then' = then /\ wasted' = wasted
  BY DEF LargeTake, young
<1>2. TypeOK /\ FreeIsSound(old) /\ (~ wasted => IsTiled(old)) /\ old \in OldGeneration
  BY <1>1, IdleFacts, Addresses DEF IInv, Bookkeeping
<1>3. Large \in Nat \ {0}
  BY <1>2, Addresses DEF Large
<1>4. PICK a, n : a = Place(old, n) /\ n = Large
  OBVIOUS
<1>5. /\ old' = Headed(Reserved(old, n), a, n) /\ n \in Nat \ {0} /\ Place(old, n) # Null
      /\ StampAndRoot(a)
  BY <1>1, <1>3, <1>4
<1>6. /\ old' \in OldGeneration /\ FreeIsSound(old')
      /\ a \in OldAddress /\ a \in FreeUnits(old)
      /\ a \notin FreeUnits(old') /\ FreeUnits(old') \subseteq FreeUnits(old)
      /\ IsTiled(old) =>
           /\ IsTiled(old')
           /\ (Headers(old) \ old.vacant) \cup {a} \subseteq Headers(old') \ old'.vacant
  BY <1>2, <1>4, <1>5, TakenFacts
<1>7. a \in Obj /\ a \notin HandedOut /\ a \in HandedOut'
  BY <1>1, <1>2, <1>6, Addresses, HandedOutFacts, HandedOutGrows
<1>8. youngFree' \in (OldSize + 1) .. (OldSize + nurserySize + 1)
  BY <1>1, <1>2 DEF TypeOK
<1>9. youngFree' # youngFree + 1
  BY <1>1, <1>2, Addresses
<1>10. QED
  BY <1>1, <1>2, <1>5, <1>6, <1>7, <1>8, <1>9, NewbornIInv

\* A large object: a collection first, or a reservation that is forgotten.
LEMMA AllocLargeIInv ==
  ASSUME IInv, AllocLarge
  PROVE  IInv'
<1>1. Running /\ pc = "run"
  BY DEF AllocLarge, MayAlloc, Running
<1>2. CASE Place(old, Large) = Null
  <2>1. Begin(TRUE, "large")
    BY <1>2 DEF AllocLarge
  <2>2. QED
    BY <1>1, <2>1, BeginIInv
<1>3. CASE Place(old, Large) # Null
  <2>1. /\ old' = Reserved(old, Large) /\ wasted' = TRUE /\ pc' = "large"
        /\ UNCHANGED lockstepVars /\ youngFree' = youngFree /\ nurserySize' = nurserySize
        /\ forward' = forward /\ remembered' = remembered /\ worklist' = worklist
        /\ major' = major /\ then' = then
    BY <1>3 DEF AllocLarge, young
  <2>2. /\ TypeOK /\ LockstepTypeOK /\ FreeIsSound(old) /\ EdgesAreListed /\ FreeIsBlank
        /\ Faithful /\ HeapIsClosed /\ worklist = <<>> /\ old \in OldGeneration
        /\ \A x \in Obj : forward[x] = Null
    BY <1>1, IdleFacts, Addresses
  <2>3. Large \in Nat \ {0}
    BY <2>2, Addresses DEF Large
  <2>4. PICK n : n = Large
    OBVIOUS
  <2>5. /\ old' \in OldGeneration /\ FreeIsSound(old')
        /\ FreeUnits(old') = FreeUnits(old) \ (Place(old, n) .. (Place(old, n) + n - 1))
    BY <1>3, <2>1, <2>2, <2>3, <2>4, ReservedFacts
  <2>6. FreeUnits(old') \subseteq FreeUnits(old)
    BY <2>5
  <2>7. /\ LockstepTypeOK' /\ Faithful' /\ RootRefs' = RootRefs /\ refs' = refs
    BY <2>1, <2>2, SameHeap DEF lockstepVars
  <2>8. TypeOK'
    <3>1. OldTypeOK'
      BY <2>5 DEF OldTypeOK, OldGeneration
    <3>2. QED
      BY <2>1, <2>2, <2>7, <3>1 DEF TypeOK
  <2>9. EdgesAreListed' /\ Listed' = Listed
    BY <2>1, <2>2, <2>7 DEF EdgesAreListed, SlotsToDo, IsYoung, Young, Listed
  <2>10. StagesAgree'
    <3>1. forward = [a \in Obj |-> Null]
      BY <1>1 DEF IInv, Bookkeeping, StagesAgree
    <3>2. QED
      BY <2>1, <2>2, <3>1 DEF StagesAgree
  <2>11. HeapIsClosed'
    <3>1. HandedOut \subseteq HandedOut'
          /\ \A x \in HandedOut' : x \in HandedOut \/ x \in FreeUnits(old)
      <4>1. youngFree' # youngFree + 1
        BY <2>1, <2>2, Addresses
      <4>2. QED
        BY <2>1, <2>2, <2>6, <4>1, HandedOutGrows
    <3>2. \A x \in FreeUnits(old) : Children(refs, x) = {}
      BY <2>2 DEF FreeIsBlank, Children, Blank
    <3>3. \A x \in HandedOut' : Children(refs', x) \subseteq HandedOut'
      BY <2>2, <2>7, <3>1, <3>2 DEF HeapIsClosed
    <3>4. QED
      BY <2>2, <2>7, <2>9, <3>1, <3>3 DEF HeapIsClosed
  <2>12. FreeIsBlank'
    BY <2>2, <2>6, <2>7 DEF FreeIsBlank
  <2>13. GraphHolds'
    BY <2>1, <2>2, <2>7, <2>8, <2>11, <2>12, WholeHeapHolds
  <2>14. OldIsTiled'
    BY <2>1 DEF OldIsTiled, OnlyReservationsCorrupt
  <2>15. QED
    BY <2>5, <2>8, <2>9, <2>10, <2>13, <2>14 DEF IInv, Bookkeeping
<1>4. QED
  BY <1>2, <1>3

(***************************************************************************)
(* Promotion                                                               *)
(***************************************************************************)

\* References may be replaced by others that end up at the same object: the
\* program reaches only what ends up where it could go before, and the heap is
\* still the model's graph.
LEMMA Redirected ==
  ASSUME LockstepTypeOK, LockstepTypeOK', FaithfulInTheEnd, CopiesAgree',
         UNCHANGED modelState, forward' \in [Obj -> Ref],
         \A x \in LiveAddresses :
           /\ stamp'[x] = stamp[x]
           /\ \A i \in Slot : Final(forward', refs'[x][i]) = Final(forward', refs[x][i]),
         \A x, y \in Obj :
           Final(forward, x) = Final(forward, y) => Final(forward', x) = Final(forward', y),
         DOMAIN stack' = DOMAIN stack,
         \A k \in DOMAIN stack : Final(forward', stack'[k]) = Final(forward', stack[k]),
         \A n \in Name : Final(forward', globals'[n]) = Final(forward', globals[n])
  PROVE  /\ FaithfulInTheEnd'
         /\ \A x \in LiveAddresses' :
              \E y \in LiveAddresses : Final(forward', x) = Final(forward', y)
<1>. DEFINE end(x) == Final(forward', x)
            Meets(x) == \E y \in LiveAddresses : end(x) = end(y)
            S == {x \in Obj : Meets(x)}
<1>1. /\ RootRefs \subseteq LiveAddresses /\ LiveAddresses \subseteq Obj
      /\ \A h \in LiveAddresses : Children(refs, h) \subseteq LiveAddresses
      /\ PathsAgree
  BY Lives DEF FaithfulInTheEnd
<1>2. /\ refs \in [Obj -> [Slot -> Ref]] /\ refs' \in [Obj -> [Slot -> Ref]]
      /\ stack' \in Seq(Ref) /\ globals' \in [Name -> Ref]
      /\ mRefs' = mRefs /\ mStack' = mStack /\ mGlobals' = mGlobals
  BY DEF LockstepTypeOK, RootsTypeOK, modelState
\* An object and what it will be.
<1>3. /\ end(Null) = Null
      /\ \A x \in Obj : end(x) \in Obj
      /\ \A x \in Obj : end(x) # x => end(x) = forward'[x] /\ forward'[x] # Null
  <2>1. \A x \in Obj : x # Null /\ forward'[x] \in Obj \cup {Null}
    BY NullAssumption DEF Ref
  <2>2. QED
    BY <2>1 DEF Final
<1>4. \A x \in Obj : /\ stamp'[x] = stamp'[end(x)]
                     /\ \A i \in Slot : end(refs'[end(x)][i]) = end(refs'[x][i])
  <2>1. \A x \in Obj : forward'[x] # Null =>
          /\ stamp'[forward'[x]] = stamp'[x]
          /\ \A i \in Slot : Final(forward', refs'[forward'[x]][i]) = Final(forward', refs'[x][i])
    BY DEF CopiesAgree
  <2>2. QED
    BY <1>3, <2>1
<1>. HIDE DEF end
\* Objects that end up at the same place are alike.
<1>5. ASSUME NEW x \in Obj, NEW y \in LiveAddresses, end(x) = end(y)
      PROVE  /\ stamp'[x] = stamp[y]
             /\ \A i \in Slot : end(refs'[x][i]) = end(refs[y][i])
  <2>1. y \in Obj /\ stamp'[y] = stamp[y] /\ \A i \in Slot : end(refs'[y][i]) = end(refs[y][i])
    BY <1>1 DEF end
  <2>2. stamp'[x] = stamp'[y]
    BY <1>4, <1>5, <2>1
  <2>3. \A i \in Slot : end(refs'[x][i]) = end(refs'[y][i])
    BY <1>4, <1>5, <2>1
  <2>4. QED
    BY <2>1, <2>2, <2>3
<1>6. \A x \in Ref, y \in Ref : end(x) = end(y) /\ x # Null => x \in Obj /\ y \in Obj /\ y # Null
  BY <1>3, NullAssumption DEF Ref
<1>7. \A y \in LiveAddresses, i \in Slot : refs[y][i] \in Ref /\ (refs[y][i] # Null => refs[y][i] \in LiveAddresses)
  BY <1>1, <1>2 DEF Children
\* The roots end up where roots did.
<1>8. \A k \in DOMAIN stack :
        /\ stack[k] \in Ref /\ stack'[k] \in Ref /\ end(stack'[k]) = end(stack[k])
        /\ stack[k] # Null => stack[k] \in LiveAddresses
  <2>1. \A k \in DOMAIN stack : stack[k] \in Ref /\ (stack[k] # Null => stack[k] \in RootRefs)
    BY Places
  <2>2. \A k \in DOMAIN stack : stack'[k] \in Ref
    BY <1>2
  <2>3. QED
    BY <1>1, <2>1, <2>2 DEF end
<1>9. \A n \in Name :
        /\ globals[n] \in Ref /\ globals'[n] \in Ref /\ end(globals'[n]) = end(globals[n])
        /\ globals[n] # Null => globals[n] \in LiveAddresses
  <2>1. \A n \in Name : globals[n] \in Ref /\ (globals[n] # Null => globals[n] \in RootRefs)
    BY Places
  <2>2. QED
    BY <1>1, <1>2, <2>1 DEF end
<1>10. RootRefs' \subseteq S
  <2>1. \A h \in RootRefs' : h # Null /\ ((\E k \in DOMAIN stack : h = stack'[k])
                                           \/ \E n \in Name : h = globals'[n])
    BY DEF RootRefs, RootSet
  <2>2. ASSUME NEW h \in RootRefs'
        PROVE  h \in S
    <3>1. CASE \E k \in DOMAIN stack : h = stack'[k]
      BY <1>6, <1>8, <2>1, <3>1
    <3>2. CASE \E n \in Name : h = globals'[n]
      BY <1>6, <1>9, <2>1, <3>2
    <3>3. QED
      BY <2>1, <3>1, <3>2
  <2>3. QED
    BY <2>2
<1>11. \A x \in S : Children(refs', x) \subseteq S
  <2>1. TAKE x \in S
  <2>2. PICK y \in LiveAddresses : end(x) = end(y)
    OBVIOUS
  <2>3. ASSUME NEW i \in Slot, refs'[x][i] # Null
        PROVE  refs'[x][i] \in S
    <3>1. end(refs'[x][i]) = end(refs[y][i])
      BY <1>5, <2>2
    <3>2. refs'[x][i] \in Ref /\ refs[y][i] \in Ref
      BY <1>2, <1>7
    <3>3. refs[y][i] \in LiveAddresses /\ refs'[x][i] \in Obj
      BY <1>6, <1>7, <2>3, <3>1, <3>2
    <3>4. QED
      BY <3>1, <3>3
  <2>4. QED
    BY <2>3 DEF Children
<1>12. LiveAddresses' \subseteq S
  <2>1. S \in SUBSET Obj
    OBVIOUS
  <2>. HIDE DEF S
  <2>2. QED
    BY <1>10, <1>11, <2>1, NewLives
<1>13. \A x \in LiveAddresses' : x \in Obj /\ \E y \in LiveAddresses : end(x) = end(y)
  BY <1>12
<1>. HIDE DEF S
\* What ends up at the same place means the same.
<1>. DEFINE Now(r, id) == IF id = Null THEN r = Null ELSE r # Null /\ stamp'[r] = id
<1>14. ASSUME NEW r \in Ref, NEW q \in Ref, end(r) = end(q), q # Null => q \in LiveAddresses,
              NEW id, Means(q, id)
       PROVE  Now(r, id)
  <2>1. CASE id = Null
    <3>1. q = Null
      BY <2>1, <1>14 DEF Means
    <3>2. r = Null
      BY <1>3, <1>6, <1>14, <3>1
    <3>3. QED
      BY <2>1, <3>2
  <2>2. CASE id # Null
    <3>1. q # Null /\ stamp[q] = id /\ q \in LiveAddresses
      BY <2>2, <1>14 DEF Means
    <3>2. r # Null /\ r \in Obj
      BY <1>6, <1>14, <3>1
    <3>3. stamp'[r] = stamp[q]
      BY <1>5, <1>14, <3>1, <3>2
    <3>4. QED
      BY <2>2, <3>1, <3>2, <3>3
  <2>3. QED
    BY <2>1, <2>2
<1>. HIDE DEF Now
<1>15. PathsAgree'
  <2>1. \A k \in DOMAIN stack : Now(stack'[k], mStack[k])
    <3>1. \A k \in DOMAIN stack : Means(stack[k], mStack[k])
      BY <1>1 DEF PathsAgree
    <3>2. QED
      BY <1>8, <1>14, <3>1
  <2>2. \A n \in Name : Now(globals'[n], mGlobals[n])
    <3>1. \A n \in Name : Means(globals[n], mGlobals[n])
      BY <1>1 DEF PathsAgree
    <3>2. QED
      BY <1>9, <1>14, <3>1
  <2>3. ASSUME NEW x \in LiveAddresses'
        PROVE  /\ stamp'[x] # Null
               /\ \A i \in Slot : Now(refs'[x][i], mRefs[stamp'[x]][i])
    <3>1. PICK y \in LiveAddresses : end(x) = end(y)
      BY <1>13
    <3>2. x \in Obj /\ stamp'[x] = stamp[y] /\ \A i \in Slot : end(refs'[x][i]) = end(refs[y][i])
      BY <1>5, <1>13, <3>1
    <3>3. stamp[y] # Null /\ \A i \in Slot : Means(refs[y][i], mRefs[stamp[y]][i])
      BY <1>1 DEF PathsAgree
    <3>4. \A i \in Slot : refs'[x][i] \in Ref
      BY <1>2, <3>2
    <3>5. QED
      BY <1>7, <1>14, <3>2, <3>3, <3>4
  <2>4. DOMAIN stack' = DOMAIN mStack
    BY <1>1 DEF PathsAgree
  <2>5. QED
    BY <1>2, <2>1, <2>2, <2>3, <2>4 DEF PathsAgree, Means, Now
<1>16. ASSUME NEW h \in LiveAddresses', NEW k \in LiveAddresses', stamp'[h] = stamp'[k]
       PROVE  end(h) = end(k)
  <2>1. PICK x \in LiveAddresses : end(h) = end(x)
    BY <1>13
  <2>2. PICK y \in LiveAddresses : end(k) = end(y)
    BY <1>13
  <2>3. stamp'[h] = stamp[x] /\ stamp'[k] = stamp[y]
    BY <1>5, <1>13, <2>1, <2>2
  <2>4. Final(forward, x) = Final(forward, y)
    <3>1. \A v, w \in LiveAddresses : stamp[v] = stamp[w] => Final(forward, v) = Final(forward, w)
      BY DEF FaithfulInTheEnd
    <3>2. stamp[x] = stamp[y]
      BY <1>16, <2>3
    <3>3. QED
      BY ONLY <3>1, <3>2
  <2>5. end(x) = end(y)
    BY <1>1, <2>4 DEF end
  <2>6. QED
    BY <2>1, <2>2, <2>5
<1>17. QED
  BY <1>13, <1>15, <1>16 DEF FaithfulInTheEnd, end

\* What replaces a reference to h when h has been promoted to a.
Replaced(r, q, h, a) == q = r \/ (r = h /\ q = a)

\* What promote does, whether h has been promoted before or is now.
LEMMA PromoteFacts ==
  ASSUME IInv, ~ Stopped, NEW h \in HandedOut, IsYoung(h), ~ CannotPromote(h),
         NEW a \in OldAddress, NEW newRefs \in [Obj -> [Slot -> Ref]],
         \A x \in Obj, i \in Slot : Replaced(refs[x][i], newRefs[x][i], h, a),
         \A x \in Obj : x \notin HandedOut => newRefs[x] = refs[x],
         Promote(h, newRefs, a)
  PROVE  /\ old' \in OldGeneration /\ FreeIsSound(old')
         /\ FreeUnits(old') \subseteq FreeUnits(old) /\ a \notin FreeUnits(old')
         /\ ~ wasted => /\ IsTiled(old')
                        /\ Headers(old) \ old.vacant \subseteq Headers(old') \ old'.vacant
                        /\ a \in Headers(old') \ old'.vacant
         /\ forward' \in [Obj -> OldAddress \cup {Null}] /\ forward'[h] = a
         /\ \A x \in Obj : x # h => forward'[x] = forward[x]
         /\ forward[h] \in {a, Null}
         /\ stamp' \in [Obj -> IdRef] /\ stamp'[a] = stamp[h]
         /\ \A x \in HandedOut : stamp'[x] = stamp[x]
         /\ refs' \in [Obj -> [Slot -> Ref]]
         /\ \A x \in HandedOut, i \in Slot : Replaced(refs[x][i], refs'[x][i], h, a)
         /\ a \in HandedOut \/ refs'[a] = refs[h]
         /\ \A x \in Obj : x \notin HandedOut /\ x # a => refs'[x] = refs[x]
         /\ a \in HandedOut => forward[h] = a
         /\ worklist' \in Seq(OldAddress)
         /\ Listed \subseteq ToSet(remembered) \cup ToSet(worklist')
         /\ ToSet(worklist') \subseteq ToSet(worklist) \cup {a}
         /\ a \in HandedOut \/ a \in ToSet(worklist')
<1>1. /\ TypeOK /\ LockstepTypeOK /\ FreeIsSound(old) /\ CopiesAgree
      /\ ~ wasted => IsTiled(old) /\ ObjectsAreUsed
  BY DEF IInv, Bookkeeping, GraphHolds, OldIsTiled, TypeOK
<1>2. /\ refs \in [Obj -> [Slot -> Ref]] /\ stamp \in [Obj -> IdRef]
      /\ forward \in [Obj -> OldAddress \cup {Null}] /\ worklist \in Seq(OldAddress)
      /\ old \in OldGeneration
  BY <1>1, Addresses DEF LockstepTypeOK, TypeOK, IdRef
<1>3. /\ HandedOut \subseteq Obj /\ OldAddress \subseteq Obj /\ h \in Obj /\ a \in Obj /\ a # h
      /\ FreeUnits(old) \cap HandedOut = {} /\ a # Null
  BY <1>1, HandedOutFacts, Addresses
<1>4. CASE forward[h] # Null
  <2>1. /\ a = forward[h] /\ refs' = newRefs /\ old' = old /\ stamp' = stamp
        /\ forward' = forward /\ worklist' = worklist
    BY <1>4 DEF Promote
  <2>2. /\ a \in OldAddress \ FreeUnits(old) /\ stamp[a] = stamp[h]
    BY <1>1, <1>3, <1>4, <2>1 DEF CopiesAgree
  <2>3. a \in HandedOut
    BY <2>2 DEF HandedOut
  <2>4. ~ wasted => a \in Headers(old) \ old.vacant
    BY <1>1, <1>3, <1>4, <2>1 DEF ObjectsAreUsed
  <2>5. Listed \subseteq ToSet(remembered) \cup ToSet(worklist')
    BY <2>1 DEF Listed
  <2>6. QED
    BY <1>1, <1>2, <1>3, <2>1, <2>2, <2>3, <2>4, <2>5
<1>5. CASE forward[h] = Null
  <2>1. /\ a = Place(old, 1) /\ Place(old, 1) # Null
        /\ old' = Headed(Reserved(old, 1), a, 1)
        /\ refs' = [newRefs EXCEPT ![a] = refs[h]]
        /\ stamp' = [stamp EXCEPT ![a] = stamp[h]]
        /\ forward' = [forward EXCEPT ![h] = a]
        /\ worklist' = Append(worklist, a)
    BY <1>3, <1>5 DEF Promote
  <2>2. PICK n : n = 1 /\ n \in Nat \ {0}
    OBVIOUS
  <2>3. /\ old' \in OldGeneration /\ FreeIsSound(old') /\ a \in FreeUnits(old)
        /\ a \notin FreeUnits(old') /\ FreeUnits(old') \subseteq FreeUnits(old)
        /\ IsTiled(old) =>
             /\ IsTiled(old')
             /\ (Headers(old) \ old.vacant) \cup {a} \subseteq Headers(old') \ old'.vacant
    BY <1>1, <1>2, <2>1, <2>2, TakenFacts
  <2>4. a \notin HandedOut
    BY <1>3, <2>3
  <2>5. /\ forward' \in [Obj -> OldAddress \cup {Null}] /\ forward'[h] = a
        /\ \A x \in Obj : x # h => forward'[x] = forward[x]
    BY <1>2, <1>3, <2>1
  <2>6. /\ stamp' \in [Obj -> IdRef] /\ stamp'[a] = stamp[h]
        /\ \A x \in HandedOut : stamp'[x] = stamp[x]
    BY <1>2, <1>3, <2>1, <2>4
  <2>7. /\ refs' \in [Obj -> [Slot -> Ref]] /\ refs'[a] = refs[h]
        /\ \A x \in Obj : x # a => refs'[x] = newRefs[x]
    BY <1>2, <1>3, <2>1
  <2>8. \A x \in HandedOut, i \in Slot : Replaced(refs[x][i], refs'[x][i], h, a)
    BY <1>3, <2>4, <2>7
  <2>9. worklist' \in Seq(OldAddress) /\ ToSet(worklist') = ToSet(worklist) \cup {a}
    <3>1. /\ Len(worklist) \in Nat /\ DOMAIN worklist = 1 .. Len(worklist)
          /\ DOMAIN worklist' = 1 .. (Len(worklist) + 1)
          /\ \A k \in 1 .. Len(worklist) : worklist'[k] = worklist[k]
          /\ worklist'[Len(worklist) + 1] = a
          /\ worklist' \in Seq(OldAddress)
      BY <1>2, <2>1
    <3>2. \A k \in 1 .. (Len(worklist) + 1) : k \in 1 .. Len(worklist) \/ k = Len(worklist) + 1
      BY <3>1
    <3>3. 1 .. Len(worklist) \subseteq 1 .. (Len(worklist) + 1)
          /\ Len(worklist) + 1 \in 1 .. (Len(worklist) + 1)
      BY <3>1
    <3>4. QED
      BY <3>1, <3>2, <3>3 DEF ToSet
  <2>10. QED
    BY <1>1, <1>3, <1>5, <2>3, <2>4, <2>5, <2>6, <2>7, <2>8, <2>9 DEF Listed
<1>6. QED
  BY <1>4, <1>5


\* Where promotion leaves an object: nothing changes but that what would have
\* stayed at h is now at a.
LEMMA FinalMoves ==
  ASSUME TypeOK, CopiesAgree, NEW h \in Obj, NEW a \in OldAddress, h \notin OldAddress,
         NEW f \in [Obj -> OldAddress \cup {Null}], f[h] = a,
         \A x \in Obj : x # h => f[x] = forward[x],
         forward[h] \in {a, Null}
  PROVE  /\ \A r \in Ref : Final(f, r) = IF Final(forward, r) = h THEN a ELSE Final(forward, r)
         /\ \A r \in Ref, q \in Ref : Replaced(r, q, h, a) => Final(f, q) = Final(f, r)
         /\ \A x \in OldAddress : f[x] = Null
<1>1. /\ OldAddress \subseteq Obj /\ Null \notin Obj /\ Null \notin OldAddress /\ Ref = Obj \cup {Null}
      /\ \A x \in Obj : forward[x] \in OldAddress \cup {Null}
  BY Addresses, NullAssumption DEF TypeOK, Ref
<1>2. \A x \in OldAddress : forward[x] = Null
  <2>1. \A x \in Obj : forward[x] # Null => x \in (OldSize + 1) .. (youngFree - 1)
    BY DEF CopiesAgree
  <2>2. \A x \in OldAddress : x \notin (OldSize + 1) .. (youngFree - 1)
    BY Addresses
  <2>3. QED
    BY <1>1, <2>1, <2>2
<1>3. \A x \in OldAddress : f[x] = Null
  BY <1>1, <1>2
<1>4. ASSUME NEW r \in Ref
      PROVE  Final(f, r) = IF Final(forward, r) = h THEN a ELSE Final(forward, r)
  <2>1. CASE r = Null
    BY <1>1, <2>1 DEF Final
  <2>2. CASE r = h
    <3>1. Final(f, r) = a
      BY <1>1, <2>2 DEF Final
    <3>2. Final(forward, r) \in {h, a}
      BY <1>1, <2>2 DEF Final
    <3>3. QED
      BY <3>1, <3>2
  <2>3. CASE r \in Obj /\ r # h
    <3>1. f[r] = forward[r] /\ r # Null
      BY <1>1, <2>3
    <3>2. Final(f, r) = Final(forward, r)
      BY <3>1 DEF Final
    <3>3. Final(forward, r) # h
      BY <1>1, <2>3, <3>1 DEF Final
    <3>4. QED
      BY <3>2, <3>3
  <2>4. QED
    BY <1>1, <2>1, <2>2, <2>3
<1>5. ASSUME NEW r \in Ref, NEW q \in Ref, Replaced(r, q, h, a)
      PROVE  Final(f, q) = Final(f, r)
  <2>1. CASE q = r
    BY <2>1
  <2>2. CASE r = h /\ q = a
    <3>1. Final(f, a) = a /\ Final(f, h) = a
      BY <1>1, <1>3 DEF Final
    <3>2. QED
      BY <2>2, <3>1
  <2>3. QED
    BY <1>5, <2>1, <2>2 DEF Replaced
<1>6. QED
  BY <1>3, <1>4, <1>5

\* A promotion keeps the invariant: whatever the heap looks like half way, each
\* path leads to an object that is, or will be, the right one.
LEMMA PromoteIInv ==
  ASSUME IInv, pc \in {"roots", "fields"}, NEW h \in HandedOut, IsYoung(h), ~ CannotPromote(h),
         NEW a \in OldAddress, NEW newRefs \in [Obj -> [Slot -> Ref]],
         \A x \in Obj, i \in Slot : Replaced(refs[x][i], newRefs[x][i], h, a),
         \A x \in Obj : x \notin HandedOut => newRefs[x] = refs[x],
         Promote(h, newRefs, a),
         UNCHANGED <<modelState, young, remembered, pc, major, then, wasted>>,
         RootsTypeOK', DOMAIN stack' = DOMAIN stack,
         \A k \in DOMAIN stack : Replaced(stack[k], stack'[k], h, a),
         \A n \in Name : Replaced(globals[n], globals'[n], h, a),
         pc = "fields" => StackToDo' = {} /\ GlobalsToDo' = {}
  PROVE  IInv'
<1>1. /\ TypeOK /\ LockstepTypeOK /\ EdgesAreListed /\ StagesAgree /\ FreeIsBlank
      /\ HeapIsClosed /\ CopiesAgree /\ FaithfulInTheEnd /\ ~ Stopped
      /\ ~ wasted => ObjectsAreUsed
  BY DEF IInv, Bookkeeping, GraphHolds, OldIsTiled, TypeOK, Stopped
<1>2. /\ UNCHANGED modelState /\ youngFree' = youngFree /\ nurserySize' = nurserySize
      /\ remembered' = remembered /\ pc' = pc /\ major' = major /\ then' = then
      /\ wasted' = wasted
  BY DEF young
<1>3. /\ old' \in OldGeneration /\ FreeIsSound(old')
      /\ FreeUnits(old') \subseteq FreeUnits(old) /\ a \notin FreeUnits(old')
      /\ ~ wasted => /\ IsTiled(old')
                     /\ Headers(old) \ old.vacant \subseteq Headers(old') \ old'.vacant
                     /\ a \in Headers(old') \ old'.vacant
      /\ forward' \in [Obj -> OldAddress \cup {Null}] /\ forward'[h] = a
      /\ \A x \in Obj : x # h => forward'[x] = forward[x]
      /\ forward[h] \in {a, Null}
      /\ stamp' \in [Obj -> IdRef] /\ stamp'[a] = stamp[h]
      /\ \A x \in HandedOut : stamp'[x] = stamp[x]
      /\ refs' \in [Obj -> [Slot -> Ref]]
      /\ \A x \in HandedOut, i \in Slot : Replaced(refs[x][i], refs'[x][i], h, a)
      /\ a \in HandedOut \/ refs'[a] = refs[h]
      /\ \A x \in Obj : x \notin HandedOut /\ x # a => refs'[x] = refs[x]
      /\ a \in HandedOut => forward[h] = a
      /\ worklist' \in Seq(OldAddress)
      /\ Listed \subseteq ToSet(remembered) \cup ToSet(worklist')
      /\ ToSet(worklist') \subseteq ToSet(worklist) \cup {a}
      /\ a \in HandedOut \/ a \in ToSet(worklist')
  BY <1>1, PromoteFacts
<1>4. /\ HandedOut \subseteq Obj /\ OldAddress \subseteq Obj /\ h \in Obj /\ a \in Obj /\ a # h
      /\ h \notin OldAddress /\ a # Null /\ ~ IsYoung(a)
      /\ FreeUnits(old) \cap HandedOut = {} /\ FreeUnits(old) \subseteq OldAddress
      /\ LiveAddresses \subseteq HandedOut
      /\ \A x \in (OldSize + 1) .. (youngFree - 1) : x \in HandedOut
      /\ Null \notin Obj
  BY <1>1, HandedOutFacts, Addresses, LiveHandedOut, NullAssumption DEF HandedOut
<1>5. refs \in [Obj -> [Slot -> Ref]] /\ stack \in Seq(Ref) /\ globals \in [Name -> Ref]
  BY <1>1 DEF LockstepTypeOK, RootsTypeOK
<1>6. PICK f : f = forward'
  OBVIOUS
<1>7. /\ \A r \in Ref : Final(f, r) = IF Final(forward, r) = h THEN a ELSE Final(forward, r)
      /\ \A r \in Ref, q \in Ref : Replaced(r, q, h, a) => Final(f, q) = Final(f, r)
      /\ \A x \in OldAddress : f[x] = Null
  <2>1. /\ f \in [Obj -> OldAddress \cup {Null}] /\ f[h] = a
        /\ \A x \in Obj : x # h => f[x] = forward[x]
    BY <1>3, <1>6
  <2>2. /\ TypeOK /\ CopiesAgree /\ h \in Obj /\ h \notin OldAddress /\ a \in OldAddress
        /\ forward[h] \in {a, Null}
    BY <1>1, <1>3, <1>4
  <2>3. QED
    BY ONLY <2>1, <2>2, FinalMoves
<1>8. \A r \in Ref, q \in Ref : Final(forward, r) = Final(forward, q) => Final(f, r) = Final(f, q)
  BY <1>7
<1>9. \A x \in HandedOut, i \in Slot : /\ refs[x][i] \in Ref /\ refs'[x][i] \in Ref
                                       /\ Final(f, refs'[x][i]) = Final(f, refs[x][i])
  BY <1>3, <1>4, <1>5, <1>7
<1>10. CopiesAgree'
  <2>1. ASSUME NEW g \in Obj, f[g] # Null
        PROVE  /\ g \in (OldSize + 1) .. (youngFree' - 1)
               /\ f[g] \in OldAddress \ FreeUnits(old')
               /\ stamp'[f[g]] = stamp'[g]
               /\ \A i \in Slot : Final(f, refs'[f[g]][i]) = Final(f, refs'[g][i])
    <3>1. CASE forward[g] # Null
      <4>1. f[g] = forward[g]
        BY <1>3, <1>6, <3>1
      <4>2. /\ g \in (OldSize + 1) .. (youngFree - 1)
            /\ f[g] \in OldAddress \ FreeUnits(old)
            /\ stamp[f[g]] = stamp[g]
            /\ \A i \in Slot : Final(forward, refs[f[g]][i]) = Final(forward, refs[g][i])
        BY <1>1, <3>1, <4>1 DEF CopiesAgree
      <4>3. g \in HandedOut /\ f[g] \in HandedOut
        BY <1>4, <4>2 DEF HandedOut
      <4>4. \A i \in Slot : Final(f, refs'[f[g]][i]) = Final(f, refs'[g][i])
        <5>1. TAKE i \in Slot
        <5>2. Final(f, refs[f[g]][i]) = Final(f, refs[g][i])
          BY <1>8, <1>9, <4>2, <4>3
        <5>3. QED
          BY <1>9, <4>3, <5>2
      <4>5. QED
        BY <1>2, <1>3, <4>2, <4>3, <4>4
    <3>2. CASE g = h /\ forward[h] = Null
      <4>1. f[h] = a /\ a \notin HandedOut
        BY <1>3, <1>4, <1>6, <3>2
      <4>2. h \in (OldSize + 1) .. (youngFree' - 1)
        BY <1>2, <1>4 DEF HandedOut
      <4>3. \A i \in Slot : Final(f, refs'[a][i]) = Final(f, refs'[h][i])
        BY <1>3, <1>9, <4>1
      <4>4. stamp'[a] = stamp'[h]
        BY <1>3
      <4>5. QED
        BY <1>3, <3>2, <4>1, <4>2, <4>3, <4>4
    <3>3. QED
      BY <1>3, <1>6, <2>1, <3>1, <3>2
  <2>2. QED
    BY <1>6, <2>1 DEF CopiesAgree
<1>11. /\ HandedOut \subseteq HandedOut' /\ a \in HandedOut'
       /\ \A x \in HandedOut' : x \in HandedOut \/ x \in FreeUnits(old)
  <2>1. youngFree' # youngFree + 1
    BY <1>1, <1>2, Addresses
  <2>2. QED
    BY <1>1, <1>2, <1>3, <2>1, HandedOutGrows
<1>12. \A x \in HandedOut' : Children(refs', x) \subseteq HandedOut'
  <2>1. ASSUME NEW x \in HandedOut
        PROVE  Children(refs, x) \subseteq HandedOut /\ Children(refs', x) \subseteq HandedOut'
    <3>1. Children(refs, x) \subseteq HandedOut
      BY <1>1 DEF HeapIsClosed
    <3>2. \A i \in Slot : refs'[x][i] \in {refs[x][i], a}
      BY <1>3 DEF Replaced
    <3>3. QED
      BY <1>11, <3>1, <3>2 DEF Children
  <2>2. ASSUME a \notin HandedOut
        PROVE  Children(refs', a) \subseteq HandedOut'
    BY <1>3, <1>11, <2>1, <2>2 DEF Children
  <2>3. ASSUME NEW x \in FreeUnits(old), x # a
        PROVE  Children(refs', x) \subseteq HandedOut'
    <3>1. x \notin HandedOut /\ x \in Obj
      BY <1>4
    <3>2. refs'[x] = Blank
      BY <1>1, <1>3, <2>3, <3>1 DEF FreeIsBlank
    <3>3. QED
      BY <3>2 DEF Children, Blank
  <2>4. TAKE x \in HandedOut'
  <2>5. QED
    BY <1>11, <2>1, <2>2, <2>3
<1>13. RootRefs' \subseteq HandedOut'
  <2>1. \A k \in DOMAIN stack : stack[k] # Null => stack[k] \in RootRefs
    BY DEF RootRefs, RootSet
  <2>2. \A n \in Name : globals[n] # Null => globals[n] \in RootRefs
    BY DEF RootRefs, RootSet
  <2>3. \A r \in RootRefs' : r # Null /\ ((\E k \in DOMAIN stack : r = stack'[k])
                                          \/ \E n \in Name : r = globals'[n])
    BY DEF RootRefs, RootSet
  <2>4. RootRefs \subseteq HandedOut
    BY <1>1 DEF HeapIsClosed
  <2>5. QED
    BY <1>11, <2>1, <2>2, <2>3, <2>4 DEF Replaced
<1>14. Listed' = ToSet(remembered) \cup ToSet(worklist')
  BY <1>2 DEF Listed
<1>15. HeapIsClosed'
  <2>1. Listed \subseteq HandedOut /\ ToSet(remembered) \subseteq Listed /\ ToSet(worklist) \subseteq Listed
    BY <1>1 DEF HeapIsClosed, Listed
  <2>2. Listed' \subseteq HandedOut'
    BY <1>3, <1>11, <1>14, <2>1
  <2>3. QED
    BY <1>12, <1>13, <2>2 DEF HeapIsClosed
<1>16. FreeIsBlank'
  <2>1. ASSUME NEW x \in FreeUnits(old')
        PROVE  refs'[x] = Blank
    <3>1. x \in FreeUnits(old) /\ x # a /\ x \notin HandedOut /\ x \in Obj
      BY <1>3, <1>4
    <3>2. QED
      BY <1>1, <1>3, <3>1 DEF FreeIsBlank
  <2>2. QED
    BY <2>1 DEF FreeIsBlank
<1>17. EdgesAreListed'
  <2>1. \A y : IsYoung(y)' <=> IsYoung(y)
    BY <1>2 DEF IsYoung, Young
  <2>2. ASSUME NEW x \in OldAddress
        PROVE  SlotsToDo(x)' = {} \/ x \in Listed'
    <3>1. SlotsToDo(x) = {} \/ x \in Listed'
      BY <1>1, <1>3, <1>14 DEF EdgesAreListed
    <3>2. CASE x \in HandedOut
      <4>1. \A i \in Slot : refs'[x][i] \in {refs[x][i], a}
        BY <1>3, <3>2 DEF Replaced
      <4>2. SlotsToDo(x)' \subseteq SlotsToDo(x)
        BY <1>4, <2>1, <4>1 DEF SlotsToDo
      <4>3. QED
        BY <3>1, <4>2
    <3>3. CASE x \notin HandedOut /\ x = a
      BY <1>3, <1>14, <3>3
    <3>4. CASE x \notin HandedOut /\ x # a
      <4>1. refs'[x] = refs[x]
        BY <1>3, <1>4, <3>4
      <4>2. SlotsToDo(x)' = SlotsToDo(x)
        BY <2>1, <4>1 DEF SlotsToDo
      <4>3. QED
        BY <3>1, <4>2
    <3>5. QED
      BY <3>2, <3>3, <3>4
  <2>3. QED
    BY <2>2 DEF EdgesAreListed
<1>18. LockstepTypeOK'
  BY <1>1, <1>2, <1>3 DEF LockstepTypeOK, IdRef, modelState
<1>19. TypeOK'
  <2>1. OldTypeOK'
    BY <1>3 DEF OldTypeOK, OldGeneration
  <2>2. QED
    BY <1>1, <1>2, <1>3, <1>18, <2>1 DEF TypeOK
<1>20. /\ FaithfulInTheEnd'
       /\ \A x \in LiveAddresses' :
            \E y \in LiveAddresses : Final(forward', x) = Final(forward', y)
  <2>1. \A x \in LiveAddresses :
          /\ stamp'[x] = stamp[x]
          /\ \A i \in Slot : Final(forward', refs'[x][i]) = Final(forward', refs[x][i])
    BY <1>3, <1>4, <1>6, <1>9
  <2>2. \A x, y \in Obj :
          Final(forward, x) = Final(forward, y) => Final(forward', x) = Final(forward', y)
    BY <1>6, <1>8 DEF Ref
  <2>3. \A k \in DOMAIN stack : Final(forward', stack'[k]) = Final(forward', stack[k])
    <3>1. \A k \in DOMAIN stack : stack[k] \in Ref /\ stack'[k] \in Ref
      BY <1>5 DEF RootsTypeOK
    <3>2. QED
      BY <1>6, <1>7, <3>1
  <2>4. \A n \in Name : Final(forward', globals'[n]) = Final(forward', globals[n])
    <3>1. \A n \in Name : globals[n] \in Ref /\ globals'[n] \in Ref
      BY <1>5 DEF RootsTypeOK
    <3>2. QED
      BY <1>6, <1>7, <3>1
  <2>5. forward' \in [Obj -> Ref]
    BY <1>3, <1>4 DEF Ref
  <2>6. QED
    BY <1>1, <1>2, <1>10, <1>18, <2>1, <2>2, <2>3, <2>4, <2>5, Redirected
<1>21. ASSUME ~ wasted
       PROVE  ObjectsAreUsed'
  <2>1. /\ LiveAddresses \cap OldAddress \subseteq Headers(old') \ old'.vacant
        /\ \A g \in Obj : forward[g] # Null => forward[g] \in Headers(old') \ old'.vacant
    BY <1>1, <1>3, <1>21 DEF ObjectsAreUsed
  <2>2. \A g \in Obj : f[g] # Null => f[g] \in Headers(old') \ old'.vacant
    BY <1>3, <1>6, <1>21, <2>1
  <2>3. ASSUME NEW x \in LiveAddresses', x \in OldAddress
        PROVE  x \in Headers(old') \ old'.vacant
    <3>1. PICK y \in LiveAddresses : Final(f, x) = Final(f, y)
      BY <1>6, <1>20
    <3>2. Final(f, x) = x
      BY <1>4, <1>7, <2>3 DEF Final
    <3>3. y \in Obj /\ (Final(f, y) = y \/ (f[y] # Null /\ Final(f, y) = f[y]))
      BY <1>4 DEF Final
    <3>4. QED
      BY <2>1, <2>2, <2>3, <3>1, <3>2, <3>3
  <2>4. QED
    BY <1>6, <2>2, <2>3 DEF ObjectsAreUsed
<1>22. StagesAgree'
  BY <1>2 DEF StagesAgree
<1>23. OldIsTiled'
  BY <1>2, <1>3, <1>21 DEF OldIsTiled, OnlyReservationsCorrupt
<1>24. QED
  BY <1>3, <1>10, <1>15, <1>16, <1>17, <1>19, <1>20, <1>22, <1>23
     DEF IInv, Bookkeeping, GraphHolds

\* A root.
LEMMA PromoteRootIInv ==
  ASSUME IInv, PromoteRoot
  PROVE  IInv'
<1>1. /\ pc = "roots" /\ ~ Stopped /\ (StackToDo # {} \/ GlobalsToDo # {})
      /\ TypeOK /\ LockstepTypeOK /\ HeapIsClosed
  BY DEF PromoteRoot, IInv, Bookkeeping, GraphHolds, TypeOK, Stopped
<1>2. /\ stack \in Seq(Ref) /\ Len(stack) <= MaxDepth /\ globals \in [Name -> Ref]
      /\ refs \in [Obj -> [Slot -> Ref]] /\ OldAddress \subseteq Ref
  BY <1>1, Addresses DEF LockstepTypeOK, RootsTypeOK, Ref
<1>3. PICK j, n : j = Min(StackToDo) /\ n = CHOOSE m \in GlobalsToDo : TRUE
  OBVIOUS
<1>4. /\ StackToDo # {} => j \in DOMAIN stack /\ IsYoung(stack[j])
      /\ GlobalsToDo # {} => n \in Name /\ IsYoung(globals[n])
  <2>1. StackToDo \in SUBSET Nat
    BY <1>2 DEF StackToDo
  <2>2. StackToDo # {} => j \in StackToDo
    BY <1>3, <2>1, MinIsLeast
  <2>3. GlobalsToDo # {} => n \in GlobalsToDo
    BY <1>3
  <2>4. QED
    BY <2>2, <2>3 DEF StackToDo, GlobalsToDo
<1>5. PICK h : h = RootRef
  OBVIOUS
<1>6. /\ h = IF StackToDo # {} THEN stack[j] ELSE globals[n]
      /\ IsYoung(h) /\ h \in HandedOut
  <2>1. h = IF StackToDo # {} THEN stack[j] ELSE globals[n]
    BY <1>3, <1>5 DEF RootRef
  <2>2. IsYoung(h)
    BY <1>1, <1>4, <2>1
  <2>3. h \in RootRefs
    BY <1>1, <1>4, <2>1, <2>2 DEF RootRefs, RootSet, IsYoung
  <2>4. QED
    BY <1>1, <2>1, <2>2, <2>3 DEF HeapIsClosed
<1>7. CASE CannotPromote(h)
  <2>1. Panic("full")
    BY <1>5, <1>7 DEF PromoteRoot
  <2>2. QED
    BY <1>1, <2>1, PanicIInv
<1>8. CASE ~ CannotPromote(h)
  <2>1. PICK a \in OldAddress :
          /\ Promote(h, refs, a)
          /\ IF StackToDo # {} THEN stack' = [stack EXCEPT ![j] = a] /\ globals' = globals
             ELSE stack' = stack /\ globals' = [globals EXCEPT ![n] = a]
          /\ UNCHANGED <<modelState, young, remembered, pc, major, then, wasted>>
    BY <1>3, <1>5, <1>8 DEF PromoteRoot
  <2>2. /\ stack' \in Seq(Ref) /\ Len(stack') = Len(stack) /\ DOMAIN stack' = DOMAIN stack
        /\ globals' \in [Name -> Ref]
        /\ \A k \in DOMAIN stack : Replaced(stack[k], stack'[k], h, a)
        /\ \A m \in Name : Replaced(globals[m], globals'[m], h, a)
    <3>1. a \in Ref
      BY <1>2
    <3>2. CASE StackToDo # {}
      <4>1. /\ j \in DOMAIN stack /\ stack[j] = h /\ globals' = globals
            /\ stack' = [stack EXCEPT ![j] = a]
        BY <1>4, <1>6, <2>1, <3>2
      <4>2. /\ stack' \in Seq(Ref) /\ Len(stack') = Len(stack) /\ DOMAIN stack' = DOMAIN stack
            /\ \A k \in DOMAIN stack : stack'[k] = IF k = j THEN a ELSE stack[k]
        BY <1>2, <3>1, <4>1
      <4>3. QED
        BY <1>2, <4>1, <4>2 DEF Replaced
    <3>3. CASE StackToDo = {}
      <4>1. /\ n \in Name /\ globals[n] = h /\ stack' = stack
            /\ globals' = [globals EXCEPT ![n] = a]
        BY <1>1, <1>4, <1>6, <2>1, <3>3
      <4>2. /\ globals' \in [Name -> Ref]
            /\ \A m \in Name : globals'[m] = IF m = n THEN a ELSE globals[m]
        BY <1>2, <3>1, <4>1
      <4>3. QED
        BY <1>2, <4>1, <4>2 DEF Replaced
    <3>4. QED
      BY <3>2, <3>3
  <2>3. RootsTypeOK'
    BY <1>2, <2>2 DEF RootsTypeOK
  <2>4. PICK newRefs : newRefs = refs
    OBVIOUS
  <2>5. /\ newRefs \in [Obj -> [Slot -> Ref]] /\ Promote(h, newRefs, a)
        /\ \A x \in Obj, i \in Slot : Replaced(refs[x][i], newRefs[x][i], h, a)
        /\ \A x \in Obj : x \notin HandedOut => newRefs[x] = refs[x]
    BY <1>2, <2>1, <2>4 DEF Replaced
  <2>6. h \in HandedOut /\ IsYoung(h) /\ pc \in {"roots", "fields"} /\ pc # "fields"
    BY <1>1, <1>6
  <2>7. UNCHANGED <<modelState, young, remembered, pc, major, then, wasted>>
    BY <2>1
  <2>8. QED
    BY ONLY IInv, <1>8, <2>2, <2>3, <2>5, <2>6, <2>7, PromoteIInv
<1>9. QED
  BY <1>7, <1>8

\* A list that is not empty.
LEMMA HeadAndTail ==
  ASSUME NEW S, NEW s \in Seq(S), s # <<>>
  PROVE  /\ Head(s) \in S /\ Head(s) \in ToSet(s)
         /\ Tail(s) \in Seq(S) /\ ToSet(Tail(s)) \subseteq ToSet(s)
         /\ ToSet(s) \subseteq ToSet(Tail(s)) \cup {Head(s)}
<1>1. /\ Len(s) \in Nat \ {0} /\ DOMAIN s = 1 .. Len(s) /\ Head(s) = s[1]
      /\ Tail(s) \in Seq(S) /\ DOMAIN Tail(s) = 1 .. (Len(s) - 1)
      /\ \A k \in 1 .. (Len(s) - 1) : Tail(s)[k] = s[k + 1]
  OBVIOUS
<1>2. 1 \in 1 .. Len(s) /\ \A k \in 1 .. (Len(s) - 1) : k + 1 \in 1 .. Len(s)
  BY <1>1
<1>3. \A k \in 1 .. Len(s) : k = 1 \/ (k - 1 \in 1 .. (Len(s) - 1) /\ k - 1 + 1 = k)
  BY <1>1
<1>4. ToSet(s) \subseteq ToSet(Tail(s)) \cup {Head(s)}
  <2>1. ASSUME NEW k \in DOMAIN s
        PROVE  s[k] \in ToSet(Tail(s)) \cup {Head(s)}
    <3>1. CASE k = 1
      BY <1>1, <3>1
    <3>2. CASE k # 1
      <4>1. k - 1 \in DOMAIN Tail(s) /\ Tail(s)[k - 1] = s[k]
        BY <1>1, <1>3, <3>2
      <4>2. QED
        BY <4>1 DEF ToSet
    <3>3. QED
      BY <3>1, <3>2
  <2>2. QED
    BY <2>1 DEF ToSet
<1>5. QED
  BY <1>1, <1>2, <1>4 DEF ToSet

\* What scan_for_young looks at is an object on a list.
LEMMA ScannedFacts ==
  ASSUME IInv, pc = "fields", remembered # <<>> \/ worklist # <<>>
  PROVE  /\ Scanned \in Listed /\ Scanned \in HandedOut /\ Scanned \in Obj
         /\ HeapIsClosed /\ TypeOK /\ ~ Stopped
<1>1. HeapIsClosed /\ TypeOK /\ ~ Stopped
  BY DEF IInv, Bookkeeping, GraphHolds, Stopped
<1>2. remembered \in Seq(Obj) /\ worklist \in Seq(OldAddress)
  BY <1>1 DEF TypeOK
<1>3. /\ remembered # <<>> => Head(remembered) \in ToSet(remembered)
      /\ worklist # <<>> => Head(worklist) \in ToSet(worklist)
  BY <1>2, HeadAndTail
<1>4. Scanned \in Listed
  BY <1>3 DEF Scanned, Listed
<1>5. Listed \subseteq HandedOut /\ HandedOut \subseteq Obj
  BY <1>1, HandedOutFacts DEF HeapIsClosed
<1>6. QED
  BY <1>1, <1>4, <1>5

\* A field.
LEMMA ScanFieldIInv ==
  ASSUME IInv, ScanField
  PROVE  IInv'
<1>1. /\ pc = "fields" /\ (remembered # <<>> \/ worklist # <<>>) /\ SlotsToDo(Scanned) # {}
  BY DEF ScanField
<1>2. PICK s, i, h : s = Scanned /\ i = Min(SlotsToDo(s)) /\ h = refs[s][i]
  OBVIOUS
<1>3. s \in HandedOut /\ s \in Obj /\ HeapIsClosed /\ TypeOK /\ ~ Stopped /\ SlotsToDo(s) # {}
  BY <1>1, <1>2, ScannedFacts
<1>4. /\ refs \in [Obj -> [Slot -> Ref]] /\ RootsTypeOK /\ OldAddress \subseteq Ref
      /\ StackToDo = {} /\ GlobalsToDo = {}
  BY <1>1, <1>3, Addresses DEF TypeOK, LockstepTypeOK, Ref, IInv, Bookkeeping, StagesAgree
<1>5. i \in Slot /\ IsYoung(h) /\ h \in HandedOut
  <2>1. SlotsToDo(s) \in SUBSET Nat
    BY DEF SlotsToDo, Slot
  <2>2. i \in SlotsToDo(s)
    BY <1>2, <1>3, <2>1, MinIsLeast
  <2>3. i \in Slot /\ IsYoung(h)
    BY <1>2, <2>2 DEF SlotsToDo
  <2>4. h \in Children(refs, s)
    BY <1>2, <2>3 DEF Children, IsYoung
  <2>5. QED
    BY <1>3, <2>3, <2>4 DEF HeapIsClosed
<1>6. CASE CannotPromote(h)
  <2>1. Panic("full")
    BY <1>2, <1>6 DEF ScanField
  <2>2. QED
    BY <1>3, <2>1, PanicIInv
<1>7. CASE ~ CannotPromote(h)
  <2>1. PICK a \in OldAddress :
          /\ Promote(h, [refs EXCEPT ![s][i] = a], a)
          /\ UNCHANGED <<roots, modelState, young, remembered, pc, major, then, wasted>>
    BY <1>2, <1>7 DEF ScanField
  <2>2. PICK newRefs : newRefs = [refs EXCEPT ![s][i] = a]
    OBVIOUS
  <2>3. /\ newRefs \in [Obj -> [Slot -> Ref]]
        /\ \A x \in Obj : x # s => newRefs[x] = refs[x]
        /\ \A k \in Slot : newRefs[s][k] = IF k = i THEN a ELSE refs[s][k]
    BY <1>3, <1>4, <1>5, <2>2
  <2>4. /\ \A x \in Obj, k \in Slot : Replaced(refs[x][k], newRefs[x][k], h, a)
        /\ \A x \in Obj : x \notin HandedOut => newRefs[x] = refs[x]
    BY <1>2, <1>3, <2>3 DEF Replaced
  <2>5. /\ stack' = stack /\ globals' = globals
        /\ UNCHANGED <<modelState, young, remembered, pc, major, then, wasted>>
    BY <2>1 DEF roots
  <2>6. /\ RootsTypeOK' /\ DOMAIN stack' = DOMAIN stack
        /\ \A k \in DOMAIN stack : Replaced(stack[k], stack'[k], h, a)
        /\ \A n \in Name : Replaced(globals[n], globals'[n], h, a)
    BY <1>4, <2>5 DEF RootsTypeOK, Replaced
  <2>7. StackToDo' = {} /\ GlobalsToDo' = {}
    <3>1. \A y : IsYoung(y)' <=> IsYoung(y)
      BY <2>5 DEF IsYoung, Young, young
    <3>2. StackToDo' = StackToDo /\ GlobalsToDo' = GlobalsToDo
      BY <2>5, <3>1 DEF StackToDo, GlobalsToDo
    <3>3. QED
      BY <1>4, <3>2
  <2>8. Promote(h, newRefs, a) /\ pc \in {"roots", "fields"}
    BY <1>1, <2>1, <2>2
  <2>9. newRefs \in [Obj -> [Slot -> Ref]] /\ h \in HandedOut /\ IsYoung(h)
    BY <1>5, <2>3
  <2>10. QED
    BY ONLY IInv, <1>7, <2>4, <2>5, <2>6, <2>7, <2>8, <2>9, PromoteIInv
<1>8. QED
  BY <1>6, <1>7

\* The end of an entry: what is left of it is no edge into the nursery.
LEMMA ScanDoneIInv ==
  ASSUME IInv, ScanDone
  PROVE  IInv'
<1>1. /\ pc = "fields" /\ (remembered # <<>> \/ worklist # <<>>) /\ SlotsToDo(Scanned) = {}
      /\ IF remembered # <<>> THEN remembered' = Tail(remembered) /\ worklist' = worklist
         ELSE worklist' = Tail(worklist) /\ remembered' = remembered
      /\ UNCHANGED lockstepVars /\ old' = old /\ youngFree' = youngFree
      /\ nurserySize' = nurserySize /\ forward' = forward /\ pc' = pc /\ major' = major
      /\ then' = then /\ wasted' = wasted
  BY DEF ScanDone, young
<1>2. /\ TypeOK /\ LockstepTypeOK /\ FreeIsSound(old) /\ EdgesAreListed /\ StagesAgree
      /\ FreeIsBlank /\ HeapIsClosed /\ CopiesAgree /\ FaithfulInTheEnd /\ ~ Stopped
      /\ ~ wasted => IsTiled(old) /\ ObjectsAreUsed
  BY <1>1 DEF IInv, Bookkeeping, GraphHolds, OldIsTiled, TypeOK, Stopped
<1>3. remembered \in Seq(Obj) /\ worklist \in Seq(OldAddress)
  BY <1>2 DEF TypeOK
<1>4. /\ remembered' \in Seq(Obj) /\ worklist' \in Seq(OldAddress)
      /\ Listed' \subseteq Listed /\ Listed \subseteq Listed' \cup {Scanned}
  <2>0. Listed' = ToSet(remembered') \cup ToSet(worklist')
    BY DEF Listed
  <2>1. CASE remembered # <<>>
    <3>1. PICK s : s = remembered
      OBVIOUS
    <3>2. s \in Seq(Obj) /\ s # <<>> /\ remembered' = Tail(s) /\ worklist' = worklist /\ Scanned = Head(s)
      BY <1>1, <1>3, <2>1, <3>1 DEF Scanned
    <3>3. /\ Tail(s) \in Seq(Obj) /\ ToSet(Tail(s)) \subseteq ToSet(s)
          /\ ToSet(s) \subseteq ToSet(Tail(s)) \cup {Head(s)}
      BY <3>2, HeadAndTail
    <3>4. QED
      BY <1>3, <2>0, <3>1, <3>2, <3>3 DEF Listed
  <2>2. CASE remembered = <<>>
    <3>1. PICK s : s = worklist
      OBVIOUS
    <3>2. /\ s \in Seq(OldAddress) /\ s # <<>> /\ worklist' = Tail(s) /\ remembered' = remembered
          /\ Scanned = Head(s)
      BY <1>1, <1>3, <2>2, <3>1 DEF Scanned
    <3>3. /\ Tail(s) \in Seq(OldAddress) /\ ToSet(Tail(s)) \subseteq ToSet(s)
          /\ ToSet(s) \subseteq ToSet(Tail(s)) \cup {Head(s)}
      BY <3>2, HeadAndTail
    <3>4. QED
      BY <1>3, <2>0, <3>1, <3>2, <3>3 DEF Listed
  <2>3. QED
    BY <2>1, <2>2
<1>5. /\ stack' = stack /\ globals' = globals /\ refs' = refs /\ stamp' = stamp
      /\ LockstepTypeOK' /\ LiveAddresses' = LiveAddresses /\ RootRefs' = RootRefs
      /\ (PathsAgree' <=> PathsAgree)
  BY <1>1, <1>2, SameHeap DEF lockstepVars
<1>6. /\ \A x : IsYoung(x)' <=> IsYoung(x)
      /\ \A x : SlotsToDo(x)' = SlotsToDo(x)
      /\ StackToDo' = StackToDo /\ GlobalsToDo' = GlobalsToDo
      /\ HandedOut' = HandedOut
  BY <1>1, <1>5 DEF IsYoung, Young, SlotsToDo, StackToDo, GlobalsToDo, HandedOut
<1>7. TypeOK'
  BY <1>1, <1>2, <1>4, <1>5 DEF TypeOK, OldTypeOK
<1>8. EdgesAreListed'
  BY <1>1, <1>2, <1>4, <1>6 DEF EdgesAreListed
<1>9. StagesAgree'
  BY <1>1, <1>2, <1>6 DEF StagesAgree
<1>10. Bookkeeping'
  BY <1>1, <1>2, <1>7, <1>8, <1>9 DEF Bookkeeping
<1>11. HeapIsClosed'
  BY <1>2, <1>4, <1>5, <1>6 DEF HeapIsClosed
<1>12. CopiesAgree'
  BY <1>1, <1>2, <1>5 DEF CopiesAgree
<1>13. FaithfulInTheEnd'
  BY <1>1, <1>2, <1>5 DEF FaithfulInTheEnd
<1>14. FreeIsBlank' /\ (ObjectsAreUsed' <=> ObjectsAreUsed)
  BY <1>1, <1>2, <1>5 DEF FreeIsBlank, ObjectsAreUsed
<1>15. GraphHolds'
  BY <1>11, <1>12, <1>13, <1>14 DEF GraphHolds
<1>16. OldIsTiled'
  BY <1>1, <1>2, <1>14 DEF OldIsTiled, OnlyReservationsCorrupt
<1>17. QED
  BY <1>10, <1>15, <1>16 DEF IInv

\* When the lists are empty nothing the program can reach is in the nursery.
LEMMA NothingYoungIsLeft ==
  ASSUME TypeOK, EdgesAreListed, HeapIsClosed, StackToDo = {}, GlobalsToDo = {},
         remembered = <<>>, worklist = <<>>
  PROVE  /\ Listed = {}
         /\ RootRefs \subseteq OldAddress \ FreeUnits(old)
         /\ \A x \in OldAddress \ FreeUnits(old) :
              Children(refs, x) \subseteq OldAddress \ FreeUnits(old)
         /\ LiveAddresses \subseteq OldAddress \ FreeUnits(old)
<1>. DEFINE S == OldAddress \ FreeUnits(old)
<1>1. /\ \A x \in HandedOut : x \in S \/ IsYoung(x)
      /\ S \subseteq HandedOut /\ S \in SUBSET Obj /\ LockstepTypeOK
  BY HandedOutFacts, Addresses DEF TypeOK
<1>2. Listed = {}
  BY DEF Listed, ToSet
<1>3. \A r \in RootRefs : ~ IsYoung(r)
  <2>1. \A r \in RootRefs : (\E k \in DOMAIN stack : r = stack[k]) \/ \E n \in Name : r = globals[n]
    BY DEF RootRefs, RootSet
  <2>2. QED
    BY <2>1 DEF StackToDo, GlobalsToDo
<1>4. RootRefs \subseteq S
  BY <1>1, <1>3 DEF HeapIsClosed
<1>5. \A x \in S : Children(refs, x) \subseteq S
  <2>1. ASSUME NEW x \in S, NEW i \in Slot, refs[x][i] # Null
        PROVE  refs[x][i] \in S
    <3>1. refs[x][i] \in HandedOut
      BY <1>1, <2>1 DEF HeapIsClosed, Children
    <3>2. ~ IsYoung(refs[x][i])
      BY <1>2, <2>1 DEF EdgesAreListed, SlotsToDo
    <3>3. QED
      BY <1>1, <3>1, <3>2
  <2>. HIDE DEF S
  <2>2. QED
    BY <2>1 DEF Children
<1>6. LiveAddresses \subseteq S
  <2>1. PICK T : T = S
    OBVIOUS
  <2>2. LiveAddresses \subseteq T
    BY <1>1, <1>4, <1>5, <2>1, Lives
  <2>3. QED
    BY <2>1, <2>2
<1>7. QED
  BY <1>2, <1>4, <1>5, <1>6

\* The nursery is emptied: all that the program can reach has left it.
LEMMA EvacuationDoneIInv ==
  ASSUME IInv, EvacuationDone
  PROVE  IInv'
<1>1. /\ pc = "fields" /\ remembered = <<>> /\ worklist = <<>>
      /\ youngFree' = OldSize + 1 /\ forward' = [a \in Obj |-> Null]
      /\ UNCHANGED lockstepVars /\ old' = old /\ nurserySize' = nurserySize
      /\ remembered' = remembered /\ worklist' = worklist /\ wasted' = wasted
  BY DEF EvacuationDone
<1>2. /\ TypeOK /\ LockstepTypeOK /\ FreeIsSound(old) /\ EdgesAreListed /\ StagesAgree
      /\ FreeIsBlank /\ HeapIsClosed /\ CopiesAgree /\ FaithfulInTheEnd
      /\ ~ wasted => IsTiled(old) /\ ObjectsAreUsed
  BY <1>1 DEF IInv, Bookkeeping, GraphHolds, OldIsTiled, TypeOK, Stopped
<1>3. /\ pc' \in {"run", "roots", "old", "take", "large"}
      /\ then' \in {"run", "take", "large"} /\ major' \in BOOLEAN
  BY <1>2 DEF EvacuationDone, TypeOK
<1>4. /\ Listed = {}
      /\ RootRefs \subseteq OldAddress \ FreeUnits(old)
      /\ \A x \in OldAddress \ FreeUnits(old) :
           Children(refs, x) \subseteq OldAddress \ FreeUnits(old)
      /\ LiveAddresses \subseteq OldAddress \ FreeUnits(old)
  BY <1>1, <1>2, NothingYoungIsLeft DEF StagesAgree
<1>5. \A x \in OldAddress : Final(forward, x) = x
  <2>1. ASSUME NEW x \in OldAddress
        PROVE  forward[x] = Null
    <3>1. x \in Obj /\ x \notin (OldSize + 1) .. (youngFree - 1)
      BY <1>2, Addresses
    <3>2. QED
      BY <1>2, <3>1 DEF CopiesAgree
  <2>2. QED
    BY <2>1 DEF Final
<1>6. Faithful
  BY <1>2, <1>4, <1>5 DEF Faithful, FaithfulInTheEnd
<1>7. /\ LockstepTypeOK' /\ Faithful' /\ LiveAddresses' = LiveAddresses /\ RootRefs' = RootRefs
      /\ refs' = refs
  BY <1>1, <1>2, <1>6, SameHeap DEF lockstepVars
<1>8. TypeOK'
  <2>1. youngFree' \in (OldSize + 1) .. (OldSize + nurserySize + 1)
    BY <1>1, <1>2, Addresses
  <2>2. forward' \in [Obj -> OldAddress \cup {Null}]
    BY <1>1
  <2>3. QED
    BY <1>1, <1>2, <1>3, <1>7, <2>1, <2>2 DEF TypeOK, OldTypeOK
<1>9. EdgesAreListed' /\ Listed' = {}
  <2>1. \A x : SlotsToDo(x)' = SlotsToDo(x)
    BY <1>1, <1>7 DEF SlotsToDo, IsYoung, Young
  <2>2. Listed' = Listed
    BY <1>1 DEF Listed
  <2>3. QED
    BY <1>2, <1>4, <2>1, <2>2 DEF EdgesAreListed
<1>10. StagesAgree'
  BY <1>1, <1>3 DEF StagesAgree
<1>11. HandedOut' = OldAddress \ FreeUnits(old)
  <2>1. (OldSize + 1) .. (youngFree' - 1) = {}
    BY <1>1, <1>2, Addresses
  <2>2. QED
    BY <1>1, <2>1 DEF HandedOut
<1>12. HeapIsClosed' /\ FreeIsBlank'
  BY <1>1, <1>2, <1>4, <1>7, <1>9, <1>11 DEF HeapIsClosed, FreeIsBlank
<1>13. GraphHolds'
  BY <1>1, <1>7, <1>8, <1>12, WholeHeapHolds
<1>14. OldIsTiled'
  BY <1>1, <1>2, <1>3, <1>7 DEF OldIsTiled, ObjectsAreUsed, OnlyReservationsCorrupt
<1>15. QED
  BY <1>1, <1>2, <1>8, <1>9, <1>10, <1>13, <1>14 DEF IInv, Bookkeeping

(***************************************************************************)
(* A major collection                                                      *)
(***************************************************************************)

\* In an old generation that is tiled the walk comes to every header, and to
\* nothing else.
LEMMA TiledWalk ==
  ASSUME NEW o \in OldGeneration, HeadersEnd(o), EndToEnd(o)
  PROVE  Walked(o) = Headers(o) /\ ~ Unwalkable(o)
<1>. DEFINE W == Walked(o)
            H == Headers(o)
<1>1. o.bump \in 0 .. OldSize /\ OldSize \in Nat
  BY SizeAssumption DEF OldGeneration
<1>2. /\ \A x \in W : x \in Int /\ 1 <= x /\ x <= o.bump /\ x \in OldAddress
      /\ 1 <= o.bump => 1 \in W
      /\ \A x \in W : o.size[x] # 0 /\ x + o.size[x] <= o.bump => x + o.size[x] \in W
      /\ \A x \in W : x = 1 \/ \E p \in W : o.size[p] # 0 /\ p + o.size[p] = x
  <2>1. WalkIsOrderly(o, 1, W)
    BY WalkedFacts
  <2>2. \A x \in W : x \in 1 .. o.bump
    BY <2>1 DEF WalkIsOrderly
  <2>3. \A x \in W : x \in Int /\ 1 <= x /\ x <= o.bump /\ x \in OldAddress
    BY <1>1, <2>2 DEF OldAddress
  <2>4. QED
    BY <2>1, <2>3 DEF WalkIsOrderly
<1>3. /\ \A x : x \in H <=> x \in OldAddress /\ o.size[x] # 0
      /\ \A x \in H : x \in Int /\ 1 <= x /\ o.size[x] \in 1 .. OldSize /\ x + o.size[x] <= o.bump + 1
      /\ o.bump # 0 => 1 \in H
      /\ \A x \in H : x + o.size[x] \in H \cup {o.bump + 1}
      /\ \A x, y \in H : x < y => x + o.size[x] <= y
  <2>1. \A x : x \in H <=> x \in OldAddress /\ o.size[x] # 0
    BY DEF Headers
  <2>2. \A x \in H : x \in Int /\ 1 <= x /\ o.size[x] \in 1 .. OldSize
    <3>1. o.size \in [OldAddress -> 0 .. OldSize]
      BY DEF OldGeneration
    <3>2. \A x \in H : o.size[x] \in 0 .. OldSize /\ o.size[x] # 0
      BY <2>1, <3>1
    <3>3. QED
      BY <1>1, <2>1, <3>2 DEF OldAddress
  <2>3. \A x \in H : x + o.size[x] <= o.bump + 1
    BY <2>1 DEF HeadersEnd
  <2>4. QED
    BY <2>1, <2>2, <2>3 DEF EndToEnd
<1>. HIDE DEF W, H
<1>4. W \subseteq H
  <2>1. SUFFICES ASSUME W \ H # {}
                 PROVE  FALSE
    OBVIOUS
  <2>2. W \ H \in SUBSET Nat
    BY <1>2
  <2>3. PICK x \in W \ H : \A y \in W \ H : x <= y
    BY <2>1, <2>2, LeastNatural
  <2>4. x # 1
    BY <1>1, <1>2, <1>3, <2>3
  <2>5. PICK p \in W : o.size[p] # 0 /\ p + o.size[p] = x
    BY <1>2, <2>3, <2>4
  <2>6. p \in H
    BY <1>2, <1>3, <2>5
  <2>7. QED
    BY <1>1, <1>2, <1>3, <2>3, <2>5, <2>6
<1>5. ASSUME NEW x \in H
      PROVE  x \in W
  <2>1. SUFFICES ASSUME x \notin W
                 PROVE  FALSE
    OBVIOUS
  <2>2. x \in Int /\ 1 <= x /\ x <= o.bump
    BY <1>1, <1>3
  <2>3. 1 \in W /\ 1 < x
    BY <1>1, <1>2, <2>1, <2>2
  <2>. DEFINE T == {w \in W : w < x}
  <2>4. T \in SUBSET (0 .. OldSize) /\ T # {}
    BY <1>1, <1>2, <2>3
  <2>5. PICK w \in T : \A y \in T : y <= w
    <3>. HIDE DEF T
    <3>1. QED
      BY <1>1, <2>4, GreatestNatural
  <2>6. w \in W /\ w \in H /\ w < x
    BY <1>4
  <2>7. w + o.size[w] <= x /\ o.size[w] # 0 /\ w < w + o.size[w]
    BY <1>3, <2>6
  <2>8. w + o.size[w] \in W
    BY <1>1, <1>2, <1>3, <2>2, <2>6, <2>7
  <2>9. w + o.size[w] < x
    BY <1>2, <2>1, <2>2, <2>7, <2>8
  <2>10. w + o.size[w] <= w
    BY <2>5, <2>8, <2>9
  <2>11. QED
    BY <1>2, <2>6, <2>7, <2>8, <2>10
<1>6. W = H
  BY <1>4, <1>5
<1>7. QED
  BY <1>3, <1>6 DEF W, H, Unwalkable

\* mark_old and sweep_old.
LEMMA MarkAndSweepIInv ==
  ASSUME IInv, MarkAndSweep
  PROVE  IInv'
<1>1. /\ pc = "old" /\ ~ Stopped
      /\ TypeOK /\ LockstepTypeOK /\ FreeIsSound(old) /\ EdgesAreListed /\ FreeIsBlank
      /\ remembered = <<>> /\ worklist = <<>> /\ youngFree = OldSize + 1
      /\ forward = [a \in Obj |-> Null] /\ old \in OldGeneration
      /\ ~ wasted => IsTiled(old) /\ ObjectsAreUsed
  BY Addresses DEF MarkAndSweep, IInv, Bookkeeping, StagesAgree, GraphHolds, OldIsTiled, TypeOK,
                   Stopped
<1>2. Faithful /\ HeapIsClosed /\ LiveAddresses \subseteq HandedOut
  BY <1>1, WholeHeap DEF IInv
<1>3. HandedOut = OldAddress \ FreeUnits(old) /\ OldAddress \subseteq Obj
  <2>1. (OldSize + 1) .. (youngFree - 1) = {}
    BY <1>1, Addresses
  <2>2. QED
    BY <1>1, <2>1, Addresses DEF HandedOut
<1>4. PICK o, marked : o = old /\ marked = LiveAddresses
  OBVIOUS
<1>5. o \in OldGeneration /\ HeadersEnd(o) /\ marked \subseteq OldAddress
  BY <1>1, <1>2, <1>3, <1>4 DEF FreeIsSound, HeadersEnd
<1>. DEFINE K == Kept(o, marked)
<1>6. ASSUME ~ wasted
      PROVE  ~ Unwalkable(o) /\ marked \subseteq K
  <2>1. EndToEnd(o) /\ marked \subseteq Headers(o) \ o.vacant
    BY <1>1, <1>4, <1>5, <1>6 DEF IsTiled, ObjectsAreUsed
  <2>2. Walked(o) = Headers(o) /\ ~ Unwalkable(o)
    BY <1>5, <2>1, TiledWalk
  <2>3. QED
    BY <2>1, <2>2 DEF Kept
<1>7. CASE Unwalkable(o)
  <2>1. Panic("broken")
    BY <1>4, <1>7 DEF MarkAndSweep
  <2>2. QED
    BY <1>1, <1>6, <1>7, <2>1, PanicIInv
<1>8. CASE ~ Unwalkable(o)
  <2>1. /\ \E list \in Ascending(Runs(o, marked)) : old' = Swept(o, marked, list)
        /\ refs' = [a \in Obj |-> IF a \in K THEN refs[a] ELSE Blank]
        /\ stamp' = [a \in Obj |-> IF a \in K THEN stamp[a] ELSE Null]
        /\ IF marked \subseteq K THEN pc' = then /\ wasted' = FALSE
           ELSE pc' = "lost" /\ wasted' = wasted
        /\ major' = FALSE /\ then' = "run"
        /\ UNCHANGED <<roots, modelState, young, forward, remembered, worklist>>
    BY <1>4, <1>8 DEF MarkAndSweep
  <2>2. /\ old' \in OldGeneration /\ FreeIsSound(old') /\ IsTiled(old')
        /\ K \subseteq Headers(old') \ old'.vacant
        /\ K \cap FreeUnits(old') = {}
    <3>1. PICK list \in Ascending(Runs(o, marked)) : old' = Swept(o, marked, list)
      BY <2>1
    <3>2. QED
      BY <1>5, <1>8, <3>1, SweptFacts
  <2>3. K \subseteq marked /\ K \subseteq OldAddress
    BY <1>5 DEF Kept
  <2>. HIDE DEF K
  <2>4. /\ stack' = stack /\ globals' = globals
        /\ mStack' = mStack /\ mGlobals' = mGlobals /\ mRefs' = mRefs
        /\ youngFree' = youngFree /\ nurserySize' = nurserySize /\ forward' = forward
        /\ remembered' = remembered /\ worklist' = worklist
    BY <2>1 DEF roots, modelState, young
  <2>5. refs' \in [Obj -> [Slot -> Ref]] /\ stamp' \in [Obj -> IdRef]
    <3>1. Blank \in [Slot -> Ref] /\ Null \in IdRef
      BY DEF Blank, Ref, IdRef
    <3>2. refs \in [Obj -> [Slot -> Ref]] /\ stamp \in [Obj -> IdRef]
      BY <1>1 DEF LockstepTypeOK, IdRef
    <3>3. QED
      BY <2>1, <3>1, <3>2
  <2>6. /\ \A a \in K : a \in Obj /\ refs'[a] = refs[a] /\ stamp'[a] = stamp[a]
        /\ \A a \in Obj : a \notin K => refs'[a] = Blank
    BY <1>3, <2>1, <2>3
  <2>7. LockstepTypeOK'
    BY <1>1, <2>4, <2>5 DEF LockstepTypeOK, RootsTypeOK, IdRef
  <2>8. TypeOK' /\ pc' \in {"run", "take", "large", "lost"}
    <3>1. OldTypeOK'
      BY <2>2 DEF OldTypeOK, OldGeneration
    <3>2. /\ pc' \in {"run", "take", "large", "lost"} /\ then' \in {"run", "take", "large"}
          /\ major' \in BOOLEAN /\ wasted' \in BOOLEAN
      BY <1>1, <2>1 DEF TypeOK
    <3>3. QED
      BY <1>1, <2>4, <2>7, <3>1, <3>2 DEF TypeOK
  <2>9. EdgesAreListed'
    <3>1. Listed' = Listed /\ \A x : IsYoung(x)' <=> IsYoung(x)
      BY <2>4 DEF Listed, IsYoung, Young
    <3>2. ASSUME NEW x \in OldAddress
          PROVE  SlotsToDo(x)' \subseteq SlotsToDo(x)
      <4>1. CASE x \in K
        BY <2>6, <3>1, <4>1 DEF SlotsToDo
      <4>2. CASE x \notin K
        <5>1. \A i \in Slot : ~ IsYoung(refs'[x][i])
          BY <1>3, <2>6, <4>2 DEF IsYoung, Blank
        <5>2. QED
          BY <3>1, <5>1 DEF SlotsToDo
      <4>3. QED
        BY <4>1, <4>2
    <3>3. QED
      BY <1>1, <3>1, <3>2 DEF EdgesAreListed
  <2>10. StagesAgree'
    BY <1>1, <2>4, <2>8 DEF StagesAgree
  <2>11. Bookkeeping'
    BY <2>2, <2>8, <2>9, <2>10 DEF Bookkeeping
  <2>12. FreeIsBlank'
    <3>1. FreeUnits(old') \subseteq Obj
      BY <1>3 DEF FreeUnits
    <3>2. QED
      BY <2>2, <2>6, <3>1 DEF FreeIsBlank
  <2>13. CASE marked \subseteq K
    <3>1. marked = K /\ wasted' = FALSE /\ pc' # "lost"
      BY <1>1, <2>1, <2>3, <2>13 DEF TypeOK
    <3>2. Faithful' /\ LiveAddresses' = LiveAddresses
      <4>1. \A x \in LiveAddresses : refs'[x] = refs[x] /\ stamp'[x] = stamp[x]
        BY <1>4, <2>6, <3>1
      <4>2. QED
        BY <1>1, <1>2, <2>4, <2>5, <4>1, LiveUntouched
    <3>3. /\ K \subseteq HandedOut' /\ HandedOut' \subseteq Obj /\ Listed' = {}
      <4>1. K \subseteq OldAddress \ FreeUnits(old')
        BY <2>2, <2>3
      <4>2. HandedOut' = (OldAddress \ FreeUnits(old')) \cup (OldSize + 1) .. (youngFree' - 1)
        BY DEF HandedOut
      <4>3. (OldSize + 1) .. (youngFree' - 1) = {}
        BY <1>1, <2>4, Addresses
      <4>4. Listed' = {}
        BY <1>1, <2>4 DEF Listed, ToSet
      <4>5. QED
        BY <1>3, <4>1, <4>2, <4>3, <4>4
    <3>4. /\ RootRefs' \subseteq K /\ \A x \in K : Children(refs', x) \subseteq K
      BY <1>4, <2>7, <3>1, <3>2, NewLives
    <3>5. HeapIsClosed'
      <4>1. ASSUME NEW x \in HandedOut'
            PROVE  Children(refs', x) \subseteq HandedOut'
        <5>1. CASE x \in K
          BY <3>3, <3>4, <5>1
        <5>2. CASE x \notin K
          BY <2>6, <3>3, <5>2 DEF Children, Blank
        <5>3. QED
          BY <5>1, <5>2
      <4>2. QED
        BY <3>3, <3>4, <4>1 DEF HeapIsClosed
    <3>6. \A x \in Obj : forward'[x] = Null
      BY <1>1, <2>4
    <3>7. GraphHolds'
      BY <2>8, <2>12, <3>2, <3>5, <3>6, WholeHeapHolds
    <3>8. ObjectsAreUsed'
      BY <1>4, <2>2, <3>1, <3>2, <3>6 DEF ObjectsAreUsed
    <3>9. OldIsTiled'
      BY <2>2, <2>8, <3>1, <3>8 DEF OldIsTiled, OnlyReservationsCorrupt
    <3>10. QED
      BY <2>11, <3>7, <3>9 DEF IInv
  <2>14. CASE ~ marked \subseteq K
    <3>1. pc' = "lost" /\ wasted' = wasted /\ wasted
      BY <1>6, <2>1, <2>14 DEF K
    <3>2. GraphHolds'
      BY <2>12, <3>1 DEF GraphHolds, Stopped
    <3>3. OldIsTiled'
      BY <3>1 DEF OldIsTiled, OnlyReservationsCorrupt
    <3>4. QED
      BY <2>11, <3>2, <3>3 DEF IInv
  <2>15. QED
    BY <2>13, <2>14
<1>9. QED
  BY <1>7, <1>8

(***************************************************************************)
(* Every step, and the theorems                                            *)
(***************************************************************************)

\* The invariant holds at first.
LEMMA InitIInv == Init => IInv
<1>. SUFFICES ASSUME Init
              PROVE  IInv
  OBVIOUS
<1>1. /\ stack = <<>> /\ globals = [n \in Name |-> Null]
      /\ mStack = <<>> /\ mGlobals = [n \in Name |-> Null]
      /\ refs = [a \in Obj |-> Blank] /\ stamp = [a \in Obj |-> Null]
      /\ mRefs = [d \in Id |-> Model!Blank]
  BY DEF Init, LockstepInit, RootsInit, Model!ModelInit, Model!RootsInit
<1>2. Blank \in [Slot -> Ref] /\ Model!Blank \in [Slot -> IdRef]
  BY DEF Blank, Model!Blank, Slot, Model!Slot, Ref, IdRef
<1>3. LockstepTypeOK
  BY <1>1, <1>2, MaxDepthAssumption DEF LockstepTypeOK, RootsTypeOK, Ref, IdRef
<1>4. LiveAddresses = {} /\ RootRefs = {}
  <2>1. RootRefs = {}
    BY <1>1 DEF RootRefs, RootSet
  <2>2. QED
    BY <1>3, <2>1, Lives
<1>5. Faithful
  BY <1>1, <1>4 DEF Faithful, PathsAgree, Means
<1>6. /\ old = [size |-> [a \in OldAddress |-> 0], vacant |-> {}, free |-> <<>>,
                bump |-> 0, used |-> 0]
      /\ nurserySize \in NurserySizes /\ nurserySize \in Nat \ {0} /\ youngFree = OldSize + 1
      /\ forward = [a \in Obj |-> Null] /\ remembered = <<>> /\ worklist = <<>>
      /\ pc = "run" /\ major = FALSE /\ then = "run" /\ wasted = FALSE
      /\ OldSize \in Nat \ {0}
  BY SizeAssumption DEF Init
<1>7. /\ old.size = [a \in OldAddress |-> 0] /\ old.vacant = {} /\ old.free = <<>>
      /\ old.bump = 0 /\ old.used = 0 /\ \A a \in OldAddress : old.size[a] = 0
  BY <1>6
<1>8. TypeOK
  <2>1. OldTypeOK
    <3>1. /\ [a \in OldAddress |-> 0] \in [OldAddress -> 0 .. OldSize]
          /\ 0 \in 0 .. OldSize /\ <<>> \in Seq(OldAddress) /\ {} \in SUBSET OldAddress
      BY <1>6
    <3>2. QED
      BY <1>6, <3>1 DEF OldTypeOK
  <2>2. forward \in [Obj -> OldAddress \cup {Null}] /\ remembered \in Seq(Obj)
        /\ worklist \in Seq(OldAddress)
    BY <1>6
  <2>3. youngFree \in (OldSize + 1) .. (OldSize + nurserySize + 1)
    BY <1>6
  <2>4. QED
    BY <1>3, <1>6, <2>1, <2>2, <2>3 DEF TypeOK
<1>9. FreeUnits(old) = OldAddress
  <2>1. \A u \in OldAddress : u > 0
    BY <1>6 DEF OldAddress
  <2>2. QED
    BY <1>7, <2>1 DEF FreeUnits
<1>10. FreeIsSound(old)
  <2>1. Cardinality(OldAddress) = OldSize
    <3>1. Cardinality(1 .. OldSize) = IF 1 > OldSize THEN 0 ELSE OldSize - 1 + 1
      BY <1>6, FS_Interval
    <3>2. QED
      BY <1>6, <3>1 DEF OldAddress
  <2>2. old.used + Cardinality(FreeUnits(old)) <= OldSize
    BY <1>6, <1>7, <1>9, <2>1
  <2>3. DOMAIN old.free = {}
    BY <1>7
  <2>4. QED
    BY <1>7, <2>2, <2>3 DEF FreeIsSound
<1>11. IsTiled(old)
  <2>1. Headers(old) = {}
    BY <1>7 DEF Headers
  <2>2. TotalSize(old, {}) = 0
    <3>1. {unit \in {} \X (1 .. OldSize) : unit[2] <= old.size[unit[1]]} = {}
      OBVIOUS
    <3>2. QED
      BY <3>1, FS_EmptySet DEF TotalSize
  <2>3. EndToEnd(old)
    BY <1>7, <2>1 DEF EndToEnd
  <2>4. ToSet(old.free) = {}
    BY <1>7 DEF ToSet
  <2>5. Headers(old) \ old.vacant = {}
    BY <2>1
  <2>6. QED
    BY <1>7, <2>1, <2>2, <2>3, <2>4, <2>5 DEF IsTiled
<1>12. \A x \in Obj : Children(refs, x) = {} /\ SlotsToDo(x) = {}
  BY <1>1 DEF Children, SlotsToDo, IsYoung, Blank
<1>13. EdgesAreListed /\ Listed = {}
  BY <1>6, <1>8, <1>12, Addresses DEF EdgesAreListed, Listed, ToSet
<1>14. StagesAgree
  BY <1>6 DEF StagesAgree
<1>15. HeapIsClosed
  BY <1>4, <1>8, <1>12, <1>13, HandedOutFacts DEF HeapIsClosed
<1>16. FreeIsBlank
  BY <1>1, <1>8, <1>9, Addresses DEF FreeIsBlank
<1>17. CopiesAgree /\ FaithfulInTheEnd /\ ObjectsAreUsed
  BY <1>4, <1>5, <1>6 DEF CopiesAgree, FaithfulInTheEnd, Faithful, ObjectsAreUsed
<1>18. Bookkeeping
  BY <1>8, <1>10, <1>13, <1>14 DEF Bookkeeping
<1>19. GraphHolds
  BY <1>15, <1>16, <1>17 DEF GraphHolds
<1>20. OldIsTiled
  BY <1>6, <1>11, <1>17 DEF OldIsTiled, OnlyReservationsCorrupt
<1>21. QED
  BY <1>18, <1>19, <1>20 DEF IInv

\* Every step keeps it.
LEMMA NextIInv == IInv /\ [Next]_vars => IInv'
<1>. SUFFICES ASSUME IInv, [Next]_vars
              PROVE  IInv'
  OBVIOUS
<1>1. CASE Running /\ BothRootsStep /\ UNCHANGED genVars
  BY <1>1, RootsIInv
<1>2. CASE \E p \in DOMAIN stack, i \in Slot, c \in 0 .. Len(stack) : WriteField(p, i, c)
  BY <1>2, WriteFieldIInv
<1>3. CASE MayAlloc /\ AllocTake
  <2>1. pc \in {"run", "take"}
    BY <1>3 DEF MayAlloc, Running
  <2>2. QED
    BY <1>3, <2>1, AllocTakeIInv
<1>4. CASE AllocCollects
  <2>1. Running /\ Begin(FALSE, "take")
    BY <1>4 DEF AllocCollects, MayAlloc
  <2>2. QED
    BY <2>1, BeginIInv
<1>5. CASE AllocLarge
  BY <1>5, AllocLargeIInv
<1>6. CASE MinorCollect
  <2>1. Running /\ Begin(FALSE, "run")
    BY <1>6 DEF MinorCollect
  <2>2. QED
    BY <2>1, BeginIInv
<1>7. CASE Collect
  <2>1. Running /\ Begin(TRUE, "run")
    BY <1>7 DEF Collect
  <2>2. QED
    BY <2>1, BeginIInv
<1>8. CASE PromoteRoot
  BY <1>8, PromoteRootIInv
<1>9. CASE RootsDone
  BY <1>9, RootsDoneIInv
<1>10. CASE ScanField
  BY <1>10, ScanFieldIInv
<1>11. CASE ScanDone
  BY <1>11, ScanDoneIInv
<1>12. CASE EvacuationDone
  BY <1>12, EvacuationDoneIInv
<1>13. CASE MarkAndSweep
  BY <1>13, MarkAndSweepIInv
<1>14. CASE pc = "take" /\ AllocTake
  BY <1>14, AllocTakeIInv
<1>15. CASE LargeTake
  BY <1>15, LargeTakeIInv
<1>16. CASE LargeFails
  BY <1>16, LargeFailsIInv
<1>17. CASE UNCHANGED vars
  <2>1. /\ UNCHANGED QuietVars /\ youngFree' = youngFree /\ nurserySize' = nurserySize
        /\ forward' = forward /\ remembered' = remembered /\ worklist' = worklist
        /\ pc' = pc /\ major' = major /\ then' = then /\ wasted' = wasted
    BY <1>17 DEF vars, genVars, QuietVars, young
  <2>2. TypeOK'
    BY <2>1, QuietFacts DEF IInv, Bookkeeping, TypeOK
  <2>3. Bookkeeping'
    BY <2>1, <2>2, QuietFacts DEF IInv, Bookkeeping, StagesAgree
  <2>4. GraphHolds' /\ OldIsTiled'
    BY <2>1, QuietFacts DEF IInv, GraphHolds, OldIsTiled, Stopped, OnlyReservationsCorrupt
  <2>5. QED
    BY <2>3, <2>4 DEF IInv
<1>18. QED
  BY <1>1, <1>2, <1>3, <1>4, <1>5, <1>6, <1>7, <1>8, <1>9, <1>10, <1>11, <1>12, <1>13, <1>14,
     <1>15, <1>16, <1>17 DEF Next, Program, Collector

\* The invariant holds in every state the program comes to.
THEOREM InvariantHolds == Spec => []IInv
BY InitIInv, NextIInv, PTL DEF Spec

\* Whatever is promoted, reserved, forgotten, swept and handed out again, the bump
\* pointers stay within the generations and old_used does not exceed the old one.
THEOREM TypeCorrect == Spec => []TypeOK
<1>1. IInv => TypeOK
  BY DEF IInv, Bookkeeping
<1>2. QED
  BY <1>1, InvariantHolds, PTL

\* The write barrier is enough: whenever the program runs, an old object that
\* refers into the nursery is on the remembered set.
THEOREM EdgesAreRemembered == Spec => []EveryEdgeIsRemembered
<1>1. IInv => EveryEdgeIsRemembered
  <2>. SUFFICES ASSUME IInv, Running, NEW h \in LiveAddresses
                PROVE  IsYoung(h) \/ SlotsToDo(h) = {} \/ Contains(remembered, h)
    BY DEF EveryEdgeIsRemembered
  <2>1. /\ TypeOK /\ EdgesAreListed /\ worklist = <<>> /\ h \in HandedOut
    BY IdleFacts DEF Running
  <2>2. IsYoung(h) \/ h \in OldAddress
    BY <2>1, HandedOutFacts, Addresses
  <2>3. h \in Listed => h \in ToSet(remembered)
    BY <2>1 DEF Listed, ToSet
  <2>4. h \in ToSet(remembered) => Contains(remembered, h)
    BY DEF ToSet, Contains
  <2>5. QED
    BY <2>1, <2>2, <2>3, <2>4 DEF EdgesAreListed
<1>2. QED
  BY <1>1, InvariantHolds, PTL

\* A minor collection looks at the roots, at what is remembered and at what it has
\* promoted, at no other old object; when that is done nothing that the program
\* can reach is left in the nursery, which is then taken to be empty.
THEOREM NurseryIsLeft ==
  Spec => [](pc = "fields" /\ remembered = <<>> /\ worklist = <<>>
               => LiveAddresses \subseteq OldAddress)
<1>1. IInv => (pc = "fields" /\ remembered = <<>> /\ worklist = <<>>
                 => LiveAddresses \subseteq OldAddress)
  BY NothingYoungIsLeft DEF IInv, Bookkeeping, StagesAgree, GraphHolds, Stopped
<1>2. QED
  BY <1>1, InvariantHolds, PTL

\* At every step of a collection the program's paths lead to the objects they led
\* to, through the nursery, the old generation or both, and between operations
\* the heap is the program's graph: nothing was missed, nothing promoted twice.
THEOREM GraphStays == Spec => []GraphIsKept
<1>1. IInv => GraphIsKept
  <2>1. ASSUME IInv, ~ Stopped
        PROVE  PathsAgree
    BY <2>1 DEF IInv, GraphHolds, FaithfulInTheEnd
  <2>2. ASSUME IInv, Running
        PROVE  Faithful
    BY <2>2, IdleFacts DEF Running
  <2>3. QED
    BY <2>1, <2>2 DEF GraphIsKept
<1>2. QED
  BY <1>1, InvariantHolds, PTL

\* While no reservation has been forgotten the old generation is divided into
\* blocks without a gap, the list has each vacant block once, the others add up
\* to old_used, and no object the program can reach is vacant.
THEOREM OldAccounts == Spec => []OldIsAccountedFor
<1>1. IInv => OldIsAccountedFor
  <2>. SUFFICES ASSUME IInv, Running, ~ wasted
                PROVE  /\ ~ Unwalkable(old)
                       /\ ToSet(old.free) = old.vacant
                       /\ Len(old.free) = Cardinality(old.vacant)
                       /\ old.vacant \subseteq Walked(old)
                       /\ old.used = TotalSize(old, Walked(old) \ old.vacant)
                       /\ LiveAddresses \cap OldAddress \subseteq Walked(old) \ old.vacant
    BY DEF OldIsAccountedFor
  <2>1. /\ TypeOK /\ FreeIsSound(old) /\ IsTiled(old)
        /\ LiveAddresses \cap OldAddress \subseteq Headers(old) \ old.vacant
    BY IdleFacts DEF Running
  <2>2. PICK o : o = old
    OBVIOUS
  <2>3. o \in OldGeneration /\ FreeIsSound(o) /\ IsTiled(o)
    BY <2>1, <2>2, Addresses
  <2>4. Walked(o) = Headers(o) /\ ~ Unwalkable(o)
    BY <2>3, TiledWalk DEF IsTiled, FreeIsSound, HeadersEnd
  <2>5. Len(o.free) = Cardinality(o.vacant)
    <3>. DEFINE n == Len(o.free)
    <3>1. /\ o.free \in Seq(OldAddress) /\ n \in Nat /\ DOMAIN o.free = 1 .. n
          /\ o.free \in [1 .. n -> OldAddress] /\ o.size \in [OldAddress -> 0 .. OldSize]
      BY <2>3 DEF OldGeneration
    <3>2. \A i, j \in 1 .. n : o.free[i] = o.free[j] => i = j
      <4>1. TAKE i, j \in 1 .. n
      <4>2. SUFFICES ASSUME o.free[i] = o.free[j], i # j
                     PROVE  FALSE
        OBVIOUS
      <4>3. o.free[i] + o.size[o.free[i]] <= o.free[i] /\ o.size[o.free[i]] # 0
        BY <2>3, <3>1, <4>2 DEF FreeIsSound
      <4>4. o.free[i] \in Int /\ o.size[o.free[i]] \in 0 .. OldSize /\ OldSize \in Nat
        <5>1. o.free[i] \in OldAddress
          BY <3>1
        <5>2. QED
          BY <3>1, <5>1, SizeAssumption DEF OldAddress
      <4>5. QED
        BY <4>3, <4>4
    <3>3. \A v : v \in o.vacant <=> \E i \in 1 .. n : o.free[i] = v
      BY <2>3, <3>1 DEF IsTiled, ToSet
    <3>4. PICK f, T : f = o.free /\ T = o.vacant
      OBVIOUS
    <3>. HIDE DEF n
    <3>5. f \in Bijection(1 .. n, T)
      <4>1. f \in [1 .. n -> T]
        <5>1. DOMAIN f = 1 .. n /\ \A i \in 1 .. n : f[i] \in T
          BY <3>1, <3>3, <3>4
        <5>2. f = [i \in 1 .. n |-> f[i]]
          BY <3>1, <3>4
        <5>3. QED
          BY <5>1, <5>2
      <4>2. \A i, j \in 1 .. n : f[i] = f[j] => i = j
        BY <3>2, <3>4
      <4>3. \A v \in T : \E i \in 1 .. n : f[i] = v
        BY <3>3, <3>4
      <4>4. QED
        BY ONLY <4>1, <4>2, <4>3 DEF Bijection, Injection, Surjection, IsInjective
    <3>6. IsFiniteSet(1 .. n) /\ Cardinality(1 .. n) = n
      <4>1. IsFiniteSet(1 .. n) /\ Cardinality(1 .. n) = IF 1 > n THEN 0 ELSE n - 1 + 1
        BY <3>1, FS_Interval
      <4>2. QED
        BY <3>1, <4>1
    <3>7. Cardinality(T) = n
      <4>1. ExistsBijection(1 .. n, T)
        BY <3>5 DEF ExistsBijection
      <4>2. QED
        BY <3>6, <4>1, FS_Bijection
    <3>8. QED
      BY <3>4, <3>7 DEF n
  <2>6. QED
    BY <2>1, <2>2, <2>3, <2>4, <2>5 DEF IsTiled
<1>2. QED
  BY <1>1, InvariantHolds, PTL

\* A major collection stops in poison, or frees what the program can reach, only
\* where the first reservation of a large object has been forgotten.
THEOREM OnlyWastedCorrupts == Spec => []OnlyReservationsCorrupt
<1>1. IInv => OnlyReservationsCorrupt
  BY DEF IInv, OldIsTiled
<1>2. QED
  BY <1>1, InvariantHolds, PTL
=============================================================================
