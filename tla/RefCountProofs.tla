--------------------------- MODULE RefCountProofs ---------------------------
(***************************************************************************)
(* The reference counter never lets a count fall below the references that *)
(* are still to be released, and what its cascades free the program cannot *)
(* reach: it implements the shadow model.  The counts of RefCount are      *)
(* cardinalities, so the proof begins with how a cardinality changes when  *)
(* one entry of a function or a sequence does.                             *)
(***************************************************************************)
EXTENDS RefCount, GraphProofs

(***************************************************************************)
(* Counting                                                                *)
(***************************************************************************)

\* How many places of D have o.
Count(f, D, o) == Cardinality({d \in D : f[d] = o})

\* One, if h is o.
One(h, o) == IF h = o THEN 1 ELSE 0

\* A count is a number, and it is positive if o is anywhere.
LEMMA CountType ==
  ASSUME NEW D, IsFiniteSet(D), NEW f, NEW o
  PROVE  /\ Count(f, D, o) \in Nat
         /\ \A d \in D : f[d] = o => Count(f, D, o) >= 1
         /\ Count(f, D, o) >= 1 => \E d \in D : f[d] = o
<1>. DEFINE at == {d \in D : f[d] = o}
<1>1. IsFiniteSet(at) /\ Cardinality(at) \in Nat
  BY FS_Subset, FS_CardinalityType
<1>2. Cardinality(at) = 0 <=> at = {}
  BY <1>1, FS_EmptySet
<1>3. (\E d \in D : f[d] = o) <=> at # {}
  OBVIOUS
<1>4. Count(f, D, o) = Cardinality(at)
  BY DEF Count
<1>. HIDE DEF at
<1>. QED
  BY <1>1, <1>2, <1>3, <1>4

\* A place that changes takes its old content out of the counts, and puts the
\* new one in.
LEMMA CountOfChanged ==
  ASSUME NEW D, IsFiniteSet(D), NEW f, NEW g, NEW d \in D,
         \A e \in D \ {d} : g[e] = f[e], NEW o
  PROVE  Count(g, D, o) + One(f[d], o) = Count(f, D, o) + One(g[d], o)
<1>. DEFINE others == {e \in D \ {d} : f[e] = o}
<1>1. IsFiniteSet(others) /\ Cardinality(others) \in Nat /\ d \notin others
  BY FS_RemoveElement, FS_Subset, FS_CardinalityType
<1>2. /\ Cardinality(others \cup {d}) = Cardinality(others) + 1
  BY <1>1, FS_AddElement
<1>3. {e \in D : f[e] = o} = IF f[d] = o THEN others \cup {d} ELSE others
  OBVIOUS
<1>4. {e \in D : g[e] = o} = IF g[d] = o THEN others \cup {d} ELSE others
  OBVIOUS
<1>. HIDE DEF others
<1>. QED
  BY <1>1, <1>2, <1>3, <1>4 DEF Count, One

\* Places that lose their content raise no count.
LEMMA CountOfCleared ==
  ASSUME NEW D, IsFiniteSet(D), NEW f, NEW g, NEW o,
         \A d \in D : g[d] = o => f[d] = o
  PROVE  Count(g, D, o) <= Count(f, D, o)
<1>1. /\ IsFiniteSet({d \in D : f[d] = o})
      /\ {d \in D : g[d] = o} \in SUBSET {d \in D : f[d] = o}
  BY FS_Subset
<1>. QED
  BY <1>1, FS_Subset DEF Count

\* A count looks at nothing but the places.
LEMMA CountOfSame ==
  ASSUME NEW D, NEW f, NEW g, NEW o, \A d \in D : g[d] = o <=> f[d] = o
  PROVE  Count(g, D, o) = Count(f, D, o)
<1>1. {d \in D : g[d] = o} = {d \in D : f[d] = o}
  OBVIOUS
<1>. QED
  BY <1>1 DEF Count

\* Occurrences in a sequence are a count.
LEMMA OccurrencesType ==
  ASSUME NEW S, NEW s \in Seq(S), NEW o
  PROVE  /\ IsFiniteSet(DOMAIN s)
         /\ Occurrences(s, o) = Count(s, DOMAIN s, o)
         /\ Occurrences(s, o) \in Nat
         /\ \A i \in DOMAIN s : s[i] = o => Occurrences(s, o) >= 1
<1>1. IsFiniteSet(DOMAIN s)
  <2>1. DOMAIN s = 1 .. Len(s) /\ Len(s) \in Nat
    OBVIOUS
  <2>. QED
    BY <2>1, FS_Interval
<1>2. Occurrences(s, o) = Count(s, DOMAIN s, o)
  BY DEF Occurrences, Count
<1>. QED
  BY <1>1, <1>2, CountType

\* Concatenation adds the occurrences.
LEMMA OccurrencesInConcat ==
  ASSUME NEW S, NEW s \in Seq(S), NEW t \in Seq(S), NEW o
  PROVE  Occurrences(s \o t, o) = Occurrences(s, o) + Occurrences(t, o)
<1>1. /\ Len(s) \in Nat /\ Len(t) \in Nat /\ s \o t \in Seq(S)
      /\ DOMAIN s = 1 .. Len(s) /\ DOMAIN t = 1 .. Len(t) /\ DOMAIN (s \o t) = 1 .. (Len(s) + Len(t))
      /\ \A i \in 1 .. (Len(s) + Len(t)) :
           (s \o t)[i] = IF i <= Len(s) THEN s[i] ELSE t[i - Len(s)]
  OBVIOUS
<1>. DEFINE inS == {i \in DOMAIN s : s[i] = o}
            inT == {i \in DOMAIN t : t[i] = o}
            shifted == {i \in (Len(s) + 1) .. (Len(s) + Len(t)) : t[i - Len(s)] = o}
            whole == {i \in DOMAIN (s \o t) : (s \o t)[i] = o}
<1>2. whole = inS \cup shifted /\ inS \cap shifted = {}
  BY <1>1
<1>3. IsFiniteSet(inS) /\ IsFiniteSet(inT) /\ IsFiniteSet(whole) /\ IsFiniteSet(shifted)
  <2>1. IsFiniteSet(DOMAIN s) /\ IsFiniteSet(DOMAIN t) /\ IsFiniteSet(DOMAIN (s \o t))
    BY <1>1, OccurrencesType
  <2>. QED
    BY <1>2, <2>1, FS_Subset
<1>4. Cardinality(shifted) = Cardinality(inT)
  <2>. DEFINE shift == [i \in inT |-> i + Len(s)]
  <2>1. shift \in [inT -> shifted]
    BY <1>1
  <2>2. \A i, j \in inT : shift[i] = shift[j] => i = j
    BY <1>1
  <2>3. ASSUME NEW k \in shifted
        PROVE  \E i \in inT : shift[i] = k
    <3>1. k - Len(s) \in inT /\ shift[k - Len(s)] = k
      BY <1>1
    <3>. QED
      BY <3>1
  <2>. HIDE DEF shift, inT, shifted
  <2>4. shift \in Bijection(inT, shifted)
    <3>1. shift \in Injection(inT, shifted)
      BY <2>1, <2>2 DEF Injection, IsInjective
    <3>2. shift \in Surjection(inT, shifted)
      BY <2>1, <2>3 DEF Surjection
    <3>. QED
      BY <3>1, <3>2 DEF Bijection
  <2>5. ExistsBijection(inT, shifted)
    BY <2>4 DEF ExistsBijection
  <2>. QED
    BY <1>3, <2>5, FS_Bijection
<1>5. /\ Occurrences(s, o) = Cardinality(inS) /\ Occurrences(t, o) = Cardinality(inT)
      /\ Occurrences(s \o t, o) = Cardinality(whole)
  BY DEF Occurrences
<1>. HIDE DEF inS, inT, shifted, whole
<1>6. /\ Cardinality(inS) \in Nat /\ Cardinality(shifted) \in Nat
      /\ Cardinality(inS \cap shifted) = 0
  BY <1>2, <1>3, FS_CardinalityType, FS_EmptySet
<1>7. Cardinality(whole) = Cardinality(inS) + Cardinality(shifted) - Cardinality(inS \cap shifted)
  BY <1>2, <1>3, FS_Union
<1>. QED
  BY <1>4, <1>5, <1>6, <1>7

\* The shortest sequences.
LEMMA OccurrencesInShort ==
  ASSUME NEW h, NEW o
  PROVE  Occurrences(<<>>, o) = 0 /\ Occurrences(<<h>>, o) = One(h, o)
<1>1. {i \in DOMAIN <<>> : <<>>[i] = o} = {}
  OBVIOUS
<1>2. {i \in DOMAIN <<h>> : <<h>>[i] = o} = IF h = o THEN {1} ELSE {}
  OBVIOUS
<1>. QED
  BY <1>1, <1>2, FS_EmptySet, FS_Singleton DEF Occurrences, One

\* What the operations on sequences do to the occurrences.
LEMMA OccurrencesInAppend ==
  ASSUME NEW S, NEW s \in Seq(S), NEW h \in S, NEW o
  PROVE  Occurrences(Append(s, h), o) = Occurrences(s, o) + One(h, o)
<1>. DEFINE last == <<h>>
<1>1. Append(s, h) = s \o last /\ last \in Seq(S)
  OBVIOUS
<1>2. Occurrences(last, o) = One(h, o)
  BY OccurrencesInShort
<1>. HIDE DEF last
<1>3. Occurrences(s \o last, o) = Occurrences(s, o) + Occurrences(last, o)
  BY <1>1, OccurrencesInConcat
<1>. QED
  BY <1>1, <1>2, <1>3

\* Cut in two, a sequence keeps its occurrences.
LEMMA OccurrencesInParts ==
  ASSUME NEW S, NEW s \in Seq(S), NEW d \in 0 .. Len(s), NEW o
  PROVE  /\ SubSeq(s, 1, d) \in Seq(S) /\ SubSeq(s, d + 1, Len(s)) \in Seq(S)
         /\ Occurrences(s, o) =
              Occurrences(SubSeq(s, 1, d), o) + Occurrences(SubSeq(s, d + 1, Len(s)), o)
<1>. DEFINE a == SubSeq(s, 1, d)
            b == SubSeq(s, d + 1, Len(s))
<1>1. /\ a \in Seq(S) /\ Len(a) = d /\ \A i \in 1 .. d : a[i] = s[i]
      /\ b \in Seq(S) /\ Len(b) = Len(s) - d /\ \A i \in 1 .. (Len(s) - d) : b[i] = s[d + i]
      /\ Len(s) \in Nat /\ s \in [1 .. Len(s) -> S]
  OBVIOUS
<1>. HIDE DEF a, b
<1>2. a \o b \in [1 .. Len(s) -> S] /\ \A i \in 1 .. Len(s) : (a \o b)[i] = s[i]
  <2>0. /\ a \o b \in Seq(S) /\ Len(a \o b) = Len(a) + Len(b)
        /\ \A i \in 1 .. (Len(a) + Len(b)) : (a \o b)[i] = IF i <= Len(a) THEN a[i] ELSE b[i - Len(a)]
    <3>1. a \in Seq(S) /\ b \in Seq(S)
      BY <1>1
    <3>. QED
      BY <3>1
  <2>. DEFINE c == a \o b
  <2>. HIDE DEF c
  <2>1. /\ c \in Seq(S) /\ Len(c) = Len(s)
        /\ \A i \in 1 .. Len(s) : c[i] = IF i <= d THEN a[i] ELSE b[i - d]
    BY <1>1, <2>0 DEF c
  <2>2. ASSUME NEW i \in 1 .. Len(s)
        PROVE  c[i] = s[i]
    <3>1. CASE i <= d
      BY <1>1, <2>1, <3>1
    <3>2. CASE ~ (i <= d)
      <4>1. i - d \in 1 .. (Len(s) - d) /\ d + (i - d) = i
        BY <1>1, <3>2
      <4>. QED
        BY <1>1, <2>1, <3>2, <4>1
    <3>. QED
      BY <3>1, <3>2
  <2>3. c \in [1 .. Len(s) -> S]
    BY <2>1
  <2>. QED
    BY <2>2, <2>3 DEF c
<1>3. a \o b = s
  <2>. DEFINE c == a \o b
  <2>. HIDE DEF c
  <2>1. c \in [1 .. Len(s) -> S] /\ \A i \in 1 .. Len(s) : c[i] = s[i]
    BY <1>2 DEF c
  <2>2. c = s
    BY <1>1, <2>1
  <2>. QED
    BY <2>2 DEF c
<1>4. Occurrences(a \o b, o) = Occurrences(a, o) + Occurrences(b, o)
  BY <1>1, OccurrencesInConcat
<1>. QED
  BY <1>1, <1>3, <1>4 DEF a, b

\* The end taken off a sequence.
LEMMA OccurrencesInFront ==
  ASSUME NEW S, NEW s \in Seq(S), s # <<>>, NEW o
  PROVE  /\ SubSeq(s, 1, Len(s) - 1) \in Seq(S) /\ s[Len(s)] \in S /\ Len(s) \in DOMAIN s
         /\ Occurrences(s, o) = Occurrences(SubSeq(s, 1, Len(s) - 1), o) + One(s[Len(s)], o)
<1>1. SubSeq(s, 1, Len(s) - 1) \in Seq(S) /\ s[Len(s)] \in S /\ Len(s) \in DOMAIN s
  OBVIOUS
<1>2. s = Append(SubSeq(s, 1, Len(s) - 1), s[Len(s)])
  OBVIOUS
<1>. QED
  BY <1>1, <1>2, OccurrencesInAppend

\* The head taken off a sequence.
LEMMA OccurrencesInTail ==
  ASSUME NEW S, NEW s \in Seq(S), s # <<>>, NEW o
  PROVE  /\ Tail(s) \in Seq(S) /\ Head(s) \in S
         /\ Occurrences(s, o) = One(Head(s), o) + Occurrences(Tail(s), o)
<1>. DEFINE first == <<Head(s)>>
<1>1. Tail(s) \in Seq(S) /\ Head(s) \in S /\ first \in Seq(S)
  OBVIOUS
<1>2. s = first \o Tail(s)
  OBVIOUS
<1>3. Occurrences(first, o) = One(Head(s), o)
  BY OccurrencesInShort
<1>. HIDE DEF first
<1>4. Occurrences(first \o Tail(s), o) = Occurrences(first, o) + Occurrences(Tail(s), o)
  BY <1>1, OccurrencesInConcat
<1>. QED
  BY <1>1, <1>2, <1>3, <1>4

(***************************************************************************)
(* The filter for NULL handles                                             *)
(***************************************************************************)

\* A set of numbers has a least one.
LEMMA LeastNumber ==
  ASSUME NEW T \in SUBSET Nat, T # {}
  PROVE  \E m \in T : \A k \in T : m <= k
<1>1. PICK m \in T : \A k \in T : <<k, m>> \notin OpToRel(<, Nat)
  BY NatLessThanWellFounded, WFMin
<1>2. \A k \in T : ~ (k < m)
  BY <1>1 DEF OpToRel
<1>. QED
  BY <1>2

\* The filter's recursion, as far as m.
FiltersTo(s, m, g) ==
  /\ g \in [0 .. m -> Seq(Obj)]
  /\ g[0] = <<>>
  /\ \A n \in 1 .. m : g[n] = IF s[n] = Null THEN g[n - 1] ELSE Append(g[n - 1], s[n])

\* It has a solution.
LEMMA FilterExists ==
  ASSUME NEW s \in Seq(Ref), NEW m \in 0 .. Len(s)
  PROVE  \E g : FiltersTo(s, m, g)
<1>. DEFINE Bad == {k \in 0 .. Len(s) : ~ \E g : FiltersTo(s, k, g)}
<1>1. SUFFICES ASSUME Bad # {}
               PROVE  FALSE
  OBVIOUS
<1>2. Len(s) \in Nat /\ \A k \in 1 .. Len(s) : s[k] # Null => s[k] \in Obj
  BY DEF Ref
<1>3. PICK k \in Bad : \A j \in Bad : k <= j
  <2>1. Bad \in SUBSET Nat
    BY <1>2
  <2>. HIDE DEF Bad
  <2>. QED
    BY <1>1, <2>1, LeastNumber
<1>4. k # 0
  <2>. DEFINE g == [n \in 0 .. 0 |-> <<>>]
  <2>1. FiltersTo(s, 0, g)
    BY DEF FiltersTo
  <2>. QED
    BY <2>1
<1>5. PICK g : FiltersTo(s, k - 1, g)
  <2>1. k - 1 \in 0 .. Len(s) /\ ~ (k <= k - 1)
    BY <1>2, <1>4
  <2>. QED
    BY <1>3, <2>1
<1>. DEFINE h == [n \in 0 .. k |-> IF n < k THEN g[n]
                                   ELSE IF s[k] = Null THEN g[k - 1] ELSE Append(g[k - 1], s[k])]
<1>6. FiltersTo(s, k, h)
  <2>1. k \in 1 .. Len(s) /\ k - 1 \in 0 .. (k - 1) /\ g[k - 1] \in Seq(Obj)
    BY <1>2, <1>4, <1>5 DEF FiltersTo
  <2>2. h \in [0 .. k -> Seq(Obj)]
    <3>1. \A n \in 0 .. k : n < k => g[n] \in Seq(Obj)
      BY <1>5, <2>1 DEF FiltersTo
    <3>2. s[k] # Null => Append(g[k - 1], s[k]) \in Seq(Obj)
      BY <1>2, <2>1
    <3>. QED
      BY <2>1, <3>1, <3>2
  <2>3. h[0] = <<>>
    BY <1>5, <2>1 DEF FiltersTo
  <2>4. \A n \in 1 .. k : h[n - 1] = g[n - 1] /\ (n < k => h[n] = g[n] /\ n \in 1 .. (k - 1))
    BY <2>1
  <2>5. h[k] = IF s[k] = Null THEN g[k - 1] ELSE Append(g[k - 1], s[k])
    BY <2>1
  <2>. HIDE DEF h
  <2>6. ASSUME NEW n \in 1 .. k
        PROVE  h[n] = IF s[n] = Null THEN h[n - 1] ELSE Append(h[n - 1], s[n])
    <3>1. CASE n < k
      BY <1>5, <2>4, <3>1 DEF FiltersTo
    <3>2. CASE n = k
      BY <2>4, <2>5, <3>2
    <3>. QED
      BY <2>1, <3>1, <3>2
  <2>. QED
    BY <2>2, <2>3, <2>6 DEF FiltersTo
<1>. QED
  BY <1>6

\* What is left of a sequence has its references, each as often as before.
LEMMA NonnullKeepsReferences ==
  ASSUME NEW s \in Seq(Ref)
  PROVE  /\ Nonnull(s) \in Seq(Obj)
         /\ \A o \in Obj : Occurrences(Nonnull(s), o) = Occurrences(s, o)
<1>. DEFINE Body(g) == [n \in 0 .. Len(s) |->
                          IF n = 0 THEN <<>>
                          ELSE IF s[n] = Null THEN g[n - 1] ELSE Append(g[n - 1], s[n])]
            kept == CHOOSE g : g = Body(g)
<1>1. Len(s) \in Nat /\ \A k \in 1 .. Len(s) : s[k] # Null => s[k] \in Obj
  BY DEF Ref
<1>2. PICK g : FiltersTo(s, Len(s), g)
  BY <1>1, FilterExists
<1>3. g = Body(g)
  <2>1. g \in [0 .. Len(s) -> Seq(Obj)]
    BY <1>2 DEF FiltersTo
  <2>2. ASSUME NEW n \in 0 .. Len(s)
        PROVE  g[n] = IF n = 0 THEN <<>>
                      ELSE IF s[n] = Null THEN g[n - 1] ELSE Append(g[n - 1], s[n])
    <3>1. CASE n = 0
      BY <1>2, <3>1 DEF FiltersTo
    <3>2. CASE n # 0
      <4>1. n \in 1 .. Len(s)
        BY <1>1, <3>2
      <4>. QED
        BY <1>2, <3>2, <4>1 DEF FiltersTo
    <3>. QED
      BY <3>1, <3>2
  <2>. QED
    BY <2>1, <2>2
<1>4. kept = Body(kept)
  <2>. HIDE DEF Body
  <2>. QED
    BY <1>3
<1>5. /\ kept[0] = <<>>
      /\ \A n \in 1 .. Len(s) : kept[n] = IF s[n] = Null THEN kept[n - 1] ELSE Append(kept[n - 1], s[n])
  <2>. HIDE DEF kept
  <2>1. \A n \in 0 .. Len(s) : kept[n] = IF n = 0 THEN <<>>
                          ELSE IF s[n] = Null THEN kept[n - 1] ELSE Append(kept[n - 1], s[n])
    BY <1>4
  <2>. QED
    BY <1>1, <2>1
<1>6. Nonnull(s) = kept[Len(s)]
  BY DEF Nonnull
<1>. HIDE DEF kept, Body
<1>. DEFINE Right(n) == /\ kept[n] \in Seq(Obj)
                        /\ \A o \in Obj : Occurrences(kept[n], o) = Occurrences(SubSeq(s, 1, n), o)
            Wrong == {n \in 0 .. Len(s) : ~ Right(n)}
<1>7. ASSUME NEW n \in 1 .. Len(s), Right(n - 1)
      PROVE  Right(n)
  <2>. DEFINE t == SubSeq(s, 1, n)
  <2>1. t \in Seq(Ref) /\ Len(t) = n /\ t # <<>> /\ t[n] = s[n] /\ SubSeq(t, 1, n - 1) = SubSeq(s, 1, n - 1)
    BY <1>1
  <2>2. \A o \in Obj : Occurrences(t, o) = Occurrences(SubSeq(s, 1, n - 1), o) + One(s[n], o)
    <3>. HIDE DEF t
    <3>. QED
      BY <2>1, OccurrencesInFront
  <2>3. \A o \in Obj : Occurrences(SubSeq(s, 1, n - 1), o) \in Nat
    <3>1. SubSeq(s, 1, n - 1) \in Seq(Ref)
      BY <1>1
    <3>. QED
      BY <3>1, OccurrencesType
  <2>4. CASE s[n] = Null
    <3>1. \A o \in Obj : One(s[n], o) = 0
      BY <2>4, NullAssumption DEF One
    <3>2. kept[n] = kept[n - 1]
      BY <1>5, <2>4
    <3>. QED
      BY <1>7, <2>2, <2>3, <3>1, <3>2
  <2>5. CASE s[n] # Null
    <3>1. kept[n] = Append(kept[n - 1], s[n]) /\ s[n] \in Obj
      BY <1>1, <1>5, <2>5
    <3>2. Append(kept[n - 1], s[n]) \in Seq(Obj)
      BY <1>7, <3>1
    <3>3. \A o \in Obj : Occurrences(kept[n], o) = Occurrences(kept[n - 1], o) + One(s[n], o)
      BY <1>7, <3>1, OccurrencesInAppend
    <3>. QED
      BY <1>7, <2>2, <3>1, <3>2, <3>3
  <2>. QED
    BY <2>4, <2>5
<1>8. Right(0)
  <2>1. SubSeq(s, 1, 0) = <<>>
    BY <1>1
  <2>2. \A o \in Obj : Occurrences(kept[0], o) = Occurrences(SubSeq(s, 1, 0), o)
    BY <1>5, <2>1, Zenon
  <2>3. kept[0] \in Seq(Obj)
    BY <1>5
  <2>. QED
    BY <2>2, <2>3
<1>9. Wrong = {}
  <2>. SUFFICES ASSUME Wrong # {}
                PROVE  FALSE
    OBVIOUS
  <2>1. Wrong \in SUBSET Nat
    BY <1>1
  <2>2. PICK n \in Wrong : \A k \in Wrong : n <= k
    <3>. HIDE DEF Wrong
    <3>. QED
      BY <2>1, LeastNumber
  <2>3. n # 0 /\ n \in 0 .. Len(s) /\ ~ Right(n)
    BY <1>8
  <2>4. n \in 1 .. Len(s) /\ n - 1 \in 0 .. Len(s) /\ ~ (n <= n - 1)
    BY <1>1, <2>3
  <2>5. Right(n - 1)
    BY <2>2, <2>4
  <2>. QED
    BY <1>7, <2>3, <2>4, <2>5
<1>10. Right(Len(s)) /\ SubSeq(s, 1, Len(s)) = s
  <2>1. Len(s) \in 0 .. Len(s) /\ SubSeq(s, 1, Len(s)) = s
    BY <1>1
  <2>. QED
    BY <1>9, <2>1
<1>. QED
  BY <1>6, <1>10

(***************************************************************************)
(* The inductive invariant                                                 *)
(***************************************************************************)

\* An object with a count holds memory: freeing one leaves its count at zero.
RcLive == \A o \in Obj : rc[o] > 0 => o \in allocated

\* While write_field releases the old value, the roots keep the object that is
\* written to and the new value.
WriteIsRooted ==
  writing # NoWrite =>
    /\ writing.obj \in RootRefs
    /\ writing.val # Null => writing.val \in RootRefs

IInv ==
  /\ TypeOK
  /\ CountsCoverReferences
  /\ RcLive
  /\ WriteIsRooted

\* The slots whose references count.
Place == Obj \X Slot
Held == [f \in Place |->
           IF f[1] \in allocated /\ ~ BeingWritten(f[1], f[2]) THEN refs[f[1]][f[2]] ELSE Null]

Total(o) == Occurrences(stack, o) + Count(globals, Name, o) + Count(Held, Place, o)
              + Occurrences(pending, o) + Occurrences(dropped, o)

\* There are finitely many places to count.
LEMMA PlacesAreFinite == IsFiniteSet(Place) /\ IsFiniteSet(Name)
<1>1. IsFiniteSet(Slot)
  BY FS_Interval, NumSlotsAssumption DEF Slot
<1>. QED
  BY <1>1, FS_Product, ObjAssumption, NameAssumption DEF Place

\* References adds up the occurrences in the five places a reference can be.
LEMMA ReferencesAreCounts ==
  ASSUME TypeOK, NEW o \in Obj
  PROVE  /\ References(o) = Total(o)
         /\ Occurrences(stack, o) \in Nat /\ Count(globals, Name, o) \in Nat
         /\ Count(Held, Place, o) \in Nat
         /\ Occurrences(pending, o) \in Nat /\ Occurrences(dropped, o) \in Nat
<1>1. o # Null
  BY NullAssumption
<1>2. {f \in allocated \X Slot : refs[f[1]][f[2]] = o /\ ~ BeingWritten(f[1], f[2])}
        = {f \in Place : Held[f] = o}
  <2>1. \A f \in Place : Held[f] = o <=>
          f[1] \in allocated /\ ~ BeingWritten(f[1], f[2]) /\ refs[f[1]][f[2]] = o
    BY <1>1 DEF Held
  <2>2. \A f : f \in allocated \X Slot <=> f \in Place /\ f[1] \in allocated
    BY DEF TypeOK, Place
  <2>. QED
    BY <2>1, <2>2
<1>3. References(o) = Total(o)
  BY <1>2 DEF References, Total, Count
<1>4. Occurrences(stack, o) \in Nat /\ Occurrences(pending, o) \in Nat /\ Occurrences(dropped, o) \in Nat
  BY OccurrencesType DEF TypeOK, RootsTypeOK
<1>. QED
  BY <1>3, <1>4, PlacesAreFinite, CountType

\* The same, after a step.
LEMMA ReferencesAreCountsNext ==
  ASSUME TypeOK', NEW o \in Obj
  PROVE  References(o)' = Total(o)'
<1>1. o # Null
  BY NullAssumption
<1>2. {f \in allocated' \X Slot : refs'[f[1]][f[2]] = o /\ ~ BeingWritten(f[1], f[2])'}
        = {f \in Place : Held'[f] = o}
  <2>1. \A f \in Place : Held'[f] = o <=>
          f[1] \in allocated' /\ ~ BeingWritten(f[1], f[2])' /\ refs'[f[1]][f[2]] = o
    BY <1>1 DEF Held
  <2>2. \A f : f \in allocated' \X Slot <=> f \in Place /\ f[1] \in allocated'
    BY DEF TypeOK, Place
  <2>. QED
    BY <2>1, <2>2
<1>. QED
  BY <1>2 DEF References, Total, Count

\* A step keeps the counts high enough if it takes away no more than it
\* releases.
LEMMA CoverStep ==
  ASSUME IInv, TypeOK', NEW o \in Obj, Total(o)' \in Int, rc'[o] - rc[o] >= Total(o)' - Total(o)
  PROVE  rc'[o] >= References(o)'
<1>1. rc[o] \in Nat /\ rc'[o] \in Nat /\ rc[o] >= References(o)
  BY DEF IInv, TypeOK, CountsCoverReferences
<1>2. References(o) = Total(o) /\ References(o)' = Total(o)'
  BY ReferencesAreCounts, ReferencesAreCountsNext DEF IInv
<1>3. Total(o) \in Nat
  BY ReferencesAreCounts DEF Total, IInv
<1>. QED
  BY <1>1, <1>2, <1>3

\* What the roots, a live object or a worklist refer to holds memory.
LEMMA WhatCountsIsLive ==
  ASSUME IInv
  PROVE  /\ RootRefs \subseteq allocated
         /\ \A p \in allocated, i \in Slot :
              ~ BeingWritten(p, i) /\ refs[p][i] # Null => refs[p][i] \in allocated
         /\ \A i \in DOMAIN pending : rc[pending[i]] > 0
<1>1. \A o \in Obj : References(o) >= 1 => rc[o] > 0 /\ o \in allocated
  <2>. SUFFICES ASSUME NEW o \in Obj, References(o) >= 1
                PROVE  rc[o] > 0
    BY DEF IInv, RcLive
  <2>1. References(o) \in Nat /\ rc[o] \in Nat /\ rc[o] >= References(o)
    BY ReferencesAreCounts DEF Total, IInv, TypeOK, CountsCoverReferences
  <2>. QED
    BY <2>1
<1>2. ASSUME NEW o \in RootRefs
      PROVE  o \in allocated
  <2>1. o \in Obj
    BY RootsAreObjects DEF IInv, TypeOK
  <2>2. Occurrences(stack, o) >= 1 \/ Count(globals, Name, o) >= 1
    BY OccurrencesType, CountType, PlacesAreFinite DEF RootRefs, RootSet, IInv, TypeOK, RootsTypeOK
  <2>3. References(o) >= 1
    BY <2>1, <2>2, ReferencesAreCounts DEF Total, IInv
  <2>. QED
    BY <1>1, <2>1, <2>3
<1>3. ASSUME NEW p \in allocated, NEW i \in Slot, ~ BeingWritten(p, i), refs[p][i] # Null
      PROVE  refs[p][i] \in allocated
  <2>1. p \in Obj /\ refs[p][i] \in Obj /\ <<p, i>> \in Place
    BY <1>3 DEF IInv, TypeOK, Ref, Place
  <2>2. Held[<<p, i>>] = refs[p][i]
    BY <1>3, <2>1 DEF Held
  <2>3. Count(Held, Place, refs[p][i]) >= 1
    BY <2>1, <2>2, CountType, PlacesAreFinite
  <2>4. References(refs[p][i]) >= 1
    BY <2>1, <2>3, ReferencesAreCounts DEF Total, IInv
  <2>. QED
    BY <1>1, <2>1, <2>4
<1>4. ASSUME NEW i \in DOMAIN pending
      PROVE  rc[pending[i]] > 0
  <2>1. pending[i] \in Obj
    BY DEF IInv, TypeOK
  <2>2. Occurrences(pending, pending[i]) >= 1
    BY OccurrencesType DEF IInv, TypeOK
  <2>3. References(pending[i]) >= 1
    BY <2>1, <2>2, ReferencesAreCounts DEF Total, IInv
  <2>. QED
    BY <1>1, <2>1, <2>3
<1>. QED
  BY <1>2, <1>3, <1>4

\* retain adds one to the count of its object.
LEMMA RetainAddsOne ==
  ASSUME TypeOK, NEW h \in Ref
  PROVE  /\ Retained(h) \in [Obj -> Nat]
         /\ \A o \in Obj : Retained(h)[o] = rc[o] + One(h, o)
<1>1. CASE h = Null
  BY <1>1, NullAssumption DEF TypeOK, Retained, One
<1>2. CASE h # Null
  BY <1>2 DEF TypeOK, Retained, One, Ref
<1>. QED
  BY <1>1, <1>2

\* So a retained object keeps its memory.
LEMMA RetainedIsLive ==
  ASSUME IInv, NEW h \in Ref, h # Null => h \in allocated,
         UNCHANGED allocated, rc' = Retained(h)
  PROVE  RcLive'
<1>. SUFFICES ASSUME NEW o \in Obj, rc'[o] > 0
              PROVE  o \in allocated
  BY DEF RcLive
<1>1. rc'[o] = rc[o] + One(h, o) /\ rc[o] \in Nat
  BY RetainAddsOne DEF IInv, TypeOK
<1>2. CASE h = o
  BY <1>2, NullAssumption
<1>3. CASE h # o
  BY <1>1, <1>3 DEF One, IInv, RcLive
<1>. QED
  BY <1>2, <1>3

(***************************************************************************)
(* The steps                                                               *)
(***************************************************************************)

\* A handle is pushed and retained.
LEMMA PushIInv ==
  ASSUME IInv, writing = NoWrite, NEW h \in Ref, h # Null => h \in allocated,
         PushRoot(h), OnPushed(h)
  PROVE  IInv'
<1>1. TypeOK
  BY DEF IInv
<1>2. /\ UNCHANGED <<allocated, refs, pending, dropped, writing, panicked>>
      /\ rc' = Retained(h) /\ stack' = Append(stack, h) /\ globals' = globals
  BY DEF OnPushed, PushRoot
<1>3. rc' \in [Obj -> Nat] /\ \A o \in Obj : rc'[o] = rc[o] + One(h, o)
  BY <1>1, <1>2, RetainAddsOne
<1>4. TypeOK'
  BY <1>1, <1>2, <1>3, PushedRoots DEF TypeOK
<1>5. CountsCoverReferences'
  <2>1. ~ panicked'
    BY <1>2 DEF IInv, CountsCoverReferences
  <2>2. ASSUME NEW o \in Obj
        PROVE  rc'[o] >= References(o)'
    <3>1. Occurrences(stack', o) = Occurrences(stack, o) + One(h, o)
      BY <1>1, <1>2, OccurrencesInAppend DEF TypeOK, RootsTypeOK
    <3>2. Held' = Held
      BY <1>2 DEF Held, BeingWritten
    <3>3. Total(o)' = Total(o) + One(h, o) /\ Total(o) \in Int /\ One(h, o) \in Int
      BY <1>1, <1>2, <3>1, <3>2, ReferencesAreCounts DEF Total, One
    <3>4. rc[o] \in Int /\ rc'[o] - rc[o] >= Total(o)' - Total(o)
      BY <1>1, <1>3, <3>3 DEF TypeOK
    <3>. QED
      BY <1>4, <3>3, <3>4, CoverStep
  <2>. QED
    BY <2>1, <2>2 DEF CountsCoverReferences
<1>6. RcLive'
  BY <1>2, RetainedIsLive
<1>7. WriteIsRooted'
  BY <1>2 DEF WriteIsRooted
<1>. QED
  BY <1>4, <1>5, <1>6, <1>7 DEF IInv

\* alloc, and the new handle pushed.
LEMMA AllocIInv ==
  ASSUME IInv, Idle, NEW o \in Obj, Alloc(o)
  PROVE  IInv'
<1>1. TypeOK /\ writing = NoWrite /\ o \notin allocated /\ rc[o] = 0
  BY DEF IInv, Idle, Alloc, RcLive, TypeOK
<1>2. /\ UNCHANGED <<globals, pending, dropped, writing, panicked>>
      /\ stack' = Append(stack, o) /\ PushRoot(o) /\ allocated' = allocated \cup {o}
      /\ refs' = [refs EXCEPT ![o] = Blank] /\ rc' = [rc EXCEPT ![o] = 1]
  BY DEF Alloc, PushRoot
<1>3. /\ refs' \in [Obj -> [Slot -> Ref]] /\ refs'[o] = Blank
      /\ \A p \in Obj \ {o} : refs'[p] = refs[p]
      /\ rc' \in [Obj -> Nat] /\ \A p \in Obj : rc'[p] = IF p = o THEN 1 ELSE rc[p]
  BY <1>1, <1>2 DEF TypeOK, Blank, Ref
<1>4. TypeOK'
  BY <1>1, <1>2, <1>3, PushedRoots DEF TypeOK, Ref
<1>5. CountsCoverReferences'
  <2>1. ~ panicked'
    BY <1>2 DEF IInv, CountsCoverReferences
  <2>2. ASSUME NEW x \in Obj
        PROVE  rc'[x] >= References(x)'
    <3>1. Occurrences(stack', x) = Occurrences(stack, x) + One(o, x)
      <4>1. stack \in Seq(Ref) /\ o \in Ref
        BY <1>1 DEF TypeOK, RootsTypeOK, Ref
      <4>. QED
        BY <1>2, <4>1, OccurrencesInAppend
    <3>2. Count(Held', Place, x) = Count(Held, Place, x)
      <4>1. ASSUME NEW f \in Place
            PROVE  Held'[f] = x <=> Held[f] = x
        <5>1. f[1] \in Obj /\ f[2] \in Slot /\ x # Null /\ Blank[f[2]] = Null
          BY NullAssumption DEF Place, Blank
        <5>2. /\ Held[f] = IF f[1] \in allocated THEN refs[f[1]][f[2]] ELSE Null
              /\ Held'[f] = IF f[1] \in allocated' THEN refs'[f[1]][f[2]] ELSE Null
          BY <1>1, <1>2 DEF Held, BeingWritten
        <5>. QED
          BY <1>1, <1>2, <1>3, <5>1, <5>2
      <4>. QED
        BY <4>1, CountOfSame
    <3>3. Total(x)' = Total(x) + One(o, x) /\ Total(x) \in Int /\ One(o, x) \in Int
      <4>1. /\ Count(globals', Name, x) = Count(globals, Name, x)
            /\ Occurrences(pending', x) = Occurrences(pending, x)
            /\ Occurrences(dropped', x) = Occurrences(dropped, x)
            /\ One(o, x) \in Int
        BY <1>2 DEF One
      <4>. QED
        BY <1>1, <3>1, <3>2, <4>1, ReferencesAreCounts DEF Total
    <3>4. rc[x] \in Int /\ rc'[x] - rc[x] >= Total(x)' - Total(x)
      BY <1>1, <1>3, <3>3 DEF TypeOK, One
    <3>. QED
      BY <1>4, <3>3, <3>4, CoverStep
  <2>. QED
    BY <2>1, <2>2 DEF CountsCoverReferences
<1>6. RcLive'
  BY <1>2, <1>3 DEF RcLive, IInv
<1>7. WriteIsRooted'
  BY <1>1, <1>2 DEF WriteIsRooted
<1>. QED
  BY <1>4, <1>5, <1>6, <1>7 DEF IInv

\* The sequence of one handle that on_root_popped is called for.
LEMMA OneToDrop ==
  ASSUME NEW h \in Ref
  PROVE  /\ Nonnull(<<h>>) \in Seq(Obj)
         /\ \A o \in Obj : Occurrences(Nonnull(<<h>>), o) = One(h, o)
<1>1. <<h>> \in Seq(Ref)
  OBVIOUS
<1>2. \A o : Occurrences(<<h>>, o) = One(h, o)
  BY OccurrencesInShort
<1>. QED
  BY <1>1, <1>2, NonnullKeepsReferences

\* An assign, a set_global or a remove_global: one place changes, its new
\* content is retained, its old one is yet to be released.
LEMMA ExchangeIInv ==
  ASSUME IInv, Idle, RootStep, NEW new \in Ref, NEW old \in Ref,
         new # Null => new \in allocated, OnAssigned(new, old),
         \A o \in Obj : Occurrences(stack', o) + Count(globals', Name, o) + One(old, o)
                          = Occurrences(stack, o) + Count(globals, Name, o) + One(new, o),
         \A o \in Obj : Occurrences(stack', o) \in Nat /\ Count(globals', Name, o) \in Nat
  PROVE  IInv'
<1>1. TypeOK /\ writing = NoWrite /\ dropped = <<>>
  BY DEF IInv, Idle
<1>2. /\ UNCHANGED <<allocated, refs, pending, writing, panicked>>
      /\ rc' = Retained(new) /\ dropped' = Nonnull(<<old>>)
  BY DEF OnAssigned
<1>3. rc' \in [Obj -> Nat] /\ \A o \in Obj : rc'[o] = rc[o] + One(new, o)
  BY <1>1, <1>2, RetainAddsOne
<1>4. /\ dropped' \in Seq(Obj) /\ \A o \in Obj : Occurrences(dropped', o) = One(old, o)
      /\ \A o : Occurrences(dropped, o) = 0
  BY <1>1, <1>2, OneToDrop, OccurrencesInShort
<1>5. TypeOK'
  BY <1>1, <1>2, <1>3, <1>4, RootStepKeepsReach DEF TypeOK
<1>6. CountsCoverReferences'
  <2>1. ~ panicked'
    BY <1>2 DEF IInv, CountsCoverReferences
  <2>2. ASSUME NEW o \in Obj
        PROVE  rc'[o] >= References(o)'
    <3>1. Held' = Held
      BY <1>2 DEF Held, BeingWritten
    <3>2. Total(o)' = Total(o) + One(new, o) /\ Total(o) \in Int /\ One(new, o) \in Int
      <4>0. One(new, o) \in Int /\ One(old, o) \in Int
        BY DEF One
      <4>1. /\ Count(Held', Place, o) = Count(Held, Place, o)
            /\ Occurrences(pending', o) = Occurrences(pending, o)
            /\ Occurrences(dropped', o) = One(old, o) /\ Occurrences(dropped, o) = 0
        BY <1>2, <1>4, <3>1
      <4>2. /\ Occurrences(stack', o) + Count(globals', Name, o) + One(old, o)
                 = Occurrences(stack, o) + Count(globals, Name, o) + One(new, o)
            /\ Occurrences(stack', o) \in Nat /\ Count(globals', Name, o) \in Nat
        OBVIOUS
      <4>3. /\ Occurrences(stack, o) \in Nat /\ Count(globals, Name, o) \in Nat
            /\ Count(Held, Place, o) \in Nat
            /\ Occurrences(pending, o) \in Nat /\ Occurrences(dropped, o) \in Nat
        BY <1>1, ReferencesAreCounts
      <4>. QED
        BY <4>0, <4>1, <4>2, <4>3 DEF Total
    <3>3. rc[o] \in Int /\ rc'[o] - rc[o] >= Total(o)' - Total(o)
      BY <1>1, <1>3, <3>2 DEF TypeOK
    <3>. QED
      BY <1>5, <3>2, <3>3, CoverStep
  <2>. QED
    BY <2>1, <2>2 DEF CountsCoverReferences
<1>7. RcLive'
  BY <1>2, RetainedIsLive
<1>8. WriteIsRooted'
  BY <1>1, <1>2 DEF WriteIsRooted
<1>. QED
  BY <1>5, <1>6, <1>7, <1>8 DEF IInv

\* assign: the slot of the stack changes.
LEMMA AssignIInv ==
  ASSUME IInv, Idle, NEW dst \in DOMAIN stack, NEW src \in DOMAIN stack,
         Assign(dst, src), OnAssigned(stack[src], stack[dst])
  PROVE  IInv'
<1>1. TypeOK /\ stack \in Seq(Ref) /\ IsFiniteSet(DOMAIN stack)
  BY OccurrencesType DEF IInv, TypeOK, RootsTypeOK
<1>2. /\ stack' \in Seq(Ref) /\ DOMAIN stack' = DOMAIN stack /\ globals' = globals
      /\ stack'[dst] = stack[src] /\ \A i \in DOMAIN stack \ {dst} : stack'[i] = stack[i]
      /\ stack[src] \in Ref /\ stack[dst] \in Ref
  BY <1>1 DEF Assign
<1>3. stack[src] # Null => stack[src] \in allocated
  BY WhatCountsIsLive DEF RootRefs, RootSet
<1>4. ASSUME NEW o \in Obj
      PROVE  /\ Occurrences(stack', o) + One(stack[dst], o) = Occurrences(stack, o) + One(stack[src], o)
             /\ Occurrences(stack', o) \in Nat
             /\ Occurrences(stack, o) \in Nat
  <2>1. /\ Occurrences(stack', o) = Count(stack', DOMAIN stack, o) /\ Occurrences(stack', o) \in Nat
        /\ Occurrences(stack, o) = Count(stack, DOMAIN stack, o) /\ Occurrences(stack, o) \in Nat
    BY <1>1, <1>2, OccurrencesType
  <2>2. Count(stack', DOMAIN stack, o) + One(stack[dst], o)
          = Count(stack, DOMAIN stack, o) + One(stack'[dst], o)
    BY <1>1, <1>2, CountOfChanged
  <2>. QED
    BY <1>2, <2>1, <2>2
<1>5. \A o \in Obj : /\ Count(globals, Name, o) \in Nat
                     /\ One(stack[dst], o) \in Int /\ One(stack[src], o) \in Int
  BY CountType, PlacesAreFinite DEF One
<1>6. /\ \A o \in Obj : Occurrences(stack', o) + Count(globals', Name, o) + One(stack[dst], o)
                          = Occurrences(stack, o) + Count(globals, Name, o) + One(stack[src], o)
      /\ \A o \in Obj : Occurrences(stack', o) \in Nat /\ Count(globals', Name, o) \in Nat
  <2>1. ASSUME NEW o \in Obj
        PROVE  /\ Occurrences(stack', o) + Count(globals', Name, o) + One(stack[dst], o)
                    = Occurrences(stack, o) + Count(globals, Name, o) + One(stack[src], o)
               /\ Occurrences(stack', o) \in Nat /\ Count(globals', Name, o) \in Nat
    <3>1. Count(globals', Name, o) = Count(globals, Name, o)
      BY <1>2
    <3>. QED
      BY <1>4, <1>5, <3>1
  <2>. QED
    BY <2>1
<1>7. RootStep
  BY DEF RootStep
<1>. QED
  BY <1>2, <1>3, <1>6, <1>7, ExchangeIInv

\* set_global and remove_global: the binding changes.
LEMMA GlobalChangeIInv ==
  ASSUME IInv, Idle, RootStep, NEW n \in Name, NEW new \in Ref, new # Null => new \in RootRefs,
         globals'[n] = new, \A m \in Name \ {n} : globals'[m] = globals[m], stack' = stack,
         OnGlobalChanged(globals[n], new)
  PROVE  IInv'
<1>1. TypeOK /\ stack \in Seq(Ref) /\ globals \in [Name -> Ref]
  BY DEF IInv, TypeOK, RootsTypeOK
<1>2. globals[n] \in Ref
  BY <1>1
<1>3. new # Null => new \in allocated
  BY WhatCountsIsLive
<1>4. ASSUME NEW o \in Obj
      PROVE  /\ Count(globals', Name, o) + One(globals[n], o) = Count(globals, Name, o) + One(new, o)
             /\ Count(globals', Name, o) \in Nat /\ Count(globals, Name, o) \in Nat
  <2>1. Count(globals', Name, o) + One(globals[n], o)
          = Count(globals, Name, o) + One(globals'[n], o)
    BY CountOfChanged, PlacesAreFinite
  <2>. QED
    BY <2>1, CountType, PlacesAreFinite
<1>5. \A o \in Obj : /\ Occurrences(stack, o) \in Nat
                     /\ One(globals[n], o) \in Int /\ One(new, o) \in Int
  BY <1>1, OccurrencesType DEF One
<1>6. /\ \A o \in Obj : Occurrences(stack', o) + Count(globals', Name, o) + One(globals[n], o)
                          = Occurrences(stack, o) + Count(globals, Name, o) + One(new, o)
      /\ \A o \in Obj : Occurrences(stack', o) \in Nat /\ Count(globals', Name, o) \in Nat
  BY <1>4, <1>5
<1>7. OnAssigned(new, globals[n])
  BY DEF OnGlobalChanged
<1>. QED
  BY <1>2, <1>3, <1>6, <1>7, ExchangeIInv

\* unwind: what the stack loses is yet to be released.
LEMMA UnwindIInv ==
  ASSUME IInv, Idle, NEW depth \in 0 .. (Len(stack) - 1), Unwind(depth), OnDropped(Dropped(depth))
  PROVE  IInv'
<1>1. TypeOK /\ writing = NoWrite /\ dropped = <<>> /\ stack \in Seq(Ref) /\ depth \in 0 .. Len(stack)
  BY DEF IInv, Idle, TypeOK, RootsTypeOK
<1>2. /\ UNCHANGED <<allocated, refs, rc, pending, writing, panicked, globals>>
      /\ stack' = SubSeq(stack, 1, depth) /\ dropped' = Nonnull(Dropped(depth))
  BY DEF OnDropped, Unwind
<1>3. /\ stack' \in Seq(Ref) /\ Dropped(depth) \in Seq(Ref)
      /\ \A o : Occurrences(stack, o) = Occurrences(stack', o) + Occurrences(Dropped(depth), o)
  BY <1>1, <1>2, OccurrencesInParts DEF Dropped
<1>4. /\ dropped' \in Seq(Obj)
      /\ \A o \in Obj : Occurrences(dropped', o) = Occurrences(Dropped(depth), o)
      /\ \A o : Occurrences(dropped, o) = 0
  BY <1>1, <1>2, <1>3, NonnullKeepsReferences, OccurrencesInShort
<1>5. TypeOK'
  <2>1. RootStep
    BY DEF RootStep
  <2>. QED
    BY <1>1, <1>2, <1>4, <2>1, RootStepKeepsReach DEF TypeOK
<1>6. CountsCoverReferences'
  <2>1. ~ panicked'
    BY <1>2 DEF IInv, CountsCoverReferences
  <2>2. ASSUME NEW o \in Obj
        PROVE  rc'[o] >= References(o)'
    <3>1. Held' = Held
      BY <1>2 DEF Held, BeingWritten
    <3>2. Total(o)' = Total(o) /\ Total(o) \in Int
      <4>1. /\ Count(Held', Place, o) = Count(Held, Place, o)
            /\ Count(globals', Name, o) = Count(globals, Name, o)
            /\ Occurrences(pending', o) = Occurrences(pending, o)
            /\ Occurrences(stack, o) = Occurrences(stack', o) + Occurrences(dropped', o)
            /\ Occurrences(dropped, o) = 0
            /\ Occurrences(stack', o) \in Nat /\ Occurrences(dropped', o) \in Nat
        BY <1>2, <1>3, <1>4, <3>1, OccurrencesType
      <4>2. /\ Count(globals, Name, o) \in Nat /\ Count(Held, Place, o) \in Nat
            /\ Occurrences(pending, o) \in Nat
        BY <1>1, ReferencesAreCounts
      <4>. QED
        BY <4>1, <4>2 DEF Total
    <3>3. rc[o] \in Int /\ rc'[o] - rc[o] >= Total(o)' - Total(o)
      BY <1>1, <1>2, <3>2 DEF TypeOK
    <3>. QED
      BY <1>5, <3>2, <3>3, CoverStep
  <2>. QED
    BY <2>1, <2>2 DEF CountsCoverReferences
<1>7. RcLive' /\ WriteIsRooted'
  BY <1>1, <1>2 DEF RcLive, WriteIsRooted, IInv
<1>. QED
  BY <1>5, <1>6, <1>7 DEF IInv

\* write_field: the slot no longer counts, its old reference is to be released.
LEMMA WriteFieldIInv ==
  ASSUME IInv, Idle, UNCHANGED roots,
         NEW o \in StoreTargets, NEW i \in Slot, NEW v \in StoreValues, WriteField(o, i, v)
  PROVE  IInv'
<1>1. TypeOK /\ writing = NoWrite /\ pending = <<>> /\ RootsTypeOK
  BY DEF IInv, Idle, TypeOK
<1>2. /\ UNCHANGED <<stack, globals, allocated, refs, rc, dropped, panicked>>
      /\ pending' = Nonnull(<<refs[o][i]>>) /\ writing' = [obj |-> o, slot |-> i, val |-> v]
  BY DEF WriteField, roots
<1>3. /\ o \in Obj /\ o \in RootRefs /\ v \in Ref /\ (v # Null => v \in RootRefs)
      /\ o \in allocated /\ refs[o][i] \in Ref /\ <<o, i>> \in Place
  BY <1>1, StoreOperands, WhatCountsIsLive DEF TypeOK, Place
<1>4. /\ pending' \in Seq(Obj) /\ \A x \in Obj : Occurrences(pending', x) = One(refs[o][i], x)
      /\ \A x : Occurrences(pending, x) = 0
  BY <1>1, <1>2, <1>3, OneToDrop, OccurrencesInShort
<1>5. writing' \in [obj : Obj, slot : Slot, val : Ref] /\ writing' # NoWrite
  BY <1>2, <1>3, NoWriteAssumption
<1>6. TypeOK'
  BY <1>1, <1>2, <1>4, <1>5 DEF TypeOK, RootsTypeOK
<1>7. CountsCoverReferences'
  <2>1. ~ panicked'
    BY <1>2 DEF IInv, CountsCoverReferences
  <2>2. ASSUME NEW x \in Obj
        PROVE  rc'[x] >= References(x)'
    <3>1. /\ Held[<<o, i>>] = refs[o][i] /\ Held'[<<o, i>>] = Null
          /\ \A f \in Place \ {<<o, i>>} : Held'[f] = Held[f]
      <4>1. \A p, j : ~ BeingWritten(p, j) /\ (BeingWritten(p, j)' <=> p = o /\ j = i)
        BY <1>1, <1>2, <1>5 DEF BeingWritten
      <4>2. \A f \in Place : f = <<f[1], f[2]>>
        BY DEF Place
      <4>. QED
        BY <1>2, <1>3, <4>1, <4>2 DEF Held
    <3>2. Count(Held', Place, x) + One(refs[o][i], x) = Count(Held, Place, x) + One(Null, x)
      BY <1>3, <3>1, CountOfChanged, PlacesAreFinite
    <3>3. Total(x)' = Total(x) /\ Total(x) \in Int
      <4>1. /\ Count(globals', Name, x) = Count(globals, Name, x)
            /\ Occurrences(stack', x) = Occurrences(stack, x)
            /\ Occurrences(pending', x) = One(refs[o][i], x)
            /\ Occurrences(pending, x) = 0
            /\ Occurrences(dropped', x) = Occurrences(dropped, x)
        BY <1>2, <1>4
      <4>2. One(Null, x) = 0 /\ One(refs[o][i], x) \in Int
        BY NullAssumption DEF One
      <4>3. /\ Count(globals, Name, x) \in Nat /\ Count(Held, Place, x) \in Nat
            /\ Count(Held', Place, x) \in Nat
            /\ Occurrences(stack, x) \in Nat /\ Occurrences(dropped, x) \in Nat
        BY <1>1, ReferencesAreCounts, CountType, PlacesAreFinite
      <4>. QED
        BY <3>2, <4>1, <4>2, <4>3 DEF Total
    <3>4. rc[x] \in Int /\ rc'[x] - rc[x] >= Total(x)' - Total(x)
      BY <1>1, <1>2, <3>3 DEF TypeOK
    <3>. QED
      BY <1>6, <3>3, <3>4, CoverStep
  <2>. QED
    BY <2>1, <2>2 DEF CountsCoverReferences
<1>8. RcLive'
  BY <1>2 DEF RcLive, IInv
<1>9. WriteIsRooted'
  BY <1>2, <1>3 DEF WriteIsRooted, RootRefs
<1>. QED
  BY <1>6, <1>7, <1>8, <1>9 DEF IInv

\* A handle passes from one worklist to the other.
LEMMA ReleaseNextIInv ==
  ASSUME IInv, ReleaseNext
  PROVE  IInv'
<1>1. TypeOK /\ pending = <<>> /\ dropped # <<>> /\ dropped \in Seq(Obj)
  BY DEF IInv, TypeOK, ReleaseNext
<1>2. /\ UNCHANGED <<stack, globals, allocated, refs, rc, writing, panicked>>
      /\ pending' = <<Head(dropped)>> /\ dropped' = Tail(dropped)
  BY DEF ReleaseNext
<1>3. /\ pending' \in Seq(Obj) /\ dropped' \in Seq(Obj)
      /\ \A x : Occurrences(dropped, x) = One(Head(dropped), x) + Occurrences(dropped', x)
      /\ \A x : Occurrences(pending', x) = One(Head(dropped), x) /\ Occurrences(pending, x) = 0
  <2>1. /\ Head(dropped) \in Obj /\ Tail(dropped) \in Seq(Obj)
        /\ \A x : Occurrences(dropped, x) = One(Head(dropped), x) + Occurrences(Tail(dropped), x)
    BY <1>1, OccurrencesInTail
  <2>2. <<Head(dropped)>> \in Seq(Obj)
    BY <2>1
  <2>3. \A x : Occurrences(<<Head(dropped)>>, x) = One(Head(dropped), x) /\ Occurrences(<<>>, x) = 0
    BY OccurrencesInShort
  <2>. QED
    BY <1>1, <1>2, <2>1, <2>2, <2>3, Zenon
<1>4. TypeOK'
  BY <1>1, <1>2, <1>3 DEF TypeOK, RootsTypeOK
<1>5. CountsCoverReferences'
  <2>1. ~ panicked'
    BY <1>2 DEF IInv, CountsCoverReferences
  <2>2. ASSUME NEW x \in Obj
        PROVE  rc'[x] >= References(x)'
    <3>1. Held' = Held
      BY <1>2 DEF Held, BeingWritten
    <3>2. Total(x)' = Total(x) /\ Total(x) \in Int
      <4>1. /\ Count(Held', Place, x) = Count(Held, Place, x)
            /\ Count(globals', Name, x) = Count(globals, Name, x)
            /\ Occurrences(stack', x) = Occurrences(stack, x)
        BY <1>2, <3>1
      <4>2. /\ Count(globals, Name, x) \in Nat /\ Count(Held, Place, x) \in Nat
            /\ Occurrences(stack, x) \in Nat /\ Occurrences(dropped, x) \in Nat
            /\ Occurrences(dropped', x) \in Nat /\ One(Head(dropped), x) \in Nat
        BY <1>1, <1>3, ReferencesAreCounts, OccurrencesType DEF One
      <4>. QED
        BY <1>3, <4>1, <4>2 DEF Total
    <3>3. rc[x] \in Int /\ rc'[x] - rc[x] >= Total(x)' - Total(x)
      BY <1>1, <1>2, <3>2 DEF TypeOK
    <3>. QED
      BY <1>4, <3>2, <3>3, CoverStep
  <2>. QED
    BY <2>1, <2>2 DEF CountsCoverReferences
<1>6. RcLive' /\ WriteIsRooted'
  BY <1>2 DEF RcLive, WriteIsRooted, RootRefs, IInv
<1>. QED
  BY <1>4, <1>5, <1>6 DEF IInv

\* The store of write_field, after the release: the slot counts again.
LEMMA FinishWriteIInv ==
  ASSUME IInv, FinishWrite
  PROVE  IInv'
<1>. DEFINE o == writing.obj
            i == writing.slot
            v == writing.val
<1>1. /\ TypeOK /\ writing # NoWrite /\ o \in Obj /\ i \in Slot /\ v \in Ref
      /\ o \in allocated /\ (v # Null => v \in allocated) /\ <<o, i>> \in Place
  BY WhatCountsIsLive DEF IInv, TypeOK, FinishWrite, WriteIsRooted, Place
<1>2. /\ UNCHANGED <<stack, globals, allocated, pending, dropped, panicked>>
      /\ refs' = [refs EXCEPT ![o][i] = v] /\ rc' = Retained(v) /\ writing' = NoWrite
  BY DEF FinishWrite
<1>. HIDE DEF o, i, v
<1>3. /\ refs' \in [Obj -> [Slot -> Ref]] /\ refs'[o][i] = v
      /\ \A p \in Obj, j \in Slot : ~ (p = o /\ j = i) => refs'[p][j] = refs[p][j]
  BY <1>1, <1>2 DEF TypeOK
<1>4. rc' \in [Obj -> Nat] /\ \A x \in Obj : rc'[x] = rc[x] + One(v, x)
  BY <1>1, <1>2, RetainAddsOne
<1>5. TypeOK'
  BY <1>1, <1>2, <1>3, <1>4 DEF TypeOK, RootsTypeOK
<1>6. CountsCoverReferences'
  <2>1. ~ panicked'
    BY <1>2 DEF IInv, CountsCoverReferences
  <2>2. ASSUME NEW x \in Obj
        PROVE  rc'[x] >= References(x)'
    <3>1. /\ Held[<<o, i>>] = Null /\ Held'[<<o, i>>] = v
          /\ \A f \in Place \ {<<o, i>>} : Held'[f] = Held[f]
      <4>1. \A p, j : (BeingWritten(p, j) <=> p = o /\ j = i) /\ ~ BeingWritten(p, j)'
        BY <1>1, <1>2 DEF BeingWritten, o, i
      <4>2. \A f \in Place : f = <<f[1], f[2]>> /\ f[1] \in Obj /\ f[2] \in Slot
        BY DEF Place
      <4>. QED
        BY <1>1, <1>2, <1>3, <4>1, <4>2 DEF Held
    <3>2. Count(Held', Place, x) + One(Null, x) = Count(Held, Place, x) + One(v, x)
      BY <1>1, <3>1, CountOfChanged, PlacesAreFinite
    <3>3. Total(x)' = Total(x) + One(v, x) /\ Total(x) \in Int /\ One(v, x) \in Int
      <4>1. /\ Count(globals', Name, x) = Count(globals, Name, x)
            /\ Occurrences(stack', x) = Occurrences(stack, x)
            /\ Occurrences(pending', x) = Occurrences(pending, x)
            /\ Occurrences(dropped', x) = Occurrences(dropped, x)
        BY <1>2
      <4>2. One(Null, x) = 0 /\ One(v, x) \in Int
        BY NullAssumption DEF One
      <4>3. /\ Count(globals, Name, x) \in Nat /\ Count(Held, Place, x) \in Nat
            /\ Count(Held', Place, x) \in Nat
            /\ Occurrences(stack, x) \in Nat /\ Occurrences(dropped, x) \in Nat
            /\ Occurrences(pending, x) \in Nat
        BY <1>1, ReferencesAreCounts, CountType, PlacesAreFinite
      <4>. QED
        BY <3>2, <4>1, <4>2, <4>3 DEF Total
    <3>4. rc[x] \in Int /\ rc'[x] - rc[x] >= Total(x)' - Total(x)
      BY <1>1, <1>4, <3>3 DEF TypeOK
    <3>. QED
      BY <1>5, <3>3, <3>4, CoverStep
  <2>. QED
    BY <2>1, <2>2 DEF CountsCoverReferences
<1>7. RcLive'
  BY <1>1, <1>2, RetainedIsLive
<1>8. WriteIsRooted'
  BY <1>2 DEF WriteIsRooted
<1>. QED
  BY <1>5, <1>6, <1>7, <1>8 DEF IInv

\* A turn of release's loop.  What it finds has a count, and an object whose
\* last count goes takes its slots with it.
LEMMA ReleaseStepIInv ==
  ASSUME IInv, ReleaseStep
  PROVE  IInv'
<1>. DEFINE o == pending[Len(pending)]
            rest == SubSeq(pending, 1, Len(pending) - 1)
<1>1. TypeOK /\ pending # <<>> /\ pending \in Seq(Obj)
  BY DEF IInv, TypeOK, ReleaseStep
<1>2. /\ rest \in Seq(Obj) /\ o \in Obj /\ rc[o] > 0
      /\ \A x : Occurrences(pending, x) = Occurrences(rest, x) + One(o, x)
  BY <1>1, OccurrencesInFront, WhatCountsIsLive
<1>3. /\ UNCHANGED <<stack, globals, dropped, writing, panicked>>
      /\ \/ /\ rc[o] > 1
            /\ rc' = [rc EXCEPT ![o] = @ - 1] /\ pending' = rest
            /\ UNCHANGED <<allocated, refs>>
         \/ /\ rc[o] = 1
            /\ rc' = [rc EXCEPT ![o] = 0]
            /\ allocated' = allocated \ {o} /\ refs' = Freed(o)
            /\ pending' = rest \o Nonnull(refs'[o])
  <2>1. /\ UNCHANGED <<stack, globals, dropped, writing>>
        /\ \/ rc[o] = 0
           \/ /\ rc[o] > 1
              /\ rc' = [rc EXCEPT ![o] = @ - 1] /\ pending' = rest
              /\ UNCHANGED <<allocated, refs, panicked>>
           \/ /\ rc[o] = 1
              /\ rc' = [rc EXCEPT ![o] = 0]
              /\ allocated' = allocated \ {o} /\ refs' = Freed(o)
              /\ pending' = rest \o Nonnull(refs'[o])
              /\ UNCHANGED panicked
    BY Zenon DEF ReleaseStep
  <2>2. rc[o] # 0
    BY <1>2
  <2>. QED
    BY <2>1, <2>2, Zenon
<1>. HIDE DEF o, rest
<1>4. rc' \in [Obj -> Nat] /\ \A x \in Obj : rc'[x] = rc[x] - One(o, x)
  <2>1. rc \in [Obj -> Nat] /\ o \in Obj
    BY <1>1, <1>2 DEF TypeOK
  <2>2. rc' = [rc EXCEPT ![o] = rc[o] - 1] /\ rc[o] - 1 \in Nat
    BY <1>2, <1>3, <2>1
  <2>. HIDE DEF One
  <2>3. \A x \in Obj : rc[x] - One(o, x) = IF x = o THEN rc[x] - 1 ELSE rc[x]
    BY <2>1 DEF One
  <2>. QED
    BY <2>1, <2>2, <2>3
<1>5. /\ allocated' \subseteq allocated /\ (\A p \in allocated' : refs'[p] = refs[p])
      /\ refs' \in [Obj -> [Slot -> Ref]]
  <2>1. CASE UNCHANGED <<allocated, refs>>
    BY <1>1, <2>1 DEF TypeOK
  <2>2. CASE allocated' = allocated \ {o} /\ refs' = Freed(o)
    <3>1. Blank \in [Slot -> Ref]
      BY DEF Blank, Ref
    <3>. QED
      BY <1>1, <1>2, <2>2, <3>1 DEF TypeOK, Freed
  <2>. QED
    BY <1>3, <2>1, <2>2
<1>6. /\ pending' \in Seq(Obj)
      /\ \A x \in Obj : Occurrences(pending', x) = Occurrences(rest, x)
  <2>1. CASE pending' = rest
    BY <1>2, <2>1
  <2>2. CASE refs' = Freed(o) /\ pending' = rest \o Nonnull(refs'[o])
    <3>1. refs'[o] = Blank /\ Blank \in Seq(Ref)
      <4>1. Blank \in [1 .. NumSlots -> Ref] /\ NumSlots \in Nat
        BY NumSlotsAssumption DEF Blank, Slot, Ref
      <4>. QED
        BY <1>1, <1>2, <2>2, <4>1 DEF Freed, TypeOK
    <3>2. \A x \in Obj : Occurrences(Blank, x) = 0
      <4>1. \A x \in Obj : {j \in DOMAIN Blank : Blank[j] = x} = {}
        BY NullAssumption DEF Blank
      <4>. QED
        BY <4>1, FS_EmptySet DEF Occurrences
    <3>3. Nonnull(Blank) \in Seq(Obj) /\ \A x \in Obj : Occurrences(Nonnull(Blank), x) = 0
      BY <3>1, <3>2, NonnullKeepsReferences
    <3>. DEFINE none == Nonnull(Blank)
    <3>4. pending' = rest \o none
      BY <2>2, <3>1
    <3>. HIDE DEF none
    <3>5. none \in Seq(Obj) /\ \A x \in Obj : Occurrences(none, x) = 0
      BY <3>3 DEF none
    <3>6. /\ rest \o none \in Seq(Obj)
          /\ \A x \in Obj : Occurrences(rest \o none, x) = Occurrences(rest, x) + 0
      BY <1>2, <3>5, OccurrencesInConcat
    <3>7. \A x \in Obj : Occurrences(rest, x) \in Nat
      BY <1>2, OccurrencesType
    <3>. QED
      BY <3>4, <3>6, <3>7
  <2>. QED
    BY <1>3, <2>1, <2>2
<1>7. TypeOK'
  BY <1>1, <1>3, <1>4, <1>5, <1>6 DEF TypeOK, RootsTypeOK
<1>8. CountsCoverReferences'
  <2>1. ~ panicked'
    BY <1>3 DEF IInv, CountsCoverReferences
  <2>2. ASSUME NEW x \in Obj
        PROVE  rc'[x] >= References(x)'
    <3>1. Count(Held', Place, x) <= Count(Held, Place, x)
      <4>1. ASSUME NEW f \in Place, Held'[f] = x
            PROVE  Held[f] = x
        <5>1. x # Null
          BY NullAssumption
        <5>2. f[1] \in allocated' /\ ~ BeingWritten(f[1], f[2])' /\ refs'[f[1]][f[2]] = x
          BY <4>1, <5>1 DEF Held
        <5>3. ~ BeingWritten(f[1], f[2])
          BY <1>3, <5>2 DEF BeingWritten
        <5>. QED
          BY <1>5, <5>2, <5>3 DEF Held
      <4>. QED
        BY <4>1, CountOfCleared, PlacesAreFinite
    <3>2. Total(x)' <= Total(x) - One(o, x) /\ Total(x)' \in Int /\ Total(x) \in Int /\ One(o, x) \in Int
      <4>1. /\ Count(globals', Name, x) = Count(globals, Name, x)
            /\ Occurrences(stack', x) = Occurrences(stack, x)
            /\ Occurrences(dropped', x) = Occurrences(dropped, x)
            /\ Occurrences(pending', x) = Occurrences(rest, x)
            /\ Occurrences(pending, x) = Occurrences(rest, x) + One(o, x)
        BY <1>2, <1>3, <1>6
      <4>2. One(o, x) \in Int
        BY DEF One
      <4>3. /\ Count(globals, Name, x) \in Nat /\ Count(Held, Place, x) \in Nat
            /\ Count(Held', Place, x) \in Nat
            /\ Occurrences(stack, x) \in Nat /\ Occurrences(dropped, x) \in Nat
            /\ Occurrences(rest, x) \in Nat
        BY <1>1, <1>2, ReferencesAreCounts, CountType, PlacesAreFinite, OccurrencesType
      <4>. QED
        BY <3>1, <4>1, <4>2, <4>3 DEF Total
    <3>3. rc[x] \in Int /\ rc'[x] - rc[x] >= Total(x)' - Total(x)
      BY <1>1, <1>4, <3>2 DEF TypeOK
    <3>. QED
      BY <1>7, <3>2, <3>3, CoverStep
  <2>. QED
    BY <2>1, <2>2 DEF CountsCoverReferences
<1>9. RcLive'
  <2>1. ASSUME NEW x \in Obj, rc'[x] > 0
        PROVE  x \in allocated'
    <3>1. rc[x] > 0
      <4>1. rc'[x] = rc[x] - One(o, x) /\ One(o, x) \in {0, 1} /\ rc[x] \in Nat
        BY <1>1, <1>4 DEF TypeOK, One
      <4>. QED
        BY <2>1, <4>1
    <3>2. rc[o] = 1 => x # o
      BY <1>4, <2>1 DEF One
    <3>. QED
      BY <1>3, <3>1, <3>2 DEF IInv, RcLive
  <2>. QED
    BY <2>1 DEF RcLive
<1>10. WriteIsRooted'
  BY <1>3 DEF WriteIsRooted, RootRefs, IInv
<1>. QED
  BY <1>7, <1>8, <1>9, <1>10 DEF IInv

\* In the beginning nothing refers to anything.
LEMMA InitIInv == Init => IInv
<1>. SUFFICES ASSUME Init
              PROVE  IInv
  OBVIOUS
<1>1. TypeOK
  <2>1. Blank \in [Slot -> Ref]
    BY DEF Blank, Ref
  <2>2. refs \in [Obj -> [Slot -> Ref]] /\ rc \in [Obj -> Nat]
    BY <2>1 DEF Init
  <2>3. RootsTypeOK
    BY MaxDepthAssumption DEF Init, RootsInit, RootsTypeOK, Ref
  <2>4. pending \in Seq(Obj) /\ dropped \in Seq(Obj)
    BY DEF Init
  <2>. QED
    BY <2>2, <2>3, <2>4 DEF Init, TypeOK
<1>2. ASSUME NEW o \in Obj
      PROVE  rc[o] >= References(o)
  <2>1. o # Null
    BY NullAssumption
  <2>2. Occurrences(stack, o) = 0 /\ Occurrences(pending, o) = 0 /\ Occurrences(dropped, o) = 0
    BY OccurrencesInShort DEF Init, RootsInit
  <2>3. Count(globals, Name, o) = 0 /\ Count(Held, Place, o) = 0
    <3>1. {n \in Name : globals[n] = o} = {}
      BY <2>1 DEF Init, RootsInit
    <3>2. {f \in Place : Held[f] = o} = {}
      BY <2>1 DEF Init, Held
    <3>. QED
      BY <3>1, <3>2, FS_EmptySet DEF Count
  <2>3a. rc[o] = 0
    BY DEF Init
  <2>. QED
    BY <1>1, <2>2, <2>3, <2>3a, ReferencesAreCounts DEF Total
<1>3. ~ panicked /\ RcLive /\ WriteIsRooted
  BY DEF Init, RcLive, WriteIsRooted
<1>. QED
  BY <1>1, <1>2, <1>3 DEF IInv, CountsCoverReferences

\* Whatever the program does next keeps the invariant.
LEMMA MutatorOpIInv ==
  ASSUME IInv, MutatorOp
  PROVE  IInv'
<1>1. TypeOK /\ Idle /\ writing = NoWrite /\ RootsTypeOK
  BY DEF IInv, MutatorOp, Idle, TypeOK
<1>2. /\ \A s \in DOMAIN stack : stack[s] \in Ref /\ (stack[s] # Null => stack[s] \in RootRefs)
      /\ \A n \in Name : globals[n] \in Ref /\ (globals[n] # Null => globals[n] \in RootRefs)
  BY <1>1 DEF RootsTypeOK, RootRefs, RootSet
<1>3. RootRefs \subseteq allocated
  BY WhatCountsIsLive
<1>4. CASE \E o \in Obj : Alloc(o)
  BY <1>1, <1>4, AllocIInv
<1>5. CASE /\ \E o \in StoreTargets, i \in Slot, v \in StoreValues : WriteField(o, i, v)
           /\ UNCHANGED roots
  BY <1>1, <1>5, WriteFieldIInv
<1>6. CASE \E p \in DOMAIN stack, i \in Slot : Load(p, i) /\ OnPushed(Loaded(p, i))
  <2>1. PICK p \in DOMAIN stack, i \in Slot : Load(p, i) /\ OnPushed(Loaded(p, i))
    BY <1>6
  <2>2. stack[p] \in Obj /\ stack[p] \in allocated
    BY <1>2, <1>3, <2>1 DEF Load, Ref
  <2>3. Loaded(p, i) \in Ref /\ (Loaded(p, i) # Null => Loaded(p, i) \in allocated)
    BY <1>1, <2>2, WhatCountsIsLive DEF Loaded, BeingWritten, TypeOK
  <2>. QED
    BY <1>1, <2>1, <2>3, PushIInv DEF Load
<1>7. CASE \E s \in DOMAIN stack : Dup(s) /\ OnPushed(stack[s])
  BY <1>1, <1>2, <1>3, <1>7, PushIInv DEF Dup
<1>8. CASE \E dst, src \in DOMAIN stack : Assign(dst, src) /\ OnAssigned(stack[src], stack[dst])
  BY <1>1, <1>8, AssignIInv
<1>9. CASE \E depth \in 0 .. (Len(stack) - 1) : Unwind(depth) /\ OnDropped(Dropped(depth))
  BY <1>1, <1>9, UnwindIInv
<1>10. CASE \E n \in Name, s \in DOMAIN stack :
              SetGlobal(n, s) /\ OnGlobalChanged(globals[n], stack[s])
  <2>1. PICK n \in Name, s \in DOMAIN stack :
           SetGlobal(n, s) /\ OnGlobalChanged(globals[n], stack[s])
    BY <1>10
  <2>2. RootStep
    BY <2>1 DEF RootStep
  <2>3. globals'[n] = stack[s] /\ (\A m \in Name \ {n} : globals'[m] = globals[m]) /\ stack' = stack
    BY <1>1, <2>1 DEF SetGlobal, RootsTypeOK
  <2>. QED
    BY <1>1, <1>2, <2>1, <2>2, <2>3, GlobalChangeIInv
<1>11. CASE \E n \in Name : Global(n) /\ OnPushed(globals[n])
  BY <1>1, <1>2, <1>3, <1>11, PushIInv DEF Global
<1>12. CASE \E n \in Name : ClearGlobal(n) /\ OnGlobalChanged(globals[n], Null)
  <2>1. PICK n \in Name : ClearGlobal(n) /\ OnGlobalChanged(globals[n], Null)
    BY <1>12
  <2>2. RootStep
    BY <2>1 DEF RootStep
  <2>3. globals'[n] = Null /\ (\A m \in Name \ {n} : globals'[m] = globals[m]) /\ stack' = stack
    BY <1>1, <2>1 DEF ClearGlobal, RootsTypeOK
  <2>4. Null \in Ref
    BY DEF Ref
  <2>. QED
    BY <1>1, <2>1, <2>2, <2>3, <2>4, GlobalChangeIInv
<1>. QED
  BY <1>4, <1>5, <1>6, <1>7, <1>8, <1>9, <1>10, <1>11, <1>12 DEF MutatorOp

\* A step that changes nothing keeps the invariant.
LEMMA StutterIInv == IInv /\ UNCHANGED vars => IInv'
<1>. SUFFICES ASSUME IInv, UNCHANGED vars
              PROVE  IInv'
  OBVIOUS
<1>1. UNCHANGED <<stack, globals, allocated, refs, rc, pending, dropped, writing, panicked>>
  BY DEF vars, heapVars
<1>2. TypeOK'
  BY <1>1 DEF IInv, TypeOK, RootsTypeOK
<1>3. CountsCoverReferences'
  <2>1. \A o \in Obj : References(o)' = References(o)
    BY <1>1 DEF References, BeingWritten
  <2>. QED
    BY <1>1, <2>1 DEF IInv, CountsCoverReferences
<1>. QED
  BY <1>1, <1>2, <1>3 DEF IInv, RcLive, WriteIsRooted, RootRefs

\* Every step of the machine keeps the invariant.
LEMMA NextIInv == IInv /\ [Next]_vars => IInv'
BY MutatorOpIInv, ReleaseStepIInv, ReleaseNextIInv, FinishWriteIInv, StutterIInv DEF Next, Internal

\* The inductive invariant holds throughout: a count covers its references,
\* what has a count holds memory, and a write in progress is rooted.
THEOREM InvariantHolds == Spec => []IInv
<1>. QED
  BY InitIInv, NextIInv, PTL DEF Spec

\* The reference counter's variables keep their types.
THEOREM TypeCorrect == Spec => []TypeOK
<1>1. IInv => TypeOK
  BY DEF IInv
<1>. QED
  BY <1>1, InvariantHolds, PTL

\* No count ever falls below the number of references still to be released,
\* and release never meets a count of zero, with any number of objects, slots,
\* globals and handles and however deep the cascades.
THEOREM CountsAlwaysCover == Spec => []CountsCoverReferences
<1>1. IInv => CountsCoverReferences
  BY DEF IInv
<1>. QED
  BY <1>1, InvariantHolds, PTL

(***************************************************************************)
(* The reference counter implements the shadow model                       *)
(***************************************************************************)

\* The allocated objects have all the roots and everything they refer to, the
\* slot that is being written being read as written.
LiveIsClosed ==
  /\ RootRefs \subseteq allocated
  /\ \A p \in allocated : Children(settled, p) \subseteq allocated

\* The slots as the program sees them.
SettledReads ==
  /\ settled \in [Obj -> [Slot -> Ref]]
  /\ \A p \in Obj, i \in Slot :
       settled[p][i] = IF BeingWritten(p, i) THEN writing.val ELSE refs[p][i]

\* What the program sees of a field: its value, or the one it is being given.
LEMMA SettledFacts == TypeOK => SettledReads
<1>. SUFFICES ASSUME TypeOK
              PROVE  SettledReads
  OBVIOUS
<1>1. CASE writing = NoWrite
  BY <1>1 DEF TypeOK, settled, BeingWritten, SettledReads
<1>2. CASE writing # NoWrite
  <2>1. writing.obj \in Obj /\ writing.slot \in Slot /\ writing.val \in Ref
    BY <1>2 DEF TypeOK
  <2>2. settled = [refs EXCEPT ![writing.obj][writing.slot] = writing.val]
    BY <1>2 DEF settled
  <2>. QED
    BY <1>2, <2>1, <2>2 DEF TypeOK, BeingWritten, SettledReads
<1>. QED
  BY <1>1, <1>2

\* The invariant says as much.
LEMMA LiveClosed == IInv => LiveIsClosed
<1>. SUFFICES ASSUME IInv
              PROVE  LiveIsClosed
  OBVIOUS
<1>1. TypeOK /\ RootRefs \subseteq allocated
  BY WhatCountsIsLive DEF IInv
<1>2. ASSUME NEW p \in allocated, NEW i \in Slot, settled[p][i] # Null
      PROVE  settled[p][i] \in allocated
  <2>1. settled[p][i] = IF BeingWritten(p, i) THEN writing.val ELSE refs[p][i]
    BY <1>1, SettledFacts DEF TypeOK, SettledReads
  <2>2. CASE BeingWritten(p, i)
    BY <1>1, <1>2, <2>1, <2>2 DEF IInv, WriteIsRooted, BeingWritten
  <2>3. CASE ~ BeingWritten(p, i)
    BY <1>2, <2>1, <2>3, WhatCountsIsLive
  <2>. QED
    BY <2>2, <2>3
<1>. QED
  BY <1>1, <1>2 DEF LiveIsClosed, Children

\* The program reaches nothing that has been freed.
LEMMA GraphIsLive ==
  ASSUME IInv
  PROVE  /\ settled \in [Obj -> [Slot -> Ref]] /\ RootRefs \in SUBSET Obj
         /\ graph \in [Obj -> [Slot -> Ref]]
         /\ \A p \in Obj : graph[p] = IF p \in Reachable(settled, RootRefs) THEN settled[p] ELSE Blank
         /\ RootRefs \subseteq Reachable(settled, RootRefs)
         /\ Reachable(settled, RootRefs) \subseteq allocated
         /\ Reachable(graph, RootRefs) = Reachable(settled, RootRefs)
<1>1. TypeOK /\ settled \in [Obj -> [Slot -> Ref]] /\ RootRefs \in SUBSET Obj /\ allocated \in SUBSET Obj
  BY SettledFacts, RootsAreObjects DEF IInv, TypeOK, SettledReads
<1>2. LiveIsClosed
  BY LiveClosed
<1>3. Reachable(settled, RootRefs) \subseteq allocated
  BY <1>1, <1>2, ReachableIsLeast DEF LiveIsClosed
<1>4. /\ graph \in [Obj -> [Slot -> Ref]]
      /\ \A p \in Obj : graph[p] = IF p \in Reachable(settled, RootRefs) THEN settled[p] ELSE Blank
  BY <1>1, KeptFacts DEF graph
<1>5. RootRefs \subseteq Reachable(settled, RootRefs)
  BY <1>1, ReachableIsLeast
<1>6. Reachable(graph, RootRefs) = Reachable(settled, RootRefs)
  <2>1. \A p \in Reachable(settled, RootRefs) : graph[p] = settled[p]
    BY <1>1, <1>4, ReachableIsLeast
  <2>. QED
    BY <1>1, <1>4, <2>1, ReachableLooksAtReached
<1>. QED
  BY <1>1, <1>3, <1>4, <1>5, <1>6

\* The model's reachability is that of the heap.
LEMMA SameReachable ==
  ASSUME NEW r, NEW R
  PROVE  Shadow!Reachable(r, R) = Reachable(r, R)
BY DEF Reachable, Shadow!Reachable, Children, Shadow!Children, Slot, Shadow!Slot

\* And so is what it forgets.
LEMMA SameForget ==
  ASSUME NEW slots
  PROVE  Shadow!Forget(slots) <=> graph' = KeepReachable(slots, RootRefs')
<1>1. Shadow!KeepReachable(slots, RootRefs') = KeepReachable(slots, RootRefs')
  BY SameReachable DEF KeepReachable, Shadow!KeepReachable, Blank, Shadow!Blank, Slot, Shadow!Slot
<1>2. Shadow!RootSet(stack', globals') = RootRefs'
  BY DEF Shadow!RootSet, RootRefs, RootSet
<1>. QED
  BY <1>1, <1>2 DEF Shadow!Forget

\* A turn of a cascade changes nothing the program can reach.
LEMMA ReleaseStepIsInvisible ==
  ASSUME IInv, ReleaseStep
  PROVE  UNCHANGED <<graph, stack, globals>>
<1>1. IInv'
  BY ReleaseStepIInv
<1>2. LiveIsClosed'
  BY <1>1, LiveClosed, PTL
<1>3. TypeOK /\ TypeOK'
  BY <1>1 DEF IInv
<1>4. /\ UNCHANGED <<stack, globals, writing>> /\ RootRefs' = RootRefs
      /\ allocated' \in SUBSET Obj
      /\ \A p \in allocated' : refs'[p] = refs[p]
  BY <1>3 DEF ReleaseStep, Freed, RootRefs, TypeOK
<1>5. SettledReads /\ SettledReads'
  <2>1. SettledReads'
    BY <1>3, SettledFacts, PTL
  <2>. QED
    BY <1>3, <2>1, SettledFacts
<1>6. \A p \in allocated' : settled[p] = settled'[p]
  <2>1. \A p \in allocated', i \in Slot : settled[p][i] = settled'[p][i]
    BY <1>4, <1>5 DEF SettledReads, BeingWritten
  <2>. QED
    BY <1>4, <1>5, <2>1 DEF SettledReads
<1>7. KeepReachable(settled, RootRefs) = KeepReachable(settled', RootRefs)
  <2>1. RootRefs \in SUBSET Obj /\ RootRefs \subseteq allocated'
    BY <1>2, <1>4 DEF LiveIsClosed
  <2>2. \A p \in allocated' : Children(settled', p) \subseteq allocated'
    BY <1>2 DEF LiveIsClosed
  <2>3. Reachable(settled', RootRefs) \subseteq allocated'
    BY <1>4, <1>5, <2>1, <2>2, ReachableIsLeast DEF SettledReads
  <2>4. Reachable(settled, RootRefs) = Reachable(settled', RootRefs)
    BY <1>5, <1>6, <2>1, <2>3, ReachableLooksAtReached DEF SettledReads
  <2>. QED
    BY <1>6, <2>3, <2>4 DEF KeepReachable
<1>. QED
  BY <1>4, <1>7 DEF graph

\* The rest of a write_field takes effect for the program when it begins.
LEMMA FinishWriteIsInvisible ==
  ASSUME IInv, FinishWrite
  PROVE  UNCHANGED <<graph, stack, globals>>
<1>1. UNCHANGED <<stack, globals>> /\ RootRefs' = RootRefs /\ settled' = settled
  BY DEF FinishWrite, settled, RootRefs
<1>. QED
  BY <1>1 DEF graph

\* So is a handle's passing from one worklist to the other.
LEMMA ReleaseNextIsInvisible ==
  ASSUME ReleaseNext
  PROVE  UNCHANGED <<graph, stack, globals>>
<1>1. UNCHANGED <<stack, globals>> /\ RootRefs' = RootRefs /\ settled' = settled
  BY DEF ReleaseNext, settled, RootRefs
<1>. QED
  BY <1>1 DEF graph

\* An operation on the roots is the model's.
LEMMA RootStepImplements ==
  ASSUME IInv, writing = NoWrite, RootStep, UNCHANGED <<refs, writing>>
  PROVE  Shadow!ModelRootStep
<1>1. /\ settled = refs /\ settled' = refs /\ refs \in [Obj -> [Slot -> Ref]]
      /\ RootsTypeOK
  BY DEF settled, IInv, TypeOK
<1>2. /\ RootRefs \in SUBSET Obj /\ RootRefs \subseteq Reachable(refs, RootRefs)
      /\ \A p \in Obj : graph[p] = IF p \in Reachable(refs, RootRefs) THEN refs[p] ELSE Blank
  BY <1>1, GraphIsLive
<1>3. RootRefs' \subseteq Reachable(refs, RootRefs)
  BY <1>1, RootStepKeepsReach
<1>4. Shadow!Forget(graph)
  <2>1. graph' = KeepReachable(refs, RootRefs')
    BY <1>1 DEF graph
  <2>2. KeepReachable(graph, RootRefs') = KeepReachable(refs, RootRefs')
    BY <1>1, <1>2, <1>3, KeptAgain DEF graph
  <2>. QED
    BY <2>1, <2>2, SameForget
<1>5. Shadow!RootStep
  <2>1. ASSUME NEW p \in DOMAIN stack, NEW i \in Slot, Load(p, i)
        PROVE  Shadow!Load(p, i)
    <3>1. stack[p] \in RootRefs
      BY <2>1 DEF Load, RootRefs, RootSet
    <3>2. graph[stack[p]][i] = refs[stack[p]][i]
      BY <1>2, <3>1
    <3>. QED
      BY <2>1, <3>2 DEF Load, Shadow!Load, Loaded, Shadow!Loaded, PushRoot, Shadow!PushRoot
  <2>2. Shadow!Slot = Slot
    BY DEF Slot, Shadow!Slot
  <2>. QED
    BY <2>1, <2>2
    DEF RootStep, Shadow!RootStep, Dup, Shadow!Dup, Assign, Shadow!Assign, Unwind, Shadow!Unwind,
        SetGlobal, Shadow!SetGlobal, Global, Shadow!Global, ClearGlobal, Shadow!ClearGlobal,
        PushRoot, Shadow!PushRoot
<1>. QED
  BY <1>4, <1>5 DEF Shadow!ModelRootStep

\* An allocation is the model's: its address is out of the program's reach.
LEMMA AllocImplements ==
  ASSUME IInv, Idle, NEW o \in Obj, Alloc(o)
  PROVE  Shadow!ModelAlloc(o)
<1>1. /\ settled = refs /\ settled' = refs' /\ refs \in [Obj -> [Slot -> Ref]]
      /\ RootsTypeOK /\ PushRoot(o) /\ refs' = [refs EXCEPT ![o] = Blank] /\ o \notin allocated
  BY DEF settled, IInv, TypeOK, Idle, Alloc, PushRoot
<1>. DEFINE reach == Reachable(refs, RootRefs)
            q == [graph EXCEPT ![o] = Blank]
<1>2. /\ RootRefs \in SUBSET Obj /\ RootRefs \subseteq reach /\ reach \in SUBSET Obj
      /\ graph \in [Obj -> [Slot -> Ref]] /\ reach \subseteq allocated
      /\ \A p \in Obj : graph[p] = IF p \in reach THEN refs[p] ELSE Blank
      /\ \A p \in reach : Children(refs, p) \subseteq reach
      /\ Reachable(graph, RootRefs) = reach
  BY <1>1, GraphIsLive, ReachableIsLeast
<1>3. RootRefs' = RootRefs \cup {o}
  BY <1>1, PushedRoots, NullAssumption DEF Ref
<1>4. /\ q \in [Obj -> [Slot -> Ref]] /\ refs' \in [Obj -> [Slot -> Ref]]
      /\ \A p \in reach \cup {o} : q[p] = refs'[p]
      /\ \A p \in reach : refs'[p] = refs[p]
      /\ refs'[o] = Blank
  <2>1. Blank \in [Slot -> Ref]
    BY DEF Blank, Ref
  <2>. QED
    BY <1>1, <1>2, <2>1
<1>. HIDE DEF q, reach
<1>5. \A p \in reach \cup {o} : Children(refs', p) \subseteq reach \cup {o}
  BY <1>2, <1>4 DEF Children, Blank
<1>6. Reachable(refs', RootRefs') \subseteq reach \cup {o}
  <2>1. reach \cup {o} \in SUBSET Obj /\ RootRefs' \in SUBSET Obj
    BY <1>2, <1>3
  <2>2. RootRefs' \subseteq reach \cup {o}
    BY <1>2, <1>3
  <2>3. refs' \in [Obj -> [Slot -> Ref]]
    BY <1>4
  <2>. DEFINE r == refs'
              R == RootRefs'
              S == reach \cup {o}
  <2>4. \A p \in S : Children(r, p) \subseteq S
    BY <1>5
  <2>. HIDE DEF r, R, S
  <2>5. r \in [Obj -> [Slot -> Ref]] /\ R \in SUBSET Obj /\ S \in SUBSET Obj /\ R \subseteq S
    BY <2>1, <2>2, <2>3 DEF r, R, S
  <2>6. Reachable(r, R) \subseteq S
    BY <2>4, <2>5, ReachableIsLeast
  <2>. QED
    BY <2>6 DEF r, R, S
<1>7. Reachable(q, RootRefs') = Reachable(refs', RootRefs')
  <2>. DEFINE r == refs'
              R == RootRefs'
  <2>1. /\ r \in [Obj -> [Slot -> Ref]] /\ q \in [Obj -> [Slot -> Ref]] /\ R \in SUBSET Obj
        /\ \A p \in Reachable(r, R) : q[p] = r[p]
    BY <1>2, <1>3, <1>4, <1>6
  <2>. HIDE DEF r, R
  <2>2. Reachable(q, R) = Reachable(r, R)
    BY <2>1, ReachableLooksAtReached
  <2>. QED
    BY <2>2 DEF r, R
<1>8. KeepReachable(q, RootRefs') = KeepReachable(refs', RootRefs')
  BY <1>4, <1>6, <1>7 DEF KeepReachable
<1>9. Shadow!Forget(q)
  BY <1>1, <1>8, SameForget DEF graph
<1>10. o \notin Shadow!Reachable(graph, Shadow!RootRefs)
  <2>1. Shadow!RootRefs = RootRefs
    BY DEF Shadow!RootRefs, RootRefs, Shadow!RootSet, RootSet
  <2>. QED
    BY <1>1, <1>2, <2>1, SameReachable
<1>11. Shadow!Blank = Blank
  BY DEF Shadow!Blank, Blank, Shadow!Slot, Slot
<1>. QED
  BY <1>1, <1>9, <1>10, <1>11 DEF Shadow!ModelAlloc, Shadow!PushRoot, PushRoot, q

\* A store is the model's.
LEMMA WriteFieldImplements ==
  ASSUME IInv, Idle, UNCHANGED roots,
         NEW o \in StoreTargets, NEW i \in Slot, NEW v \in StoreValues, WriteField(o, i, v)
  PROVE  Shadow!ModelStore(o, i, v)
<1>1. /\ settled = refs /\ refs \in [Obj -> [Slot -> Ref]] /\ RootsTypeOK
      /\ UNCHANGED <<stack, globals, refs>> /\ RootRefs' = RootRefs
      /\ writing' = [obj |-> o, slot |-> i, val |-> v]
  BY DEF settled, IInv, TypeOK, Idle, WriteField, roots, RootRefs
<1>2. /\ o \in Obj /\ o \in RootRefs /\ v \in Ref /\ (v # Null => v \in RootRefs)
  BY <1>1, StoreOperands
<1>3. settled' = [refs EXCEPT ![o][i] = v]
  <2>1. writing' # NoWrite /\ writing'.obj = o /\ writing'.slot = i /\ writing'.val = v
    BY <1>1, <1>2, NoWriteAssumption
  <2>. QED
    BY <1>1, <2>1 DEF settled
<1>. DEFINE reach == Reachable(refs, RootRefs)
            q == [graph EXCEPT ![o][i] = v]
            r == [refs EXCEPT ![o][i] = v]
<1>4. /\ RootRefs \in SUBSET Obj /\ RootRefs \subseteq reach /\ reach \in SUBSET Obj
      /\ graph \in [Obj -> [Slot -> Ref]]
      /\ \A p \in Obj : graph[p] = IF p \in reach THEN refs[p] ELSE Blank
      /\ \A p \in reach : Children(refs, p) \subseteq reach
  BY <1>1, GraphIsLive, ReachableIsLeast
<1>5. /\ q \in [Obj -> [Slot -> Ref]] /\ r \in [Obj -> [Slot -> Ref]]
      /\ \A p \in reach : q[p] = r[p]
  BY <1>1, <1>2, <1>4
<1>6. \A p \in Obj, j \in Slot : r[p][j] = IF p = o /\ j = i THEN v ELSE refs[p][j]
  BY <1>1, <1>2
<1>. HIDE DEF q, r, reach
<1>7. \A p \in reach : Children(r, p) \subseteq reach
  BY <1>2, <1>4, <1>6 DEF Children
<1>8. Reachable(r, RootRefs) \subseteq reach
  BY <1>4, <1>5, <1>7, ReachableIsLeast
<1>9. Reachable(q, RootRefs) = Reachable(r, RootRefs)
  BY <1>4, <1>5, <1>8, ReachableLooksAtReached
<1>10. KeepReachable(q, RootRefs) = KeepReachable(r, RootRefs)
  BY <1>5, <1>8, <1>9 DEF KeepReachable
<1>11. Shadow!Forget(q)
  BY <1>1, <1>3, <1>10, SameForget DEF graph, r
<1>. QED
  BY <1>1, <1>11 DEF Shadow!ModelStore, Shadow!roots, q

\* Every step is a step of the model, or invisible in it.
LEMMA NextImplements == IInv /\ [Next]_vars => [Shadow!ModelNext]_(Shadow!modelVars)
<1>. SUFFICES ASSUME IInv, [Next]_vars
              PROVE  Shadow!ModelNext \/ UNCHANGED <<graph, stack, globals>>
  BY DEF Shadow!modelVars
<1>1. CASE MutatorOp
  <2>1. Idle /\ writing = NoWrite
    BY <1>1 DEF MutatorOp, Idle
  <2>2. CASE \E o \in Obj : Alloc(o)
    BY <2>1, <2>2, AllocImplements DEF Shadow!ModelNext
  <2>3. CASE /\ \E o \in StoreTargets, i \in Slot, v \in StoreValues : WriteField(o, i, v)
             /\ UNCHANGED roots
    <3>1. /\ Shadow!StoreTargets = StoreTargets /\ Shadow!StoreValues = StoreValues /\ Shadow!Slot = Slot
      BY DEF Shadow!StoreTargets, StoreTargets, Shadow!StoreValues, StoreValues, Shadow!Slot, Slot
    <3>. QED
      BY <2>1, <2>3, <3>1, WriteFieldImplements DEF Shadow!ModelNext
  <2>4. CASE RootStep /\ UNCHANGED <<refs, writing>>
    BY <2>1, <2>4, RootStepImplements DEF Shadow!ModelNext
  <2>. QED
    BY <1>1, <2>2, <2>3, <2>4 DEF MutatorOp, RootStep, OnPushed, OnAssigned, OnDropped, OnGlobalChanged
<1>2. CASE Internal
  BY <1>2, ReleaseStepIsInvisible, ReleaseNextIsInvisible, FinishWriteIsInvisible DEF Internal
<1>3. CASE UNCHANGED vars
  BY <1>3 DEF vars, heapVars, graph, settled, RootRefs
<1>. QED
  BY <1>1, <1>2, <1>3 DEF Next

\* The empty heap is the empty shadow model.
LEMMA InitImplements == Init => Shadow!ModelInit
<1>. SUFFICES ASSUME Init
              PROVE  Shadow!ModelInit
  OBVIOUS
<1>1. settled = [p \in Obj |-> Blank]
  BY DEF Init, settled
<1>2. graph = [p \in Obj |-> Blank]
  BY <1>1 DEF graph, KeepReachable
<1>3. Shadow!Blank = Blank
  BY DEF Shadow!Blank, Blank, Shadow!Slot, Slot
<1>. QED
  BY <1>2, <1>3 DEF Init, Shadow!ModelInit, RootsInit, Shadow!RootsInit

\* The reference counter implements the shadow model: whatever a cascade frees,
\* the program's graph changes only by the program's own operations, and an
\* address is handed out again only when the program cannot reach it.
THEOREM CascadesAreInvisible == Spec => ImplementsModel
<1>. QED
  BY InvariantHolds, InitImplements, NextImplements, PTL DEF Spec, ImplementsModel, Shadow!ModelSpec
=============================================================================
