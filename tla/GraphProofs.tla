---------------------------- MODULE GraphProofs ----------------------------
(***************************************************************************)
(* What all proofs share: what the operators of ObjectGraph compute, for   *)
(* every finite set of objects, and what the operations of Mutator do to   *)
(* the roots; then what verify's verdict means, and that the operations of *)
(* the mutator keep a heap faithful to the shadow model, whichever         *)
(* collector it is.                                                        *)
(***************************************************************************)
EXTENDS Verifier, FiniteSetTheorems, TLAPS

\* kids takes no member of S out of S.
ClosedUnder(kids, S) == \A o \in S : kids[o] \subseteq S

\* The least set that is closed under kids and has all of R.
Closure(N, kids, R) ==
  {x \in N : \A S \in SUBSET N : R \subseteq S /\ ClosedUnder(kids, S) => x \in S}

\* It is one of them, and in all of them.
LEMMA ClosureIsLeast ==
  ASSUME NEW N, NEW kids \in [N -> SUBSET N], NEW R \in SUBSET N
  PROVE  /\ Closure(N, kids, R) \in SUBSET N
         /\ R \subseteq Closure(N, kids, R)
         /\ ClosedUnder(kids, Closure(N, kids, R))
         /\ \A S \in SUBSET N :
              R \subseteq S /\ ClosedUnder(kids, S) => Closure(N, kids, R) \subseteq S
BY DEF Closure, ClosedUnder

\* The closure satisfies the equation by which Reachable searches.
LEMMA ClosureSearches ==
  ASSUME NEW N, NEW kids \in [N -> SUBSET N], NEW R \in SUBSET N
  PROVE  LET found == UNION {kids[o] : o \in R}
         IN  /\ R \cup found \in SUBSET N
             /\ Closure(N, kids, R) = IF found \subseteq R THEN R
                                      ELSE Closure(N, kids, R \cup found)
<1>. DEFINE found == UNION {kids[o] : o \in R}
<1>1. found \in SUBSET N /\ R \cup found \in SUBSET N
  OBVIOUS
<1>2. ASSUME found \subseteq R
      PROVE  Closure(N, kids, R) = R
  <2>1. ClosedUnder(kids, R)
    BY <1>2 DEF ClosedUnder
  <2>. QED
    BY <2>1, ClosureIsLeast
<1>3. ASSUME NEW S \in SUBSET N, ClosedUnder(kids, S)
      PROVE  R \subseteq S <=> R \cup found \subseteq S
  BY <1>3 DEF ClosedUnder
<1>4. Closure(N, kids, R) = Closure(N, kids, R \cup found)
  <2>. HIDE DEF found
  <2>. QED
    BY <1>1, <1>3 DEF Closure
<1>. QED
  BY <1>1, <1>2, <1>4

\* from solves the equation of a search along kids.
Searches(from, N, kids) ==
  \A seen \in SUBSET N :
    LET found == UNION {kids[o] : o \in seen}
    IN  from[seen] = IF found \subseteq seen THEN seen ELSE from[seen \cup found]

\* On a finite set the search has no other solution.
LEMMA SearchIsClosure ==
  ASSUME NEW N, IsFiniteSet(N), NEW kids \in [N -> SUBSET N],
         NEW from, Searches(from, N, kids), NEW R \in SUBSET N
  PROVE  from[R] = Closure(N, kids, R)
<1>. DEFINE found(seen) == UNION {kids[o] : o \in seen}
            Wrong == {seen \in SUBSET N : from[seen] # Closure(N, kids, seen)}
            Rest == {N \ seen : seen \in Wrong}
            Smaller == StrictSubsetOrdering(N)
<1>1. SUFFICES ASSUME Wrong # {}
               PROVE  FALSE
  OBVIOUS
<1>2. Rest \subseteq FiniteSubsetsOf(N) /\ Rest # {}
  <2>1. ASSUME NEW seen \in Wrong
        PROVE  N \ seen \in FiniteSubsetsOf(N)
    BY FS_Subset DEF FiniteSubsetsOf
  <2>. QED
    BY <1>1, <2>1
<1>3. PICK D \in Rest : \A E \in Rest : <<E, D>> \notin Smaller
  <2>1. IsWellFoundedOn(Smaller, FiniteSubsetsOf(N))
    BY FS_StrictSubsetOrderingWellFounded
  <2>. HIDE DEF Rest, Smaller
  <2>. QED
    BY <1>2, <2>1, WFMin
<1>4. PICK seen \in Wrong : D = N \ seen
  OBVIOUS
<1>. DEFINE next == seen \cup found(seen)
<1>5. /\ seen \in SUBSET N /\ next \in SUBSET N
      /\ Closure(N, kids, seen) = IF found(seen) \subseteq seen THEN seen
                                  ELSE Closure(N, kids, next)
  BY ClosureSearches
<1>6. from[seen] = IF found(seen) \subseteq seen THEN seen ELSE from[next]
  BY <1>5 DEF Searches
<1>7. ~ (found(seen) \subseteq seen) /\ from[next] # Closure(N, kids, next)
  BY <1>4, <1>5, <1>6
<1>8. N \ next \in Rest
  BY <1>5, <1>7
<1>9. <<N \ next, D>> \in Smaller
  <2>1. N \ next \subseteq N \ seen /\ N \ next # N \ seen
    BY <1>5, <1>7
  <2>2. N \ next \in FiniteSubsetsOf(N) /\ D \in FiniteSubsetsOf(N)
    BY <1>2, <1>8
  <2>3. IsFiniteSet(N \ next) /\ IsFiniteSet(N \ seen) /\ N \ next \in SUBSET N /\ N \ seen \in SUBSET N
    BY <1>4, <2>2 DEF FiniteSubsetsOf
  <2>. QED
    BY <1>4, <2>1, <2>3 DEF StrictSubsetOrdering, FiniteSubsetsOf
<1>. QED
  BY <1>3, <1>8, <1>9

\* Model::reachable is the least set of objects that has the roots and every
\* object a member refers to.
THEOREM ReachableIsClosure ==
  ASSUME NEW r, \A o \in Obj : Children(r, o) \subseteq Obj, NEW R \in SUBSET Obj
  PROVE  Reachable(r, R) = Closure(Obj, [o \in Obj |-> Children(r, o)], R)
<1>. DEFINE kids == [o \in Obj |-> Children(r, o)]
            found(seen) == UNION {Children(r, o) : o \in seen}
            Equation(g) == g = [seen \in SUBSET Obj |->
                                  IF found(seen) \subseteq seen THEN seen ELSE g[seen \cup found(seen)]]
            from == CHOOSE g : Equation(g)
            closure == [seen \in SUBSET Obj |-> Closure(Obj, kids, seen)]
<1>1. kids \in [Obj -> SUBSET Obj]
  OBVIOUS
<1>2. \A seen \in SUBSET Obj : found(seen) = UNION {kids[o] : o \in seen}
  OBVIOUS
<1>3. Equation(closure)
  <2>1. ASSUME NEW seen \in SUBSET Obj
        PROVE  /\ seen \cup found(seen) \in SUBSET Obj
               /\ closure[seen] = IF found(seen) \subseteq seen THEN seen
                                  ELSE closure[seen \cup found(seen)]
    <3>. HIDE DEF kids, found
    <3>. QED
      BY <1>1, <1>2, ClosureSearches
  <2>. HIDE DEF found
  <2>. QED
    BY <2>1
<1>4. Equation(from)
  <2>. HIDE DEF Equation, closure
  <2>. QED
    BY <1>3
<1>5. from[R] = Closure(Obj, kids, R)
  <2>1. \A seen \in SUBSET Obj :
          from[seen] = IF found(seen) \subseteq seen THEN seen ELSE from[seen \cup found(seen)]
    <3>. HIDE DEF from, found
    <3>. QED
      BY <1>4
  <2>. HIDE DEF from, kids, found
  <2>2. Searches(from, Obj, kids)
    BY <1>2, <2>1 DEF Searches
  <2>. QED
    BY <1>1, <2>2, SearchIsClosure, ObjAssumption
<1>6. Reachable(r, R) = from[R]
  BY DEF Reachable
<1>. QED
  BY <1>5, <1>6

\* The closure, in the words of ObjectGraph.
THEOREM ReachableIsLeast ==
  ASSUME NEW r \in [Obj -> [Slot -> Ref]], NEW R \in SUBSET Obj
  PROVE  /\ Reachable(r, R) \in SUBSET Obj
         /\ R \subseteq Reachable(r, R)
         /\ \A o \in Reachable(r, R) : Children(r, o) \subseteq Reachable(r, R)
         /\ \A S \in SUBSET Obj :
              R \subseteq S /\ (\A o \in S : Children(r, o) \subseteq S)
                => Reachable(r, R) \subseteq S
<1>. DEFINE kids == [o \in Obj |-> Children(r, o)]
<1>1. \A o \in Obj : Children(r, o) \subseteq Obj
  BY DEF Children, Ref
<1>2. kids \in [Obj -> SUBSET Obj]
  BY <1>1
<1>3. Reachable(r, R) = Closure(Obj, kids, R)
  BY <1>1, ReachableIsClosure
<1>4. \A S \in SUBSET Obj :
        ClosedUnder(kids, S) <=> \A o \in S : Children(r, o) \subseteq S
  BY DEF ClosedUnder
<1>. HIDE DEF kids
<1>5. /\ Reachable(r, R) \in SUBSET Obj /\ R \subseteq Reachable(r, R)
      /\ ClosedUnder(kids, Reachable(r, R))
      /\ \A S \in SUBSET Obj :
           R \subseteq S /\ ClosedUnder(kids, S) => Reachable(r, R) \subseteq S
  BY <1>2, <1>3, ClosureIsLeast
<1>. QED
  BY <1>4, <1>5

\* A search from more finds more.
LEMMA ReachableGrows ==
  ASSUME NEW r \in [Obj -> [Slot -> Ref]], NEW R \in SUBSET Obj, NEW Q \in SUBSET R
  PROVE  Reachable(r, Q) \subseteq Reachable(r, R)
BY ReachableIsLeast

\* Only the fields of what is reached matter.
LEMMA ReachableLooksAtReached ==
  ASSUME NEW r \in [Obj -> [Slot -> Ref]], NEW q \in [Obj -> [Slot -> Ref]],
         NEW R \in SUBSET Obj,
         \A o \in Reachable(r, R) : q[o] = r[o]
  PROVE  Reachable(q, R) = Reachable(r, R)
<1>1. \A o \in Reachable(r, R) : Children(q, o) = Children(r, o)
  BY DEF Children
<1>2. Reachable(q, R) \subseteq Reachable(r, R)
  BY <1>1, ReachableIsLeast
<1>3. \A o \in Reachable(q, R) : Children(q, o) = Children(r, o)
  BY <1>1, <1>2
<1>4. Reachable(r, R) \subseteq Reachable(q, R)
  BY <1>3, ReachableIsLeast
<1>. QED
  BY <1>2, <1>4

\* What the roots are, given their types.
LEMMA RootSetType ==
  ASSUME NEW stk \in Seq(Ref), NEW glb \in [Name -> Ref]
  PROVE  RootSet(stk, glb) \in SUBSET Obj
BY DEF RootSet, Ref

\* The members of a finite set can be put in an order.
LEMMA SomeOrderExists ==
  ASSUME NEW S, IsFiniteSet(S)
  PROVE  \E s \in [1 .. Cardinality(S) -> S] : {s[i] : i \in DOMAIN s} = S
<1>1. PICK s \in Bijection(1 .. Cardinality(S), S) : TRUE
  BY FS_CardinalityType DEF ExistsBijection
<1>2. s \in [1 .. Cardinality(S) -> S] /\ \A x \in S : \E i \in 1 .. Cardinality(S) : s[i] = x
  BY DEF Bijection, Injection, Surjection
<1>. QED
  BY <1>2

\* The entries of a sequence.
Entries(s) == {s[i] : i \in DOMAIN s}

\* What a loop over a set pushes.
LEMMA OrderOf ==
  ASSUME NEW S \in SUBSET Obj
  PROVE  /\ InSomeOrder(S) \in Seq(Obj)
         /\ Entries(InSomeOrder(S)) = S
<1>. DEFINE P(s) == {s[i] : i \in DOMAIN s} = S
<1>1. IsFiniteSet(S) /\ Cardinality(S) \in Nat
  BY FS_Subset, FS_CardinalityType, ObjAssumption
<1>2. \E s \in [1 .. Cardinality(S) -> S] : P(s)
  BY <1>1, SomeOrderExists
<1>3. InSomeOrder(S) = CHOOSE s \in [1 .. Cardinality(S) -> S] : P(s)
  BY DEF InSomeOrder
<1>4. InSomeOrder(S) \in [1 .. Cardinality(S) -> S] /\ P(InSomeOrder(S))
  <2>. HIDE DEF P
  <2>. QED
    BY <1>2, <1>3
<1>5. InSomeOrder(S) \in [1 .. Cardinality(S) -> Obj]
  BY <1>4
<1>. QED
  BY <1>1, <1>4, <1>5 DEF Entries

\* A sequence without its i-th entry, as the worklists are written.
Without(s, i) == [j \in 1 .. (Len(s) - 1) |-> IF j < i THEN s[j] ELSE s[j + 1]]

\* What the worklist is without its i-th entry.
LEMMA RemovedEntry ==
  ASSUME NEW S, NEW s \in Seq(S), NEW i \in DOMAIN s
  PROVE  /\ Without(s, i) \in Seq(S)
         /\ Len(Without(s, i)) = Len(s) - 1
         /\ Entries(Without(s, i)) \subseteq Entries(s)
         /\ Entries(s) \subseteq Entries(Without(s, i)) \cup {s[i]}
<1>. DEFINE t == Without(s, i)
<1>0. t = [j \in 1 .. (Len(s) - 1) |-> IF j < i THEN s[j] ELSE s[j + 1]]
  BY DEF Without
<1>. HIDE DEF t
<1>1. /\ Len(s) \in Nat \ {0} /\ DOMAIN s = 1 .. Len(s) /\ i \in 1 .. Len(s)
      /\ \A j \in 1 .. Len(s) : s[j] \in S
  OBVIOUS
<1>2. t \in [1 .. (Len(s) - 1) -> S]
  BY <1>0, <1>1
<1>3. t \in Seq(S) /\ Len(t) = Len(s) - 1 /\ DOMAIN t = 1 .. (Len(s) - 1)
  <2>1. Len(s) - 1 \in Nat
    BY <1>1
  <2>. QED
    BY <1>2, <2>1
<1>4. ASSUME NEW k \in DOMAIN t
      PROVE  \E j \in DOMAIN s : j # i /\ t[k] = s[j]
  <2>1. CASE k < i
    BY <1>0, <1>1, <1>3, <2>1
  <2>2. CASE ~ (k < i)
    <3>1. k + 1 \in DOMAIN s /\ k + 1 # i /\ t[k] = s[k + 1]
      BY <1>0, <1>1, <1>3, <2>2
    <3>. QED
      BY <3>1
  <2>. QED
    BY <2>1, <2>2
<1>5. ASSUME NEW j \in DOMAIN s \ {i}
      PROVE  \E k \in DOMAIN t : t[k] = s[j]
  <2>1. CASE j < i
    <3>1. j \in DOMAIN t /\ t[j] = s[j]
      BY <1>0, <1>1, <1>3, <2>1
    <3>. QED
      BY <3>1
  <2>2. CASE i < j
    <3>1. j - 1 \in DOMAIN t /\ t[j - 1] = s[j]
      BY <1>0, <1>1, <1>3, <2>2
    <3>. QED
      BY <3>1
  <2>. QED
    BY <1>1, <2>1, <2>2
<1>. QED
  BY <1>3, <1>4, <1>5 DEF Entries, t

\* A worklist is what is popped from it and what is left.
LEMMA PoppedEntry ==
  ASSUME NEW S, NEW s \in Seq(S), s # <<>>
  PROVE  LET rest == SubSeq(s, 1, Len(s) - 1)
         IN  /\ rest \in Seq(S) /\ s[Len(s)] \in S
             /\ Entries(s) = Entries(rest) \cup {s[Len(s)]}
<1>. DEFINE rest == SubSeq(s, 1, Len(s) - 1)
<1>1. Len(s) \in Nat \ {0} /\ DOMAIN s = 1 .. Len(s)
  OBVIOUS
<1>2. /\ rest \in Seq(S) /\ DOMAIN rest = 1 .. (Len(s) - 1)
      /\ \A i \in 1 .. (Len(s) - 1) : rest[i] = s[i]
  BY <1>1
<1>3. \A i \in DOMAIN s : i \in DOMAIN rest \/ i = Len(s)
  BY <1>1, <1>2
<1>4. Entries(s) \subseteq Entries(rest) \cup {s[Len(s)]}
  BY <1>2, <1>3 DEF Entries
<1>5. Entries(rest) \cup {s[Len(s)]} \subseteq Entries(s)
  BY <1>1, <1>2 DEF Entries
<1>. QED
  BY <1>1, <1>2, <1>4, <1>5

\* What a concatenation holds.
LEMMA EntriesOfConcat ==
  ASSUME NEW S, NEW s \in Seq(S), NEW t \in Seq(S)
  PROVE  /\ s \o t \in Seq(S)
         /\ Entries(s \o t) = Entries(s) \cup Entries(t)
<1>1. /\ Len(s) \in Nat /\ Len(t) \in Nat /\ s \o t \in Seq(S) /\ Len(s \o t) = Len(s) + Len(t)
      /\ DOMAIN s = 1 .. Len(s) /\ DOMAIN t = 1 .. Len(t) /\ DOMAIN (s \o t) = 1 .. (Len(s) + Len(t))
      /\ \A i \in 1 .. (Len(s) + Len(t)) :
           (s \o t)[i] = IF i <= Len(s) THEN s[i] ELSE t[i - Len(s)]
  OBVIOUS
<1>2. ASSUME NEW i \in DOMAIN (s \o t)
      PROVE  (s \o t)[i] \in {s[j] : j \in DOMAIN s} \cup {t[j] : j \in DOMAIN t}
  <2>1. CASE i <= Len(s)
    BY <1>1, <2>1
  <2>2. CASE i > Len(s)
    <3>1. i - Len(s) \in DOMAIN t /\ (s \o t)[i] = t[i - Len(s)]
      BY <1>1, <2>2
    <3>. QED
      BY <3>1
  <2>. QED
    BY <1>1, <2>1, <2>2
<1>3. ASSUME NEW i \in DOMAIN s
      PROVE  s[i] \in {(s \o t)[j] : j \in DOMAIN (s \o t)}
  <2>1. i \in DOMAIN (s \o t) /\ (s \o t)[i] = s[i]
    BY <1>1
  <2>. QED
    BY <2>1
<1>4. ASSUME NEW i \in DOMAIN t
      PROVE  t[i] \in {(s \o t)[j] : j \in DOMAIN (s \o t)}
  <2>1. Len(s) + i \in DOMAIN (s \o t) /\ (s \o t)[Len(s) + i] = t[i]
    BY <1>1
  <2>. QED
    BY <2>1
<1>. QED
  BY <1>1, <1>2, <1>3, <1>4 DEF Entries

\* What forget_unreachable leaves of the slots.
LEMMA KeptFacts ==
  ASSUME NEW r \in [Obj -> [Slot -> Ref]], NEW R \in SUBSET Obj
  PROVE  /\ KeepReachable(r, R) \in [Obj -> [Slot -> Ref]]
         /\ \A o \in Obj : KeepReachable(r, R)[o] = IF o \in Reachable(r, R) THEN r[o] ELSE Blank
BY DEF KeepReachable, Blank, Ref

\* It depends on no more than the slots of a closed set that has the roots.
LEMMA KeptLooksAtClosed ==
  ASSUME NEW r \in [Obj -> [Slot -> Ref]], NEW q \in [Obj -> [Slot -> Ref]],
         NEW S \in SUBSET Obj, NEW R \in SUBSET S,
         \A o \in S : Children(r, o) \subseteq S,
         \A o \in S : q[o] = r[o]
  PROVE  /\ Reachable(r, R) \subseteq S
         /\ Reachable(q, R) = Reachable(r, R)
         /\ KeepReachable(q, R) = KeepReachable(r, R)
<1>1. R \in SUBSET Obj /\ Reachable(r, R) \subseteq S
  BY ReachableIsLeast
<1>2. Reachable(q, R) = Reachable(r, R)
  BY <1>1, ReachableLooksAtReached
<1>. QED
  BY <1>1, <1>2 DEF KeepReachable

\* What is forgotten once makes no difference later, as long as the roots are
\* among what was kept.
LEMMA KeptAgain ==
  ASSUME NEW r \in [Obj -> [Slot -> Ref]], NEW R \in SUBSET Obj,
         NEW Q \in SUBSET Reachable(r, R)
  PROVE  KeepReachable(KeepReachable(r, R), Q) = KeepReachable(r, Q)
<1>. DEFINE S == Reachable(r, R)
            q == KeepReachable(r, R)
<1>1. Q \in SUBSET Obj /\ R \in SUBSET Obj /\ q \in [Obj -> [Slot -> Ref]]
  BY ReachableIsLeast, KeptFacts
<1>2. Reachable(r, Q) \subseteq S
  BY <1>1, ReachableIsLeast
<1>3. \A o \in Reachable(r, Q) : q[o] = r[o]
  BY <1>1, <1>2, ReachableIsLeast, KeptFacts
<1>. HIDE DEF S, q
<1>4. Reachable(q, Q) = Reachable(r, Q)
  BY <1>1, <1>3, ReachableLooksAtReached
<1>5. KeepReachable(q, Q) = KeepReachable(r, Q)
  BY <1>3, <1>4 DEF KeepReachable
<1>. QED
  BY <1>5 DEF q

(***************************************************************************)
(* The mutator                                                             *)
(***************************************************************************)

\* What the roots refer to are objects.
LEMMA RootsAreObjects ==
  ASSUME RootsTypeOK
  PROVE  RootRefs \in SUBSET Obj
BY RootSetType DEF RootsTypeOK, RootRefs

\* The new roots of h pushed.
LEMMA PushedRoots ==
  ASSUME RootsTypeOK, NEW h \in Ref, PushRoot(h)
  PROVE  RootsTypeOK' /\ RootRefs' = RootRefs \cup ({h} \ {Null})
<1>1. /\ Len(stack) \in Nat /\ DOMAIN stack = 1 .. Len(stack)
      /\ stack' \in Seq(Ref) /\ Len(stack') = Len(stack) + 1
      /\ DOMAIN stack' = 1 .. (Len(stack) + 1)
      /\ \A i \in 1 .. Len(stack) : stack'[i] = stack[i]
      /\ stack'[Len(stack) + 1] = h
      /\ Len(stack) < MaxDepth
  BY DEF RootsTypeOK, PushRoot
<1>2. {stack'[i] : i \in DOMAIN stack'} = {stack[i] : i \in DOMAIN stack} \cup {h}
  <2>1. Len(stack) + 1 \in DOMAIN stack'
    BY <1>1
  <2>2. \A i \in DOMAIN stack' : i \in DOMAIN stack \/ i = Len(stack) + 1
    BY <1>1
  <2>. QED
    BY <1>1, <2>1, <2>2
<1>. QED
  BY <1>1, <1>2, MaxDepthAssumption DEF RootsTypeOK, PushRoot, RootRefs, RootSet

\* Whatever an operation on the roots does, the program comes by no object it
\* could not reach before.
LEMMA RootStepKeepsReach ==
  ASSUME RootsTypeOK, refs \in [Obj -> [Slot -> Ref]], RootStep
  PROVE  RootsTypeOK' /\ RootRefs' \subseteq Reachable(refs, RootRefs)
<1>. DEFINE reach == Reachable(refs, RootRefs)
<1>1. /\ RootRefs \in SUBSET Obj /\ reach \in SUBSET Obj /\ RootRefs \subseteq reach
      /\ \A o \in reach : Children(refs, o) \subseteq reach
  BY RootsAreObjects, ReachableIsLeast
<1>. SUFFICES RootsTypeOK' /\ RootRefs' \subseteq reach
  OBVIOUS
<1>. HIDE DEF reach
<1>2. /\ Len(stack) \in Nat /\ DOMAIN stack = 1 .. Len(stack)
      /\ \A i \in DOMAIN stack : stack[i] \in Ref
      /\ \A n \in Name : globals[n] \in Ref
  BY DEF RootsTypeOK
<1>3. \A i \in DOMAIN stack : stack[i] # Null => stack[i] \in RootRefs
  BY DEF RootRefs, RootSet
<1>4. \A n \in Name : globals[n] # Null => globals[n] \in RootRefs
  BY DEF RootRefs, RootSet
<1>5. ASSUME NEW h \in Ref, h # Null => h \in reach, PushRoot(h)
      PROVE  RootsTypeOK' /\ RootRefs' \subseteq reach
  BY <1>1, <1>5, PushedRoots
<1>6. ASSUME stack' \in Seq(Ref), Len(stack') <= MaxDepth, globals' \in [Name -> Ref],
             \A i \in DOMAIN stack' : stack'[i] # Null => stack'[i] \in reach,
             \A n \in Name : globals'[n] # Null => globals'[n] \in reach
      PROVE  RootsTypeOK' /\ RootRefs' \subseteq reach
  BY <1>6 DEF RootsTypeOK, RootRefs, RootSet
<1>7. CASE \E p \in DOMAIN stack, i \in Slot : Load(p, i)
  <2>1. PICK p \in DOMAIN stack, i \in Slot : Load(p, i)
    BY <1>7
  <2>2. stack[p] \in reach /\ stack[p] \in Obj
    BY <1>1, <1>2, <1>3, <2>1 DEF Load, Ref
  <2>3. Loaded(p, i) \in Ref /\ (Loaded(p, i) # Null => Loaded(p, i) \in reach)
    BY <1>1, <2>2 DEF Loaded, Children
  <2>. QED
    BY <1>5, <2>1, <2>3 DEF Load
<1>8. CASE \E s \in DOMAIN stack : Dup(s)
  BY <1>1, <1>2, <1>3, <1>5, <1>8 DEF Dup
<1>9. CASE \E dst, src \in DOMAIN stack : Assign(dst, src)
  <2>1. PICK dst \in DOMAIN stack, src \in DOMAIN stack : Assign(dst, src)
    BY <1>9
  <2>2. /\ stack' \in Seq(Ref) /\ Len(stack') = Len(stack) /\ DOMAIN stack' = DOMAIN stack
        /\ \A i \in DOMAIN stack : stack'[i] = IF i = dst THEN stack[src] ELSE stack[i]
        /\ globals' = globals
    BY <1>2, <2>1 DEF Assign, RootsTypeOK
  <2>3. /\ Len(stack') <= MaxDepth /\ globals' \in [Name -> Ref]
        /\ \A i \in DOMAIN stack' : stack'[i] # Null => stack'[i] \in reach
        /\ \A n \in Name : globals'[n] # Null => globals'[n] \in reach
    BY <1>1, <1>3, <1>4, <2>2 DEF RootsTypeOK
  <2>. QED
    BY <1>6, <2>2, <2>3
<1>10. CASE \E depth \in 0 .. (Len(stack) - 1) : Unwind(depth)
  <2>1. PICK depth \in 0 .. (Len(stack) - 1) : Unwind(depth)
    BY <1>10
  <2>2. /\ stack' \in Seq(Ref) /\ Len(stack') = depth /\ DOMAIN stack' = 1 .. depth
        /\ \A i \in 1 .. depth : stack'[i] = stack[i]
        /\ globals' = globals
    BY <1>2, <2>1 DEF Unwind, RootsTypeOK
  <2>3. /\ Len(stack') <= MaxDepth /\ globals' \in [Name -> Ref]
        /\ \A i \in DOMAIN stack' : stack'[i] # Null => stack'[i] \in reach
        /\ \A n \in Name : globals'[n] # Null => globals'[n] \in reach
    BY <1>1, <1>2, <1>3, <1>4, <2>2, MaxDepthAssumption DEF RootsTypeOK
  <2>. QED
    BY <1>6, <2>2, <2>3
<1>11. CASE \E n \in Name, s \in DOMAIN stack : SetGlobal(n, s)
  <2>1. PICK n \in Name, s \in DOMAIN stack : SetGlobal(n, s)
    BY <1>11
  <2>2. /\ stack' = stack /\ globals' \in [Name -> Ref]
        /\ \A m \in Name : globals'[m] = IF m = n THEN stack[s] ELSE globals[m]
    BY <1>2, <2>1 DEF SetGlobal, RootsTypeOK
  <2>3. /\ \A i \in DOMAIN stack' : stack'[i] # Null => stack'[i] \in reach
        /\ \A m \in Name : globals'[m] # Null => globals'[m] \in reach
        /\ stack' \in Seq(Ref) /\ Len(stack') <= MaxDepth
    BY <1>1, <1>3, <1>4, <2>2 DEF RootsTypeOK
  <2>. QED
    BY <1>6, <2>2, <2>3
<1>12. CASE \E n \in Name : Global(n)
  BY <1>1, <1>2, <1>4, <1>5, <1>12 DEF Global
<1>13. CASE \E n \in Name : ClearGlobal(n)
  <2>1. PICK n \in Name : ClearGlobal(n)
    BY <1>13
  <2>2. /\ stack' = stack /\ globals' \in [Name -> Ref]
        /\ \A m \in Name : globals'[m] = IF m = n THEN Null ELSE globals[m]
    BY <1>2, <2>1 DEF ClearGlobal, RootsTypeOK, Ref
  <2>3. /\ \A i \in DOMAIN stack' : stack'[i] # Null => stack'[i] \in reach
        /\ \A m \in Name : globals'[m] # Null => globals'[m] \in reach
        /\ stack' \in Seq(Ref) /\ Len(stack') <= MaxDepth
    BY <1>1, <1>3, <1>4, <2>2 DEF RootsTypeOK
  <2>. QED
    BY <1>6, <2>2, <2>3
<1>. QED
  BY <1>7, <1>8, <1>9, <1>10, <1>11, <1>12, <1>13 DEF RootStep

\* A store writes a field of an object the program can reach, and what it
\* writes is null or such an object.
LEMMA StoreOperands ==
  ASSUME RootsTypeOK, NEW o \in StoreTargets, NEW v \in StoreValues
  PROVE  /\ o \in Obj /\ o \in RootRefs
         /\ v \in Ref /\ (v # Null => v \in RootRefs)
BY DEF RootsTypeOK, StoreTargets, StoreValues, RootRefs, RootSet, Ref

(***************************************************************************)
(* The heap and the shadow model                                           *)
(***************************************************************************)

\* An identity, or none.
IdRef == Id \cup {Null}

\* The model's names for the parts of an object.
LEMMA SameNames ==
  /\ Model!Slot = Slot
  /\ Model!Ref = IdRef
  /\ Model!RootRefs = RootSet(mStack, mGlobals)
BY DEF Model!Slot, Slot, Model!Ref, IdRef, Model!RootRefs, Model!RootSet, RootSet

\* The model's search finds the closure too.
LEMMA IdsClosure ==
  ASSUME NEW r, \A o \in Id : Children(r, o) \subseteq Id, NEW R \in SUBSET Id
  PROVE  Model!Reachable(r, R) = Closure(Id, [o \in Id |-> Children(r, o)], R)
<1>. DEFINE kids == [o \in Id |-> Children(r, o)]
            found(seen) == UNION {Children(r, o) : o \in seen}
            Equation(g) == g = [seen \in SUBSET Id |->
                                  IF found(seen) \subseteq seen THEN seen ELSE g[seen \cup found(seen)]]
            from == CHOOSE g : Equation(g)
            closure == [seen \in SUBSET Id |-> Closure(Id, kids, seen)]
<1>1. kids \in [Id -> SUBSET Id]
  OBVIOUS
<1>2. \A seen \in SUBSET Id : found(seen) = UNION {kids[o] : o \in seen}
  OBVIOUS
<1>3. Equation(closure)
  <2>1. ASSUME NEW seen \in SUBSET Id
        PROVE  /\ seen \cup found(seen) \in SUBSET Id
               /\ closure[seen] = IF found(seen) \subseteq seen THEN seen
                                  ELSE closure[seen \cup found(seen)]
    <3>. HIDE DEF kids, found
    <3>. QED
      BY <1>1, <1>2, ClosureSearches
  <2>. HIDE DEF found
  <2>. QED
    BY <2>1
<1>4. Equation(from)
  <2>. HIDE DEF Equation, closure
  <2>. QED
    BY <1>3
<1>5. from[R] = Closure(Id, kids, R)
  <2>1. \A seen \in SUBSET Id :
          from[seen] = IF found(seen) \subseteq seen THEN seen ELSE from[seen \cup found(seen)]
    <3>. HIDE DEF from, found
    <3>. QED
      BY <1>4
  <2>. HIDE DEF from, kids, found
  <2>2. Searches(from, Id, kids)
    BY <1>2, <2>1 DEF Searches
  <2>. QED
    BY <1>1, <2>2, SearchIsClosure, IdAssumption
<1>6. Model!Reachable(r, R) = from[R]
  BY DEF Model!Reachable, Model!Children, Children, Model!Slot, Slot
<1>. QED
  BY <1>5, <1>6

\* The closure, in the words of the model.
LEMMA IdsLeast ==
  ASSUME NEW r \in [Id -> [Slot -> IdRef]], NEW R \in SUBSET Id
  PROVE  /\ Model!Reachable(r, R) \in SUBSET Id
         /\ R \subseteq Model!Reachable(r, R)
         /\ \A o \in Model!Reachable(r, R) : Children(r, o) \subseteq Model!Reachable(r, R)
         /\ \A S \in SUBSET Id :
              R \subseteq S /\ (\A o \in S : Children(r, o) \subseteq S)
                => Model!Reachable(r, R) \subseteq S
<1>. DEFINE kids == [o \in Id |-> Children(r, o)]
<1>1. \A o \in Id : Children(r, o) \subseteq Id
  BY DEF Children, IdRef
<1>2. kids \in [Id -> SUBSET Id]
  BY <1>1
<1>3. Model!Reachable(r, R) = Closure(Id, kids, R)
  BY <1>1, IdsClosure
<1>4. \A S \in SUBSET Id :
        ClosedUnder(kids, S) <=> \A o \in S : Children(r, o) \subseteq S
  BY DEF ClosedUnder
<1>. HIDE DEF kids
<1>5. /\ Closure(Id, kids, R) \in SUBSET Id
      /\ R \subseteq Closure(Id, kids, R)
      /\ ClosedUnder(kids, Closure(Id, kids, R))
      /\ \A S \in SUBSET Id :
           R \subseteq S /\ ClosedUnder(kids, S) => Closure(Id, kids, R) \subseteq S
  BY <1>2, ClosureIsLeast
<1>. QED
  BY <1>3, <1>4, <1>5

\* What the program can reach, in the heap and in the model.
LEMMA Lives ==
  ASSUME LockstepTypeOK
  PROVE  /\ RootRefs \in SUBSET Obj
         /\ LiveAddresses \in SUBSET Obj /\ RootRefs \subseteq LiveAddresses
         /\ \A h \in LiveAddresses : Children(refs, h) \subseteq LiveAddresses
         /\ \A S \in SUBSET Obj :
              RootRefs \subseteq S /\ (\A h \in S : Children(refs, h) \subseteq S)
                => LiveAddresses \subseteq S
         /\ Model!RootRefs \in SUBSET Id
         /\ LiveIds \in SUBSET Id /\ Model!RootRefs \subseteq LiveIds
         /\ \A d \in LiveIds : Children(mRefs, d) \subseteq LiveIds
         /\ \A S \in SUBSET Id :
              Model!RootRefs \subseteq S /\ (\A d \in S : Children(mRefs, d) \subseteq S)
                => LiveIds \subseteq S
<1>1. RootRefs \in SUBSET Obj /\ refs \in [Obj -> [Slot -> Ref]]
  BY RootsAreObjects DEF LockstepTypeOK
<1>2. Model!RootRefs \in SUBSET Id /\ mRefs \in [Id -> [Slot -> IdRef]]
  BY SameNames DEF LockstepTypeOK, RootSet, IdRef
<1>3. /\ LiveAddresses \in SUBSET Obj /\ RootRefs \subseteq LiveAddresses
      /\ \A h \in LiveAddresses : Children(refs, h) \subseteq LiveAddresses
      /\ \A S \in SUBSET Obj :
           RootRefs \subseteq S /\ (\A h \in S : Children(refs, h) \subseteq S)
             => LiveAddresses \subseteq S
  BY <1>1, ReachableIsLeast DEF LiveAddresses
<1>4. /\ LiveIds \in SUBSET Id /\ Model!RootRefs \subseteq LiveIds
      /\ \A d \in LiveIds : Children(mRefs, d) \subseteq LiveIds
      /\ \A S \in SUBSET Id :
           Model!RootRefs \subseteq S /\ (\A d \in S : Children(mRefs, d) \subseteq S)
             => LiveIds \subseteq S
  BY <1>2, IdsLeast DEF LiveIds
<1>. QED
  BY <1>1, <1>2, <1>3, <1>4

\* What the program can reach after a step.
LEMMA NewLives ==
  ASSUME LockstepTypeOK'
  PROVE  /\ RootRefs' \in SUBSET Obj
         /\ LiveAddresses' \in SUBSET Obj /\ RootRefs' \subseteq LiveAddresses'
         /\ \A h \in LiveAddresses' : Children(refs', h) \subseteq LiveAddresses'
         /\ \A S \in SUBSET Obj :
              RootRefs' \subseteq S /\ (\A h \in S : Children(refs', h) \subseteq S)
                => LiveAddresses' \subseteq S
<1>1. stack' \in Seq(Ref) /\ globals' \in [Name -> Ref] /\ refs' \in [Obj -> [Slot -> Ref]]
  BY DEF LockstepTypeOK, RootsTypeOK
<1>2. RootRefs' \in SUBSET Obj
  BY <1>1, RootSetType DEF RootRefs
<1>3. LiveAddresses' = Reachable(refs', RootRefs')
  BY DEF LiveAddresses
<1>. QED
  BY <1>1, <1>2, <1>3, ReachableIsLeast

\* What stands in a root or in a field, and the types of both sides.
LEMMA Places ==
  ASSUME LockstepTypeOK
  PROVE  /\ DOMAIN stack = DOMAIN mStack
         /\ \A i \in DOMAIN stack : stack[i] \in Ref /\ mStack[i] \in IdRef
         /\ \A i \in DOMAIN stack : stack[i] # Null => stack[i] \in RootRefs
         /\ \A i \in DOMAIN stack : mStack[i] # Null => mStack[i] \in Model!RootRefs
         /\ \A n \in Name : globals[n] \in Ref /\ mGlobals[n] \in IdRef
         /\ \A n \in Name : globals[n] # Null => globals[n] \in RootRefs
         /\ \A n \in Name : mGlobals[n] # Null => mGlobals[n] \in Model!RootRefs
         /\ \A h \in RootRefs :
              \/ \E i \in DOMAIN stack : h = stack[i] /\ h # Null
              \/ \E n \in Name : h = globals[n] /\ h # Null
         /\ \A d \in Model!RootRefs :
              \/ \E i \in DOMAIN stack : d = mStack[i] /\ d # Null
              \/ \E n \in Name : d = mGlobals[n] /\ d # Null
BY SameNames DEF LockstepTypeOK, RootsTypeOK, IdRef, RootRefs, RootSet

\* In a heap that agrees with the model the stamps of what the program can
\* reach are the identities it can reach.
LEMMA StampsAreLive ==
  ASSUME LockstepTypeOK, PathsAgree
  PROVE  LiveIds = {stamp[h] : h \in LiveAddresses}
<1>. DEFINE S == {h \in LiveAddresses : stamp[h] \in LiveIds}
            T == {stamp[h] : h \in LiveAddresses}
<1>1. ASSUME NEW h \in LiveAddresses, NEW i \in Slot
      PROVE  /\ h \in Obj /\ stamp[h] \in Id
             /\ refs[h][i] \in Ref /\ mRefs[stamp[h]][i] \in IdRef
             /\ Means(refs[h][i], mRefs[stamp[h]][i])
  BY <1>1, Lives DEF PathsAgree, LockstepTypeOK, IdRef
<1>2. RootRefs \subseteq S
  BY Lives, Places DEF PathsAgree, Means
<1>3. \A h \in S : Children(refs, h) \subseteq S
  <2>1. ASSUME NEW h \in S, NEW i \in Slot, refs[h][i] # Null
        PROVE  refs[h][i] \in S
    <3>1. /\ refs[h][i] \in LiveAddresses
          /\ mRefs[stamp[h]][i] = stamp[refs[h][i]] /\ mRefs[stamp[h]][i] # Null
      BY <1>1, <2>1, Lives DEF Children, Means
    <3>2. mRefs[stamp[h]][i] \in LiveIds
      BY <3>1, Lives DEF Children
    <3>. QED
      BY <3>1, <3>2
  <2>. QED
    BY <2>1 DEF Children
<1>4. LiveAddresses \subseteq S
  <2>1. S \in SUBSET Obj
    BY Lives
  <2>. HIDE DEF S
  <2>. QED
    BY <1>2, <1>3, <2>1, Lives
<1>5. T \in SUBSET Id /\ Model!RootRefs \subseteq T
  <2>1. T \in SUBSET Id
    BY <1>4, Lives
  <2>. QED
    BY <2>1, Lives, Places DEF PathsAgree, Means
<1>6. \A d \in T : Children(mRefs, d) \subseteq T
  <2>1. ASSUME NEW h \in LiveAddresses, NEW i \in Slot, mRefs[stamp[h]][i] # Null
        PROVE  mRefs[stamp[h]][i] \in T
    BY <1>1, <2>1, Lives DEF Children, Means
  <2>. QED
    BY <2>1 DEF Children
<1>7. LiveIds \subseteq T
  <2>. HIDE DEF T
  <2>. QED
    BY <1>5, <1>6, Lives
<1>. QED
  BY <1>4, <1>7

(***************************************************************************)
(* The verdict                                                             *)
(***************************************************************************)

\* The fields the walk goes on from.
WalkedFields(known) ==
  [h \in Obj |-> [i \in Slot |->
     IF h \in known /\ mRefs[stamp[h]][i] # Null THEN refs[h][i] ELSE Null]]

\* Where it starts.
WalkStarts == {p[1] : p \in Queued(StackPairs \cup GlobalPairs)}

\* The handles it starts from and those it comes to.
LEMMA WalkTakes ==
  ASSUME LockstepTypeOK
  PROVE  LET taken == Taken(Known)
         IN  /\ taken \in SUBSET Obj
             /\ \A i \in DOMAIN stack : stack[i] # Null /\ mStack[i] # Null => stack[i] \in taken
             /\ \A n \in Name : globals[n] # Null /\ mGlobals[n] # Null => globals[n] \in taken
             /\ \A h \in taken \cap Known, i \in Slot :
                  refs[h][i] # Null /\ mRefs[stamp[h]][i] # Null => refs[h][i] \in taken
             /\ \A S \in SUBSET Obj :
                  /\ RootRefs \subseteq S
                  /\ \A h \in S : Children(refs, h) \subseteq S
                  => taken \subseteq S
<1>. DEFINE taken == Taken(Known)
            w == WalkedFields(Known)
<1>1. w \in [Obj -> [Slot -> Ref]]
  BY DEF WalkedFields, LockstepTypeOK, Ref
<1>2. WalkStarts \in SUBSET Obj /\ WalkStarts \subseteq RootRefs
  BY Places, Lives DEF WalkStarts, Queued, StackPairs, GlobalPairs
<1>3. taken = Reachable(w, WalkStarts)
  BY DEF Taken, WalkedFields, WalkStarts
<1>4. /\ taken \in SUBSET Obj /\ WalkStarts \subseteq taken
      /\ \A h \in taken : Children(w, h) \subseteq taken
      /\ \A S \in SUBSET Obj :
           WalkStarts \subseteq S /\ (\A h \in S : Children(w, h) \subseteq S)
             => taken \subseteq S
  <2>. HIDE DEF w, taken
  <2>. QED
    BY <1>1, <1>2, <1>3, ReachableIsLeast
<1>. HIDE DEF taken
<1>5. ASSUME NEW i \in DOMAIN stack, stack[i] # Null, mStack[i] # Null
      PROVE  stack[i] \in WalkStarts
  <2>1. <<stack[i], mStack[i]>> \in Queued(StackPairs \cup GlobalPairs)
    BY <1>5, Places DEF Queued, StackPairs
  <2>. QED
    BY <2>1 DEF WalkStarts
<1>6. ASSUME NEW n \in Name, globals[n] # Null, mGlobals[n] # Null
      PROVE  globals[n] \in WalkStarts
  <2>1. <<globals[n], mGlobals[n]>> \in Queued(StackPairs \cup GlobalPairs)
    BY <1>6 DEF Queued, GlobalPairs
  <2>. QED
    BY <2>1 DEF WalkStarts
<1>7. \A h \in taken \cap Known, i \in Slot :
        refs[h][i] # Null /\ mRefs[stamp[h]][i] # Null => refs[h][i] \in Children(w, h)
  BY <1>4 DEF WalkedFields, Children
<1>8. \A h \in Obj : Children(w, h) \subseteq Children(refs, h)
  BY DEF WalkedFields, Children
<1>9. \A S \in SUBSET Obj :
        RootRefs \subseteq S /\ (\A h \in S : Children(refs, h) \subseteq S)
          => taken \subseteq S
  <2>. HIDE DEF w
  <2>. QED
    BY <1>2, <1>4, <1>8
<1>10. \A h \in taken \cap Known, i \in Slot :
         refs[h][i] # Null /\ mRefs[stamp[h]][i] # Null => refs[h][i] \in taken
  <2>. HIDE DEF w
  <2>. QED
    BY <1>4, <1>7
<1>. HIDE DEF w
<1>. QED
  BY <1>4, <1>5, <1>6, <1>9, <1>10 DEF taken

\* The walk finds nothing wrong, but perhaps objects that have become several.
OnlyCopies ==
  LET taken   == Taken(Known)
      visited == taken \cap Known
  IN  /\ Len(stack) = Len(mStack)
      /\ ~ NullsDiffer(StackPairs) /\ ~ NullsDiffer(GlobalPairs)
      /\ \A h \in visited : ~ NullsDiffer(FieldPairs(h))
      /\ \A h \in taken : stamp[h] # Null
      /\ taken \subseteq Known
      /\ \A p \in Expectations(visited) : stamp[p[1]] \in {Null, p[2]}
      /\ LiveIds \subseteq {stamp[h] : h \in visited}

\* A report is empty if none of its kinds is in it.
LEMMA VerdictsApart ==
  /\ VerifyOk <=> OnlyCopies /\ Duplicated(Taken(Known) \cap Known) = {}
  /\ OnlyCopies => Violations \subseteq {"DuplicatedIdentity"}
<1>. DEFINE report(kind, recorded) == IF recorded THEN {kind} ELSE {}
            known == Known
            taken == Taken(Known)
            visited == taken \cap Known
            found == {stamp[h] : h \in taken}
            c1 == Len(stack) # Len(mStack)
            c2 == NullsDiffer(StackPairs) \/ \E h \in visited : NullsDiffer(FieldPairs(h))
            c3 == NullsDiffer(GlobalPairs)
            c4 == Null \in found
            c5 == \E h \in taken \ known : stamp[h] # Null
            c6 == \E p \in Expectations(visited) : stamp[p[1]] \notin {Null, p[2]}
            c7 == Duplicated(visited) # {}
            c8 == LiveIds \ {stamp[h] : h \in visited} # {}
<1>1. Violations = UNION {report("RootStackDepth", c1), report("NullMismatch", c2),
                          report("MissingGlobal", c3), report("CorruptPayload", c4),
                          report("UnknownIdentity", c5), report("WrongObject", c6),
                          report("DuplicatedIdentity", c7), report("Unreachable", c8)}
  BY DEF Violations
<1>2. Violations = {} <=> ~ c1 /\ ~ c2 /\ ~ c3 /\ ~ c4 /\ ~ c5 /\ ~ c6 /\ ~ c7 /\ ~ c8
  <2>. HIDE DEF c1, c2, c3, c4, c5, c6, c7, c8
  <2>. QED
    BY <1>1
<1>3. ~ c1 /\ ~ c2 /\ ~ c3 /\ ~ c4 /\ ~ c5 /\ ~ c6 /\ ~ c8
        => Violations \subseteq {"DuplicatedIdentity"}
  <2>. HIDE DEF c1, c2, c3, c4, c5, c6, c7, c8
  <2>. QED
    BY <1>1
<1>4. OnlyCopies <=> ~ c1 /\ ~ c2 /\ ~ c3 /\ ~ c4 /\ ~ c5 /\ ~ c6 /\ ~ c8
  BY DEF OnlyCopies
<1>5. VerifyOk <=> Violations = {}
  BY DEF VerifyOk
<1>6. Duplicated(Taken(Known) \cap Known) = {} <=> ~ c7
  OBVIOUS
<1>. HIDE DEF c1, c2, c3, c4, c5, c6, c7, c8
<1>. QED
  BY <1>2, <1>3, <1>4, <1>5, <1>6

\* A heap that gets a clean report is the model's graph.
LEMMA CleanIsFaithful ==
  ASSUME LockstepTypeOK, VerifyOk,
         \A n \in Name : mGlobals[n] = Null => globals[n] = Null
  PROVE  Faithful
<1>. DEFINE taken == Taken(Known)
            visited == taken \cap Known
<1>1. /\ taken \in SUBSET Obj /\ visited = taken
      /\ \A i \in DOMAIN stack : stack[i] # Null /\ mStack[i] # Null => stack[i] \in taken
      /\ \A n \in Name : globals[n] # Null /\ mGlobals[n] # Null => globals[n] \in taken
      /\ \A h \in taken, i \in Slot :
           refs[h][i] # Null /\ mRefs[stamp[h]][i] # Null => refs[h][i] \in taken
  BY WalkTakes, VerdictsApart DEF OnlyCopies
<1>2. /\ \A h \in taken : stamp[h] # Null
      /\ \A p \in Expectations(visited) : stamp[p[1]] \in {Null, p[2]}
      /\ \A h, k \in taken : stamp[h] = stamp[k] => h = k
  BY <1>1, VerdictsApart DEF OnlyCopies, Duplicated
<1>3. ASSUME NEW i \in DOMAIN stack
      PROVE  Means(stack[i], mStack[i]) /\ (stack[i] # Null => stack[i] \in taken)
  <2>1. <<stack[i], mStack[i]>> \in StackPairs
    BY Places DEF StackPairs
  <2>2. (stack[i] = Null) = (mStack[i] = Null)
    BY <2>1, VerdictsApart DEF OnlyCopies, NullsDiffer
  <2>3. CASE stack[i] # Null /\ mStack[i] # Null
    <3>1. <<stack[i], mStack[i]>> \in Expectations(visited)
      BY <2>1, <2>3 DEF Expectations, Queued
    <3>. HIDE DEF taken, visited
    <3>. QED
      BY <1>1, <1>2, <2>3, <3>1 DEF Means
  <2>. QED
    BY <2>2, <2>3 DEF Means
<1>4. ASSUME NEW n \in Name
      PROVE  Means(globals[n], mGlobals[n]) /\ (globals[n] # Null => globals[n] \in taken)
  <2>1. CASE mGlobals[n] # Null
    <3>1. <<globals[n], mGlobals[n]>> \in GlobalPairs
      BY <2>1 DEF GlobalPairs
    <3>2. globals[n] # Null
      BY <2>1, <3>1, VerdictsApart DEF OnlyCopies, NullsDiffer
    <3>3. <<globals[n], mGlobals[n]>> \in Expectations(visited)
      BY <2>1, <3>1, <3>2 DEF Expectations, Queued
    <3>. HIDE DEF taken, visited
    <3>. QED
      BY <1>1, <1>2, <2>1, <3>2, <3>3 DEF Means
  <2>. QED
    BY <2>1 DEF Means
<1>5. ASSUME NEW h \in taken, NEW i \in Slot
      PROVE  /\ Means(refs[h][i], mRefs[stamp[h]][i])
             /\ refs[h][i] # Null => refs[h][i] \in taken
  <2>1. <<refs[h][i], mRefs[stamp[h]][i]>> \in FieldPairs(h)
    BY DEF FieldPairs
  <2>2. (refs[h][i] = Null) = (mRefs[stamp[h]][i] = Null)
    BY <1>1, <2>1, VerdictsApart DEF OnlyCopies, NullsDiffer
  <2>3. CASE refs[h][i] # Null /\ mRefs[stamp[h]][i] # Null
    <3>1. <<refs[h][i], mRefs[stamp[h]][i]>> \in Expectations(visited)
      BY <1>1, <2>1, <2>3 DEF Expectations, Queued
    <3>. HIDE DEF taken, visited
    <3>. QED
      BY <1>1, <1>2, <2>3, <3>1 DEF Means
  <2>. QED
    BY <2>2, <2>3 DEF Means
<1>. HIDE DEF taken, visited
<1>6. LiveAddresses \subseteq taken
  <2>1. RootRefs \subseteq taken
    BY <1>3, <1>4, Places
  <2>2. \A h \in taken : Children(refs, h) \subseteq taken
    BY <1>5 DEF Children
  <2>. QED
    BY <1>1, <2>1, <2>2, Lives
<1>. QED
  BY <1>2, <1>3, <1>4, <1>5, <1>6, Places DEF Faithful, PathsAgree

\* Sequences with the same positions are as long as each other.
LEMMA SameLengths ==
  ASSUME NEW S, NEW T, NEW s \in Seq(S), NEW t \in Seq(T), DOMAIN s = DOMAIN t
  PROVE  Len(s) = Len(t)
<1>1. /\ Len(s) \in Nat /\ DOMAIN s = 1 .. Len(s)
      /\ Len(t) \in Nat /\ DOMAIN t = 1 .. Len(t)
  OBVIOUS
<1>2. ASSUME NEW m \in Nat, NEW n \in Nat, 1 .. m = 1 .. n
      PROVE  m <= n
  <2>1. CASE m = 0
    BY <2>1
  <2>2. CASE m # 0
    <3>1. m \in 1 .. m
      BY <2>2
    <3>2. m \in 1 .. n
      BY <1>2, <3>1
    <3>. QED
      BY <3>2
  <2>. QED
    BY <2>1, <2>2
<1>3. 1 .. Len(s) = 1 .. Len(t)
  BY <1>1
<1>4. Len(s) <= Len(t) /\ Len(t) <= Len(s)
  BY <1>1, <1>2, <1>3, Zenon
<1>5. \A m, n \in Nat : m <= n /\ n <= m => m = n
  OBVIOUS
<1>. QED
  BY <1>1, <1>4, <1>5, Zenon

\* Where every path agrees with the model, copies are all that can be wrong.
LEMMA AgreeingIsOnlyCopied ==
  ASSUME LockstepTypeOK, PathsAgree
  PROVE  OnlyCopies /\ Taken(Known) \subseteq LiveAddresses
<1>. DEFINE taken == Taken(Known)
            visited == taken \cap Known
<1>1. LiveIds = {stamp[h] : h \in LiveAddresses}
  BY StampsAreLive
<1>2. taken \subseteq LiveAddresses /\ LiveAddresses \subseteq Known
  <2>1. taken \subseteq LiveAddresses
    BY WalkTakes, Lives
  <2>. QED
    BY <1>1, <2>1, Lives DEF Known
<1>3. /\ visited = taken
      /\ \A i \in DOMAIN stack : stack[i] # Null /\ mStack[i] # Null => stack[i] \in taken
      /\ \A n \in Name : globals[n] # Null /\ mGlobals[n] # Null => globals[n] \in taken
      /\ \A h \in taken, i \in Slot :
           refs[h][i] # Null /\ mRefs[stamp[h]][i] # Null => refs[h][i] \in taken
  BY <1>2, WalkTakes
<1>. HIDE DEF taken, visited
<1>4. /\ \A i \in DOMAIN stack : Means(stack[i], mStack[i])
      /\ \A n \in Name : Means(globals[n], mGlobals[n])
      /\ \A h \in taken : stamp[h] # Null /\ \A i \in Slot : Means(refs[h][i], mRefs[stamp[h]][i])
  BY <1>2 DEF PathsAgree
<1>5. \A p \in StackPairs \cup GlobalPairs \cup UNION {FieldPairs(h) : h \in visited} :
        Means(p[1], p[2])
  BY <1>3, <1>4 DEF StackPairs, GlobalPairs, FieldPairs
<1>6. /\ ~ NullsDiffer(StackPairs) /\ ~ NullsDiffer(GlobalPairs)
      /\ \A h \in visited : ~ NullsDiffer(FieldPairs(h))
  BY <1>5 DEF NullsDiffer, Means
<1>7. \A p \in Expectations(visited) : stamp[p[1]] \in {Null, p[2]}
  BY <1>5 DEF Expectations, Queued, Means
<1>8. LiveIds \subseteq {stamp[h] : h \in visited}
  <2>. DEFINE T == {stamp[h] : h \in visited}
  <2>1. T \in SUBSET Id
    BY <1>1, <1>2, <1>3, Lives
  <2>2. Model!RootRefs \subseteq T
    <3>1. ASSUME NEW i \in DOMAIN stack, mStack[i] # Null
          PROVE  mStack[i] \in T
      BY <1>3, <1>4, <3>1 DEF Means
    <3>2. ASSUME NEW n \in Name, mGlobals[n] # Null
          PROVE  mGlobals[n] \in T
      BY <1>3, <1>4, <3>2 DEF Means
    <3>. HIDE DEF T
    <3>. QED
      BY <3>1, <3>2, Places
  <2>3. ASSUME NEW h \in visited, NEW i \in Slot, mRefs[stamp[h]][i] # Null
        PROVE  mRefs[stamp[h]][i] \in T
    BY <1>3, <1>4, <2>3 DEF Means
  <2>4. \A d \in T : Children(mRefs, d) \subseteq T
    BY <2>3 DEF Children
  <2>. HIDE DEF T
  <2>5. LiveIds \subseteq T
    BY <2>1, <2>2, <2>4, Lives
  <2>. QED
    BY <2>5 DEF T
<1>9. Len(stack) = Len(mStack)
  <2>1. stack \in Seq(Ref) /\ mStack \in Seq(IdRef)
    BY DEF LockstepTypeOK, RootsTypeOK, IdRef
  <2>. QED
    BY <2>1, Places, SameLengths
<1>10. \A h \in taken : stamp[h] # Null
  BY <1>4
<1>11. taken \subseteq Known
  BY <1>2
<1>. QED
  BY <1>2, <1>6, <1>7, <1>8, <1>9, <1>10, <1>11 DEF taken, visited, OnlyCopies

\* A heap that is the model's graph gets a clean report.
LEMMA FaithfulIsClean ==
  ASSUME LockstepTypeOK, Faithful
  PROVE  VerifyOk
<1>1. PathsAgree /\ \A h, k \in LiveAddresses : stamp[h] = stamp[k] => h = k
  BY DEF Faithful
<1>2. OnlyCopies /\ Taken(Known) \subseteq LiveAddresses
  BY <1>1, AgreeingIsOnlyCopied
<1>3. Duplicated(Taken(Known) \cap Known) = {}
  BY <1>1, <1>2 DEF Duplicated
<1>. QED
  BY <1>2, <1>3, VerdictsApart

\* verify reports no violation exactly if the heap is the model's graph, in
\* whatever state the heap is, as long as a global the model has not bound is
\* null in the roots: the walk looks at no other.
THEOREM VerdictIsSound ==
  ASSUME LockstepTypeOK, \A n \in Name : mGlobals[n] = Null => globals[n] = Null
  PROVE  VerifyOk <=> Faithful
BY CleanIsFaithful, FaithfulIsClean

(***************************************************************************)
(* The mutator, in lockstep                                                *)
(***************************************************************************)

\* H has all the program can reach, and mr are the fields of the model before
\* the model forgets what is not reached.
Matches(mr, H) ==
  /\ RootRefs \subseteq H /\ \A h \in H : Children(refs, h) \subseteq H
  /\ \A i \in DOMAIN stack : Means(stack[i], mStack[i])
  /\ \A n \in Name : Means(globals[n], mGlobals[n])
  /\ \A h \in H : stamp[h] # Null /\ \A i \in Slot : Means(refs[h][i], mr[stamp[h]][i])
  /\ \A h, k \in H : stamp[h] = stamp[k] => h = k

Remembered ==
  \E mr \in [Id -> [Slot -> IdRef]], H \in SUBSET Obj :
    mRefs = Model!KeepReachable(mr, Model!RootRefs) /\ Matches(mr, H)

\* What the model keeps.
LEMMA IdsKept ==
  ASSUME NEW mr \in [Id -> [Slot -> IdRef]], NEW R \in SUBSET Id
  PROVE  /\ Model!KeepReachable(mr, R) \in [Id -> [Slot -> IdRef]]
         /\ \A d \in Model!Reachable(mr, R) : Model!KeepReachable(mr, R)[d] = mr[d]
<1>1. Model!Blank \in [Slot -> IdRef]
  BY DEF Model!Blank, Model!Slot, Slot, IdRef
<1>2. Model!Reachable(mr, R) \in SUBSET Id
  BY IdsLeast
<1>. QED
  BY <1>1, <1>2 DEF Model!KeepReachable

\* What the model forgets is no part of the program's graph.
LEMMA MatchIsFaithful == LockstepTypeOK /\ Remembered => Faithful
<1>. SUFFICES ASSUME LockstepTypeOK, Remembered
              PROVE  Faithful
  OBVIOUS
<1>1. PICK mr \in [Id -> [Slot -> IdRef]], H \in SUBSET Obj :
        mRefs = Model!KeepReachable(mr, Model!RootRefs) /\ Matches(mr, H)
  BY DEF Remembered
<1>. DEFINE kept == Model!Reachable(mr, Model!RootRefs)
            S == {h \in H : stamp[h] \in kept}
<1>2. /\ kept \in SUBSET Id /\ Model!RootRefs \subseteq kept
      /\ \A d \in kept : Children(mr, d) \subseteq kept
      /\ \A d \in kept : mRefs[d] = mr[d]
  BY <1>1, Lives, IdsLeast, IdsKept
<1>. HIDE DEF kept
<1>3. RootRefs \subseteq S
  BY <1>1, <1>2, Places DEF Matches, Means
<1>4. ASSUME NEW h \in S, NEW i \in Slot, refs[h][i] # Null
      PROVE  refs[h][i] \in S
  <2>1. /\ refs[h][i] \in H
        /\ mr[stamp[h]][i] # Null /\ mr[stamp[h]][i] = stamp[refs[h][i]]
    BY <1>1, <1>4, Lives DEF Matches, Means, Children
  <2>2. mr[stamp[h]][i] \in kept
    BY <1>2, <2>1 DEF Children
  <2>. QED
    BY <2>1, <2>2
<1>5. LiveAddresses \subseteq S
  <2>1. S \in SUBSET Obj
    OBVIOUS
  <2>2. \A h \in S : Children(refs, h) \subseteq S
    BY <1>4 DEF Children
  <2>. HIDE DEF S
  <2>. QED
    BY <1>3, <2>1, <2>2, Lives
<1>. QED
  BY <1>1, <1>2, <1>5, Places DEF Matches, Faithful, PathsAgree

\* Pushing on both stacks at once.
LEMMA BothPush ==
  ASSUME LockstepTypeOK, NEW h \in Ref, NEW d \in IdRef, PushRoot(h), Model!PushRoot(d)
  PROVE  /\ RootsTypeOK' /\ RootRefs' = RootRefs \cup ({h} \ {Null})
         /\ mStack' \in Seq(IdRef) /\ DOMAIN mStack' = DOMAIN stack'
         /\ mGlobals' \in [Name -> IdRef]
         /\ \A i \in DOMAIN stack' :
              \/ i \in DOMAIN stack /\ stack'[i] = stack[i] /\ mStack'[i] = mStack[i]
              \/ stack'[i] = h /\ mStack'[i] = d
         /\ globals' = globals /\ mGlobals' = mGlobals
<1>1. RootsTypeOK' /\ RootRefs' = RootRefs \cup ({h} \ {Null})
  BY PushedRoots DEF LockstepTypeOK
<1>2. /\ stack \in Seq(Ref) /\ mStack \in Seq(IdRef) /\ DOMAIN mStack = DOMAIN stack
      /\ stack' = Append(stack, h) /\ mStack' = Append(mStack, d)
      /\ globals' = globals /\ mGlobals' = mGlobals /\ mGlobals \in [Name -> IdRef]
  BY DEF LockstepTypeOK, RootsTypeOK, IdRef, PushRoot, Model!PushRoot
<1>3. Len(stack) \in Nat /\ DOMAIN stack = 1 .. Len(stack) /\ Len(mStack) = Len(stack)
  <2>1. DOMAIN stack = 1 .. Len(stack) /\ DOMAIN mStack = 1 .. Len(mStack)
        /\ Len(stack) \in Nat /\ Len(mStack) \in Nat
    BY <1>2
  <2>. QED
    BY <1>2, <2>1, SameLengths
<1>4. /\ DOMAIN stack' = 1 .. (Len(stack) + 1) /\ DOMAIN mStack' = 1 .. (Len(stack) + 1)
      /\ mStack' \in Seq(IdRef)
      /\ \A i \in 1 .. Len(stack) : stack'[i] = stack[i] /\ mStack'[i] = mStack[i]
      /\ stack'[Len(stack) + 1] = h /\ mStack'[Len(stack) + 1] = d
  BY <1>2, <1>3
<1>5. \A i \in DOMAIN stack' : i \in DOMAIN stack \/ i = Len(stack) + 1
  BY <1>3, <1>4
<1>. QED
  BY <1>1, <1>2, <1>3, <1>4, <1>5

\* What a step that matches leaves behind.
LEMMA MatchFollowed ==
  ASSUME LockstepTypeOK', NEW mr \in [Id -> [Slot -> IdRef]], NEW H \in SUBSET Obj,
         mRefs' = Model!KeepReachable(mr, Model!RootRefs'), Matches(mr, H)'
  PROVE  Faithful' /\ LiveAddresses' \subseteq H
<1>1. Remembered'
  BY DEF Remembered
<1>2. Faithful'
  BY <1>1, MatchIsFaithful, PTL
<1>3. RootRefs' \subseteq H /\ \A h \in H : Children(refs', h) \subseteq H
  BY DEF Matches
<1>4. RootRefs' \in SUBSET Obj /\ refs' \in [Obj -> [Slot -> Ref]]
  BY <1>3 DEF LockstepTypeOK
<1>5. LiveAddresses' = Reachable(refs', RootRefs')
  BY DEF LiveAddresses
<1>6. Reachable(refs', RootRefs') \subseteq H
  BY <1>3, <1>4, ReachableIsLeast
<1>. QED
  BY <1>2, <1>5, <1>6

\* Whatever the operations on the roots leave there, if both sides agree on it
\* the heap stays the model's graph.
LEMMA RootsMove ==
  ASSUME LockstepTypeOK, Faithful, RootStep, Model!Forget(mRefs), UNCHANGED <<refs, stamp>>,
         mStack' \in Seq(IdRef), DOMAIN mStack' = DOMAIN stack', mGlobals' \in [Name -> IdRef],
         \A i \in DOMAIN stack' : Means(stack'[i], mStack'[i]),
         \A n \in Name : Means(globals'[n], mGlobals'[n])
  PROVE  LockstepTypeOK' /\ Faithful' /\ LiveAddresses' \subseteq LiveAddresses
<1>1. RootsTypeOK' /\ RootRefs' \subseteq LiveAddresses
  BY RootStepKeepsReach DEF LockstepTypeOK, LiveAddresses
<1>2. /\ mRefs \in [Id -> [Slot -> IdRef]]
      /\ Model!RootRefs' \in SUBSET Id
      /\ mRefs' = Model!KeepReachable(mRefs, Model!RootRefs')
  <2>1. \A i \in DOMAIN mStack' : mStack'[i] \in IdRef
    OBVIOUS
  <2>. QED
    BY <2>1 DEF LockstepTypeOK, Model!RootRefs, Model!RootSet, IdRef, Model!Forget
<1>3. LockstepTypeOK'
  <2>1. mRefs' \in [Id -> [Slot -> IdRef]]
    BY <1>2, IdsKept
  <2>2. refs' \in [Obj -> [Slot -> Ref]] /\ stamp' \in [Obj -> IdRef]
    BY DEF LockstepTypeOK, IdRef
  <2>. QED
    BY <1>1, <2>1, <2>2 DEF LockstepTypeOK, IdRef
<1>4. PICK mr \in [Id -> [Slot -> IdRef]], H \in SUBSET Obj : mr = mRefs /\ H = LiveAddresses
  BY <1>2, Lives
<1>5. RootRefs' \subseteq H /\ \A h \in H : Children(refs', h) \subseteq H
  BY <1>1, <1>4, Lives
<1>6. Matches(mr, H)'
  <2>1. /\ \A h \in H : stamp'[h] # Null /\ \A i \in Slot : Means(refs'[h][i], mr[stamp'[h]][i])
        /\ \A h, k \in H : stamp'[h] = stamp'[k] => h = k
    BY <1>4 DEF Faithful, PathsAgree
  <2>2. /\ \A i \in DOMAIN stack' : Means(stack[i], mStack[i])'
        /\ \A n \in Name : Means(globals[n], mGlobals[n])'
        /\ \A h \in H, i \in Slot : Means(refs[h][i], mr[stamp[h]][i])'
    BY <2>1 DEF Means
  <2>. QED
    BY <1>5, <2>1, <2>2 DEF Matches
<1>. QED
  BY <1>2, <1>3, <1>4, <1>6, MatchFollowed

\* So do the operations on the roots.
LEMMA RootsStayFaithful ==
  ASSUME LockstepTypeOK, Faithful, BothRootsStep
  PROVE  LockstepTypeOK' /\ Faithful' /\ LiveAddresses' \subseteq LiveAddresses
<1>1. Model!Forget(mRefs) /\ UNCHANGED <<refs, stamp>> /\ RootStep
  BY DEF BothRootsStep, RootStep
<1>2. /\ \A i \in DOMAIN stack : Means(stack[i], mStack[i])
      /\ \A n \in Name : Means(globals[n], mGlobals[n])
  BY DEF Faithful, PathsAgree
<1>3. /\ Len(stack) \in Nat /\ DOMAIN stack = 1 .. Len(stack) /\ DOMAIN mStack = 1 .. Len(stack)
      /\ stack \in Seq(Ref) /\ mStack \in Seq(IdRef) /\ globals \in [Name -> Ref]
      /\ mGlobals \in [Name -> IdRef] /\ Len(mStack) = Len(stack)
  <2>1. /\ stack \in Seq(Ref) /\ mStack \in Seq(IdRef) /\ globals \in [Name -> Ref]
        /\ mGlobals \in [Name -> IdRef] /\ DOMAIN mStack = DOMAIN stack
    BY DEF LockstepTypeOK, RootsTypeOK, IdRef
  <2>2. Len(stack) \in Nat /\ DOMAIN stack = 1 .. Len(stack)
    BY <2>1
  <2>. QED
    BY <2>1, <2>2, SameLengths
<1>. DEFINE Agrees == /\ mStack' \in Seq(IdRef) /\ DOMAIN mStack' = DOMAIN stack'
                      /\ mGlobals' \in [Name -> IdRef]
                      /\ \A i \in DOMAIN stack' : Means(stack'[i], mStack'[i])
                      /\ \A n \in Name : Means(globals'[n], mGlobals'[n])
<1>4. SUFFICES Agrees
  BY <1>1, RootsMove
<1>5. ASSUME NEW h \in Ref, NEW d \in IdRef, Means(h, d), PushRoot(h), Model!PushRoot(d)
      PROVE  Agrees
  BY <1>2, <1>3, <1>5, BothPush
<1>6. CASE \E p \in DOMAIN stack, i \in Slot : Load(p, i) /\ Model!Load(p, i)
  <2>1. PICK p \in DOMAIN stack, i \in Slot : Load(p, i) /\ Model!Load(p, i)
    BY <1>6
  <2>2. /\ stack[p] # Null /\ stamp[stack[p]] = mStack[p] /\ stack[p] \in LiveAddresses
        /\ mStack[p] \in Id /\ stack[p] \in Obj
    BY <1>2, <2>1, Places, Lives DEF Means, Load, Ref, IdRef, Model!Load
  <2>3. Means(Loaded(p, i), mRefs[mStack[p]][i])
    BY <2>2 DEF Faithful, PathsAgree, Loaded
  <2>4. Loaded(p, i) \in Ref /\ mRefs[mStack[p]][i] \in IdRef
    BY <2>2 DEF LockstepTypeOK, Loaded, IdRef
  <2>5. PushRoot(Loaded(p, i)) /\ Model!PushRoot(mRefs[mStack[p]][i])
    BY <2>1 DEF Load, Model!Load, Model!Loaded
  <2>. HIDE DEF Agrees
  <2>. QED
    BY <1>5, <2>3, <2>4, <2>5
<1>7. CASE \E s \in DOMAIN stack : Dup(s) /\ Model!Dup(s)
  <2>1. PICK s \in DOMAIN stack : Dup(s) /\ Model!Dup(s)
    BY <1>7
  <2>2. Means(stack[s], mStack[s]) /\ stack[s] \in Ref /\ mStack[s] \in IdRef
    BY <1>2, Places
  <2>3. PushRoot(stack[s]) /\ Model!PushRoot(mStack[s])
    BY <2>1 DEF Dup, Model!Dup
  <2>. HIDE DEF Agrees
  <2>. QED
    BY <1>5, <2>2, <2>3
<1>8. CASE \E dst, src \in DOMAIN stack : Assign(dst, src) /\ Model!Assign(dst, src)
  <2>1. PICK dst \in DOMAIN stack, src \in DOMAIN stack : Assign(dst, src) /\ Model!Assign(dst, src)
    BY <1>8
  <2>2. /\ stack' = [stack EXCEPT ![dst] = stack[src]] /\ globals' = globals
        /\ mStack' = [mStack EXCEPT ![dst] = mStack[src]] /\ mGlobals' = mGlobals
    BY <2>1 DEF Assign, Model!Assign
  <2>3. /\ DOMAIN stack' = DOMAIN stack /\ DOMAIN mStack' = DOMAIN mStack
        /\ \A i \in DOMAIN stack : stack'[i] = IF i = dst THEN stack[src] ELSE stack[i]
        /\ \A i \in DOMAIN stack : mStack'[i] = IF i = dst THEN mStack[src] ELSE mStack[i]
        /\ mStack' \in Seq(IdRef)
    BY <1>3, <2>2
  <2>. QED
    BY <1>2, <1>3, <2>2, <2>3
<1>9. CASE \E depth \in 0 .. (Len(stack) - 1) : Unwind(depth) /\ Model!Unwind(depth)
  <2>1. PICK depth \in 0 .. (Len(stack) - 1) : Unwind(depth) /\ Model!Unwind(depth)
    BY <1>9
  <2>2. /\ stack' = SubSeq(stack, 1, depth) /\ globals' = globals
        /\ mStack' = SubSeq(mStack, 1, depth) /\ mGlobals' = mGlobals
    BY <2>1 DEF Unwind, Model!Unwind
  <2>3. /\ DOMAIN stack' = 1 .. depth /\ DOMAIN mStack' = 1 .. depth
        /\ \A i \in 1 .. depth : stack'[i] = stack[i] /\ mStack'[i] = mStack[i] /\ i \in DOMAIN stack
        /\ mStack' \in Seq(IdRef)
    BY <1>3, <2>2
  <2>. QED
    BY <1>2, <1>3, <2>2, <2>3
<1>10. CASE \E n \in Name, s \in DOMAIN stack : SetGlobal(n, s) /\ Model!SetGlobal(n, s)
  <2>1. PICK n \in Name, s \in DOMAIN stack : SetGlobal(n, s) /\ Model!SetGlobal(n, s)
    BY <1>10
  <2>2. /\ stack' = stack /\ mStack' = mStack /\ mGlobals' \in [Name -> IdRef]
        /\ \A m \in Name : globals'[m] = IF m = n THEN stack[s] ELSE globals[m]
        /\ \A m \in Name : mGlobals'[m] = IF m = n THEN mStack[s] ELSE mGlobals[m]
    BY <1>3, <2>1, Places DEF SetGlobal, Model!SetGlobal
  <2>. QED
    BY <1>2, <1>3, <2>2
<1>11. CASE \E n \in Name : Global(n) /\ Model!Global(n)
  <2>1. PICK n \in Name : Global(n) /\ Model!Global(n)
    BY <1>11
  <2>2. Means(globals[n], mGlobals[n]) /\ globals[n] \in Ref /\ mGlobals[n] \in IdRef
    BY <1>2, <1>3
  <2>3. PushRoot(globals[n]) /\ Model!PushRoot(mGlobals[n])
    BY <2>1 DEF Global, Model!Global
  <2>. HIDE DEF Agrees
  <2>. QED
    BY <1>5, <2>2, <2>3
<1>12. CASE \E n \in Name : ClearGlobal(n) /\ Model!ClearGlobal(n)
  <2>1. PICK n \in Name : ClearGlobal(n) /\ Model!ClearGlobal(n)
    BY <1>12
  <2>2. /\ stack' = stack /\ mStack' = mStack /\ mGlobals' \in [Name -> IdRef]
        /\ \A m \in Name : globals'[m] = IF m = n THEN Null ELSE globals[m]
        /\ \A m \in Name : mGlobals'[m] = IF m = n THEN Null ELSE mGlobals[m]
    BY <1>3, <2>1 DEF ClearGlobal, Model!ClearGlobal, IdRef
  <2>. QED
    BY <1>2, <1>3, <2>2 DEF Means
<1>. HIDE DEF Agrees
<1>. QED
  BY <1>6, <1>7, <1>8, <1>9, <1>10, <1>11, <1>12 DEF BothRootsStep

\* So does a store.
LEMMA StoreStaysFaithful ==
  ASSUME LockstepTypeOK, Faithful,
         NEW p \in DOMAIN stack, NEW i \in Slot, NEW c \in 0 .. Len(stack), Store(p, i, c)
  PROVE  LockstepTypeOK' /\ Faithful' /\ LiveAddresses' \subseteq LiveAddresses
<1>. DEFINE v == Operand(stack, c)
            d == Operand(mStack, c)
            o == stack[p]
            q == mStack[p]
            ms == [mRefs EXCEPT ![q][i] = d]
<1>1. /\ Len(stack) \in Nat /\ DOMAIN stack = 1 .. Len(stack)
      /\ refs \in [Obj -> [Slot -> Ref]] /\ stamp \in [Obj -> IdRef]
      /\ mRefs \in [Id -> [Slot -> IdRef]]
  BY DEF LockstepTypeOK, RootsTypeOK, IdRef
<1>2. /\ o \in LiveAddresses /\ o \in Obj /\ q \in Id /\ stamp[o] = q
      /\ v \in Ref /\ d \in IdRef /\ Means(v, d) /\ (v # Null => v \in LiveAddresses)
  <2>1. stack[p] # Null /\ mStack[p] # Null
    BY DEF Store
  <2>2. Means(stack[p], mStack[p])
    BY DEF Faithful, PathsAgree
  <2>3. o \in LiveAddresses /\ o \in Obj /\ q \in Id /\ stamp[o] = q
    BY <2>1, <2>2, Places, Lives DEF Means, Ref, IdRef
  <2>4. c # 0 => c \in DOMAIN stack
    BY <1>1
  <2>5. v \in Ref /\ d \in IdRef /\ Means(v, d) /\ (v # Null => v \in LiveAddresses)
    BY <2>4, Places, Lives DEF Operand, Faithful, PathsAgree, Means, Ref, IdRef
  <2>. QED
    BY <2>3, <2>5
<1>3. /\ refs' = [refs EXCEPT ![o][i] = v]
      /\ stack' = stack /\ globals' = globals /\ stamp' = stamp
      /\ mStack' = mStack /\ mGlobals' = mGlobals
      /\ mRefs' = Model!KeepReachable(ms, Model!RootRefs')
  BY DEF Store, Model!ModelStore, Model!Forget, Model!roots, Model!RootRefs
<1>. HIDE DEF v, d, o, q
<1>4. ms \in [Id -> [Slot -> IdRef]]
  BY <1>1, <1>2
<1>5. \A x \in Id, j \in Slot : ms[x][j] = IF x = q /\ j = i THEN d ELSE mRefs[x][j]
  BY <1>1, <1>2
<1>6. /\ refs' \in [Obj -> [Slot -> Ref]]
      /\ \A h \in Obj, j \in Slot : refs'[h][j] = IF h = o /\ j = i THEN v ELSE refs[h][j]
  BY <1>1, <1>2, <1>3
<1>. HIDE DEF ms
<1>7. LockstepTypeOK'
  <2>1. Model!RootRefs' = Model!RootRefs
    BY <1>3 DEF Model!RootRefs, Model!RootSet
  <2>2. mRefs' \in [Id -> [Slot -> IdRef]]
    BY <1>3, <1>4, <2>1, Lives, IdsKept
  <2>. QED
    BY <1>3, <1>6, <2>2 DEF LockstepTypeOK, RootsTypeOK, IdRef
<1>8. PICK mr \in [Id -> [Slot -> IdRef]], H \in SUBSET Obj : mr = ms /\ H = LiveAddresses
  BY <1>4, Lives
<1>9. Matches(mr, H)'
  <2>1. RootRefs' = RootRefs
    BY <1>3 DEF RootRefs
  <2>2. \A h \in H, j \in Slot : refs'[h][j] # Null => refs'[h][j] \in H
    BY <1>2, <1>6, <1>8, Lives DEF Children
  <2>3. \A h \in H : Children(refs', h) \subseteq H
    BY <2>2 DEF Children
  <2>4. /\ \A j \in DOMAIN stack' : Means(stack[j], mStack[j])'
        /\ \A n \in Name : Means(globals[n], mGlobals[n])'
    BY <1>3 DEF Faithful, PathsAgree, Means
  <2>5. /\ \A h \in H : stamp[h] # Null /\ stamp[h] \in Id
        /\ \A h \in H, j \in Slot : Means(refs[h][j], mRefs[stamp[h]][j])
        /\ \A h, k \in H : stamp[h] = stamp[k] => h = k
    BY <1>1, <1>8 DEF Faithful, PathsAgree, IdRef
  <2>6. \A h \in H, j \in Slot : Means(refs'[h][j], mr[stamp[h]][j])
    BY <1>2, <1>5, <1>6, <1>8, <2>5
  <2>7. \A h \in H, j \in Slot : Means(refs[h][j], mr[stamp[h]][j])'
    BY <1>3, <2>6 DEF Means
  <2>. QED
    BY <1>3, <1>8, <2>1, <2>3, <2>4, <2>5, <2>7, Lives DEF Matches
<1>. QED
  BY <1>3, <1>7, <1>8, <1>9, MatchFollowed

\* So does an allocation, where nothing lay that the program can reach.
LEMMA StampStaysFaithful ==
  ASSUME LockstepTypeOK, Faithful,
         NEW a \in Obj, a \notin LiveAddresses, StampAndRoot(a)
  PROVE  LockstepTypeOK' /\ Faithful' /\ LiveAddresses' \subseteq LiveAddresses \cup {a}
<1>1. PICK id \in Id : /\ Model!ModelAlloc(id) /\ PushRoot(a)
                       /\ refs' = [refs EXCEPT ![a] = Blank]
                       /\ stamp' = [stamp EXCEPT ![a] = id]
  BY DEF StampAndRoot
<1>. DEFINE ms == [mRefs EXCEPT ![id] = Model!Blank]
<1>2. /\ refs \in [Obj -> [Slot -> Ref]] /\ stamp \in [Obj -> IdRef]
      /\ mRefs \in [Id -> [Slot -> IdRef]]
  BY DEF LockstepTypeOK, RootsTypeOK, IdRef
<1>3. /\ id \notin LiveIds /\ Model!PushRoot(id)
      /\ mRefs' = Model!KeepReachable(ms, Model!RootRefs')
  BY <1>1 DEF Model!ModelAlloc, Model!Forget, Model!RootRefs, LiveIds
<1>4. a \in Ref /\ id \in IdRef /\ a # Null /\ id # Null
  BY NullAssumption, IdAssumption DEF Ref, IdRef
<1>5. /\ RootsTypeOK' /\ RootRefs' = RootRefs \cup ({a} \ {Null})
      /\ mStack' \in Seq(IdRef) /\ DOMAIN mStack' = DOMAIN stack'
      /\ mGlobals' \in [Name -> IdRef]
      /\ \A i \in DOMAIN stack' :
           \/ i \in DOMAIN stack /\ stack'[i] = stack[i] /\ mStack'[i] = mStack[i]
           \/ stack'[i] = a /\ mStack'[i] = id
      /\ globals' = globals /\ mGlobals' = mGlobals
  BY <1>1, <1>3, <1>4, BothPush
<1>6. /\ \A j \in Slot : Blank[j] = Null /\ Model!Blank[j] = Null
      /\ Blank \in [Slot -> Ref] /\ Model!Blank \in [Slot -> IdRef]
  BY DEF Blank, Model!Blank, Model!Slot, Slot, Ref, IdRef
<1>7. /\ ms \in [Id -> [Slot -> IdRef]]
      /\ \A x \in Id : ms[x] = IF x = id THEN Model!Blank ELSE mRefs[x]
  BY <1>2, <1>6
<1>8. /\ refs' \in [Obj -> [Slot -> Ref]]
      /\ \A h \in Obj : refs'[h] = IF h = a THEN Blank ELSE refs[h]
      /\ stamp' \in [Obj -> IdRef]
      /\ \A h \in Obj : stamp'[h] = IF h = a THEN id ELSE stamp[h]
  BY <1>1, <1>2, <1>4, <1>6
<1>. HIDE DEF ms
<1>9. LockstepTypeOK'
  <2>1. Model!RootRefs' \in SUBSET Id
    <3>1. \A i \in DOMAIN mStack' : mStack'[i] \in IdRef
      BY <1>5
    <3>. QED
      BY <1>5, <3>1 DEF Model!RootRefs, Model!RootSet, IdRef
  <2>2. mRefs' \in [Id -> [Slot -> IdRef]]
    BY <1>3, <1>7, <2>1, IdsKept
  <2>. QED
    BY <1>5, <1>8, <2>2 DEF LockstepTypeOK, IdRef
<1>10. LiveAddresses \cup {a} \in SUBSET Obj
  BY Lives
<1>11. PICK mr \in [Id -> [Slot -> IdRef]], H \in SUBSET Obj : mr = ms /\ H = LiveAddresses \cup {a}
  BY <1>7, <1>10
<1>12. /\ \A h \in LiveAddresses : stamp'[h] = stamp[h] /\ refs'[h] = refs[h] /\ h \in Obj
       /\ \A h \in LiveAddresses : stamp[h] \in LiveIds /\ stamp[h] \in Id /\ stamp[h] # id
       /\ stamp'[a] = id /\ refs'[a] = Blank
  <2>1. \A h \in LiveAddresses : stamp[h] \in LiveIds
    BY StampsAreLive DEF Faithful
  <2>. QED
    BY <1>3, <1>8, <2>1, Lives
<1>13. Matches(mr, H)'
  <2>1. RootRefs' \subseteq H
    BY <1>5, <1>11, Lives
  <2>2. \A h \in H : Children(refs', h) \subseteq H
    BY <1>6, <1>11, <1>12, Lives DEF Children
  <2>3. \A h \in LiveAddresses : \A j \in Slot : Means(refs[h][j], mr[stamp[h]][j])
    BY <1>7, <1>11, <1>12 DEF Faithful, PathsAgree
  <2>4. \A h \in H, j \in Slot : refs'[h][j] # Null => refs'[h][j] \in LiveAddresses
    BY <1>6, <1>11, <1>12, Lives DEF Children
  <2>5. \A h \in H, j \in Slot : Means(refs[h][j], mr[stamp[h]][j])'
    <3>1. ASSUME NEW h \in LiveAddresses, NEW j \in Slot
          PROVE  Means(refs[h][j], mr[stamp[h]][j])'
      BY <1>11, <1>12, <2>3, <2>4 DEF Means
    <3>2. ASSUME NEW j \in Slot
          PROVE  Means(refs[a][j], mr[stamp[a]][j])'
      BY <1>6, <1>7, <1>11, <1>12 DEF Means
    <3>. QED
      BY <1>11, <3>1, <3>2
  <2>6. \A i \in DOMAIN stack' : Means(stack[i], mStack[i])'
    <3>1. ASSUME NEW i \in DOMAIN stack, stack'[i] = stack[i], mStack'[i] = mStack[i]
          PROVE  Means(stack[i], mStack[i])'
      BY <1>12, <3>1, Places, Lives DEF Faithful, PathsAgree, Means
    <3>2. ASSUME NEW i, stack'[i] = a, mStack'[i] = id
          PROVE  Means(stack[i], mStack[i])'
      BY <1>4, <1>12, <3>2 DEF Means
    <3>. QED
      BY <1>5, <3>1, <3>2
  <2>7. \A n \in Name : Means(globals[n], mGlobals[n])'
    BY <1>5, <1>12, Places, Lives DEF Faithful, PathsAgree, Means
  <2>8. /\ \A h \in H : stamp'[h] # Null
        /\ \A h, k \in H : stamp'[h] = stamp'[k] => h = k
    BY <1>4, <1>11, <1>12 DEF Faithful, PathsAgree
  <2>. QED
    BY <2>1, <2>2, <2>5, <2>6, <2>7, <2>8 DEF Matches
<1>. QED
  BY <1>3, <1>9, <1>11, <1>13, MatchFollowed

\* As many objects as stamps, if no two have the same.
LEMMA StampCount ==
  ASSUME NEW M \in SUBSET Obj, \A h, k \in M : stamp[h] = stamp[k] => h = k
  PROVE  Cardinality({stamp[h] : h \in M}) = Cardinality(M)
<1>. DEFINE T == {stamp[h] : h \in M}
            f == [h \in M |-> stamp[h]]
<1>1. f \in Bijection(M, T)
  <2>1. f \in [M -> T] /\ \A t \in T : \E h \in M : f[h] = t
    OBVIOUS
  <2>2. \A h, k \in M : f[h] = f[k] => h = k
    OBVIOUS
  <2>. HIDE DEF T, f
  <2>. QED
    BY ONLY <2>1, <2>2 DEF Bijection, Injection, Surjection, IsInjective
<1>2. ExistsBijection(M, T)
  BY <1>1 DEF ExistsBijection
<1>. HIDE DEF T, f
<1>3. Cardinality(T) = Cardinality(M)
  <2>1. IsFiniteSet(M)
    BY ObjAssumption, FS_Subset
  <2>. QED
    BY <1>2, <2>1, FS_Bijection
<1>. QED
  BY <1>3 DEF T

\* What a step of the collector that touches neither heap nor model leaves.
LEMMA SameHeap ==
  ASSUME UNCHANGED lockstepVars
  PROVE  /\ LockstepTypeOK' <=> LockstepTypeOK
         /\ PathsAgree' <=> PathsAgree
         /\ Faithful' <=> Faithful
         /\ LiveAddresses' = LiveAddresses /\ LiveIds' = LiveIds
         /\ RootRefs' = RootRefs
<1>1. /\ stack' = stack /\ globals' = globals /\ refs' = refs /\ stamp' = stamp
      /\ mStack' = mStack /\ mGlobals' = mGlobals /\ mRefs' = mRefs
  BY DEF lockstepVars, modelState
<1>2. LockstepTypeOK' <=> LockstepTypeOK
  BY <1>1 DEF LockstepTypeOK, RootsTypeOK
<1>3. RootRefs' = RootRefs /\ LiveAddresses' = LiveAddresses
  BY <1>1 DEF RootRefs, LiveAddresses
<1>4. LiveIds' = LiveIds
  BY <1>1 DEF LiveIds, Model!RootRefs
<1>5. (PathsAgree' <=> PathsAgree) /\ (Faithful' <=> Faithful)
  BY <1>1, <1>3 DEF Faithful, PathsAgree, Means
<1>. QED
  BY <1>2, <1>3, <1>4, <1>5

\* What the program can reach in the model is the model's business.
LEMMA SameModel ==
  ASSUME UNCHANGED modelState
  PROVE  LiveIds' = LiveIds
BY DEF modelState, LiveIds, Model!RootRefs

\* Nothing but what the program can reach matters to it.
LEMMA LiveUntouched ==
  ASSUME LockstepTypeOK, Faithful,
         refs' \in [Obj -> [Slot -> Ref]], stamp' \in [Obj -> IdRef],
         \A h \in LiveAddresses : refs'[h] = refs[h] /\ stamp'[h] = stamp[h],
         stack' = stack, globals' = globals,
         mStack' = mStack, mGlobals' = mGlobals, mRefs' = mRefs
  PROVE  LockstepTypeOK' /\ Faithful' /\ LiveAddresses' = LiveAddresses
<1>1. LockstepTypeOK'
  BY DEF LockstepTypeOK, RootsTypeOK, IdRef
<1>2. LiveAddresses' = LiveAddresses
  <2>1. /\ RootRefs' = RootRefs /\ RootRefs \in SUBSET Obj
        /\ refs \in [Obj -> [Slot -> Ref]]
    BY Lives DEF RootRefs, LockstepTypeOK
  <2>2. \A h \in Reachable(refs, RootRefs) : refs'[h] = refs[h]
    BY DEF LiveAddresses
  <2>3. Reachable(refs', RootRefs) = Reachable(refs, RootRefs)
    BY <2>1, <2>2, ReachableLooksAtReached
  <2>. QED
    BY <2>1, <2>3 DEF LiveAddresses
<1>3. PathsAgree'
  <2>1. \A i \in DOMAIN stack' : Means(stack[i], mStack[i])'
    BY Places, Lives DEF Faithful, PathsAgree, Means
  <2>2. \A m \in Name : Means(globals[m], mGlobals[m])'
    BY Places, Lives DEF Faithful, PathsAgree, Means
  <2>3. ASSUME NEW h \in LiveAddresses, NEW i \in Slot
        PROVE  Means(refs[h][i], mRefs[stamp[h]][i])'
    <3>1. Means(refs[h][i], mRefs[stamp[h]][i])
      BY DEF Faithful, PathsAgree
    <3>2. refs[h][i] # Null => refs[h][i] \in LiveAddresses
      BY Lives DEF Children
    <3>. QED
      BY <3>1, <3>2 DEF Means
  <2>4. \A h \in LiveAddresses : stamp'[h] # Null
    BY DEF Faithful, PathsAgree
  <2>5. DOMAIN stack' = DOMAIN mStack'
    BY Places
  <2>. QED
    BY <1>2, <2>1, <2>2, <2>3, <2>4, <2>5 DEF PathsAgree
<1>. QED
  BY <1>1, <1>2, <1>3 DEF Faithful
=============================================================================
