-------------------------- MODULE SemiSpaceProofs --------------------------
(***************************************************************************)
(* Proofs about SemiSpace, for every size of the halves, object graph and  *)
(* shadow model: every path agrees with the model at every step of a       *)
(* collection, what has been scanned is done with, and a collection goes   *)
(* wrong only over an object that is referenced more than once.            *)
(***************************************************************************)
EXTENDS SemiSpace, GraphProofs

USE HalfAssumption

(***************************************************************************)
(* The invariant                                                           *)
(***************************************************************************)

Collecting == pc \in {"roots", "scan"}

\* What has been allocated or copied to in the half in use.
Filled == (current + 1) .. (free - 1)

\* Where the objects of the program may be.
InUse == IF Collecting THEN FromSpace \cup Filled ELSE Filled

\* No reference leads out of there, and what is not in use holds none.
HeapIsClosed ==
  /\ RootRefs \subseteq InUse
  /\ \A a \in InUse : Children(refs, a) \subseteq InUse
  /\ \A a \in Obj \ InUse : Children(refs, a) = {}

\* Bytes in use and objects are counted alike.
CountsAgree ==
  /\ Collecting => copied = Cardinality(Filled) /\ scan <= free /\ Cardinality(LiveIds) <= live
  /\ ~ Collecting => live = Cardinality(Filled)

\* The originals refer to originals, the program can reach every copy, and a
\* copy is where the reference it was made for leads.
CopiesAreNamed ==
  Collecting =>
    /\ \A a \in FromSpace : Children(refs, a) \subseteq FromSpace
    /\ Filled \subseteq LiveAddresses
    /\ \A c \in Filled : c \in RootRefs \/ \E b \in Filled : c \in Children(refs, b)

\* Some object is referenced more than once.
Shared == \E id \in LiveIds : InDegree(id) > 1

\* Without sharing no object is copied twice.
CopiesAreSingle ==
  Collecting /\ ~ Shared => \A b, c \in Filled : stamp[b] = stamp[c] => b = c

\* The program runs on a heap that is the model's graph.
ProgramIsSafe ==
  /\ pc \in {"run", "retry"} => Faithful
  /\ panicked => Collecting

\* Nothing else goes wrong.
LostOverSharing == panicked \/ pc = "lost" => Shared

IInv ==
  /\ TypeOK /\ PathsAlwaysAgree /\ ScannedIsComplete /\ HeapIsClosed /\ CountsAgree
  /\ CopiesAreNamed /\ CopiesAreSingle /\ ProgramIsSafe /\ LostOverSharing

(***************************************************************************)
(* The halves                                                              *)
(***************************************************************************)

\* The half in use is filled from its start, and the other is from-space.
LEMMA Halves ==
  ASSUME current \in {0, Half}, free \in (current + 1) .. Limit
  PROVE  /\ HalfAt(current) \in SUBSET Obj /\ Filled \subseteq HalfAt(current)
         /\ FromSpace \in SUBSET Obj /\ FromSpace \cap HalfAt(current) = {}
         /\ Filled \in SUBSET Obj /\ InUse \in SUBSET Obj
         /\ Cardinality(Filled) = free - 1 - current
         /\ Cardinality(Filled) \in 0 .. Half
         /\ Cardinality(Filled) < Half => free < Limit
         /\ free < Limit => /\ free \in HalfAt(current) /\ free \notin FromSpace
                            /\ free \in Obj /\ free \notin InUse /\ free \notin Filled
                            /\ Filled \cup {free} = (current + 1) .. free
                            /\ Cardinality(Filled) < Half
<1>1. Half \in Nat \ {0} /\ Obj = 1 .. 2 * Half /\ current \in Nat /\ free \in Nat
      /\ Limit = current + Half + 1 /\ current + 1 <= free /\ free <= Limit
      /\ current + Half <= 2 * Half
  BY DEF Limit
<1>2. HalfAt(current) \in SUBSET Obj /\ Filled \subseteq HalfAt(current) /\ free \notin Filled
  BY <1>1 DEF HalfAt, Filled
<1>3. FromSpace \in SUBSET Obj /\ FromSpace \cap HalfAt(current) = {}
  BY DEF FromSpace
<1>4. free < Limit => free \notin FromSpace
  BY <1>1 DEF FromSpace, HalfAt
<1>5. Cardinality(Filled) = free - 1 - current
  <2>1. current + 1 \in Int /\ free - 1 \in Int
    BY <1>1
  <2>2. Cardinality((current + 1) .. (free - 1))
          = IF current + 1 > free - 1 THEN 0 ELSE (free - 1) - (current + 1) + 1
    BY ONLY <2>1, FS_Interval
  <2>. QED
    BY <1>1, <2>2 DEF Filled
<1>6. free < Limit => /\ free \in HalfAt(current) /\ free \in Obj
                      /\ Filled \cup {free} = (current + 1) .. free
  BY <1>1 DEF HalfAt, Filled
<1>7. InUse \in SUBSET Obj /\ (free < Limit => free \notin InUse)
  BY <1>2, <1>3, <1>4 DEF InUse
<1>. QED
  BY <1>1, <1>2, <1>3, <1>4, <1>5, <1>6, <1>7

(***************************************************************************)
(* Reachability and references                                             *)
(***************************************************************************)

\* A set of one element at most.
LEMMA AtMostOne ==
  ASSUME NEW T, IsFiniteSet(T), Cardinality(T) <= 1
  PROVE  \A x, y \in T : x = y
<1>. SUFFICES ASSUME NEW x \in T, NEW y \in T, x # y
              PROVE  FALSE
  OBVIOUS
<1>1. IsFiniteSet({x}) /\ Cardinality({x}) = 1 /\ y \notin {x}
  BY FS_Singleton
<1>2. Cardinality({x} \cup {y}) = Cardinality({x}) + 1
  BY <1>1, FS_AddElement
<1>3. {x} \cup {y} \in SUBSET T
  OBVIOUS
<1>4. Cardinality({x} \cup {y}) <= Cardinality(T) /\ Cardinality(T) \in Nat
  BY <1>3, FS_Subset, FS_CardinalityType
<1>. QED
  BY <1>1, <1>2, <1>4

\* Where no object is shared, an identity stands in one place of the model.
LEMMA OnePlace ==
  ASSUME LockstepTypeOK, ~ Shared, NEW id \in LiveIds
  PROVE  /\ \A i, j \in DOMAIN mStack : mStack[i] = id /\ mStack[j] = id => i = j
         /\ \A n, m \in Name : mGlobals[n] = id /\ mGlobals[m] = id => n = m
         /\ \A d, e \in Id, i, j \in Slot :
              mRefs[d][i] = id /\ mRefs[e][j] = id => d = e /\ i = j
         /\ \A i \in DOMAIN mStack, n \in Name : ~ (mStack[i] = id /\ mGlobals[n] = id)
         /\ \A i \in DOMAIN mStack, d \in Id, j \in Slot : ~ (mStack[i] = id /\ mRefs[d][j] = id)
         /\ \A n \in Name, d \in Id, j \in Slot : ~ (mGlobals[n] = id /\ mRefs[d][j] = id)
<1>. DEFINE A == {i \in DOMAIN mStack : mStack[i] = id}
            B == {n \in Name : mGlobals[n] = id}
            C == {f \in Id \X Slot : mRefs[f[1]][f[2]] = id}
<1>1. IsFiniteSet(DOMAIN mStack) /\ IsFiniteSet(Id \X Slot)
  <2>1. mStack \in Seq(IdRef)
    BY DEF LockstepTypeOK, IdRef
  <2>2. DOMAIN mStack = 1 .. Len(mStack) /\ Len(mStack) \in Nat
    BY <2>1
  <2>3. IsFiniteSet(Slot)
    BY NumSlotsAssumption, FS_Interval DEF Slot
  <2>4. IsFiniteSet(DOMAIN mStack)
    BY <2>2, FS_Interval
  <2>5. IsFiniteSet(Id \X Slot)
    BY <2>3, FS_Product, IdAssumption
  <2>. QED
    BY <2>4, <2>5
<1>2. IsFiniteSet(A) /\ IsFiniteSet(B) /\ IsFiniteSet(C)
  BY <1>1, NameAssumption, FS_Subset
<1>3. Cardinality(A) \in Nat /\ Cardinality(B) \in Nat /\ Cardinality(C) \in Nat
  BY <1>2, FS_CardinalityType
<1>4. InDegree(id) = Cardinality(A) + Cardinality(B) + Cardinality(C) /\ ~ (InDegree(id) > 1)
  BY DEF InDegree, Shared
<1>. HIDE DEF A, B, C
<1>5. Cardinality(A) + Cardinality(B) + Cardinality(C) <= 1
  BY <1>3, <1>4
<1>6. /\ A # {} => Cardinality(A) >= 1
      /\ B # {} => Cardinality(B) >= 1
      /\ C # {} => Cardinality(C) >= 1
  BY <1>2, <1>3, FS_EmptySet
<1>7. (A = {} \/ B = {}) /\ (A = {} \/ C = {}) /\ (B = {} \/ C = {})
  BY <1>3, <1>5, <1>6
<1>8. /\ \A i, j \in A : i = j
      /\ \A n, m \in B : n = m
      /\ \A f, g \in C : f = g
  BY <1>2, <1>3, <1>5, AtMostOne
<1>9. \A d \in Id, j \in Slot : mRefs[d][j] = id => <<d, j>> \in C
  BY DEF C
<1>10. \A i \in DOMAIN mStack : mStack[i] = id => i \in A
  BY DEF A
<1>11. \A n \in Name : mGlobals[n] = id => n \in B
  BY DEF B
<1>12. \A d, e \in Id, i, j \in Slot : mRefs[d][i] = id /\ mRefs[e][j] = id => d = e /\ i = j
  <2>1. ASSUME NEW d \in Id, NEW e \in Id, NEW i \in Slot, NEW j \in Slot,
               mRefs[d][i] = id, mRefs[e][j] = id
        PROVE  d = e /\ i = j
    <3>1. <<d, i>> \in C /\ <<e, j>> \in C
      BY <1>9, <2>1
    <3>2. <<d, i>> = <<e, j>>
      BY <1>8, <3>1, Zenon
    <3>. QED
      BY <3>2
  <2>. QED
    BY <2>1
<1>. QED
  BY <1>7, <1>8, <1>9, <1>10, <1>11, <1>12

(***************************************************************************)
(* A copy                                                                  *)
(***************************************************************************)

\* A reference that a copy of h leaves alone, or leads to the copy.
Redirected(old, new, h) == new = old \/ (old = h /\ new = free)

\* copy_object for a reference to h in a root or in a copy that is scanned: the
\* reference is led to the copy, and nothing else changes for the program.
LEMMA CopyIInv ==
  ASSUME IInv, Collecting, ~ panicked, free < Limit,
         NEW h \in LiveAddresses, h \in FromSpace,
         NEW nr \in [Obj -> [Slot -> Ref]], CopyObject(h, nr),
         \A a \in Obj \ Filled : nr[a] = refs[a],
         \A a \in Filled, i \in Slot : Redirected(refs[a][i], nr[a][i], h),
         stack' \in Seq(Ref), Len(stack') <= MaxDepth, DOMAIN stack' = DOMAIN stack,
         \A i \in DOMAIN stack : Redirected(stack[i], stack'[i], h),
         globals' \in [Name -> Ref],
         \A n \in Name : Redirected(globals[n], globals'[n], h),
         free \in RootRefs' \/ \E b \in Filled : free \in Children(nr, b),
         ~ Shared => \A c \in Filled : stamp[c] # stamp[h],
         UNCHANGED <<modelState, current, scan, live, pc, then, panicked>>
  PROVE  IInv'
<1>1. /\ LockstepTypeOK /\ PathsAgree /\ current \in {0, Half}
      /\ free \in (current + 1) .. Limit /\ scan \in (current + 1) .. free
      /\ h \in Obj /\ free \in Obj /\ h # free /\ free \notin FromSpace /\ free \notin Filled
      /\ free \notin InUse /\ InUse = FromSpace \cup Filled /\ h \in InUse /\ h \notin Filled
      /\ FromSpace \cap Filled = {}
      /\ refs \in [Obj -> [Slot -> Ref]] /\ stamp \in [Obj -> IdRef] /\ forward \in [Obj -> Ref]
      /\ LiveAddresses \in SUBSET Obj /\ FromSpace \in SUBSET Obj /\ Filled \in SUBSET Obj
  BY Halves, Lives
     DEF IInv, TypeOK, PathsAlwaysAgree, CountsAgree, LockstepTypeOK, IdRef, InUse
<1>2. /\ refs' \in [Obj -> [Slot -> Ref]] /\ stamp' \in [Obj -> IdRef]
      /\ forward' \in [Obj -> Ref]
      /\ \A a \in Obj : refs'[a] = IF a = free THEN refs[h] ELSE nr[a]
      /\ \A a \in Obj : stamp'[a] = IF a = free THEN stamp[h] ELSE stamp[a]
      /\ free' = free + 1 /\ copied' = copied + 1
  BY <1>1 DEF CopyObject, Ref
<1>3. /\ mStack' = mStack /\ mGlobals' = mGlobals /\ mRefs' = mRefs /\ LiveIds' = LiveIds
      /\ current' = current /\ scan' = scan /\ live' = live
      /\ pc' = pc /\ then' = then /\ panicked' = panicked
  BY SameModel DEF modelState
<1>4. LockstepTypeOK'
  BY <1>1, <1>2, <1>3 DEF LockstepTypeOK, RootsTypeOK, IdRef
<1>5. /\ Filled' = Filled \cup {free} /\ FromSpace' = FromSpace
      /\ InUse' = InUse \cup {free} /\ Collecting' /\ Limit' = Limit
  <2>1. Filled' = (current' + 1) .. (free' - 1) /\ free \in Int /\ free + 1 - 1 = free
    BY <1>1 DEF Filled
  <2>2. Filled' = Filled \cup {free}
    BY <1>1, <1>2, <1>3, <2>1, Halves
  <2>. QED
    BY <1>1, <1>3, <2>2 DEF FromSpace, HalfAt, InUse, Collecting, Limit
<1>6. /\ LiveAddresses \subseteq InUse
      /\ \A a \in InUse, i \in Slot : Redirected(refs[a][i], refs'[a][i], h)
      /\ refs'[free] = refs[h]
      /\ \A a \in FromSpace : refs'[a] = refs[a]
      /\ \A a \in Obj \ InUse' : refs'[a] = refs[a]
  <2>1. LiveAddresses \subseteq InUse
    BY <1>1, Lives DEF IInv, HeapIsClosed
  <2>2. ASSUME NEW a \in InUse
        PROVE  a # free /\ refs'[a] = nr[a]
    BY <1>1, <1>2
  <2>3. ASSUME NEW a \in FromSpace
        PROVE  refs'[a] = refs[a]
    BY <1>1, <2>2
  <2>4. ASSUME NEW a \in InUse, NEW i \in Slot
        PROVE  Redirected(refs[a][i], refs'[a][i], h)
    BY <1>1, <2>2, <2>3 DEF Redirected
  <2>5. ASSUME NEW a \in Obj \ InUse'
        PROVE  refs'[a] = refs[a]
    BY <1>1, <1>2, <1>5
  <2>. QED
    BY <1>1, <1>2, <2>1, <2>3, <2>4, <2>5
<1>7. /\ RootRefs' \subseteq RootRefs \cup {free} /\ RootRefs \subseteq RootRefs' \cup {h}
      /\ free # Null /\ h # Null
  <2>1. free # Null /\ h # Null
    BY <1>1, NullAssumption
  <2>2. /\ RootRefs = ({stack[i] : i \in DOMAIN stack} \cup {globals[n] : n \in Name}) \ {Null}
        /\ RootRefs' = ({stack'[i] : i \in DOMAIN stack} \cup {globals'[n] : n \in Name}) \ {Null}
    BY DEF RootRefs, RootSet
  <2>3. /\ \A i \in DOMAIN stack : stack'[i] = stack[i] \/ (stack[i] = h /\ stack'[i] = free)
        /\ \A n \in Name : globals'[n] = globals[n] \/ (globals[n] = h /\ globals'[n] = free)
    BY DEF Redirected
  <2>4. RootRefs' \subseteq RootRefs \cup {free}
    BY ONLY <2>2, <2>3
  <2>5. RootRefs \subseteq RootRefs' \cup {h}
    BY ONLY <2>2, <2>3
  <2>. QED
    BY <2>1, <2>4, <2>5
<1>8. /\ \A a \in InUse : /\ Children(refs', a) \subseteq Children(refs, a) \cup {free}
                          /\ Children(refs, a) \subseteq Children(refs', a) \cup {h}
      /\ Children(refs', free) = Children(refs, h)
      /\ \A a \in FromSpace : Children(refs', a) = Children(refs, a)
      /\ \A a \in Obj \ InUse' : Children(refs', a) = Children(refs, a)
  <2>1. ASSUME NEW a \in InUse
        PROVE  /\ Children(refs', a) \subseteq Children(refs, a) \cup {free}
               /\ Children(refs, a) \subseteq Children(refs', a) \cup {h}
    <3>1. \A i \in Slot : refs'[a][i] = refs[a][i] \/ (refs[a][i] = h /\ refs'[a][i] = free)
      BY <1>6 DEF Redirected
    <3>2. /\ Children(refs, a) = {refs[a][i] : i \in Slot} \ {Null}
          /\ Children(refs', a) = {refs'[a][i] : i \in Slot} \ {Null}
      BY DEF Children
    <3>3. Children(refs', a) \subseteq Children(refs, a) \cup {free}
      BY ONLY <3>1, <3>2
    <3>4. Children(refs, a) \subseteq Children(refs', a) \cup {h}
      BY ONLY <3>1, <3>2
    <3>. QED
      BY <3>3, <3>4
  <2>2. ASSUME NEW a, NEW b, refs'[a] = refs[b]
        PROVE  Children(refs', a) = Children(refs, b)
    BY <2>2 DEF Children
  <2>. QED
    BY <1>6, <2>1, <2>2
<1>9. /\ RootRefs \subseteq InUse /\ RootRefs \subseteq LiveAddresses
      /\ \A a \in InUse : Children(refs, a) \subseteq InUse
      /\ \A a \in Obj \ InUse : Children(refs, a) = {}
      /\ \A a \in FromSpace : Children(refs, a) \subseteq FromSpace
      /\ Filled \subseteq LiveAddresses
      /\ \A c \in Filled : c \in RootRefs \/ \E b \in Filled : c \in Children(refs, b)
      /\ \A a \in LiveAddresses : Children(refs, a) \subseteq LiveAddresses
  BY <1>1, Lives DEF IInv, HeapIsClosed, CopiesAreNamed
<1>10. LiveAddresses' \subseteq LiveAddresses \cup {free}
  <2>1. \A a \in LiveAddresses \cup {free} : Children(refs', a) \subseteq LiveAddresses \cup {free}
    BY <1>6, <1>8, <1>9
  <2>2. LiveAddresses \cup {free} \in SUBSET Obj
    BY <1>1
  <2>. QED
    BY <1>4, <1>7, <1>9, <2>1, <2>2, NewLives
<1>11. Filled' \subseteq LiveAddresses'
  <2>. DEFINE L == LiveAddresses'
              T == L \cup FromSpace
  <2>1. /\ L \in SUBSET Obj /\ RootRefs' \subseteq L
        /\ \A a \in L : Children(refs', a) \subseteq L
    BY <1>4, NewLives
  <2>. HIDE DEF L
  <2>2. RootRefs \subseteq T
    BY <1>7, <2>1
  <2>3. ASSUME NEW a \in T
        PROVE  Children(refs, a) \subseteq T
    <3>1. CASE a \in FromSpace
      BY <1>9, <3>1
    <3>2. CASE a \notin InUse
      BY <1>1, <1>9, <2>1, <3>2
    <3>3. CASE a \in InUse /\ a \notin FromSpace
      BY <1>8, <2>1, <3>3
    <3>. QED
      BY <3>1, <3>2, <3>3
  <2>4. LiveAddresses \subseteq T
    BY <1>1, <2>1, <2>2, <2>3, Lives
  <2>5. Filled \subseteq L
    BY <1>1, <1>9, <2>4
  <2>6. free \in L
    <3>1. CASE free \in RootRefs'
      BY <2>1, <3>1
    <3>2. CASE free \notin RootRefs'
      <4>1. PICK b \in Filled : free \in Children(nr, b)
        BY <3>2
      <4>2. b \in Obj /\ b # free /\ refs'[b] = nr[b]
        BY <1>1, <1>2
      <4>3. free \in Children(refs', b)
        BY <4>1, <4>2 DEF Children
      <4>. QED
        BY <2>1, <2>5, <4>3
    <3>. QED
      BY <3>1, <3>2
  <2>. QED
    BY <1>5, <2>5, <2>6 DEF L
<1>12. HeapIsClosed'
  <2>1. RootRefs' \subseteq InUse'
    BY <1>5, <1>7, <1>9
  <2>2. \A a \in InUse' : Children(refs', a) \subseteq InUse'
    BY <1>1, <1>5, <1>8, <1>9
  <2>3. \A a \in Obj \ InUse' : Children(refs', a) = {}
    BY <1>5, <1>8, <1>9
  <2>. QED
    BY <2>1, <2>2, <2>3 DEF HeapIsClosed
<1>13. CopiesAreNamed'
  <2>1. \A a \in FromSpace' : Children(refs', a) \subseteq FromSpace'
    BY <1>5, <1>8, <1>9
  <2>2. ASSUME NEW c \in Filled'
        PROVE  c \in RootRefs' \/ \E b \in Filled' : c \in Children(refs', b)
    <3>1. CASE c \in Filled
      <4>1. c # h /\ Filled \subseteq InUse
        BY <1>1, <3>1
      <4>2. CASE c \in RootRefs
        BY <1>7, <4>1, <4>2
      <4>3. CASE \E b \in Filled : c \in Children(refs, b)
        BY <1>5, <1>8, <4>1, <4>3
      <4>. QED
        BY <1>9, <3>1, <4>2, <4>3
    <3>2. CASE c = free /\ free \notin RootRefs'
      <4>1. PICK b \in Filled : free \in Children(nr, b)
        BY <3>2
      <4>2. b \in Obj /\ b # free /\ refs'[b] = nr[b]
        BY <1>1, <1>2
      <4>3. free \in Children(refs', b) /\ b \in Filled'
        BY <1>5, <4>1, <4>2 DEF Children
      <4>. QED
        BY <3>2, <4>3
    <3>. QED
      BY <1>5, <3>1, <3>2
  <2>. QED
    BY <1>5, <1>11, <2>1, <2>2 DEF CopiesAreNamed
<1>14. PathsAlwaysAgree'
  <2>. DEFINE Now(q, d) == IF d = Null THEN q = Null ELSE q # Null /\ stamp'[q] = d
  <2>1. ASSUME NEW r, NEW q, NEW d, Means(r, d), Redirected(r, q, h), r \in LiveAddresses \cup {Null}
        PROVE  Now(q, d)
    <3>1. CASE q = r /\ r # Null
      BY <1>1, <1>2, <1>6, <2>1, <3>1 DEF Means
    <3>2. CASE q = Null /\ r = Null
      BY <2>1, <3>2 DEF Means
    <3>3. CASE r = h /\ q = free
      BY <1>1, <1>2, <1>7, <2>1, <3>3 DEF Means
    <3>. QED
      BY <2>1, <3>1, <3>2, <3>3 DEF Redirected
  <2>2. /\ \A i \in DOMAIN stack : stack[i] \in LiveAddresses \cup {Null}
        /\ \A n \in Name : globals[n] \in LiveAddresses \cup {Null}
    BY <1>1, <1>9, Places
  <2>3. \A a \in LiveAddresses, i \in Slot : refs[a][i] \in LiveAddresses \cup {Null}
    BY <1>9 DEF Children
  <2>4. /\ DOMAIN stack = DOMAIN mStack /\ \A i \in DOMAIN stack : Means(stack[i], mStack[i])
        /\ \A n \in Name : Means(globals[n], mGlobals[n])
        /\ \A a \in LiveAddresses :
             /\ stamp[a] # Null
             /\ \A i \in Slot : Means(refs[a][i], mRefs[stamp[a]][i])
    BY <1>1 DEF PathsAgree
  <2>. HIDE DEF Now
  <2>5. \A i \in DOMAIN stack : Now(stack'[i], mStack[i])
    BY <2>1, <2>2, <2>4
  <2>6. \A n \in Name : Now(globals'[n], mGlobals[n])
    BY <2>1, <2>2, <2>4
  <2>7. ASSUME NEW a \in LiveAddresses'
        PROVE  stamp'[a] # Null /\ \A i \in Slot : Now(refs'[a][i], mRefs[stamp'[a]][i])
    <3>1. CASE a = free
      <4>1. stamp'[a] = stamp[h] /\ refs'[a] = refs[h]
        BY <1>1, <1>2, <1>6, <3>1
      <4>2. \A i \in Slot : Redirected(refs[h][i], refs[h][i], h)
        BY DEF Redirected
      <4>3. \A i \in Slot : Now(refs[h][i], mRefs[stamp[h]][i])
        BY <2>1, <2>3, <2>4, <4>2
      <4>. QED
        BY <2>4, <4>1, <4>3
    <3>2. CASE a # free
      <4>1. a \in LiveAddresses /\ a \in InUse /\ stamp'[a] = stamp[a]
        BY <1>1, <1>2, <1>6, <1>10, <3>2
      <4>2. \A i \in Slot : Now(refs'[a][i], mRefs[stamp[a]][i])
        BY <1>6, <2>1, <2>3, <2>4, <4>1
      <4>. QED
        BY <2>4, <4>1, <4>2
    <3>. QED
      BY <3>1, <3>2
  <2>. QED
    BY <1>3, <2>4, <2>5, <2>6, <2>7 DEF PathsAlwaysAgree, PathsAgree, Means, Now
<1>15. CopiesAreSingle'
  <2>1. Shared' = Shared
    BY <1>3 DEF Shared, InDegree
  <2>2. ~ Shared => \A b, c \in Filled : stamp[b] = stamp[c] => b = c
    BY DEF IInv, CopiesAreSingle
  <2>3. \A c \in Filled : stamp'[c] = stamp[c]
    BY <1>1, <1>2
  <2>4. stamp'[free] = stamp[h]
    BY <1>1, <1>2
  <2>5. ~ Shared => \A b, c \in Filled' : stamp'[b] = stamp'[c] => b = c
    BY <1>5, <2>2, <2>3, <2>4
  <2>. QED
    BY <2>1, <2>5 DEF CopiesAreSingle
<1>16. ScannedIsComplete'
  <2>1. ASSUME NEW a \in (current + 1) .. (scan - 1), NEW i \in Slot
        PROVE  refs'[a][i] \notin FromSpace
    <3>1. refs[a][i] \notin FromSpace
      BY DEF IInv, ScannedIsComplete, Collecting
    <3>2. a \in Filled
      <4>1. current \in Int /\ scan \in Int /\ free \in Int /\ scan <= free
        BY <1>1
      <4>. QED
        BY <4>1 DEF Filled
    <3>3. refs'[a][i] = refs[a][i] \/ refs'[a][i] = free
      BY <1>1, <1>6, <3>2 DEF Redirected
    <3>. QED
      BY ONLY <1>1, <3>1, <3>3
  <2>2. pc # "roots" => RootRefs \subseteq Filled
    BY DEF IInv, ScannedIsComplete, Filled
  <2>3. pc # "roots" => RootRefs' \subseteq Filled'
    BY <1>5, <1>7, <2>2
  <2>. QED
    BY <1>3, <1>5, <2>1, <2>3 DEF ScannedIsComplete, Collecting, Filled
<1>17. TypeOK' /\ CountsAgree'
  <2>1. current \in Int /\ free \in Int /\ scan \in Int /\ Half \in Int
    BY <1>1
  <2>2. free' \in (current + 1) .. Limit /\ scan' \in (current + 1) .. Limit /\ scan' <= free'
    BY <1>1, <1>2, <1>3, <2>1 DEF Limit
  <2>3. copied = Cardinality(Filled) /\ Cardinality(LiveIds) <= live
    BY DEF IInv, CountsAgree
  <2>4. Cardinality(Filled) = free - 1 - current /\ Cardinality(Filled) < Half
        /\ Cardinality(Filled) \in 0 .. Half
    BY <1>1, Halves
  <2>5. IsFiniteSet(Filled) /\ free \notin Filled
    BY <1>1, ObjAssumption, FS_Subset
  <2>6. Cardinality(Filled') = Cardinality(Filled) + 1
    BY <1>5, <2>5, FS_AddElement
  <2>7. copied' \in 0 .. Half /\ copied' = Cardinality(Filled')
    BY <1>2, <2>3, <2>4, <2>6
  <2>. QED
    BY <1>2, <1>3, <1>4, <1>5, <2>2, <2>3, <2>7 DEF IInv, TypeOK, CountsAgree, Collecting
<1>. QED
  BY <1>3, <1>5, <1>12, <1>13, <1>14, <1>15, <1>16, <1>17
     DEF IInv, ProgramIsSafe, LostOverSharing, Collecting

\* A copy stands for a live identity, in a root or in a field of a copy, and in
\* the model's place that is this one.
LEMMA CopyNamed ==
  ASSUME IInv, Collecting, NEW c \in Filled
  PROVE  /\ stamp[c] \in LiveIds
         /\ \/ \E i \in DOMAIN stack : stack[i] = c /\ mStack[i] = stamp[c]
            \/ \E n \in Name : globals[n] = c /\ mGlobals[n] = stamp[c]
            \/ \E b \in Filled, k \in Slot :
                 refs[b][k] = c /\ stamp[b] \in Id /\ mRefs[stamp[b]][k] = stamp[c]
<1>1. LockstepTypeOK /\ PathsAgree /\ Filled \subseteq LiveAddresses
      /\ (c \in RootRefs \/ \E b \in Filled : c \in Children(refs, b))
  BY DEF IInv, TypeOK, PathsAlwaysAgree, CopiesAreNamed
<1>2. LiveIds = {stamp[a] : a \in LiveAddresses} /\ LiveIds \in SUBSET Id
  BY <1>1, StampsAreLive, Lives
<1>3. c \in LiveAddresses /\ c \in Obj /\ c # Null
  BY <1>1, Lives, NullAssumption
<1>4. /\ \A i \in DOMAIN stack : stack[i] = c => mStack[i] = stamp[c]
      /\ \A n \in Name : globals[n] = c => mGlobals[n] = stamp[c]
      /\ \A b \in LiveAddresses, k \in Slot : refs[b][k] = c => mRefs[stamp[b]][k] = stamp[c]
  BY <1>1, <1>3 DEF PathsAgree, Means
<1>5. CASE c \in RootRefs
  BY <1>1, <1>2, <1>3, <1>4, <1>5, Places
<1>6. CASE \E b \in Filled : c \in Children(refs, b)
  <2>1. PICK b \in Filled, k \in Slot : refs[b][k] = c
    BY <1>6 DEF Children
  <2>2. b \in LiveAddresses /\ stamp[b] \in Id
    BY <1>1, <1>2, <2>1
  <2>. QED
    BY <1>2, <1>3, <1>4, <2>1, <2>2
<1>. QED
  BY <1>1, <1>5, <1>6

\* Without sharing, what the reference under copy_object leads to has no copy:
\* a copy has a reference of its own.
LEMMA NoCopyYet ==
  ASSUME IInv, Collecting, ~ Shared
  PROVE  /\ \A i \in DOMAIN stack : stack[i] \in FromSpace =>
              \A c \in Filled : stamp[c] # stamp[stack[i]]
         /\ \A n \in Name : globals[n] \in FromSpace =>
              \A c \in Filled : stamp[c] # stamp[globals[n]]
         /\ \A a \in Filled, j \in Slot : refs[a][j] \in FromSpace =>
              \A c \in Filled : stamp[c] # stamp[refs[a][j]]
<1>1. LockstepTypeOK /\ PathsAgree /\ Filled \subseteq LiveAddresses
      /\ Filled \cap FromSpace = {} /\ FromSpace \in SUBSET Obj
      /\ \A b, c \in Filled : stamp[b] = stamp[c] => b = c
  BY Halves DEF IInv, TypeOK, PathsAlwaysAgree, CopiesAreNamed, CopiesAreSingle
<1>2. \A h \in FromSpace : h # Null
  BY <1>1, NullAssumption
<1>3. /\ \A i \in DOMAIN stack : stack[i] # Null => mStack[i] = stamp[stack[i]]
      /\ \A n \in Name : globals[n] # Null => mGlobals[n] = stamp[globals[n]]
      /\ \A b \in Filled, k \in Slot : refs[b][k] # Null => mRefs[stamp[b]][k] = stamp[refs[b][k]]
  BY <1>1 DEF PathsAgree, Means
<1>4. DOMAIN mStack = DOMAIN stack
  BY <1>1, Places
<1>5. ASSUME NEW i \in DOMAIN stack, stack[i] \in FromSpace, NEW c \in Filled,
             stamp[c] = stamp[stack[i]]
      PROVE  FALSE
  <2>1. mStack[i] = stamp[c] /\ stamp[c] \in LiveIds /\ stack[i] # c
    BY <1>1, <1>2, <1>3, <1>5, CopyNamed
  <2>. QED
    BY <1>1, <1>4, <2>1, CopyNamed, OnePlace
<1>6. ASSUME NEW n \in Name, globals[n] \in FromSpace, NEW c \in Filled,
             stamp[c] = stamp[globals[n]]
      PROVE  FALSE
  <2>1. mGlobals[n] = stamp[c] /\ stamp[c] \in LiveIds /\ globals[n] # c
    BY <1>1, <1>2, <1>3, <1>6, CopyNamed
  <2>. QED
    BY <1>1, <1>4, <2>1, CopyNamed, OnePlace
<1>7. ASSUME NEW a \in Filled, NEW j \in Slot, refs[a][j] \in FromSpace, NEW c \in Filled,
             stamp[c] = stamp[refs[a][j]]
      PROVE  FALSE
  <2>1. mRefs[stamp[a]][j] = stamp[c] /\ stamp[c] \in LiveIds /\ refs[a][j] # c
    <3>1. refs[a][j] # Null /\ refs[a][j] # c
      BY <1>1, <1>2, <1>7
    <3>2. mRefs[stamp[a]][j] = stamp[refs[a][j]]
      BY <1>3, <3>1
    <3>3. stamp[c] \in LiveIds
      BY CopyNamed
    <3>. QED
      BY <1>7, <3>1, <3>2, <3>3
  <2>2. stamp[a] \in Id
    BY <1>1, CopyNamed, Lives
  <2>. QED
    BY <1>1, <1>4, <2>1, <2>2, CopyNamed, OnePlace
<1>. QED
  BY <1>5, <1>6, <1>7

\* How many copies there are without sharing: no more than there were objects.
LEMMA CopiesFit ==
  ASSUME IInv, Collecting, ~ Shared
  PROVE  /\ copied <= live
         /\ \A h \in LiveAddresses : (\A c \in Filled : stamp[c] # stamp[h]) => free < Limit
<1>1. LockstepTypeOK /\ PathsAgree /\ Filled \subseteq LiveAddresses /\ Filled \in SUBSET Obj
      /\ (\A b, c \in Filled : stamp[b] = stamp[c] => b = c)
      /\ live \in 0 .. Half /\ copied = Cardinality(Filled) /\ Cardinality(LiveIds) <= live
      /\ Cardinality(Filled) \in 0 .. Half /\ (Cardinality(Filled) < Half => free < Limit)
  BY Halves DEF IInv, TypeOK, PathsAlwaysAgree, CopiesAreNamed, CopiesAreSingle, CountsAgree
<1>2. LiveIds = {stamp[a] : a \in LiveAddresses} /\ IsFiniteSet(LiveIds)
  BY <1>1, StampsAreLive, Lives, IdAssumption, FS_Subset
<1>. DEFINE T == {stamp[c] : c \in Filled}
<1>3. T \in SUBSET LiveIds /\ Cardinality(T) = copied
  BY <1>1, <1>2, StampCount
<1>. HIDE DEF T
<1>4. IsFiniteSet(T) /\ Cardinality(T) <= Cardinality(LiveIds) /\ Cardinality(LiveIds) \in Nat
  BY <1>2, <1>3, FS_Subset, FS_CardinalityType
<1>5. ASSUME NEW h \in LiveAddresses, \A c \in Filled : stamp[c] # stamp[h]
      PROVE  free < Limit
  <2>1. stamp[h] \notin T /\ T \cup {stamp[h]} \in SUBSET LiveIds
    BY <1>2, <1>3, <1>5 DEF T
  <2>2. Cardinality(T \cup {stamp[h]}) = Cardinality(T) + 1
    BY <1>4, <2>1, FS_AddElement
  <2>3. Cardinality(T \cup {stamp[h]}) <= Cardinality(LiveIds)
    BY <1>2, <2>1, FS_Subset
  <2>. QED
    BY <1>1, <1>3, <1>4, <2>2, <2>3
<1>. QED
  BY <1>1, <1>3, <1>4, <1>5

\* What a step that leaves heap and model alone leaves of the invariant.
LEMMA StillTrue ==
  ASSUME IInv, UNCHANGED lockstepVars
  PROVE  /\ LockstepTypeOK' /\ PathsAlwaysAgree'
         /\ LiveAddresses' = LiveAddresses /\ LiveIds' = LiveIds /\ RootRefs' = RootRefs
         /\ refs' = refs /\ stamp' = stamp /\ Shared' = Shared
         /\ Faithful' <=> Faithful
<1>1. /\ refs' = refs /\ stamp' = stamp /\ mStack' = mStack /\ mGlobals' = mGlobals
      /\ mRefs' = mRefs
  BY DEF lockstepVars, modelState
<1>2. Shared' = Shared
  BY <1>1, SameHeap DEF Shared, InDegree
<1>. QED
  BY <1>1, <1>2, SameHeap DEF IInv, TypeOK, PathsAlwaysAgree

(***************************************************************************)
(* The steps of a collection                                               *)
(***************************************************************************)

\* The halves are swapped: everything is an original.
LEMMA BeginIInv ==
  ASSUME IInv, Running, NEW return \in {"run", "retry"}, Begin(return)
  PROVE  IInv'
<1>1. /\ pc = "run" /\ ~ panicked /\ ~ Collecting /\ Faithful
      /\ current \in {0, Half} /\ free \in (current + 1) .. Limit
      /\ live = Cardinality(Filled)
      /\ LockstepTypeOK /\ RootRefs \subseteq Filled
      /\ \A a \in Filled : Children(refs, a) \subseteq Filled
      /\ \A a \in Obj \ Filled : Children(refs, a) = {}
      /\ LiveAddresses \subseteq Filled /\ Filled \subseteq HalfAt(current)
      /\ Filled \in SUBSET Obj /\ HalfAt(current) \in SUBSET Obj
      /\ live \in 0 .. Half /\ forward \in [Obj -> Ref] /\ panicked \in BOOLEAN
  BY Halves DEF Running, Collecting, IInv, TypeOK, ProgramIsSafe, CountsAgree, HeapIsClosed,
                InUse, ScannedIsComplete, Filled
<1>2. /\ current' = Half - current /\ free' = current' + 1 /\ scan' = current' + 1
      /\ copied' = 0 /\ pc' = "roots" /\ then' = return /\ Collecting'
      /\ forward' = forward /\ live' = live /\ panicked' = panicked
      /\ UNCHANGED lockstepVars
  BY DEF Begin, Collecting
<1>3. /\ LockstepTypeOK' /\ PathsAlwaysAgree' /\ refs' = refs
      /\ LiveAddresses' = LiveAddresses /\ LiveIds' = LiveIds /\ RootRefs' = RootRefs
  BY <1>2, StillTrue
<1>4. /\ current' \in {0, Half} /\ Filled' = {} /\ FromSpace' = HalfAt(current)
      /\ free' \in (current' + 1) .. Limit' /\ scan' \in (current' + 1) .. Limit'
      /\ (current' + 1) .. (scan' - 1) = {}
  <2>1. Half \in Nat \ {0} /\ current \in Nat
    BY <1>1
  <2>2. current' \in {0, Half} /\ current' \in Nat /\ (current = 0 => current' = Half)
        /\ (current = Half => current' = 0)
    BY <1>1, <1>2, <2>1
  <2>3. free' - 1 = current' /\ scan' - 1 = current' /\ (current' + 1) .. current' = {}
    BY <1>2, <2>2
  <2>4. FromSpace' = HalfAt(current)
    <3>1. FromSpace' = Obj \ ((current' + 1) .. (current' + Half))
      BY DEF FromSpace, HalfAt
    <3>2. HalfAt(current) = (current + 1) .. (current + Half)
      BY DEF HalfAt
    <3>3. CASE current = 0
      BY <2>1, <2>2, <3>1, <3>2, <3>3
    <3>4. CASE current = Half
      BY <2>1, <2>2, <3>1, <3>2, <3>4
    <3>. QED
      BY <1>1, <3>3, <3>4
  <2>5. Limit' = current' + Half + 1
    BY DEF Limit
  <2>. QED
    BY <1>2, <2>1, <2>2, <2>3, <2>4, <2>5 DEF Filled
<1>5. InUse' = HalfAt(current)
  BY <1>2, <1>4 DEF InUse
<1>6. HeapIsClosed'
  BY <1>1, <1>3, <1>5 DEF HeapIsClosed
<1>7. CopiesAreNamed' /\ CopiesAreSingle'
  <2>1. \A a \in FromSpace' : Children(refs', a) \subseteq FromSpace'
    BY <1>1, <1>3, <1>4
  <2>. QED
    BY <1>4, <2>1 DEF CopiesAreNamed, CopiesAreSingle
<1>8. Cardinality(LiveIds) <= live
  <2>1. LiveIds = {stamp[h] : h \in LiveAddresses}
        /\ \A h, k \in LiveAddresses : stamp[h] = stamp[k] => h = k
    BY <1>1, StampsAreLive DEF Faithful
  <2>2. Cardinality(LiveIds) = Cardinality(LiveAddresses)
    BY <1>1, <2>1, Lives, StampCount
  <2>3. IsFiniteSet(Filled)
    BY <1>1, ObjAssumption, FS_Subset
  <2>. QED
    BY <1>1, <2>2, <2>3, FS_Subset
<1>9. CountsAgree'
  <2>1. Cardinality({}) = 0
    BY FS_EmptySet
  <2>2. scan' <= free'
    BY <1>2, <1>4
  <2>. QED
    BY <1>2, <1>3, <1>4, <1>8, <2>1, <2>2 DEF CountsAgree
<1>10. ScannedIsComplete'
  BY <1>2, <1>4 DEF ScannedIsComplete
<1>11. TypeOK'
  <2>1. 0 \in 0 .. Half
    OBVIOUS
  <2>. QED
    BY <1>1, <1>2, <1>3, <1>4, <2>1 DEF TypeOK
<1>. QED
  BY <1>1, <1>2, <1>3, <1>6, <1>7, <1>9, <1>10, <1>11 DEF IInv, ProgramIsSafe, LostOverSharing

\* The roots lead to copies, and the scan begins.
LEMMA RootsDoneIInv ==
  ASSUME IInv, RootsDone
  PROVE  IInv'
<1>1. /\ pc = "roots" /\ pc' = "scan" /\ ~ panicked /\ Collecting /\ Collecting'
      /\ current' = current /\ free' = free /\ scan' = scan /\ forward' = forward
      /\ live' = live /\ copied' = copied /\ then' = then /\ panicked' = panicked
      /\ UNCHANGED lockstepVars
  BY DEF RootsDone, Collecting
<1>2. /\ LockstepTypeOK' /\ PathsAlwaysAgree' /\ refs' = refs /\ stamp' = stamp
      /\ LiveAddresses' = LiveAddresses /\ LiveIds' = LiveIds /\ RootRefs' = RootRefs
      /\ Shared' = Shared
  BY <1>1, StillTrue
<1>3. /\ Filled' = Filled /\ FromSpace' = FromSpace /\ InUse' = InUse /\ Limit' = Limit
  BY <1>1 DEF Filled, FromSpace, HalfAt, InUse, Limit
<1>4. RootRefs \subseteq Filled
  <2>1. RootRefs \subseteq FromSpace \cup Filled
    BY <1>1 DEF IInv, HeapIsClosed, InUse
  <2>2. \A a \in RootRefs : a \notin FromSpace
    BY Places DEF RootsDone, StackToDo, GlobalsToDo, IInv, TypeOK
  <2>. QED
    BY <2>1, <2>2
<1>5. ScannedIsComplete'
  BY <1>1, <1>2, <1>3, <1>4 DEF IInv, ScannedIsComplete, Filled
<1>. QED
  BY <1>1, <1>2, <1>3, <1>5
     DEF IInv, TypeOK, HeapIsClosed, CountsAgree, CopiesAreNamed, CopiesAreSingle,
         ProgramIsSafe, LostOverSharing

\* The scan passes an object that leads to copies only.
LEMMA ScanAdvanceIInv ==
  ASSUME IInv, ScanAdvance
  PROVE  IInv'
<1>1. /\ pc = "scan" /\ pc' = pc /\ ~ panicked /\ Collecting /\ Collecting'
      /\ current' = current /\ free' = free /\ scan' = scan + 1 /\ forward' = forward
      /\ live' = live /\ copied' = copied /\ then' = then /\ panicked' = panicked
      /\ scan < free /\ SlotsToDo = {} /\ UNCHANGED lockstepVars
  BY DEF ScanAdvance, Collecting
<1>2. /\ LockstepTypeOK' /\ PathsAlwaysAgree' /\ refs' = refs /\ stamp' = stamp
      /\ LiveAddresses' = LiveAddresses /\ LiveIds' = LiveIds /\ RootRefs' = RootRefs
      /\ Shared' = Shared
  BY <1>1, StillTrue
<1>3. /\ Filled' = Filled /\ FromSpace' = FromSpace /\ InUse' = InUse /\ Limit' = Limit
  BY <1>1 DEF Filled, FromSpace, HalfAt, InUse, Limit
<1>4. /\ current \in Int /\ free \in Int /\ scan \in Int /\ Half \in Int
      /\ free \in (current + 1) .. Limit /\ scan \in (current + 1) .. Limit
  BY DEF IInv, TypeOK, Limit
<1>5. scan' \in (current + 1) .. Limit /\ scan' <= free
  BY <1>1, <1>4 DEF Limit
<1>6. ScannedIsComplete'
  <2>1. ASSUME NEW a \in (current + 1) .. (scan' - 1), NEW i \in Slot
        PROVE  refs[a][i] \notin FromSpace
    <3>1. a \in (current + 1) .. (scan - 1) \/ a = scan
      BY <1>1, <1>4
    <3>. QED
      BY <1>1, <3>1 DEF SlotsToDo, IInv, ScannedIsComplete
  <2>. QED
    BY <1>1, <1>2, <1>3, <2>1 DEF IInv, ScannedIsComplete, Filled
<1>. QED
  BY <1>1, <1>2, <1>3, <1>5, <1>6
     DEF IInv, TypeOK, HeapIsClosed, CountsAgree, CopiesAreNamed, CopiesAreSingle,
         ProgramIsSafe, LostOverSharing

\* A collection is stopped only over a shared object.
LEMMA AbortIInv ==
  ASSUME IInv, Collecting, Abort, Shared
  PROVE  IInv'
<1>1. /\ panicked' = TRUE /\ pc' = pc /\ current' = current /\ free' = free /\ scan' = scan
      /\ forward' = forward /\ live' = live /\ copied' = copied /\ then' = then
      /\ UNCHANGED lockstepVars
  BY DEF Abort
<1>2. /\ LockstepTypeOK' /\ PathsAlwaysAgree' /\ refs' = refs /\ stamp' = stamp
      /\ LiveAddresses' = LiveAddresses /\ LiveIds' = LiveIds /\ RootRefs' = RootRefs
      /\ Shared' = Shared /\ (Faithful' <=> Faithful)
  BY <1>1, StillTrue
<1>3. /\ Filled' = Filled /\ FromSpace' = FromSpace /\ InUse' = InUse /\ Limit' = Limit
      /\ Collecting' = Collecting
  BY <1>1 DEF Filled, FromSpace, HalfAt, InUse, Limit, Collecting
<1>. QED
  BY <1>1, <1>2, <1>3
     DEF IInv, TypeOK, HeapIsClosed, CountsAgree, CopiesAreNamed, CopiesAreSingle,
         ProgramIsSafe, LostOverSharing, ScannedIsComplete

\* What the space is full of, if it is full.
LEMMA OverflowIsShared ==
  ASSUME IInv, Collecting, Overflow, NEW h \in LiveAddresses,
         ~ Shared => \A c \in Filled : stamp[c] # stamp[h]
  PROVE  Shared
<1>1. free \in Int /\ Limit \in Int /\ ~ (free < Limit)
  BY DEF IInv, TypeOK, Overflow, Limit
<1>. QED
  BY <1>1, CopiesFit

\* Where to-space does not overflow there is a place for the copy.
LEMMA RoomHere ==
  ASSUME TypeOK, ~ Overflow
  PROVE  free < Limit /\ free \in Obj
<1>1. free \in Int /\ Limit \in Int
  BY DEF TypeOK, Limit
<1>2. free < Limit
  BY <1>1 DEF Overflow
<1>. QED
  BY <1>2, Halves DEF TypeOK

\* for_each_mut, at a slot of the stack.
LEMMA CopyStackRootIInv ==
  ASSUME IInv, CopyStackRoot
  PROVE  IInv'
<1>1. PICK i \in StackToDo :
        IF Overflow THEN Abort
        ELSE /\ CopyObject(stack[i], refs)
             /\ stack' = [stack EXCEPT ![i] = free]
             /\ UNCHANGED <<globals, modelState, current, scan, live, pc, then, panicked>>
  BY DEF CopyStackRoot, FirstOf
<1>2. /\ pc = "roots" /\ Collecting /\ ~ panicked /\ i \in DOMAIN stack /\ stack[i] \in FromSpace
      /\ LockstepTypeOK /\ refs \in [Obj -> [Slot -> Ref]]
      /\ stack \in Seq(Ref) /\ Len(stack) <= MaxDepth /\ globals \in [Name -> Ref]
      /\ FromSpace \in SUBSET Obj
  BY Halves DEF CopyStackRoot, StackToDo, Collecting, IInv, TypeOK, LockstepTypeOK, RootsTypeOK
<1>3. stack[i] # Null /\ stack[i] \in LiveAddresses
      /\ (~ Shared => \A c \in Filled : stamp[c] # stamp[stack[i]])
  <2>1. stack[i] # Null
    BY <1>2, NullAssumption
  <2>2. stack[i] \in LiveAddresses
    BY <1>2, <2>1, Places, Lives
  <2>. QED
    BY <1>2, <2>1, <2>2, NoCopyYet
<1>4. CASE Overflow
  BY <1>1, <1>2, <1>3, <1>4, OverflowIsShared, AbortIInv
<1>5. CASE ~ Overflow
  <2>1. /\ CopyObject(stack[i], refs) /\ stack' = [stack EXCEPT ![i] = free]
        /\ globals' = globals
        /\ UNCHANGED <<modelState, current, scan, live, pc, then, panicked>>
    BY <1>1, <1>5
  <2>2. free < Limit /\ free \in Obj
    BY <1>5, RoomHere DEF IInv
  <2>3. /\ stack' \in Seq(Ref) /\ Len(stack') = Len(stack) /\ DOMAIN stack' = DOMAIN stack
        /\ stack'[i] = free
        /\ \A j \in DOMAIN stack : Redirected(stack[j], stack'[j], stack[i])
    BY <1>2, <2>1, <2>2 DEF Ref, Redirected
  <2>4. /\ \A a \in Filled, k \in Slot : Redirected(refs[a][k], refs[a][k], stack[i])
        /\ \A n \in Name : Redirected(globals[n], globals'[n], stack[i])
    BY <2>1 DEF Redirected
  <2>5. free \in RootRefs'
    <3>1. free \in {stack'[j] : j \in DOMAIN stack'} /\ free # Null
      BY <1>2, <2>2, <2>3, NullAssumption
    <3>. QED
      BY <3>1 DEF RootRefs, RootSet
  <2>6. PICK h \in LiveAddresses, nr \in [Obj -> [Slot -> Ref]] : h = stack[i] /\ nr = refs
    BY <1>2, <1>3
  <2>. QED
    BY <1>2, <1>3, <2>1, <2>2, <2>3, <2>4, <2>5, <2>6, CopyIInv
<1>. QED
  BY <1>4, <1>5

\* for_each_mut, at a global.
LEMMA CopyGlobalRootIInv ==
  ASSUME IInv, CopyGlobalRoot
  PROVE  IInv'
<1>1. PICK n \in GlobalsToDo :
        IF Overflow THEN Abort
        ELSE /\ CopyObject(globals[n], refs)
             /\ globals' = [globals EXCEPT ![n] = free]
             /\ UNCHANGED <<stack, modelState, current, scan, live, pc, then, panicked>>
  BY DEF CopyGlobalRoot
<1>2. /\ pc = "roots" /\ Collecting /\ ~ panicked /\ n \in Name /\ globals[n] \in FromSpace
      /\ LockstepTypeOK /\ refs \in [Obj -> [Slot -> Ref]]
      /\ stack \in Seq(Ref) /\ Len(stack) <= MaxDepth /\ globals \in [Name -> Ref]
      /\ FromSpace \in SUBSET Obj
  BY Halves DEF CopyGlobalRoot, GlobalsToDo, Collecting, IInv, TypeOK, LockstepTypeOK, RootsTypeOK
<1>3. globals[n] # Null /\ globals[n] \in LiveAddresses
      /\ (~ Shared => \A c \in Filled : stamp[c] # stamp[globals[n]])
  <2>1. globals[n] # Null
    BY <1>2, NullAssumption
  <2>2. globals[n] \in LiveAddresses
    BY <1>2, <2>1, Places, Lives
  <2>. QED
    BY <1>2, <2>1, <2>2, NoCopyYet
<1>4. CASE Overflow
  BY <1>1, <1>2, <1>3, <1>4, OverflowIsShared, AbortIInv
<1>5. CASE ~ Overflow
  <2>1. /\ CopyObject(globals[n], refs) /\ globals' = [globals EXCEPT ![n] = free]
        /\ stack' = stack
        /\ UNCHANGED <<modelState, current, scan, live, pc, then, panicked>>
    BY <1>1, <1>5
  <2>2. free < Limit /\ free \in Obj
    BY <1>5, RoomHere DEF IInv
  <2>3. /\ globals' \in [Name -> Ref] /\ globals'[n] = free
        /\ \A m \in Name : Redirected(globals[m], globals'[m], globals[n])
    BY <1>2, <2>1, <2>2 DEF Ref, Redirected
  <2>4. /\ \A a \in Filled, k \in Slot : Redirected(refs[a][k], refs[a][k], globals[n])
        /\ \A i \in DOMAIN stack : Redirected(stack[i], stack'[i], globals[n])
    BY <2>1 DEF Redirected
  <2>5. free \in RootRefs'
    <3>1. free \in {globals'[m] : m \in Name} /\ free # Null
      BY <1>2, <2>2, <2>3, NullAssumption
    <3>. QED
      BY <3>1 DEF RootRefs, RootSet
  <2>6. PICK h \in LiveAddresses, nr \in [Obj -> [Slot -> Ref]] : h = globals[n] /\ nr = refs
    BY <1>2, <1>3
  <2>. QED
    BY <1>2, <1>3, <2>1, <2>2, <2>3, <2>4, <2>5, <2>6, CopyIInv
<1>. QED
  BY <1>4, <1>5

\* scan_to_space, at a reference of the object under the cursor.
LEMMA ScanSlotIInv ==
  ASSUME IInv, ScanSlot
  PROVE  IInv'
<1>1. PICK i \in SlotsToDo :
        IF Overflow THEN Abort
        ELSE /\ CopyObject(refs[scan][i], [refs EXCEPT ![scan][i] = free])
             /\ UNCHANGED <<stack, globals, modelState, current, scan, live, pc, then, panicked>>
  BY DEF ScanSlot, FirstOf
<1>2. /\ pc = "scan" /\ Collecting /\ ~ panicked /\ i \in Slot /\ refs[scan][i] \in FromSpace
      /\ LockstepTypeOK /\ refs \in [Obj -> [Slot -> Ref]]
      /\ stack \in Seq(Ref) /\ Len(stack) <= MaxDepth /\ globals \in [Name -> Ref]
      /\ FromSpace \in SUBSET Obj /\ Filled \in SUBSET Obj
      /\ Filled \subseteq LiveAddresses
  BY Halves DEF ScanSlot, SlotsToDo, Collecting, IInv, TypeOK, LockstepTypeOK, RootsTypeOK,
                CopiesAreNamed
<1>3. scan \in Filled /\ scan \in Obj
  <2>1. scan < free /\ scan \in (current + 1) .. Limit /\ current \in Int /\ free \in Int
    BY DEF ScanSlot, IInv, TypeOK, Limit
  <2>2. Limit \in Int
    BY <2>1, HalfAssumption DEF Limit
  <2>3. scan \in (current + 1) .. (free - 1)
    BY <2>1, <2>2
  <2>. QED
    BY <1>2, <2>3 DEF Filled
<1>4. refs[scan][i] # Null /\ refs[scan][i] \in LiveAddresses
      /\ (~ Shared => \A c \in Filled : stamp[c] # stamp[refs[scan][i]])
  <2>1. refs[scan][i] # Null
    BY <1>2, NullAssumption
  <2>2. refs[scan][i] \in LiveAddresses
    BY <1>2, <1>3, <2>1, Lives DEF Children
  <2>. QED
    BY <1>2, <1>3, <2>1, <2>2, NoCopyYet
<1>5. CASE Overflow
  BY <1>1, <1>2, <1>4, <1>5, OverflowIsShared, AbortIInv
<1>6. CASE ~ Overflow
  <2>1. free < Limit /\ free \in Obj /\ free # Null
    BY <1>6, RoomHere, NullAssumption DEF IInv
  <2>2. PICK h \in LiveAddresses, nr \in [Obj -> [Slot -> Ref]] :
          h = refs[scan][i] /\ nr = [refs EXCEPT ![scan][i] = free]
    BY <1>2, <1>3, <1>4, <2>1 DEF Ref
  <2>3. /\ CopyObject(h, nr) /\ stack' = stack /\ globals' = globals
        /\ UNCHANGED <<modelState, current, scan, live, pc, then, panicked>>
    BY <1>1, <1>6, <2>2
  <2>4. /\ \A a \in Obj \ Filled : nr[a] = refs[a]
        /\ \A a \in Filled, k \in Slot : Redirected(refs[a][k], nr[a][k], h)
        /\ nr[scan][i] = free
    BY <1>2, <1>3, <2>2 DEF Redirected
  <2>5. /\ \A j \in DOMAIN stack : Redirected(stack[j], stack'[j], h)
        /\ \A n \in Name : Redirected(globals[n], globals'[n], h)
    BY <2>3 DEF Redirected
  <2>6. free \in Children(nr, scan)
    BY <1>2, <2>1, <2>4 DEF Children
  <2>7. /\ h \in FromSpace /\ (~ Shared => \A c \in Filled : stamp[c] # stamp[h])
        /\ stack' \in Seq(Ref) /\ Len(stack') <= MaxDepth /\ DOMAIN stack' = DOMAIN stack
        /\ globals' \in [Name -> Ref]
    BY <1>2, <1>4, <2>2, <2>3
  <2>8. free \in RootRefs' \/ \E b \in Filled : free \in Children(nr, b)
    BY <1>3, <2>6
  <2>. QED
    BY <1>2, <2>1, <2>3, <2>4, <2>5, <2>7, <2>8, CopyIInv
<1>. QED
  BY <1>5, <1>6

\* collect returns: what is left is the model's graph, or else some object is
\* shared.
LEMMA FinishIInv ==
  ASSUME IInv, Finish
  PROVE  IInv'
<1>1. /\ pc = "scan" /\ ~ panicked /\ scan = free /\ Collecting
      /\ LockstepTypeOK /\ PathsAgree /\ current \in {0, Half} /\ free \in (current + 1) .. Limit
      /\ InUse = FromSpace \cup Filled /\ Filled \subseteq HalfAt(current)
      /\ FromSpace \in SUBSET Obj /\ Filled \in SUBSET Obj /\ FromSpace \cap Filled = {}
      /\ refs \in [Obj -> [Slot -> Ref]] /\ stamp \in [Obj -> IdRef]
      /\ then \in {"run", "retry"} /\ copied = Cardinality(Filled) /\ copied \in 0 .. Half
      /\ Filled \subseteq LiveAddresses /\ RootRefs \subseteq Filled
      /\ (~ Shared => \A b, c \in Filled : stamp[b] = stamp[c] => b = c)
  <2>1. pc = "scan" /\ ~ panicked /\ scan = free /\ Collecting
    BY DEF Finish, Collecting
  <2>2. /\ LockstepTypeOK /\ PathsAgree /\ current \in {0, Half} /\ free \in (current + 1) .. Limit
        /\ refs \in [Obj -> [Slot -> Ref]] /\ stamp \in [Obj -> IdRef]
        /\ then \in {"run", "retry"} /\ copied \in 0 .. Half
    BY DEF IInv, TypeOK, PathsAlwaysAgree, LockstepTypeOK, IdRef
  <2>3. /\ Filled \subseteq HalfAt(current) /\ FromSpace \in SUBSET Obj /\ Filled \in SUBSET Obj
        /\ FromSpace \cap Filled = {}
    BY <2>2, Halves
  <2>4. copied = Cardinality(Filled) /\ Filled \subseteq LiveAddresses
        /\ (~ Shared => \A b, c \in Filled : stamp[b] = stamp[c] => b = c)
    BY <2>1 DEF IInv, CountsAgree, CopiesAreNamed, CopiesAreSingle
  <2>5. RootRefs \subseteq Filled /\ InUse = FromSpace \cup Filled
    BY <2>1 DEF IInv, ScannedIsComplete, Filled, InUse
  <2>. QED
    BY <2>1, <2>2, <2>3, <2>4, <2>5
<1>2. CASE copied > live /\ Abort
  <2>1. Shared
    <3>1. copied \in Int /\ live \in Int
      BY DEF IInv, TypeOK
    <3>. QED
      BY <1>1, <1>2, <3>1, CopiesFit
  <2>. QED
    BY <1>1, <1>2, <2>1, AbortIInv
<1>3. CASE ~ (copied > live /\ Abort)
  <2>1. /\ live' = copied /\ copied' = 0 /\ then' = "run"
        /\ refs' = [a \in Obj |-> IF a \in FromSpace THEN Blank ELSE refs[a]]
        /\ stamp' = [a \in Obj |-> IF a \in FromSpace THEN Null ELSE stamp[a]]
        /\ forward' = [a \in Obj |-> Null]
        /\ pc' = (IF Faithful THEN then ELSE "lost")
        /\ UNCHANGED <<stack, globals, modelState, current, free, scan, panicked>>
    BY <1>3 DEF Finish
  <2>2. /\ refs' \in [Obj -> [Slot -> Ref]] /\ stamp' \in [Obj -> IdRef]
        /\ forward' \in [Obj -> Ref]
        /\ \A a \in FromSpace : Children(refs', a) = {}
        /\ \A a \in Obj \ FromSpace :
             refs'[a] = refs[a] /\ stamp'[a] = stamp[a] /\ Children(refs', a) = Children(refs, a)
    <3>1. Blank \in [Slot -> Ref] /\ \A i \in Slot : Blank[i] = Null
      BY DEF Blank, Ref
    <3>2. /\ refs' \in [Obj -> [Slot -> Ref]] /\ stamp' \in [Obj -> IdRef]
          /\ forward' \in [Obj -> Ref]
      BY <1>1, <2>1, <3>1 DEF Ref, IdRef
    <3>3. \A a \in FromSpace : refs'[a] = Blank
      BY <1>1, <2>1
    <3>4. \A a \in Obj \ FromSpace : refs'[a] = refs[a] /\ stamp'[a] = stamp[a]
      BY <2>1
    <3>. QED
      BY <3>1, <3>2, <3>3, <3>4 DEF Children
  <2>3. /\ mStack' = mStack /\ mGlobals' = mGlobals /\ mRefs' = mRefs /\ LiveIds' = LiveIds
        /\ stack' = stack /\ globals' = globals
        /\ current' = current /\ free' = free /\ scan' = scan /\ ~ panicked'
        /\ Filled' = Filled /\ Limit' = Limit /\ RootRefs' = RootRefs
        /\ pc' \in {"run", "retry", "lost"} /\ ~ Collecting' /\ InUse' = Filled
        /\ Shared' = Shared
    <3>1. /\ mStack' = mStack /\ mGlobals' = mGlobals /\ mRefs' = mRefs /\ LiveIds' = LiveIds
      BY <2>1, SameModel DEF modelState
    <3>2. pc' \in {"run", "retry", "lost"}
      BY <1>1, <2>1
    <3>3. Filled' = Filled /\ Limit' = Limit /\ RootRefs' = RootRefs
      BY <2>1 DEF Filled, Limit, RootRefs
    <3>4. ~ Collecting'
      BY <3>2 DEF Collecting
    <3>5. Shared' = Shared
      BY <3>1 DEF Shared, InDegree
    <3>. QED
      BY <1>1, <2>1, <3>1, <3>2, <3>3, <3>4, <3>5 DEF InUse
  <2>4. LockstepTypeOK'
    BY <1>1, <2>2, <2>3 DEF LockstepTypeOK, RootsTypeOK, IdRef
  <2>5. \A a \in Filled : Children(refs, a) \subseteq Filled
    <3>1. ASSUME NEW a \in Filled, NEW i \in Slot
          PROVE  refs[a][i] \notin FromSpace
      BY <1>1 DEF IInv, ScannedIsComplete, Filled
    <3>2. \A a \in Filled : Children(refs, a) \subseteq FromSpace \cup Filled
      BY <1>1 DEF IInv, HeapIsClosed
    <3>. QED
      BY <3>1, <3>2 DEF Children
  <2>6. LiveAddresses \subseteq Filled
    BY <1>1, <2>5, Lives
  <2>7. /\ \A a \in Filled : refs'[a] = refs[a] /\ stamp'[a] = stamp[a]
        /\ \A a \in Filled : Children(refs', a) \subseteq Filled
    BY <1>1, <2>2, <2>5
  <2>8. LiveAddresses' \subseteq Filled
    BY <1>1, <2>3, <2>4, <2>7, NewLives
  <2>9. HeapIsClosed'
    <3>1. \A a \in Obj \ (FromSpace \cup Filled) : Children(refs, a) = {}
      BY <1>1 DEF IInv, HeapIsClosed
    <3>2. \A a \in Obj \ Filled : Children(refs', a) = {}
      BY <2>2, <3>1
    <3>. QED
      BY <1>1, <2>3, <2>7, <3>2 DEF HeapIsClosed
  <2>10. PathsAgree'
    <3>. DEFINE Now(q, d) == IF d = Null THEN q = Null ELSE q # Null /\ stamp'[q] = d
    <3>1. ASSUME NEW q, NEW d, Means(q, d), q \in Filled \cup {Null}
          PROVE  Now(q, d)
      BY <2>7, <3>1 DEF Means
    <3>2. /\ \A i \in DOMAIN stack : stack[i] \in Filled \cup {Null}
          /\ \A n \in Name : globals[n] \in Filled \cup {Null}
      BY <1>1, Places
    <3>3. \A a \in Filled, i \in Slot : refs[a][i] \in Filled \cup {Null}
      BY <2>5 DEF Children
    <3>4. /\ DOMAIN stack = DOMAIN mStack /\ \A i \in DOMAIN stack : Means(stack[i], mStack[i])
          /\ \A n \in Name : Means(globals[n], mGlobals[n])
          /\ \A a \in Filled :
               /\ stamp[a] # Null
               /\ \A i \in Slot : Means(refs[a][i], mRefs[stamp[a]][i])
      BY <1>1 DEF PathsAgree
    <3>. HIDE DEF Now
    <3>5. \A i \in DOMAIN stack : Now(stack[i], mStack[i])
      BY <3>1, <3>2, <3>4
    <3>6. \A n \in Name : Now(globals[n], mGlobals[n])
      BY <3>1, <3>2, <3>4
    <3>7. \A a \in Filled : stamp'[a] # Null
            /\ \A i \in Slot : Now(refs'[a][i], mRefs[stamp'[a]][i])
      BY <2>7, <3>1, <3>3, <3>4
    <3>. QED
      BY <2>3, <2>8, <3>4, <3>5, <3>6, <3>7 DEF PathsAgree, Means, Now
  <2>11. ProgramIsSafe'
    <3>1. ASSUME Faithful
          PROVE  Faithful'
      <4>1. \A a, b \in LiveAddresses' : stamp'[a] = stamp'[b] => a = b
        BY <1>1, <2>7, <2>8, <3>1 DEF Faithful
      <4>. QED
        BY <2>10, <4>1 DEF Faithful
    <3>2. pc' \in {"run", "retry"} => Faithful
      BY <2>1
    <3>. QED
      BY <2>3, <3>1, <3>2 DEF ProgramIsSafe
  <2>12. LostOverSharing'
    <3>1. ASSUME ~ Faithful
          PROVE  Shared
      BY <1>1, <2>6, <3>1 DEF Faithful
    <3>2. pc' = "lost" => ~ Faithful
      BY <1>1, <2>1
    <3>. QED
      BY <2>3, <3>1, <3>2 DEF LostOverSharing
  <2>13. TypeOK'
    <3>1. /\ current \in {0, Half} /\ free \in (current + 1) .. Limit
          /\ scan \in (current + 1) .. Limit /\ 0 \in 0 .. Half
      BY <1>1
    <3>. QED
      BY <1>1, <2>1, <2>2, <2>3, <2>4, <3>1 DEF IInv, TypeOK
  <2>14. ScannedIsComplete' /\ CountsAgree' /\ CopiesAreNamed' /\ CopiesAreSingle'
    <3>1. ScannedIsComplete'
      BY <1>1, <2>3, <2>8 DEF ScannedIsComplete, Filled, Collecting
    <3>. QED
      BY <1>1, <2>1, <2>3, <3>1 DEF CountsAgree, CopiesAreNamed, CopiesAreSingle
  <2>. QED
    BY <2>9, <2>10, <2>11, <2>12, <2>13, <2>14 DEF IInv, PathsAlwaysAgree
<1>. QED
  BY <1>2, <1>3

(***************************************************************************)
(* The steps of the program                                                *)
(***************************************************************************)

\* What holds where alloc or the program goes on.
LEMMA IdleFacts ==
  ASSUME IInv, pc \in {"run", "retry"}
  PROVE  /\ ~ panicked /\ ~ Collecting /\ InUse = Filled /\ live = Cardinality(Filled)
         /\ LockstepTypeOK /\ Faithful /\ RootRefs \subseteq Filled /\ LiveAddresses \subseteq Filled
         /\ \A a \in Filled : Children(refs, a) \subseteq Filled
         /\ \A a \in Obj \ Filled : Children(refs, a) = {}
         /\ Filled \in SUBSET Obj
  BY Halves DEF IInv, TypeOK, Collecting, ProgramIsSafe, CountsAgree, HeapIsClosed, InUse,
                ScannedIsComplete, Filled

\* What is left to show where the half in use is as full as before, or by one
\* object more.
LEMMA IdleStep ==
  ASSUME TypeOK', Faithful', ~ panicked', pc' \in {"run", "retry"},
         LiveAddresses' \subseteq Filled', live' = Cardinality(Filled'),
         \A a \in Filled' : Children(refs', a) \subseteq Filled',
         \A a \in Obj \ Filled' : Children(refs', a) = {}
  PROVE  IInv'
<1>1. ~ Collecting' /\ InUse' = Filled'
  BY DEF Collecting, InUse
<1>2. RootRefs' \subseteq Filled'
  BY NewLives DEF TypeOK
<1>3. ScannedIsComplete'
  BY <1>1, <1>2 DEF ScannedIsComplete, Filled, Collecting
<1>4. LostOverSharing' /\ ProgramIsSafe'
  BY DEF LostOverSharing, ProgramIsSafe
<1>. QED
  BY <1>1, <1>2, <1>3, <1>4
     DEF IInv, PathsAlwaysAgree, Faithful, HeapIsClosed, CountsAgree, CopiesAreNamed,
         CopiesAreSingle

\* alloc takes the next place of the half in use.
LEMMA AllocTakeIInv ==
  ASSUME IInv, AllocTake
  PROVE  IInv'
<1>1. pc \in {"run", "retry"} /\ free < Limit /\ StampAndRoot(free)
      /\ forward' = [forward EXCEPT ![free] = Null] /\ free' = free + 1 /\ live' = live + 1
      /\ pc' = "run" /\ current' = current /\ scan' = scan /\ copied' = copied
      /\ then' = then /\ panicked' = panicked
  BY DEF AllocTake, Running, HasRoom
<1>2. /\ free \in Obj /\ free \notin Filled /\ Filled \cup {free} = (current + 1) .. free
      /\ Cardinality(Filled) < Half /\ Cardinality(Filled) \in 0 .. Half
  BY <1>1, Halves DEF IInv, TypeOK
<1>3. /\ current \in {0, Half} /\ free \in (current + 1) .. Limit /\ scan \in (current + 1) .. Limit
      /\ current \in Int /\ Half \in Int /\ free \in Int /\ forward \in [Obj -> Ref]
      /\ copied \in 0 .. Half /\ then \in {"run", "retry"} /\ refs \in [Obj -> [Slot -> Ref]]
      /\ panicked \in BOOLEAN
  BY DEF IInv, TypeOK, LockstepTypeOK, Limit
<1>4. /\ ~ panicked /\ live = Cardinality(Filled) /\ LockstepTypeOK /\ Faithful
      /\ LiveAddresses \subseteq Filled /\ Filled \in SUBSET Obj
      /\ \A a \in Filled : Children(refs, a) \subseteq Filled
      /\ \A a \in Obj \ Filled : Children(refs, a) = {}
  BY <1>1, IdleFacts
<1>5. LockstepTypeOK' /\ Faithful' /\ LiveAddresses' \subseteq LiveAddresses \cup {free}
  BY <1>1, <1>2, <1>4, StampStaysFaithful
<1>6. Filled' = Filled \cup {free} /\ Limit' = Limit
  <2>1. free' - 1 = free
    BY <1>1, <1>3
  <2>. QED
    BY <1>1, <1>2, <2>1 DEF Filled, Limit
<1>7. refs' = [refs EXCEPT ![free] = Blank]
  BY <1>1 DEF StampAndRoot
<1>8. /\ Children(refs', free) = {}
      /\ \A a \in Obj : a # free => Children(refs', a) = Children(refs, a)
  <2>1. refs'[free] = Blank /\ \A a \in Obj : a # free => refs'[a] = refs[a]
    BY <1>2, <1>3, <1>7
  <2>. QED
    BY <2>1 DEF Children, Blank
<1>9. live' = Cardinality(Filled') /\ live' \in 0 .. Half
  <2>1. IsFiniteSet(Filled)
    BY <1>4, ObjAssumption, FS_Subset
  <2>2. Cardinality(Filled \cup {free}) = Cardinality(Filled) + 1
    BY <1>2, <2>1, FS_AddElement
  <2>. QED
    BY <1>1, <1>2, <1>3, <1>4, <1>6, <2>2
<1>10. TypeOK'
  <2>1. free' \in (current + 1) .. Limit
    BY <1>1, <1>3 DEF Limit
  <2>2. forward' \in [Obj -> Ref]
    BY <1>1, <1>3 DEF Ref
  <2>. QED
    BY <1>1, <1>3, <1>4, <1>5, <1>6, <1>9, <2>1, <2>2 DEF TypeOK
<1>11. /\ \A a \in Filled' : Children(refs', a) \subseteq Filled'
       /\ \A a \in Obj \ Filled' : Children(refs', a) = {}
  BY <1>2, <1>4, <1>6, <1>8
<1>. QED
  BY <1>1, <1>4, <1>5, <1>6, <1>9, <1>10, <1>11, IdleStep

\* alloc gives up.
LEMMA AllocFailsIInv ==
  ASSUME IInv, AllocFails
  PROVE  IInv'
<1>1. /\ pc = "retry" /\ pc' = "run" /\ current' = current /\ free' = free /\ scan' = scan
      /\ forward' = forward /\ live' = live /\ copied' = copied /\ then' = then
      /\ panicked' = panicked /\ UNCHANGED lockstepVars
  BY DEF AllocFails
<1>2. /\ LockstepTypeOK' /\ refs' = refs /\ LiveAddresses' = LiveAddresses
      /\ (Faithful' <=> Faithful)
  BY <1>1, StillTrue
<1>3. Filled' = Filled /\ Limit' = Limit
  BY <1>1 DEF Filled, Limit
<1>4. /\ ~ panicked /\ live = Cardinality(Filled) /\ Faithful /\ LiveAddresses \subseteq Filled
      /\ \A a \in Filled : Children(refs, a) \subseteq Filled
      /\ \A a \in Obj \ Filled : Children(refs, a) = {}
  BY <1>1, IdleFacts
<1>5. TypeOK'
  BY <1>1, <1>2, <1>3 DEF IInv, TypeOK
<1>. QED
  BY <1>1, <1>2, <1>3, <1>4, <1>5, IdleStep

\* The operations of the program between collections.
LEMMA ProgramIInv ==
  ASSUME IInv, Program
  PROVE  IInv'
<1>1. /\ pc = "run" /\ pc' = pc /\ current' = current /\ free' = free /\ scan' = scan
      /\ forward' = forward /\ live' = live /\ copied' = copied /\ then' = then
      /\ panicked' = panicked
  BY DEF Program, Running, spaceVars
<1>2. Filled' = Filled /\ Limit' = Limit
  BY <1>1 DEF Filled, Limit
<1>3. /\ ~ panicked /\ live = Cardinality(Filled) /\ LockstepTypeOK /\ Faithful
      /\ LiveAddresses \subseteq Filled /\ RootRefs \subseteq Filled /\ Filled \in SUBSET Obj
      /\ \A a \in Filled : Children(refs, a) \subseteq Filled
      /\ \A a \in Obj \ Filled : Children(refs, a) = {}
  BY <1>1, IdleFacts
<1>4. CASE BothRootsStep
  <2>1. LockstepTypeOK' /\ Faithful' /\ LiveAddresses' \subseteq LiveAddresses /\ refs' = refs
    BY <1>3, <1>4, RootsStayFaithful DEF BothRootsStep
  <2>2. TypeOK'
    BY <1>1, <1>2, <2>1 DEF IInv, TypeOK
  <2>. QED
    BY <1>1, <1>2, <1>3, <2>1, <2>2, IdleStep
<1>5. CASE \E p \in DOMAIN stack, i \in Slot, c \in 0 .. Len(stack) : Store(p, i, c)
  <2>1. PICK p \in DOMAIN stack, i \in Slot, c \in 0 .. Len(stack) : Store(p, i, c)
    BY <1>5
  <2>2. LockstepTypeOK' /\ Faithful' /\ LiveAddresses' \subseteq LiveAddresses
    BY <1>3, <2>1, StoreStaysFaithful
  <2>3. stack[p] \in Filled /\ refs' = [refs EXCEPT ![stack[p]][i] = Operand(stack, c)]
    BY <1>3, <2>1, Places DEF Store
  <2>4. Operand(stack, c) \in Filled \cup {Null}
    <3>1. c = 0 \/ c \in DOMAIN stack
      BY <1>3 DEF LockstepTypeOK, RootsTypeOK
    <3>. QED
      BY <1>3, <3>1, Places DEF Operand
  <2>5. /\ \A a \in Obj \ {stack[p]} : refs'[a] = refs[a]
        /\ \A k \in Slot : refs'[stack[p]][k] \in {refs[stack[p]][k], Operand(stack, c)}
    BY <1>3, <2>3 DEF LockstepTypeOK
  <2>6. \A a \in Obj \ {stack[p]} : Children(refs', a) = Children(refs, a)
    BY <2>5 DEF Children
  <2>7. Children(refs', stack[p]) \subseteq Filled
    <3>1. \A k \in Slot : refs[stack[p]][k] \in Filled \cup {Null}
      BY <1>3, <2>3 DEF Children
    <3>. QED
      BY <2>4, <2>5, <3>1 DEF Children
  <2>8. /\ \A a \in Filled : Children(refs', a) \subseteq Filled
        /\ \A a \in Obj \ Filled : Children(refs', a) = {}
    BY <1>3, <2>3, <2>6, <2>7
  <2>9. TypeOK'
    BY <1>1, <1>2, <2>2 DEF IInv, TypeOK
  <2>. QED
    BY <1>1, <1>2, <1>3, <2>2, <2>8, <2>9, IdleStep
<1>. QED
  BY <1>4, <1>5 DEF Program

(***************************************************************************)
(* The invariant holds                                                     *)
(***************************************************************************)

\* It holds of an empty heap.
LEMMA InitIInv == Init => IInv
<1>. SUFFICES ASSUME Init
              PROVE  IInv
  OBVIOUS
<1>1. /\ stack = <<>> /\ globals = [n \in Name |-> Null]
      /\ mStack = <<>> /\ mGlobals = [n \in Name |-> Null]
      /\ refs = [a \in Obj |-> Blank] /\ stamp = [a \in Obj |-> Null]
      /\ mRefs = [d \in Id |-> Model!Blank]
  BY DEF Init, LockstepInit, RootsInit, Model!ModelInit, Model!RootsInit
<1>2. Blank \in [Slot -> Ref] /\ Model!Blank \in [Slot -> IdRef]
  BY DEF Blank, Model!Blank, Slot, Model!Slot, Ref, IdRef
<1>3. LockstepTypeOK
  BY <1>1, <1>2, MaxDepthAssumption DEF LockstepTypeOK, RootsTypeOK, Ref, IdRef
<1>4. LiveAddresses = {} /\ RootRefs = {}
  <2>1. RootRefs = {}
    BY <1>1 DEF RootRefs, RootSet
  <2>. QED
    BY <1>3, <2>1, Lives
<1>5. Faithful
  BY <1>1, <1>4 DEF Faithful, PathsAgree, Means
<1>6. /\ current = 0 /\ free = 1 /\ scan = 1 /\ live = 0 /\ copied = 0
      /\ pc = "run" /\ then = "run" /\ panicked = FALSE /\ forward = [a \in Obj |-> Null]
  BY DEF Init
<1>7. TypeOK
  <2>1. 1 \in (0 + 1) .. Limit /\ 0 \in 0 .. Half
    BY <1>6 DEF Limit
  <2>2. forward \in [Obj -> Ref]
    BY <1>6 DEF Ref
  <2>. QED
    BY <1>3, <1>6, <2>1, <2>2 DEF TypeOK
<1>8. Filled = {} /\ ~ Collecting /\ InUse = {} /\ Cardinality(Filled) = 0
  <2>1. Filled = {}
    BY <1>6 DEF Filled
  <2>. QED
    BY <1>6, <2>1, FS_EmptySet DEF Collecting, InUse
<1>9. \A a \in Obj : Children(refs, a) = {}
  BY <1>1 DEF Children, Blank
<1>10. ScannedIsComplete
  BY <1>4, <1>6, <1>8 DEF ScannedIsComplete, Filled
<1>. QED
  BY <1>4, <1>5, <1>6, <1>7, <1>8, <1>9, <1>10
     DEF IInv, PathsAlwaysAgree, Faithful, HeapIsClosed, CountsAgree, CopiesAreNamed,
         CopiesAreSingle, ProgramIsSafe, LostOverSharing

\* Every step keeps the invariant.
LEMMA NextIInv == IInv /\ [Next]_vars => IInv'
<1>. SUFFICES ASSUME IInv, [Next]_vars
              PROVE  IInv'
  OBVIOUS
<1>1. CASE AllocCollects
  <2>1. Running /\ Begin("retry")
    BY <1>1 DEF AllocCollects
  <2>. QED
    BY <2>1, BeginIInv
<1>2. CASE Collect
  <2>1. Running /\ Begin("run")
    BY <1>2 DEF Collect
  <2>. QED
    BY <2>1, BeginIInv
<1>3. CASE UNCHANGED vars
  <2>1. /\ current' = current /\ free' = free /\ scan' = scan /\ forward' = forward
        /\ live' = live /\ copied' = copied /\ pc' = pc /\ then' = then
        /\ panicked' = panicked /\ UNCHANGED lockstepVars
    BY <1>3 DEF vars, spaceVars
  <2>2. /\ LockstepTypeOK' /\ PathsAlwaysAgree' /\ refs' = refs /\ stamp' = stamp
        /\ LiveAddresses' = LiveAddresses /\ LiveIds' = LiveIds /\ RootRefs' = RootRefs
        /\ Shared' = Shared /\ (Faithful' <=> Faithful)
    BY <2>1, StillTrue
  <2>3. /\ Filled' = Filled /\ FromSpace' = FromSpace /\ InUse' = InUse /\ Limit' = Limit
        /\ Collecting' = Collecting
    BY <2>1 DEF Filled, FromSpace, HalfAt, InUse, Limit, Collecting
  <2>. QED
    BY <2>1, <2>2, <2>3
       DEF IInv, TypeOK, HeapIsClosed, CountsAgree, CopiesAreNamed, CopiesAreSingle,
           ProgramIsSafe, LostOverSharing, ScannedIsComplete
<1>. QED
  BY <1>1, <1>2, <1>3, ProgramIInv, AllocTakeIInv, CopyStackRootIInv, CopyGlobalRootIInv,
     RootsDoneIInv, ScanSlotIInv, ScanAdvanceIInv, FinishIInv, AllocFailsIInv
     DEF Next, Collector

(***************************************************************************)
(* Theorems                                                                *)
(***************************************************************************)

\* The invariant holds of every behaviour.
THEOREM InvariantHolds == Spec => []IInv
BY InitIInv, NextIInv, PTL DEF Spec

\* However full the halves are, free and scan stay within the half in use, and
\* no half is taken to hold more objects than it has room for.
THEOREM TypeCorrect == Spec => []TypeOK
<1>1. IInv => TypeOK
  BY DEF IInv
<1>. QED
  BY <1>1, InvariantHolds, PTL

\* At every step of a collection the program's paths lead to what they led to,
\* whether they pass through originals, through copies or through both.
THEOREM PathsHold == Spec => []PathsAlwaysAgree
<1>1. IInv => PathsAlwaysAgree
  BY DEF IInv
<1>. QED
  BY <1>1, InvariantHolds, PTL

\* "Everything between scan and free is copied but not yet examined", and what is
\* below scan leads to to-space only: where the cursors meet nothing is left.
THEOREM ScanIsComplete == Spec => []ScannedIsComplete
<1>1. IInv => ScannedIsComplete
  BY DEF IInv
<1>. QED
  BY <1>1, InvariantHolds, PTL

\* To-space overflows, the statistics underflow and the heap is lost over an
\* object that is referenced more than once, and over nothing else.
THEOREM OnlySharingLoses == Spec => []OnlySharingIsLost
<1>1. IInv => OnlySharingIsLost
  <2>. SUFFICES ASSUME IInv
                PROVE  OnlySharingIsLost
    OBVIOUS
  <2>1. Violations \subseteq {"DuplicatedIdentity"}
    BY AgreeingIsOnlyCopied, VerdictsApart DEF IInv, TypeOK, PathsAlwaysAgree
  <2>. QED
    BY <2>1 DEF IInv, LostOverSharing, Shared, OnlySharingIsLost
<1>. QED
  BY <1>1, InvariantHolds, PTL
=============================================================================
