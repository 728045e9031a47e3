------------------------- MODULE MarkCompactProofs -------------------------
(***************************************************************************)
(* Proofs about MarkCompact, for every capacity, object graph and shadow   *)
(* model: verify's verdict, what a compaction leaves, and which references *)
(* it can leave wrong.                                                     *)
(***************************************************************************)
EXTENDS MarkCompact, GraphProofs

USE CapacityAssumption, PacingAssumption

(***************************************************************************)
(* The invariant                                                           *)
(***************************************************************************)

\* No root is bound that the model has not bound.
GlobalsBound == \A n \in Name : mGlobals[n] = Null => globals[n] = Null

\* Until references are rewritten the heap is the model's graph, below top.
HeapIsModel ==
  pc \in {"run", "take", "retry", "mark"} => Faithful /\ LiveAddresses \subseteq Used

\* Headers show no collection but in one.
HeadersAreClean ==
  /\ pc \notin {"mark", "update", "move"} => marked = {}
  /\ pc \notin {"update", "move"} => forward = [a \in Obj |-> Null]

\* Marking loses nothing and goes nowhere else.
MarkingIsExact ==
  pc = "mark" =>
    /\ RootRefs \subseteq marked \cup Entries(worklist)
    /\ \A h \in marked : Children(refs, h) \subseteq marked \cup Entries(worklist)
    /\ marked \cup Entries(worklist) \subseteq LiveAddresses

\* How many survivors have been moved.
Moved == after - Cardinality(marked)

\* The object id is where d says it is or will be.
Located(d, id) ==
  \/ d \in 1 .. Moved /\ stamp[d] = id
  \/ \E g \in marked : forward[g] = d /\ stamp[g] = id

\* A reference that will be right when all survivors have been moved.
Leads(ref, id) == IF id = Null THEN ref = Null ELSE ref # Null /\ Located(ref, id)

\* A reference that is right as long as none has.
Stays(ref, id) == Means(ref, id) /\ (ref # Null => ref \in marked)

\* Survivors are moved down in order: what has been moved and what has not are
\* the objects the program can reach.
SlidingIsExact ==
  pc \in {"update", "move"} =>
    /\ marked \subseteq Used /\ at >= 1
    /\ after = Cardinality(LiveIds) /\ Moved \in 0 .. (at - 1)
    /\ {stamp[a] : a \in 1 .. Moved} \cup {stamp[a] : a \in marked} = LiveIds
    /\ \A a \in Obj : forward[a] = IF a \in marked THEN Moved + Destination(a) ELSE Null
    /\ \A a \in marked : a \in still <=> forward[a] = a

\* update_references has rewritten the fields of what lies below at and moves.
UpdatingIsRight ==
  pc = "update" =>
    /\ Moved = 0
    /\ \A i \in DOMAIN stack : Stays(stack[i], mStack[i])
    /\ \A n \in Name : Stays(globals[n], mGlobals[n])
    /\ \A h \in marked, i \in Slot :
         IF h < at /\ forward[h] # h THEN Leads(refs[h][i], mRefs[stamp[h]][i])
         ELSE Stays(refs[h][i], mRefs[stamp[h]][i])

\* While objects are moved, all references are right but the fields of those that
\* stay.
MovingIsRight ==
  pc = "move" =>
    /\ marked \subseteq at .. top
    /\ \A i \in DOMAIN stack : Leads(stack[i], mStack[i])
    /\ \A n \in Name : Leads(globals[n], mGlobals[n])
    /\ \A h \in marked, i \in Slot :
         forward[h] # h => Leads(refs[h][i], mRefs[stamp[h]][i])
    /\ \A d \in (1 .. Moved) \ still, i \in Slot : Leads(refs[d][i], mRefs[stamp[d]][i])

IInv ==
  /\ TypeOK /\ GlobalsBound /\ HeapIsModel /\ HeadersAreClean /\ MarkingIsExact
  /\ SlidingIsExact /\ UpdatingIsRight /\ MovingIsRight /\ OnlyUnmovedGoStale

(***************************************************************************)
(* Operators                                                               *)
(***************************************************************************)

\* Sets of addresses are no larger than the heap.
LEMMA HeapSize ==
  \A S \in SUBSET Obj : IsFiniteSet(S) /\ Cardinality(S) \in 0 .. Capacity
<1>1. IsFiniteSet(Obj) /\ Cardinality(Obj) = Capacity
  BY FS_Interval
<1>2. ASSUME NEW S \in SUBSET Obj
      PROVE  IsFiniteSet(S) /\ Cardinality(S) \in 0 .. Capacity
  <2>1. IsFiniteSet(S) /\ Cardinality(S) <= Cardinality(Obj)
    BY ONLY <1>1, FS_Subset
  <2>2. Cardinality(S) \in Nat
    BY <2>1, FS_CardinalityType
  <2>. QED
    BY <1>1, <2>1, <2>2
<1>. QED
  BY <1>2

\* No object slides up, or below the first address.
LEMMA SlidesDown ==
  ASSUME NEW M \in SUBSET Obj, NEW a \in M
  PROVE  Cardinality(M \cap 1 .. a) \in 1 .. a
<1>1. a \in Nat \ {0} /\ IsFiniteSet(1 .. a) /\ Cardinality(1 .. a) = a
  BY FS_Interval
<1>2. IsFiniteSet(M \cap 1 .. a) /\ Cardinality(M \cap 1 .. a) <= a
  BY <1>1, FS_Subset
<1>3. Cardinality(M \cap 1 .. a) \in Nat /\ M \cap 1 .. a # {}
  BY <1>1, <1>2, FS_CardinalityType
<1>4. Cardinality(M \cap 1 .. a) # 0
  BY <1>2, <1>3, FS_EmptySet
<1>. QED
  BY <1>1, <1>2, <1>3, <1>4

\* The lowest object goes to the first place that is left, and the others go
\* where they did.
LEMMA LowestFirst ==
  ASSUME NEW M \in SUBSET Obj, NEW h \in M, \A x \in M : x >= h
  PROVE  /\ Cardinality(M \cap 1 .. h) = 1
         /\ Cardinality(M \ {h}) = Cardinality(M) - 1
         /\ \A g \in M \ {h} :
              Cardinality((M \ {h}) \cap 1 .. g) = Cardinality(M \cap 1 .. g) - 1
<1>1. M \cap 1 .. h = {h}
  OBVIOUS
<1>2. \A S \in SUBSET Obj : IsFiniteSet(S)
  BY HeapSize
<1>3. ASSUME NEW S \in SUBSET Obj, h \in S
      PROVE  Cardinality(S \ {h}) = Cardinality(S) - 1
  BY <1>2, <1>3, FS_RemoveElement
<1>4. ASSUME NEW g \in M \ {h}
      PROVE  Cardinality((M \ {h}) \cap 1 .. g) = Cardinality(M \cap 1 .. g) - 1
  <2>1. (M \ {h}) \cap 1 .. g = (M \cap 1 .. g) \ {h}
    OBVIOUS
  <2>2. h \in M \cap 1 .. g
    OBVIOUS
  <2>3. M \cap 1 .. g \in SUBSET Obj
    OBVIOUS
  <2>. QED
    BY <1>3, <2>1, <2>2, <2>3
<1>. QED
  BY <1>1, <1>3, <1>4, FS_Singleton

\* The threshold stays within the capacity.
LEMMA ThresholdBounded ==
  ASSUME NEW n \in 0 .. Capacity
  PROVE  NextThreshold(n) \in 0 .. Capacity
BY DEF NextThreshold

(***************************************************************************)
(* Steps                                                                   *)
(***************************************************************************)

\* A collection begins with the roots on the worklist.
LEMMA BeginIInv ==
  ASSUME IInv, pc \in {"run", "take"}, NEW ret \in {"run", "take", "retry"}, Begin(ret),
         worth' \in BOOLEAN
  PROVE  IInv'
<1>1. /\ UNCHANGED lockstepVars /\ UNCHANGED <<top, after, marked, forward, at, threshold, thrashing, still>>
      /\ pc' = "mark" /\ then' = ret /\ worklist' = InSomeOrder(RootRefs)
  BY DEF Begin, headers, pacing
<1>2. LockstepTypeOK' /\ Faithful' /\ LiveAddresses' \subseteq Used' /\ RootRefs' = RootRefs
      /\ LiveAddresses' = LiveAddresses
  BY <1>1, SameHeap DEF IInv, TypeOK, HeapIsModel, Used
<1>3. RootRefs \in SUBSET Obj /\ RootRefs \subseteq LiveAddresses
  BY Lives DEF IInv, TypeOK
<1>4. worklist' \in Seq(Obj) /\ Entries(worklist') = RootRefs
  BY <1>1, <1>3, OrderOf
<1>5. TypeOK'
  BY <1>1, <1>2, <1>4 DEF IInv, TypeOK
<1>6. GlobalsBound'
  BY <1>1 DEF IInv, GlobalsBound, lockstepVars, modelState
<1>7. HeadersAreClean'
  BY <1>1 DEF IInv, HeadersAreClean
<1>8. MarkingIsExact'
  <2>1. marked' = {}
    BY <1>1 DEF IInv, HeadersAreClean
  <2>. QED
    BY <1>2, <1>3, <1>4, <2>1 DEF MarkingIsExact
<1>. QED
  BY <1>1, <1>2, <1>5, <1>6, <1>7, <1>8
     DEF IInv, HeapIsModel, SlidingIsExact, UpdatingIsRight, MovingIsRight, OnlyUnmovedGoStale

\* A turn of marking moves an object from the worklist to the marks.
LEMMA MarkTurnIInv ==
  ASSUME IInv, MarkTurn
  PROVE  IInv'
<1>. DEFINE h == worklist[Len(worklist)]
            rest == SubSeq(worklist, 1, Len(worklist) - 1)
            kids == Children(refs, h) \ marked'
<1>1. /\ pc = "mark" /\ pc' = "mark" /\ worklist \in Seq(Obj) /\ worklist # <<>>
      /\ marked' = marked \cup {h}
      /\ worklist' = IF h \in marked THEN rest ELSE rest \o InSomeOrder(kids)
      /\ UNCHANGED lockstepVars
      /\ UNCHANGED <<top, after, forward, at, threshold, thrashing, then, worth, still>>
  BY DEF MarkTurn, pacing, IInv, TypeOK
<1>2. /\ LockstepTypeOK' /\ Faithful' /\ LiveAddresses' \subseteq Used' /\ RootRefs' = RootRefs
      /\ LiveAddresses' = LiveAddresses
  BY <1>1, SameHeap DEF IInv, TypeOK, HeapIsModel, Used
<1>3. /\ rest \in Seq(Obj) /\ h \in Obj
      /\ Entries(worklist) = Entries(rest) \cup {h}
  BY <1>1, PoppedEntry
<1>4. refs' = refs /\ \A o \in Obj : Children(refs, o) \in SUBSET Obj
  BY <1>1 DEF IInv, TypeOK, LockstepTypeOK, Children, Ref, lockstepVars
<1>5. kids \in SUBSET Obj
  BY <1>3, <1>4
<1>6. worklist' \in Seq(Obj)
      /\ Entries(worklist') = Entries(rest) \cup (IF h \in marked THEN {} ELSE kids)
  <2>1. InSomeOrder(kids) \in Seq(Obj) /\ Entries(InSomeOrder(kids)) = kids
    BY <1>5, OrderOf
  <2>2. worklist' = IF h \in marked THEN rest ELSE rest \o InSomeOrder(kids)
    BY <1>1
  <2>. HIDE DEF h, rest, kids
  <2>3. CASE h \in marked
    BY <1>3, <2>2, <2>3
  <2>4. CASE h \notin marked
    BY <1>3, <2>1, <2>2, <2>4, EntriesOfConcat
  <2>. QED
    BY <2>3, <2>4
<1>7. kids = Children(refs, h) \ marked'
  OBVIOUS
<1>. HIDE DEF h, rest, kids
<1>8. TypeOK'
  BY <1>1, <1>2, <1>3, <1>6 DEF IInv, TypeOK
<1>9. GlobalsBound'
  BY <1>1 DEF IInv, GlobalsBound, lockstepVars, modelState
<1>10. HeadersAreClean'
  BY <1>1 DEF IInv, HeadersAreClean
<1>11. MarkingIsExact'
  <2>1. /\ RootRefs \subseteq marked \cup Entries(worklist)
        /\ \A o \in marked : Children(refs, o) \subseteq marked \cup Entries(worklist)
        /\ marked \cup Entries(worklist) \subseteq LiveAddresses
    BY <1>1 DEF IInv, MarkingIsExact
  <2>2. marked' \cup Entries(worklist')
          = marked \cup Entries(worklist) \cup (IF h \in marked THEN {} ELSE Children(refs, h))
    BY <1>1, <1>3, <1>6, <1>7
  <2>3. h \in LiveAddresses /\ Children(refs, h) \subseteq LiveAddresses
    BY <1>3, <2>1, Lives DEF IInv, TypeOK
  <2>4. \A o \in marked' : Children(refs, o) \subseteq marked' \cup Entries(worklist')
    BY <1>1, <2>1, <2>2
  <2>. QED
    BY <1>2, <1>4, <2>1, <2>2, <2>3, <2>4 DEF MarkingIsExact
<1>. QED
  BY <1>1, <1>2, <1>8, <1>9, <1>10, <1>11
     DEF IInv, HeapIsModel, SlidingIsExact, UpdatingIsRight, MovingIsRight, OnlyUnmovedGoStale

\* When marking is over, the forwarding addresses are those of a slide.
LEMMA ForwardingIInv ==
  ASSUME IInv, ComputeForwarding
  PROVE  IInv'
<1>1. /\ pc = "mark" /\ pc' = "update" /\ at' = 1 /\ worklist = <<>>
      /\ forward' = [a \in Obj |-> IF a \in marked THEN Destination(a) ELSE forward[a]]
      /\ after' = Cardinality(marked)
      /\ still' = {a \in marked : Destination(a) = a}
      /\ UNCHANGED lockstepVars
      /\ UNCHANGED <<top, marked, worklist, threshold, thrashing, then, worth>>
  BY DEF ComputeForwarding, pacing
<1>2. LockstepTypeOK /\ LockstepTypeOK' /\ LiveIds' = LiveIds
  BY <1>1, SameHeap DEF IInv, TypeOK
<1>3. Faithful /\ LiveAddresses \subseteq Used
  BY <1>1 DEF IInv, HeapIsModel
<1>4. marked = LiveAddresses
  <2>1. Entries(worklist) = {}
    BY <1>1 DEF Entries
  <2>2. /\ RootRefs \subseteq marked /\ marked \subseteq LiveAddresses /\ marked \in SUBSET Obj
        /\ \A h \in marked : Children(refs, h) \subseteq marked
    BY <1>1, <2>1 DEF IInv, MarkingIsExact, TypeOK
  <2>. QED
    BY <1>2, <2>2, Lives
<1>5. /\ marked \in SUBSET Obj /\ marked' = marked /\ Cardinality(marked) \in 0 .. Capacity
      /\ \A a \in marked : Destination(a) \in 1 .. a
      /\ forward = [a \in Obj |-> Null]
  BY <1>1, HeapSize, SlidesDown DEF IInv, TypeOK, HeadersAreClean, Destination
<1>6. \A a \in Obj : forward'[a] = IF a \in marked THEN Destination(a) ELSE Null
  BY <1>1, <1>5
<1>7. forward' \in [Obj -> Ref]
  <2>1. \A a \in marked : Destination(a) \in Ref
    BY <1>5 DEF Ref
  <2>. QED
    BY <1>1, <1>5, <2>1 DEF Ref
<1>8. TypeOK'
  <2>1. after' \in 0 .. Capacity /\ at' \in 0 .. Capacity + 1
    BY <1>1, <1>5
  <2>2. still' \subseteq marked
    BY <1>1
  <2>3. still' \subseteq Obj
    BY <1>5, <2>2
  <2>. QED
    BY <1>1, <1>2, <1>5, <1>7, <2>1, <2>3 DEF IInv, TypeOK
<1>9. GlobalsBound'
  BY <1>1 DEF IInv, GlobalsBound, lockstepVars, modelState
<1>10. Moved' = 0
  BY <1>1, <1>5 DEF Moved
<1>11. SlidingIsExact'
  <2>1. LiveIds = {stamp[a] : a \in marked}
    BY <1>2, <1>3, <1>4, StampsAreLive DEF Faithful
  <2>2. after' = Cardinality(LiveIds)
    BY <1>1, <1>3, <1>4, <1>5, <2>1, StampCount DEF Faithful
  <2>3. stamp' = stamp /\ top' = top /\ Used' = Used
    BY <1>1 DEF lockstepVars, Used
  <2>4. {stamp'[a] : a \in 1 .. Moved'} \cup {stamp'[a] : a \in marked'} = LiveIds'
    BY <1>2, <1>5, <1>10, <2>1, <2>3
  <2>5. \A a \in Obj : forward'[a] = IF a \in marked' THEN Moved' + Destination(a)' ELSE Null
    BY <1>5, <1>6, <1>10 DEF Destination
  <2>6. \A a \in marked' : a \in still' <=> forward'[a] = a
    BY <1>1, <1>5, <1>6
  <2>. QED
    BY <1>1, <1>2, <1>3, <1>4, <1>5, <1>10, <2>2, <2>3, <2>4, <2>5, <2>6 DEF SlidingIsExact
<1>12. UpdatingIsRight'
  <2>1. /\ stack' = stack /\ globals' = globals /\ refs' = refs /\ stamp' = stamp
        /\ mStack' = mStack /\ mGlobals' = mGlobals /\ mRefs' = mRefs
    BY <1>1 DEF lockstepVars, modelState
  <2>2. \A i \in DOMAIN stack : Stays(stack[i], mStack[i])'
    BY <1>2, <1>3, <1>4, <1>5, <2>1, Places, Lives DEF Stays, Means, Faithful, PathsAgree
  <2>3. \A n \in Name : Stays(globals[n], mGlobals[n])'
    BY <1>2, <1>3, <1>4, <1>5, <2>1, Places, Lives DEF Stays, Means, Faithful, PathsAgree
  <2>4. ASSUME NEW h \in marked, NEW i \in Slot
        PROVE  Stays(refs[h][i], mRefs[stamp[h]][i])'
    <3>1. Means(refs[h][i], mRefs[stamp[h]][i])
      BY <1>3, <1>4 DEF Faithful, PathsAgree
    <3>2. refs[h][i] # Null => refs[h][i] \in marked
      BY <1>2, <1>4, Lives DEF Children
    <3>. QED
      BY <1>5, <2>1, <3>1, <3>2 DEF Stays, Means
  <2>5. \A h \in marked : ~ (h < at')
    BY <1>1, <1>5
  <2>. QED
    BY <1>1, <1>5, <1>10, <2>1, <2>2, <2>3, <2>4, <2>5 DEF UpdatingIsRight
<1>. QED
  BY <1>1, <1>8, <1>9, <1>11, <1>12
     DEF IInv, HeapIsModel, HeadersAreClean, MarkingIsExact, MovingIsRight, OnlyUnmovedGoStale

\* What is known of the survivors while they are being slid.
LEMMA Slid ==
  ASSUME IInv, pc \in {"update", "move"}
  PROVE  /\ marked \in SUBSET Obj /\ marked \subseteq 1 .. top
         /\ Moved \in Nat /\ Moved <= at - 1 /\ Moved <= Capacity /\ at \in 1 .. Capacity + 1
         /\ \A a \in marked : Destination(a) \in 1 .. a
         /\ \A a \in marked : forward[a] = Moved + Destination(a) /\ forward[a] # Null
         /\ \A a \in marked : stamp[a] \in LiveIds
         /\ \A d \in 1 .. Moved : stamp[d] \in LiveIds /\ d \in Obj
         /\ LiveIds \subseteq Id
         /\ \A r \in Ref : Forwarded(r) \in Ref
<1>1. /\ marked \in SUBSET Obj /\ Moved \in 0 .. (at - 1) /\ at \in 1 .. Capacity + 1
      /\ marked \subseteq 1 .. top
      /\ \A a \in Obj : forward[a] = IF a \in marked THEN Moved + Destination(a) ELSE Null
      /\ {stamp[a] : a \in 1 .. Moved} \cup {stamp[a] : a \in marked} = LiveIds
      /\ forward \in [Obj -> Ref]
  BY DEF IInv, SlidingIsExact, TypeOK, Used
<1>2. \A a \in marked : Destination(a) \in 1 .. a
  BY <1>1, SlidesDown DEF Destination
<1>3. \A a \in marked : forward[a] = Moved + Destination(a) /\ forward[a] # Null
  <2>1. ASSUME NEW a \in marked
        PROVE  forward[a] \in Nat
    BY <1>1, <1>2
  <2>2. ASSUME NEW a \in marked
        PROVE  forward[a] \in Obj
    <3>1. forward[a] = Moved + Destination(a) /\ Destination(a) \in 1 .. a /\ a \in Nat
      BY <1>1, <1>2
    <3>2. after \in 0 .. Capacity /\ Cardinality(marked) \in Nat
      BY <1>1, HeapSize DEF IInv, TypeOK
    <3>3. Destination(a) <= Cardinality(marked)
      <4>1. marked \cap 1 .. a \in SUBSET marked /\ IsFiniteSet(marked)
        BY <1>1, HeapSize
      <4>. QED
        BY ONLY <4>1, FS_Subset DEF Destination
    <3>4. forward[a] <= after /\ forward[a] >= 1
      BY <1>1, <3>1, <3>2, <3>3 DEF Moved
    <3>. QED
      BY <1>1, <3>1, <3>2, <3>4
  <2>. QED
    BY <1>1, <2>2, NullAssumption
<1>4. \A r \in Ref : Forwarded(r) \in Ref
  BY <1>1 DEF Forwarded, Ref
<1>5. LiveIds \subseteq Id
  BY Lives DEF IInv, TypeOK
<1>6. Moved <= Capacity
  BY <1>1
<1>. QED
  BY <1>1, <1>2, <1>3, <1>4, <1>5, <1>6

\* A reference to a survivor, forwarded, leads to it.
LEMMA ForwardedLeads ==
  ASSUME IInv, pc \in {"update", "move"}, NEW r \in Ref, NEW d \in IdRef, Stays(r, d)
  PROVE  Leads(Forwarded(r), d)
<1>1. CASE d = Null
  BY <1>1 DEF Stays, Means, Leads, Forwarded
<1>2. CASE d # Null
  <2>1. r # Null /\ stamp[r] = d /\ r \in marked
    BY <1>2 DEF Stays, Means
  <2>2. Forwarded(r) = forward[r] /\ forward[r] # Null
    BY <2>1, Slid DEF Forwarded
  <2>. QED
    BY <1>2, <2>1, <2>2 DEF Leads, Located
<1>. QED
  BY <1>1, <1>2

\* An object's references are rewritten, or it is passed over.
LEMMA UpdateObjectIInv ==
  ASSUME IInv, UpdateObject
  PROVE  IInv'
<1>1. /\ pc = "update" /\ pc' = "update" /\ at <= top /\ at' = at + 1
      /\ refs' = IF Rewrites(at) THEN [refs EXCEPT ![at] = [i \in Slot |-> Forwarded(@[i])]]
                 ELSE refs
      /\ stack' = stack /\ globals' = globals /\ stamp' = stamp
      /\ mStack' = mStack /\ mGlobals' = mGlobals /\ mRefs' = mRefs
      /\ UNCHANGED <<top, after, marked, forward, worklist, threshold, thrashing, then, worth,
                     still>>
  BY DEF UpdateObject, roots, modelState, headers, pacing
<1>2. /\ marked \in SUBSET Obj /\ at \in Obj /\ top \in 0 .. Capacity
      /\ refs \in [Obj -> [Slot -> Ref]] /\ mRefs \in [Id -> [Slot -> IdRef]]
  BY <1>1, Slid DEF IInv, TypeOK, LockstepTypeOK, IdRef
<1>3. /\ refs' \in [Obj -> [Slot -> Ref]]
      /\ \A h \in Obj, i \in Slot :
           refs'[h][i] = IF h = at /\ Rewrites(at) THEN Forwarded(refs[h][i]) ELSE refs[h][i]
  <2>1. \A i \in Slot : Forwarded(refs[at][i]) \in Ref
    BY <1>1, <1>2, Slid
  <2>. QED
    BY <1>1, <1>2, <2>1
<1>4. LockstepTypeOK'
  BY <1>1, <1>3 DEF IInv, TypeOK, LockstepTypeOK, RootsTypeOK
<1>5. TypeOK'
  <2>1. at' \in 0 .. Capacity + 1
    BY <1>1, <1>2
  <2>. QED
    BY <1>1, <1>4, <2>1 DEF IInv, TypeOK
<1>6. LiveIds' = LiveIds
  BY <1>1, SameModel DEF modelState
<1>7. Moved' = Moved /\ \A a : Destination(a)' = Destination(a)
  BY <1>1 DEF Moved, Destination
<1>8. SlidingIsExact'
  <2>1. at' >= 1 /\ Moved' \in 0 .. (at' - 1)
    BY <1>1, <1>2, <1>7, Slid
  <2>. QED
    BY <1>1, <1>6, <1>7, <2>1 DEF IInv, SlidingIsExact, Used
<1>9. \A d, id : Located(d, id)' <=> Located(d, id)
  BY <1>1, <1>7 DEF Located
<1>10. UpdatingIsRight'
  <2>1. /\ Moved = 0
        /\ \A i \in DOMAIN stack : Stays(stack[i], mStack[i])
        /\ \A n \in Name : Stays(globals[n], mGlobals[n])
        /\ \A h \in marked, i \in Slot :
             IF h < at /\ forward[h] # h THEN Leads(refs[h][i], mRefs[stamp[h]][i])
             ELSE Stays(refs[h][i], mRefs[stamp[h]][i])
    BY <1>1 DEF IInv, UpdatingIsRight
  <2>2. /\ \A i \in DOMAIN stack' : Stays(stack[i], mStack[i])'
        /\ \A n \in Name : Stays(globals[n], mGlobals[n])'
    BY <1>1, <2>1 DEF Stays, Means
  <2>3. ASSUME NEW h \in marked, NEW i \in Slot
        PROVE  IF h < at' /\ forward[h] # h THEN Leads(refs'[h][i], mRefs[stamp[h]][i])
               ELSE Stays(refs'[h][i], mRefs[stamp[h]][i])
    <3>1. CASE h = at /\ Rewrites(at)
      <4>1. Stays(refs[h][i], mRefs[stamp[h]][i])
        BY <1>2, <2>1, <3>1
      <4>2. refs[h][i] \in Ref /\ mRefs[stamp[h]][i] \in IdRef
        BY <1>1, <1>2, Slid
      <4>3. Leads(Forwarded(refs[h][i]), mRefs[stamp[h]][i])
        BY <1>1, <4>1, <4>2, ForwardedLeads
      <4>4. h < at' /\ forward[h] # h
        BY <1>1, <1>2, <3>1 DEF Rewrites
      <4>. QED
        BY <1>2, <1>3, <3>1, <4>3, <4>4
    <3>2. CASE ~ (h = at /\ Rewrites(at))
      <4>1. refs'[h][i] = refs[h][i]
        BY <1>2, <1>3, <3>2
      <4>2. h < at' /\ forward[h] # h <=> h < at /\ forward[h] # h
        BY <1>1, <1>2, <3>2 DEF Rewrites
      <4>. QED
        BY <2>1, <4>1, <4>2
    <3>. QED
      BY <3>1, <3>2
  <2>4. \A h \in marked', i \in Slot :
          IF h < at' /\ forward'[h] # h THEN Leads(refs[h][i], mRefs[stamp[h]][i])'
          ELSE Stays(refs[h][i], mRefs[stamp[h]][i])'
    BY <1>1, <1>9, <2>3 DEF Leads, Stays, Means
  <2>. QED
    BY <1>7, <2>1, <2>2, <2>4 DEF UpdatingIsRight
<1>. QED
  BY <1>1, <1>5, <1>8, <1>10
     DEF IInv, GlobalsBound, HeapIsModel, HeadersAreClean, MarkingIsExact, MovingIsRight,
         OnlyUnmovedGoStale

\* The roots are rewritten, and the sliding begins.
LEMMA UpdateRootsIInv ==
  ASSUME IInv, UpdateRoots
  PROVE  IInv'
<1>1. /\ pc = "update" /\ pc' = "move" /\ at > top /\ at' = 1
      /\ stack' = [i \in DOMAIN stack |-> Forwarded(stack[i])]
      /\ globals' = [n \in Name |-> Forwarded(globals[n])]
      /\ refs' = refs /\ stamp' = stamp
      /\ mStack' = mStack /\ mGlobals' = mGlobals /\ mRefs' = mRefs
      /\ UNCHANGED <<top, after, marked, forward, worklist, threshold, thrashing, then, worth,
                     still>>
  BY DEF UpdateRoots, modelState, headers, pacing
<1>2. /\ stack \in Seq(Ref) /\ Len(stack) <= MaxDepth /\ Len(stack) \in Nat
      /\ DOMAIN stack = 1 .. Len(stack) /\ \A i \in DOMAIN stack : stack[i] \in Ref
      /\ globals \in [Name -> Ref] /\ top \in 0 .. Capacity
      /\ \A r \in Ref : Forwarded(r) \in Ref
  BY <1>1, Slid DEF IInv, TypeOK, LockstepTypeOK, RootsTypeOK
<1>3. /\ stack' \in Seq(Ref) /\ Len(stack') <= MaxDepth /\ DOMAIN stack' = DOMAIN stack
      /\ \A i \in DOMAIN stack : stack'[i] = Forwarded(stack[i])
  <2>1. stack' = [i \in 1 .. Len(stack) |-> Forwarded(stack[i])]
    BY <1>1, <1>2
  <2>2. \A i \in 1 .. Len(stack) : Forwarded(stack[i]) \in Ref
    BY <1>2
  <2>3. stack' \in [1 .. Len(stack) -> Ref]
    BY <2>1, <2>2
  <2>4. stack' \in Seq(Ref) /\ Len(stack') = Len(stack)
    BY <1>2, <2>3
  <2>. QED
    BY <1>2, <2>1, <2>4
<1>4. globals' \in [Name -> Ref] /\ \A n \in Name : globals'[n] = Forwarded(globals[n])
  BY <1>1, <1>2
<1>5. LockstepTypeOK'
  BY <1>1, <1>3, <1>4 DEF IInv, TypeOK, LockstepTypeOK, RootsTypeOK
<1>6. TypeOK'
  <2>1. at' \in 0 .. Capacity + 1
    BY <1>1
  <2>. QED
    BY <1>1, <1>5, <2>1 DEF IInv, TypeOK
<1>7. GlobalsBound'
  BY <1>1, <1>4 DEF IInv, GlobalsBound, Forwarded
<1>8. LiveIds' = LiveIds
  BY <1>1, SameModel DEF modelState
<1>9. Moved' = Moved /\ \A a : Destination(a)' = Destination(a)
  BY <1>1 DEF Moved, Destination
<1>10. /\ Moved = 0
       /\ \A i \in DOMAIN stack : Stays(stack[i], mStack[i])
       /\ \A n \in Name : Stays(globals[n], mGlobals[n])
       /\ \A h \in marked, i \in Slot :
            IF h < at /\ forward[h] # h THEN Leads(refs[h][i], mRefs[stamp[h]][i])
            ELSE Stays(refs[h][i], mRefs[stamp[h]][i])
  BY <1>1 DEF IInv, UpdatingIsRight
<1>11. SlidingIsExact'
  <2>1. at' >= 1 /\ Moved' \in 0 .. (at' - 1)
    BY <1>1, <1>9, <1>10
  <2>. QED
    BY <1>1, <1>8, <1>9, <2>1 DEF IInv, SlidingIsExact, Used
<1>12. \A r, id : Leads(r, id)' <=> Leads(r, id)
  BY <1>1, <1>9 DEF Located, Leads
<1>13. MovingIsRight'
  <2>1. ASSUME NEW i \in DOMAIN stack
        PROVE  Leads(Forwarded(stack[i]), mStack[i])
    BY <1>1, <1>2, <1>10, Places, ForwardedLeads DEF IInv, TypeOK
  <2>2. ASSUME NEW n \in Name
        PROVE  Leads(Forwarded(globals[n]), mGlobals[n])
    BY <1>1, <1>2, <1>10, Places, ForwardedLeads DEF IInv, TypeOK
  <2>3. ASSUME NEW h \in marked, NEW i \in Slot, forward[h] # h
        PROVE  Leads(refs[h][i], mRefs[stamp[h]][i])
    <3>1. h < at
      BY <1>1, <1>2, Slid
    <3>. QED
      BY <1>10, <2>3, <3>1
  <2>4. marked' \subseteq at' .. top' /\ 1 .. Moved' = {}
    BY <1>1, <1>9, <1>10, Slid
  <2>5. /\ \A i \in DOMAIN stack' : Leads(stack[i], mStack[i])'
        /\ \A n \in Name : Leads(globals[n], mGlobals[n])'
        /\ \A h \in marked', i \in Slot :
             forward'[h] # h => Leads(refs[h][i], mRefs[stamp[h]][i])'
    <3>1. \A i \in DOMAIN stack' : Leads(stack'[i], mStack'[i])
      BY <1>1, <1>3, <2>1
    <3>2. \A n \in Name : Leads(globals'[n], mGlobals'[n])
      BY <1>1, <1>4, <2>2
    <3>3. \A h \in marked', i \in Slot :
             forward'[h] # h => Leads(refs'[h][i], mRefs'[stamp'[h]][i])
      BY <1>1, <2>3
    <3>. QED
      BY <1>1, <1>9, <3>1, <3>2, <3>3 DEF Leads, Located
  <2>. QED
    BY <2>4, <2>5 DEF MovingIsRight
<1>. QED
  BY <1>1, <1>6, <1>7, <1>11, <1>13
     DEF IInv, HeapIsModel, HeadersAreClean, MarkingIsExact, UpdatingIsRight, OnlyUnmovedGoStale

\* What is no survivor is passed over.
LEMMA PassIInv ==
  ASSUME IInv, MoveObject, at \notin marked
  PROVE  IInv'
<1>1. /\ pc = "move" /\ pc' = "move" /\ at <= top /\ at' = at + 1
      /\ refs' = [refs EXCEPT ![at] = refs[at]] /\ stamp' = [stamp EXCEPT ![at] = stamp[at]]
      /\ marked' = marked \ {at} /\ forward' = [forward EXCEPT ![at] = Null]
      /\ stack' = stack /\ globals' = globals
      /\ mStack' = mStack /\ mGlobals' = mGlobals /\ mRefs' = mRefs
      /\ UNCHANGED <<top, after, worklist, threshold, thrashing, then, worth, still>>
  BY DEF MoveObject, NextToMove, roots, modelState, pacing
<1>2. /\ refs \in [Obj -> [Slot -> Ref]] /\ stamp \in [Obj -> IdRef] /\ forward \in [Obj -> Ref]
      /\ at \in Obj /\ top \in 0 .. Capacity /\ forward[at] = Null
  <2>1. /\ refs \in [Obj -> [Slot -> Ref]] /\ stamp \in [Obj -> IdRef] /\ forward \in [Obj -> Ref]
        /\ top \in 0 .. Capacity
    BY DEF IInv, TypeOK, LockstepTypeOK, IdRef
  <2>2. at \in Obj
    BY <1>1, <2>1, Slid
  <2>3. forward[at] = Null
    BY <1>1, <2>2 DEF IInv, SlidingIsExact
  <2>. QED
    BY <2>1, <2>2, <2>3
<1>3. refs' = refs /\ stamp' = stamp /\ forward' = forward /\ marked' = marked
  BY <1>1, <1>2
<1>4. TypeOK'
  <2>1. at' \in 0 .. Capacity + 1
    BY <1>1, <1>2
  <2>2. LockstepTypeOK'
    BY <1>1, <1>3 DEF IInv, TypeOK, LockstepTypeOK, RootsTypeOK
  <2>. QED
    BY <1>1, <1>3, <2>1, <2>2 DEF IInv, TypeOK
<1>5. LiveIds' = LiveIds
  BY <1>1, SameModel DEF modelState
<1>6. Moved' = Moved /\ \A a : Destination(a)' = Destination(a)
  BY <1>1, <1>3 DEF Moved, Destination
<1>7. SlidingIsExact'
  <2>1. at' >= 1 /\ Moved' \in 0 .. (at' - 1)
    BY <1>1, <1>2, <1>6, Slid
  <2>. QED
    BY <1>1, <1>3, <1>5, <1>6, <2>1 DEF IInv, SlidingIsExact, Used
<1>8. MovingIsRight'
  <2>1. marked \subseteq at .. top
    BY <1>1 DEF IInv, MovingIsRight
  <2>2. marked' \subseteq at' .. top'
    BY <1>1, <1>2, <1>3, <2>1
  <2>. QED
    BY <1>1, <1>3, <1>6, <2>2 DEF IInv, MovingIsRight, Leads, Located
<1>. QED
  BY <1>1, <1>3, <1>4, <1>7, <1>8
     DEF IInv, GlobalsBound, HeapIsModel, HeadersAreClean, MarkingIsExact, UpdatingIsRight,
         OnlyUnmovedGoStale

\* A survivor is moved to the first place that is not taken, which no survivor
\* that has still to be moved is at.
LEMMA MoveIInv ==
  ASSUME IInv, MoveObject, at \in marked
  PROVE  IInv'
<1>. DEFINE d == Moved + 1
<1>1. /\ pc = "move" /\ pc' = "move" /\ at <= top /\ at' = at + 1
      /\ refs' = [refs EXCEPT ![forward[at]] = refs[at]]
      /\ stamp' = [stamp EXCEPT ![forward[at]] = stamp[at]]
      /\ marked' = marked \ {at} /\ forward' = [forward EXCEPT ![at] = Null]
      /\ stack' = stack /\ globals' = globals
      /\ mStack' = mStack /\ mGlobals' = mGlobals /\ mRefs' = mRefs
      /\ UNCHANGED <<top, after, worklist, threshold, thrashing, then, worth, still>>
  BY DEF MoveObject, NextToMove, roots, modelState, pacing
<1>2. /\ refs \in [Obj -> [Slot -> Ref]] /\ stamp \in [Obj -> IdRef] /\ forward \in [Obj -> Ref]
      /\ at \in Obj /\ top \in 0 .. Capacity /\ marked \in SUBSET Obj
      /\ Moved \in Nat /\ Moved <= at - 1
      /\ Cardinality(marked) \in Nat /\ after \in 0 .. Capacity
  BY <1>1, Slid, HeapSize DEF IInv, TypeOK, LockstepTypeOK, IdRef
<1>3. /\ marked \subseteq at .. top
      /\ \A i \in DOMAIN stack : Leads(stack[i], mStack[i])
      /\ \A n \in Name : Leads(globals[n], mGlobals[n])
      /\ \A h \in marked, i \in Slot :
           forward[h] # h => Leads(refs[h][i], mRefs[stamp[h]][i])
      /\ \A e \in (1 .. Moved) \ still, i \in Slot : Leads(refs[e][i], mRefs[stamp[e]][i])
  BY <1>1 DEF IInv, MovingIsRight
<1>4. /\ Destination(at) = 1 /\ Cardinality(marked') = Cardinality(marked) - 1
      /\ \A g \in marked' : Destination(g)' = Destination(g) - 1
  <2>1. \A x \in marked : x >= at
    BY <1>2, <1>3
  <2>2. /\ Cardinality(marked \cap 1 .. at) = 1
        /\ Cardinality(marked \ {at}) = Cardinality(marked) - 1
        /\ \A g \in marked \ {at} :
             Cardinality((marked \ {at}) \cap 1 .. g) = Cardinality(marked \cap 1 .. g) - 1
    BY <1>2, <2>1, LowestFirst
  <2>. QED
    BY <1>1, <2>2 DEF Destination
<1>5. Moved' = d
  BY <1>1, <1>2, <1>4 DEF Moved
<1>6. forward[at] = d /\ d \in Obj /\ d <= at
  BY <1>1, <1>2, <1>4, Slid
<1>. HIDE DEF d
<1>7. /\ refs' \in [Obj -> [Slot -> Ref]] /\ stamp' \in [Obj -> IdRef]
      /\ forward' \in [Obj -> Ref]
      /\ \A h \in Obj : refs'[h] = IF h = d THEN refs[at] ELSE refs[h]
      /\ \A h \in Obj : stamp'[h] = IF h = d THEN stamp[at] ELSE stamp[h]
      /\ \A h \in Obj : forward'[h] = IF h = at THEN Null ELSE forward[h]
  BY <1>1, <1>2, <1>6 DEF Ref
<1>8. /\ \A g \in marked' : g \in Obj /\ g \in marked /\ g # d /\ g # at /\ g > at
      /\ \A e \in 1 .. Moved : e \in Obj /\ e # d
      /\ \A e : e \in 1 .. Moved' <=> e \in 1 .. Moved \/ e = d
  <2>1. ASSUME NEW g \in marked'
        PROVE  g \in Obj /\ g \in marked /\ g # d /\ g # at /\ g > at
    <3>1. g \in marked /\ g # at
      BY <1>1
    <3>2. g \in Obj /\ g \in at .. top
      BY <1>2, <1>3, <3>1
    <3>. QED
      BY <1>2, <1>6, <3>1, <3>2
  <2>2. d = Moved + 1
    BY DEF d
  <2>3. \A e \in 1 .. Moved : e \in Obj /\ e # d
    BY <1>1, <1>2, <2>2, Slid
  <2>4. \A e : e \in 1 .. Moved' <=> e \in 1 .. Moved \/ e = d
    BY <1>2, <1>5, <2>2
  <2>. QED
    BY <2>1, <2>3, <2>4
<1>9. TypeOK'
  <2>1. at' \in 0 .. Capacity + 1
    BY <1>1, <1>2
  <2>2. LockstepTypeOK'
    BY <1>1, <1>7 DEF IInv, TypeOK, LockstepTypeOK, RootsTypeOK, IdRef
  <2>. QED
    BY <1>1, <1>2, <1>7, <2>1, <2>2 DEF IInv, TypeOK
<1>10. LiveIds' = LiveIds
  BY <1>1, SameModel DEF modelState
<1>11. SlidingIsExact'
  <2>1. /\ marked \subseteq Used
        /\ after = Cardinality(LiveIds)
        /\ {stamp[a] : a \in 1 .. Moved} \cup {stamp[a] : a \in marked} = LiveIds
        /\ \A a \in Obj : forward[a] = IF a \in marked THEN Moved + Destination(a) ELSE Null
        /\ \A a \in marked : a \in still <=> forward[a] = a
    BY <1>1 DEF IInv, SlidingIsExact
  <2>2. at' >= 1 /\ Moved' \in 0 .. (at' - 1)
    BY <1>1, <1>2, <1>5, <1>6 DEF d
  <2>3. {stamp'[a] : a \in 1 .. Moved'} \cup {stamp'[a] : a \in marked'} = LiveIds
    <3>1. /\ \A a \in 1 .. Moved : stamp'[a] = stamp[a]
          /\ \A a \in marked' : stamp'[a] = stamp[a]
          /\ stamp'[d] = stamp[at]
      BY <1>6, <1>7, <1>8
    <3>2. \A a \in marked : a \in marked' \/ a = at
      BY <1>1
    <3>. HIDE <1>1
    <3>. QED
      BY <1>8, <2>1, <3>1, <3>2
  <2>4. ASSUME NEW a \in Obj
        PROVE  forward'[a] = IF a \in marked' THEN Moved' + Destination(a)' ELSE Null
    <3>1. CASE a \in marked'
      <4>1. forward'[a] = Moved + Destination(a) /\ Destination(a)' = Destination(a) - 1
        BY <1>4, <1>7, <1>8, <2>1, <3>1
      <4>2. Destination(a) \in Nat
        BY <1>1, <1>8, <3>1, Slid
      <4>. QED
        BY <1>2, <1>5, <3>1, <4>1, <4>2 DEF d
    <3>2. CASE a \notin marked'
      BY <1>1, <1>7, <2>1, <3>2
    <3>. QED
      BY <3>1, <3>2
  <2>5. \A a \in marked' : a \in still' <=> forward'[a] = a
    BY <1>1, <1>7, <1>8, <2>1
  <2>6. marked' \subseteq Used'
    BY <1>1, <2>1 DEF Used
  <2>. QED
    BY <1>1, <1>10, <2>1, <2>2, <2>3, <2>4, <2>5, <2>6 DEF SlidingIsExact
<1>. DEFINE NowLocated(r, id) == \/ r \in 1 .. Moved' /\ stamp'[r] = id
                                 \/ \E g \in marked' : forward'[g] = r /\ stamp'[g] = id
            NowLeads(r, id) == IF id = Null THEN r = Null ELSE r # Null /\ NowLocated(r, id)
<1>12. \A r, id : Leads(r, id) => NowLeads(r, id)
  <2>1. ASSUME NEW r, NEW id, Located(r, id)
        PROVE  NowLocated(r, id)
    <3>1. CASE r \in 1 .. Moved /\ stamp[r] = id
      BY <1>7, <1>8, <3>1
    <3>2. CASE \E g \in marked : forward[g] = r /\ stamp[g] = id
      <4>1. PICK g \in marked : forward[g] = r /\ stamp[g] = id
        BY <3>2
      <4>2. CASE g = at
        <5>1. r = d /\ stamp'[d] = id
          BY <1>6, <1>7, <4>1, <4>2
        <5>. QED
          BY <1>8, <5>1
      <4>3. CASE g # at
        <5>1. g \in marked' /\ forward'[g] = r /\ stamp'[g] = id
          BY <1>1, <1>7, <1>8, <4>1, <4>3
        <5>. QED
          BY <5>1
      <4>. QED
        BY <4>2, <4>3
    <3>. QED
      BY <2>1, <3>1, <3>2 DEF Located
  <2>. QED
    BY <2>1 DEF Leads
<1>13. MovingIsRight'
  <2>1. marked' \subseteq at' .. top'
    <3>1. ASSUME NEW g \in marked'
          PROVE  g \in at' .. top'
      <4>1. g \in at .. top /\ g # at /\ at \in Nat /\ top \in Nat
        BY <1>2, <1>3, <1>8, <3>1
      <4>. QED
        BY <1>1, <4>1
    <3>. QED
      BY <3>1
  <2>2. /\ \A i \in DOMAIN stack' : NowLeads(stack'[i], mStack'[i])
        /\ \A n \in Name : NowLeads(globals'[n], mGlobals'[n])
    <3>. HIDE DEF NowLeads
    <3>. QED
      BY <1>1, <1>3, <1>12
  <2>3. ASSUME NEW h \in marked', NEW i \in Slot, forward'[h] # h
        PROVE  NowLeads(refs'[h][i], mRefs'[stamp'[h]][i])
    <3>1. h \in marked /\ forward[h] # h /\ refs'[h] = refs[h] /\ stamp'[h] = stamp[h]
      BY <1>7, <1>8, <2>3
    <3>. HIDE DEF NowLeads
    <3>. QED
      BY <1>1, <1>3, <1>12, <3>1
  <2>4. ASSUME NEW e \in (1 .. Moved') \ still', NEW i \in Slot
        PROVE  NowLeads(refs'[e][i], mRefs'[stamp'[e]][i])
    <3>1. CASE e = d
      <4>1. refs'[e] = refs[at] /\ stamp'[e] = stamp[at]
        BY <1>6, <1>7, <3>1
      <4>2. at \in still <=> forward[at] = at
        BY <1>1 DEF IInv, SlidingIsExact
      <4>3. forward[at] # at
        BY <1>1, <1>6, <2>4, <3>1, <4>2
      <4>. HIDE DEF NowLeads
      <4>. QED
        BY <1>1, <1>3, <1>12, <4>1, <4>3
    <3>2. CASE e # d
      <4>1. e \in (1 .. Moved) \ still /\ refs'[e] = refs[e] /\ stamp'[e] = stamp[e]
        BY <1>1, <1>7, <1>8, <2>4, <3>2
      <4>. HIDE DEF NowLeads
      <4>. QED
        BY <1>1, <1>3, <1>12, <4>1
    <3>. QED
      BY <3>1, <3>2
  <2>5. /\ \A i \in DOMAIN stack' : Leads(stack[i], mStack[i])'
        /\ \A n \in Name : Leads(globals[n], mGlobals[n])'
        /\ \A h \in marked', i \in Slot :
             forward'[h] # h => Leads(refs[h][i], mRefs[stamp[h]][i])'
        /\ \A e \in (1 .. Moved') \ still', i \in Slot : Leads(refs[e][i], mRefs[stamp[e]][i])'
    BY <2>2, <2>3, <2>4 DEF Leads, Located
  <2>. QED
    BY <2>1, <2>5 DEF MovingIsRight
<1>. QED
  BY <1>1, <1>9, <1>11, <1>13
     DEF IInv, GlobalsBound, HeapIsModel, HeadersAreClean, MarkingIsExact, UpdatingIsRight,
         OnlyUnmovedGoStale

\* When the pass is over, every survivor has been moved.
LEMMA AllMoved ==
  ASSUME IInv, pc = "move", at > top
  PROVE  /\ marked = {} /\ forward = [a \in Obj |-> Null]
         /\ Moved = after /\ after = Cardinality(LiveIds)
         /\ {stamp[a] : a \in 1 .. after} = LiveIds
         /\ top \in 0 .. Capacity /\ after \in 0 .. Capacity
<1>1. /\ top \in 0 .. Capacity /\ after \in 0 .. Capacity /\ at \in 1 .. Capacity + 1
      /\ forward \in [Obj -> Ref] /\ marked \subseteq at .. top
  BY Slid DEF IInv, TypeOK, MovingIsRight
<1>2. marked = {}
  BY <1>1
<1>3. Moved = after
  BY <1>1, <1>2, FS_EmptySet DEF Moved
<1>4. /\ \A a \in Obj : forward[a] = Null
      /\ {stamp[a] : a \in 1 .. Moved} \cup {stamp[a] : a \in marked} = LiveIds
      /\ after = Cardinality(LiveIds)
  BY <1>2 DEF IInv, SlidingIsExact
<1>. QED
  BY <1>1, <1>2, <1>3, <1>4

\* The collection ends: with the program's graph, or with a heap of which all
\* is right but the fields of what did not move.
LEMMA FinishIInv ==
  ASSUME IInv, Finish
  PROVE  IInv'
<1>1. /\ pc = "move" /\ at > top /\ top' = after
      /\ threshold' = NextThreshold(after) /\ after' = 0 /\ at' = 0 /\ then' = "run"
      /\ stack' = stack /\ globals' = globals
      /\ mStack' = mStack /\ mGlobals' = mGlobals /\ mRefs' = mRefs
      /\ UNCHANGED <<marked, forward, worklist, worth>>
  BY DEF Finish, roots, modelState, headers
<1>2. /\ marked = {} /\ forward = [a \in Obj |-> Null]
      /\ Moved = after /\ after = Cardinality(LiveIds)
      /\ {stamp[a] : a \in 1 .. after} = LiveIds
      /\ top \in 0 .. Capacity /\ after \in 0 .. Capacity
  BY <1>1, AllMoved
<1>3. /\ threshold' \in 0 .. Capacity /\ top' \in 0 .. Capacity
      /\ after' \in 0 .. Capacity /\ at' \in 0 .. Capacity + 1
      /\ thrashing' \in 0 .. ThrashLimit
  <2>1. thrashing \in 0 .. ThrashLimit /\ ThrashLimit \in Nat
    BY DEF IInv, TypeOK
  <2>2. thrashing' \in 0 .. ThrashLimit
    BY <2>1 DEF Finish
  <2>. QED
    BY <1>1, <1>2, <2>2, ThresholdBounded
<1>4. GlobalsBound'
  BY <1>1 DEF IInv, GlobalsBound
<1>5. CASE Faithful /\ LiveAddresses \subseteq 1 .. after
  <2>1. /\ pc' = then /\ still' = {}
        /\ refs' = [a \in Obj |-> IF a > after THEN Blank ELSE refs[a]]
        /\ stamp' = [a \in Obj |-> IF a > after THEN Null ELSE stamp[a]]
    BY <1>5 DEF Finish
  <2>2. LockstepTypeOK' /\ Faithful' /\ LiveAddresses' = LiveAddresses
    <3>1. /\ LockstepTypeOK /\ refs \in [Obj -> [Slot -> Ref]] /\ stamp \in [Obj -> IdRef]
          /\ Blank \in [Slot -> Ref]
      BY DEF IInv, TypeOK, LockstepTypeOK, IdRef, Blank, Ref
    <3>2. refs' \in [Obj -> [Slot -> Ref]] /\ stamp' \in [Obj -> IdRef]
      BY <2>1, <3>1 DEF IdRef
    <3>3. \A h \in LiveAddresses : refs'[h] = refs[h] /\ stamp'[h] = stamp[h]
      BY <1>2, <1>5, <2>1, <3>1, Lives
    <3>. QED
      BY <1>1, <1>5, <3>1, <3>2, <3>3, LiveUntouched
  <2>3. then \in {"run", "take", "retry"}
    BY DEF IInv, TypeOK
  <2>4. TypeOK'
    BY <1>1, <1>3, <2>1, <2>2, <2>3 DEF IInv, TypeOK
  <2>5. HeapIsModel'
    BY <1>1, <1>5, <2>2 DEF HeapIsModel, Used
  <2>6. HeadersAreClean'
    BY <1>1, <1>2 DEF HeadersAreClean
  <2>. QED
    BY <1>4, <2>1, <2>3, <2>4, <2>5, <2>6
       DEF IInv, MarkingIsExact, SlidingIsExact, UpdatingIsRight, MovingIsRight, OnlyUnmovedGoStale
<1>6. CASE ~ (Faithful /\ LiveAddresses \subseteq 1 .. after)
  <2>1. pc' = "lost" /\ refs' = refs /\ stamp' = stamp /\ still' = still
    BY <1>6 DEF Finish
  <2>2. TypeOK'
    BY <1>1, <1>3, <2>1 DEF IInv, TypeOK, LockstepTypeOK, RootsTypeOK
  <2>3. HeadersAreClean'
    BY <1>1, <1>2 DEF HeadersAreClean
  <2>4. \A r, id : Leads(r, id) => Means(r, id)
    BY <1>2 DEF Leads, Located, Means
  <2>5. /\ \A i \in DOMAIN stack : Means(stack[i], mStack[i])
        /\ \A n \in Name : Means(globals[n], mGlobals[n])
        /\ \A d \in (1 .. after) \ still, i \in Slot : Means(refs[d][i], mRefs[stamp[d]][i])
    BY <1>1, <1>2, <2>4 DEF IInv, MovingIsRight
  <2>6. OnlyUnmovedGoStale'
    BY <1>1, <2>1, <2>5 DEF OnlyUnmovedGoStale, Means, Used
  <2>. QED
    BY <1>4, <2>1, <2>2, <2>3, <2>6
       DEF IInv, HeapIsModel, MarkingIsExact, SlidingIsExact, UpdatingIsRight, MovingIsRight
<1>. QED
  BY <1>5, <1>6

\* An allocation takes the place above top.
LEMMA AllocTakeIInv ==
  ASSUME IInv, AllocTake
  PROVE  IInv'
<1>. DEFINE a == top + 1
<1>1. /\ pc \in {"take", "retry"} /\ pc' = "run" /\ top < Capacity /\ top' = a
      /\ StampAndRoot(a) /\ worth' = FALSE
      /\ UNCHANGED <<after, marked, forward, worklist, at, threshold, thrashing, then, still>>
  BY DEF AllocTake, headers, pacing
<1>2. /\ LockstepTypeOK /\ Faithful /\ LiveAddresses \subseteq 1 .. top /\ top \in 0 .. Capacity
  BY <1>1 DEF IInv, TypeOK, HeapIsModel, Used
<1>3. a \in Obj /\ a \notin LiveAddresses
  BY <1>1, <1>2
<1>. HIDE DEF a
<1>4. LockstepTypeOK' /\ Faithful' /\ LiveAddresses' \subseteq LiveAddresses \cup {a}
  BY <1>1, <1>2, <1>3, StampStaysFaithful
<1>5. LiveAddresses' \subseteq Used'
  BY <1>1, <1>2, <1>4 DEF Used, a
<1>6. TypeOK'
  <2>1. top' \in 0 .. Capacity
    BY <1>1, <1>2 DEF a
  <2>2. worth' \in BOOLEAN
    BY <1>1
  <2>. QED
    BY <1>1, <1>4, <2>1, <2>2 DEF IInv, TypeOK
<1>7. HeadersAreClean'
  BY <1>1 DEF IInv, HeadersAreClean
<1>8. GlobalsBound'
  BY <1>4 DEF Faithful, PathsAgree, GlobalsBound, Means
<1>. QED
  BY <1>1, <1>4, <1>5, <1>6, <1>7, <1>8
     DEF IInv, HeapIsModel, MarkingIsExact, SlidingIsExact, UpdatingIsRight, MovingIsRight,
         OnlyUnmovedGoStale

\* The program's own operations.
LEMMA ProgramIInv ==
  ASSUME IInv, Program
  PROVE  IInv'
<1>1. pc = "run" /\ UNCHANGED compactVars
  BY DEF Program, Running
<1>2. LockstepTypeOK /\ Faithful /\ LiveAddresses \subseteq Used
  BY <1>1 DEF IInv, TypeOK, HeapIsModel
<1>3. LockstepTypeOK' /\ Faithful' /\ LiveAddresses' \subseteq LiveAddresses
  BY <1>2, RootsStayFaithful, StoreStaysFaithful DEF Program
<1>4. GlobalsBound'
  BY <1>3 DEF Faithful, PathsAgree, GlobalsBound, Means
<1>. QED
  BY <1>1, <1>2, <1>3, <1>4
     DEF IInv, TypeOK, HeapIsModel, HeadersAreClean, MarkingIsExact, SlidingIsExact,
         UpdatingIsRight, MovingIsRight, OnlyUnmovedGoStale, compactVars, headers, pacing, Used

\* alloc gives up, or is about to look for room: nothing in the heap changes.
LEMMA IdleIInv ==
  ASSUME IInv, pc \in {"run", "take", "retry"}, pc' \in {"run", "take", "retry"},
         UNCHANGED <<lockstepVars, top, after, headers, worklist, at, pacing, then, still>>,
         worth' \in BOOLEAN
  PROVE  IInv'
<1>1. LockstepTypeOK' /\ Faithful' /\ LiveAddresses' \subseteq Used'
  BY SameHeap DEF IInv, TypeOK, HeapIsModel, Used
<1>2. GlobalsBound'
  BY <1>1 DEF Faithful, PathsAgree, GlobalsBound, Means
<1>. QED
  BY <1>1, <1>2
     DEF IInv, TypeOK, HeapIsModel, HeadersAreClean, MarkingIsExact, SlidingIsExact,
         UpdatingIsRight, MovingIsRight, OnlyUnmovedGoStale, headers, pacing

\* An empty heap is an empty model's.
LEMMA InitIInv == Init => IInv
<1>. SUFFICES ASSUME Init
              PROVE  IInv
  OBVIOUS
<1>1. /\ stack = <<>> /\ globals = [n \in Name |-> Null]
      /\ mStack = <<>> /\ mGlobals = [n \in Name |-> Null]
      /\ refs = [a \in Obj |-> Blank] /\ stamp = [a \in Obj |-> Null]
      /\ mRefs = [d \in Id |-> Model!Blank]
  BY DEF Init, LockstepInit, RootsInit, Model!ModelInit, Model!RootsInit
<1>2. Blank \in [Slot -> Ref] /\ Model!Blank \in [Slot -> IdRef]
  BY DEF Blank, Model!Blank, Slot, Model!Slot, Ref, IdRef
<1>3. LockstepTypeOK
  BY <1>1, <1>2, MaxDepthAssumption DEF LockstepTypeOK, RootsTypeOK, Ref, IdRef
<1>4. LiveAddresses = {}
  <2>1. RootRefs = {}
    BY <1>1 DEF RootRefs, RootSet
  <2>. QED
    BY <1>3, <2>1, Lives
<1>5. Faithful
  BY <1>1, <1>4 DEF Faithful, PathsAgree, Means
<1>6. threshold \in 0 .. Capacity
  <2>1. Capacity \div 2 \in 0 .. Capacity
    OBVIOUS
  <2>. QED
    BY <2>1 DEF Init
<1>7. TypeOK
  <2>1. /\ top \in 0 .. Capacity /\ after \in 0 .. Capacity /\ at \in 0 .. Capacity + 1
        /\ thrashing \in 0 .. ThrashLimit /\ worklist \in Seq(Obj)
    BY DEF Init
  <2>2. forward \in [Obj -> Ref]
    BY DEF Init, Ref
  <2>. QED
    BY <1>3, <1>6, <2>1, <2>2 DEF Init, TypeOK
<1>. QED
  BY <1>1, <1>4, <1>5, <1>7
     DEF Init, IInv, GlobalsBound, HeapIsModel, HeadersAreClean, MarkingIsExact, SlidingIsExact,
         UpdatingIsRight, MovingIsRight, OnlyUnmovedGoStale

\* Every step keeps the invariant.
LEMMA NextIInv == IInv /\ [Next]_vars => IInv'
<1>. SUFFICES ASSUME IInv, [Next]_vars
              PROVE  IInv'
  OBVIOUS
<1>1. CASE AllocBegin
  <2>1. pc = "run" /\ worth' \in BOOLEAN
    BY <1>1 DEF AllocBegin, Running
  <2>2. CASE worth' /\ top >= threshold
    <3>1. Begin("take")
      BY <1>1, <2>2 DEF AllocBegin
    <3>. QED
      BY <2>1, <3>1, BeginIInv
  <2>3. CASE ~ (worth' /\ top >= threshold)
    BY <1>1, <2>1, <2>3, IdleIInv DEF AllocBegin
  <2>. QED
    BY <2>2, <2>3
<1>2. CASE Collect
  BY <1>2, BeginIInv DEF Collect, Running, IInv, TypeOK
<1>3. CASE AllocCollects
  BY <1>3, BeginIInv DEF AllocCollects, IInv, TypeOK
<1>4. CASE AllocFails
  BY <1>4, IdleIInv DEF AllocFails
<1>5. CASE MoveObject
  BY <1>5, PassIInv, MoveIInv
<1>6. CASE UNCHANGED vars
  <2>1. UNCHANGED lockstepVars /\ UNCHANGED compactVars
    BY <1>6 DEF vars
  <2>2. /\ stack' = stack /\ globals' = globals /\ refs' = refs /\ stamp' = stamp
        /\ mStack' = mStack /\ mGlobals' = mGlobals /\ mRefs' = mRefs
    BY <2>1 DEF lockstepVars, modelState
  <2>3. /\ UNCHANGED <<top, after, marked, forward, worklist, at, threshold, thrashing, pc, then,
                       worth, still>>
    BY <2>1 DEF compactVars, headers, pacing
  <2>4. TypeOK' /\ GlobalsBound' /\ HeapIsModel' /\ HeadersAreClean' /\ OnlyUnmovedGoStale'
    BY <2>1, <2>2, <2>3, SameHeap
       DEF IInv, TypeOK, GlobalsBound, HeapIsModel, HeadersAreClean, OnlyUnmovedGoStale, Means,
           Used
  <2>5. MarkingIsExact'
    BY <2>1, <2>2, <2>3, SameHeap DEF IInv, MarkingIsExact
  <2>6. SlidingIsExact'
    <3>1. LiveIds' = LiveIds /\ Moved' = Moved /\ Used' = Used
          /\ \A a : Destination(a)' = Destination(a)
      BY <2>1, <2>3, SameHeap DEF Moved, Destination, Used
    <3>. QED
      BY <2>2, <2>3, <3>1 DEF IInv, SlidingIsExact
  <2>7. UpdatingIsRight'
    BY <2>2, <2>3 DEF IInv, UpdatingIsRight, Leads, Located, Stays, Means, Moved
  <2>8. MovingIsRight'
    BY <2>2, <2>3 DEF IInv, MovingIsRight, Leads, Located, Moved
  <2>. QED
    BY <2>4, <2>5, <2>6, <2>7, <2>8 DEF IInv
<1>. QED
  BY <1>1, <1>2, <1>3, <1>4, <1>5, <1>6, ProgramIInv, MarkTurnIInv, ForwardingIInv,
     UpdateObjectIInv, UpdateRootsIInv, FinishIInv, AllocTakeIInv
     DEF Next, Collector

(***************************************************************************)
(* Theorems                                                                *)
(***************************************************************************)

\* The invariant holds of every behaviour.
THEOREM InvariantHolds == Spec => []IInv
BY InitIInv, NextIInv, PTL DEF Spec

\* Whatever is allocated, stored and collected, and however full the heap is,
\* the bump pointer, the threshold and every forwarding address stay within the
\* heap, and the two sides of the mutator keep the same depth.
THEOREM TypeCorrect == Spec => []TypeOK
<1>1. IInv => TypeOK
  BY DEF IInv
<1>. QED
  BY <1>1, InvariantHolds, PTL

\* verify's verdict can be relied on: on a heap a mark-compact collection left,
\* right or wrong, it reports no violation exactly if the heap is the model's graph.
THEOREM VerdictCanBeReliedOn == Spec => []VerdictIsRight
<1>1. IInv => VerdictIsRight
  BY VerdictIsSound DEF IInv, TypeOK, GlobalsBound, VerdictIsRight
<1>. QED
  BY <1>1, InvariantHolds, PTL

\* "Every reference in the program still names the object it named before", but
\* for the fields of an object that stayed where it was.
THEOREM StaleFieldsAreOfUnmoved == Spec => []OnlyUnmovedGoStale
<1>1. IInv => OnlyUnmovedGoStale
  BY DEF IInv
<1>. QED
  BY <1>1, InvariantHolds, PTL

\* "After a collection the free space is one contiguous run": below top lies each
\* object the program can reach, once, and no header shows the collection.
THEOREM CompactionPacks == Spec => CompactionIsExact
<1>1. ASSUME IInv, Finish
      PROVE  /\ top' = Cardinality(LiveIds)
             /\ {stamp'[a] : a \in 1 .. top'} = LiveIds
             /\ marked = {} /\ forward = [a \in Obj |-> Null]
  <2>1. /\ pc = "move" /\ at > top /\ top' = after
    BY <1>1 DEF Finish
  <2>2. /\ marked = {} /\ forward = [a \in Obj |-> Null] /\ after = Cardinality(LiveIds)
        /\ {stamp[a] : a \in 1 .. after} = LiveIds /\ after \in 0 .. Capacity
    BY <1>1, <2>1, AllMoved
  <2>3. \A a \in 1 .. after : stamp'[a] = stamp[a]
    <3>1. \/ stamp' = [a \in Obj |-> IF a > after THEN Null ELSE stamp[a]]
          \/ stamp' = stamp
      BY <1>1 DEF Finish
    <3>. QED
      BY <2>2, <3>1
  <2>. QED
    BY <2>1, <2>2, <2>3
<1>2. IInv /\ [Next]_vars =>
        [Finish => /\ top' = Cardinality(LiveIds)
                   /\ {stamp'[a] : a \in 1 .. top'} = LiveIds
                   /\ marked = {} /\ forward = [a \in Obj |-> Null]]_vars
  BY <1>1
<1>. QED
  BY InvariantHolds, <1>2, PTL DEF Spec, CompactionIsExact
=============================================================================
