---------------------------- MODULE Generational ----------------------------
(***************************************************************************)
(* The generational collector of module 7.  Addresses are counted in small *)
(* objects: those up to OldSize are the old generation, those above it the *)
(* nursery.  An object too large for the nursery is born old.  The program *)
(* runs against the shadow model, and each promotion is a step.            *)
(***************************************************************************)
EXTENDS Verifier, SequencesExt

CONSTANTS
  OldSize,         \* the old generation: nursery in the code, an address
  NurserySizes,    \* the sizes a nursery can have
  MaxRemembered    \* bound on the stores recorded between collections

ASSUME SizeAssumption ==
  /\ OldSize \in Nat \ {0} /\ NurserySizes \subseteq Nat \ {0}
  /\ \A n \in NurserySizes : 1 .. OldSize + n \subseteq Obj

VARIABLES
  old,          \* the old generation: see OldTypeOK
  nurserySize,  \* nursery_size
  youngFree,    \* young_free
  forward,      \* address -> the forwarding address in its header
  remembered, worklist,
  pc,           \* see TypeOK
  major, then,  \* the collection in progress, and where it returns to
  wasted        \* history: whether a reservation has been forgotten

young == <<youngFree, nurserySize>>
genVars == <<old, young, forward, remembered, worklist, pc, major, then, wasted>>
vars == <<lockstepVars, genVars>>

OldAddress == 1 .. OldSize
Young == (OldSize + 1) .. (OldSize + nurserySize)
Large == nurserySize + 1

IsYoung(h) == h # Null /\ h \in Young

(***************************************************************************)
(* The old generation: old_alloc and sweep_old                             *)
(***************************************************************************)

\* The free blocks that can hold n, by their place in the list.
Fitting(o, n) == {i \in DOMAIN o.free : o.size[o.free[i]] >= n}

\* Where old_alloc finds n: the first block that fits, or the bump pointer.
Place(o, n) ==
  IF Fitting(o, n) # {} THEN o.free[Min(Fitting(o, n))]
  ELSE IF o.bump + n <= OldSize THEN o.bump + 1 ELSE Null

SwapRemove(s, i) == Front([s EXCEPT ![i] = Last(s)])

\* Slip: the remainder of a block is dropped.
ReservedWhole(o, n) ==
  LET used == [o EXCEPT !.used = @ + n]
  IN  IF Fitting(o, n) = {} THEN [used EXCEPT !.bump = @ + n]
      ELSE [used EXCEPT !.free = SwapRemove(@, Min(Fitting(o, n)))]

\* old_alloc, where there is room.  What is left of a block becomes a block; the
\* header of the part that is taken is for the caller to write.
Reserved(o, n) ==
  LET used == [o EXCEPT !.used = @ + n]
      b    == Place(o, n)
      rest == o.size[b] - n
      list == SwapRemove(o.free, Min(Fitting(o, n)))
  IN  IF Fitting(o, n) = {} THEN [used EXCEPT !.bump = @ + n]
      ELSE IF rest = 0 THEN [used EXCEPT !.free = list]
      ELSE [used EXCEPT !.free = Append(list, b + n),
                        !.size[b + n] = rest, !.vacant = @ \cup {b + n}]

\* A header written at the address a.
Headed(o, a, n) == [o EXCEPT !.size[a] = n, !.vacant = @ \ {a}]

\* The addresses sweep_old comes to, adding sizes.  A size of 0 leads nowhere.
Walked(o) ==
  LET from[a \in 1 .. OldSize + 1] ==
        IF a > o.bump THEN {}
        ELSE {a} \cup (IF o.size[a] = 0 THEN {} ELSE from[a + o.size[a]])
  IN  from[1]

\* Where there is no header, poison is given a range that ends before it starts.
Unwalkable(o) == \E a \in Walked(o) : o.size[a] = 0

Kept(o, marked) == (Walked(o) \cap marked) \ o.vacant
Gone(o, marked) == Walked(o) \ Kept(o, marked)

\* Slip: a run at the end is not put on the list.
RunsBeforeKept(o, marked) ==
  {a \in Gone(o, marked) : /\ \A p \in Gone(o, marked) : p + o.size[p] # a
                           /\ \E k \in Kept(o, marked) : k > a}

\* Neighbours that are not kept form a run, which becomes one block: where the
\* runs start, and where the one that starts at a ends.
Runs(o, marked) == {a \in Gone(o, marked) : \A p \in Gone(o, marked) : p + o.size[p] # a}
RunEnd(o, marked, a) == Min({k \in Kept(o, marked) : k > a} \cup {o.bump + 1})

\* The units of blocks.
TotalSize(o, blocks) ==
  Cardinality({unit \in blocks \X (1 .. OldSize) : unit[2] <= o.size[unit[1]]})

\* S in increasing order.
Ascending(S) ==
  {s \in [1 .. Cardinality(S) -> S] : /\ \A i, j \in DOMAIN s : i < j => s[i] < s[j]
                                     /\ ToSet(s) = S}

\* What sweep_old leaves, with the runs on the list in the order of the walk.
Swept(o, marked, list) ==
  [o EXCEPT !.size = [a \in OldAddress |->
                        IF a \in Kept(o, marked) THEN o.size[a]
                        ELSE IF a \in Runs(o, marked) THEN RunEnd(o, marked, a) - a ELSE 0],
            !.vacant = Runs(o, marked),
            !.free = list,
            !.used = TotalSize(o, Kept(o, marked))]

(***************************************************************************)
(* A collection                                                            *)
(***************************************************************************)

\* minor_collect or major_collect, up to evacuate_nursery.
Begin(isMajor, return) ==
  /\ pc' = "roots" /\ major' = isMajor /\ then' = return
  /\ UNCHANGED <<lockstepVars, old, young, forward, remembered, worklist, wasted>>

\* Slip: the forwarding address is not looked at.
PromoteAgain(h, newRefs, a) ==
  /\ a = Place(old, 1)
  /\ old' = Headed(Reserved(old, 1), a, 1)
  /\ refs' = [newRefs EXCEPT ![a] = refs[h]]
  /\ stamp' = [stamp EXCEPT ![a] = stamp[h]]
  /\ forward' = [forward EXCEPT ![h] = a]
  /\ worklist' = Append(worklist, a)

\* promote: a is the address it returns for h, and newRefs are the fields once
\* the caller has stored that address.
Promote(h, newRefs, a) ==
  IF forward[h] # Null
  THEN /\ a = forward[h]
       /\ refs' = newRefs
       /\ UNCHANGED <<old, stamp, forward, worklist>>
  ELSE /\ a = Place(old, 1)
       /\ old' = Headed(Reserved(old, 1), a, 1)
       /\ refs' = [newRefs EXCEPT ![a] = refs[h]]
       /\ stamp' = [stamp EXCEPT ![a] = stamp[h]]
       /\ forward' = [forward EXCEPT ![h] = a]
       /\ worklist' = Append(worklist, a)

\* promote panics: the old generation is full.
CannotPromote(h) == forward[h] = Null /\ Place(old, 1) = Null

Panic(kind) ==
  /\ pc' = kind
  /\ UNCHANGED <<lockstepVars, old, young, forward, remembered, worklist, major, then, wasted>>

StackToDo == {i \in DOMAIN stack : IsYoung(stack[i])}
GlobalsToDo == {n \in Name : IsYoung(globals[n])}
SlotsToDo(h) == {i \in Slot : IsYoung(refs[h][i])}

RootRef == IF StackToDo # {} THEN stack[Min(StackToDo)]
           ELSE globals[CHOOSE n \in GlobalsToDo : TRUE]

\* evacuate_nursery is left to the student; this is its comment.  The roots come
\* first: the stack and then the globals, in the order of a hash table.
PromoteRoot ==
  /\ pc = "roots" /\ (StackToDo # {} \/ GlobalsToDo # {})
  /\ IF CannotPromote(RootRef) THEN Panic("full")
     ELSE \E a \in OldAddress :
            /\ Promote(RootRef, refs, a)
            /\ IF StackToDo # {}
               THEN stack' = [stack EXCEPT ![Min(StackToDo)] = a] /\ UNCHANGED globals
               ELSE /\ UNCHANGED stack
                    /\ globals' = [globals EXCEPT ![CHOOSE n \in GlobalsToDo : TRUE] = a]
            /\ UNCHANGED <<modelState, young, remembered, pc, major, then, wasted>>

RootsDone ==
  /\ pc = "roots" /\ StackToDo = {} /\ GlobalsToDo = {}
  /\ pc' = "fields"
  /\ UNCHANGED <<lockstepVars, old, young, forward, remembered, worklist, major, then, wasted>>

\* The object scan_for_young is at: what is remembered, then what was promoted.
Scanned == IF remembered # <<>> THEN Head(remembered) ELSE Head(worklist)

\* scan_for_young: a turn that finds a young reference ...
ScanField ==
  /\ pc = "fields" /\ (remembered # <<>> \/ worklist # <<>>)
  /\ SlotsToDo(Scanned) # {}
  /\ LET i == Min(SlotsToDo(Scanned)) h == refs[Scanned][i]
     IN  IF CannotPromote(h) THEN Panic("full")
         ELSE \E a \in OldAddress :
                /\ Promote(h, [refs EXCEPT ![Scanned][i] = a], a)
                /\ UNCHANGED <<roots, modelState, young, remembered, pc, major, then, wasted>>

\* ... and its end.  The entry leaves the list it is on.
ScanDone ==
  /\ pc = "fields" /\ (remembered # <<>> \/ worklist # <<>>)
  /\ SlotsToDo(Scanned) = {}
  /\ IF remembered # <<>> THEN remembered' = Tail(remembered) /\ UNCHANGED worklist
     ELSE worklist' = Tail(worklist) /\ UNCHANGED remembered
  /\ UNCHANGED <<lockstepVars, old, young, forward, pc, major, then, wasted>>

\* The nursery is left empty.  A minor collection is over, and alloc may go on to
\* a major one; a major collection goes on to the old generation.
EvacuationDone ==
  /\ pc = "fields" /\ remembered = <<>> /\ worklist = <<>>
  /\ youngFree' = OldSize + 1
  /\ forward' = [a \in Obj |-> Null]
  /\ IF major THEN pc' = "old" /\ UNCHANGED <<major, then>>
     ELSE IF then = "take" /\ old.used * 100 > OldSize * 75
     THEN pc' = "roots" /\ major' = TRUE /\ UNCHANGED then
     ELSE pc' = then /\ then' = "run" /\ UNCHANGED major
  /\ UNCHANGED <<lockstepVars, old, nurserySize, remembered, worklist, wasted>>

\* mark_old, a loop like MarkSweep's, marks what a root leads to; sweep_old
\* follows.  A heap of which a part the program can reach was put on the free
\* list is "lost": the model follows the program no further.
MarkAndSweep ==
  /\ pc = "old"
  /\ LET marked == LiveAddresses
         kept   == Kept(old, marked)
     IN  IF Unwalkable(old) THEN Panic("broken")
         ELSE /\ \E list \in Ascending(Runs(old, marked)) : old' = Swept(old, marked, list)
              /\ refs' = [a \in Obj |-> IF a \in kept THEN refs[a] ELSE Blank]
              /\ stamp' = [a \in Obj |-> IF a \in kept THEN stamp[a] ELSE Null]
              /\ IF marked \subseteq kept THEN pc' = then /\ wasted' = FALSE
                 ELSE pc' = "lost" /\ UNCHANGED wasted
              /\ major' = FALSE /\ then' = "run"
              /\ UNCHANGED <<roots, modelState, young, forward, remembered, worklist>>

(***************************************************************************)
(* The Collector trait                                                     *)
(***************************************************************************)

Running == pc = "run"

\* The program keeps no more objects than there are identities.
MayAlloc == Running /\ Len(stack) < MaxDepth /\ LiveIds # Id

\* Slip: an object that needs one place more than there is fits.
NurseryFullLate == youngFree > OldSize + nurserySize + 1

NurseryFull == youngFree > OldSize + nurserySize

\* alloc of a small object: a full nursery is collected first.
AllocCollects == MayAlloc /\ NurseryFull /\ Begin(FALSE, "take")

\* The nursery has room, at first or because it has just been emptied: a small
\* object is never refused.
AllocTake ==
  /\ (MayAlloc \/ pc = "take") /\ ~ NurseryFull
  /\ StampAndRoot(youngFree)
  /\ youngFree' = youngFree + 1
  /\ pc' = "run"
  /\ UNCHANGED <<old, nurserySize, forward, remembered, worklist, major, then, wasted>>

\* alloc of an object too large for the nursery.  The call of old_alloc that
\* tests for room takes it.
AllocLarge ==
  /\ MayAlloc
  /\ IF Place(old, Large) = Null THEN Begin(TRUE, "large")
     ELSE /\ old' = Reserved(old, Large)
          /\ wasted' = TRUE
          /\ pc' = "large"
          /\ UNCHANGED <<lockstepVars, young, forward, remembered, worklist, major, then>>

\* The second call.
LargeTake ==
  /\ pc = "large" /\ Place(old, Large) # Null
  /\ StampAndRoot(Place(old, Large))
  /\ old' = Headed(Reserved(old, Large), Place(old, Large), Large)
  /\ pc' = "run"
  /\ UNCHANGED <<young, forward, remembered, worklist, major, then, wasted>>

\* alloc returns OutOfMemory.
LargeFails ==
  /\ pc = "large" /\ Place(old, Large) = Null
  /\ pc' = "run"
  /\ UNCHANGED <<lockstepVars, old, young, forward, remembered, worklist, major, then, wasted>>

\* Slip: only a holder that is young is recorded.
RecordsYoung(obj, val) == IsYoung(val) /\ IsYoung(obj)

\* The condition of the write barrier.
Records(obj, val) == IsYoung(val)

\* write_field.  FLAG_BUFFERED is set too; nothing but is_remembered reads it.
WriteField(p, i, c) ==
  /\ Running
  /\ Store(p, i, c)
  /\ IF Records(stack[p], Operand(stack, c))
     THEN /\ Len(remembered) < MaxRemembered
          /\ remembered' = Append(remembered, stack[p])
     ELSE UNCHANGED remembered
  /\ UNCHANGED <<old, young, forward, worklist, pc, major, then, wasted>>

MinorCollect == Running /\ Begin(FALSE, "run")
Collect == Running /\ Begin(TRUE, "run")

Program ==
  \/ Running /\ BothRootsStep /\ UNCHANGED genVars
  \/ \E p \in DOMAIN stack, i \in Slot, c \in 0 .. Len(stack) : WriteField(p, i, c)

Init ==
  /\ LockstepInit
  /\ old = [size |-> [a \in OldAddress |-> 0], vacant |-> {}, free |-> <<>>, bump |-> 0, used |-> 0]
  /\ nurserySize \in NurserySizes /\ youngFree = OldSize + 1
  /\ forward = [a \in Obj |-> Null]
  /\ remembered = <<>> /\ worklist = <<>>
  /\ pc = "run" /\ major = FALSE /\ then = "run" /\ wasted = FALSE

Collector ==
  \/ PromoteRoot \/ RootsDone
  \/ ScanField \/ ScanDone \/ EvacuationDone \/ MarkAndSweep
  \/ (pc = "take" /\ AllocTake)
  \/ LargeTake \/ LargeFails

Next ==
  \/ Program
  \/ (MayAlloc /\ AllocTake)
  \/ AllocCollects \/ AllocLarge \/ MinorCollect \/ Collect
  \/ Collector

Spec == Init /\ [][Next]_vars

\* For TLC: states that differ only in what objects hold that no root and no list
\* leads to are one.  Nothing reads them before emplace or relocate writes them.
Listed == ToSet(remembered) \cup ToSet(worklist)
View ==
  LET met == Reachable(refs, RootRefs \cup Listed)
  IN  <<[a \in met |-> refs[a]], [a \in met |-> stamp[a]], roots, modelState, genVars>>

(***************************************************************************)
(* Properties                                                              *)
(***************************************************************************)

Stopped == pc \in {"lost", "full", "broken"}

OldTypeOK ==
  old \in [size   : [OldAddress -> 0 .. OldSize],      \* the size in the header, 0 for none
           vacant : SUBSET OldAddress,                 \* the headers with FLAG_FREE
           free   : Seq(OldAddress),                   \* the blocks, free in the code
           bump   : 0 .. OldSize,                      \* old_bump, as a last address
           used   : 0 .. OldSize]                      \* old_used

TypeOK ==
  /\ LockstepTypeOK
  /\ OldTypeOK
  /\ nurserySize \in NurserySizes
  /\ youngFree \in (OldSize + 1) .. (OldSize + nurserySize + 1)
  /\ forward \in [Obj -> OldAddress \cup {Null}]
  /\ remembered \in Seq(Obj) /\ worklist \in Seq(OldAddress)
  /\ pc \in {"run", "roots", "fields", "old", "take", "large", "lost", "full", "broken"}
  /\ then \in {"run", "take", "large"}
  /\ major \in BOOLEAN /\ wasted \in BOOLEAN

\* "The one edge a minor collection cannot discover for itself": whatever was
\* stored, promoted, swept and handed out again since, an old object that refers
\* into the nursery is remembered.
EveryEdgeIsRemembered ==
  Running => \A h \in LiveAddresses :
               IsYoung(h) \/ SlotsToDo(h) = {} \/ Contains(remembered, h)

\* At every step of a collection the program's paths lead to the objects they
\* led to, and between operations the heap is the program's graph: nothing in
\* the nursery was missed and nothing was promoted twice.
GraphIsKept ==
  /\ ~ Stopped => PathsAgree
  /\ Running => Faithful

\* Unless a reservation was forgotten: the blocks of the old generation lie end to end
\* up to old_bump, the free list names each vacant one once, what is not vacant
\* adds up to old_used, and what the program can reach is among it.
OldIsAccountedFor ==
  Running /\ ~ wasted =>
    LET blocks == Walked(old)
    IN  /\ ~ Unwalkable(old)
        /\ ToSet(old.free) = old.vacant /\ Len(old.free) = Cardinality(old.vacant)
        /\ old.vacant \subseteq blocks
        /\ old.used = TotalSize(old, blocks \ old.vacant)
        /\ LiveAddresses \cap OldAddress \subseteq blocks \ old.vacant

\* A major collection can stop in poison, or free what the program can reach,
\* only if a large object was allocated and its first reservation forgotten.
OnlyReservationsCorrupt == pc \in {"lost", "broken"} => wasted

\* old_used is "Bytes committed to live objects in the old generation".
OldUsedIsCommitted ==
  Running => old.used = TotalSize(old, {a \in OldAddress : old.size[a] # 0} \ old.vacant)
=============================================================================
