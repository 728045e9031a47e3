------------------------------ MODULE Lockstep ------------------------------
(***************************************************************************)
(* The mutator over a collector that moves objects.  An address says       *)
(* nothing about which object it holds, so the mutator stamps every object *)
(* with the identity the shadow model gave it, and the stamp moves with    *)
(* the object's bytes.  Each operation acts on the heap and on the model,  *)
(* with the same slots as operands; a collection acts on the heap alone.   *)
(*                                                                         *)
(* Identities are numbered on forever in the code.  Here one that the      *)
(* program can no longer reach is used again.                              *)
(***************************************************************************)
EXTENDS Mutator

CONSTANT Id     \* the identities of objects

ASSUME IdAssumption == IsFiniteSet(Id) /\ Null \notin Id

VARIABLES
  stamp,        \* address -> the identity in the payload there, Null if none
  mStack,       \* the model's mirror of the shadow stack
  mGlobals,     \* the model's mirror of the globals
  mRefs         \* identity -> its fields in the model

modelState == <<mStack, mGlobals, mRefs>>
lockstepVars == <<stack, globals, refs, stamp, modelState>>

Model == INSTANCE GraphModel WITH Obj <- Id, stack <- mStack, globals <- mGlobals, refs <- mRefs

LiveIds == Model!Reachable(mRefs, Model!RootRefs)
LiveAddresses == Reachable(refs, RootRefs)

LockstepInit ==
  /\ RootsInit
  /\ refs = [a \in Obj |-> Blank]
  /\ stamp = [a \in Obj |-> Null]
  /\ Model!ModelInit

\* try_alloc, once alloc has returned the address a.
StampAndRoot(a) ==
  \E id \in Id :
    /\ id = CHOOSE d \in Id : d \in LiveIds => Id = LiveIds
    /\ Model!ModelAlloc(id)
    /\ PushRoot(a)
    /\ refs' = [refs EXCEPT ![a] = Blank]
    /\ stamp' = [stamp EXCEPT ![a] = id]

\* The value a store takes from slot c of the stack; 0 stands for store_null.
Operand(stk, c) == IF c = 0 THEN Null ELSE stk[c]

\* store and store_null; write_field's raw store.
Store(p, i, c) ==
  /\ stack[p] # Null /\ mStack[p] # Null
  /\ refs' = [refs EXCEPT ![stack[p]][i] = Operand(stack, c)]
  /\ Model!ModelStore(mStack[p], i, Operand(mStack, c))
  /\ UNCHANGED <<stack, globals, stamp>>

\* The operations on roots, for collectors whose root hooks do nothing.
BothRootsStep ==
  /\ \/ \E p \in DOMAIN stack, i \in Slot : Load(p, i) /\ Model!Load(p, i)
     \/ \E s \in DOMAIN stack : Dup(s) /\ Model!Dup(s)
     \/ \E dst, src \in DOMAIN stack : Assign(dst, src) /\ Model!Assign(dst, src)
     \/ \E depth \in 0 .. (Len(stack) - 1) : Unwind(depth) /\ Model!Unwind(depth)
     \/ \E n \in Name, s \in DOMAIN stack : SetGlobal(n, s) /\ Model!SetGlobal(n, s)
     \/ \E n \in Name : Global(n) /\ Model!Global(n)
     \/ \E n \in Name : ClearGlobal(n) /\ Model!ClearGlobal(n)
  /\ Model!Forget(mRefs)
  /\ UNCHANGED <<refs, stamp>>

LockstepTypeOK ==
  /\ RootsTypeOK
  /\ refs \in [Obj -> [Slot -> Ref]]
  /\ stamp \in [Obj -> Id \cup {Null}]
  /\ mStack \in Seq(Id \cup {Null}) /\ DOMAIN mStack = DOMAIN stack
  /\ mGlobals \in [Name -> Id \cup {Null}]
  /\ mRefs \in [Id -> [Slot -> Id \cup {Null}]]
=============================================================================
