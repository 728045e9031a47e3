---------------------------- MODULE GraphModel -----------------------------
(***************************************************************************)
(* The shadow model (model.rs) driven by the mutator in lockstep with the  *)
(* real heap: what every collector has to implement.  refs holds the slots *)
(* of what the program can still reach, as forget_unreachable leaves the   *)
(* model, and blanks elsewhere; only the program changes it.  A collection,*)
(* whatever it does to the heap, is a step in which nothing happens here,  *)
(* and an allocation never returns an object that is still reachable.      *)
(***************************************************************************)
EXTENDS Mutator

modelVars == <<refs, stack, globals>>

\* forget_unreachable, under the roots the operation leaves.
Forget(slots) == refs' = KeepReachable(slots, RootSet(stack', globals'))

ModelInit ==
  /\ RootsInit
  /\ refs = [o \in Obj |-> Blank]

\* Model::alloc and push_root; the address is one the program cannot reach.
ModelAlloc(o) ==
  /\ o \notin Reachable(refs, RootRefs)
  /\ PushRoot(o)
  /\ Forget([refs EXCEPT ![o] = Blank])

\* Model::store
ModelStore(o, i, v) ==
  /\ UNCHANGED roots
  /\ Forget([refs EXCEPT ![o][i] = v])

\* push_root, unwind, set_root, set_global and remove_global
ModelRootStep == RootStep /\ Forget(refs)

ModelNext ==
  \/ \E o \in Obj : ModelAlloc(o)
  \/ \E o \in StoreTargets, i \in Slot, v \in StoreValues : ModelStore(o, i, v)
  \/ ModelRootStep

ModelSpec == ModelInit /\ [][ModelNext]_modelVars
=============================================================================
