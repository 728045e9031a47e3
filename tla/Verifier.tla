------------------------------ MODULE Verifier ------------------------------
(***************************************************************************)
(* verify.rs: the walk that compares the heap with the shadow model, and   *)
(* decides whether every test of every collector passes.  It walks from    *)
(* pairs of a handle and the identity the model expects there; what it     *)
(* reports does not depend on the order, so it is a function of the two    *)
(* graphs here.  Shapes are all alike, so ShapeMismatch cannot arise.      *)
(***************************************************************************)
EXTENDS Lockstep

\* The handle in every place a root can be, with the identity expected there.
\* Of the globals, only those the model binds are looked at.
StackPairs == {<<stack[i], mStack[i]>> : i \in DOMAIN stack \cap DOMAIN mStack}
GlobalPairs == {<<globals[n], mGlobals[n]>> : n \in {m \in Name : mGlobals[m] # Null}}
FieldPairs(h) == {<<refs[h][i], mRefs[stamp[h]][i]>> : i \in Slot}

\* A pair is queued if neither side is null.
Queued(pairs) == {p \in pairs : p[1] # Null /\ p[2] # Null}

\* Model::get: handles of objects the model knows.  An identity the program
\* cannot reach has been forgotten.
Known == LET ids == LiveIds IN {h \in Obj : stamp[h] \in ids}

\* Every handle taken from the queue: the walk goes on from a known object,
\* along the references the model has too.
Taken(known) ==
  Reachable([h \in Obj |-> [i \in Slot |->
               IF h \in known /\ mRefs[stamp[h]][i] # Null THEN refs[h][i] ELSE Null]],
            {p[1] : p \in Queued(StackPairs \cup GlobalPairs)})

\* What is expected of a handle, at each place one is found.
Expectations(visited) ==
  Queued(StackPairs \cup GlobalPairs) \cup UNION {Queued(FieldPairs(h)) : h \in visited}

NullsDiffer(pairs) == \E p \in pairs : (p[1] = Null) # (p[2] = Null)

\* Slip: id_at keeps the first handle of an identity only.
FirstHandles(visited) == {}

\* Where two addresses claim to be one object.
Duplicated(visited) == {h \in visited : \E k \in visited : k # h /\ stamp[k] = stamp[h]}

\* The kinds of violation in verify's report.  visited are the keys of id_at.
Violations ==
  LET known   == Known
      taken   == Taken(known)
      visited == taken \cap known
      found   == {stamp[h] : h \in taken}
      report(kind, recorded) == IF recorded THEN {kind} ELSE {}
  IN  UNION {
        report("RootStackDepth", Len(stack) # Len(mStack)),
        report("NullMismatch",
               NullsDiffer(StackPairs) \/ \E h \in visited : NullsDiffer(FieldPairs(h))),
        report("MissingGlobal", NullsDiffer(GlobalPairs)),
        report("CorruptPayload", Null \in found),
        report("UnknownIdentity", \E h \in taken \ known : stamp[h] # Null),
        report("WrongObject",
               \E p \in Expectations(visited) : stamp[p[1]] \notin {Null, p[2]}),
        report("DuplicatedIdentity", Duplicated(visited) # {}),
        report("Unreachable", LiveIds \ {stamp[h] : h \in visited} # {}) }

\* Report::ok
VerifyOk == Violations = {}

(***************************************************************************)
(* What the report is to mean                                              *)
(***************************************************************************)

\* The handle h stands for the identity id.
Means(h, id) == IF id = Null THEN h = Null ELSE h # Null /\ stamp[h] = id

\* Along every path from a root, the heap holds the object the model does.
PathsAgree ==
  /\ DOMAIN stack = DOMAIN mStack /\ \A i \in DOMAIN stack : Means(stack[i], mStack[i])
  /\ \A n \in Name : Means(globals[n], mGlobals[n])
  /\ \A h \in LiveAddresses :
       /\ stamp[h] # Null
       /\ \A i \in Slot : Means(refs[h][i], mRefs[stamp[h]][i])

\* The heap, as far as the program can reach it, is the model's graph: paths
\* agree and no object has two copies.
Faithful ==
  /\ PathsAgree
  /\ \A h, k \in LiveAddresses : stamp[h] = stamp[k] => h = k
=============================================================================
