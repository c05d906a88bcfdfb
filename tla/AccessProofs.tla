---------------------------- MODULE AccessProofs ----------------------------
(***************************************************************************)
(* Theorems about modules ClientRegistry and Access, for both backends,    *)
(* any number of tasks, operations, clients and keys, and any credentials  *)
(* and settings.  Those about ClientRegistry are of its own specification  *)
(* and of no credential.                                                   *)
(***************************************************************************)
EXTENDS Access, TLAPS

-----------------------------------------------------------------------------
(* Module ClientRegistry. *)

LEMMA TypeInit == Init => TypeOK
  BY RegistryAssumption DEF Init, TypeOK, Waiting, Shape, KeysIssued, Prepared, Unknown

\* A write that Redis executes keeps the shape of the store, stores issued keys
\* only, and touches no key that another rotation has yet to store.
LEMMA ExecutedType ==
  ASSUME TypeOK, NEW t \in Tasks, Executed(t)
  PROVE  /\ store' \in [Digests -> Record \cup {None}]
         /\ created' \in SUBSET Ids
         /\ \A d \in Digests : store'[d] # None => d \in issuedKeys
         /\ \A u \in Tasks \ {t} :
              pc[u] = "putNew" => store'[fresh[u]] = None
<1> USE DEF Waiting
<1>1. CASE PutStored(t)
  BY <1>1, RegistryAssumption
     DEF TypeOK, Shape, KeysIssued, Prepared, Unknown, PutStored
<1>2. CASE NewStored(t)
  BY <1>2, RegistryAssumption
     DEF TypeOK, Shape, KeysIssued, Prepared, Unknown, NewStored
<1>3. CASE Removed(t)
  BY <1>3, RegistryAssumption
     DEF TypeOK, Shape, KeysIssued, Prepared, Unknown, Removed
<1> QED
  BY <1>1, <1>2, <1>3 DEF Executed

LEMMA ShapeStep == TypeOK /\ [Next]_vars => Shape'
<1> SUFFICES ASSUME TypeOK, [Next]_vars PROVE Shape'
  OBVIOUS
<1> USE RegistryAssumption DEF Waiting, Ops, Shape
<1>0. Shape
  BY DEF TypeOK
<1>1. ASSUME NEW t \in Tasks, StartCreate(t) PROVE Shape'
  <2>1. PICK d \in Digests, i \in Ids, role \in Roles :
          /\ issuedKeys' = issuedKeys \cup {d} /\ issuedIds' = issuedIds \cup {i}
          /\ client' = [client EXCEPT ![t] = i]
          /\ digest' = [digest EXCEPT ![t] = d]
          /\ record' = [record EXCEPT ![t] = [id |-> i, role |-> role, enabled |-> TRUE]]
    BY <1>1 DEF StartCreate, NewKey
  <2>2. [id |-> i, role |-> role, enabled |-> TRUE] \in Record
    BY DEF Record
  <2> QED
    BY <1>0, <1>1, <2>1, <2>2 DEF StartCreate, Goto, outcomes
<1>2. ASSUME NEW t \in Tasks, StartById(t) PROVE Shape'
  BY <1>0, <1>2 DEF StartById, Goto, history, outcomes
<1>3. ASSUME NEW t \in Tasks, NotFound(t) PROVE Shape'
  BY <1>0, <1>3 DEF NotFound, Goto, history, outcomes, taskVars
<1>4. ASSUME NEW t \in Tasks, FoundToUpdate(t) PROVE Shape'
  <2>1. PICK d \in Entries(client[t]), role \in Roles, enabled \in BOOLEAN :
          Found(t, d, [store[d] EXCEPT !.role = role, !.enabled = enabled])
    BY <1>4 DEF FoundToUpdate
  <2>2. d \in Digests /\ store[d] \in Record
    BY <1>0 DEF Entries
  <2>3. [store[d] EXCEPT !.role = role, !.enabled = enabled] \in Record
    BY <2>2 DEF Record
  <2> QED
    BY <1>0, <1>4, <2>1, <2>2, <2>3 DEF FoundToUpdate, Found, Goto, history, outcomes
<1>5. ASSUME NEW t \in Tasks, FoundToRotate(t) PROVE Shape'
  BY <1>0, <1>5 DEF FoundToRotate, Found, Entries, NewKey, Goto, outcomes
<1>6. ASSUME NEW t \in Tasks, FoundToDelete(t) PROVE Shape'
  BY <1>0, <1>6 DEF FoundToDelete, Found, Entries, Goto, TypeOK, outcomes, Prepared
<1>7. ASSUME NEW t \in Tasks, Command(t) PROVE Shape'
  BY <1>0, <1>7, ExecutedType DEF Command, Goto, taskVars, outcomes
<1>8. ASSUME NEW t \in Tasks, Return(t) PROVE Shape'
  BY <1>0, <1>8 DEF Return, Goto, taskVars, outcomes, TypeOK, Prepared, Makes, Key
<1>9. ASSUME NEW t \in Tasks, Fault(t) PROVE Shape'
  BY <1>0, <1>9, ExecutedType
     DEF Fault, Goto, taskVars, outcomes, TypeOK, Prepared, LosesKey, Makes
<1>10. ASSUME NEW t \in Tasks, Leave(t) PROVE Shape'
  BY <1>0, <1>10 DEF Leave, Goto, history, outcomes
<1>11. CASE UNCHANGED vars
  BY <1>0, <1>11 DEF vars, taskVars, history, outcomes
<1> QED
  BY <1>1, <1>2, <1>3, <1>4, <1>5, <1>6, <1>7, <1>8, <1>9, <1>10, <1>11 DEF Next

LEMMA KeysStep == TypeOK /\ [Next]_vars => KeysIssued'
<1> SUFFICES ASSUME TypeOK, [Next]_vars PROVE KeysIssued'
  OBVIOUS
<1> USE RegistryAssumption DEF Waiting, KeysIssued
<1>0. Shape /\ KeysIssued
  BY DEF TypeOK
<1>1. ASSUME NEW t \in Tasks, StartCreate(t) PROVE KeysIssued'
  BY <1>0, <1>1 DEF Shape, StartCreate, NewKey, outcomes
<1>2. ASSUME NEW t \in Tasks, FoundToUpdate(t) PROVE KeysIssued'
  BY <1>0, <1>2 DEF Shape, FoundToUpdate, Found, Entries, history, outcomes
<1>3. ASSUME NEW t \in Tasks, FoundToRotate(t) PROVE KeysIssued'
  BY <1>0, <1>3 DEF Shape, FoundToRotate, Found, Entries, NewKey
<1>4. ASSUME NEW t \in Tasks, FoundToDelete(t) PROVE KeysIssued'
  BY <1>0, <1>4 DEF Shape, FoundToDelete, Found, Entries
<1>5. ASSUME NEW t \in Tasks, Command(t) \/ Fault(t) PROVE KeysIssued'
  BY <1>0, <1>5, ExecutedType DEF Command, Fault, taskVars
<1>6. ASSUME NEW t \in Tasks, StartById(t) \/ NotFound(t) \/ Return(t)
      PROVE  KeysIssued'
  BY <1>0, <1>6 DEF StartById, NotFound, Return, taskVars, history, outcomes
<1>7. ASSUME NEW t \in Tasks, Leave(t) PROVE KeysIssued'
  BY <1>0, <1>7 DEF Shape, Leave, history, outcomes
<1>8. CASE UNCHANGED vars
  BY <1>0, <1>8 DEF vars, taskVars, history, outcomes
<1> QED
  BY <1>1, <1>2, <1>3, <1>4, <1>5, <1>6, <1>7, <1>8 DEF Next

LEMMA PreparedStep ==
  TypeOK /\ [Next]_vars => \A q \in Tasks : Prepared(q)' /\ Unknown(q)'
<1> SUFFICES ASSUME TypeOK, [Next]_vars, NEW q \in Tasks
             PROVE  Prepared(q)' /\ Unknown(q)'
  OBVIOUS
<1> USE RegistryAssumption DEF Waiting, Ops
<1>0. /\ Shape /\ KeysIssued
      /\ \A t \in Tasks : Prepared(t) /\ Unknown(t)
  BY DEF TypeOK
<1>1. ASSUME NEW t \in Tasks, StartCreate(t) PROVE Prepared(q)' /\ Unknown(q)'
  <2>1. Prepared(q)'
    BY <1>0, <1>1 DEF Shape, StartCreate, NewKey, outcomes, Goto, Prepared, Record
  <2>2. Unknown(q)'
    BY <1>0, <1>1 DEF Shape, KeysIssued, StartCreate, NewKey, Goto, Prepared, Unknown
  <2> QED
    BY <2>1, <2>2
<1>2. ASSUME NEW t \in Tasks, StartById(t) PROVE Prepared(q)' /\ Unknown(q)'
  BY <1>0, <1>2 DEF Shape, StartById, Goto, history, outcomes, Prepared, Unknown
<1>3. ASSUME NEW t \in Tasks, NotFound(t) \/ Return(t) PROVE Prepared(q)' /\ Unknown(q)'
  BY <1>0, <1>3 DEF Shape, NotFound, Return, Goto, taskVars, history, outcomes, Prepared, Unknown
<1>4. ASSUME NEW t \in Tasks, FoundToUpdate(t) PROVE Prepared(q)' /\ Unknown(q)'
  <2>1. PICK d \in Entries(client[t]), role \in Roles, enabled \in BOOLEAN :
          Found(t, d, [store[d] EXCEPT !.role = role, !.enabled = enabled])
    BY <1>4 DEF FoundToUpdate
  <2>2. d \in Digests /\ store[d] \in Record /\ store[d] # None
        /\ store[d].id = client[t]
    BY <1>0 DEF Shape, Entries
  <2>3. /\ [store[d] EXCEPT !.role = role, !.enabled = enabled] \in Record
        /\ [store[d] EXCEPT !.role = role, !.enabled = enabled].id = client[t]
    BY <2>2 DEF Record
  <2>4. Prepared(q)'
    BY <1>0, <1>4, <2>1, <2>2, <2>3
       DEF Shape, FoundToUpdate, Found, Goto, history, outcomes, Prepared
  <2>5. Unknown(q)'
    BY <1>0, <1>4, <2>1, <2>2 DEF Shape, FoundToUpdate, Found, Goto, history, outcomes, Unknown
  <2> QED
    BY <2>4, <2>5
<1>5. ASSUME NEW t \in Tasks, FoundToRotate(t) PROVE Prepared(q)' /\ Unknown(q)'
  <2>1. PICK d \in Entries(client[t]), new \in Digests :
          /\ Found(t, d, store[d]) /\ NewKey(new)
          /\ fresh' = [fresh EXCEPT ![t] = new]
    BY <1>5 DEF FoundToRotate
  <2>2. d \in Digests /\ store[d] \in Record /\ store[d] # None
        /\ store[d].id = client[t]
    BY <1>0 DEF Shape, Entries
  <2>3. Prepared(q)'
    BY <1>0, <1>5, <2>1, <2>2 DEF Shape, FoundToRotate, Found, Goto, Prepared
  <2>4. new \notin issuedKeys /\ store[new] = None /\ new # d
    BY <1>0, <2>1, <2>2 DEF KeysIssued, NewKey
  <2>5. Unknown(q)'
    BY <1>0, <1>5, <2>1, <2>2, <2>4
       DEF Shape, KeysIssued, FoundToRotate, Found, Goto, Prepared, Unknown
  <2> QED
    BY <2>3, <2>5
<1>6. ASSUME NEW t \in Tasks, FoundToDelete(t) PROVE Prepared(q)' /\ Unknown(q)'
  BY <1>0, <1>6 DEF Shape, FoundToDelete, Found, Entries, Goto, Prepared, Unknown
<1>7. ASSUME NEW t \in Tasks, Command(t) PROVE Prepared(q)' /\ Unknown(q)'
  <2>1. /\ pc' = [pc EXCEPT ![t] = IF pc[t] = "putNew" THEN "remove" ELSE "audit"]
        /\ UNCHANGED taskVars
        /\ pc[t] \in {"put", "putNew", "remove"}
    BY <1>7 DEF Command, Goto, Executed, PutStored, NewStored, Removed
  <2>2. Prepared(q)'
    BY <1>0, <2>1 DEF Shape, Prepared, taskVars
  <2>3. Unknown(q)'
    BY <1>0, <1>7, <2>1, ExecutedType DEF Shape, Unknown, taskVars, Command
  <2> QED
    BY <2>2, <2>3
<1>8. ASSUME NEW t \in Tasks, Fault(t) PROVE Prepared(q)' /\ Unknown(q)'
  <2>1. pc' = [pc EXCEPT ![t] = "ended"] /\ UNCHANGED taskVars
    BY <1>8 DEF Fault, Goto
  <2>2. Prepared(q)'
    BY <1>0, <2>1 DEF Shape, Prepared, taskVars
  <2>3. Unknown(q)'
    BY <1>0, <1>8, <2>1, ExecutedType DEF Shape, Unknown, taskVars, Fault
  <2> QED
    BY <2>2, <2>3
<1>9. ASSUME NEW t \in Tasks, Leave(t) PROVE Prepared(q)' /\ Unknown(q)'
  BY <1>0, <1>9 DEF Shape, Leave, Goto, history, outcomes, Prepared, Unknown
<1>10. CASE UNCHANGED vars
  BY <1>0, <1>10 DEF vars, taskVars, history, outcomes, Prepared, Unknown
<1> QED
  BY <1>1, <1>2, <1>3, <1>4, <1>5, <1>6, <1>7, <1>8, <1>9, <1>10 DEF Next

LEMMA TypeStep == TypeOK /\ [Next]_vars => TypeOK'
  BY ShapeStep, KeysStep, PreparedStep DEF TypeOK

\* Type correctness of the registry's state.
THEOREM TypeCorrect == Spec => []TypeOK
  BY TypeInit, TypeStep, PTL DEF Spec

-----------------------------------------------------------------------------
(***************************************************************************)
(* KeyInHands is not inductive: the entry that is left may be the one a    *)
(* rotation is about to remove, and the key that is offered may belong to  *)
(* an operation that fails.  Secured says that some entry of every live    *)
(* client is safe from all pending removals; Held, that some entry with a  *)
(* key in its owner's hands is, whichever of the operations that are about *)
(* to remove one fail (X), which then neither remove anything nor return   *)
(* their key; Owned, that a key never changes hands, so that no operation  *)
(* of another client touches it.                                           *)
(***************************************************************************)
Holding == {"put", "putNew", "remove", "audit"}

Owned ==
  /\ \A d \in Digests : store[d] # None => store[d].id \in created
  /\ \A t \in Tasks :
       /\ pc[t] \in {"putNew", "remove"} => client[t] \in created
       /\ pc[t] = "put" => op[t] = "create" \/ client[t] \in created
       /\ pc[t] \in Holding /\ store[digest[t]] # None =>
            store[digest[t]].id = client[t]
       /\ \A u \in Tasks :
            pc[t] \in Holding /\ pc[u] \in Holding /\ digest[t] = digest[u] =>
              client[t] = client[u]

Lasting(d) == \A t \in Tasks : pc[t] = "remove" => digest[t] # d

Secured == \A i \in created \ condemned : \E d \in Entries(i) : Lasting(d)

Removing == {t \in Tasks : pc[t] = "remove"}

Safe(i, d, X) ==
  /\ d \in handed \/ \E t \in Tasks \ X : Offers(t, i, d)
  /\ \A t \in Removing \ X : digest[t] # d

Held ==
  \A i \in created \ (condemned \cup stranded), X \in SUBSET Tasks :
    X \subseteq Removing => \E d \in Entries(i) : Safe(i, d, X)

IInv == TypeOK /\ Owned /\ Secured /\ Held

LEMMA OwnedInit == Init => Owned
  BY RegistryAssumption DEF Init, Owned, Holding

LEMMA OwnedStep == TypeOK /\ Owned /\ [Next]_vars => Owned'
<1> SUFFICES ASSUME TypeOK, Owned, [Next]_vars PROVE Owned'
  OBVIOUS
<1> USE RegistryAssumption DEF Holding, Owned
<1>0. /\ Shape /\ KeysIssued
      /\ \A t \in Tasks : Prepared(t) /\ Unknown(t)
  BY DEF TypeOK
<1>1. ASSUME NEW t \in Tasks, StartCreate(t) PROVE Owned'
  BY <1>0, <1>1 DEF Shape, KeysIssued, StartCreate, NewKey, Goto
<1>2. ASSUME NEW t \in Tasks, StartById(t) PROVE Owned'
  BY <1>0, <1>2 DEF Shape, StartById, Goto, history, outcomes
<1>3. ASSUME NEW t \in Tasks, NotFound(t) \/ Return(t) PROVE Owned'
  BY <1>0, <1>3 DEF Shape, NotFound, Return, Goto, taskVars, history, outcomes
<1>4. ASSUME NEW t \in Tasks, NEW d \in Entries(client[t]), NEW copy,
             Found(t, d, copy), NEW label \in {"put", "putNew", "remove"},
             Goto(t, label), UNCHANGED <<store, op, client, created>>
      PROVE  Owned'
  <2>1. d \in Digests /\ store[d] # None /\ store[d].id = client[t]
    BY <1>0 DEF Shape, Entries
  <2>2. client[t] \in created
    BY <2>1
  <2> QED
    BY <1>0, <1>4, <2>1, <2>2 DEF Shape, Found, Goto
<1>5. ASSUME NEW t \in Tasks,
             FoundToUpdate(t) \/ FoundToRotate(t) \/ FoundToDelete(t)
      PROVE  Owned'
  <2>1. PICK d \in Entries(client[t]) : \E copy : Found(t, d, copy)
    BY <1>5 DEF FoundToUpdate, FoundToRotate, FoundToDelete
  <2>2. PICK copy : Found(t, d, copy)
    BY <2>1
  <2>3. UNCHANGED <<store, op, client, created>>
    BY <1>5 DEF FoundToUpdate, FoundToRotate, FoundToDelete, history, outcomes
  <2>4. PICK label \in {"put", "putNew", "remove"} : Goto(t, label)
    BY <1>5 DEF FoundToUpdate, FoundToRotate, FoundToDelete
  <2> QED
    BY <1>4, <2>1, <2>2, <2>3, <2>4
<1>6. ASSUME NEW t \in Tasks, Executed(t), UNCHANGED taskVars,
             \/ pc' = [pc EXCEPT ![t] = "ended"]
             \/ pc' = [pc EXCEPT ![t] =
                          IF pc[t] = "putNew" THEN "remove" ELSE "audit"]
      PROVE  Owned'
  <2>1. CASE PutStored(t)
    BY <1>0, <1>6, <2>1 DEF Shape, Prepared, PutStored, taskVars, Waiting
  <2>2. CASE NewStored(t)
    BY <1>0, <1>6, <2>2 DEF Shape, Prepared, Unknown, NewStored, taskVars, Waiting
  <2>3. CASE Removed(t)
    BY <1>0, <1>6, <2>3 DEF Shape, Prepared, Removed, taskVars, Waiting
  <2> QED
    BY <1>6, <2>1, <2>2, <2>3 DEF Executed
<1>7. ASSUME NEW t \in Tasks, Command(t) PROVE Owned'
  BY <1>6, <1>7 DEF Command, Goto
<1>8. ASSUME NEW t \in Tasks, Fault(t) PROVE Owned'
  <2>1. CASE Executed(t)
    BY <1>6, <1>8, <2>1 DEF Fault, Goto
  <2>2. CASE UNCHANGED <<store, created>>
    BY <1>0, <1>8, <2>2 DEF Shape, Fault, Goto, taskVars
  <2> QED
    BY <1>8, <2>1, <2>2 DEF Fault
<1>9. ASSUME NEW t \in Tasks, Leave(t) PROVE Owned'
  BY <1>0, <1>9 DEF Shape, Leave, Goto, history, outcomes
<1>10. CASE UNCHANGED vars
  BY <1>10 DEF vars, taskVars, history, outcomes
<1> QED
  BY <1>1, <1>2, <1>3, <1>5, <1>7, <1>8, <1>9, <1>10 DEF Next

LEMMA SecuredStep == TypeOK /\ Owned /\ Secured /\ [Next]_vars => Secured'
<1> SUFFICES ASSUME TypeOK, Owned, Secured, [Next]_vars,
                    NEW i \in created', i \notin condemned'
             PROVE  \E d \in Entries(i)' : Lasting(d)'
  BY DEF Secured
<1> USE RegistryAssumption DEF Holding, Lasting, Entries
<1>0. /\ Shape /\ KeysIssued
      /\ \A t \in Tasks : Prepared(t) /\ Unknown(t)
  BY DEF TypeOK
<1> DEFINE Same == store' = store /\ created' = created /\ condemned' = condemned
<1>1. ASSUME Same,
             NEW t \in Tasks, NEW label \in {"put", "putNew", "read", "ended", "idle"},
             pc' = [pc EXCEPT ![t] = label],
             \A u \in Tasks \ {t} : digest'[u] = digest[u]
      PROVE  \E d \in Entries(i)' : Lasting(d)'
  <2>1. PICK d \in Entries(i) : Lasting(d)
    BY <1>1 DEF Secured
  <2>2. Lasting(d)'
    BY <1>0, <1>1, <2>1 DEF Shape
  <2> QED
    BY <1>1, <2>1, <2>2
<1>2. ASSUME NEW t \in Tasks, StartCreate(t) \/ StartById(t) \/ NotFound(t) \/ Return(t)
      PROVE  \E d \in Entries(i)' : Lasting(d)'
  BY <1>0, <1>1, <1>2
     DEF Shape, StartCreate, StartById, NotFound, Return, Goto, taskVars, history, outcomes
<1>3. ASSUME NEW t \in Tasks, FoundToUpdate(t) \/ FoundToRotate(t)
      PROVE  \E d \in Entries(i)' : Lasting(d)'
  <2>1. Same /\ \E d \in Digests : digest' = [digest EXCEPT ![t] = d]
    BY <1>3 DEF FoundToUpdate, FoundToRotate, Found, history, outcomes
  <2>2. PICK label \in {"put", "putNew"} : pc' = [pc EXCEPT ![t] = label]
    BY <1>3 DEF FoundToUpdate, FoundToRotate, Goto
  <2>3. \A u \in Tasks \ {t} : digest'[u] = digest[u]
    BY <1>0, <2>1 DEF Shape
  <2> HIDE DEF Same
  <2> QED
    BY <1>1, <2>1, <2>2, <2>3
<1>4. ASSUME NEW t \in Tasks, FoundToDelete(t)
      PROVE  \E d \in Entries(i)' : Lasting(d)'
  <2>1. /\ store' = store /\ created' = created /\ condemned' = condemned \cup {client[t]}
        /\ pc' = [pc EXCEPT ![t] = "remove"]
    BY <1>4 DEF FoundToDelete, Goto
  <2>2. PICK e \in Entries(client[t]) : digest' = [digest EXCEPT ![t] = e]
    BY <1>4 DEF FoundToDelete, Found
  <2>3. PICK d \in Entries(i) : Lasting(d)
    BY <2>1 DEF Secured
  <2>4. d # e
    BY <2>1, <2>2, <2>3
  <2>5. Lasting(d)'
    BY <1>0, <2>1, <2>2, <2>3, <2>4 DEF Shape
  <2> QED
    BY <2>1, <2>3, <2>5
<1>5. ASSUME NEW t \in Tasks, Executed(t), UNCHANGED <<taskVars, condemned>>,
             \/ pc' = [pc EXCEPT ![t] = "ended"]
             \/ pc' = [pc EXCEPT ![t] =
                          IF pc[t] = "putNew" THEN "remove" ELSE "audit"]
      PROVE  \E d \in Entries(i)' : Lasting(d)'
  <2> USE DEF Waiting
  <2>1. CASE PutStored(t)
    <3>1. /\ store' = [store EXCEPT ![digest[t]] = record[t]]
          /\ record[t] # None /\ record[t].id = client[t] /\ digest[t] \in Digests
      BY <1>0, <2>1 DEF PutStored, Prepared
    <3>2. ASSUME NEW d \in Digests, Lasting(d) PROVE Lasting(d)'
      BY <1>0, <1>5, <2>1, <3>2 DEF Shape, PutStored, taskVars
    <3>3. CASE i \in created
      <4>1. PICK d \in Entries(i) : Lasting(d)
        BY <1>5, <3>3 DEF Secured
      <4>2. d = digest[t] => client[t] = i
        BY <1>0, <2>1, <4>1 DEF Owned, PutStored, Shape
      <4>3. d \in Entries(i)'
        BY <1>0, <3>1, <4>1, <4>2 DEF Shape
      <4> QED
        BY <3>2, <4>1, <4>3
    <3>4. CASE i \notin created
      <4>1. i = client[t]
        BY <2>1, <3>4 DEF PutStored
      <4>2. Lasting(digest[t])
        BY <1>0, <2>1, <3>4, <4>1 DEF Owned, PutStored
      <4>3. digest[t] \in Entries(i)'
        BY <1>0, <3>1, <4>1 DEF Shape
      <4> QED
        BY <3>1, <3>2, <4>2, <4>3
    <3> QED
      BY <3>3, <3>4
  <2>2. CASE NewStored(t)
    <3>1. /\ store' = [store EXCEPT ![fresh[t]] = record[t]]
          /\ created' = created /\ pc[t] = "putNew"
          /\ record[t] # None /\ record[t].id = client[t]
          /\ fresh[t] \in Digests /\ digest[t] \in Digests
          /\ store[fresh[t]] = None /\ \A u \in Tasks : digest[u] # fresh[t]
      BY <1>0, <2>2 DEF NewStored, Prepared, Unknown
    <3>2. CASE i = client[t]
      <4>1. fresh[t] \in Entries(i)'
        BY <1>0, <3>1, <3>2 DEF Shape
      <4>2. \A u \in Tasks : pc'[u] = "remove" => digest'[u] # fresh[t]
        BY <1>5, <3>1 DEF taskVars
      <4> QED
        BY <4>1, <4>2
    <3>3. CASE i # client[t]
      <4>1. PICK d \in Entries(i) : Lasting(d)
        BY <1>5, <3>1 DEF Secured
      <4>2. d # digest[t] /\ d # fresh[t]
        BY <3>1, <3>3, <4>1 DEF Owned
      <4>3. d \in Entries(i)'
        BY <1>0, <3>1, <4>1, <4>2 DEF Shape
      <4>4. Lasting(d)'
        BY <1>0, <1>5, <4>1, <4>2 DEF Shape, taskVars
      <4> QED
        BY <4>3, <4>4
    <3> QED
      BY <3>2, <3>3
  <2>3. CASE Removed(t)
    <3>1. /\ store' = [store EXCEPT ![digest[t]] = None]
          /\ created' = created /\ pc[t] = "remove"
      BY <2>3 DEF Removed
    <3>2. PICK d \in Entries(i) : Lasting(d)
      BY <1>5, <3>1 DEF Secured
    <3>3. d \in Entries(i)'
      BY <1>0, <3>1, <3>2 DEF Shape
    <3>4. Lasting(d)'
      BY <1>0, <1>5, <3>1, <3>2 DEF Shape, taskVars
    <3> QED
      BY <3>3, <3>4
  <2> QED
    BY <1>5, <2>1, <2>2, <2>3 DEF Executed
<1>6. ASSUME NEW t \in Tasks, Command(t) PROVE \E d \in Entries(i)' : Lasting(d)'
  BY <1>5, <1>6 DEF Command, Goto
<1>7. ASSUME NEW t \in Tasks, Fault(t) PROVE \E d \in Entries(i)' : Lasting(d)'
  <2>1. CASE Executed(t)
    BY <1>5, <1>7, <2>1 DEF Fault, Goto
  <2>2. CASE UNCHANGED <<store, created>>
    BY <1>1, <1>7, <2>2 DEF Fault, Goto, taskVars, outcomes
  <2> QED
    BY <1>7, <2>1, <2>2 DEF Fault
<1>8. ASSUME NEW t \in Tasks, Leave(t) PROVE \E d \in Entries(i)' : Lasting(d)'
  BY <1>0, <1>1, <1>8 DEF Shape, Leave, Goto, history, outcomes
<1>9. CASE UNCHANGED vars
  BY <1>9 DEF vars, taskVars, history, outcomes, Secured
<1> QED
  BY <1>2, <1>3, <1>4, <1>6, <1>7, <1>8, <1>9 DEF Next

\* A write keeps the entry of a client, unless it is what it removes.
LEMMA EntryKept ==
  ASSUME TypeOK, Owned, NEW t \in Tasks, Executed(t) \/ UNCHANGED <<store, created>>,
         NEW i, NEW d \in Entries(i), Removed(t) => d # digest[t]
  PROVE  d \in Entries(i)'
<1>0. /\ Shape /\ Prepared(t) /\ Unknown(t)
      /\ d \in Digests /\ store[d] # None /\ store[d].id = i
  BY DEF TypeOK, Entries
<1>1. CASE PutStored(t)
  <2>1. /\ record[t] # None /\ record[t].id = client[t]
        /\ d = digest[t] => client[t] = i
    BY <1>0, <1>1, RegistryAssumption DEF PutStored, Prepared, Owned, Holding
  <2> QED
    BY <1>0, <1>1, <2>1 DEF PutStored, Entries, Shape
<1>2. CASE NewStored(t)
  <2>1. d # fresh[t]
    BY <1>0, <1>2 DEF NewStored, Unknown
  <2> QED
    BY <1>0, <1>2, <2>1 DEF NewStored, Entries, Shape
<1>3. CASE Removed(t)
  BY <1>0, <1>3 DEF Removed, Entries, Shape
<1>4. CASE store' = store
  BY <1>4 DEF Entries
<1> QED
  BY <1>1, <1>2, <1>3, <1>4 DEF Executed

\* The steps of t change nothing of what another operation is about to do.
Apart(t) ==
  \A u \in Tasks \ {t} :
    /\ pc'[u] = pc[u] /\ op'[u] = op[u] /\ client'[u] = client[u]
    /\ digest'[u] = digest[u] /\ fresh'[u] = fresh[u]

\* An entry that is safe if those in Y fail is safe after a step of t if those
\* in X do: what t offered it still offers, or has returned, and it does not
\* begin to remove the entry.
LEMMA StaysSafe ==
  ASSUME NEW t \in Tasks, NEW i, NEW d, NEW X, NEW Y, Safe(i, d, Y), Apart(t),
         \A u \in Tasks \ {t} : u \in X <=> u \in Y,
         handed \subseteq handed',
         pc'[t] = "remove" /\ t \notin X => digest'[t] # d,
         Offers(t, i, d) /\ t \notin Y =>
           d \in handed' \/ (Offers(t, i, d)' /\ t \notin X)
  PROVE  Safe(i, d, X)'
<1>1. \A u \in Tasks \ {t} : Offers(u, i, d) => Offers(u, i, d)'
  BY DEF Offers, Makes, Key, Apart
<1>2. d \in handed' \/ \E u \in Tasks \ X : Offers(u, i, d)'
  BY <1>1 DEF Safe
<1>3. \A u \in Removing' \ X : digest'[u] # d
  BY DEF Safe, Removing, Apart
<1> QED
  BY <1>2, <1>3 DEF Safe

LEMMA HeldStep == TypeOK /\ Owned /\ Held /\ [Next]_vars => Held'
<1> SUFFICES ASSUME TypeOK, Owned, Held, [Next]_vars,
                    NEW i \in created', i \notin condemned', i \notin stranded',
                    NEW X \in SUBSET Tasks, X \subseteq Removing'
             PROVE  \E d \in Entries(i)' : Safe(i, d, X)'
  BY DEF Held
<1> USE RegistryAssumption
<1>0. /\ Shape
      /\ \A t \in Tasks : Prepared(t) /\ Unknown(t)
  BY DEF TypeOK
<1>1. ASSUME NEW Y \in SUBSET Tasks, Y \subseteq Removing,
             i \in created, i \notin condemned, i \notin stranded
      PROVE  \E d \in Entries(i) : Safe(i, d, Y)
  BY <1>1 DEF Held
<1>2. ASSUME NEW t \in Tasks,
             \/ StartCreate(t) \/ StartById(t) \/ NotFound(t)
             \/ FoundToUpdate(t) \/ FoundToRotate(t) \/ Leave(t)
      PROVE  \E d \in Entries(i)' : Safe(i, d, X)'
  <2>0. /\ UNCHANGED <<store, created, condemned, stranded, handed>>
        /\ pc[t] \in {"idle", "read", "ended"}
    BY <1>2
       DEF StartCreate, StartById, NotFound, FoundToUpdate, FoundToRotate, Found, Leave,
           history, outcomes
  <2>1. /\ \A u \in Tasks \ {t} : pc'[u] = pc[u]
        /\ pc'[t] \notin {"remove", "audit"}
    <3>1. PICK label \in {"put", "read", "ended", "putNew", "idle"} : Goto(t, label)
      BY <1>2 DEF StartCreate, StartById, NotFound, FoundToUpdate, FoundToRotate, Leave
    <3>2. pc' = [pc EXCEPT ![t] = label]
      BY <3>1 DEF Goto
    <3> QED
      BY <1>0, <3>2 DEF Shape
  <2>9. Apart(t)
    <3>1. CASE StartCreate(t)
      BY <1>0, <2>1, <3>1 DEF Shape, StartCreate, Apart
    <3>2. CASE StartById(t) \/ NotFound(t)
      BY <1>0, <2>1, <3>2 DEF Shape, StartById, NotFound, taskVars, Apart
    <3>3. CASE FoundToUpdate(t)
      BY <1>0, <2>1, <3>3 DEF Shape, FoundToUpdate, Found, Apart
    <3>4. CASE FoundToRotate(t)
      BY <1>0, <2>1, <3>4 DEF Shape, FoundToRotate, Found, Apart
    <3>5. CASE Leave(t)
      BY <1>0, <2>1, <3>5 DEF Shape, Leave, Apart
    <3> QED
      BY <1>2, <3>1, <3>2, <3>3, <3>4, <3>5
  <2>2. X \subseteq Removing
    BY <2>0, <2>1, <2>9 DEF Removing, Apart
  <2>3. PICK d \in Entries(i) : Safe(i, d, X)
    BY <1>1, <2>0, <2>1, <2>9, <2>2
  <2>4. ~Offers(t, i, d)
    BY <2>0, <2>1, <2>9 DEF Offers
  <2>5. Safe(i, d, X)'
    BY <2>0, <2>1, <2>9, <2>3, <2>4, StaysSafe
  <2> QED
    BY <2>0, <2>1, <2>9, <2>3, <2>5 DEF Entries
<1>3. ASSUME NEW t \in Tasks, FoundToDelete(t)
      PROVE  \E d \in Entries(i)' : Safe(i, d, X)'
  <2>1. PICK e \in Entries(client[t]) : digest' = [digest EXCEPT ![t] = e]
    BY <1>3 DEF FoundToDelete, Found
  <2>2. /\ UNCHANGED <<store, created, stranded, handed>> /\ pc[t] = "read"
        /\ condemned' = condemned \cup {client[t]} /\ digest'[t] = e
        /\ Apart(t)
    BY <1>0, <1>3, <2>1 DEF Shape, FoundToDelete, Found, Goto, outcomes, Apart
  <2>3. X \ {t} \subseteq Removing
    BY <2>2 DEF Removing, Apart
  <2>4. PICK d \in Entries(i) : Safe(i, d, X \ {t})
    BY <1>1, <2>2, <2>3
  <2>5. d # e
    BY <2>1, <2>2, <2>4 DEF Entries
  <2>6. ~Offers(t, i, d)
    BY <2>2 DEF Offers
  <2>7. Safe(i, d, X)'
    BY <2>2, <2>4, <2>5, <2>6, StaysSafe
  <2> QED
    BY <2>2, <2>4, <2>7 DEF Entries
<1>4. ASSUME NEW t \in Tasks, Return(t)
      PROVE  \E d \in Entries(i)' : Safe(i, d, X)'
  <2>1. /\ UNCHANGED <<store, created, condemned, stranded>>
        /\ pc[t] = "audit" /\ pc'[t] = "ended" /\ Apart(t)
        /\ handed \subseteq handed'
        /\ Makes(t) => Key(t) \in handed'
    BY <1>0, <1>4 DEF Shape, Return, Goto, taskVars, Apart
  <2>2. X \subseteq Removing
    BY <2>1 DEF Removing, Apart
  <2>3. PICK d \in Entries(i) : Safe(i, d, X)
    BY <1>1, <2>1, <2>2
  <2>4. Offers(t, i, d) => d \in handed'
    BY <2>1 DEF Offers
  <2>5. Safe(i, d, X)'
    BY <2>1, <2>3, <2>4, StaysSafe
  <2> QED
    BY <2>1, <2>3, <2>5 DEF Entries
<1>5. ASSUME NEW t \in Tasks, Command(t) \/ Fault(t)
      PROVE  /\ Executed(t) \/ (UNCHANGED <<store, created>> /\ Fault(t))
             /\ UNCHANGED <<taskVars, condemned, handed>> /\ i \notin stranded
             /\ Apart(t) /\ X \ {t} \subseteq Removing /\ pc[t] \in Waiting
             /\ Command(t) =>
                  pc[t] \notin {"read", "audit"} /\ pc'[t] = IF pc[t] = "putNew" THEN "remove" ELSE "audit"
             /\ Fault(t) => pc'[t] = "ended" /\ ~(LosesKey(t) /\ client[t] = i)
  <2>1. /\ Executed(t) \/ (UNCHANGED <<store, created>> /\ Fault(t))
        /\ UNCHANGED <<taskVars, condemned, handed>> /\ stranded \subseteq stranded'
        /\ pc[t] \in Waiting
        /\ Fault(t) => ~(LosesKey(t) /\ client[t] = i)
    BY <1>5 DEF Command, Fault, outcomes, Executed, PutStored, NewStored, Removed, Waiting
  <2>2. /\ \A u \in Tasks \ {t} : pc'[u] = pc[u]
        /\ Fault(t) => pc'[t] = "ended"
        /\ Command(t) =>
             pc[t] \notin {"read", "audit"} /\ pc'[t] = IF pc[t] = "putNew" THEN "remove" ELSE "audit"
    BY <1>0, <1>5 DEF Shape, Command, Fault, Goto, Executed, PutStored, NewStored, Removed
  <2>3. Apart(t)
    BY <2>1, <2>2 DEF Apart, taskVars
  <2>4. X \ {t} \subseteq Removing
    BY <2>2 DEF Removing
  <2> QED
    BY <2>1, <2>2, <2>3, <2>4
\* The rule for the entries that a write leaves alone.
<1>6. ASSUME NEW t \in Tasks, Command(t) \/ Fault(t),
             NEW Y, NEW d \in Entries(i), Safe(i, d, Y), Y \ {t} = X \ {t},
             pc[t] = "remove" /\ Executed(t) => d # digest[t],
             pc'[t] = "remove" /\ t \notin X => digest[t] # d,
             Offers(t, i, d) /\ t \notin Y => Offers(t, i, d)' /\ t \notin X
      PROVE  \E e \in Entries(i)' : Safe(i, e, X)'
  <2>1. d \in Entries(i)'
    BY <1>5, <1>6, EntryKept DEF Removed, Executed
  <2>2. handed \subseteq handed' /\ digest' = digest
    BY <1>5, <1>6 DEF taskVars
  <2>3. Safe(i, d, X)'
    BY <1>5, <1>6, <2>2, StaysSafe
  <2> QED
    BY <2>1, <2>3
<1>7. ASSUME NEW t \in Tasks, Command(t) \/ Fault(t), pc[t] = "put"
      PROVE  \E e \in Entries(i)' : Safe(i, e, X)'
  <2>1. pc'[t] # "remove" /\ t \notin X /\ X \subseteq Removing
    BY <1>5, <1>7 DEF Removing
  <2>2. CASE i \in created
    <3>1. PICK d \in Entries(i) : Safe(i, d, X)
      BY <1>1, <1>5, <1>7, <2>1, <2>2
    <3>2. ~Offers(t, i, d)
      BY <1>7 DEF Offers
    <3> QED
      BY <1>6, <1>7, <2>1, <3>1, <3>2
  <2>3. CASE i \notin created
    <3>1. /\ store' = [store EXCEPT ![digest[t]] = record[t]]
          /\ i = client[t] /\ op[t] = "create"
          /\ record[t] # None /\ record[t].id = i /\ digest[t] \in Digests
      BY <1>0, <1>5, <1>7, <2>3
         DEF Executed, PutStored, NewStored, Removed, Prepared, Owned
    <3>2. store[digest[t]] = None
      BY <1>7, <2>3, <3>1 DEF Owned, Holding
    <3>3. store' # store
      BY <1>0, <3>1, <3>2 DEF Shape
    <3>4. Command(t)
      BY <1>5, <1>7, <3>1, <3>3 DEF LosesKey, Makes
    <3>5. PICK e \in Digests : e = digest[t]
      BY <3>1
    <3>6. Offers(t, i, e)'
      BY <1>5, <1>7, <3>1, <3>4, <3>5 DEF Offers, Makes, Key, taskVars
    <3>7. \A u \in Removing' : digest'[u] # e
      BY <1>5, <1>7, <2>1, <2>3, <3>1, <3>5 DEF Removing, Apart, Owned, Holding
    <3>8. e \in Entries(i)'
      BY <1>0, <3>1, <3>5 DEF Shape, Entries
    <3>9. Safe(i, e, X)'
      BY <2>1, <3>6, <3>7 DEF Safe
    <3> QED
      BY <3>8, <3>9
  <2> QED
    BY <2>2, <2>3
<1>8. ASSUME NEW t \in Tasks, Command(t) \/ Fault(t), pc[t] = "putNew"
      PROVE  \E e \in Entries(i)' : Safe(i, e, X)'
  <2>1. i \in created
    BY <1>5, <1>8 DEF Executed, PutStored, NewStored, Removed
  <2>2. X \ {t} \in SUBSET Tasks
    OBVIOUS
  <2>3. PICK d \in Entries(i) : Safe(i, d, X \ {t})
    BY <1>1, <1>5, <1>8, <2>1, <2>2
  <2>4. ~Offers(t, i, d)
    BY <1>8 DEF Offers
  <2>5. CASE ~(pc'[t] = "remove" /\ t \notin X /\ digest[t] = d)
    BY <1>6, <1>8, <2>3, <2>4, <2>5
  <2>6. CASE pc'[t] = "remove" /\ t \notin X /\ digest[t] = d
    <3>1. Command(t)
      BY <1>5, <1>8, <2>6
    <3>2. client[t] = i
      BY <1>8, <2>3, <2>6 DEF Owned, Holding, Entries
    <3>3. /\ store' = [store EXCEPT ![fresh[t]] = record[t]]
          /\ record[t] # None /\ record[t].id = i /\ fresh[t] \in Digests
          /\ op[t] = "rotate" /\ \A u \in Tasks : digest[u] # fresh[t]
      BY <1>0, <1>8, <3>1, <3>2
         DEF Command, Executed, PutStored, NewStored, Removed, Prepared, Unknown
    <3>4. PICK e \in Digests : e = fresh[t]
      BY <3>3
    <3>5. e \in Entries(i)'
      BY <1>0, <3>3, <3>4 DEF Shape, Entries
    <3>6. Offers(t, i, e)'
      BY <1>5, <1>8, <2>6, <3>2, <3>3, <3>4 DEF Offers, Makes, Key, taskVars
    <3>7. \A u \in Removing' : digest'[u] # e
      BY <1>5, <1>8, <3>3, <3>4 DEF Removing, taskVars
    <3>8. Safe(i, e, X)'
      BY <2>6, <3>6, <3>7 DEF Safe
    <3> QED
      BY <3>5, <3>8
  <2> QED
    BY <2>5, <2>6
<1>9. ASSUME NEW t \in Tasks, Command(t) \/ Fault(t), pc[t] = "remove"
      PROVE  \E e \in Entries(i)' : Safe(i, e, X)'
  <2>1. i \in created /\ pc'[t] # "remove" /\ t \notin X /\ t \in Removing
    BY <1>5, <1>9 DEF Executed, PutStored, NewStored, Removed, Removing
  <2>2. CASE Fault(t) /\ Makes(t) /\ client[t] = i
    <3>1. store' = store
      BY <1>5, <1>9, <2>2 DEF LosesKey
    <3>2. X \cup {t} \in SUBSET Tasks /\ X \cup {t} \subseteq Removing
      BY <1>5, <1>9, <2>1
    <3>3. PICK d \in Entries(i) : Safe(i, d, X \cup {t})
      BY <1>1, <1>5, <1>9, <2>1, <3>2
    <3>4. d \in Entries(i)'
      BY <3>1 DEF Entries
    <3>5. handed \subseteq handed'
      BY <1>5, <1>9
    <3>6. Safe(i, d, X)'
      BY <1>5, <1>9, <2>1, <3>3, <3>5, StaysSafe
    <3> QED
      BY <3>4, <3>6
  <2>3. CASE ~(Fault(t) /\ Makes(t) /\ client[t] = i)
    <3>1. X \subseteq Removing
      BY <1>5, <1>9, <2>1
    <3>2. PICK d \in Entries(i) : Safe(i, d, X)
      BY <1>1, <1>5, <1>9, <2>1, <3>1
    <3>3. digest[t] # d
      BY <2>1, <3>2 DEF Safe
    <3>4. Offers(t, i, d) => Offers(t, i, d)'
      BY <1>5, <1>9, <2>3 DEF Offers, Makes, Key, taskVars
    <3> QED
      BY <1>6, <1>9, <2>1, <3>2, <3>3, <3>4
  <2> QED
    BY <2>2, <2>3
<1>10. ASSUME NEW t \in Tasks, Fault(t), pc[t] \in {"read", "audit"}
       PROVE  \E e \in Entries(i)' : Safe(i, e, X)'
  <2>1. /\ i \in created /\ pc'[t] = "ended" /\ t \notin X /\ X \subseteq Removing
        /\ ~Executed(t)
    BY <1>5, <1>10 DEF Executed, PutStored, NewStored, Removed, Removing
  <2>2. PICK d \in Entries(i) : Safe(i, d, X)
    BY <1>1, <1>5, <1>10, <2>1
  <2>3. ~Offers(t, i, d)
    BY <1>5, <1>10 DEF Offers, LosesKey
  <2> QED
    BY <1>6, <1>10, <2>1, <2>2, <2>3
<1>11. ASSUME NEW t \in Tasks, Command(t) \/ Fault(t)
       PROVE  \E d \in Entries(i)' : Safe(i, d, X)'
  BY <1>5, <1>7, <1>8, <1>9, <1>10, <1>11 DEF Waiting
<1>12. CASE UNCHANGED vars
  <2>1. /\ Removing' = Removing
        /\ \A d : Safe(i, d, X) => Safe(i, d, X)'
    BY <1>12 DEF vars, taskVars, history, outcomes, Safe, Removing, Offers, Makes, Key
  <2> QED
    BY <1>1, <1>12, <2>1 DEF vars, history, outcomes, Entries
<1> QED
  BY <1>2, <1>3, <1>4, <1>11, <1>12 DEF Next

\* KeyInHands: whatever runs beside a rotation and whatever fails, on either
\* backend, a client that nobody deletes keeps an entry; and until the answer
\* of a create or a rotation of it is lost, one whose key its owner can have.
THEOREM ClientsKeepAKey == Spec => []KeyInHands
<1>1. Init => IInv
  BY TypeInit, OwnedInit DEF IInv, Secured, Held, Init
<1>2. IInv /\ [Next]_vars => IInv'
  BY TypeStep, OwnedStep, SecuredStep, HeldStep DEF IInv
<1>3. IInv => KeyInHands
  <2>1. ASSUME Secured, NEW i \in created \ condemned PROVE Entries(i) # {}
    BY <2>1 DEF Secured
  <2>2. ASSUME Held, NEW i \in created \ condemned, i \notin stranded
        PROVE  \E d \in Entries(i) : InHands(i, d)
    <3>1. {} \in SUBSET Tasks /\ {} \subseteq Removing
      OBVIOUS
    <3>2. PICK d \in Entries(i) : Safe(i, d, {})
      BY <2>2, <3>1 DEF Held
    <3> QED
      BY <3>2 DEF Safe, InHands
  <2> QED
    BY <2>1, <2>2 DEF IInv, KeyInHands
<1> QED
  BY <1>1, <1>2, <1>3, PTL DEF Spec

\* Dead and gone stays what nobody is about to store: the other operations make
\* new keys and new ids, or begin with what they find.
LEMMA RemovalStep ==
  ASSUME TypeOK, [Next]_vars
  PROVE  /\ \A d \in Digests : Dead(d) => Dead(d)'
         /\ \A i \in Ids : Gone(i) => Gone(i)'
<1>0. Shape /\ \A t \in Tasks : Prepared(t)
  BY DEF TypeOK
\* Both follow if t stores neither, and is not about to.
<1>1. ASSUME NEW t \in Tasks, NEW d \in Digests, Dead(d),
             issuedKeys \subseteq issuedKeys', store'[d] = store[d],
             \A u \in Tasks \ {t} :
               pc'[u] = pc[u] /\ digest'[u] = digest[u] /\ fresh'[u] = fresh[u],
             pc'[t] = "put" => digest'[t] # d, pc'[t] = "putNew" => fresh'[t] # d
      PROVE  Dead(d)'
  BY <1>1 DEF Dead
<1>2. ASSUME NEW t \in Tasks, NEW i \in Ids, Gone(i),
             issuedIds \subseteq issuedIds', Entries(i)' = {},
             \A u \in Tasks \ {t} : pc'[u] = pc[u] /\ client'[u] = client[u],
             pc'[t] \in {"put", "putNew"} => client'[t] # i
      PROVE  Gone(i)'
  BY <1>2 DEF Gone
<1>3. ASSUME NEW t \in Tasks, StartCreate(t)
      PROVE  /\ \A d \in Digests : Dead(d) => Dead(d)'
             /\ \A i \in Ids : Gone(i) => Gone(i)'
  <2>1. PICK e \in Digests, j \in Ids \ issuedIds :
          /\ e \notin issuedKeys /\ issuedKeys' = issuedKeys \cup {e}
          /\ issuedIds' = issuedIds \cup {j}
          /\ client' = [client EXCEPT ![t] = j]
          /\ digest' = [digest EXCEPT ![t] = e]
    BY <1>3 DEF StartCreate, NewKey
  <2>2. /\ pc' = [pc EXCEPT ![t] = "put"] /\ UNCHANGED <<store, fresh>>
    BY <1>3 DEF StartCreate, Goto
  <2>3. ASSUME NEW d \in Digests, Dead(d) PROVE Dead(d)'
    BY <1>0, <1>1, <2>1, <2>2, <2>3 DEF Shape, Dead
  <2>4. ASSUME NEW i \in Ids, Gone(i) PROVE Gone(i)'
    BY <1>0, <1>2, <2>1, <2>2, <2>4 DEF Shape, Gone, Entries
  <2> QED
    BY <2>3, <2>4
<1>4. ASSUME NEW t \in Tasks, StartById(t) \/ NotFound(t) \/ Return(t) \/ Leave(t)
      PROVE  /\ \A d \in Digests : Dead(d) => Dead(d)'
             /\ \A i \in Ids : Gone(i) => Gone(i)'
  <2>1. /\ UNCHANGED <<store, issuedKeys, issuedIds>> /\ pc'[t] \notin {"put", "putNew"}
        /\ \A u \in Tasks \ {t} : pc'[u] = pc[u]
    BY <1>0, <1>4 DEF Shape, StartById, NotFound, Return, Leave, Goto, history
  <2>2. \A u \in Tasks \ {t} :
          digest'[u] = digest[u] /\ fresh'[u] = fresh[u] /\ client'[u] = client[u]
    <3>1. CASE StartById(t)
      BY <1>0, <3>1 DEF Shape, StartById
    <3>2. CASE NotFound(t) \/ Return(t)
      BY <3>2 DEF NotFound, Return, taskVars
    <3>3. CASE Leave(t)
      BY <1>0, <3>3 DEF Shape, Leave
    <3> QED
      BY <1>4, <3>1, <3>2, <3>3
  <2>3. ASSUME NEW d \in Digests, Dead(d) PROVE Dead(d)'
    BY <1>1, <2>1, <2>2, <2>3
  <2>4. ASSUME NEW i \in Ids, Gone(i) PROVE Gone(i)'
    BY <1>2, <2>1, <2>2, <2>4 DEF Gone, Entries
  <2> QED
    BY <2>3, <2>4
<1>5. ASSUME NEW t \in Tasks, FoundToUpdate(t) \/ FoundToRotate(t) \/ FoundToDelete(t)
      PROVE  /\ \A d \in Digests : Dead(d) => Dead(d)'
             /\ \A i \in Ids : Gone(i) => Gone(i)'
  <2>1. PICK e \in Entries(client[t]) : digest' = [digest EXCEPT ![t] = e]
    BY <1>5 DEF FoundToUpdate, FoundToRotate, FoundToDelete, Found
  <2>2. /\ UNCHANGED <<store, client, issuedIds>> /\ issuedKeys \subseteq issuedKeys'
        /\ e \in Digests /\ store[e] # None
    BY <1>5, <2>1
       DEF FoundToUpdate, FoundToRotate, FoundToDelete, NewKey, history, Entries
  <2>3. \A u \in Tasks \ {t} : pc'[u] = pc[u] /\ digest'[u] = digest[u]
    BY <1>0, <1>5, <2>1 DEF Shape, FoundToUpdate, FoundToRotate, FoundToDelete, Goto
  <2>4. /\ \A u \in Tasks \ {t} : fresh'[u] = fresh[u]
        /\ pc'[t] = "putNew" => fresh'[t] \notin issuedKeys
    <3>1. CASE FoundToRotate(t)
      BY <1>0, <3>1 DEF Shape, FoundToRotate, NewKey
    <3>2. CASE FoundToUpdate(t) \/ FoundToDelete(t)
      BY <1>0, <3>2 DEF Shape, FoundToUpdate, FoundToDelete, Goto
    <3> QED
      BY <1>5, <3>1, <3>2
  <2>5. ASSUME NEW d \in Digests, Dead(d) PROVE Dead(d)'
    <3>1. d # e /\ digest'[t] = e
      BY <1>0, <2>1, <2>2, <2>5 DEF Shape, Dead
    <3> QED
      BY <1>1, <2>2, <2>3, <2>4, <2>5, <3>1 DEF Dead
  <2>6. ASSUME NEW i \in Ids, Gone(i) PROVE Gone(i)'
    BY <1>2, <2>1, <2>2, <2>3, <2>6 DEF Gone, Entries
  <2> QED
    BY <2>5, <2>6
<1>6. ASSUME NEW t \in Tasks, Command(t) \/ Fault(t)
      PROVE  /\ \A d \in Digests : Dead(d) => Dead(d)'
             /\ \A i \in Ids : Gone(i) => Gone(i)'
  <2>1. /\ Executed(t) \/ store' = store
        /\ UNCHANGED <<taskVars, issuedKeys, issuedIds>>
    BY <1>6 DEF Command, Fault
  <2>2. pc'[t] \notin {"put", "putNew"} /\ \A u \in Tasks \ {t} : pc'[u] = pc[u]
    BY <1>0, <1>6 DEF Shape, Command, Fault, Goto
  <2>3. ASSUME NEW d \in Digests, Dead(d) PROVE Dead(d)'
    <3>1. store'[d] = store[d]
      BY <1>0, <2>1, <2>3 DEF Shape, Dead, Executed, PutStored, NewStored, Removed
    <3> QED
      BY <1>1, <2>1, <2>2, <2>3, <3>1 DEF taskVars
  <2>4. ASSUME NEW i \in Ids, Gone(i) PROVE Gone(i)'
    <3>1. pc[t] \in {"put", "putNew"} => client[t] # i
      BY <2>4 DEF Gone
    <3>2. pc[t] \in {"put", "putNew"} => record[t].id # i
      BY <1>0, <3>1 DEF Prepared
    <3>3. Entries(i)' = {}
      BY <1>0, <2>1, <2>4, <3>2
         DEF Shape, Gone, Entries, Executed, PutStored, NewStored, Removed
    <3> QED
      BY <1>2, <2>1, <2>2, <2>4, <3>3 DEF taskVars
  <2> QED
    BY <2>3, <2>4
<1>7. CASE UNCHANGED vars
  BY <1>7 DEF vars, taskVars, history, Dead, Gone, Entries
<1> QED
  BY <1>3, <1>4, <1>5, <1>6, <1>7 DEF Next

\* RemovalsLast: a key or a client that is removed comes back only through an
\* operation that had read it before, on either backend.
THEOREM RemovedStaysRemoved == Spec => RemovalsLast
<1>1. TypeOK /\ [Next]_vars =>
        [/\ \A d \in Digests : Dead(d) => Dead(d)'
         /\ \A i \in Ids : Gone(i) => Gone(i)']_vars
  BY RemovalStep
<1> QED
  BY <1>1, TypeCorrect, PTL DEF Spec, RemovalsLast

-----------------------------------------------------------------------------
(***************************************************************************)
(* The memory backend.  Nothing suspends, so an operation sees the store   *)
(* as nobody but itself changes it: Solo says what it is about to do to    *)
(* the one entry its client has, and what it leaves behind.                *)
(***************************************************************************)
Alone == \A t \in Tasks : pc[t] \in Waiting => loop = t

Issued ==
  /\ \A d \in Digests : store[d] # None => store[d].id \in issuedIds
  /\ \A t \in Tasks : client[t] \in issuedIds \cup {None}
  /\ deleted \subseteq issuedIds /\ retired \subseteq issuedKeys

\* What has been removed stays away, and nobody is about to store it.
Removals ==
  /\ \A d \in retired : store[d] = None
  /\ \A i \in deleted : Entries(i) = {}
  /\ \A t \in Tasks :
       /\ pc[t] = "put" => client[t] \notin deleted /\ digest[t] \notin retired
       /\ pc[t] = "putNew" => client[t] \notin deleted /\ fresh[t] \notin retired

\* A rotation has two entries while it removes the old one, and none of the old
\* key after it; a delete removes the only one.
Halfway(t) == pc[t] = "remove" /\ op[t] = "rotate"

Single ==
  /\ \A d, e \in Digests :
       store[d] # None /\ store[e] # None /\ store[d].id = store[e].id =>
         d = e \/ \E t \in Tasks : Halfway(t) /\ client[t] = store[d].id
  /\ \A t \in Tasks :
       /\ pc[t] \in {"put", "putNew"} => Entries(client[t]) \subseteq {digest[t]}
       /\ pc[t] = "put" => op[t] \in {"create", "update"}
       /\ pc[t] = "remove" =>
            /\ op[t] \in {"rotate", "delete"}
            /\ Entries(client[t]) \subseteq
                 {digest[t]} \cup (IF op[t] = "rotate" THEN {fresh[t]} ELSE {})
       /\ pc[t] = "audit" /\ op[t] = "rotate" => store[digest[t]] = None
       /\ pc[t] = "audit" /\ op[t] = "delete" => Entries(client[t]) = {}

Solo == Alone /\ Issued /\ Removals /\ Single

\* Whoever takes a step is the only one with a command under way.
LEMMA OneAtATime ==
  ASSUME ~Suspending, TypeOK, Alone, NEW t \in Tasks, NEW label, Goto(t, label)
  PROVE  /\ \A u \in Tasks \ {t} : pc[u] \notin Waiting /\ pc'[u] = pc[u]
         /\ pc'[t] = label
         /\ Alone'
<1>1. /\ pc \in [Tasks -> {"idle", "ended"} \cup Waiting]
      /\ pc' = [pc EXCEPT ![t] = label]
      /\ loop \in {None, t}
      /\ loop' = IF label \in Waiting THEN t ELSE None
  BY DEF TypeOK, Shape, Goto
<1>2. \A u \in Tasks \ {t} : pc[u] \notin Waiting
  BY <1>1, RegistryAssumption DEF Alone
<1>3. /\ pc'[t] = label /\ \A u \in Tasks \ {t} : pc'[u] = pc[u]
  BY <1>1
<1>4. Alone'
  BY <1>1, <1>2, <1>3 DEF Alone
<1> QED
  BY <1>2, <1>3, <1>4

LEMMA SoloInit == Init => Solo
  BY RegistryAssumption
     DEF Init, Solo, Alone, Issued, Removals, Single, Entries, Waiting

\* The steps that write nothing.
LEMMA SoloReads ==
  ASSUME ~Suspending, TypeOK, Solo, NEW t \in Tasks,
         \/ StartCreate(t) \/ StartById(t) \/ NotFound(t) \/ FoundToUpdate(t)
         \/ FoundToRotate(t) \/ FoundToDelete(t) \/ Return(t) \/ Leave(t)
  PROVE  Issued' /\ Removals' /\ Single'
<1> USE RegistryAssumption DEF Waiting, Ops, Halfway
<1>0. /\ Shape /\ KeysIssued /\ Prepared(t)
      /\ Issued /\ Removals /\ Single
  BY DEF TypeOK, Solo
<1>1. PICK label \in {"idle", "ended", "read", "put", "putNew", "remove"} : Goto(t, label)
  BY DEF StartCreate, StartById, NotFound, FoundToUpdate, FoundToRotate, FoundToDelete,
         Return, Leave
<1>2. /\ \A u \in Tasks \ {t} : pc[u] \notin Waiting /\ pc'[u] \notin Waiting
      /\ pc'[t] = label /\ store' = store
  BY <1>1, OneAtATime
     DEF Solo, StartCreate, StartById, NotFound, FoundToUpdate, FoundToRotate,
         FoundToDelete, Return, Leave
<1>3. CASE StartCreate(t)
  <2>1. PICK d \in Digests, i \in Ids \ issuedIds :
          /\ d \notin issuedKeys /\ issuedKeys' = issuedKeys \cup {d}
          /\ issuedIds' = issuedIds \cup {i}
          /\ client' = [client EXCEPT ![t] = i]
          /\ digest' = [digest EXCEPT ![t] = d]
    BY <1>3 DEF StartCreate, NewKey
  <2>2. /\ pc'[t] = "put" /\ UNCHANGED <<deleted, retired>>
    BY <1>0, <1>3 DEF StartCreate, Goto, Shape, outcomes
  <2>3. Issued'
    BY <1>0, <1>2, <2>1, <2>2 DEF Shape, Issued
  <2>4. Removals'
    BY <1>0, <1>2, <2>1, <2>2 DEF Shape, Issued, Removals, Entries
  <2>5. Single'
    BY <1>0, <1>2, <1>3, <2>1, <2>2 DEF Shape, Issued, Single, Entries, StartCreate
  <2> QED
    BY <2>3, <2>4, <2>5
<1>4. CASE StartById(t) \/ NotFound(t) \/ Leave(t)
  <2>1. /\ UNCHANGED history /\ pc'[t] \in {"read", "ended", "idle"}
        /\ pc[t] \in {"idle", "read", "ended"}
        /\ \A u \in Tasks : client'[u] \in issuedIds \cup {None}
    BY <1>0, <1>4 DEF StartById, NotFound, Leave, Goto, Shape, Issued, taskVars, history, outcomes
  <2>2. Issued'
    BY <1>0, <1>2, <2>1 DEF Issued, history, outcomes
  <2>3. Removals'
    BY <1>0, <1>2, <2>1 DEF Removals, Entries, history, outcomes
  <2>4. Single'
    BY <1>0, <1>2, <2>1 DEF Single, Entries
  <2> QED
    BY <2>2, <2>3, <2>4
<1>5. CASE FoundToUpdate(t) \/ FoundToRotate(t) \/ FoundToDelete(t)
  <2>1. PICK d \in Entries(client[t]) : digest' = [digest EXCEPT ![t] = d]
    BY <1>5 DEF FoundToUpdate, FoundToRotate, FoundToDelete, Found
  <2>2. /\ d \in Digests /\ store[d] # None /\ store[d].id = client[t]
        /\ client' = client /\ op' = op /\ pc[t] = "read"
        /\ issuedKeys \subseteq issuedKeys' /\ issuedIds' = issuedIds
        /\ UNCHANGED <<deleted, retired>>
    BY <1>0, <1>5, <2>1
       DEF FoundToUpdate, FoundToRotate, FoundToDelete, Found, Entries, NewKey, history, outcomes
  <2>3. /\ digest'[t] = d
        /\ pc'[t] = "put" => op[t] = "update"
        /\ pc'[t] = "putNew" => op[t] = "rotate" /\ fresh'[t] \notin issuedKeys
        /\ pc'[t] = "remove" => op[t] = "delete"
        /\ pc'[t] \in {"put", "putNew", "remove"}
    BY <1>0, <1>5, <2>1
       DEF FoundToUpdate, FoundToRotate, FoundToDelete, Goto, Shape, NewKey
  <2>4. Issued'
    BY <1>0, <1>2, <2>2 DEF Issued
  <2>5. Removals'
    <3>1. client[t] \notin deleted /\ d \notin retired
      BY <1>0, <2>1, <2>2 DEF Removals
    <3> QED
      BY <1>0, <1>2, <2>2, <2>3, <3>1 DEF Removals, Issued, Entries
  <2>6. Single'
    <3>1. \A d1, d2 \in Digests :
            store[d1] # None /\ store[d2] # None /\ store[d1].id = store[d2].id => d1 = d2
      BY <1>0, <1>2, <2>2 DEF Single
    <3>2. Entries(client[t]) \subseteq {d}
      BY <2>1, <3>1 DEF Entries
    <3> QED
      BY <1>2, <2>2, <2>3, <3>1, <3>2 DEF Single, Entries
  <2> QED
    BY <2>4, <2>5, <2>6
<1>6. CASE Return(t)
  <2>1. /\ pc[t] = "audit" /\ pc'[t] = "ended"
        /\ deleted' = deleted \cup (IF op[t] = "delete" THEN {client[t]} ELSE {})
        /\ retired' = retired \cup (IF op[t] = "rotate" THEN {digest[t]} ELSE {})
        /\ UNCHANGED <<taskVars, issuedKeys, issuedIds>>
    BY <1>0, <1>6 DEF Return, Goto, Shape
  <2>2. client[t] \in Ids /\ digest[t] \in Digests /\ digest[t] \in issuedKeys
    BY <1>0, <2>1 DEF Prepared, KeysIssued
  <2>3. Issued'
    BY <1>0, <1>2, <2>1, <2>2 DEF Issued, taskVars
  <2>4. Removals'
    BY <1>0, <1>2, <2>1, <2>2 DEF Removals, Single, Entries, taskVars
  <2>5. Single'
    BY <1>0, <1>2, <2>1 DEF Single, Entries, taskVars
  <2> QED
    BY <2>3, <2>4, <2>5
<1> QED
  BY <1>3, <1>4, <1>5, <1>6

\* The steps that write.
LEMMA SoloWrites ==
  ASSUME ~Suspending, TypeOK, Solo, NEW t \in Tasks, Command(t)
  PROVE  Issued' /\ Removals' /\ Single'
<1> USE RegistryAssumption DEF Waiting, Ops, Halfway
<1>0. /\ Shape /\ KeysIssued /\ Prepared(t) /\ Unknown(t)
      /\ Issued /\ Removals /\ Single
  BY DEF TypeOK, Solo
<1>1. /\ Executed(t)
      /\ UNCHANGED <<taskVars, issuedKeys, issuedIds, deleted, retired>>
      /\ Goto(t, IF pc[t] = "putNew" THEN "remove" ELSE "audit")
  BY DEF Command, outcomes
<1>2. /\ \A u \in Tasks \ {t} : pc[u] \notin Waiting /\ pc'[u] \notin Waiting
      /\ pc'[t] = IF pc[t] = "putNew" THEN "remove" ELSE "audit"
  BY <1>1, OneAtATime DEF Solo
<1>3. CASE PutStored(t)
  <2>1. /\ pc[t] = "put" /\ pc'[t] = "audit"
        /\ digest[t] \in Digests /\ record[t] # None /\ record[t].id = client[t]
        /\ store' = [store EXCEPT ![digest[t]] = record[t]]
    BY <1>0, <1>2, <1>3 DEF PutStored, Prepared
  <2>2. /\ store'[digest[t]] = record[t]
        /\ \A d \in Digests \ {digest[t]} : store'[d] = store[d]
    BY <1>0, <2>1 DEF Shape
  <2>3. op[t] \in {"create", "update"}
    BY <1>0, <2>1 DEF Single
  <2>4. client[t] \in issuedIds
    BY <1>0, <2>1 DEF Issued, Prepared
  <2>5. Issued'
    BY <1>0, <1>1, <2>1, <2>2, <2>4 DEF Issued, taskVars
  <2>6. Removals'
    BY <1>0, <1>1, <1>2, <2>1, <2>2 DEF Removals, Entries, taskVars
  <2>7. \A d \in Digests \ {digest[t]} : store'[d] # None => store'[d].id # client[t]
    BY <1>0, <2>1, <2>2 DEF Single, Entries
  <2>8. Single'
    BY <1>0, <1>1, <1>2, <2>1, <2>2, <2>3, <2>7 DEF Single, Entries, taskVars
  <2> QED
    BY <2>5, <2>6, <2>8
<1>4. CASE NewStored(t)
  <2>1. /\ pc[t] = "putNew" /\ pc'[t] = "remove" /\ op[t] = "rotate"
        /\ fresh[t] \in Digests /\ record[t] # None /\ record[t].id = client[t]
        /\ store' = [store EXCEPT ![fresh[t]] = record[t]]
        /\ client[t] \in Ids
    BY <1>0, <1>2, <1>4 DEF NewStored, Prepared
  <2>2. /\ store'[fresh[t]] = record[t]
        /\ \A d \in Digests \ {fresh[t]} : store'[d] = store[d]
    BY <1>0, <2>1 DEF Shape
  <2>3. Issued'
    BY <1>0, <1>1, <2>1, <2>2 DEF Issued, taskVars
  <2>4. Removals'
    BY <1>0, <1>1, <1>2, <2>1, <2>2 DEF Removals, Entries, taskVars
  <2>5. Single'
    BY <1>0, <1>1, <1>2, <2>1, <2>2 DEF Single, Entries, taskVars
  <2> QED
    BY <2>3, <2>4, <2>5
<1>5. CASE Removed(t)
  <2>1. /\ pc[t] = "remove" /\ pc'[t] = "audit" /\ digest[t] \in Digests
        /\ store' = [store EXCEPT ![digest[t]] = None]
    BY <1>0, <1>2, <1>5 DEF Removed, Prepared
  <2>2. /\ store'[digest[t]] = None
        /\ \A d \in Digests \ {digest[t]} : store'[d] = store[d]
    BY <1>0, <2>1 DEF Shape
  <2>3. Issued'
    BY <1>0, <1>1, <2>1, <2>2 DEF Issued, taskVars
  <2>4. Removals'
    BY <1>0, <1>1, <1>2, <2>1, <2>2 DEF Removals, Entries, taskVars
  <2>5. Single'
    BY <1>0, <1>1, <1>2, <2>1, <2>2 DEF Single, Entries, taskVars
  <2> QED
    BY <2>3, <2>4, <2>5
<1> QED
  BY <1>1, <1>3, <1>4, <1>5 DEF Executed

LEMMA SoloStep == ~Suspending /\ TypeOK /\ Solo /\ [Next]_vars => Solo'
<1> SUFFICES ASSUME ~Suspending, TypeOK, Solo, [Next]_vars PROVE Solo'
  OBVIOUS
<1>1. ASSUME NEW t \in Tasks,
             \/ StartCreate(t) \/ StartById(t) \/ NotFound(t) \/ FoundToUpdate(t)
             \/ FoundToRotate(t) \/ FoundToDelete(t) \/ Return(t) \/ Leave(t) \/ Command(t)
      PROVE  Solo'
  <2>1. PICK label : Goto(t, label)
    BY <1>1 DEF StartCreate, StartById, NotFound, FoundToUpdate, FoundToRotate,
                FoundToDelete, Return, Leave, Command
  <2>2. Alone'
    BY <2>1, OneAtATime DEF Solo
  <2> QED
    BY <1>1, <2>2, SoloReads, SoloWrites DEF Solo
<1>2. ASSUME NEW t \in Tasks, Fault(t) PROVE FALSE
  BY <1>2 DEF Fault
<1>3. CASE UNCHANGED vars
  BY <1>3 DEF vars, taskVars, history, outcomes, Solo, Alone, Issued, Removals, Single, Halfway, Entries
<1> QED
  BY <1>1, <1>2, <1>3 DEF Next

LEMMA SoloImplies ==
  ASSUME TypeOK, Solo
  PROVE  RotatedKeyDead /\ OneKeyPerClient /\ DeleteIsFinal
<1>1. RotatedKeyDead
  BY DEF Solo, Removals, RotatedKeyDead, Authenticates
<1>2. ASSUME loop = None, NEW t \in Tasks PROVE ~Halfway(t)
  BY <1>2, RegistryAssumption DEF Solo, Alone, Halfway, Waiting
<1>3. OneKeyPerClient
  BY <1>2 DEF Solo, Single, OneKeyPerClient
<1>4. DeleteIsFinal
  BY DEF Solo, Removals, DeleteIsFinal
<1> QED
  BY <1>1, <1>3, <1>4

LEMMA AlwaysSolo == ASSUME ~Suspending PROVE Spec => [](TypeOK /\ Solo)
<1>1. Init => TypeOK /\ Solo
  BY TypeInit, SoloInit
<1>2. TypeOK /\ Solo /\ [Next]_vars => (TypeOK /\ Solo)'
  BY TypeStep, SoloStep
<1> QED
  BY <1>1, <1>2, PTL DEF Spec

\* With the memory backend a key that rotate_client_key has replaced is never
\* accepted again.
THEOREM RotatedKeysStayDead == ASSUME ~Suspending PROVE Spec => []RotatedKeyDead
<1>1. TypeOK /\ Solo => RotatedKeyDead
  BY SoloImplies
<1> QED
  BY <1>1, AlwaysSolo, PTL

\* With the memory backend no two entries stand for one client, except while
\* rotate_client_key is between its two writes.
THEOREM ClientsHaveOneKey == ASSUME ~Suspending PROVE Spec => []OneKeyPerClient
<1>1. TypeOK /\ Solo => OneKeyPerClient
  BY SoloImplies
<1> QED
  BY <1>1, AlwaysSolo, PTL

\* With the memory backend nothing stores a key of a client again once its
\* delete_client has returned.
THEOREM DeletesAreFinal == ASSUME ~Suspending PROVE Spec => []DeleteIsFinal
<1>1. TypeOK /\ Solo => DeleteIsFinal
  BY SoloImplies
<1> QED
  BY <1>1, AlwaysSolo, PTL

-----------------------------------------------------------------------------
(* Module Access. *)

\* A record that is stored, or about to be stored, has a role that was given
\* to its client and not taken away; so the one that a lookup finds has it too.
Given(r, pairs) == <<r.id, r.role>> \in pairs

RecordsGranted ==
  /\ \A d \in Digests : store[d] # None => Given(store[d], granted)
  /\ \A t \in Tasks : pc[t] \in {"put", "putNew"} => Given(record[t], granted)

AInv == TypeOK /\ RecordsGranted

\* While nobody writes, nothing but the event loop changes for the registry.
LEMMA RegistryRests ==
  ASSUME AInv, UNCHANGED <<store, pc, taskVars, history, granted>>,
         loop' \in Tasks \cup {None}
  PROVE  TypeOK' /\ RecordsGranted'
<1>1. TypeOK'
  BY DEF AInv, TypeOK, Shape, KeysIssued, Prepared, Unknown, taskVars, history, outcomes
<1>2. RecordsGranted'
  BY DEF AInv, RecordsGranted, Given, taskVars
<1> QED
  BY <1>1, <1>2

\* What a credential that is no managed key leads to.
Unmanaged(next) == next.who = None \/ next.who.source # "managed_client"

LEMMA OtherCredentials ==
  ASSUME NEW e, NEW c
  PROVE  /\ Unmanaged(WithoutKey(e, c)) /\ Unmanaged(AtTheDoor(e, c))
         /\ \A label : Unmanaged(Go(label))
         /\ \A role : Unmanaged(Enter(e, Principal("oidc", None, role)))
<1>1. \A label : Unmanaged(Go(label))
  BY DEF Unmanaged, Go
<1>2. \A p : p.source # "managed_client" => Unmanaged(Enter(e, p))
  BY DEF Unmanaged, Enter
<1>3. /\ BootstrapAdmin.source # "managed_client"
      /\ BootstrapClient.source # "managed_client"
      /\ Anonymous.source # "managed_client"
      /\ \A role : Principal("oidc", None, role).source # "managed_client"
  BY DEF BootstrapAdmin, BootstrapClient, Anonymous, Principal
<1>4. Unmanaged(WithoutKey(e, c))
  BY <1>1, <1>2, <1>3 DEF WithoutKey
<1>5. Unmanaged(AtTheDoor(e, c))
  BY <1>1, <1>2, <1>3, <1>4 DEF AtTheDoor
<1> QED
  BY <1>1, <1>2, <1>3, <1>4, <1>5

\* A request that is being authenticated changes no client.
LEMMA StepKeeps ==
  ASSUME AInv, NEW t \in Tasks, NEW next, Step(t, next)
  PROVE  AInv'
<1>1. UNCHANGED <<store, pc, taskVars, history, granted>> /\ loop' \in Tasks \cup {None}
  BY DEF Step, Hold
<1> QED
  BY <1>1, RegistryRests DEF AInv

\* Only a lookup lets a managed client in, and it finds a stored record.
LEMMA EntersAsGranted ==
  ASSUME AInv, who = [u \in Tasks |-> who[u]], NEW t \in Tasks, Managed(t)',
         \/ Arrive(t) \/ Lookup(t) \/ LookupFault(t) \/ TokenChecked(t) \/ TokenFault(t)
  PROVE  <<who'[t].id, who'[t].role>> \in granted
<1> DEFINE key == creds[t].key
           found == Principal("managed_client", store[key].id, store[key].role)
<1>1. ASSUME NEW next, Step(t, next) PROVE who'[t] = next.who
  BY <1>1 DEF Step
<1>2. ASSUME NEW next, Step(t, next), Unmanaged(next) PROVE FALSE
  BY <1>1, <1>2 DEF Unmanaged, Managed
<1>3. CASE Lookup(t) /\ key \in Digests /\ Authenticates(key)
  <2>1. Step(t, Enter(endpoint[t], found))
    BY <1>3 DEF Lookup
  <2>2. <<found.id, found.role>> \in granted
    BY <1>3 DEF AInv, RecordsGranted, Given, Authenticates, Principal
  <2>3. Enter(endpoint[t], found).who = found
    BY DEF Enter
  <2> QED
    BY <1>1, <2>1, <2>2, <2>3
<1>4. CASE ~(Lookup(t) /\ key \in Digests /\ Authenticates(key))
  <2>1. \E next : Step(t, next) /\ Unmanaged(next)
    BY <1>4, OtherCredentials
       DEF Arrive, Lookup, LookupFault, TokenChecked, TokenFault
  <2> QED
    BY <1>2, <2>1
<1> QED
  BY <1>3, <1>4

\* The operations: a create and an update give the role they store, a rotation
\* copies a record that has been stored.
LEMMA OperateKeeps ==
  ASSUME AInv, NEW t \in Tasks, Operate(t)
  PROVE  AInv'
<1> DEFINE pairs == granted \cup
             (IF pc'[t] = "put" THEN {<<client'[t], record'[t].role>>} ELSE {})
<1>0. /\ Shape /\ RecordsGranted
      /\ granted' = {p \in pairs : Carried(p[1], p[2])'}
  BY DEF AInv, TypeOK, Operate
<1>1. /\ [Next]_vars
      /\ \/ StartCreate(t) \/ StartById(t) \/ NotFound(t)
         \/ FoundToUpdate(t) \/ FoundToRotate(t) \/ FoundToDelete(t)
         \/ Command(t) \/ Return(t) \/ Fault(t)
  BY DEF Operate, Next
<1>2. TypeOK'
  BY <1>1, TypeStep DEF AInv
<1>3. ASSUME NEW r, Given(r, pairs),
             \/ \E d \in Digests : store'[d] # None /\ store'[d] = r
             \/ \E u \in Tasks : pc'[u] \in {"put", "putNew"} /\ record'[u] = r
      PROVE  Given(r, granted')
  BY <1>0, <1>3 DEF Given, Carried
<1>4. \A r : Given(r, granted) => Given(r, pairs)
  BY DEF Given
<1>5. pc'[t] = "put" => Given(record'[t], pairs)
  BY <1>2 DEF TypeOK, Prepared, Given
<1>6. \A u \in Tasks \ {t} : pc'[u] = pc[u]
  BY <1>0, <1>1 DEF Shape, StartCreate, StartById, NotFound, FoundToUpdate, FoundToRotate,
                    FoundToDelete, Command, Return, Fault, Goto
<1>7. \A u \in Tasks \ {t} : record'[u] = record[u]
  BY <1>0, <1>1 DEF Shape, StartCreate, StartById, NotFound, FoundToUpdate, FoundToRotate,
                    FoundToDelete, Found, Command, Return, Fault, taskVars, history, outcomes
<1>8. pc'[t] = "putNew" => Given(record'[t], granted)
  <2>1. CASE FoundToRotate(t)
    <3>1. PICK d \in Entries(client[t]) : Found(t, d, store[d])
      BY <2>1 DEF FoundToRotate
    <3>2. d \in Digests /\ store[d] # None /\ record'[t] = store[d]
      BY <1>0, <3>1 DEF Entries, Found, Shape
    <3> QED
      BY <1>0, <3>2 DEF RecordsGranted
  <2>2. CASE ~FoundToRotate(t)
    BY <1>0, <1>1, <2>2 DEF Shape, StartCreate, StartById, NotFound, FoundToUpdate,
                            FoundToDelete, Command, Return, Fault, Goto
  <2> QED
    BY <2>1, <2>2
<1>9. ASSUME NEW d \in Digests, store'[d] # None PROVE Given(store'[d], granted)
  <2>1. CASE store' = store
    BY <1>0, <1>9, <2>1 DEF RecordsGranted
  <2>2. CASE Executed(t)
    BY <1>0, <1>9, <2>2 DEF RecordsGranted, Executed, PutStored, NewStored, Removed, Shape
  <2> QED
    BY <1>1, <2>1, <2>2 DEF StartCreate, StartById, NotFound, FoundToUpdate, FoundToRotate,
                            FoundToDelete, Command, Return, Fault
<1>10. ASSUME NEW u \in Tasks, pc'[u] \in {"put", "putNew"} PROVE Given(record'[u], granted')
  <2>1. Given(record'[u], pairs)
    BY <1>0, <1>4, <1>5, <1>6, <1>7, <1>8, <1>10 DEF RecordsGranted
  <2> QED
    BY <1>3, <1>10, <2>1
<1>11. ASSUME NEW d \in Digests, store'[d] # None PROVE Given(store'[d], granted')
  BY <1>3, <1>4, <1>9, <1>11
<1>12. RecordsGranted'
  BY <1>10, <1>11 DEF RecordsGranted
<1> QED
  BY <1>2, <1>12 DEF AInv

LEMMA DepartKeeps ==
  ASSUME AInv, NEW t \in Tasks, Depart(t)
  PROVE  AInv'
<1>1. granted' = granted
  BY DEF Depart
<1>3. CASE Leave(t)
  <2>1. TypeOK'
    BY <1>3, TypeStep DEF AInv, Next
  <2>2. /\ store' = store /\ pc' = [pc EXCEPT ![t] = "idle"]
        /\ record' = [record EXCEPT ![t] = None]
    BY <1>3 DEF Leave, Goto
  <2>3. pc \in [Tasks -> {"idle", "ended"} \cup Waiting] /\ record \in [Tasks -> Record \cup {None}]
    BY DEF AInv, TypeOK, Shape
  <2>4. \A u \in Tasks : pc'[u] \in {"put", "putNew"} => u # t /\ pc'[u] = pc[u]
    BY <2>2, <2>3
  <2>5. \A u \in Tasks \ {t} : record'[u] = record[u]
    BY <2>2, <2>3
  <2>6. RecordsGranted'
    BY <1>1, <2>2, <2>4, <2>5 DEF AInv, RecordsGranted, Given
  <2> QED
    BY <2>1, <2>6 DEF AInv
<1>4. CASE Hold(t, FALSE) /\ UNCHANGED <<store, pc, taskVars, history>>
  BY <1>1, <1>4, RegistryRests DEF Hold, AInv
<1> QED
  BY <1>3, <1>4 DEF Depart

LEMMA AccessStep == AInv /\ [AccessNext]_allVars => AInv'
<1> SUFFICES ASSUME AInv, [AccessNext]_allVars PROVE AInv'
  OBVIOUS
<1>1. ASSUME NEW t \in Tasks,
             Arrive(t) \/ Lookup(t) \/ LookupFault(t) \/ TokenChecked(t) \/ TokenFault(t)
      PROVE  AInv'
  <2>1. PICK next : Step(t, next)
    BY <1>1 DEF Arrive, Lookup, LookupFault, TokenChecked, TokenFault
  <2> QED
    BY <2>1, StepKeeps
<1>2. CASE UNCHANGED allVars
  BY <1>2, RegistryRests DEF allVars, vars, accessVars, AInv, TypeOK, Shape
<1> QED
  BY <1>1, <1>2, OperateKeeps, DepartKeeps DEF AccessNext, Request

LEMMA AccessStart == AccessInit => AInv
  BY TypeInit DEF AccessInit, Init, AInv, RecordsGranted

-----------------------------------------------------------------------------
(***************************************************************************)
(* The chain of credentials.  A request that looks its key up has shown no *)
(* credential that the settings know, and one whose token is checked has   *)
(* shown a token; so what a step decides, it decides for what is shown.    *)
(***************************************************************************)
PastTheDoor(e, c) ==
  /\ ~(e = "manage" /\ Matches(c.header, settings.admin))
  /\ ~Matches(c.key, settings.admin) /\ ~Matches(c.key, settings.gateway)
  /\ c.key \notin {None, Blank}

ChainInv ==
  /\ settings \in [admin : Secrets \cup {Blank}, gateway : Secrets \cup {Blank},
                   oidc : BOOLEAN]
  /\ stage = [t \in Tasks |-> stage[t]] /\ who = [t \in Tasks |-> who[t]]
  /\ endpoint = [t \in Tasks |-> endpoint[t]] /\ creds = [t \in Tasks |-> creds[t]]
  /\ \A t \in Tasks :
       /\ stage[t] = "lookup" =>
            /\ endpoint[t] \in Endpoints /\ creds[t] \in Credentials
            /\ PastTheDoor(endpoint[t], creds[t])
       /\ stage[t] = "token" =>
            endpoint[t] \in Endpoints /\ creds[t] \in Credentials /\ creds[t].bearer \in Tokens

\* What credentials are worth at an endpoint; Worth(t) is this for the request.
WorthAt(e, c) ==
  {r \in {"viewer", "operator", "admin"} :
    \/ r = "admin" /\ e = "manage" /\ c.header \in {settings.admin} \cap ({settings.admin, settings.gateway} \ {Blank})
    \/ r = "admin" /\ c.key \in {settings.admin} \cap ({settings.admin, settings.gateway} \ {Blank})
    \/ r = "operator" /\ c.key \in {settings.gateway} \cap ({settings.admin, settings.gateway} \ {Blank})
    \/ c.key \in Digests /\ Authenticates(c.key) /\ r = store[c.key].role
    \/ c.bearer \in Tokens /\ settings.oidc /\ c.bearer.valid /\ c.bearer.subject
         /\ r = RoleFromClaims(c.bearer)
    \/ /\ r = "admin" /\ {settings.admin, settings.gateway} \ {Blank} = {} /\ ~settings.oidc
       /\ c.key = None /\ c.bearer = None}

\* A decision is honest: the role is one that is shown, and suffices, and who
\* is refused shows none.
Honest(e, c, next) ==
  /\ next.stage = "inside" => next.who.role \in WorthAt(e, c) \cap AllowedRoles(e)
  /\ next.stage = "unauthorized" /\ c.bearer \notin Tokens => WorthAt(e, c) = {}

LEMMA EnterHonestly ==
  ASSUME NEW e \in Endpoints, NEW c, NEW p,
         p.role \in {"viewer", "operator", "admin"} => p.role \in WorthAt(e, c)
  PROVE  Honest(e, c, Enter(e, p)) /\ Enter(e, p).stage \in {"inside", "forbidden"}
<1>1. AllowedRoles(e) \subseteq {"viewer", "operator", "admin"}
  BY AccessAssumption DEF AllowedRoles
<1>2. /\ Enter(e, p).stage = IF p.role \in AllowedRoles(e) THEN "inside" ELSE "forbidden"
      /\ Enter(e, p).who = p
  BY DEF Enter
<1> QED
  BY <1>1, <1>2 DEF Honest

LEMMA WithoutKeyHonestly ==
  ASSUME ChainInv, NEW e \in Endpoints, NEW c \in Credentials,
         ~(e = "manage" /\ Matches(c.header, settings.admin)),
         ~Matches(c.key, settings.admin), ~Matches(c.key, settings.gateway),
         ~(c.key \in Digests /\ Authenticates(c.key))
  PROVE  /\ Honest(e, c, WithoutKey(e, c))
         /\ WithoutKey(e, c).stage \in {"inside", "forbidden", "token", "unauthorized"}
         /\ WithoutKey(e, c).stage = "token" => c.bearer \in Tokens
<1> DEFINE off == settings = [admin |-> Blank, gateway |-> Blank, oidc |-> FALSE]
<1>1. CASE c.bearer \in Tokens
  <2>1. WithoutKey(e, c) = Go("token")
    BY <1>1 DEF WithoutKey
  <2> QED
    BY <1>1, <2>1 DEF Go, Honest
<1>2. CASE c.bearer \notin Tokens /\ off /\ c.key = None /\ c.bearer = None
  <2>1. WithoutKey(e, c) = Enter(e, Anonymous)
    BY <1>2 DEF WithoutKey
  <2>2. Anonymous.role = "admin" /\ "admin" \in WorthAt(e, c)
    BY <1>2 DEF Anonymous, Principal, WorthAt
  <2> QED
    BY <2>1, <2>2, EnterHonestly
<1>3. CASE c.bearer \notin Tokens /\ ~(off /\ c.key = None /\ c.bearer = None)
  <2>1. WithoutKey(e, c) = Go("unauthorized")
    BY <1>3 DEF WithoutKey
  <2>2. ~(/\ {settings.admin, settings.gateway} \ {Blank} = {} /\ ~settings.oidc
          /\ c.key = None /\ c.bearer = None)
    BY <1>3 DEF ChainInv
  <2>3. settings.admin # None /\ settings.gateway # None
    BY AccessAssumption DEF ChainInv
  <2>4. WorthAt(e, c) = {}
    BY <1>3, <2>2, <2>3 DEF WorthAt, Matches
  <2> QED
    BY <2>1, <2>4 DEF Go, Honest
<1> QED
  BY <1>1, <1>2, <1>3

LEMMA AtTheDoorHonestly ==
  ASSUME ChainInv, NEW e \in Endpoints, NEW c \in Credentials
  PROVE  /\ Honest(e, c, AtTheDoor(e, c))
         /\ AtTheDoor(e, c).stage \in
              {"inside", "forbidden", "token", "unauthorized", "lookup"}
         /\ AtTheDoor(e, c).stage = "lookup" => PastTheDoor(e, c)
         /\ AtTheDoor(e, c).stage = "token" => c.bearer \in Tokens
<1>1. CASE e = "manage" /\ Matches(c.header, settings.admin)
  <2>1. AtTheDoor(e, c) = Enter(e, BootstrapAdmin)
    BY <1>1 DEF AtTheDoor
  <2>2. BootstrapAdmin.role = "admin" /\ "admin" \in WorthAt(e, c)
    BY <1>1 DEF BootstrapAdmin, Principal, WorthAt, Matches
  <2> QED
    BY <2>1, <2>2, EnterHonestly
<1>2. CASE ~(e = "manage" /\ Matches(c.header, settings.admin)) /\ Matches(c.key, settings.admin)
  <2>1. AtTheDoor(e, c) = Enter(e, BootstrapAdmin)
    BY <1>2 DEF AtTheDoor
  <2>2. BootstrapAdmin.role = "admin" /\ "admin" \in WorthAt(e, c)
    BY <1>2 DEF BootstrapAdmin, Principal, WorthAt, Matches
  <2> QED
    BY <2>1, <2>2, EnterHonestly
<1>3. CASE /\ ~(e = "manage" /\ Matches(c.header, settings.admin))
           /\ ~Matches(c.key, settings.admin) /\ Matches(c.key, settings.gateway)
  <2>1. AtTheDoor(e, c) = Enter(e, BootstrapClient)
    BY <1>3 DEF AtTheDoor
  <2>2. BootstrapClient.role = "operator" /\ "operator" \in WorthAt(e, c)
    BY <1>3 DEF BootstrapClient, Principal, WorthAt, Matches
  <2> QED
    BY <2>1, <2>2, EnterHonestly
<1>4. CASE PastTheDoor(e, c)
  <2>1. AtTheDoor(e, c) = Go("lookup")
    BY <1>4 DEF AtTheDoor, PastTheDoor
  <2> QED
    BY <1>4, <2>1 DEF Go, Honest
<1>5. CASE /\ ~(e = "manage" /\ Matches(c.header, settings.admin))
           /\ ~Matches(c.key, settings.admin) /\ ~Matches(c.key, settings.gateway)
           /\ c.key \in {None, Blank}
  <2>1. AtTheDoor(e, c) = WithoutKey(e, c)
    BY <1>5 DEF AtTheDoor
  <2>2. c.key \notin Digests
    BY <1>5, AccessAssumption
  <2> QED
    BY <1>5, <2>1, <2>2, WithoutKeyHonestly
<1> QED
  BY <1>1, <1>2, <1>3, <1>4, <1>5 DEF PastTheDoor

\* What the step of a request that is being authenticated decides.
LEMMA DecidesHonestly ==
  ASSUME ChainInv, NEW t \in Tasks,
         \/ Arrive(t) \/ Lookup(t) \/ LookupFault(t) \/ TokenChecked(t) \/ TokenFault(t)
  PROVE  /\ ChainInv'
         /\ Reaches(t, "inside") \/ Reaches(t, "unauthorized") =>
              \E next : /\ stage'[t] = next.stage /\ who'[t] = next.who
                        /\ Honest(endpoint'[t], creds'[t], next)
<1>1. \A e \in Endpoints, c \in Credentials : \A next :
        /\ Step(t, next) /\ endpoint' = [endpoint EXCEPT ![t] = e]
        /\ creds' = [creds EXCEPT ![t] = c] /\ Honest(e, c, next)
        /\ next.stage = "lookup" => PastTheDoor(e, c)
        /\ next.stage = "token" => c.bearer \in Tokens
        => /\ ChainInv'
           /\ stage'[t] = next.stage /\ who'[t] = next.who
           /\ Honest(endpoint'[t], creds'[t], next)
  <2> SUFFICES ASSUME NEW e \in Endpoints, NEW c \in Credentials, NEW next,
                      Step(t, next), endpoint' = [endpoint EXCEPT ![t] = e],
                      creds' = [creds EXCEPT ![t] = c], Honest(e, c, next),
                      next.stage = "lookup" => PastTheDoor(e, c),
                      next.stage = "token" => c.bearer \in Tokens
               PROVE  /\ ChainInv'
                      /\ stage'[t] = next.stage /\ who'[t] = next.who
                      /\ Honest(endpoint'[t], creds'[t], next)
    OBVIOUS
  <2>1. /\ stage' = [stage EXCEPT ![t] = next.stage] /\ who' = [who EXCEPT ![t] = next.who]
        /\ settings' = settings
    BY DEF Step
  <2>2. /\ stage'[t] = next.stage /\ who'[t] = next.who
        /\ endpoint'[t] = e /\ creds'[t] = c
        /\ \A u \in Tasks \ {t} : /\ stage'[u] = stage[u] /\ endpoint'[u] = endpoint[u]
                                  /\ creds'[u] = creds[u]
    BY <2>1 DEF ChainInv
  <2>3. /\ stage' = [u \in Tasks |-> stage'[u]] /\ who' = [u \in Tasks |-> who'[u]]
        /\ endpoint' = [u \in Tasks |-> endpoint'[u]] /\ creds' = [u \in Tasks |-> creds'[u]]
    BY <2>1 DEF ChainInv
  <2>4. \A f, d : PastTheDoor(f, d)' <=> PastTheDoor(f, d)
    BY <2>1 DEF PastTheDoor, Matches
  <2>5. ASSUME NEW u \in Tasks
        PROVE  /\ stage'[u] = "lookup" =>
                    /\ endpoint'[u] \in Endpoints /\ creds'[u] \in Credentials
                    /\ PastTheDoor(endpoint'[u], creds'[u])
               /\ stage'[u] = "token" =>
                    /\ endpoint'[u] \in Endpoints /\ creds'[u] \in Credentials
                    /\ creds'[u].bearer \in Tokens
    <3>1. CASE u = t
      BY <2>2, <3>1
    <3>2. CASE u # t
      BY <2>2, <3>2 DEF ChainInv
    <3> QED
      BY <3>1, <3>2
  <2>6. settings' \in [admin : Secrets \cup {Blank}, gateway : Secrets \cup {Blank},
                       oidc : BOOLEAN]
    BY <2>1 DEF ChainInv
  <2>7. ChainInv'
    BY <2>1, <2>3, <2>5, <2>6 DEF ChainInv, PastTheDoor, Matches
  <2> QED
    BY <2>2, <2>7
<1>2. CASE Arrive(t)
  <2>1. PICK e \in Endpoints, c \in Credentials :
          /\ endpoint' = [endpoint EXCEPT ![t] = e] /\ creds' = [creds EXCEPT ![t] = c]
          /\ Step(t, AtTheDoor(e, c))
    BY <1>2 DEF Arrive
  <2> QED
    BY <1>1, <2>1, AtTheDoorHonestly
<1> DEFINE e == endpoint[t]
           c == creds[t]
<1>3. stage[t] \in {"lookup", "token"} /\ UNCHANGED <<endpoint, creds>> =>
        /\ e \in Endpoints /\ c \in Credentials
        /\ endpoint' = [endpoint EXCEPT ![t] = e] /\ creds' = [creds EXCEPT ![t] = c]
  BY DEF ChainInv
<1>4. CASE Lookup(t)
  <2> DEFINE found == Principal("managed_client", store[c.key].id, store[c.key].role)
  <2>0. /\ e \in Endpoints /\ c \in Credentials /\ PastTheDoor(e, c)
        /\ endpoint' = [endpoint EXCEPT ![t] = e] /\ creds' = [creds EXCEPT ![t] = c]
    BY <1>3, <1>4 DEF Lookup, ChainInv
  <2>1. CASE c.key \in Digests /\ Authenticates(c.key)
    <3>1. Step(t, Enter(e, found))
      BY <1>4, <2>1 DEF Lookup
    <3>2. found.role \in {"viewer", "operator", "admin"} => found.role \in WorthAt(e, c)
      BY <2>1 DEF Principal, WorthAt
    <3>3. Honest(e, c, Enter(e, found)) /\ Enter(e, found).stage \in {"inside", "forbidden"}
      BY <2>0, <3>2, EnterHonestly
    <3> HIDE DEF e, c, found
    <3> QED
      BY <1>1, <2>0, <3>1, <3>3
  <2>2. CASE ~(c.key \in Digests /\ Authenticates(c.key))
    <3>1. Step(t, WithoutKey(e, c))
      BY <1>4, <2>2 DEF Lookup
    <3>2. /\ Honest(e, c, WithoutKey(e, c))
          /\ WithoutKey(e, c).stage \in {"inside", "forbidden", "token", "unauthorized"}
          /\ WithoutKey(e, c).stage = "token" => c.bearer \in Tokens
      BY <2>0, <2>2, WithoutKeyHonestly DEF PastTheDoor
    <3> HIDE DEF e, c
    <3> QED
      BY <1>1, <2>0, <3>1, <3>2
  <2> QED
    BY <2>1, <2>2
<1>5. CASE LookupFault(t)
  <2>1. stage[t] = "lookup" /\ UNCHANGED <<endpoint, creds>> /\ Step(t, Go("error"))
    BY <1>5 DEF LookupFault
  <2>2. Honest(e, c, Go("error")) /\ Go("error").stage = "error"
    BY DEF Honest, Go
  <2> HIDE DEF e, c
  <2> QED
    BY <1>1, <1>3, <2>1, <2>2
<1>6. ASSUME stage[t] = "token", UNCHANGED <<endpoint, creds>>, Step(t, Go("unauthorized"))
      PROVE  /\ ChainInv'
             /\ stage'[t] = Go("unauthorized").stage /\ who'[t] = Go("unauthorized").who
             /\ Honest(endpoint'[t], creds'[t], Go("unauthorized"))
  <2>1. Honest(e, c, Go("unauthorized")) /\ Go("unauthorized").stage = "unauthorized"
    BY <1>6 DEF Honest, Go, ChainInv
  <2> HIDE DEF e, c
  <2> QED
    BY <1>1, <1>3, <1>6, <2>1
<1>7. CASE TokenFault(t)
  BY <1>6, <1>7 DEF TokenFault
<1>8. CASE TokenChecked(t)
  <2> DEFINE token == c.bearer
             p == Principal("oidc", None, RoleFromClaims(token))
  <2>0. stage[t] = "token" /\ UNCHANGED <<endpoint, creds>>
    BY <1>8 DEF TokenChecked
  <2>1. CASE settings.oidc /\ token.valid /\ token.subject
    <3>1. Step(t, Enter(e, p))
      BY <1>8, <2>1 DEF TokenChecked
    <3>2. p.role = RoleFromClaims(token) /\ token \in Tokens
      BY <2>0 DEF Principal, ChainInv
    <3>3. p.role \in {"viewer", "operator", "admin"} => p.role \in WorthAt(e, c)
      BY <2>1, <3>2 DEF WorthAt
    <3>4. Honest(e, c, Enter(e, p)) /\ Enter(e, p).stage \in {"inside", "forbidden"}
      BY <1>3, <2>0, <3>3, EnterHonestly
    <3> HIDE DEF e, c, p
    <3> QED
      BY <1>1, <1>3, <2>0, <3>1, <3>4
  <2>2. CASE ~(settings.oidc /\ token.valid /\ token.subject)
    <3>1. Step(t, Go("unauthorized"))
      BY <1>8, <2>2 DEF TokenChecked
    <3> QED
      BY <1>6, <2>0, <3>1
  <2> QED
    BY <2>1, <2>2
<1> QED
  BY <1>2, <1>4, <1>5, <1>7, <1>8

LEMMA ChainStep ==
  ASSUME ChainInv, [AccessNext]_allVars
  PROVE  /\ ChainInv'
         /\ \A t \in Tasks :
              Reaches(t, "inside") \/ Reaches(t, "unauthorized") =>
                /\ \/ Arrive(t) \/ Lookup(t) \/ LookupFault(t)
                   \/ TokenChecked(t) \/ TokenFault(t)
                /\ \E next : /\ stage'[t] = next.stage /\ who'[t] = next.who
                             /\ Honest(endpoint'[t], creds'[t], next)
<1>1. ASSUME NEW u \in Tasks,
             \/ Arrive(u) \/ Lookup(u) \/ LookupFault(u) \/ TokenChecked(u) \/ TokenFault(u)
      PROVE  \A t \in Tasks \ {u} : stage'[t] = stage[t]
  <2>1. \E next : stage' = [stage EXCEPT ![u] = next.stage]
    BY <1>1 DEF Arrive, Lookup, LookupFault, TokenChecked, TokenFault, Step
  <2> QED
    BY <2>1 DEF ChainInv
<1>2. ASSUME NEW u \in Tasks, Operate(u)
      PROVE  ChainInv' /\ stage' = stage
  BY <1>2 DEF Operate, ChainInv, PastTheDoor, Matches
<1>3. ASSUME NEW u \in Tasks, Depart(u)
      PROVE  /\ ChainInv' /\ stage'[u] = "out"
             /\ \A t \in Tasks \ {u} : stage'[t] = stage[t]
  <2>1. /\ stage' = [stage EXCEPT ![u] = "out"]
        /\ endpoint' = [endpoint EXCEPT ![u] = None]
        /\ creds' = [creds EXCEPT ![u] = None]
        /\ who' = [who EXCEPT ![u] = None] /\ settings' = settings
    BY <1>3 DEF Depart
  <2>2. /\ stage'[u] = "out"
        /\ \A t \in Tasks \ {u} : /\ stage'[t] = stage[t] /\ endpoint'[t] = endpoint[t]
                                  /\ creds'[t] = creds[t]
    BY <2>1 DEF ChainInv
  <2>3. /\ stage' = [t \in Tasks |-> stage'[t]] /\ who' = [t \in Tasks |-> who'[t]]
        /\ endpoint' = [t \in Tasks |-> endpoint'[t]] /\ creds' = [t \in Tasks |-> creds'[t]]
    BY <2>1 DEF ChainInv
  <2>4. ChainInv'
    BY <2>1, <2>2, <2>3 DEF ChainInv, PastTheDoor, Matches
  <2> QED
    BY <2>2, <2>4
<1>4. CASE UNCHANGED allVars
  BY <1>4 DEF allVars, accessVars, ChainInv, PastTheDoor, Matches, Reaches
<1>5. CASE AccessNext
  <2>1. PICK u \in Tasks : Request(u)
    BY <1>5 DEF AccessNext
  <2>2. CASE Arrive(u) \/ Lookup(u) \/ LookupFault(u) \/ TokenChecked(u) \/ TokenFault(u)
    BY <1>1, <2>2, DecidesHonestly DEF Reaches
  <2>3. CASE Operate(u)
    BY <1>2, <2>3 DEF Reaches
  <2>4. CASE Depart(u)
    BY <1>3, <2>4 DEF Reaches
  <2> QED
    BY <2>1, <2>2, <2>3, <2>4 DEF Request
<1> QED
  BY <1>4, <1>5

LEMMA ChainInit == AccessInit => ChainInv
  BY DEF AccessInit, ChainInv

LEMMA OwnRoles ==
  ASSUME ChainInv, [AccessNext]_allVars, NEW t \in Tasks
  PROVE  /\ Reaches(t, "inside") => who'[t].role \in Worth(t)' \cap AllowedRoles(endpoint'[t])
         /\ Reaches(t, "unauthorized") /\ creds'[t].bearer \notin Tokens => Worth(t)' = {}
<1> SUFFICES ASSUME Reaches(t, "inside") \/ Reaches(t, "unauthorized")
             PROVE  /\ stage'[t] = "inside" =>
                         who'[t].role \in Worth(t)' \cap AllowedRoles(endpoint'[t])
                    /\ stage'[t] = "unauthorized" /\ creds'[t].bearer \notin Tokens =>
                         Worth(t)' = {}
  BY DEF Reaches
<1>1. PICK next : /\ stage'[t] = next.stage /\ who'[t] = next.who
                  /\ Honest(endpoint'[t], creds'[t], next)
  BY ChainStep
<1>2. UNCHANGED <<settings, store>>
  BY ChainStep DEF Arrive, Lookup, LookupFault, TokenChecked, TokenFault, Step
<1>3. Worth(t)' = WorthAt(endpoint'[t], creds'[t])
  BY <1>2 DEF Worth, WorthAt, Authenticates
<1> QED
  BY <1>1, <1>3 DEF Honest

\* No combination of credentials opens an endpoint to a role that none of them
\* gives, and none that is good is refused: _authenticate tries them one after
\* the other, with an await in between, and settles for the first that matches.
THEOREM CredentialsStandAlone == AccessSpec => OnlyOwnRoles
<1>1. AccessSpec => []ChainInv
  BY ChainInit, ChainStep, PTL DEF AccessSpec
<1>2. ChainInv /\ [AccessNext]_allVars =>
        [\A t \in Tasks :
           /\ Reaches(t, "inside") => who'[t].role \in Worth(t)' \cap AllowedRoles(endpoint'[t])
           /\ Reaches(t, "unauthorized") /\ creds'[t].bearer \notin Tokens => Worth(t)' = {}]_allVars
  BY OwnRoles
<1> QED
  BY <1>1, <1>2, PTL DEF AccessSpec, OnlyOwnRoles

\* Nobody gets in as a managed client (authenticate_client) with a role that no
\* create_client and no update_client has given to that client, or that has
\* left both its record and the operations that were about to store it.
THEOREM OnlyGrantedRoles == AccessSpec => RolesGranted
<1>1. AccessSpec => [](AInv /\ ChainInv)
  BY AccessStart, AccessStep, ChainInit, ChainStep, PTL DEF AccessSpec
<1>2. ASSUME AInv, ChainInv, [AccessNext]_allVars, NEW t \in Tasks,
             Reaches(t, "inside"), Managed(t)'
      PROVE  <<who'[t].id, who'[t].role>> \in granted
  BY <1>2, ChainStep, EntersAsGranted DEF ChainInv
<1>3. AInv /\ ChainInv /\ [AccessNext]_allVars =>
        [\A t \in Tasks :
           Reaches(t, "inside") /\ Managed(t)' => <<who'[t].id, who'[t].role>> \in granted]_allVars
  BY <1>2
<1> QED
  BY <1>1, <1>3, PTL DEF AccessSpec, RolesGranted

-----------------------------------------------------------------------------
(***************************************************************************)
(* The memory backend.  A request that is inside, and has not begun its    *)
(* operation, has kept the event loop since its key was looked up.         *)
(***************************************************************************)
Entitled(t) ==
  stage[t] = "inside" /\ pc[t] = "idle" =>
    /\ loop = t
    /\ Managed(t) =>
         /\ creds[t].key \in Digests /\ Authenticates(creds[t].key)
         /\ who[t].role = store[creds[t].key].role
         /\ who[t].role \in AllowedRoles(endpoint[t])

MemoryInv ==
  /\ TypeOK /\ Solo /\ ChainInv
  /\ \A t \in Tasks : (stage[t] # "inside" => pc[t] = "idle") /\ Entitled(t)

\* A registry that rests stays as the last operation has left it.
LEMMA SoloRests ==
  ASSUME MemoryInv, UNCHANGED <<store, pc, taskVars, history>>,
         loop' \in Tasks \cup {None}, Alone'
  PROVE  TypeOK' /\ Solo'
<1>1. TypeOK'
  BY DEF MemoryInv, TypeOK, Shape, KeysIssued, Prepared, Unknown, taskVars, history, outcomes
<1>2. Solo'
  BY DEF MemoryInv, Solo, Issued, Removals, Single, Halfway, Entries, taskVars, history, outcomes
<1> QED
  BY <1>1, <1>2

\* The step t takes while it is authenticated.
LEMMA DecidesInMemory ==
  ASSUME ~Suspending, MemoryInv, NEW t \in Tasks,
         \/ Arrive(t) \/ Lookup(t) \/ LookupFault(t) \/ TokenChecked(t) \/ TokenFault(t)
  PROVE  MemoryInv'
<1>1. PICK next : Step(t, next)
  BY DEF Arrive, Lookup, LookupFault, TokenChecked, TokenFault
<1>2. /\ UNCHANGED <<store, pc, taskVars, history, settings>>
      /\ loop \in {None, t} /\ loop' = IF next.stage # "token" THEN t ELSE None
      /\ stage'[t] = next.stage /\ who'[t] = next.who
      /\ \A u \in Tasks \ {t} : stage'[u] = stage[u] /\ who'[u] = who[u]
  BY <1>1 DEF Step, Hold, MayRun, MemoryInv, ChainInv
<1>3. pc[t] = "idle" /\ stage[t] # "inside"
  BY DEF MemoryInv, Arrive, Lookup, LookupFault, TokenChecked, TokenFault
<1>4. \A u \in Tasks \ {t} : ~(stage[u] = "inside" /\ pc[u] = "idle") /\ pc[u] \notin Waiting
  BY <1>2, RegistryAssumption DEF MemoryInv, Entitled, Solo, Alone
<1>5. Alone'
  BY <1>2, <1>3, <1>4 DEF Alone, Waiting
<1>6. TypeOK' /\ Solo'
  BY <1>2, <1>5, SoloRests
<1>7. ChainInv'
  BY DecidesHonestly DEF MemoryInv
<1>8. stage'[t] = "inside" /\ Managed(t)' =>
        /\ creds'[t] = creds[t] /\ creds[t].key \in Digests /\ Authenticates(creds[t].key)
        /\ who'[t].role = store[creds[t].key].role
        /\ who'[t].role \in AllowedRoles(endpoint'[t])
  <2>1. CASE Unmanaged(next)
    BY <1>2, <2>1 DEF Unmanaged, Managed
  <2>2. CASE Lookup(t) /\ creds[t].key \in Digests /\ Authenticates(creds[t].key)
    <3> DEFINE found == Principal("managed_client", store[creds[t].key].id,
                                  store[creds[t].key].role)
    <3>1. Step(t, Enter(endpoint[t], found)) /\ UNCHANGED <<endpoint, creds>>
      BY <2>2 DEF Lookup
    <3>2. /\ stage'[t] = Enter(endpoint[t], found).stage
          /\ who'[t] = Enter(endpoint[t], found).who
      BY <3>1 DEF Step, MemoryInv, ChainInv
    <3>3. /\ who'[t] = found
          /\ stage'[t] = "inside" => found.role \in AllowedRoles(endpoint[t])
      BY <3>2 DEF Enter
    <3>4. found.role = store[creds[t].key].role /\ found.id = store[creds[t].key].id
      BY DEF Principal
    <3> QED
      BY <2>2, <3>1, <3>3, <3>4
  <2>3. CASE ~Unmanaged(next) /\ ~(Lookup(t) /\ creds[t].key \in Digests /\ Authenticates(creds[t].key))
    <3>1. PICK other : Step(t, other) /\ Unmanaged(other)
      BY <2>3, OtherCredentials
         DEF Arrive, Lookup, LookupFault, TokenChecked, TokenFault
    <3>2. who'[t] = other.who
      BY <3>1 DEF Step, MemoryInv, ChainInv
    <3> QED
      BY <3>1, <3>2 DEF Unmanaged, Managed
  <2> QED
    BY <2>1, <2>2, <2>3
<1>9. Entitled(t)'
  BY <1>2, <1>8 DEF Entitled, Authenticates
<1>10. \A u \in Tasks \ {t} : Entitled(u)'
  BY <1>2, <1>4 DEF Entitled
<1>11. \A u \in Tasks : stage'[u] # "inside" => pc'[u] = "idle"
  BY <1>2, <1>3 DEF MemoryInv
<1> QED
  BY <1>6, <1>7, <1>9, <1>10, <1>11 DEF MemoryInv

\* The step of an operation.
LEMMA OperatesInMemory ==
  ASSUME ~Suspending, MemoryInv, NEW t \in Tasks, Operate(t)
  PROVE  MemoryInv'
<1>1. /\ stage[t] = "inside" /\ UNCHANGED <<settings, stage, endpoint, creds, who>>
      /\ \/ StartCreate(t) \/ StartById(t) \/ NotFound(t)
         \/ FoundToUpdate(t) \/ FoundToRotate(t) \/ FoundToDelete(t)
         \/ Command(t) \/ Return(t) \/ Fault(t)
  BY DEF Operate
<1>2. [Next]_vars
  BY <1>1 DEF Next
<1>3. TypeOK' /\ Solo'
  BY <1>2, TypeStep, SoloStep DEF MemoryInv
<1>4. ChainInv'
  BY ChainStep DEF MemoryInv, AccessNext, Request
<1>5. PICK label \in Waiting \cup {"ended"} : Goto(t, label)
  BY <1>1 DEF StartCreate, StartById, NotFound, FoundToUpdate, FoundToRotate,
              FoundToDelete, Command, Return, Fault, Waiting
<1>6. /\ pc'[t] = label /\ label # "idle" /\ loop \in {None, t}
      /\ \A u \in Tasks \ {t} : pc'[u] = pc[u]
  BY <1>5, OneAtATime DEF MemoryInv, Solo, Goto, Waiting
<1>7. \A u \in Tasks \ {t} : Entitled(u)'
  BY <1>1, <1>6, RegistryAssumption DEF MemoryInv, Entitled
<1>8. Entitled(t)' /\ (stage'[t] # "inside" => pc'[t] = "idle")
  BY <1>1, <1>6 DEF Entitled
<1>9. \A u \in Tasks \ {t} : stage'[u] # "inside" => pc'[u] = "idle"
  BY <1>1, <1>6 DEF MemoryInv
<1> QED
  BY <1>3, <1>4, <1>7, <1>8, <1>9 DEF MemoryInv

LEMMA DepartsInMemory ==
  ASSUME ~Suspending, MemoryInv, NEW t \in Tasks, Depart(t)
  PROVE  MemoryInv'
<1>1. ChainInv'
  BY ChainStep DEF MemoryInv, AccessNext, Request
<1>2. /\ stage'[t] = "out"
      /\ \A u \in Tasks \ {t} : /\ stage'[u] = stage[u] /\ who'[u] = who[u]
                                /\ creds'[u] = creds[u] /\ endpoint'[u] = endpoint[u]
  BY DEF Depart, MemoryInv, ChainInv
<1>3. /\ TypeOK' /\ Solo' /\ store' = store /\ loop \in {None, t}
      /\ pc'[t] = "idle" /\ \A u \in Tasks \ {t} : pc'[u] = pc[u]
  <2>1. CASE Leave(t)
    <3>1. TypeOK' /\ Solo'
      BY <2>1, TypeStep, SoloStep DEF MemoryInv, Next
    <3> QED
      BY <2>1, <3>1, OneAtATime DEF MemoryInv, Solo, Leave, Goto
  <2>2. CASE pc[t] = "idle" /\ Hold(t, FALSE) /\ UNCHANGED <<store, pc, taskVars, history>>
    <3>1. loop \in {None, t} /\ loop' = None
      BY <2>2 DEF Hold, MayRun
    <3>2. Alone'
      BY <2>2, <3>1, RegistryAssumption DEF MemoryInv, Solo, Alone, Waiting
    <3> QED
      BY <2>2, <3>1, <3>2, SoloRests
  <2> QED
    BY <2>1, <2>2 DEF Depart
<1>4. \A u \in Tasks \ {t} : Entitled(u)'
  BY <1>2, <1>3, RegistryAssumption DEF MemoryInv, Entitled
<1>5. Entitled(t)'
  BY <1>2 DEF Entitled
<1>6. \A u \in Tasks : stage'[u] # "inside" => pc'[u] = "idle"
  BY <1>2, <1>3 DEF MemoryInv
<1> QED
  BY <1>1, <1>3, <1>4, <1>5, <1>6 DEF MemoryInv

LEMMA MemoryStep == ~Suspending /\ MemoryInv /\ [AccessNext]_allVars => MemoryInv'
<1> SUFFICES ASSUME ~Suspending, MemoryInv, [AccessNext]_allVars PROVE MemoryInv'
  OBVIOUS
<1>1. CASE AccessNext
  BY <1>1, DecidesInMemory, OperatesInMemory, DepartsInMemory DEF AccessNext, Request
<1>2. CASE UNCHANGED allVars
  <2>1. ChainInv'
    BY <1>2, ChainStep DEF MemoryInv
  <2>2. TypeOK' /\ Solo'
    BY <1>2, SoloRests DEF MemoryInv, TypeOK, Shape, Solo, Alone, allVars, vars
  <2>3. \A t \in Tasks : (stage'[t] # "inside" => pc'[t] = "idle") /\ Entitled(t)'
    BY <1>2 DEF allVars, accessVars, vars, MemoryInv, Entitled, Managed, Authenticates
  <2> QED
    BY <2>1, <2>2, <2>3 DEF MemoryInv
<1> QED
  BY <1>1, <1>2

LEMMA MemoryStart == ~Suspending /\ AccessInit => MemoryInv
  BY TypeInit, SoloInit, ChainInit DEF AccessInit, Init, MemoryInv, Entitled

LEMMA AlwaysInMemory == ASSUME ~Suspending PROVE AccessSpec => []MemoryInv
<1>1. AccessInit => MemoryInv
  BY MemoryStart
<1>2. MemoryInv /\ [AccessNext]_allVars => MemoryInv'
  BY MemoryStep
<1> QED
  BY <1>1, <1>2, PTL DEF AccessSpec

\* With the memory backend the registry keeps its promises under the requests
\* that create, update, rotate and delete clients, whoever sends them: a key
\* that was replaced is dead, a client has one key, a delete is final.
THEOREM RegistrySoundInMemory ==
  ASSUME ~Suspending
  PROVE  AccessSpec => [](RotatedKeyDead /\ OneKeyPerClient /\ DeleteIsFinal)
<1>1. MemoryInv => RotatedKeyDead /\ OneKeyPerClient /\ DeleteIsFinal
  BY SoloImplies DEF MemoryInv
<1> QED
  BY <1>1, AlwaysInMemory, PTL

\* With the memory backend a managed administrator starts an operation only
\* while its key is stored, enabled and an administrator's: nothing suspends
\* between authenticate_client and the first command of the handler.
THEOREM EntitledWhenActing == ASSUME ~Suspending PROVE AccessSpec => ActsWhileEntitled
<1>1. ASSUME MemoryInv, [AccessNext]_allVars, NEW t \in Tasks,
             pc[t] = "idle", pc'[t] \in Waiting, Managed(t)
      PROVE  Authenticates(creds[t].key) /\ store[creds[t].key].role = "admin"
  <2>1. PICK u \in Tasks : Request(u)
    BY <1>1 DEF AccessNext, allVars, vars, Waiting
  <2>2. pc' # pc
    BY <1>1 DEF Waiting
  <2>3. ~(Arrive(u) \/ Lookup(u) \/ LookupFault(u) \/ TokenChecked(u) \/ TokenFault(u))
    BY <2>2 DEF Arrive, Lookup, LookupFault, TokenChecked, TokenFault, Step
  <2>4. pc \in [Tasks -> {"idle", "ended"} \cup Waiting]
    BY <1>1 DEF MemoryInv, TypeOK, Shape
  <2>5. ~Depart(u)
    BY <1>1, <2>2, <2>4 DEF Depart, Leave, Goto, Waiting
  <2>6. Operate(u)
    BY <2>1, <2>3, <2>5 DEF Request
  <2>7. u = t
    BY <1>1, <2>4, <2>6
       DEF Operate, StartCreate, StartById, NotFound, FoundToUpdate, FoundToRotate,
           FoundToDelete, Command, Return, Fault, Goto, Waiting
  <2>8. stage[t] = "inside" /\ endpoint[t] = "manage"
    BY <2>6, <2>7 DEF Operate
  <2> QED
    BY <1>1, <2>8 DEF MemoryInv, Entitled, AllowedRoles
<1>2. MemoryInv /\ [AccessNext]_allVars =>
        [\A t \in Tasks :
           (pc[t] = "idle" /\ pc'[t] \in Waiting /\ Managed(t)) =>
             Authenticates(creds[t].key) /\ store[creds[t].key].role = "admin"]_allVars
  BY <1>1
<1> QED
  BY <1>2, AlwaysInMemory, PTL DEF AccessSpec, ActsWhileEntitled
=============================================================================
