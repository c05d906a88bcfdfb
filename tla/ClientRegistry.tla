--------------------------- MODULE ClientRegistry ---------------------------
(***************************************************************************)
(* The managed API clients of GovernanceStore (app/governance.py): a hash  *)
(* from key digests to client records, and the admin operations that       *)
(* create, update, rotate and delete clients, each a sequence of store     *)
(* commands with an await at every one.                                    *)
(*                                                                         *)
(* Suspending = TRUE is the Redis backend: every command is a round trip,  *)
(* the operations of all replicas interleave between commands, and a       *)
(* command can fail whether or not it has been executed, which ends its    *)
(* operation just as the death of the replica does.  Suspending = FALSE is *)
(* the memory backend: no await suspends, so an operation keeps the event  *)
(* loop from its first command to its last.                                *)
(*                                                                         *)
(* A key is represented by its digest.  New keys and new client ids are    *)
(* random and never equal to earlier ones.                                 *)
(***************************************************************************)
CONSTANTS
  Tasks,       \* admin requests in progress
  Ids,         \* client ids
  Digests,     \* SHA-256 digests of keys
  Roles,       \* role; the rate limit override behaves in the same way
  Suspending,  \* the backend is Redis
  None         \* no record, no id, no digest, no task

Record == [id : Ids, role : Roles, enabled : BOOLEAN]

ASSUME RegistryAssumption ==
  /\ Suspending \in BOOLEAN
  /\ None \notin Tasks \cup Ids \cup Digests \cup Record

VARIABLES
  store,       \* governance:clients, a record or None for every digest
  loop,        \* the task that keeps the event loop
  pc,          \* the command the task waits for
  op,          \* its operation
  client,      \* client_id
  digest,      \* the entry it found, or the one it creates
  fresh,       \* the new digest of a rotation
  record,      \* its copy of the client's record
  \* history:
  issuedKeys,  \* digests of the keys made so far
  issuedIds,   \* ids made so far
  created,     \* ids whose first record has been stored
  condemned,   \* ids that a delete operation has looked up
  deleted,     \* ids whose delete operation has returned
  retired,     \* digests that a returned rotation has replaced
  handed,      \* digests of the keys that a create or a rotation has returned
  stranded     \* clients whose key was lost: a create or a rotation has failed
               \* after it changed the store, and returned none

taskVars == <<op, client, digest, fresh, record>>
outcomes == <<deleted, retired, handed>>
history == <<issuedKeys, issuedIds, created, condemned, outcomes, stranded>>
vars == <<store, loop, pc, taskVars, history>>

Ops == {"create", "update", "rotate", "delete"}
Waiting == {"read", "put", "putNew", "remove", "audit"}

Init ==
  /\ store = [d \in Digests |-> None]
  /\ loop = None
  /\ pc = [t \in Tasks |-> "idle"]
  /\ op = [t \in Tasks |-> None]
  /\ client = [t \in Tasks |-> None]
  /\ digest = [t \in Tasks |-> None]
  /\ fresh = [t \in Tasks |-> None]
  /\ record = [t \in Tasks |-> None]
  /\ issuedKeys = {} /\ issuedIds = {}
  /\ created = {} /\ condemned = {} /\ deleted = {} /\ retired = {}
  /\ handed = {} /\ stranded = {}

\* Without a suspension the task goes on to its end before any other runs.
Goto(t, label) ==
  /\ Suspending \/ loop \in {None, t}
  /\ pc' = [pc EXCEPT ![t] = label]
  /\ loop' = IF ~Suspending /\ label \in Waiting THEN t ELSE None

-----------------------------------------------------------------------------
\* secrets.token_urlsafe: a key that was never issued before.
NewKey(d) == d \notin issuedKeys /\ issuedKeys' = issuedKeys \cup {d}

\* create_client makes the key, the id and the record, and sends the HSET.
StartCreate(t) ==
  /\ pc[t] = "idle"
  /\ op' = [op EXCEPT ![t] = "create"]
  /\ \E d \in Digests, i \in Ids \ issuedIds, role \in Roles :
       /\ NewKey(d)
       /\ issuedIds' = issuedIds \cup {i}
       /\ client' = [client EXCEPT ![t] = i]
       /\ digest' = [digest EXCEPT ![t] = d]
       /\ record' = [record EXCEPT ![t] = [id |-> i, role |-> role, enabled |-> TRUE]]
  /\ Goto(t, "put")
  /\ UNCHANGED <<store, fresh, created, condemned, outcomes, stranded>>

\* The other operations begin with the HGETALL of _client_entry_by_id.  (No
\* rotation begins when Digests, a bound where it is finite, has no key left.)
StartById(t) ==
  /\ pc[t] = "idle"
  /\ \E o \in Ops \ {"create"} :
       /\ o = "rotate" => issuedKeys # Digests
       /\ op' = [op EXCEPT ![t] = o]
  /\ \E i \in issuedIds : client' = [client EXCEPT ![t] = i]
  /\ Goto(t, "read")
  /\ UNCHANGED <<store, digest, fresh, record, history>>

Entries(i) == {d \in Digests : store[d] # None /\ store[d].id = i}

\* KeyError, answered 404.
NotFound(t) ==
  /\ pc[t] = "read"
  /\ Entries(client[t]) = {}
  /\ Goto(t, "ended")
  /\ UNCHANGED <<store, taskVars, history>>

\* _client_entry_by_id takes the first entry with the id, in the order of the
\* hash; what the operation makes of it is decided before its next command.
Found(t, d, copy) ==
  /\ pc[t] = "read"
  /\ d \in Entries(client[t])
  /\ digest' = [digest EXCEPT ![t] = d]
  /\ record' = [record EXCEPT ![t] = copy]

FoundToUpdate(t) ==
  /\ op[t] = "update"
  /\ \E d \in Entries(client[t]), role \in Roles, enabled \in BOOLEAN :
       Found(t, d, [store[d] EXCEPT !.role = role, !.enabled = enabled])
  /\ Goto(t, "put")
  /\ UNCHANGED <<store, op, client, fresh, history>>

\* Mutant: the client is taken from a cache of what other operations have read.
FoundToRotateCached(t) ==
  /\ op[t] = "rotate" /\ pc[t] = "read"
  /\ \E u \in Tasks, new \in Digests :
       /\ record[u] # None /\ record[u].id = client[t]
       /\ digest' = [digest EXCEPT ![t] = digest[u]]
       /\ record' = [record EXCEPT ![t] = record[u]]
       /\ NewKey(new)
       /\ fresh' = [fresh EXCEPT ![t] = new]
  /\ Goto(t, "putNew")
  /\ UNCHANGED <<store, op, client, issuedIds, created, condemned, outcomes, stranded>>

\* Mutant: no new key is made, the record is stored again under the old one.
FoundToRotateReusing(t) ==
  /\ op[t] = "rotate"
  /\ \E d \in Entries(client[t]) :
       Found(t, d, store[d]) /\ fresh' = [fresh EXCEPT ![t] = d]
  /\ Goto(t, "putNew")
  /\ UNCHANGED <<store, op, client, history>>

\* rotate_client_key makes the new key and copies the record unchanged.
FoundToRotate(t) ==
  /\ op[t] = "rotate"
  /\ \E d \in Entries(client[t]), new \in Digests :
       /\ Found(t, d, store[d])
       /\ NewKey(new)
       /\ fresh' = [fresh EXCEPT ![t] = new]
  /\ Goto(t, "putNew")
  /\ UNCHANGED <<store, op, client, issuedIds, created, condemned, outcomes, stranded>>

FoundToDelete(t) ==
  /\ op[t] = "delete"
  /\ \E d \in Entries(client[t]) : Found(t, d, store[d])
  /\ condemned' = condemned \cup {client[t]}
  /\ Goto(t, "remove")
  /\ UNCHANGED <<store, op, client, fresh, issuedKeys, issuedIds, created, outcomes,
                 stranded>>

-----------------------------------------------------------------------------
(* The commands that write, as Redis executes them. *)

\* HSET of the record under the digest it was found or made for.
PutStored(t) ==
  /\ pc[t] = "put"
  /\ store' = [store EXCEPT ![digest[t]] = record[t]]
  /\ created' = created \cup {client[t]}

\* HSET of a rotation, under the new digest.
NewStored(t) ==
  /\ pc[t] = "putNew"
  /\ store' = [store EXCEPT ![fresh[t]] = record[t]]
  /\ UNCHANGED created

\* Mutant: the rotation leaves the old entry where it is.
RemovedUnlessRotating(t) ==
  /\ pc[t] = "remove"
  /\ store' = IF op[t] = "rotate" THEN store ELSE [store EXCEPT ![digest[t]] = None]
  /\ UNCHANGED created

\* Mutant: a rotation removes all keys of the client but its own new one.
RemovedAllOthers(t) ==
  /\ pc[t] = "remove"
  /\ store' = [d \in Digests |->
       IF store[d] # None /\ store[d].id = client[t] /\ d # fresh[t] THEN None ELSE store[d]]
  /\ UNCHANGED created

\* Mutant: a deleted client is kept, disabled.
RemovedSoftly(t) ==
  /\ pc[t] = "remove"
  /\ store' = [store EXCEPT ![digest[t]] =
       IF op[t] = "rotate" THEN None ELSE [record[t] EXCEPT !.enabled = FALSE]]
  /\ UNCHANGED created

\* HDEL of a rotation or a delete.
Removed(t) ==
  /\ pc[t] = "remove"
  /\ store' = [store EXCEPT ![digest[t]] = None]
  /\ UNCHANGED created

Executed(t) == PutStored(t) \/ NewStored(t) \/ Removed(t)

Command(t) ==
  /\ Executed(t)
  /\ Goto(t, IF pc[t] = "putNew" THEN "remove" ELSE "audit")
  /\ UNCHANGED <<taskVars, issuedKeys, issuedIds, condemned, outcomes, stranded>>

Makes(t) == op[t] \in {"create", "rotate"}

\* The digest of the key that a create or a rotation makes, and returns.
Key(t) == IF op[t] = "rotate" THEN fresh[t] ELSE digest[t]

\* The audit entry is the last command; the operation returns.
Return(t) ==
  /\ pc[t] = "audit"
  /\ deleted' = deleted \cup (IF op[t] = "delete" THEN {client[t]} ELSE {})
  /\ retired' = retired \cup (IF op[t] = "rotate" THEN {digest[t]} ELSE {})
  /\ handed' = handed \cup (IF Makes(t) THEN {Key(t)} ELSE {})
  /\ Goto(t, "ended")
  /\ UNCHANGED <<store, taskVars, issuedKeys, issuedIds, created, condemned, stranded>>

\* RedisError, or the death of the replica, at any command: the answer is 500,
\* or none, and no key is returned.  Until the HDEL a rotation has taken none
\* away.
LosesKey(t) ==
  Makes(t) /\ (pc[t] = "audit" \/ (pc[t] \in {"put", "remove"} /\ store' # store))

Fault(t) ==
  /\ Suspending /\ pc[t] \in Waiting
  /\ Executed(t) \/ UNCHANGED <<store, created>>
  /\ stranded' = stranded \cup (IF LosesKey(t) THEN {client[t]} ELSE {})
  /\ Goto(t, "ended")
  /\ UNCHANGED <<taskVars, issuedKeys, issuedIds, condemned, outcomes>>

\* The request is over and its slot is free.
Leave(t) ==
  /\ pc[t] = "ended"
  /\ Goto(t, "idle")
  /\ op' = [op EXCEPT ![t] = None]
  /\ client' = [client EXCEPT ![t] = None]
  /\ digest' = [digest EXCEPT ![t] = None]
  /\ fresh' = [fresh EXCEPT ![t] = None]
  /\ record' = [record EXCEPT ![t] = None]
  /\ UNCHANGED <<store, history>>

Next ==
  \E t \in Tasks :
    \/ StartCreate(t) \/ StartById(t) \/ NotFound(t)
    \/ FoundToUpdate(t) \/ FoundToRotate(t) \/ FoundToDelete(t)
    \/ Command(t) \/ Return(t) \/ Fault(t) \/ Leave(t)

Spec == Init /\ [][Next]_vars

-----------------------------------------------------------------------------
(* Properties. *)

\* authenticate_client accepts the key.
Authenticates(d) == store[d] # None /\ store[d].enabled

Shape ==
  /\ store \in [Digests -> Record \cup {None}]
  /\ loop \in Tasks \cup {None}
  /\ pc \in [Tasks -> {"idle", "ended"} \cup Waiting]
  /\ op \in [Tasks -> Ops \cup {None}]
  /\ client \in [Tasks -> Ids \cup {None}]
  /\ digest \in [Tasks -> Digests \cup {None}]
  /\ fresh \in [Tasks -> Digests \cup {None}]
  /\ record \in [Tasks -> Record \cup {None}]
  /\ issuedKeys \in SUBSET Digests /\ retired \in SUBSET Digests
  /\ handed \in SUBSET Digests /\ stranded \in SUBSET Ids
  /\ issuedIds \in SUBSET Ids /\ created \in SUBSET Ids
  /\ condemned \in SUBSET Ids /\ deleted \in SUBSET Ids

\* What a task is about to do is defined.
Prepared(t) ==
  /\ pc[t] \in Waiting => client[t] \in Ids /\ op[t] \in Ops
  /\ pc[t] \in {"put", "putNew", "remove", "audit"} =>
       digest[t] \in Digests /\ record[t] \in Record /\ record[t].id = client[t]
  /\ pc[t] = "put" => op[t] \in {"create", "update"}
  /\ pc[t] = "putNew" => op[t] = "rotate"
  /\ op[t] = "rotate" /\ pc[t] \in {"putNew", "remove", "audit"} => fresh[t] \in Digests

\* Every key in use has been issued, and the new key of a rotation that has
\* yet to store it is known to no other operation and to no entry.
Unknown(t) ==
  pc[t] = "putNew" =>
    /\ store[fresh[t]] = None
    /\ \A u \in Tasks : digest[u] # fresh[t] /\ (u # t => fresh[u] # fresh[t])

KeysIssued ==
  /\ \A d \in Digests : store[d] # None => d \in issuedKeys
  /\ \A t \in Tasks : {digest[t], fresh[t]} \subseteq issuedKeys \cup {None}

\* The shape of the state and of what each operation is about to write; no
\* two operations ever hold the same new key.
TypeOK ==
  /\ Shape
  /\ KeysIssued
  /\ \A t \in Tasks : Prepared(t) /\ Unknown(t)

\* t has stored the key d that it made for i, and will return it unless it fails.
Offers(t, i, d) ==
  client[t] = i /\ Makes(t) /\ pc[t] \in {"remove", "audit"} /\ Key(t) = d

InHands(i, d) == d \in handed \/ \E t \in Tasks : Offers(t, i, d)

\* A client that no delete has looked up keeps an entry, whatever overlaps and
\* whatever fails, so that its key can be rotated again.  Its owner keeps a key
\* too, as long as no create and no rotation of the client fails after it has
\* changed the store; if one does (the reply to the HDEL is lost, or the audit
\* entry cannot be written: governance.py:338-344), the old key may be dead and
\* the new one was never returned.
KeyInHands ==
  \A i \in created \ condemned :
    /\ Entries(i) # {}
    /\ i \notin stranded => \E d \in Entries(i) : InHands(i, d)

\* What is removed, a key or a client with all its keys, comes back only
\* through an operation that had looked it up before it was removed and has yet
\* to store it (which does bring it back: RotatedKeyDead fails).
Dead(d) ==
  /\ d \in issuedKeys /\ store[d] = None
  /\ \A t \in Tasks : /\ pc[t] = "put" => digest[t] # d
                      /\ pc[t] = "putNew" => fresh[t] # d

Gone(i) ==
  /\ i \in issuedIds /\ Entries(i) = {}
  /\ \A t \in Tasks : pc[t] \in {"put", "putNew"} => client[t] # i

RemovalsLast ==
  [][/\ \A d \in Digests : Dead(d) => Dead(d)'
     /\ \A i \in Ids : Gone(i) => Gone(i)']_vars

\* A key that a successful rotation has replaced is not accepted again.
RotatedKeyDead ==
  \A d \in retired : ~Authenticates(d)

\* A client has one key: between operations (and with Redis between any two
\* commands) no two digests stand for the same client.
OneKeyPerClient ==
  loop = None =>
    \A d, e \in Digests :
      store[d] # None /\ store[e] # None /\ store[d].id = store[e].id => d = e

\* A deleted client has no key any more.
DeleteIsFinal ==
  loop = None => \A i \in deleted : Entries(i) = {}
=============================================================================
