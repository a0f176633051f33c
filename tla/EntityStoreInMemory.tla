-------------------------- MODULE EntityStoreInMemory --------------------------
(******************************************************************************)
(* EntityStoreInMemory (src/entity_store_in_memory.cc): one mutex, one table  *)
(* of entities and one id counter that every entity shares.  A call takes the *)
(* lock, works on the table in as many steps as the code has statements that  *)
(* touch it, and gives the lock back when its lock_guard goes out of scope.   *)
(******************************************************************************)
EXTENDS Integers, Sequences, Functions

CONSTANTS
    Threads,    \* threads that share the store
    Entities,   \* entity names; this store accepts any
    Ids,        \* ids that callers name
    Bodies,     \* values of data
    MaxCreates, \* bound: Create is no longer called once it took this many ids
    NoThread    \* owner of a free mutex

ASSUME IdsAssumption == Ids \subseteq Int
ASSUME NoThreadAssumption == NoThread \notin Threads
ASSUME MaxCreatesAssumption == MaxCreates \in Nat

VARIABLES
    objects_by_id_by_entity_,  \* map: entity names seen so far -> (id -> body)
    next_id_,                  \* the counter behind Create, for all entities
    mutex_,                    \* the thread that holds the lock, or NoThread
    pc,                        \* where each thread is
    request,                   \* its arguments
    reply,                     \* its return value
    new_id,                    \* Create's local variable id
    issued                     \* ghost: the ids Create has taken, oldest first

vars == <<objects_by_id_by_entity_, next_id_, mutex_, pc, request, reply,
          new_id, issued>>

\* The table as its readers see it: an entity nobody named has no objects.
Objects == [e \in Entities |->
               IF e \in DOMAIN objects_by_id_by_entity_
               THEN objects_by_id_by_entity_[e]
               ELSE [id \in {} |-> id]]

Status == [t \in Threads |-> IF pc[t] = "idle" THEN "idle"
                             ELSE IF pc[t] \in {"done", "replied"} THEN "replied"
                             ELSE "called"]

Abstract == INSTANCE EntityStore WITH objects <- Objects, status <- Status

\* Bug that TypeOK catches: a counter that starts at the value that means
\* failure.
InitAtMinusOne ==
    /\ objects_by_id_by_entity_ = [e \in {} |-> [id \in {} |-> id]]
    /\ next_id_ = -1
    /\ mutex_ = NoThread
    /\ pc = [t \in Threads |-> "idle"]
    /\ request = [t \in Threads |-> Abstract!NoRequest]
    /\ reply = [t \in Threads |-> Abstract!NoReply]
    /\ new_id = [t \in Threads |-> -1]
    /\ issued = <<>>

Init ==
    /\ objects_by_id_by_entity_ = [e \in {} |-> [id \in {} |-> id]]
    /\ next_id_ = 0
    /\ mutex_ = NoThread
    /\ pc = [t \in Threads |-> "idle"]
    /\ request = [t \in Threads |-> Abstract!NoRequest]
    /\ reply = [t \in Threads |-> Abstract!NoReply]
    /\ new_id = [t \in Threads |-> -1]
    /\ issued = <<>>

--------------------------------------------------------------------------------
(* Calling, locking, unlocking, returning: the same for every operation       *)

MayCall(req) == req.op = "create" => Len(issued) < MaxCreates

Call(t, req) ==
    /\ pc[t] = "idle"
    /\ MayCall(req)
    /\ pc' = [pc EXCEPT ![t] = "waiting"]
    /\ request' = [request EXCEPT ![t] = req]
    /\ UNCHANGED <<objects_by_id_by_entity_, next_id_, mutex_, reply, new_id,
                   issued>>

\* Bug that LockHeldInside and ReservedIdIsFree catch: an operation without its
\* lock_guard.
LockIgnoresOwner(t) ==
    /\ pc[t] = "waiting"
    /\ mutex_' = t
    /\ pc' = [pc EXCEPT ![t] = "locked"]
    /\ UNCHANGED <<objects_by_id_by_entity_, next_id_, request, reply, new_id,
                   issued>>

Lock(t) ==
    /\ pc[t] = "waiting"
    /\ mutex_ = NoThread
    /\ mutex_' = t
    /\ pc' = [pc EXCEPT ![t] = "locked"]
    /\ UNCHANGED <<objects_by_id_by_entity_, next_id_, request, reply, new_id,
                   issued>>

\* Bug that SomeCallCompletes catches: a lock that is taken by hand and not
\* released on the way out.
UnlockForgotten(t) ==
    /\ pc[t] = "done"
    /\ pc' = [pc EXCEPT ![t] = "replied"]
    /\ UNCHANGED <<objects_by_id_by_entity_, next_id_, mutex_, request, reply,
                   new_id, issued>>

\* The lock_guard is destroyed after the return value is computed.
Unlock(t) ==
    /\ pc[t] = "done"
    /\ mutex_' = NoThread
    /\ pc' = [pc EXCEPT ![t] = "replied"]
    /\ UNCHANGED <<objects_by_id_by_entity_, next_id_, request, reply, new_id,
                   issued>>

Return(t) ==
    /\ pc[t] = "replied"
    /\ pc' = [pc EXCEPT ![t] = "idle"]
    /\ request' = [request EXCEPT ![t] = Abstract!NoRequest]
    /\ reply' = [reply EXCEPT ![t] = Abstract!NoReply]
    /\ new_id' = [new_id EXCEPT ![t] = -1]
    /\ UNCHANGED <<objects_by_id_by_entity_, next_id_, mutex_, issued>>

--------------------------------------------------------------------------------
(* The bodies of the operations                                               *)

At(t, where, op) == pc[t] = where /\ request[t].op = op
Here(t) == Objects[request[t].entity_name]

\* objects_by_id_by_entity_[entity_name] in the code inserts an empty map for
\* an entity it meets for the first time, whatever the operation.
SetHere(t, objs) ==
    objects_by_id_by_entity_' =
        [e \in DOMAIN objects_by_id_by_entity_ \cup {request[t].entity_name} |->
            IF e = request[t].entity_name THEN objs ELSE Objects[e]]

Finish(t, r) ==
    /\ reply' = [reply EXCEPT ![t] = r]
    /\ pc' = [pc EXCEPT ![t] = "done"]
    /\ UNCHANGED <<mutex_, request>>

\* Create: the map of the entity is found or made,
CreateBegin(t) ==
    /\ At(t, "locked", "create")
    /\ SetHere(t, Here(t))
    /\ pc' = [pc EXCEPT ![t] = "probing"]
    /\ UNCHANGED <<next_id_, mutex_, request, reply, new_id, issued>>

\* ids that an Update has occupied are skipped,
CreateSkip(t) ==
    /\ At(t, "probing", "create")
    /\ next_id_ \in DOMAIN Here(t)
    /\ next_id_' = next_id_ + 1
    /\ UNCHANGED <<objects_by_id_by_entity_, mutex_, pc, request, reply, new_id,
                   issued>>

\* Bug that IssuedOnce catches: Create without the next_id_++ after its loop.
CreateTakeKeepsCounter(t) ==
    /\ At(t, "probing", "create")
    /\ next_id_ \notin DOMAIN Here(t)
    /\ new_id' = [new_id EXCEPT ![t] = next_id_]
    /\ issued' = Append(issued, next_id_)
    /\ pc' = [pc EXCEPT ![t] = "inserting"]
    /\ UNCHANGED <<objects_by_id_by_entity_, next_id_, mutex_, request, reply>>

\* Bug that ImplementsEntityStore catches: Create without the loop that skips
\* the ids Update has occupied.
CreateTakeWithoutProbing(t) ==
    /\ At(t, "probing", "create")
    /\ new_id' = [new_id EXCEPT ![t] = next_id_]
    /\ next_id_' = next_id_ + 1
    /\ issued' = Append(issued, next_id_)
    /\ pc' = [pc EXCEPT ![t] = "inserting"]
    /\ UNCHANGED <<objects_by_id_by_entity_, mutex_, request, reply>>

\* The first free one is taken and the counter moves past it,
CreateTake(t) ==
    /\ At(t, "probing", "create")
    /\ next_id_ \notin DOMAIN Here(t)
    /\ new_id' = [new_id EXCEPT ![t] = next_id_]
    /\ next_id_' = next_id_ + 1
    /\ issued' = Append(issued, next_id_)
    /\ pc' = [pc EXCEPT ![t] = "inserting"]
    /\ UNCHANGED <<objects_by_id_by_entity_, mutex_, request, reply>>

\* and the object is stored.
CreateInsert(t) ==
    /\ At(t, "inserting", "create")
    /\ SetHere(t, Abstract!Put(Here(t), new_id[t], request[t].data))
    /\ Finish(t, [id |-> new_id[t]])
    /\ UNCHANGED <<next_id_, new_id, issued>>

Read(t) ==
    /\ At(t, "locked", "read")
    /\ SetHere(t, Here(t))
    /\ LET id == request[t].id
       IN  \/ /\ id \in DOMAIN Here(t)
              /\ Finish(t, [ok |-> TRUE, out_data |-> Here(t)[id]])
           \/ /\ id \notin DOMAIN Here(t)
              /\ Finish(t, [ok |-> FALSE])
    /\ UNCHANGED <<next_id_, new_id, issued>>

Update(t) ==
    /\ At(t, "locked", "update")
    /\ SetHere(t, Abstract!Put(Here(t), request[t].id, request[t].data))
    /\ Finish(t, [ok |-> TRUE])
    /\ UNCHANGED <<next_id_, new_id, issued>>

Delete(t) ==
    /\ At(t, "locked", "delete")
    /\ SetHere(t, Abstract!Drop(Here(t), request[t].id))
    /\ Finish(t, [ok |-> request[t].id \in DOMAIN Here(t)])
    /\ UNCHANGED <<next_id_, new_id, issued>>

List(t) ==
    /\ At(t, "locked", "list")
    /\ SetHere(t, Here(t))
    /\ Finish(t, [ids |-> DOMAIN Here(t)])
    /\ UNCHANGED <<next_id_, new_id, issued>>

--------------------------------------------------------------------------------
\* What a thread does once it has called, which it never stops doing.
Work(t) ==
    \/ Lock(t)
    \/ CreateBegin(t) \/ CreateSkip(t) \/ CreateTake(t) \/ CreateInsert(t)
    \/ Read(t) \/ Update(t) \/ Delete(t) \/ List(t)
    \/ Unlock(t)
    \/ Return(t)

Next ==
    \E t \in Threads :
        \/ \E req \in Abstract!Requests : Call(t, req)
        \/ Work(t)

Spec == Init /\ [][Next]_vars

\* A running thread is scheduled again and again; std::mutex promises no order
\* among the threads that wait for it, so Lock gets no strong fairness.
FairSpec == Spec /\ \A t \in Threads : WF_vars(Work(t))

--------------------------------------------------------------------------------
(* Properties                                                                 *)

\* A map from ids to bodies, and a function (which the provers have to be told).
IsObjectMap(f) ==
    /\ f = [id \in DOMAIN f |-> f[id]]
    /\ DOMAIN f \subseteq Int
    /\ \A id \in DOMAIN f : f[id] \in Bodies

IsObjectTable(f) ==
    /\ f = [e \in DOMAIN f |-> f[e]]
    /\ DOMAIN f \subseteq Entities
    /\ \A e \in DOMAIN f : IsObjectMap(f[e])

IsReply(r) ==
    \/ r = Abstract!NoReply
    \/ r \in [id : Int] \cup [ok : BOOLEAN] \cup [ok : {TRUE}, out_data : Bodies]
    \/ DOMAIN r = {"ids"} /\ r.ids \subseteq Int

\* The type invariant: the table maps entities to maps from ids to bodies, a
\* thread past "idle" has a request, Create's steps belong to a Create.
TypeOK ==
    /\ IsObjectTable(objects_by_id_by_entity_)
    /\ next_id_ \in Nat
    /\ mutex_ \in Threads \cup {NoThread}
    /\ pc \in [Threads -> {"idle", "waiting", "locked", "probing", "inserting",
                           "done", "replied"}]
    /\ request \in [Threads -> Abstract!Requests \cup {Abstract!NoRequest}]
    /\ DOMAIN reply = Threads /\ \A t \in Threads : IsReply(reply[t])
    /\ new_id \in [Threads -> Int]
    /\ issued \in Seq(Nat)

\* The lock_guard at the top of each operation: between Lock and Unlock a thread
\* is alone in the store, so no two of them are inside an operation at once.
Inside == {"locked", "probing", "inserting", "done"}
LockHeldInside ==
    \A t \in Threads : pc[t] \in Inside <=> mutex_ = t

\* Create decides on an id in one statement and stores the object in a later
\* one; in between nobody else (an Update that names the same id, another
\* Create) has put an object there, so Create overwrites nothing.
ReservedIdIsFree ==
    \A t \in Threads :
        pc[t] = "inserting" => new_id[t] \notin DOMAIN Here(t)

\* Create never takes an id a second time, for no entity, even when the object
\* was deleted meanwhile or Update made the counter skip: a client that holds
\* an id of a deleted object never meets a stranger under it that Create made.
IssuedOnce ==
    \A m, n \in DOMAIN issued : issued[m] = issued[n] => m = n

\* Every operation of the in-memory store appears to its callers as one step of
\* the contract, between its call and its return, whatever the interleaving.
ImplementsEntityStore == Abstract!Spec

\* Nobody leaves the store with the lock in hand: as long as some thread waits
\* for it, calls keep being answered (not necessarily that thread's).
SomeCallCompletes ==
    (\E t \in Threads : pc[t] = "waiting")
        ~> (\E t \in Threads : pc[t] = "replied")
================================================================================
