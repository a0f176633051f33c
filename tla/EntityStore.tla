------------------------------ MODULE EntityStore ------------------------------
(******************************************************************************)
(* What include/entity_store.h promises of every store, as an atomic object:  *)
(* a thread calls an operation, the operation takes effect in one step        *)
(* somewhere between its call and its return, and the reply is what that step *)
(* saw.  EntityStoreInMemory implements this for any number of threads,       *)
(* EntityStorePersistent for one thread at a time.                            *)
(******************************************************************************)
EXTENDS Integers, Functions

CONSTANTS
    Threads,    \* callers of the store: the server's pool threads
    Entities,   \* entity names
    Ids,        \* ids that callers name in Read, Update and Delete
    Bodies      \* values of data

VARIABLES
    objects,    \* objects[e]: the objects of entity e, a map from id to body
    status,     \* status[t] is "idle", "called" or "replied"
    request,    \* request[t]: the arguments of t's call
    reply       \* reply[t]: what that call returns

vars == <<objects, status, request, reply>>

NoObjects == [id \in {} |-> id]

Put(objs, id, data) ==
    [i \in DOMAIN objs \cup {id} |-> IF i = id THEN data ELSE objs[i]]

Drop(objs, id) == Restrict(objs, DOMAIN objs \ {id})

Requests ==
    [op : {"create"}, entity_name : Entities, data : Bodies]
        \cup [op : {"read", "delete"}, entity_name : Entities, id : Ids]
        \cup [op : {"update"}, entity_name : Entities, id : Ids, data : Bodies]
        \cup [op : {"list"}, entity_name : Entities]

NoRequest == [op |-> "none"]
NoReply == [none |-> TRUE]

Init ==
    /\ objects = [e \in Entities |-> NoObjects]
    /\ status = [t \in Threads |-> "idle"]
    /\ request = [t \in Threads |-> NoRequest]
    /\ reply = [t \in Threads |-> NoReply]

Call(t, req) ==
    /\ status[t] = "idle"
    /\ status' = [status EXCEPT ![t] = "called"]
    /\ request' = [request EXCEPT ![t] = req]
    /\ UNCHANGED <<objects, reply>>

Asked(t, op) == status[t] = "called" /\ request[t].op = op
Here(t) == objects[request[t].entity_name]

\* The operation takes effect: the objects of its entity become objs and r is
\* what the caller will see.
Effect(t, objs, r) ==
    /\ status' = [status EXCEPT ![t] = "replied"]
    /\ objects' = [objects EXCEPT ![request[t].entity_name] = objs]
    /\ reply' = [reply EXCEPT ![t] = r]
    /\ UNCHANGED request

\* A nonnegative id that no object of the entity has, chosen by the store (and
\* so read off its reply), or a negative value and no change.
Create(t) ==
    /\ Asked(t, "create")
    /\ \/ LET id == reply'[t].id
          IN  /\ Effect(t, Put(Here(t), id, request[t].data), [id |-> id])
              /\ id \in Nat \ DOMAIN Here(t)
       \/ Effect(t, Here(t), [id |-> -1])

Read(t) ==
    /\ Asked(t, "read")
    /\ LET id == request[t].id
       IN  \/ /\ id \in DOMAIN Here(t)
              /\ Effect(t, Here(t), [ok |-> TRUE, out_data |-> Here(t)[id]])
           \/ /\ id \notin DOMAIN Here(t)
              /\ Effect(t, Here(t), [ok |-> FALSE])

Update(t) ==
    /\ Asked(t, "update")
    /\ \/ Effect(t, Put(Here(t), request[t].id, request[t].data), [ok |-> TRUE])
       \/ Effect(t, Here(t), [ok |-> FALSE])

Delete(t) ==
    /\ Asked(t, "delete")
    /\ \/ /\ request[t].id \in DOMAIN Here(t)
          /\ Effect(t, Drop(Here(t), request[t].id), [ok |-> TRUE])
       \/ Effect(t, Here(t), [ok |-> FALSE])

List(t) ==
    /\ Asked(t, "list")
    /\ Effect(t, Here(t), [ids |-> DOMAIN Here(t)])

Return(t) ==
    /\ status[t] = "replied"
    /\ status' = [status EXCEPT ![t] = "idle"]
    /\ request' = [request EXCEPT ![t] = NoRequest]
    /\ reply' = [reply EXCEPT ![t] = NoReply]
    /\ UNCHANGED objects

Step(t) ==
    \/ \E req \in Requests : Call(t, req)
    \/ Create(t) \/ Read(t) \/ Update(t) \/ Delete(t) \/ List(t)
    \/ Return(t)

Next == \E t \in Threads : Step(t)

Spec == Init /\ [][Next]_vars
================================================================================
