------------------------------- MODULE Resources -------------------------------
(******************************************************************************)
(* What the clients of an ApiHandler are promised, whatever its threads do:   *)
(* a request is answered once, by what one moment between its arrival and its *)
(* answer shows, and it changes an object at that moment or never: a 200 says *)
(* it did, any other status that nothing was changed.                         *)
(******************************************************************************)
EXTENDS Integers, Sequences, Functions

CONSTANTS
    Clients,    \* requests in progress: one for each thread of the pool
    Entities, Ids, Bodies

VARIABLES
    objects,    \* objects[e]: the objects of entity e, a map from id to body
    asked,      \* asked[c]: what the request of c asks for, until it is answered
    answer      \* answer[c]: the response of that request, until it is sent

vars == <<objects, asked, answer>>

Nothing == [op |-> "nothing"]

Questions ==
    [op : {"create"}, entity_name : Entities, data : Bodies]
        \cup [op : {"read", "delete"}, entity_name : Entities, id : Ids]
        \cup [op : {"update"}, entity_name : Entities, id : Ids, data : Bodies]
        \cup [op : {"list"}, entity_name : Entities]

NoAnswer == [status |-> 0]
Ok(body) == [status |-> 200, body |-> body]
Failed(status) == [status |-> status]

Init ==
    /\ objects = [e \in Entities |-> [id \in {} |-> id]]
    /\ asked = [c \in Clients |-> Nothing]
    /\ answer = [c \in Clients |-> NoAnswer]

Ask(c, question) ==
    /\ asked[c] = Nothing
    /\ answer[c] = NoAnswer
    /\ asked' = [asked EXCEPT ![c] = question]
    /\ UNCHANGED <<objects, answer>>

\* A request that asks for nothing the handler knows.
Refuse(c, status) ==
    /\ asked[c] = Nothing
    /\ answer[c] = NoAnswer
    /\ answer' = [answer EXCEPT ![c] = Failed(status)]
    /\ UNCHANGED <<objects, asked>>

Asks(c, op) == asked[c].op = op
Here(c) == objects[asked[c].entity_name]

Answer(c, response) ==
    /\ answer' = [answer EXCEPT ![c] = response]
    /\ asked' = [asked EXCEPT ![c] = Nothing]

Becomes(c, objs) == objects' = [objects EXCEPT ![asked[c].entity_name] = objs]

With(objs, id, data) ==
    [i \in DOMAIN objs \cup {id} |-> IF i = id THEN data ELSE objs[i]]

\* The body of a 200 names the id of an object that was not there before.
Post(c) ==
    /\ Asks(c, "create")
    /\ \/ LET id == answer'[c].body.id
          IN  /\ answer'[c].status = 200
              /\ Answer(c, Ok([id |-> id]))
              /\ id \in Nat \ DOMAIN Here(c)
              /\ Becomes(c, With(Here(c), id, asked[c].data))
       \/ Answer(c, Failed(500)) /\ UNCHANGED objects

Get(c) ==
    /\ Asks(c, "read")
    /\ \/ /\ asked[c].id \in DOMAIN Here(c)
          /\ Answer(c, Ok(Here(c)[asked[c].id]))
       \/ asked[c].id \notin DOMAIN Here(c) /\ Answer(c, Failed(404))
    /\ UNCHANGED objects

\* All ids, each once, in ascending order.
GetAll(c) ==
    /\ Asks(c, "list")
    /\ answer'[c].status = 200
    /\ LET ids == answer'[c].body
       IN  /\ Answer(c, Ok(ids))
           /\ Range(ids) = DOMAIN Here(c)
           /\ \A m, n \in DOMAIN ids : m < n => ids[m] < ids[n]
    /\ UNCHANGED objects

Put(c) ==
    /\ Asks(c, "update")
    /\ \/ /\ Answer(c, Ok([id |-> asked[c].id]))
          /\ Becomes(c, With(Here(c), asked[c].id, asked[c].data))
       \/ Answer(c, Failed(500)) /\ UNCHANGED objects

\* A 404 does not say that there was no such object: the store may have failed.
Delete(c) ==
    /\ Asks(c, "delete")
    /\ \/ /\ asked[c].id \in DOMAIN Here(c)
          /\ Answer(c, Ok([deleted |-> TRUE]))
          /\ Becomes(c, Restrict(Here(c), DOMAIN Here(c) \ {asked[c].id}))
       \/ Answer(c, Failed(404)) /\ UNCHANGED objects

Take(c) ==
    /\ answer[c] # NoAnswer
    /\ answer' = [answer EXCEPT ![c] = NoAnswer]
    /\ UNCHANGED <<objects, asked>>

Next ==
    \E c \in Clients :
        \/ \E question \in Questions : Ask(c, question)
        \/ \E status \in {400, 405} : Refuse(c, status)
        \/ Post(c) \/ Get(c) \/ GetAll(c) \/ Put(c) \/ Delete(c)
        \/ Take(c)

Spec == Init /\ [][Next]_vars
================================================================================
