---------------------- MODULE EntityStoreInMemory_proofs ----------------------
(******************************************************************************)
(* What the runs show of EntityStoreInMemory for two threads holds for any    *)
(* number of threads, entities, ids and bodies.                               *)
(******************************************************************************)
EXTENDS EntityStoreInMemory, TLAPS

\* A thread past its call carries a request, and Create's own steps are only
\* taken by a Create.
RequestsInPlace ==
    \A t \in Threads :
        /\ pc[t] # "idle" => request[t] \in Abstract!Requests
        /\ pc[t] \in {"probing", "inserting"} => request[t].op = "create"

\* The id a Create is about to use is a proper one.
ReservedIdIsProper ==
    \A t \in Threads : pc[t] = "inserting" => new_id[t] \in Nat

\* The counter is ahead of every id it has given out.
CounterIsAhead == \A n \in DOMAIN issued : issued[n] < next_id_

IInv ==
    /\ TypeOK
    /\ LockHeldInside
    /\ RequestsInPlace
    /\ ReservedIdIsFree
    /\ ReservedIdIsProper
    /\ CounterIsAhead
    /\ IssuedOnce

--------------------------------------------------------------------------------
(* Lemmas about the table                                                     *)

\* The fields a request of each kind has.
LEMMA RequestFields ==
    ASSUME NEW req \in Abstract!Requests
    PROVE  /\ req.entity_name \in Entities
           /\ req.op \in {"create", "update"} => req.data \in Bodies
           /\ req.op \in {"read", "update", "delete"} => req.id \in Ids
  BY DEF Abstract!Requests

\* What the readers of the table see is a map for every entity.
LEMMA ObjectsAreMaps ==
    ASSUME TypeOK
    PROVE  /\ Objects = [e \in Entities |-> Objects[e]]
           /\ \A e \in Entities : IsObjectMap(Objects[e])
  BY DEF TypeOK, IsObjectTable, IsObjectMap, Objects

\* Storing the objects of one entity leaves those of the others alone, whether
\* or not the table had met the entity before.
LEMMA SetHereIsLocal ==
    ASSUME TypeOK, NEW t \in Threads, NEW objs,
           request[t] \in Abstract!Requests, SetHere(t, objs)
    PROVE  Objects' = [Objects EXCEPT ![request[t].entity_name] = objs]
  <1>1. request[t].entity_name \in Entities
    BY RequestFields
  <1>2. DOMAIN objects_by_id_by_entity_' =
            DOMAIN objects_by_id_by_entity_ \cup {request[t].entity_name}
    BY DEF SetHere
  <1>3. ASSUME NEW e \in Entities
        PROVE  Objects'[e] = IF e = request[t].entity_name THEN objs ELSE Objects[e]
    BY <1>1, <1>2 DEF SetHere, Objects
  <1> QED
    BY <1>1, <1>3 DEF Objects

\* and it keeps the table a table.
LEMMA SetHereKeepsType ==
    ASSUME TypeOK, NEW t \in Threads, NEW objs,
           request[t] \in Abstract!Requests, SetHere(t, objs), IsObjectMap(objs)
    PROVE  IsObjectTable(objects_by_id_by_entity_')
  <1>1. request[t].entity_name \in Entities
    BY RequestFields
  <1>2. \A e \in Entities : IsObjectMap(Objects[e])
    BY ObjectsAreMaps
  <1> QED
    BY <1>1, <1>2 DEF SetHere, TypeOK, IsObjectTable

LEMMA PutKeepsMap ==
    ASSUME NEW objs, IsObjectMap(objs), NEW id \in Int, NEW body \in Bodies
    PROVE  IsObjectMap(Abstract!Put(objs, id, body))
  BY DEF IsObjectMap, Abstract!Put

LEMMA DropKeepsMap ==
    ASSUME NEW objs, IsObjectMap(objs), NEW id
    PROVE  IsObjectMap(Abstract!Drop(objs, id))
  BY DEF IsObjectMap, Abstract!Drop, Abstract!Restrict

--------------------------------------------------------------------------------
(* The invariant holds                                                        *)

LEMMA InitEstablishes == Init => IInv
  <1> SUFFICES ASSUME Init PROVE IInv
    OBVIOUS
  <1>1. TypeOK
    BY DEF Init, TypeOK, IsObjectTable, IsReply
  <1>2. LockHeldInside
    BY NoThreadAssumption DEF Init, LockHeldInside, Inside
  <1> QED
    BY <1>1, <1>2 DEF Init, IInv, RequestsInPlace, ReservedIdIsFree,
       ReservedIdIsProper, CounterIsAhead, IssuedOnce

\* An operation that is answered in one step: it runs under the lock, replaces
\* the objects of its entity and leaves the counter alone.
LEMMA AnswerKeeps ==
    ASSUME IInv, NEW t \in Threads, NEW objs, NEW r,
           pc[t] \in {"locked", "inserting"}, IsObjectMap(objs), IsReply(r),
           SetHere(t, objs), Finish(t, r), UNCHANGED <<next_id_, new_id, issued>>
    PROVE  IInv'
  <1> USE DEF IInv
  <1>1. request[t] \in Abstract!Requests
    BY DEF RequestsInPlace
  <1>2. TypeOK'
    <2>1. IsObjectTable(objects_by_id_by_entity_')
      BY <1>1, SetHereKeepsType
    <2> QED
      BY <2>1 DEF TypeOK, Finish
  <1>3. LockHeldInside'
    BY DEF LockHeldInside, Finish, Inside, TypeOK
  <1>4. \A u \in Threads : u # t => pc[u] \notin Inside
    BY DEF LockHeldInside, Inside
  <1>5. ReservedIdIsFree' /\ ReservedIdIsProper'
    BY <1>4 DEF ReservedIdIsFree, ReservedIdIsProper, Finish, TypeOK, Inside
  <1>6. RequestsInPlace'
    BY DEF RequestsInPlace, Finish, TypeOK
  <1>7. CounterIsAhead' /\ IssuedOnce'
    BY DEF CounterIsAhead, IssuedOnce
  <1> QED
    BY <1>2, <1>3, <1>5, <1>6, <1>7

\* Every step of every thread keeps the invariant.
LEMMA StepKeeps == IInv /\ [Next]_vars => IInv'
  <1> SUFFICES ASSUME IInv, [Next]_vars PROVE IInv'
    OBVIOUS
  <1> USE DEF IInv
  <1>1. CASE UNCHANGED vars
    BY <1>1 DEF vars, TypeOK, LockHeldInside, RequestsInPlace, ReservedIdIsFree,
       ReservedIdIsProper, CounterIsAhead, IssuedOnce, Here, Objects, IsObjectTable
  <1>2. ASSUME NEW t \in Threads, NEW req \in Abstract!Requests, Call(t, req)
        PROVE  IInv'
    <2>1. TypeOK'
      BY <1>2 DEF Call, TypeOK
    <2>2. LockHeldInside'
      BY <1>2 DEF Call, TypeOK, LockHeldInside, Inside
    <2>3. RequestsInPlace'
      BY <1>2 DEF Call, TypeOK, RequestsInPlace
    <2>4. ReservedIdIsFree' /\ ReservedIdIsProper'
      BY <1>2 DEF Call, TypeOK, ReservedIdIsFree, ReservedIdIsProper, Here, Objects
    <2> QED
      BY <1>2, <2>1, <2>2, <2>3, <2>4 DEF Call, CounterIsAhead, IssuedOnce
  <1>3. ASSUME NEW t \in Threads, Lock(t) \/ Unlock(t)
        PROVE  IInv'
    <2>1. TypeOK'
      BY <1>3 DEF Lock, Unlock, TypeOK
    <2>2. LockHeldInside'
      BY <1>3, NoThreadAssumption DEF Lock, Unlock, TypeOK, LockHeldInside, Inside
    <2>3. RequestsInPlace'
      BY <1>3 DEF Lock, Unlock, TypeOK, RequestsInPlace
    <2>4. ReservedIdIsFree' /\ ReservedIdIsProper'
      BY <1>3 DEF Lock, Unlock, TypeOK, ReservedIdIsFree, ReservedIdIsProper, Here, Objects
    <2> QED
      BY <1>3, <2>1, <2>2, <2>3, <2>4 DEF Lock, Unlock, CounterIsAhead, IssuedOnce
  <1>4. ASSUME NEW t \in Threads, CreateBegin(t)
        PROVE  IInv'
    <2>1. request[t] \in Abstract!Requests /\ request[t].entity_name \in Entities
      BY <1>4, RequestFields DEF RequestsInPlace, CreateBegin, At
    <2>2. Objects' = Objects
      BY <1>4, <2>1, SetHereIsLocal, ObjectsAreMaps DEF CreateBegin, Here
    <2>3. TypeOK'
      BY <1>4, <2>1, SetHereKeepsType, ObjectsAreMaps DEF CreateBegin, TypeOK, Here
    <2>4. LockHeldInside'
      BY <1>4 DEF CreateBegin, At, TypeOK, LockHeldInside, Inside
    <2>5. RequestsInPlace'
      BY <1>4 DEF CreateBegin, At, TypeOK, RequestsInPlace
    <2>6. ReservedIdIsFree' /\ ReservedIdIsProper'
      BY <1>4, <2>2 DEF CreateBegin, TypeOK, ReservedIdIsFree, ReservedIdIsProper, Here
    <2> QED
      BY <1>4, <2>3, <2>4, <2>5, <2>6 DEF CreateBegin, CounterIsAhead, IssuedOnce
  <1>5. ASSUME NEW t \in Threads, CreateSkip(t)
        PROVE  IInv'
    <2>1. TypeOK' /\ CounterIsAhead'
      BY <1>5 DEF CreateSkip, TypeOK, CounterIsAhead
    <2> QED
      BY <1>5, <2>1 DEF CreateSkip, LockHeldInside, RequestsInPlace, ReservedIdIsFree,
         ReservedIdIsProper, Here, Objects, IssuedOnce
  <1>6. ASSUME NEW t \in Threads, CreateTake(t)
        PROVE  IInv'
    <2>1. TypeOK'
      BY <1>6 DEF CreateTake, TypeOK
    <2>2. LockHeldInside'
      BY <1>6 DEF CreateTake, At, TypeOK, LockHeldInside, Inside
    <2>3. RequestsInPlace'
      BY <1>6 DEF CreateTake, At, TypeOK, RequestsInPlace
    <2>4. ReservedIdIsFree' /\ ReservedIdIsProper'
      BY <1>6 DEF CreateTake, TypeOK, ReservedIdIsFree, ReservedIdIsProper, Here, Objects
    <2>5. CounterIsAhead' /\ IssuedOnce'
      <3>1. DOMAIN issued' = 1..(Len(issued) + 1) /\ DOMAIN issued = 1..Len(issued)
        BY <1>6 DEF CreateTake, TypeOK
      <3>2. \A n \in DOMAIN issued' :
                issued'[n] = IF n = Len(issued) + 1 THEN next_id_ ELSE issued[n]
        BY <1>6, <3>1 DEF CreateTake, TypeOK
      <3>3. \A n \in DOMAIN issued : issued[n] \in Nat /\ issued[n] < next_id_
        BY DEF TypeOK, CounterIsAhead
      <3>4. next_id_ \in Nat /\ next_id_' = next_id_ + 1 /\ Len(issued) \in Nat
        BY <1>6 DEF CreateTake, TypeOK
      <3> QED
        BY <3>1, <3>2, <3>3, <3>4 DEF CounterIsAhead, IssuedOnce
    <2> QED
      BY <2>1, <2>2, <2>3, <2>4, <2>5
  <1>7. ASSUME NEW t \in Threads, CreateInsert(t)
        PROVE  IInv'
    <2>1. /\ request[t] \in Abstract!Requests
          /\ request[t].entity_name \in Entities /\ request[t].data \in Bodies
      BY <1>7, RequestFields DEF RequestsInPlace, CreateInsert, At
    <2>2. new_id[t] \in Int
      BY DEF TypeOK
    <2>3. IsObjectMap(Abstract!Put(Here(t), new_id[t], request[t].data))
      BY <2>1, <2>2, ObjectsAreMaps, PutKeepsMap DEF Here
    <2>4. IsReply([id |-> new_id[t]])
      BY <2>2 DEF IsReply
    <2> QED
      BY <1>7, <2>3, <2>4, AnswerKeeps DEF CreateInsert, At
  <1>8. ASSUME NEW t \in Threads, Read(t) \/ Update(t) \/ Delete(t) \/ List(t)
        PROVE  IInv'
    <2>1. /\ request[t] \in Abstract!Requests
          /\ request[t].entity_name \in Entities /\ IsObjectMap(Here(t))
      BY <1>8, RequestFields, ObjectsAreMaps
      DEF RequestsInPlace, Read, Update, Delete, List, At, Here
    <2>2. CASE Read(t)
      <3>1. PICK r : IsReply(r) /\ Finish(t, r)
        <4>1. CASE /\ request[t].id \in DOMAIN Here(t)
                   /\ Finish(t, [ok |-> TRUE, out_data |-> Here(t)[request[t].id]])
          <5>1. IsReply([ok |-> TRUE, out_data |-> Here(t)[request[t].id]])
            BY <2>1, <4>1 DEF IsReply, IsObjectMap
          <5> QED
            BY <4>1, <5>1
        <4>2. CASE Finish(t, [ok |-> FALSE])
          <5>1. IsReply([ok |-> FALSE])
            BY DEF IsReply
          <5> QED
            BY <4>2, <5>1
        <4> QED
          BY <2>2, <4>1, <4>2 DEF Read
      <3> QED
        BY <2>1, <2>2, <3>1, AnswerKeeps DEF Read, At
    <2>3. CASE Update(t)
      <3>1. request[t].id \in Int /\ request[t].data \in Bodies
        BY <2>1, <2>3, RequestFields, IdsAssumption DEF Update, At
      <3>2. IsObjectMap(Abstract!Put(Here(t), request[t].id, request[t].data))
        BY <2>1, <3>1, PutKeepsMap
      <3>3. IsReply([ok |-> TRUE])
        BY DEF IsReply
      <3> QED
        BY <2>3, <3>2, <3>3, AnswerKeeps DEF Update, At
    <2>4. CASE Delete(t)
      <3>1. IsObjectMap(Abstract!Drop(Here(t), request[t].id))
        BY <2>1, DropKeepsMap
      <3>2. IsReply([ok |-> request[t].id \in DOMAIN Here(t)])
        BY DEF IsReply
      <3> QED
        BY <2>4, <3>1, <3>2, AnswerKeeps DEF Delete, At
    <2>5. CASE List(t)
      <3>1. IsReply([ids |-> DOMAIN Here(t)])
        BY <2>1 DEF IsReply, IsObjectMap
      <3> QED
        BY <2>1, <2>5, <3>1, AnswerKeeps DEF List, At
    <2> QED
      BY <1>8, <2>2, <2>3, <2>4, <2>5
  <1>9. ASSUME NEW t \in Threads, Return(t)
        PROVE  IInv'
    <2>1. TypeOK'
      <3>1. request' \in [Threads -> Abstract!Requests \cup {Abstract!NoRequest}]
        BY <1>9 DEF Return, TypeOK
      <3>2. DOMAIN reply' = Threads /\ \A u \in Threads : IsReply(reply'[u])
        <4>1. IsReply(Abstract!NoReply)
          BY DEF IsReply
        <4> QED
          BY <1>9, <4>1 DEF Return, TypeOK
      <3> QED
        BY <1>9, <3>1, <3>2 DEF Return, TypeOK
    <2>2. LockHeldInside'
      BY <1>9 DEF Return, TypeOK, LockHeldInside, Inside
    <2>3. RequestsInPlace'
      BY <1>9 DEF Return, TypeOK, RequestsInPlace
    <2>4. ReservedIdIsFree' /\ ReservedIdIsProper'
      BY <1>9 DEF Return, TypeOK, ReservedIdIsFree, ReservedIdIsProper, Here, Objects
    <2> QED
      BY <1>9, <2>1, <2>2, <2>3, <2>4 DEF Return, CounterIsAhead, IssuedOnce
  <1> QED
    BY <1>1, <1>2, <1>3, <1>4, <1>5, <1>6, <1>7, <1>8, <1>9 DEF Next, Work

--------------------------------------------------------------------------------
(* Theorems                                                                   *)

\* The inductive invariant holds in every reachable state.
THEOREM Invariance == Spec => []IInv
  <1>1. Init => IInv
    BY InitEstablishes
  <1>2. IInv /\ [Next]_vars => IInv'
    BY StepKeeps
  <1> QED
    BY <1>1, <1>2, PTL DEF Spec

\* Table, counter, lock and threads keep their types, for any number of threads.
THEOREM TypeCorrect == Spec => []TypeOK
  <1>1. IInv => TypeOK
    BY DEF IInv
  <1> QED
    BY <1>1, Invariance, PTL

\* Two threads are never inside an operation at once.
THEOREM MutualExclusion == Spec => []LockHeldInside
  <1>1. IInv => LockHeldInside
    BY DEF IInv
  <1> QED
    BY <1>1, Invariance, PTL

\* Create never overwrites an object: the id it has chosen stays free until the
\* object is stored.
THEOREM CreateOverwritesNothing == Spec => []ReservedIdIsFree
  <1>1. IInv => ReservedIdIsFree
    BY DEF IInv
  <1> QED
    BY <1>1, Invariance, PTL

\* Create takes no id twice, however long the store lives and whatever Update
\* and Delete do in between.
THEOREM IdsIssuedOnce == Spec => []IssuedOnce
  <1>1. IInv => IssuedOnce
    BY DEF IInv
  <1> QED
    BY <1>1, Invariance, PTL

--------------------------------------------------------------------------------
(* The in-memory store implements the contract                                *)

LEMMA InitImplements == Init => Abstract!Init
  BY DEF Init, Abstract!Init, Objects, Status, Abstract!NoObjects

\* The answer of an operation is the effect of the contract's operation.
LEMMA AnswerIsEffect ==
    ASSUME IInv, NEW t \in Threads, NEW objs, NEW r,
           pc[t] \in {"locked", "inserting"},
           SetHere(t, objs), Finish(t, r)
    PROVE  /\ Abstract!Effect(t, objs, r)
           /\ Status[t] = "called"
           /\ Here(t) = Abstract!Here(t)
  <1>1. request[t] \in Abstract!Requests
    BY DEF IInv, RequestsInPlace
  <1>2. Objects' = [Objects EXCEPT ![request[t].entity_name] = objs]
    BY <1>1, SetHereIsLocal DEF IInv
  <1>3. Status' = [Status EXCEPT ![t] = "replied"]
    BY DEF Finish, Status, IInv, TypeOK
  <1> QED
    BY <1>2, <1>3 DEF Abstract!Effect, Abstract!Here, Here, Finish, Status

\* Every step is a step of the contract or invisible to its callers.
LEMMA StepImplements == IInv /\ [Next]_vars => [Abstract!Next]_(Abstract!vars)
  <1> SUFFICES ASSUME IInv, [Next]_vars
               PROVE  Abstract!Next \/ UNCHANGED Abstract!vars
    OBVIOUS
  <1>1. CASE UNCHANGED vars
    BY <1>1 DEF vars, Abstract!vars, Objects, Status
  <1>2. ASSUME NEW t \in Threads, NEW req \in Abstract!Requests, Call(t, req)
        PROVE  Abstract!Next
    <2>1. Abstract!Call(t, req)
      BY <1>2 DEF Call, Abstract!Call, Status, Objects, IInv, TypeOK
    <2> QED
      BY <2>1 DEF Abstract!Next, Abstract!Step
  <1>3. ASSUME NEW t \in Threads, Lock(t) \/ Unlock(t) \/ CreateSkip(t) \/ CreateTake(t)
        PROVE  UNCHANGED Abstract!vars
    <2>1. Status' = Status
      BY <1>3 DEF Lock, Unlock, CreateSkip, CreateTake, At, Status, IInv, TypeOK
    <2> QED
      BY <1>3, <2>1 DEF Lock, Unlock, CreateSkip, CreateTake, Objects, Abstract!vars
  <1>4. ASSUME NEW t \in Threads, CreateBegin(t)
        PROVE  UNCHANGED Abstract!vars
    <2>1. request[t] \in Abstract!Requests /\ request[t].entity_name \in Entities
      BY <1>4, RequestFields DEF IInv, RequestsInPlace, CreateBegin, At
    <2>2. Objects' = Objects
      BY <1>4, <2>1, SetHereIsLocal, ObjectsAreMaps DEF CreateBegin, Here, IInv
    <2>3. Status' = Status
      BY <1>4 DEF CreateBegin, At, Status, IInv, TypeOK
    <2> QED
      BY <1>4, <2>2, <2>3 DEF CreateBegin, Abstract!vars
  <1>5. ASSUME NEW t \in Threads, CreateInsert(t)
        PROVE  Abstract!Next
    <2>1. new_id[t] \in Nat \ DOMAIN Here(t)
      BY <1>5 DEF CreateInsert, At, IInv, ReservedIdIsFree, ReservedIdIsProper
    <2>2. /\ Abstract!Effect(t, Abstract!Put(Here(t), new_id[t], request[t].data),
                             [id |-> new_id[t]])
          /\ Status[t] = "called" /\ Here(t) = Abstract!Here(t)
      BY <1>5, AnswerIsEffect DEF CreateInsert, At
    <2>3. reply'[t].id = new_id[t]
      BY <1>5 DEF CreateInsert, Finish, IInv, TypeOK
    <2>4. Abstract!Create(t)
      BY <1>5, <2>1, <2>2, <2>3 DEF Abstract!Create, Abstract!Asked, CreateInsert, At
    <2> QED
      BY <2>4 DEF Abstract!Next, Abstract!Step
  <1>6. ASSUME NEW t \in Threads, Read(t)
        PROVE  Abstract!Next
    <2> DEFINE id == request[t].id
    <2>0. pc[t] \in {"locked", "inserting"} /\ SetHere(t, Here(t))
      BY <1>6 DEF Read, At
    <2>1. Abstract!Read(t)
      <3>1. CASE /\ id \in DOMAIN Here(t)
                 /\ Finish(t, [ok |-> TRUE, out_data |-> Here(t)[id]])
        <4>1. /\ Abstract!Effect(t, Here(t), [ok |-> TRUE, out_data |-> Here(t)[id]])
              /\ Status[t] = "called" /\ Here(t) = Abstract!Here(t)
          BY <2>0, <3>1, AnswerIsEffect
        <4> QED
          BY <1>6, <3>1, <4>1 DEF Read, At, Abstract!Read, Abstract!Asked
      <3>2. CASE id \notin DOMAIN Here(t) /\ Finish(t, [ok |-> FALSE])
        <4>1. /\ Abstract!Effect(t, Here(t), [ok |-> FALSE])
              /\ Status[t] = "called" /\ Here(t) = Abstract!Here(t)
          BY <2>0, <3>2, AnswerIsEffect
        <4> QED
          BY <1>6, <3>2, <4>1 DEF Read, At, Abstract!Read, Abstract!Asked
      <3> QED
        BY <1>6, <3>1, <3>2 DEF Read
    <2> QED
      BY <2>1 DEF Abstract!Next, Abstract!Step
  <1>7. ASSUME NEW t \in Threads, Update(t)
        PROVE  Abstract!Next
    <2>1. Abstract!Update(t)
      BY <1>7, AnswerIsEffect DEF Update, At, Abstract!Update, Abstract!Asked
    <2> QED
      BY <2>1 DEF Abstract!Next, Abstract!Step
  <1>8. ASSUME NEW t \in Threads, Delete(t)
        PROVE  Abstract!Next
    <2> DEFINE id == request[t].id
    <2>1. IsObjectMap(Here(t))
      <3>1. request[t].entity_name \in Entities
        BY <1>8, RequestFields DEF IInv, RequestsInPlace, Delete, At
      <3> QED
        BY <3>1, ObjectsAreMaps DEF Here, IInv
    <2>2. id \notin DOMAIN Here(t) => Abstract!Drop(Here(t), id) = Here(t)
      BY <2>1 DEF IsObjectMap, Abstract!Drop, Abstract!Restrict
    <2>3. /\ Abstract!Effect(t, Abstract!Drop(Here(t), id),
                             [ok |-> id \in DOMAIN Here(t)])
          /\ Status[t] = "called" /\ Here(t) = Abstract!Here(t)
      BY <1>8, AnswerIsEffect DEF Delete, At
    <2>4. Abstract!Delete(t)
      <3>1. Abstract!Asked(t, "delete")
        BY <1>8, <2>3 DEF Delete, At, Abstract!Asked
      <3>2. CASE id \in DOMAIN Here(t)
        <4>1. [ok |-> id \in DOMAIN Here(t)] = [ok |-> TRUE]
          BY <3>2
        <4> QED
          BY <2>3, <3>1, <3>2, <4>1 DEF Abstract!Delete
      <3>3. CASE id \notin DOMAIN Here(t)
        <4> DEFINE found == id \in DOMAIN Here(t)
        <4>0. found = FALSE
          BY <3>3
        <4>1. [ok |-> found] = [ok |-> FALSE]
          <5> HIDE DEF found
          <5> QED
            BY <4>0
        <4> QED
          BY <2>2, <2>3, <3>1, <3>3, <4>1 DEF Abstract!Delete
      <3> QED
        BY <3>2, <3>3
    <2> QED
      BY <2>4 DEF Abstract!Next, Abstract!Step
  <1>9. ASSUME NEW t \in Threads, List(t)
        PROVE  Abstract!Next
    <2>1. Abstract!List(t)
      BY <1>9, AnswerIsEffect DEF List, At, Abstract!List, Abstract!Asked
    <2> QED
      BY <2>1 DEF Abstract!Next, Abstract!Step
  <1>10. ASSUME NEW t \in Threads, Return(t)
         PROVE  Abstract!Next
    <2>1. Abstract!Return(t)
      BY <1>10 DEF Return, Abstract!Return, Status, Objects, IInv, TypeOK
    <2> QED
      BY <2>1 DEF Abstract!Next, Abstract!Step
  <1> QED
    BY <1>1, <1>2, <1>3, <1>4, <1>5, <1>6, <1>7, <1>8, <1>9, <1>10 DEF Next, Work

\* Any number of threads can share the in-memory store as if each of its
\* operations were one atomic step of entity_store.h's contract.
THEOREM Implementation == Spec => ImplementsEntityStore
  <1>1. Init => Abstract!Init
    BY InitImplements
  <1>2. IInv /\ [Next]_vars => [Abstract!Next]_(Abstract!vars)
    BY StepImplements
  <1> QED
    BY <1>1, <1>2, Invariance, PTL DEF Spec, ImplementsEntityStore, Abstract!Spec
================================================================================
