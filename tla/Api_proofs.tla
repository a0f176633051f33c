------------------------------- MODULE Api_proofs -------------------------------
(******************************************************************************)
(* ApiRequestHandler keeps the promise of Resources for any number of threads *)
(* that share a store, any entities, numbers, bodies and requests; and what a *)
(* request changes is what its url names.                                     *)
(******************************************************************************)
EXTENDS Api, FiniteSetTheorems, SequenceTheorems, WellFoundedInduction, TLAPS

--------------------------------------------------------------------------------
(* A finite set of ids can be listed in ascending order                       *)

LEMMA LeastNumber ==
    ASSUME NEW S \in SUBSET Nat, S # {}
    PROVE  \E m \in S : \A n \in S : m <= n
  <1> DEFINE Below == OpToRel(<, Nat)
  <1>1. IsWellFoundedOn(Below, Nat)
    BY NatLessThanWellFounded
  <1>2. \A m, n \in Nat : <<n, m>> \in Below <=> n < m
    BY DEF OpToRel
  <1> HIDE DEF Below
  <1>3. \E m \in S : \A n \in S : <<n, m>> \notin Below
    BY <1>1, WFMin
  <1>4. \E m \in S : \A n \in S : ~(n < m)
    BY <1>2, <1>3, Zenon
  <1> QED
    BY <1>4

\* Sets of ids of the given size, and those of them that have a greatest id.
OfSize(n) == {S \in SUBSET Int : IsFiniteSet(S) /\ Cardinality(S) = n}
HasGreatest(S) == \E x \in S : \A y \in S : y <= x

\* A smallest set without a greatest id would have one less after one is taken
\* away.
LEMMA GreatestId ==
    ASSUME NEW S \in SUBSET Int, IsFiniteSet(S), S # {}
    PROVE  HasGreatest(S)
  <1> DEFINE Wrong == {n \in Nat : \E T \in OfSize(n) : T # {} /\ ~HasGreatest(T)}
  <1>1. SUFFICES ASSUME ~HasGreatest(S) PROVE FALSE
    OBVIOUS
  <1>2. Wrong # {}
    <2>1. Cardinality(S) \in Nat /\ S \in OfSize(Cardinality(S))
      BY FS_CardinalityType DEF OfSize
    <2> QED
      BY <1>1, <2>1
  <1>3. PICK n \in Wrong : \A k \in Wrong : n <= k
    <2>1. Wrong \in SUBSET Nat
      OBVIOUS
    <2> HIDE DEF Wrong
    <2> QED
      BY <1>2, <2>1, LeastNumber
  <1>4. PICK T \in OfSize(n) : T # {} /\ ~HasGreatest(T)
    BY <1>3
  <1>5. PICK x \in T : TRUE
    BY <1>4
  <1>6. /\ T \in SUBSET Int /\ IsFiniteSet(T) /\ Cardinality(T) = n /\ n \in Nat
        /\ IsFiniteSet(T \ {x}) /\ Cardinality(T \ {x}) = n - 1
    <2>1. T \in SUBSET Int /\ IsFiniteSet(T) /\ Cardinality(T) = n /\ n \in Nat
      BY <1>3, <1>4 DEF OfSize
    <2>2. IsFiniteSet(T \ {x}) /\ Cardinality(T \ {x}) = Cardinality(T) - 1
      BY <1>5, <2>1, FS_RemoveElement
    <2> QED
      BY <2>1, <2>2
  <1>7. CASE T \ {x} = {}
    BY <1>4, <1>5, <1>6, <1>7 DEF HasGreatest
  <1>8. CASE T \ {x} # {}
    <2>1. n - 1 \in Nat
      BY <1>6, FS_CardinalityType
    <2>2. n - 1 \notin Wrong
      BY <1>3, <2>1
    <2>3. T \ {x} \in OfSize(n - 1)
      BY <1>6 DEF OfSize
    <2>4. HasGreatest(T \ {x})
      BY <1>8, <2>1, <2>2, <2>3
    <2>5. PICK z \in T \ {x} : \A y \in T \ {x} : y <= z
      BY <2>4 DEF HasGreatest
    <2>6. \A y \in T : y <= IF x < z THEN z ELSE x
      BY <1>5, <1>6, <2>5
    <2> QED
      BY <1>4, <1>5, <2>5, <2>6 DEF HasGreatest
  <1> QED
    BY <1>7, <1>8

Lists(seq, S) ==
    /\ ToSet(seq) = S
    /\ \A m, n \in DOMAIN seq : m < n => seq[m] < seq[n]

HasList(S) == \E seq \in [1 .. Cardinality(S) -> S] : Lists(seq, S)

\* Taking the greatest id away leaves a set that has a list, to which it is
\* appended.
LEMMA ListOfIds ==
    ASSUME NEW S \in SUBSET Int, IsFiniteSet(S)
    PROVE  HasList(S)
  <1> DEFINE Wrong == {n \in Nat : \E T \in OfSize(n) : ~HasList(T)}
  <1>1. SUFFICES ASSUME ~HasList(S) PROVE FALSE
    OBVIOUS
  <1>2. Wrong # {}
    <2>1. Cardinality(S) \in Nat /\ S \in OfSize(Cardinality(S))
      BY FS_CardinalityType DEF OfSize
    <2> QED
      BY <1>1, <2>1
  <1>3. PICK n \in Wrong : \A k \in Wrong : n <= k
    <2>1. Wrong \in SUBSET Nat
      OBVIOUS
    <2> HIDE DEF Wrong
    <2> QED
      BY <1>2, <2>1, LeastNumber
  <1>4. PICK T \in OfSize(n) : ~HasList(T)
    BY <1>3
  <1>5. T \in SUBSET Int /\ IsFiniteSet(T) /\ Cardinality(T) = n /\ n \in Nat
    BY <1>3, <1>4 DEF OfSize
  <1>6. CASE T = {}
    <2>1. Cardinality(T) = 0
      BY <1>6, FS_EmptySet
    <2>2. PICK seq \in [1 .. Cardinality(T) -> T] : DOMAIN seq = {}
      <3>1. 1 .. 0 = {}
        OBVIOUS
      <3>2. [i \in {} |-> i] \in [{} -> T] /\ DOMAIN [i \in {} |-> i] = {}
        OBVIOUS
      <3> QED
        BY <2>1, <3>1, <3>2
    <2>3. Lists(seq, T)
      BY <1>6, <2>2 DEF Lists, ToSet
    <2> QED
      BY <1>4, <2>2, <2>3 DEF HasList
  <1>7. CASE T # {}
    <2>1. PICK x \in T : \A y \in T : y <= x
      BY <1>5, <1>7, GreatestId DEF HasGreatest
    <2>2. PICK R \in SUBSET Int : R = T \ {x}
      BY <1>5
    <2>3. IsFiniteSet(R) /\ Cardinality(R) = n - 1 /\ n - 1 \in Nat
      <3>1. IsFiniteSet(R) /\ Cardinality(R) = Cardinality(T) - 1
        BY <1>5, <2>1, <2>2, FS_RemoveElement
      <3> QED
        BY <1>5, <3>1, FS_CardinalityType
    <2>4. R \in OfSize(n - 1) /\ n - 1 \notin Wrong
      BY <1>3, <1>5, <2>2, <2>3 DEF OfSize
    <2>5. HasList(R)
      BY <2>3, <2>4
    <2>6. PICK front \in [1 .. n - 1 -> R] : Lists(front, R)
      BY <2>3, <2>5 DEF HasList
    <2>7. PICK seq \in [1 .. n -> T] :
              seq = [i \in 1 .. n |-> IF i = n THEN x ELSE front[i]]
      <3>1. \A i \in 1 .. n : i # n => i \in 1 .. n - 1
        BY <1>5
      <3>2. [i \in 1 .. n |-> IF i = n THEN x ELSE front[i]] \in [1 .. n -> T]
        BY <2>1, <2>2, <2>6, <3>1
      <3> QED
        BY <3>2
    <2>8. /\ n \in 1 .. n /\ seq[n] = x
          /\ \A i \in 1 .. n - 1 : i \in 1 .. n /\ seq[i] = front[i] /\ front[i] \in R
          /\ \A i \in 1 .. n : i # n => i \in 1 .. n - 1
      BY <1>5, <2>3, <2>6, <2>7
    <2>9. ToSet(seq) = T
      <3>1. ToSet(front) = R /\ DOMAIN front = 1 .. n - 1 /\ DOMAIN seq = 1 .. n
        BY <2>6, <2>7 DEF Lists
      <3>2. ASSUME NEW y \in T PROVE \E i \in DOMAIN seq : seq[i] = y
        <4>1. CASE y = x
          BY <2>8, <3>1, <4>1
        <4>2. CASE y # x
          <5>1. PICK i \in 1 .. n - 1 : front[i] = y
            BY <2>2, <3>1, <4>2 DEF ToSet
          <5> QED
            BY <2>8, <3>1, <5>1
        <4> QED
          BY <4>1, <4>2
      <3>3. \A i \in DOMAIN seq : seq[i] \in T
        BY <2>7
      <3> QED
        BY <3>2, <3>3 DEF ToSet
    <2>10. ASSUME NEW i \in DOMAIN seq, NEW j \in DOMAIN seq, i < j
           PROVE  seq[i] < seq[j]
      <3>1. i \in 1 .. n /\ j \in 1 .. n /\ i # n
        BY <1>5, <2>7, <2>10
      <3>2. CASE j = n
        <4>1. seq[i] \in R /\ seq[j] = x
          BY <2>8, <3>1, <3>2
        <4>2. seq[i] \in T /\ seq[i] # x /\ seq[i] \in Int /\ x \in Int
          BY <1>5, <2>1, <2>2, <4>1
        <4> QED
          BY <2>1, <4>1, <4>2
      <3>3. CASE j # n
        <4>1. i \in 1 .. n - 1 /\ j \in 1 .. n - 1
          BY <2>8, <3>1, <3>3
        <4>2. front[i] < front[j]
          BY <2>6, <2>10, <4>1 DEF Lists
        <4> QED
          BY <2>8, <4>1, <4>2
      <3> QED
        BY <3>2, <3>3
    <2>11. seq \in [1 .. Cardinality(T) -> T] /\ Lists(seq, T)
      BY <1>5, <2>9, <2>10 DEF Lists
    <2> QED
      BY <1>4, <2>11 DEF HasList
  <1> QED
    BY <1>6, <1>7

\* What the handler lists: every id once, in ascending order.
LEMMA AscendingLists ==
    ASSUME NEW S \in SUBSET Int, IsFiniteSet(S)
    PROVE  Lists(Ascending(S), S)
  <1>1. \E seq \in [1 .. Cardinality(S) -> S] :
            /\ ToSet(seq) = S
            /\ \A m, n \in DOMAIN seq : m < n => seq[m] < seq[n]
    BY ListOfIds DEF HasList, Lists
  <1> QED
    BY <1>1, Zenon DEF Ascending, Lists

--------------------------------------------------------------------------------
(* The invariant                                                              *)

IntIds == -MaxInt - 1 .. MaxInt

ObjectsInPlace ==
    /\ objects = [e \in Entities |-> objects[e]]
    /\ \A e \in Entities :
           /\ DOMAIN objects[e] \subseteq IntIds
           /\ \A id \in DOMAIN objects[e] : objects[e][id] \in Bodies

Typed ==
    /\ status \in [Threads -> {"idle", "called", "replied"}]
    /\ request \in [Threads -> Store!Requests \cup {Store!NoRequest}]
    /\ DOMAIN reply = Threads /\ DOMAIN response = Threads
    /\ http \in [Threads -> HttpRequests \cup {NoHttp}]

\* A thread in the store has a proper request and no response, and one that
\* handles nothing has neither.
ThreadFits(t) ==
    /\ status[t] # "idle" => /\ request[t] \in Store!Requests
                             /\ http[t] # NoHttp
    /\ status[t] # "idle" \/ http[t] = NoHttp => response[t] = NoResponse
    /\ response[t].status \in {0, 200, 400, 404, 405, 500}

IInv == ObjectsInPlace /\ Typed /\ \A t \in Threads : ThreadFits(t)

\* The fields a request of each kind has.
LEMMA RequestFields ==
    ASSUME NEW req \in Store!Requests
    PROVE  /\ req.entity_name \in Entities
           /\ req.op \in {"create", "read", "update", "delete", "list"}
           /\ req.op \in {"create", "update"} => req.data \in Bodies
           /\ req.op \in {"read", "update", "delete"} => req.id \in ParsedIds
  BY DEF Store!Requests

LEMMA RequestsAreProper ==
    ASSUME IInv, NEW t \in Threads, status[t] # "idle"
    PROVE  /\ request[t] \in Store!Requests
           /\ request[t].entity_name \in Entities
           /\ request[t].op \in {"create", "read", "update", "delete", "list"}
           /\ request[t].op \in {"create", "update"} => request[t].data \in Bodies
           /\ request[t].op \in {"read", "update", "delete"} =>
                  request[t].id \in ParsedIds
  BY RequestFields DEF IInv, ThreadFits

\* An int, whatever number is parsed.
LEMMA ParsedAreInts == ParsedIds \subseteq IntIds
  <1> SUFFICES ASSUME NEW s \in DOMAIN Number PROVE AsInt(Number[s]) \in IntIds
    BY DEF ParsedIds
  <1>1. PICK n \in Nat : n = Number[s]
    BY NumberAssumption
  <1>2. PICK low \in 0 .. 2 * MaxInt + 1 : low = n % (2 * (MaxInt + 1))
    BY IntAssumption
  <1>3. AsInt(n) = IF low > MaxInt THEN low - 2 * (MaxInt + 1) ELSE low
    BY <1>2 DEF AsInt
  <1> QED
    BY <1>1, <1>3, IntAssumption DEF IntIds

\* What each kind of call is answered with.
LEMMA CreateResponse ==
    ASSUME NEW call, NEW result, call.op = "create"
    PROVE  ResponseFor(call, result) =
               IF result.id < 0 THEN Error(500) ELSE Ok([id |-> result.id])
  BY Zenon DEF ResponseFor

LEMMA ListResponse ==
    ASSUME NEW call, NEW result, call.op = "list"
    PROVE  ResponseFor(call, result) = Ok(Ascending(result.ids))
  <1>1. call.op # "create"
    OBVIOUS
  <1> QED
    BY <1>1, Zenon DEF ResponseFor

LEMMA ReadResponse ==
    ASSUME NEW call, NEW result, call.op = "read"
    PROVE  /\ result.ok => ResponseFor(call, result) = Ok(result.out_data)
           /\ ~result.ok => ResponseFor(call, result) = Error(404)
  <1>1. call.op # "create" /\ call.op # "list"
    OBVIOUS
  <1> QED
    BY <1>1, Zenon DEF ResponseFor

LEMMA UpdateResponse ==
    ASSUME NEW call, NEW result, call.op = "update"
    PROVE  /\ result.ok => ResponseFor(call, result) = Ok([id |-> call.id])
           /\ ~result.ok => ResponseFor(call, result) = Error(500)
  <1>1. call.op # "create" /\ call.op # "list" /\ call.op # "read"
    OBVIOUS
  <1> QED
    BY <1>1, Zenon DEF ResponseFor

LEMMA DeletionResponse ==
    ASSUME NEW call, NEW result, call.op = "delete"
    PROVE  /\ result.ok => ResponseFor(call, result) = Ok([deleted |-> TRUE])
           /\ ~result.ok => ResponseFor(call, result) = Error(404)
  <1>1. call.op # "create" /\ call.op # "list" /\ call.op # "read" /\ call.op # "update"
    OBVIOUS
  <1> QED
    BY <1>1, Zenon DEF ResponseFor, DeleteResponse

\* Every response has a status, which is not that of none.
LEMMA ResponseStatus ==
    ASSUME NEW call, NEW result,
           call.op \in {"create", "read", "update", "delete", "list"}
    PROVE  ResponseFor(call, result).status \in {200, 404, 500}
  <1>1. (\A body : Ok(body).status = 200) /\ (\A code : Error(code).status = code)
    BY DEF Ok, Error
  <1>2. \/ \E body : ResponseFor(call, result) = Ok(body)
        \/ ResponseFor(call, result) = Error(404)
        \/ ResponseFor(call, result) = Error(500)
    <2>1. CASE call.op = "create"
      <3>1. ResponseFor(call, result) =
                IF result.id < 0 THEN Error(500) ELSE Ok([id |-> result.id])
        BY <2>1, CreateResponse
      <3>2. CASE result.id < 0
        BY <3>1, <3>2
      <3>3. CASE ~(result.id < 0)
        <4>1. ResponseFor(call, result) = Ok([id |-> result.id])
          BY <3>1, <3>3
        <4> QED
          BY <4>1
      <3> QED
        BY <3>2, <3>3
    <2>2. CASE call.op = "list"
      <3>1. ResponseFor(call, result) = Ok(Ascending(result.ids))
        BY <2>2, ListResponse
      <3> QED
        BY <3>1, ZenonT(40)
    <2>3. CASE call.op = "read"
      <3>1. CASE result.ok
        <4>1. ResponseFor(call, result) = Ok(result.out_data)
          BY <2>3, <3>1, ReadResponse
        <4> QED
          BY <4>1
      <3>2. CASE ~result.ok
        <4>1. ResponseFor(call, result) = Error(404)
          BY <2>3, <3>2, ReadResponse
        <4> QED
          BY <4>1
      <3> QED
        BY <3>1, <3>2
    <2>4. CASE call.op = "update"
      <3>1. CASE result.ok
        <4>1. ResponseFor(call, result) = Ok([id |-> call.id])
          BY <2>4, <3>1, UpdateResponse
        <4> QED
          BY <4>1
      <3>2. CASE ~result.ok
        <4>1. ResponseFor(call, result) = Error(500)
          BY <2>4, <3>2, UpdateResponse
        <4> QED
          BY <4>1
      <3> QED
        BY <3>1, <3>2
    <2>5. CASE call.op = "delete"
      <3>1. CASE result.ok
        <4>1. ResponseFor(call, result) = Ok([deleted |-> TRUE])
          BY <2>5, <3>1, DeletionResponse
        <4> QED
          BY <4>1
      <3>2. CASE ~result.ok
        <4>1. ResponseFor(call, result) = Error(404)
          BY <2>5, <3>2, DeletionResponse
        <4> QED
          BY <4>1
      <3> QED
        BY <3>1, <3>2
    <2> QED
      BY <2>1, <2>2, <2>3, <2>4, <2>5
  <1>3. CASE \E body : ResponseFor(call, result) = Ok(body)
    <2>1. PICK body : ResponseFor(call, result) = Ok(body)
      BY <1>3
    <2> QED
      BY <1>1, <2>1
  <1>4. CASE ResponseFor(call, result) = Error(404)
    BY <1>1, <1>4
  <1>5. CASE ResponseFor(call, result) = Error(500)
    BY <1>1, <1>5
  <1> QED
    BY <1>2, <1>3, <1>4, <1>5

--------------------------------------------------------------------------------
(* The invariant holds                                                        *)

\* handle_request refuses the request, or calls the store with a proper one.
LEMMA HandlerActs ==
    ASSUME NEW t \in Threads, NEW r \in HttpRequests, HandleRequest(t, r)
    PROVE  /\ http[t] = NoHttp /\ http' = [http EXCEPT ![t] = r]
           /\ \/ \E code \in {400, 405} : Reject(t, code)
              \/ \E call \in Store!Requests : CallStore(t, call)
  <1> DEFINE segments == ExtractSegments(r.url)
             refused == \E code \in {400, 405} : Reject(t, code)
             called == \E call \in Store!Requests : CallStore(t, call)
  <1>0. SUFFICES refused \/ called
    BY DEF HandleRequest
  <1>1. CASE ~(segments # <<>> /\ IsValidEntityName(segments[1]))
    BY <1>1 DEF HandleRequest
  <1>2. CASE segments[1] \in Entities
    <2>1. PICK name \in Entities : name = segments[1]
      BY <1>2
    <2>2. ASSUME IsNumber(segments[2]) PROVE AsInt(Number[segments[2]]) \in ParsedIds
      BY <2>2 DEF IsNumber, ParsedIds
    <2>3. CASE HandlePost(t, r, segments)
      <3>1. \/ Reject(t, 400)
            \/ /\ IsValidJson(r.body)
               /\ CallStore(t, [op |-> "create", entity_name |-> name, data |-> r.body])
        BY <2>1, <2>3 DEF HandlePost
      <3>2. r.body \in Bodies =>
                [op |-> "create", entity_name |-> name, data |-> r.body] \in Store!Requests
        BY DEF Store!Requests
      <3> QED
        BY <3>1, <3>2 DEF IsValidJson
    <2>4. CASE HandleGet(t, segments)
      <3>1. \/ Reject(t, 400)
            \/ CallStore(t, [op |-> "list", entity_name |-> name])
            \/ /\ IsNumber(segments[2])
               /\ CallStore(t, [op |-> "read", entity_name |-> name,
                                id |-> AsInt(Number[segments[2]])])
        BY <2>1, <2>4 DEF HandleGet
      <3>2. /\ [op |-> "list", entity_name |-> name] \in Store!Requests
            /\ \A id \in ParsedIds :
                  [op |-> "read", entity_name |-> name, id |-> id] \in Store!Requests
        BY DEF Store!Requests
      <3> QED
        BY <2>2, <3>1, <3>2
    <2>5. CASE HandlePut(t, r, segments)
      <3>1. \/ Reject(t, 400)
            \/ /\ IsNumber(segments[2]) /\ IsValidJson(r.body)
               /\ CallStore(t, [op |-> "update", entity_name |-> name,
                                id |-> AsInt(Number[segments[2]]), data |-> r.body])
        BY <2>1, <2>5 DEF HandlePut, NamesObject
      <3>2. \A id \in ParsedIds, data \in Bodies :
                [op |-> "update", entity_name |-> name, id |-> id, data |-> data]
                    \in Store!Requests
        BY DEF Store!Requests
      <3> QED
        BY <2>2, <3>1, <3>2 DEF IsValidJson
    <2>6. CASE HandleDelete(t, segments)
      <3>1. \/ Reject(t, 400)
            \/ /\ IsNumber(segments[2])
               /\ CallStore(t, [op |-> "delete", entity_name |-> name,
                                id |-> AsInt(Number[segments[2]])])
        BY <2>1, <2>6 DEF HandleDelete, NamesObject
      <3>2. \A id \in ParsedIds :
                [op |-> "delete", entity_name |-> name, id |-> id] \in Store!Requests
        BY DEF Store!Requests
      <3> QED
        BY <2>2, <3>1, <3>2
    <2>7. \/ refused
          \/ HandlePost(t, r, segments) \/ HandleGet(t, segments)
          \/ HandlePut(t, r, segments) \/ HandleDelete(t, segments)
      BY DEF HandleRequest
    <2> QED
      BY <2>3, <2>4, <2>5, <2>6, <2>7
  <1> QED
    BY <1>1, <1>2 DEF IsValidEntityName

\* What a step of the store does, with any of its operations.
Takes(t, objs, r) ==
    /\ Store!Effect(t, objs, r)
    /\ DOMAIN objs \subseteq IntIds
    /\ \A id \in DOMAIN objs : objs[id] \in Bodies

LEMMA StoreActs ==
    ASSUME IInv, NEW t \in Threads, StoreStep(t)
    PROVE  /\ status[t] = "called" /\ UNCHANGED <<response, http>>
           /\ \E objs, r : Takes(t, objs, r)
  <1>0. status[t] = "called" /\ UNCHANGED <<response, http>>
    BY DEF StoreStep, Store!Create, Store!Read, Store!Update, Store!Delete, Store!List,
           Store!Asked
  <1> SUFFICES \E objs, r : Takes(t, objs, r)
    BY <1>0
  <1>1. request[t].entity_name \in Entities
    BY <1>0, RequestsAreProper
  <1>2. PICK here : here = Store!Here(t)
    OBVIOUS
  <1>3. DOMAIN here \subseteq IntIds /\ \A id \in DOMAIN here : here[id] \in Bodies
    BY <1>1, <1>2 DEF IInv, ObjectsInPlace, Store!Here
  <1>4. ASSUME NEW r, Store!Effect(t, here, r) PROVE \E objs, s : Takes(t, objs, s)
    BY <1>3, <1>4 DEF Takes
  <1>5. ASSUME NEW id \in IntIds, NEW data \in Bodies, NEW r,
               Store!Effect(t, Store!Put(here, id, data), r)
        PROVE  \E objs, s : Takes(t, objs, s)
    <2>1. Takes(t, Store!Put(here, id, data), r)
      BY <1>3, <1>5 DEF Takes, Store!Put
    <2> QED
      BY <2>1
  <1>6. CASE \E id \in NewIds \cup {-1} :
                reply' = [reply EXCEPT ![t] = [id |-> id]] /\ Store!Create(t)
    <2>1. PICK id \in NewIds \cup {-1} :
              reply' = [reply EXCEPT ![t] = [id |-> id]] /\ Store!Create(t)
      BY <1>6
    <2>2. reply'[t].id = id /\ id \in Int
      BY <2>1, NewIdsAssumption DEF IInv, Typed
    <2>3. \/ /\ Store!Effect(t, Store!Put(here, id, request[t].data), [id |-> id])
             /\ id \in Nat
          \/ Store!Effect(t, here, [id |-> -1])
      BY <1>2, <2>1, <2>2 DEF Store!Create
    <2>4. request[t].data \in Bodies
      BY <1>0, <2>1, RequestsAreProper DEF Store!Create, Store!Asked
    <2>5. id \in Nat => id \in IntIds
      BY NewIdsAssumption, IntAssumption DEF IntIds
    <2> QED
      BY <1>4, <1>5, <2>3, <2>4, <2>5
  <1>7. CASE Store!Read(t) \/ Store!List(t)
    <2>1. \E r : Store!Effect(t, here, r)
      BY <1>2, <1>7 DEF Store!Read, Store!List
    <2> QED
      BY <1>4, <2>1
  <1>8. CASE Store!Update(t)
    <2>1. \/ Store!Effect(t, Store!Put(here, request[t].id, request[t].data), [ok |-> TRUE])
          \/ Store!Effect(t, here, [ok |-> FALSE])
      BY <1>2, <1>8 DEF Store!Update
    <2>2. request[t].data \in Bodies /\ request[t].id \in IntIds
      BY <1>0, <1>8, RequestsAreProper, ParsedAreInts DEF Store!Update, Store!Asked
    <2> QED
      BY <1>4, <1>5, <2>1, <2>2
  <1>9. CASE Store!Delete(t)
    <2>1. \/ Store!Effect(t, Store!Drop(here, request[t].id), [ok |-> TRUE])
          \/ Store!Effect(t, here, [ok |-> FALSE])
      BY <1>2, <1>9 DEF Store!Delete
    <2>2. CASE Store!Effect(t, Store!Drop(here, request[t].id), [ok |-> TRUE])
      <3>1. Takes(t, Store!Drop(here, request[t].id), [ok |-> TRUE])
        BY <1>3, <2>2 DEF Takes, Store!Drop, Store!Restrict
      <3> QED
        BY <3>1
    <2> QED
      BY <1>4, <2>1, <2>2
  <1> QED
    BY <1>6, <1>7, <1>8, <1>9 DEF StoreStep

LEMMA IInvInit == Init => IInv
  <1> SUFFICES ASSUME Init PROVE IInv
    OBVIOUS
  <1>1. ObjectsInPlace
    BY DEF Init, Store!Init, Store!NoObjects, ObjectsInPlace
  <1>2. Typed
    BY DEF Init, Store!Init, Typed
  <1>3. \A t \in Threads : ThreadFits(t)
    BY DEF Init, Store!Init, ThreadFits, NoResponse
  <1> QED
    BY <1>1, <1>2, <1>3 DEF IInv

\* The threads that do not move.
Still(u) ==
    /\ status'[u] = status[u] /\ request'[u] = request[u] /\ reply'[u] = reply[u]
    /\ response'[u] = response[u] /\ http'[u] = http[u]

LEMMA OthersStay ==
    ASSUME NEW u \in Threads, ThreadFits(u), Still(u)
    PROVE  ThreadFits(u)'
  BY DEF ThreadFits, Still

LEMMA CallKeeps ==
    ASSUME IInv, NEW t \in Threads, NEW r \in HttpRequests, HandleRequest(t, r)
    PROVE  IInv'
  <1> USE DEF IInv
  <1>0. http[t] = NoHttp /\ http' = [http EXCEPT ![t] = r] /\ r # NoHttp
    BY HandlerActs, HttpRequestsAssumption
  <1>1. ASSUME NEW code \in {400, 405}, Reject(t, code) PROVE IInv'
    <2>1. /\ status[t] = "idle" /\ response' = [response EXCEPT ![t] = Error(code)]
          /\ UNCHANGED <<objects, status, request, reply>>
      BY <1>1 DEF Reject
    <2>2. ObjectsInPlace' /\ Typed'
      BY <1>0, <2>1 DEF ObjectsInPlace, Typed
    <2>3. ASSUME NEW u \in Threads \ {t} PROVE ThreadFits(u)'
      BY <1>0, <2>1, OthersStay DEF Still, Typed
    <2>4. ThreadFits(t)'
      <3>1. Error(code).status = code
        BY DEF Error
      <3> QED
        BY <1>0, <2>1, <3>1 DEF ThreadFits, Typed
    <2> QED
      BY <2>2, <2>3, <2>4
  <1>2. ASSUME NEW call \in Store!Requests, CallStore(t, call) PROVE IInv'
    <2>1. /\ status' = [status EXCEPT ![t] = "called"]
          /\ request' = [request EXCEPT ![t] = call]
          /\ UNCHANGED <<objects, reply, response>>
      BY <1>2 DEF CallStore, Store!Call
    <2>2. ObjectsInPlace' /\ Typed'
      BY <1>0, <2>1 DEF ObjectsInPlace, Typed
    <2>3. ASSUME NEW u \in Threads \ {t} PROVE ThreadFits(u)'
      BY <1>0, <2>1, OthersStay DEF Still, Typed
    <2>4. ThreadFits(t)'
      BY <1>0, <2>1 DEF ThreadFits, Typed
    <2> QED
      BY <2>2, <2>3, <2>4
  <1> QED
    BY <1>1, <1>2, HandlerActs

LEMMA StoreKeeps ==
    ASSUME IInv, NEW t \in Threads, StoreStep(t)
    PROVE  IInv'
  <1> USE DEF IInv
  <1>1. status[t] = "called" /\ UNCHANGED <<response, http>>
    BY StoreActs
  <1>2. PICK objs : \E r : Takes(t, objs, r)
    BY StoreActs
  <1>3. PICK r : Takes(t, objs, r)
    BY <1>2
  <1>4. /\ status' = [status EXCEPT ![t] = "replied"]
        /\ objects' = [objects EXCEPT ![request[t].entity_name] = objs]
        /\ reply' = [reply EXCEPT ![t] = r]
        /\ request' = request
    BY <1>3 DEF Takes, Store!Effect
  <1>5. ObjectsInPlace'
    BY <1>3, <1>4 DEF ObjectsInPlace, Takes
  <1>6. Typed'
    BY <1>1, <1>4 DEF Typed
  <1>7. ASSUME NEW u \in Threads \ {t} PROVE ThreadFits(u)'
    BY <1>1, <1>4, OthersStay DEF Still, Typed
  <1>8. ThreadFits(t)'
    BY <1>1, <1>4 DEF ThreadFits, Typed
  <1> QED
    BY <1>5, <1>6, <1>7, <1>8

LEMMA RespondKeeps ==
    ASSUME IInv, NEW t \in Threads, Respond(t)
    PROVE  IInv'
  <1> USE DEF IInv
  <1>1. /\ status[t] = "replied" /\ status' = [status EXCEPT ![t] = "idle"]
        /\ request' = [request EXCEPT ![t] = Store!NoRequest]
        /\ reply' = [reply EXCEPT ![t] = Store!NoReply]
        /\ response' = [response EXCEPT ![t] = ResponseFor(request[t], reply[t])]
        /\ UNCHANGED <<objects, http>>
    BY DEF Respond, Store!Return
  <1>2. ObjectsInPlace' /\ Typed'
    BY <1>1 DEF ObjectsInPlace, Typed
  <1>3. ASSUME NEW u \in Threads \ {t} PROVE ThreadFits(u)'
    BY <1>1, OthersStay DEF Still, Typed
  <1>4. ResponseFor(request[t], reply[t]).status \in {200, 404, 500}
    BY <1>1, RequestsAreProper, ResponseStatus
  <1>5. ThreadFits(t)'
    BY <1>1, <1>4 DEF ThreadFits, Typed
  <1> QED
    BY <1>2, <1>3, <1>5

LEMMA SentKeeps ==
    ASSUME IInv, NEW t \in Threads, Sent(t)
    PROVE  IInv' /\ status[t] = "idle"
  <1> USE DEF IInv
  <1>1. /\ response[t] # NoResponse
        /\ response' = [response EXCEPT ![t] = NoResponse]
        /\ http' = [http EXCEPT ![t] = NoHttp]
        /\ UNCHANGED <<objects, status, request, reply>>
    BY DEF Sent
  <1>2. status[t] = "idle"
    BY <1>1 DEF ThreadFits
  <1>3. ObjectsInPlace' /\ Typed'
    BY <1>1 DEF ObjectsInPlace, Typed
  <1>4. ASSUME NEW u \in Threads \ {t} PROVE ThreadFits(u)'
    BY <1>1, OthersStay DEF Still, Typed
  <1>5. ThreadFits(t)'
    BY <1>1, <1>2 DEF ThreadFits, Typed, NoResponse
  <1> QED
    BY <1>2, <1>3, <1>4, <1>5

LEMMA IInvStays == IInv /\ [Next]_vars => IInv'
  <1> SUFFICES ASSUME IInv, [Next]_vars PROVE IInv'
    OBVIOUS
  <1>1. ASSUME NEW t \in Threads, \E r \in HttpRequests : HandleRequest(t, r) PROVE IInv'
    BY <1>1, CallKeeps
  <1>2. ASSUME NEW t \in Threads, StoreStep(t) \/ Respond(t) \/ Sent(t) PROVE IInv'
    BY <1>2, StoreKeeps, RespondKeeps, SentKeeps
  <1>3. CASE UNCHANGED vars
    BY <1>3 DEF vars, IInv, ObjectsInPlace, Typed, ThreadFits
  <1> QED
    BY <1>1, <1>2, <1>3 DEF Next

LEMMA Invariant == Spec => []IInv
  BY IInvInit, IInvStays, PTL DEF Spec

--------------------------------------------------------------------------------
(* What was checked on an instance: the types of the variables                *)

\* A thread of ApiRequestHandler that is in the store handles a request and has no
\* response yet, every id in the store is an int, and every response has one of
\* the codes of handle_request.
THEOREM TypeCorrect == Spec => []TypeOK
  <1>1. ASSUME IInv PROVE TypeOK
    <2>1. ObjectsInPlace /\ Typed /\ \A t \in Threads : ThreadFits(t)
      BY <1>1 DEF IInv
    <2>2. DOMAIN objects = Entities
      BY <2>1 DEF ObjectsInPlace
    <2>3. \A e \in Entities :
              /\ DOMAIN objects[e] \subseteq -MaxInt - 1 .. MaxInt
              /\ \A id \in DOMAIN objects[e] : objects[e][id] \in Bodies
      BY <2>1 DEF ObjectsInPlace, IntIds
    <2>4. status \in [Threads -> {"idle", "called", "replied"}]
      BY <2>1 DEF Typed
    <2>5. ASSUME NEW t \in Threads
          PROVE  /\ request[t] \in Store!Requests \cup {Store!NoRequest}
                 /\ response[t].status \in {0, 200, 400, 404, 405, 500}
                 /\ http[t] \in HttpRequests \cup {NoHttp}
                 /\ status[t] # "idle" => http[t] # NoHttp /\ response[t] = NoResponse
      <3>1. ThreadFits(t)
        BY <2>1
      <3> QED
        BY <2>1, <3>1 DEF Typed, ThreadFits
    <2> QED
      BY <2>2, <2>3, <2>4, <2>5 DEF TypeOK
  <1> QED
    BY <1>1, Invariant, PTL

--------------------------------------------------------------------------------
(* The handler implements Resources                                           *)

\* What the mapping makes of a thread's state.
LEMMA Seen ==
    ASSUME NEW t \in Threads
    PROVE  /\ status[t] = "called" => Asking[t] = request[t] /\ Answers[t] = response[t]
           /\ status[t] # "called" => Asking[t] = Mapped!Nothing
           /\ status[t] = "replied" => Answers[t] = ResponseFor(request[t], reply[t])
           /\ status[t] # "replied" => Answers[t] = response[t]
  BY DEF Asking, Answers, Mapped!Nothing

LEMMA SeenNext ==
    ASSUME NEW t \in Threads
    PROVE  /\ status'[t] = "called" => Asking'[t] = request'[t] /\ Answers'[t] = response'[t]
           /\ status'[t] # "called" => Asking'[t] = Mapped!Nothing
           /\ status'[t] = "replied" => Answers'[t] = ResponseFor(request'[t], reply'[t])
           /\ status'[t] # "replied" => Answers'[t] = response'[t]
  BY DEF Asking, Answers, Mapped!Nothing

\* Where one thread moves, the mapping changes at it alone.
LEMMA OneMoves ==
    ASSUME NEW t \in Threads, \A u \in Threads \ {t} : Still(u)
    PROVE  /\ Asking' = [Asking EXCEPT ![t] = Asking'[t]]
           /\ Answers' = [Answers EXCEPT ![t] = Answers'[t]]
  <1>1. \A u \in Threads \ {t} : Asking'[u] = Asking[u] /\ Answers'[u] = Answers[u]
    BY DEF Asking, Answers, Still
  <1>2. /\ Asking = [u \in Threads |-> Asking[u]] /\ Asking' = [u \in Threads |-> Asking'[u]]
        /\ Answers = [u \in Threads |-> Answers[u]]
        /\ Answers' = [u \in Threads |-> Answers'[u]]
    BY DEF Asking, Answers
  <1> QED
    BY <1>1, <1>2

LEMMA InitImplements == ASSUME Init PROVE Mapped!Init
  BY DEF Init, Store!Init, Store!NoObjects, NoResponse, Asking, Answers,
         Mapped!Init, Mapped!Nothing, Mapped!NoAnswer

LEMMA HandlerImplements ==
    ASSUME IInv, NEW t \in Threads, NEW r \in HttpRequests, HandleRequest(t, r)
    PROVE  Mapped!Next
  <1>0. /\ http[t] = NoHttp /\ http' = [http EXCEPT ![t] = r]
        /\ DOMAIN http = Threads /\ DOMAIN response = Threads
        /\ DOMAIN status = Threads /\ DOMAIN request = Threads
    BY HandlerActs DEF IInv, Typed
  <1>1. ThreadFits(t) /\ response[t] = Mapped!NoAnswer
    BY <1>0 DEF IInv, ThreadFits, NoResponse, Mapped!NoAnswer
  <1>2. ASSUME NEW code \in {400, 405}, Reject(t, code) PROVE Mapped!Refuse(t, code)
    <2>1. /\ status[t] = "idle" /\ response' = [response EXCEPT ![t] = Error(code)]
          /\ UNCHANGED <<objects, status, request, reply>>
      BY <1>2 DEF Reject
    <2>2. \A u \in Threads \ {t} : Still(u)
      BY <1>0, <2>1 DEF Still
    <2>3. Asking[t] = Mapped!Nothing /\ Answers[t] = Mapped!NoAnswer
      BY <1>1, <2>1, Seen
    <2>4. Asking'[t] = Asking[t] /\ Answers'[t] = Error(code)
      BY <1>0, <2>1, <2>3, SeenNext
    <2>5. Answers' = [Answers EXCEPT ![t] = Mapped!Failed(code)]
      BY <2>2, <2>4, OneMoves DEF Error, Mapped!Failed
    <2>6. Asking' = Asking
      BY <2>1 DEF Asking
    <2> QED
      BY <2>1, <2>3, <2>5, <2>6 DEF Mapped!Refuse
  <1>3. ASSUME NEW call \in Store!Requests, CallStore(t, call) PROVE Mapped!Ask(t, call)
    <2>1. /\ status[t] = "idle"
          /\ status' = [status EXCEPT ![t] = "called"]
          /\ request' = [request EXCEPT ![t] = call]
          /\ UNCHANGED <<objects, reply, response>>
      BY <1>3 DEF CallStore, Store!Call
    <2>2. \A u \in Threads \ {t} : Still(u)
      BY <1>0, <2>1 DEF Still
    <2>3. Asking[t] = Mapped!Nothing /\ Answers[t] = Mapped!NoAnswer
      BY <1>1, <2>1, Seen
    <2>4. Asking'[t] = call /\ Answers'[t] = Answers[t]
      BY <1>0, <2>1, SeenNext, Seen
    <2>5. Asking' = [Asking EXCEPT ![t] = call]
      BY <2>2, <2>4, OneMoves
    <2>6. Answers' = Answers
      <3>1. Answers' = [Answers EXCEPT ![t] = Answers[t]]
        BY <2>2, <2>4, OneMoves
      <3> QED
        BY <3>1 DEF Answers
    <2> QED
      BY <2>1, <2>3, <2>5, <2>6 DEF Mapped!Ask
  <1>4. Store!Requests = Mapped!Questions
    BY DEF Store!Requests, Mapped!Questions
  <1> QED
    BY <1>2, <1>3, <1>4, HandlerActs DEF Mapped!Next

LEMMA RespondImplements ==
    ASSUME IInv, NEW t \in Threads, Respond(t)
    PROVE  UNCHANGED Mapped!vars
  <1>1. /\ status[t] = "replied" /\ status' = [status EXCEPT ![t] = "idle"]
        /\ request' = [request EXCEPT ![t] = Store!NoRequest]
        /\ reply' = [reply EXCEPT ![t] = Store!NoReply]
        /\ response' = [response EXCEPT ![t] = ResponseFor(request[t], reply[t])]
        /\ UNCHANGED <<objects, http>>
    BY DEF Respond, Store!Return
  <1>2. /\ DOMAIN response = Threads /\ DOMAIN status = Threads
        /\ DOMAIN request = Threads /\ DOMAIN reply = Threads
    BY DEF IInv, Typed
  <1>3. \A u \in Threads \ {t} : Still(u)
    BY <1>1, <1>2 DEF Still
  <1>4. Asking'[t] = Asking[t] /\ Answers'[t] = Answers[t]
    <2>1. status'[t] = "idle" /\ response'[t] = ResponseFor(request[t], reply[t])
      BY <1>1, <1>2
    <2> QED
      BY <1>1, <2>1, Seen, SeenNext
  <1>5. /\ Asking' = [Asking EXCEPT ![t] = Asking[t]]
        /\ Answers' = [Answers EXCEPT ![t] = Answers[t]]
    BY <1>3, <1>4, OneMoves
  <1>6. Asking' = Asking /\ Answers' = Answers
    BY <1>5 DEF Asking, Answers
  <1> QED
    BY <1>1, <1>6 DEF Mapped!vars

LEMMA SentImplements ==
    ASSUME IInv, NEW t \in Threads, Sent(t)
    PROVE  Mapped!Take(t)
  <1>1. /\ response[t] # NoResponse /\ status[t] = "idle"
        /\ response' = [response EXCEPT ![t] = NoResponse]
        /\ http' = [http EXCEPT ![t] = NoHttp]
        /\ UNCHANGED <<objects, status, request, reply>>
    BY SentKeeps DEF Sent
  <1>2. DOMAIN response = Threads /\ DOMAIN http = Threads
    BY DEF IInv, Typed
  <1>3. \A u \in Threads \ {t} : Still(u)
    BY <1>1, <1>2 DEF Still
  <1>4. Answers[t] # Mapped!NoAnswer /\ Answers'[t] = Mapped!NoAnswer
    BY <1>1, <1>2, Seen, SeenNext DEF NoResponse, Mapped!NoAnswer
  <1>5. Answers' = [Answers EXCEPT ![t] = Mapped!NoAnswer]
    BY <1>3, <1>4, OneMoves
  <1>6. Asking' = Asking
    BY <1>1 DEF Asking
  <1> QED
    BY <1>1, <1>4, <1>5, <1>6 DEF Mapped!Take

\* Where the store takes its effect, the request is answered by what the effect
\* showed.
LEMMA EffectAnswers ==
    ASSUME IInv, NEW t \in Threads, StoreStep(t),
           NEW objs, NEW r, Store!Effect(t, objs, r)
    PROVE  /\ Asking[t] = request[t]
           /\ Mapped!Answer(t, ResponseFor(request[t], r))
           /\ Answers'[t] = ResponseFor(request[t], r)
           /\ Mapped!Becomes(t, objs)
           /\ Mapped!Here(t) = Store!Here(t)
           /\ objs = Store!Here(t) => UNCHANGED objects
  <1>1. status[t] = "called" /\ UNCHANGED <<response, http>>
    BY StoreActs
  <1>2. /\ status' = [status EXCEPT ![t] = "replied"]
        /\ objects' = [objects EXCEPT ![request[t].entity_name] = objs]
        /\ reply' = [reply EXCEPT ![t] = r]
        /\ UNCHANGED request
    BY DEF Store!Effect
  <1>3. DOMAIN status = Threads /\ DOMAIN reply = Threads
    BY DEF IInv, Typed
  <1>4. \A u \in Threads \ {t} : Still(u)
    BY <1>1, <1>2, <1>3 DEF Still
  <1>5. Asking[t] = request[t]
    BY <1>1, Seen
  <1>6. Asking'[t] = Mapped!Nothing /\ Answers'[t] = ResponseFor(request[t], r)
    <2>1. status'[t] = "replied" /\ reply'[t] = r /\ request'[t] = request[t]
      BY <1>2, <1>3
    <2> QED
      BY <2>1, SeenNext
  <1>7. Mapped!Answer(t, ResponseFor(request[t], r))
    BY <1>4, <1>6, OneMoves DEF Mapped!Answer
  <1>8. Mapped!Becomes(t, objs) /\ Mapped!Here(t) = Store!Here(t)
    BY <1>2, <1>5 DEF Mapped!Becomes, Mapped!Here, Store!Here
  <1>9. objs = Store!Here(t) => UNCHANGED objects
    BY <1>2 DEF Store!Here, IInv, ObjectsInPlace
  <1> QED
    BY <1>5, <1>6, <1>7, <1>8, <1>9

\* The responses of the two modules are the same records.
LEMMA SameResponses ==
    /\ \A body : Ok(body) = Mapped!Ok(body) /\ Mapped!Ok(body).status = 200
                     /\ Mapped!Ok(body).body = body
    /\ \A code : Error(code) = Mapped!Failed(code)
  BY DEF Ok, Error, Mapped!Ok, Mapped!Failed

LEMMA CreateImplements ==
    ASSUME IInv, NEW t \in Threads, StoreStep(t), Store!Create(t), reply'[t].id \in Int
    PROVE  Mapped!Post(t)
  <1> DEFINE here == Store!Here(t)
             id == reply'[t].id
  <1>1. status[t] = "called" /\ request[t].op = "create"
    BY DEF Store!Create, Store!Asked
  <1>2. Mapped!Asks(t, "create")
    BY <1>1, Seen DEF Mapped!Asks
  <1>3. CASE /\ Store!Effect(t, Store!Put(here, id, request[t].data), [id |-> id])
             /\ id \in Nat \ DOMAIN here
    <2>1. ResponseFor(request[t], [id |-> id]) = Mapped!Ok([id |-> id])
      <3>1. ~(id < 0) /\ [id |-> id].id = id
        BY <1>3
      <3>2. ResponseFor(request[t], [id |-> id]) = Ok([id |-> id])
        BY <1>1, <3>1, CreateResponse
      <3> QED
        BY <3>2, SameResponses
    <2>2. /\ Asking[t] = request[t]
          /\ Mapped!Answer(t, Mapped!Ok([id |-> id])) /\ Answers'[t] = Mapped!Ok([id |-> id])
          /\ Mapped!Becomes(t, Store!Put(here, id, request[t].data))
          /\ Mapped!Here(t) = here
      BY <1>3, <2>1, EffectAnswers
    <2>3. Answers'[t].status = 200 /\ Answers'[t].body = [id |-> id]
          /\ [id |-> id].id = id
      BY <2>2, SameResponses
    <2>4. PICK new : new = id
      OBVIOUS
    <2>5. Mapped!Becomes(t, Mapped!With(Mapped!Here(t), new, Asking[t].data))
      BY <2>2, <2>4 DEF Store!Put, Mapped!With
    <2>6. /\ Answers'[t].body.id = new /\ Answers'[t].status = 200
          /\ Mapped!Answer(t, Mapped!Ok([id |-> new]))
          /\ new \in Nat \ DOMAIN Mapped!Here(t)
      BY <1>3, <2>2, <2>3, <2>4
    <2> QED
      BY <1>2, <2>5, <2>6 DEF Mapped!Post
  <1>4. CASE Store!Effect(t, here, [id |-> -1])
    <2>1. ResponseFor(request[t], [id |-> -1]) = Mapped!Failed(500)
      BY <1>1, CreateResponse, SameResponses
    <2>2. Mapped!Answer(t, Mapped!Failed(500)) /\ UNCHANGED objects
      BY <1>4, <2>1, EffectAnswers
    <2> QED
      BY <1>2, <2>2 DEF Mapped!Post
  <1> QED
    BY <1>3, <1>4 DEF Store!Create

LEMMA ReadImplements ==
    ASSUME IInv, NEW t \in Threads, StoreStep(t), Store!Read(t)
    PROVE  Mapped!Get(t)
  <1> DEFINE here == Store!Here(t)
             id == request[t].id
  <1>1. status[t] = "called" /\ request[t].op = "read" /\ Asking[t] = request[t]
    BY Seen DEF Store!Read, Store!Asked
  <1>2. Mapped!Asks(t, "read")
    BY <1>1 DEF Mapped!Asks
  <1>3. CASE /\ id \in DOMAIN here
             /\ Store!Effect(t, here, [ok |-> TRUE, out_data |-> here[id]])
    <2>1. ResponseFor(request[t], [ok |-> TRUE, out_data |-> here[id]])
              = Mapped!Ok(here[id])
      <3>1. PICK data : data = here[id]
        OBVIOUS
      <3>2. [ok |-> TRUE, out_data |-> data].ok
        OBVIOUS
      <3>3. [ok |-> TRUE, out_data |-> data].out_data = data
        OBVIOUS
      <3>4. PICK seen : seen = [ok |-> TRUE, out_data |-> data]
        OBVIOUS
      <3>5. seen.ok /\ seen.out_data = data
        BY <3>2, <3>3, <3>4, Zenon
      <3>6. ResponseFor(request[t], seen) = Ok(data)
        BY <1>1, <3>5, ReadResponse, ZenonT(60)
      <3> QED
        BY <3>1, <3>4, <3>6, SameResponses
    <2>2. /\ Mapped!Answer(t, Mapped!Ok(here[id])) /\ UNCHANGED objects
          /\ Mapped!Here(t) = here
      BY <1>3, <2>1, EffectAnswers
    <2> QED
      BY <1>1, <1>2, <1>3, <2>2 DEF Mapped!Get
  <1>4. CASE id \notin DOMAIN here /\ Store!Effect(t, here, [ok |-> FALSE])
    <2>1. ResponseFor(request[t], [ok |-> FALSE]) = Mapped!Failed(404)
      <3>1. ~[ok |-> FALSE].ok
        OBVIOUS
      <3>2. ResponseFor(request[t], [ok |-> FALSE]) = Error(404)
        BY <1>1, <3>1, ReadResponse, Zenon
      <3> QED
        BY <3>2, SameResponses
    <2>2. /\ Mapped!Answer(t, Mapped!Failed(404)) /\ UNCHANGED objects
          /\ Mapped!Here(t) = here
      BY <1>4, <2>1, EffectAnswers
    <2> QED
      BY <1>1, <1>2, <1>4, <2>2 DEF Mapped!Get
  <1> QED
    BY <1>3, <1>4 DEF Store!Read

LEMMA ListImplements ==
    ASSUME IInv, NEW t \in Threads, StoreStep(t), Store!List(t)
    PROVE  Mapped!GetAll(t)
  <1>1. /\ status[t] = "called" /\ request[t].op = "list" /\ Asking[t] = request[t]
        /\ Store!Effect(t, Store!Here(t), [ids |-> DOMAIN Store!Here(t)])
    BY Seen DEF Store!List, Store!Asked
  <1>2. Mapped!Asks(t, "list")
    BY <1>1 DEF Mapped!Asks
  <1>3. PICK ids : ids = DOMAIN Store!Here(t)
    OBVIOUS
  <1>4. Lists(Ascending(ids), ids)
    <2>1. ids \in SUBSET IntIds
      <3>1. request[t].entity_name \in Entities
        BY <1>1, RequestsAreProper
      <3> QED
        BY <1>3, <3>1 DEF IInv, ObjectsInPlace, Store!Here
    <2>2. IntIds \subseteq Int /\ IsFiniteSet(IntIds)
      BY IntAssumption, FS_Interval DEF IntIds
    <2>3. ids \in SUBSET Int /\ IsFiniteSet(ids)
      BY <2>1, <2>2, FS_Subset
    <2> QED
      BY <2>3, AscendingLists
  <1>5. ResponseFor(request[t], [ids |-> ids]) = Mapped!Ok(Ascending(ids))
    <2>1. [ids |-> ids].ids = ids
      OBVIOUS
    <2> QED
      BY <1>1, <2>1, ListResponse, SameResponses
  <1>6. PICK seq : seq = Ascending(ids)
    OBVIOUS
  <1>7. /\ Mapped!Answer(t, Mapped!Ok(seq)) /\ Answers'[t] = Mapped!Ok(seq)
        /\ UNCHANGED objects /\ Mapped!Here(t) = Store!Here(t)
    BY <1>1, <1>3, <1>5, <1>6, EffectAnswers
  <1>8. Answers'[t].status = 200 /\ Answers'[t].body = seq
    BY <1>7, SameResponses
  <1>9. /\ Mapped!Range(seq) = DOMAIN Mapped!Here(t)
        /\ \A m, n \in DOMAIN seq : m < n => seq[m] < seq[n]
    BY <1>3, <1>4, <1>6, <1>7 DEF Lists, ToSet, Mapped!Range
  <1> QED
    BY <1>2, <1>7, <1>8, <1>9 DEF Mapped!GetAll

LEMMA UpdateImplements ==
    ASSUME IInv, NEW t \in Threads, StoreStep(t), Store!Update(t)
    PROVE  Mapped!Put(t)
  <1> DEFINE here == Store!Here(t)
             written == Store!Put(here, request[t].id, request[t].data)
  <1>1. status[t] = "called" /\ request[t].op = "update" /\ Asking[t] = request[t]
    BY Seen DEF Store!Update, Store!Asked
  <1>2. Mapped!Asks(t, "update")
    BY <1>1 DEF Mapped!Asks
  <1>3. CASE Store!Effect(t, written, [ok |-> TRUE])
    <2>1. ResponseFor(request[t], [ok |-> TRUE]) = Mapped!Ok([id |-> request[t].id])
      <3>1. [ok |-> TRUE].ok
        OBVIOUS
      <3>2. ResponseFor(request[t], [ok |-> TRUE]) = Ok([id |-> request[t].id])
        BY <1>1, <3>1, UpdateResponse, ZenonT(60)
      <3> QED
        BY <3>2, SameResponses
    <2>2. /\ Mapped!Answer(t, Mapped!Ok([id |-> request[t].id]))
          /\ Mapped!Becomes(t, written) /\ Mapped!Here(t) = here
      BY <1>3, <2>1, EffectAnswers
    <2>3. written = Mapped!With(Mapped!Here(t), Asking[t].id, Asking[t].data)
      BY <1>1, <2>2 DEF Store!Put, Mapped!With
    <2> QED
      BY <1>1, <1>2, <2>2, <2>3 DEF Mapped!Put
  <1>4. CASE Store!Effect(t, here, [ok |-> FALSE])
    <2>1. ResponseFor(request[t], [ok |-> FALSE]) = Mapped!Failed(500)
      <3>1. ~[ok |-> FALSE].ok
        OBVIOUS
      <3>2. ResponseFor(request[t], [ok |-> FALSE]) = Error(500)
        BY <1>1, <3>1, UpdateResponse, ZenonT(60)
      <3> QED
        BY <3>2, SameResponses
    <2>2. Mapped!Answer(t, Mapped!Failed(500)) /\ UNCHANGED objects
      BY <1>4, <2>1, EffectAnswers
    <2> QED
      BY <1>2, <2>2 DEF Mapped!Put
  <1> QED
    BY <1>3, <1>4 DEF Store!Update

LEMMA DeleteImplements ==
    ASSUME IInv, NEW t \in Threads, StoreStep(t), Store!Delete(t)
    PROVE  Mapped!Delete(t)
  <1> DEFINE here == Store!Here(t)
             left == Store!Drop(here, request[t].id)
  <1>1. status[t] = "called" /\ request[t].op = "delete" /\ Asking[t] = request[t]
    BY Seen DEF Store!Delete, Store!Asked
  <1>2. Mapped!Asks(t, "delete")
    BY <1>1 DEF Mapped!Asks
  <1>3. CASE request[t].id \in DOMAIN here /\ Store!Effect(t, left, [ok |-> TRUE])
    <2>1. ResponseFor(request[t], [ok |-> TRUE]) = Mapped!Ok([deleted |-> TRUE])
      <3>1. [ok |-> TRUE].ok
        OBVIOUS
      <3>2. ResponseFor(request[t], [ok |-> TRUE]) = Ok([deleted |-> TRUE])
        BY <1>1, <3>1, DeletionResponse, ZenonT(60)
      <3> QED
        BY <3>2, SameResponses
    <2>2. /\ Mapped!Answer(t, Mapped!Ok([deleted |-> TRUE]))
          /\ Mapped!Becomes(t, left) /\ Mapped!Here(t) = here
      BY <1>3, <2>1, EffectAnswers
    <2>3. left = Mapped!Restrict(Mapped!Here(t), DOMAIN Mapped!Here(t) \ {Asking[t].id})
      BY <1>1, <2>2 DEF Store!Drop, Store!Restrict, Mapped!Restrict
    <2> QED
      BY <1>1, <1>2, <1>3, <2>2, <2>3 DEF Mapped!Delete
  <1>4. CASE Store!Effect(t, here, [ok |-> FALSE])
    <2>1. ResponseFor(request[t], [ok |-> FALSE]) = Mapped!Failed(404)
      <3>1. ~[ok |-> FALSE].ok
        OBVIOUS
      <3>2. ResponseFor(request[t], [ok |-> FALSE]) = Error(404)
        BY <1>1, <3>1, DeletionResponse, ZenonT(60)
      <3> QED
        BY <3>2, SameResponses
    <2>2. Mapped!Answer(t, Mapped!Failed(404)) /\ UNCHANGED objects
      BY <1>4, <2>1, EffectAnswers
    <2> QED
      BY <1>2, <2>2 DEF Mapped!Delete
  <1> QED
    BY <1>3, <1>4 DEF Store!Delete

LEMMA StoreImplements ==
    ASSUME IInv, NEW t \in Threads, StoreStep(t)
    PROVE  Mapped!Next
  <1>1. CASE \E id \in NewIds \cup {-1} :
                reply' = [reply EXCEPT ![t] = [id |-> id]] /\ Store!Create(t)
    <2>1. PICK id \in NewIds \cup {-1} :
              reply' = [reply EXCEPT ![t] = [id |-> id]] /\ Store!Create(t)
      BY <1>1
    <2>2. reply'[t].id \in Int
      BY <2>1, NewIdsAssumption DEF IInv, Typed
    <2> QED
      BY <2>1, <2>2, CreateImplements DEF Mapped!Next
  <1>2. CASE Store!Read(t) \/ Store!Update(t) \/ Store!Delete(t) \/ Store!List(t)
    BY <1>2, ReadImplements, UpdateImplements, DeleteImplements, ListImplements
       DEF Mapped!Next
  <1> QED
    BY <1>1, <1>2 DEF StoreStep

\* Whatever the pool's threads do with the store they share, each response of
\* ApiRequestHandler says what happened at one moment while its request was
\* handled, and a request that is refused changed nothing.
THEOREM Implementation == Spec => ApiImplementsResources
  <1>1. ASSUME IInv, [Next]_vars PROVE [Mapped!Next]_(Mapped!vars)
    <2>1. ASSUME NEW t \in Threads, NEW r \in HttpRequests, HandleRequest(t, r)
          PROVE  Mapped!Next
      BY <1>1, <2>1, HandlerImplements
    <2>2. ASSUME NEW t \in Threads, StoreStep(t) PROVE Mapped!Next
      BY <1>1, <2>2, StoreImplements
    <2>3. ASSUME NEW t \in Threads, Respond(t) PROVE UNCHANGED Mapped!vars
      BY <1>1, <2>3, RespondImplements
    <2>4. ASSUME NEW t \in Threads, Sent(t) PROVE Mapped!Next
      BY <1>1, <2>4, SentImplements DEF Mapped!Next
    <2>5. CASE UNCHANGED vars
      BY <2>5 DEF vars, Mapped!vars, Asking, Answers
    <2> QED
      BY <1>1, <2>1, <2>2, <2>3, <2>4, <2>5 DEF Next
  <1> QED
    BY <1>1, InitImplements, Invariant, PTL DEF Spec, ApiImplementsResources, Mapped!Spec

--------------------------------------------------------------------------------
(* What a request changes                                                     *)

\* What the loop has pushed back after k pieces, from what it had before.
Pushed(path, f, k) ==
    IF k = 0 THEN <<>>
    ELSE CASE path[k] = "/" -> f[k - 1]
           [] path[k] # "/" /\ (k = 1 \/ path[k - 1] = "/") -> Append(f[k - 1], <<path[k]>>)
           [] OTHER -> Append(Front(f[k - 1]), Append(Last(f[k - 1]), path[k]))

IsLoop(parts, f, n) == f = [k \in 0 .. n |-> Pushed(parts, f, k)]

LEMMA PushedFromBefore ==
    ASSUME NEW parts, NEW f, NEW g, NEW k, k = 0 \/ f[k - 1] = g[k - 1]
    PROVE  Pushed(parts, f, k) = Pushed(parts, g, k)
  BY DEF Pushed

LEMMA LoopExists ==
    ASSUME NEW parts, NEW n \in Nat
    PROVE  \E f : IsLoop(parts, f, n)
  <1> DEFINE Without == {m \in Nat : ~\E f : IsLoop(parts, f, m)}
  <1> SUFFICES ASSUME Without # {} PROVE FALSE
    OBVIOUS
  <1>1. PICK m \in Without : \A k \in Without : m <= k
    <2>1. Without \in SUBSET Nat
      OBVIOUS
    <2> HIDE DEF Without
    <2> QED
      BY <2>1, LeastNumber
  <1>2. m \in Nat /\ ~\E f : IsLoop(parts, f, m)
    BY <1>1
  <1>3. PICK f : m = 0 \/ IsLoop(parts, f, m - 1)
    <2>1. m = 0 \/ (m - 1 \in Nat /\ m - 1 \notin Without)
      BY <1>1, <1>2
    <2> QED
      BY <2>1
  <1>4. PICK g : g = [k \in 0 .. m |-> Pushed(parts, f, k)]
    OBVIOUS
  <1>5. ASSUME NEW k \in 0 .. m PROVE Pushed(parts, f, k) = Pushed(parts, g, k)
    <2>1. CASE k = 0
      BY <2>1, PushedFromBefore
    <2>2. CASE k # 0
      <3>1. k - 1 \in 0 .. m /\ k - 1 \in 0 .. m - 1 /\ m # 0
        BY <1>2, <2>2
      <3>2. g[k - 1] = Pushed(parts, f, k - 1)
        BY <1>4, <3>1
      <3>3. f = [j \in 0 .. m - 1 |-> Pushed(parts, f, j)]
        BY <1>3, <3>1 DEF IsLoop
      <3>4. f[k - 1] = Pushed(parts, f, k - 1)
        <4>1. \A h : h = [j \in 0 .. m - 1 |-> Pushed(parts, f, j)] =>
                         h[k - 1] = Pushed(parts, f, k - 1)
          BY <3>1
        <4> QED
          BY <3>3, <4>1
      <3> QED
        BY <3>2, <3>4, PushedFromBefore
    <2> QED
      BY <2>1, <2>2
  <1>6. IsLoop(parts, g, m)
    <2>1. g = [k \in 0 .. m |-> Pushed(parts, g, k)]
      BY <1>4, <1>5
    <2> QED
      BY <2>1 DEF IsLoop
  <1> QED
    BY <1>2, <1>6

\* Where the segments found among the first n pieces begin and end.
Placed(path, n, segments, from, to) ==
    /\ from \in [DOMAIN segments -> 1 .. n] /\ to \in [DOMAIN segments -> 1 .. n]
    /\ \A i \in DOMAIN segments :
          /\ from[i] <= to[i] /\ segments[i] = SubSeq(path, from[i], to[i])
          /\ \A j \in DOMAIN segments : i < j => to[i] + 1 < from[j]
    /\ \A k \in 1 .. n :
          path[k] = "/" <=> ~\E i \in DOMAIN segments : from[i] <= k /\ k <= to[i]

SoFar(S, path, n, segments) ==
    segments \in Seq(Seq(S)) /\ \E from, to : Placed(path, n, segments, from, to)

LEMMA OnePiece ==
    ASSUME NEW S, NEW path \in Seq(S), NEW n \in 1 .. Len(path)
    PROVE  SubSeq(path, n, n) = <<path[n]>>
  <1>1. PICK piece : piece = SubSeq(path, n, n)
    OBVIOUS
  <1>2. piece \in Seq(S) /\ Len(piece) = 1 /\ piece[1] = path[n]
    BY <1>1
  <1>3. piece = <<piece[1]>>
    BY <1>2
  <1> QED
    BY <1>1, <1>2, <1>3

LEMMA OneMorePiece ==
    ASSUME NEW S, NEW path \in Seq(S), NEW n \in 2 .. Len(path), NEW b \in 1 .. n - 1
    PROVE  Append(SubSeq(path, b, n - 1), path[n]) = SubSeq(path, b, n)
  <1>1. PICK short : short = SubSeq(path, b, n - 1)
    OBVIOUS
  <1>2. PICK long : long = SubSeq(path, b, n)
    OBVIOUS
  <1>3. short \in Seq(S) /\ Len(short) = n - b /\ \A i \in 1 .. n - b : short[i] = path[b + i - 1]
    BY <1>1
  <1>4. long \in Seq(S) /\ Len(long) = n - b + 1 /\ \A i \in 1 .. n - b + 1 : long[i] = path[b + i - 1]
    BY <1>2
  <1>5. PICK l \in Nat : l = n - b
    OBVIOUS
  <1>6. PICK both : both = Append(short, path[n])
    OBVIOUS
  <1>7. /\ both \in Seq(S) /\ Len(both) = l + 1 /\ both[l + 1] = path[n]
        /\ \A i \in 1 .. l : both[i] = short[i]
    BY <1>3, <1>5, <1>6
  <1>8. ASSUME NEW i \in 1 .. l + 1 PROVE both[i] = long[i]
    <2>1. long[i] = path[b + i - 1]
      BY <1>4, <1>5
    <2>2. CASE i = l + 1
      BY <1>5, <1>7, <2>1, <2>2
    <2>3. CASE i # l + 1
      <3>1. i \in 1 .. l
        BY <2>3
      <3> QED
        BY <1>3, <1>5, <1>7, <2>1, <3>1
    <2> QED
      BY <2>2, <2>3
  <1>9. DOMAIN both = 1 .. l + 1 /\ DOMAIN long = 1 .. l + 1
    BY <1>4, <1>5, <1>7
  <1>10. both = [i \in 1 .. l + 1 |-> both[i]] /\ long = [i \in 1 .. l + 1 |-> long[i]]
    BY <1>4, <1>7, <1>9
  <1>11. both = long
    BY <1>8, <1>10
  <1> QED
    BY <1>1, <1>2, <1>6, <1>11

LEMMA NothingYet == ASSUME NEW S, NEW path PROVE SoFar(S, path, 0, <<>>)
  <1>1. Placed(path, 0, <<>>, [i \in {} |-> i], [i \in {} |-> i])
    BY DEF Placed
  <1> QED
    BY <1>1 DEF SoFar

LEMMA SlashEnds ==
    ASSUME NEW S, NEW path \in Seq(S), NEW n \in 1 .. Len(path), path[n] = "/",
           NEW segments, SoFar(S, path, n - 1, segments)
    PROVE  SoFar(S, path, n, segments)
  <1>1. PICK from, to : Placed(path, n - 1, segments, from, to)
    BY DEF SoFar
  <1>2. Placed(path, n, segments, from, to)
    <2>1. from \in [DOMAIN segments -> 1 .. n] /\ to \in [DOMAIN segments -> 1 .. n]
      BY <1>1 DEF Placed
    <2>2. ASSUME NEW k \in 1 .. n
          PROVE  path[k] = "/" <=> ~\E i \in DOMAIN segments : from[i] <= k /\ k <= to[i]
      BY <1>1 DEF Placed
    <2> QED
      BY <1>1, <2>1, <2>2 DEF Placed
  <1> QED
    BY <1>2 DEF SoFar

LEMMA SegmentBegins ==
    ASSUME NEW S, NEW path \in Seq(S), NEW n \in 1 .. Len(path), path[n] # "/",
           n = 1 \/ path[n - 1] = "/",
           NEW segments, SoFar(S, path, n - 1, segments)
    PROVE  SoFar(S, path, n, Append(segments, <<path[n]>>))
  <1>1. PICK from, to : Placed(path, n - 1, segments, from, to)
    BY DEF SoFar
  <1>2. PICK m \in Nat : m = Len(segments) /\ DOMAIN segments = 1 .. m
    BY DEF SoFar
  <1>3. PICK more : more = Append(segments, <<path[n]>>)
    OBVIOUS
  <1>4. /\ more \in Seq(Seq(S)) /\ DOMAIN more = 1 .. m + 1 /\ more[m + 1] = <<path[n]>>
        /\ \A i \in 1 .. m : more[i] = segments[i]
    BY <1>2, <1>3 DEF SoFar
  <1>5. PICK begins : begins = [i \in 1 .. m + 1 |-> IF i = m + 1 THEN n ELSE from[i]]
    OBVIOUS
  <1>6. PICK ends : ends = [i \in 1 .. m + 1 |-> IF i = m + 1 THEN n ELSE to[i]]
    OBVIOUS
  <1>7. \A i \in 1 .. m : /\ from[i] \in 1 .. n - 1 /\ to[i] \in 1 .. n - 1 /\ to[i] < n - 1
                          /\ begins[i] = from[i] /\ ends[i] = to[i]
    <2>1. ASSUME NEW i \in 1 .. m PROVE from[i] \in 1 .. n - 1 /\ to[i] \in 1 .. n - 1 /\ from[i] <= to[i]
      BY <1>1, <1>2 DEF Placed
    <2>2. ASSUME NEW i \in 1 .. m, to[i] = n - 1 PROVE FALSE
      <3>1. n - 1 \in 1 .. n - 1 /\ path[n - 1] = "/" /\ from[i] <= n - 1 /\ n - 1 <= to[i]
        BY <2>1, <2>2
      <3> QED
        BY <1>1, <1>2, <3>1 DEF Placed
    <2> QED
      BY <1>5, <1>6, <2>1, <2>2
  <1>8. begins[m + 1] = n /\ ends[m + 1] = n
    BY <1>5, <1>6
  <1>9. Placed(path, n, more, begins, ends)
    <2>1. begins \in [1 .. m + 1 -> 1 .. n] /\ ends \in [1 .. m + 1 -> 1 .. n]
      <3>1. ASSUME NEW i \in 1 .. m + 1 PROVE begins[i] \in 1 .. n /\ ends[i] \in 1 .. n
        <4>1. i = m + 1 \/ i \in 1 .. m
          OBVIOUS
        <4> QED
          BY <1>7, <1>8, <4>1
      <3> QED
        BY <1>5, <1>6, <3>1
    <2>2. ASSUME NEW i \in 1 .. m + 1
          PROVE  begins[i] <= ends[i] /\ more[i] = SubSeq(path, begins[i], ends[i])
      <3>1. CASE i = m + 1
        <4>1. SubSeq(path, n, n) = <<path[n]>>
          BY OnePiece
        <4>2. more[i] = <<path[n]>> /\ begins[i] = n /\ ends[i] = n
          BY <1>4, <1>8, <3>1
        <4>3. n <= n
          OBVIOUS
        <4> QED
          BY <3>1, <4>1, <4>2, <4>3
      <3>2. CASE i # m + 1
        <4>1. i \in 1 .. m
          BY <3>2
        <4>2. from[i] <= to[i] /\ segments[i] = SubSeq(path, from[i], to[i])
          BY <1>1, <1>2, <4>1 DEF Placed
        <4> QED
          BY <1>4, <1>7, <4>1, <4>2
      <3> QED
        BY <3>1, <3>2
    <2>3. ASSUME NEW i \in 1 .. m + 1, NEW j \in 1 .. m + 1, i < j PROVE ends[i] + 1 < begins[j]
      <3>1. i \in 1 .. m
        BY <2>3
      <3>2. CASE j = m + 1
        BY <1>7, <1>8, <3>1, <3>2
      <3>3. CASE j # m + 1
        <4>1. j \in 1 .. m
          BY <3>3
        <4>2. to[i] + 1 < from[j]
          BY <1>1, <1>2, <2>3, <3>1, <4>1 DEF Placed
        <4> QED
          BY <1>7, <3>1, <4>1, <4>2
      <3> QED
        BY <3>2, <3>3
    <2>4. ASSUME NEW k \in 1 .. n
          PROVE  path[k] = "/" <=> ~\E i \in 1 .. m + 1 : begins[i] <= k /\ k <= ends[i]
      <3>1. CASE k = n
        <4>1. m + 1 \in 1 .. m + 1 /\ begins[m + 1] <= k /\ k <= ends[m + 1]
          BY <1>8, <3>1
        <4> QED
          BY <3>1, <4>1
      <3>2. CASE k # n
        <4>1. k \in 1 .. n - 1
          BY <3>2
        <4>2. path[k] = "/" <=> ~\E i \in 1 .. m : from[i] <= k /\ k <= to[i]
          BY <1>1, <1>2, <4>1 DEF Placed
        <4>3. (\E i \in 1 .. m : from[i] <= k /\ k <= to[i])
                 <=> \E i \in 1 .. m + 1 : begins[i] <= k /\ k <= ends[i]
          <5>1. ASSUME NEW i \in 1 .. m + 1, begins[i] <= k, k <= ends[i] PROVE i \in 1 .. m
            BY <1>8, <4>1, <5>1
          <5>2. \A i \in 1 .. m : i \in 1 .. m + 1
            OBVIOUS
          <5> QED
            BY <1>7, <5>1, <5>2
        <4> QED
          BY <4>2, <4>3
      <3> QED
        BY <3>1, <3>2
    <2> QED
      BY <1>4, <2>1, <2>2, <2>3, <2>4 DEF Placed
  <1> QED
    BY <1>3, <1>4, <1>9 DEF SoFar

LEMMA SegmentGoesOn ==
    ASSUME NEW S, NEW path \in Seq(S), NEW n \in 2 .. Len(path), path[n] # "/",
           path[n - 1] # "/",
           NEW segments, SoFar(S, path, n - 1, segments)
    PROVE  SoFar(S, path, n, Append(Front(segments), Append(Last(segments), path[n])))
  <1>1. PICK from, to : Placed(path, n - 1, segments, from, to)
    BY DEF SoFar
  <1>2. PICK m \in Nat : m = Len(segments) /\ DOMAIN segments = 1 .. m
    BY DEF SoFar
  <1>3. /\ from \in [1 .. m -> 1 .. n - 1] /\ to \in [1 .. m -> 1 .. n - 1]
        /\ \A i \in 1 .. m : /\ from[i] \in 1 .. n - 1 /\ to[i] \in 1 .. n - 1 /\ from[i] <= to[i]
                             /\ segments[i] = SubSeq(path, from[i], to[i])
        /\ \A i, j \in 1 .. m : i < j => to[i] + 1 < from[j]
        /\ \A k \in 1 .. n - 1 :
              path[k] = "/" <=> ~\E i \in 1 .. m : from[i] <= k /\ k <= to[i]
    <2>1. from \in [1 .. m -> 1 .. n - 1] /\ to \in [1 .. m -> 1 .. n - 1]
      BY <1>1, <1>2 DEF Placed
    <2>2. ASSUME NEW i \in 1 .. m
          PROVE  from[i] <= to[i] /\ segments[i] = SubSeq(path, from[i], to[i])
      BY <1>1, <1>2 DEF Placed
    <2>3. ASSUME NEW i \in 1 .. m, NEW j \in 1 .. m, i < j PROVE to[i] + 1 < from[j]
      BY <1>1, <1>2, <2>3 DEF Placed
    <2>4. ASSUME NEW k \in 1 .. n - 1
          PROVE  path[k] = "/" <=> ~\E i \in 1 .. m : from[i] <= k /\ k <= to[i]
      BY <1>1, <1>2 DEF Placed
    <2> QED
      BY <2>1, <2>2, <2>3, <2>4
  <1>4. m > 0 /\ to[m] = n - 1
    <2>1. n - 1 \in 1 .. n - 1
      OBVIOUS
    <2>2. PICK i \in 1 .. m : from[i] <= n - 1 /\ n - 1 <= to[i]
      BY <1>3, <2>1
    <2>3. m \in 1 .. m /\ from[m] \in 1 .. n - 1 /\ to[i] \in 1 .. n - 1
      BY <1>3, <2>1, <2>2
    <2>4. to[i] = n - 1
      BY <2>2, <2>3
    <2>5. ~(i < m)
      <3>1. ASSUME i < m PROVE to[i] + 1 < from[m]
        BY <1>3, <2>1, <2>3, <3>1
      <3> QED
        BY <2>3, <2>4, <3>1
    <2> QED
      BY <2>2, <2>4, <2>5
  <1>5. PICK longer : longer = Append(segments[m], path[n])
    OBVIOUS
  <1>6. PICK more : more = Append(Front(segments), Append(Last(segments), path[n]))
    OBVIOUS
  <1>7. /\ more \in Seq(Seq(S)) /\ DOMAIN more = 1 .. m /\ more[m] = longer
        /\ \A i \in 1 .. m - 1 : more[i] = segments[i]
    <2>1. PICK front : front = SubSeq(segments, 1, m - 1)
      OBVIOUS
    <2>2. /\ front \in Seq(Seq(S)) /\ Len(front) = m - 1
          /\ \A i \in 1 .. m - 1 : front[i] = segments[i]
      BY <1>2, <1>4, <2>1 DEF SoFar
    <2>3. segments[m] \in Seq(S) /\ path[n] \in S
      BY <1>2, <1>4 DEF SoFar
    <2>4. longer \in Seq(S)
      BY <1>5, <2>3
    <2>5. more = Append(front, longer)
      BY <1>2, <1>5, <1>6, <2>1 DEF Front, Last
    <2> QED
      BY <1>4, <2>2, <2>4, <2>5
  <1>8. PICK ends : ends = [i \in 1 .. m |-> IF i = m THEN n ELSE to[i]]
    OBVIOUS
  <1>9. /\ ends[m] = n /\ \A i \in 1 .. m - 1 : ends[i] = to[i]
        /\ \A i \in 1 .. m : from[i] \in 1 .. n - 1 /\ to[i] \in 1 .. n - 1 /\ from[i] <= to[i]
    <2>1. n - 1 \in Nat
      OBVIOUS
    <2>2. \A i \in 1 .. m : from[i] \in 1 .. n - 1 /\ to[i] \in 1 .. n - 1 /\ from[i] <= to[i]
      BY <1>3, <2>1
    <2>3. ends[m] = n /\ \A i \in 1 .. m - 1 : ends[i] = to[i]
      BY <1>2, <1>4, <1>8
    <2> QED
      BY <2>2, <2>3
  <1>10. Placed(path, n, more, from, ends)
    <2>1. from \in [1 .. m -> 1 .. n] /\ ends \in [1 .. m -> 1 .. n]
      <3>1. from \in [1 .. m -> 1 .. n]
        BY <1>3 DEF Placed
      <3>2. \A i \in 1 .. m : ends[i] \in 1 .. n
        BY <1>4, <1>8, <1>9
      <3> QED
        BY <1>8, <3>1, <3>2
    <2>2. ASSUME NEW i \in 1 .. m
          PROVE  from[i] <= ends[i] /\ more[i] = SubSeq(path, from[i], ends[i])
      <3>1. CASE i = m
        <4>1. segments[m] = SubSeq(path, from[m], n - 1)
          <5>1. n - 1 \in Nat /\ m \in 1 .. m
            BY <1>4
          <5>2. segments[m] = SubSeq(path, from[m], to[m])
            BY <1>3, <5>1
          <5> QED
            BY <1>4, <5>2
        <4>2. PICK b \in 1 .. n - 1 : b = from[m]
          BY <1>9, <3>1
        <4>3. Append(SubSeq(path, b, n - 1), path[n]) = SubSeq(path, b, n)
          BY <4>2, OneMorePiece
        <4>4. more[m] = SubSeq(path, b, n)
          BY <1>5, <1>7, <4>1, <4>2, <4>3
        <4> QED
          <5>1. from[i] = b /\ ends[i] = n /\ more[i] = more[m]
            BY <1>9, <3>1, <4>2
          <5>2. b <= n
            BY <4>2
          <5> QED
            BY <4>4, <5>1, <5>2
      <3>2. CASE i # m
        <4>1. i \in 1 .. m - 1
          BY <3>2
        <4>2. segments[i] = SubSeq(path, from[i], to[i])
          BY <1>3 DEF Placed
        <4> QED
          BY <1>7, <1>9, <4>1, <4>2
      <3> QED
        BY <3>1, <3>2
    <2>3. ASSUME NEW i \in 1 .. m, NEW j \in 1 .. m, i < j PROVE ends[i] + 1 < from[j]
      <3>1. i \in 1 .. m - 1
        BY <2>3
      <3>2. to[i] + 1 < from[j]
        BY <1>3, <2>3 DEF Placed
      <3> QED
        BY <1>9, <3>1, <3>2
    <2>4. ASSUME NEW k \in 1 .. n
          PROVE  path[k] = "/" <=> ~\E i \in 1 .. m : from[i] <= k /\ k <= ends[i]
      <3>1. CASE k = n
        <4>1. m \in 1 .. m /\ from[m] <= k /\ k <= ends[m]
          BY <1>4, <1>9, <3>1
        <4> QED
          BY <3>1, <4>1
      <3>2. CASE k # n
        <4>1. k \in 1 .. n - 1
          BY <3>2
        <4>2. path[k] = "/" <=> ~\E i \in 1 .. m : from[i] <= k /\ k <= to[i]
          BY <1>3, <4>1 DEF Placed
        <4>3. \A i \in 1 .. m : k <= to[i] <=> k <= ends[i]
          BY <1>4, <1>8, <4>1
        <4> QED
          BY <4>2, <4>3
      <3> QED
        BY <3>1, <3>2
    <2> QED
      BY <1>7, <2>1, <2>2, <2>3, <2>4 DEF Placed
  <1> QED
    BY <1>6, <1>7, <1>10 DEF SoFar

\* The loop finds the segments of a path one after the other.
LEMMA SegmentsFound ==
    ASSUME NEW S, NEW path \in Seq(S)
    PROVE  SoFar(S, path, Len(path), Segments(path))
  <1>1. PICK l \in Nat : l = Len(path)
    OBVIOUS
  <1>2. PICK f : IsLoop(path, f, l) /\ Segments(path) = f[l]
    <2>1. Segments(path) = (CHOOSE f : IsLoop(path, f, l))[l]
      <3>1. Segments(path) = (CHOOSE f : IsLoop(path, f, Len(path)))[Len(path)]
        BY DEF Segments, IsLoop, Pushed
      <3> QED
        BY <1>1, <3>1
    <2>2. IsLoop(path, CHOOSE f : IsLoop(path, f, l), l)
      BY <1>1, LoopExists
    <2> QED
      BY <2>1, <2>2
  <1>3. \A n \in 0 .. l : f[n] = Pushed(path, f, n)
    <2>1. \A h : h = [j \in 0 .. l |-> Pushed(path, f, j)] =>
                     \A n \in 0 .. l : h[n] = Pushed(path, f, n)
      OBVIOUS
    <2> QED
      BY <1>2, <2>1 DEF IsLoop
  <1>4. ASSUME NEW n \in 0 .. l, ~SoFar(S, path, n, f[n]) PROVE FALSE
    <2> DEFINE Wrong == {k \in 0 .. l : ~SoFar(S, path, k, f[k])}
    <2>1. PICK m \in Wrong : \A k \in Wrong : m <= k
      <3>1. Wrong \in SUBSET Nat /\ Wrong # {}
        BY <1>1, <1>4
      <3> HIDE DEF Wrong
      <3> QED
        BY <3>1, LeastNumber
    <2>2. m \in 0 .. l /\ ~SoFar(S, path, m, f[m]) /\ f[m] = Pushed(path, f, m)
      BY <1>3, <2>1
    <2>3. m # 0
      <3>1. Pushed(path, f, 0) = <<>>
        BY DEF Pushed
      <3>2. SoFar(S, path, 0, <<>>)
        BY NothingYet
      <3> QED
        BY <2>2, <3>1, <3>2
    <2>4. m - 1 \in 0 .. l /\ m - 1 \notin Wrong /\ m \in 1 .. Len(path)
      BY <1>1, <2>1, <2>2, <2>3
    <2>5. PICK before : before = f[m - 1] /\ SoFar(S, path, m - 1, before)
      BY <2>4
    <2>6. CASE path[m] = "/"
      <3>1. SoFar(S, path, m, before)
        BY <2>4, <2>5, <2>6, SlashEnds
      <3>2. f[m] = before
        BY <2>2, <2>3, <2>5, <2>6 DEF Pushed
      <3> QED
        BY <2>2, <3>1, <3>2
    <2>7. CASE path[m] # "/" /\ (m = 1 \/ path[m - 1] = "/")
      <3>1. SoFar(S, path, m, Append(before, <<path[m]>>))
        BY <2>4, <2>5, <2>7, SegmentBegins
      <3>2. f[m] = Append(before, <<path[m]>>)
        BY <2>2, <2>3, <2>5, <2>7 DEF Pushed
      <3> QED
        BY <2>2, <3>1, <3>2
    <2>8. CASE path[m] # "/" /\ m # 1 /\ path[m - 1] # "/"
      <3>1. m \in 2 .. Len(path)
        BY <2>4, <2>8
      <3>2. SoFar(S, path, m, Append(Front(before), Append(Last(before), path[m])))
        BY <2>5, <2>8, <3>1, SegmentGoesOn
      <3>3. f[m] = Append(Front(before), Append(Last(before), path[m]))
        BY <2>2, <2>3, <2>5, <2>8 DEF Pushed
      <3> QED
        BY <2>2, <3>2, <3>3
    <2> QED
      BY <2>6, <2>7, <2>8
  <1> QED
    BY <1>1, <1>2, <1>4

LEMMA SegmentsSpell ==
    ASSUME NEW S, NEW path \in Seq(S)
    PROVE  Segments(path) \in Seq(Seq(S)) /\ Spells(path, Segments(path))
  <1>1. PICK segments : segments = Segments(path)
    OBVIOUS
  <1>2. PICK from, to : Placed(path, Len(path), segments, from, to)
    BY <1>1, SegmentsFound DEF SoFar
  <1>3. DOMAIN path = 1 .. Len(path)
    OBVIOUS
  <1>4. Spells(path, segments)
    BY <1>2, <1>3 DEF Placed, Spells
  <1> QED
    BY <1>1, <1>4, SegmentsFound DEF SoFar

\* The prefix of a path, piece by piece.
LEMMA PrefixMeans ==
    ASSUME NEW S, NEW s \in Seq(S), NEW t \in Seq(S)
    PROVE  IsPrefix(s, t) <=> Len(s) <= Len(t) /\ \A i \in 1 .. Len(s) : s[i] = t[i]
  <1>1. SUFFICES ASSUME Len(s) <= Len(t)
                 PROVE  SubSeq(t, 1, Len(s)) = s <=> \A i \in 1 .. Len(s) : s[i] = t[i]
    BY SubSeqFull DEF IsPrefix
  <1>2. PICK begin : begin = SubSeq(t, 1, Len(s))
    OBVIOUS
  <1>3. /\ begin \in Seq(S) /\ Len(begin) = Len(s)
        /\ \A i \in 1 .. Len(s) : begin[i] = t[i]
    BY <1>1, <1>2
  <1>4. (\A i \in 1 .. Len(s) : begin[i] = s[i]) => begin = s
    BY <1>3, SeqEqual
  <1> QED
    BY <1>2, <1>3, <1>4

LEMMA PrefixEnds ==
    ASSUME NEW S, NEW path \in Seq(S), url_prefix_ \in Seq(S), "/" \in S
    PROVE  /\ HasPrefix(path) <=> \/ path = url_prefix_
                                  \/ IsPrefix(url_prefix_ \o <<"/">>, path)
           /\ HasPrefix(path) =>
                  LET rest == SubSeq(path, Len(url_prefix_) + 1, Len(path))
                  IN  rest \in Seq(S) /\ rest \in Suffixes(path) /\ path = url_prefix_ \o rest
  <1>1. PICK q \in Nat, l \in Nat : q = Len(url_prefix_) /\ l = Len(path)
    OBVIOUS
  <1>2. PICK longer : longer = url_prefix_ \o <<"/">>
    OBVIOUS
  <1>3. /\ longer \in Seq(S) /\ Len(longer) = q + 1 /\ longer[q + 1] = "/"
        /\ \A i \in 1 .. q : longer[i] = url_prefix_[i]
    <2>1. longer = Append(url_prefix_, "/")
      BY <1>2, AppendIsConcat
    <2> QED
      BY <1>1, <2>1
  <1>4. IsPrefix(url_prefix_, path) <=> q <= l /\ \A i \in 1 .. q : url_prefix_[i] = path[i]
    BY <1>1, PrefixMeans
  <1>5. IsPrefix(longer, path) <=> q + 1 <= l /\ \A i \in 1 .. q + 1 : longer[i] = path[i]
    BY <1>1, <1>3, PrefixMeans
  <1>6. path = url_prefix_ <=> q = l /\ \A i \in 1 .. q : url_prefix_[i] = path[i]
    BY <1>1, SeqEqual
  <1>7. HasPrefix(path) <=> IsPrefix(url_prefix_, path) /\ (l = q \/ path[q + 1] = "/")
    BY <1>1 DEF HasPrefix
  <1>8. IsPrefix(longer, path)
            <=> q + 1 <= l /\ path[q + 1] = "/" /\ \A i \in 1 .. q : url_prefix_[i] = path[i]
    <2>1. \A i \in 1 .. q + 1 : i = q + 1 \/ i \in 1 .. q
      OBVIOUS
    <2>2. q + 1 \in 1 .. q + 1 /\ \A i \in 1 .. q : i \in 1 .. q + 1
      OBVIOUS
    <2> QED
      BY <1>3, <1>5, <2>1, <2>2
  <1>9. HasPrefix(path) <=> path = url_prefix_ \/ IsPrefix(longer, path)
    <2>1. q <= l <=> q = l \/ q + 1 <= l
      OBVIOUS
    <2> QED
      BY <1>4, <1>6, <1>7, <1>8, <2>1
  <1>10. ASSUME HasPrefix(path)
         PROVE  LET rest == SubSeq(path, Len(url_prefix_) + 1, Len(path))
                IN  rest \in Seq(S) /\ rest \in Suffixes(path) /\ path = url_prefix_ \o rest
    <2>1. PICK rest : rest = SubSeq(path, q + 1, l)
      OBVIOUS
    <2>2. q \in 0 .. l /\ IsPrefix(url_prefix_, path)
      BY <1>4, <1>7, <1>10
    <2>3. rest \in Seq(S)
      BY <1>1, <2>1, <2>2
    <2>4. rest \in Suffixes(path)
      <3>1. CASE q = l
        <4>1. rest = <<>>
          BY <2>1, <3>1, SubSeqEmpty
        <4> QED
          BY <4>1 DEF Suffixes
      <3>2. CASE q # l
        <4>1. q + 1 \in 1 .. Len(path)
          BY <1>1, <2>2, <3>2
        <4> QED
          BY <1>1, <2>1, <4>1 DEF Suffixes
      <3> QED
        BY <3>1, <3>2
    <2>5. path = url_prefix_ \o rest
      <3>1. SubSeq(path, 1, q) = url_prefix_
        BY <1>1, <2>2, SubSeqFull DEF IsPrefix
      <3>2. SubSeq(path, 1, q) \o SubSeq(path, q + 1, l) = SubSeq(path, 1, l)
        <4>1. 1 \in 1 .. Len(path) + 1 /\ q \in 1 - 1 .. Len(path) /\ l \in q .. Len(path)
          BY <1>1, <2>2
        <4> QED
          BY <4>1, ConcatAdjacentSubSeq
      <3>3. SubSeq(path, 1, l) = path
        BY <1>1, SubSeqFull
      <3> QED
        BY <2>1, <3>1, <3>2, <3>3
    <2> QED
      BY <1>1, <2>1, <2>3, <2>4, <2>5
  <1> QED
    BY <1>2, <1>9, <1>10

\* What is before the query of a url.
LEMMA BeforeQueryMeans ==
    ASSUME NEW S, NEW url \in Seq(S)
    PROVE  \E n \in 0 .. Len(url) :
               /\ BeforeQuery(url) = SubSeq(url, 1, n) /\ BeforeQuery(url) \in Seq(S)
               /\ n = Len(url) \/ url[n + 1] = "?"
               /\ \A k \in 1 .. n : url[k] # "?"
  <1>1. CASE "?" \in ToSet(url)
    <2> DEFINE I == {n \in 1 .. Len(url) : url[n] = "?"}
    <2>1. I \in SUBSET Nat /\ I # {}
      <3>1. PICK n \in DOMAIN url : url[n] = "?"
        BY <1>1 DEF ToSet
      <3>2. n \in 1 .. Len(url)
        BY <3>1
      <3> QED
        BY <3>1, <3>2
    <2>2. SelectInSeq(url, LAMBDA s : s = "?") = Min(I)
      BY <2>1 DEF SelectInSeq
    <2>3. PICK m \in I : m = Min(I) /\ \A n \in I : m <= n
      <3> HIDE DEF I
      <3>1. \E m \in I : \A n \in I : m <= n
        BY <2>1, LeastNumber
      <3> QED
        BY <3>1 DEF Min
    <2>4. PICK k \in 0 .. Len(url) : k = m - 1
      <3>1. m - 1 \in 0 .. Len(url)
        BY <2>3
      <3> QED
        BY <3>1
    <2>5. BeforeQuery(url) = SubSeq(url, 1, k)
      BY <1>1, <2>2, <2>3, <2>4 DEF BeforeQuery
    <2>6. SubSeq(url, 1, k) \in Seq(S)
      OBVIOUS
    <2>7. url[k + 1] = "?"
      BY <2>3, <2>4
    <2>8. ASSUME NEW n \in 1 .. k, url[n] = "?" PROVE FALSE
      <3>1. n \in I /\ n < m
        BY <2>4, <2>8
      <3> QED
        BY <2>3, <3>1
    <2> QED
      BY <2>5, <2>6, <2>7, <2>8
  <1>2. CASE "?" \notin ToSet(url)
    <2>1. BeforeQuery(url) = url /\ SubSeq(url, 1, Len(url)) = url
      BY <1>2, SubSeqFull DEF BeforeQuery
    <2>2. ASSUME NEW k \in 1 .. Len(url) PROVE url[k] # "?"
      BY <1>2 DEF ToSet
    <2>3. Len(url) \in 0 .. Len(url)
      OBVIOUS
    <2> QED
      BY <2>1, <2>2, <2>3
  <1> QED
    BY <1>1, <1>2

\* The segments the handler finds in a url are those that the url names.
LEMMA SegmentsAreNamed ==
    ASSUME NEW r \in HttpRequests
    PROVE  /\ \E T : ExtractSegments(r.url) \in Seq(T)
           /\ Names(r.url, ExtractSegments(r.url))
  <1>1. PICK S : S = ToSet(r.url) \cup ToSet(url_prefix_) \cup {"/"}
    OBVIOUS
  <1>2. PICK url \in Seq(S) : url = r.url
    BY <1>1, HttpRequestsAssumption, SeqMonotonic
  <1>3. url_prefix_ \in Seq(S) /\ "/" \in S
    BY <1>1, HttpRequestsAssumption, SeqMonotonic
  <1>4. PICK path \in Seq(S), n \in 0 .. Len(url) :
            /\ path = BeforeQuery(url) /\ path = SubSeq(url, 1, n)
            /\ n = Len(url) \/ url[n + 1] = "?"
            /\ \A k \in 1 .. n : url[k] # "?"
    BY BeforeQueryMeans
  <1>5. CASE HasPrefix(path)
    <2>1. PICK rest \in Seq(S) : /\ rest = SubSeq(path, Len(url_prefix_) + 1, Len(path))
                                 /\ rest \in Suffixes(path) /\ path = url_prefix_ \o rest
      BY <1>3, <1>5, PrefixEnds
    <2>2. ExtractSegments(url) = Segments(rest)
      BY <1>4, <1>5, <2>1 DEF ExtractSegments
    <2>3. Segments(rest) \in Seq(Seq(S)) /\ Spells(rest, Segments(rest))
      BY SegmentsSpell
    <2>4. path = url_prefix_ \/ IsPrefix(url_prefix_ \o <<"/">>, path)
      BY <1>3, <1>5, PrefixEnds
    <2>5. Names(url, ExtractSegments(url))
      BY <1>4, <2>1, <2>2, <2>3, <2>4, Zenon DEF Names
    <2> QED
      BY <1>2, <2>2, <2>3, <2>5
  <1>6. CASE ~HasPrefix(path)
    <2>1. ExtractSegments(url) = Segments(path)
      BY <1>4, <1>6 DEF ExtractSegments
    <2>2. Segments(path) \in Seq(Seq(S)) /\ Spells(path, Segments(path))
      BY SegmentsSpell
    <2>3. ~(path = url_prefix_ \/ IsPrefix(url_prefix_ \o <<"/">>, path))
      BY <1>3, <1>6, PrefixEnds
    <2>4. Names(url, ExtractSegments(url))
      BY <1>4, <2>1, <2>2, <2>3, Zenon DEF Names
    <2> QED
      BY <1>2, <2>1, <2>2, <2>4
  <1> QED
    BY <1>5, <1>6

\* What a call may change is named in the request, and so is what becomes of it.
SaysCreate(r, call) ==
    r.method = "POST" /\ Names(r.url, <<call.entity_name>>) /\ call.data = r.body

SaysChange(r, call) ==
    /\ r.method = IF call.op = "update" THEN "PUT" ELSE "DELETE"
    /\ call.op = "update" => call.data = r.body
    /\ \E s \in DOMAIN Number : /\ call.id = AsInt(Number[s])
                                /\ Names(r.url, <<call.entity_name, s>>)

Says(r, call) ==
    /\ call.op = "create" => SaysCreate(r, call)
    /\ call.op \in {"update", "delete"} => SaysChange(r, call)

NamedInv == \A t \in Threads : status[t] = "called" => Says(http[t], request[t])

LEMMA HandlerNames ==
    ASSUME NEW t \in Threads, NEW r \in HttpRequests, HandleRequest(t, r)
    PROVE  \/ \E code \in {400, 405} : Reject(t, code)
           \/ \E call : CallStore(t, call) /\ Says(r, call)
  <1> DEFINE refused == \E code \in {400, 405} : Reject(t, code)
             called == \E call : CallStore(t, call) /\ Says(r, call)
  <1>1. PICK T : ExtractSegments(r.url) \in Seq(T)
    BY SegmentsAreNamed
  <1>2. PICK segments \in Seq(T) : segments = ExtractSegments(r.url) /\ Names(r.url, segments)
    BY <1>1, SegmentsAreNamed
  <1>3. CASE ~(segments # <<>> /\ IsValidEntityName(segments[1]))
    <2>1. Reject(t, 400)
      BY <1>2, <1>3 DEF HandleRequest
    <2> QED
      BY <2>1
  <1>4. CASE segments # <<>>
    <2>1. PICK name : name = segments[1]
      OBVIOUS
    <2>2. Len(segments) = 1 => segments = <<name>>
      BY <2>1
    <2>3. Len(segments) = 2 => segments = <<name, segments[2]>>
      BY <2>1
    <2>4. CASE r.method = "POST" /\ HandlePost(t, r, segments)
      <3>1. PICK call : call = [op |-> "create", entity_name |-> name, data |-> r.body]
        OBVIOUS
      <3>2. Reject(t, 400) \/ (Len(segments) = 1 /\ CallStore(t, call))
        BY <2>1, <2>4, <3>1 DEF HandlePost
      <3>3. ASSUME Len(segments) = 1 PROVE Says(r, call)
        <4>1. /\ call.op = "create" /\ call.entity_name = name /\ call.data = r.body
              /\ call.op \notin {"update", "delete"}
          BY <3>1
        <4>2. Names(r.url, <<name>>)
          BY <1>2, <2>2, <3>3
        <4> QED
          BY <2>4, <4>1, <4>2 DEF Says, SaysCreate
      <3> QED
        BY <3>2, <3>3
    <2>5. CASE HandleGet(t, segments)
      <3>1. \/ Reject(t, 400)
            \/ CallStore(t, [op |-> "list", entity_name |-> name])
            \/ CallStore(t, [op |-> "read", entity_name |-> name,
                             id |-> AsInt(Number[segments[2]])])
        BY <2>1, <2>5 DEF HandleGet
      <3>2. /\ Says(r, [op |-> "list", entity_name |-> name])
            /\ \A id : Says(r, [op |-> "read", entity_name |-> name, id |-> id])
        BY DEF Says
      <3> QED
        BY <3>1, <3>2
    <2>6. CASE r.method = "PUT" /\ HandlePut(t, r, segments)
      <3>1. PICK call : call = [op |-> "update", entity_name |-> name,
                                id |-> AsInt(Number[segments[2]]), data |-> r.body]
        OBVIOUS
      <3>2. \/ Reject(t, 400)
            \/ Len(segments) = 2 /\ segments[2] \in DOMAIN Number /\ CallStore(t, call)
        BY <2>1, <2>6, <3>1 DEF HandlePut, NamesObject, IsNumber
      <3>3. ASSUME Len(segments) = 2, segments[2] \in DOMAIN Number PROVE Says(r, call)
        <4>1. /\ call.op = "update" /\ call.entity_name = name /\ call.data = r.body
              /\ call.id = AsInt(Number[segments[2]])
          BY <3>1
        <4>2. Names(r.url, <<name, segments[2]>>)
          BY <1>2, <2>3, <3>3
        <4> QED
          BY <2>6, <3>3, <4>1, <4>2 DEF Says, SaysChange
      <3> QED
        BY <3>2, <3>3
    <2>7. CASE r.method = "DELETE" /\ HandleDelete(t, segments)
      <3>1. PICK call : call = [op |-> "delete", entity_name |-> name,
                                id |-> AsInt(Number[segments[2]])]
        OBVIOUS
      <3>2. \/ Reject(t, 400)
            \/ Len(segments) = 2 /\ segments[2] \in DOMAIN Number /\ CallStore(t, call)
        BY <2>1, <2>7, <3>1 DEF HandleDelete, NamesObject, IsNumber
      <3>3. ASSUME Len(segments) = 2, segments[2] \in DOMAIN Number PROVE Says(r, call)
        <4>1. /\ call.op = "delete" /\ call.entity_name = name
              /\ call.id = AsInt(Number[segments[2]])
          BY <3>1
        <4>2. Names(r.url, <<name, segments[2]>>)
          BY <1>2, <2>3, <3>3
        <4> QED
          BY <2>7, <3>3, <4>1, <4>2 DEF Says, SaysChange
      <3> QED
        BY <3>2, <3>3
    <2>8. \/ refused
          \/ r.method = "POST" /\ HandlePost(t, r, segments)
          \/ HandleGet(t, segments)
          \/ r.method = "PUT" /\ HandlePut(t, r, segments)
          \/ r.method = "DELETE" /\ HandleDelete(t, segments)
      BY <1>2 DEF HandleRequest
    <2> QED
      BY <2>4, <2>5, <2>6, <2>7, <2>8
  <1> QED
    BY <1>3, <1>4

LEMMA NamedStays ==
    ASSUME IInv, NamedInv, [Next]_vars PROVE NamedInv'
  <1>1. /\ DOMAIN status = Threads /\ DOMAIN request = Threads /\ DOMAIN http = Threads
        /\ \A u \in Threads : status[u] = "called" => Says(http[u], request[u])
    BY DEF IInv, Typed, NamedInv
  <1>2. ASSUME NEW t \in Threads, NEW r \in HttpRequests, HandleRequest(t, r) PROVE NamedInv'
    <2>1. http' = [http EXCEPT ![t] = r]
      BY <1>2 DEF HandleRequest
    <2>2. ASSUME NEW code, Reject(t, code) PROVE NamedInv'
      BY <1>1, <2>1, <2>2 DEF Reject, NamedInv
    <2>3. ASSUME NEW call, CallStore(t, call), Says(r, call) PROVE NamedInv'
      <3>1. request' = [request EXCEPT ![t] = call] /\ status' = [status EXCEPT ![t] = "called"]
        BY <2>3 DEF CallStore, Store!Call
      <3>2. ASSUME NEW u \in Threads, status'[u] = "called" PROVE Says(http'[u], request'[u])
        BY <1>1, <2>1, <2>3, <3>1, <3>2
      <3> QED
        BY <3>2 DEF NamedInv, Says
    <2> QED
      BY <1>2, <2>2, <2>3, HandlerNames
  <1>3. ASSUME NEW t \in Threads, StoreStep(t) \/ Respond(t) \/ Sent(t) PROVE NamedInv'
    <2>1. \A u \in Threads : status'[u] = "called" =>
              status[u] = "called" /\ request'[u] = request[u] /\ http'[u] = http[u]
      <3>1. CASE StoreStep(t)
        <4>1. PICK objs, r : Takes(t, objs, r)
          BY <3>1, StoreActs
        <4> QED
          BY <1>1, <3>1, <4>1, StoreActs DEF Takes, Store!Effect
      <3>2. CASE Respond(t)
        BY <1>1, <3>2 DEF Respond, Store!Return
      <3>3. CASE Sent(t)
        BY <1>1, <3>3, SentKeeps DEF Sent
      <3> QED
        BY <1>3, <3>1, <3>2, <3>3
    <2> QED
      BY <1>1, <2>1 DEF NamedInv, Says
  <1>4. CASE UNCHANGED vars
    BY <1>4 DEF vars, NamedInv, Says
  <1> QED
    BY <1>2, <1>3, <1>4 DEF Next

\* What the store changes is the object of the request.
LEMMA ChangesRequested ==
    ASSUME IInv, NEW t \in Threads, StoreStep(t),
           NEW e \in Entities, NEW id \in DOMAIN objects[e] \cup DOMAIN objects'[e],
           id \in DOMAIN objects[e] /\ id \in DOMAIN objects'[e] =>
               objects[e][id] # objects'[e][id]
    PROVE  /\ status[t] = "called" /\ status'[t] = "replied" /\ e = request[t].entity_name
           /\ \/ /\ request[t].op = "create" /\ id \notin DOMAIN objects[e]
                 /\ id \in DOMAIN objects'[e] /\ objects'[e][id] = request[t].data
              \/ /\ request[t].op = "update" /\ id = request[t].id
                 /\ id \in DOMAIN objects'[e] /\ objects'[e][id] = request[t].data
              \/ /\ request[t].op = "delete" /\ id = request[t].id
                 /\ id \notin DOMAIN objects'[e]
  <1>1. status[t] = "called" /\ request[t].entity_name \in Entities
    BY StoreActs, RequestsAreProper
  <1>2. PICK here, data, name : /\ here = objects[name] /\ here = Store!Here(t)
                                /\ name = request[t].entity_name /\ data = request[t].data
    BY DEF Store!Here
  <1>3. ASSUME NEW objs, NEW r, Store!Effect(t, objs, r)
        PROVE  /\ status'[t] = "replied" /\ e = name /\ objects[e] = here /\ objects'[e] = objs
               /\ objs # here
    <2>1. objects' = [objects EXCEPT ![name] = objs] /\ status' = [status EXCEPT ![t] = "replied"]
      BY <1>2, <1>3 DEF Store!Effect
    <2>2. DOMAIN objects = Entities /\ DOMAIN status = Threads
      BY DEF IInv, ObjectsInPlace, Typed
    <2>3. objects'[e] # objects[e]
      OBVIOUS
    <2> QED
      BY <1>1, <1>2, <2>1, <2>2, <2>3
  <1>4. ASSUME NEW n, NEW r, Store!Effect(t, Store!Put(here, n, data), r)
        PROVE  id = n /\ id \in DOMAIN objects'[e] /\ objects'[e][id] = data
    <2>1. PICK put : put = Store!Put(here, n, data)
      OBVIOUS
    <2>2. /\ DOMAIN put = DOMAIN here \cup {n} /\ put[n] = data
          /\ \A i \in DOMAIN here : i # n => put[i] = here[i]
      BY <2>1 DEF Store!Put
    <2>3. objects[e] = here /\ objects'[e] = put
      BY <1>3, <1>4, <2>1
    <2> QED
      BY <2>2, <2>3
  <1>5. CASE \E n \in NewIds \cup {-1} :
                reply' = [reply EXCEPT ![t] = [id |-> n]] /\ Store!Create(t)
    <2>1. PICK n : /\ \/ /\ Store!Effect(t, Store!Put(here, n, data), [id |-> n])
                         /\ n \notin DOMAIN here
                      \/ Store!Effect(t, here, [id |-> -1])
                   /\ request[t].op = "create"
      BY <1>2, <1>5 DEF Store!Create, Store!Asked
    <2>2. Store!Effect(t, Store!Put(here, n, data), [id |-> n]) /\ n \notin DOMAIN here
      BY <1>3, <2>1
    <2> QED
      BY <1>1, <1>2, <1>3, <1>4, <2>1, <2>2
  <1>6. CASE Store!Read(t) \/ Store!List(t)
    <2>1. \E r : Store!Effect(t, here, r)
      BY <1>2, <1>6 DEF Store!Read, Store!List
    <2> QED
      BY <1>3, <2>1
  <1>7. CASE Store!Update(t)
    <2>1. /\ \/ Store!Effect(t, Store!Put(here, request[t].id, data), [ok |-> TRUE])
             \/ Store!Effect(t, here, [ok |-> FALSE])
          /\ request[t].op = "update"
      BY <1>2, <1>7 DEF Store!Update, Store!Asked
    <2>2. Store!Effect(t, Store!Put(here, request[t].id, data), [ok |-> TRUE])
      BY <1>3, <2>1
    <2> QED
      BY <1>1, <1>2, <1>3, <1>4, <2>1, <2>2
  <1>8. CASE Store!Delete(t)
    <2>1. /\ \/ Store!Effect(t, Store!Drop(here, request[t].id), [ok |-> TRUE])
             \/ Store!Effect(t, here, [ok |-> FALSE])
          /\ request[t].op = "delete"
      BY <1>2, <1>8 DEF Store!Delete, Store!Asked
    <2>2. Store!Effect(t, Store!Drop(here, request[t].id), [ok |-> TRUE])
      BY <1>3, <2>1
    <2>3. PICK rest : rest = Store!Drop(here, request[t].id)
      OBVIOUS
    <2>4. DOMAIN rest = DOMAIN here \ {request[t].id} /\ \A i \in DOMAIN rest : rest[i] = here[i]
      BY <2>3 DEF Store!Drop, Store!Restrict
    <2>5. objects[e] = here /\ objects'[e] = rest /\ e = name /\ status'[t] = "replied"
      BY <1>3, <2>2, <2>3
    <2>6. id = request[t].id /\ id \notin DOMAIN objects'[e]
      BY <2>4, <2>5
    <2> QED
      BY <1>1, <1>2, <2>1, <2>5, <2>6
  <1> QED
    BY <1>5, <1>6, <1>7, <1>8 DEF StoreStep

LEMMA IdsAreDenoted ==
    ASSUME NEW n \in Nat PROVE Denotes(n, AsInt(n))
  <1>1. PICK m \in Nat : m = MaxInt
    BY IntAssumption
  <1>2. PICK w \in Nat : w = 2 * (m + 1) /\ w > m
    BY <1>1
  <1>3. PICK low : low = n % w
    OBVIOUS
  <1>4. AsInt(n) = IF low > m THEN low - w ELSE low
    BY <1>1, <1>2, <1>3 DEF AsInt
  <1>5. Denotes(n, AsInt(n)) <=> IF n <= m THEN AsInt(n) = n ELSE AsInt(n) \in {low, low - w}
    BY <1>1, <1>2, <1>3 DEF Denotes
  <1>6. n <= m => low = n
    <2>1. n <= m => n \in 0 .. w - 1
      BY <1>2
    <2> QED
      BY <1>2, <1>3, <2>1
  <1> QED
    BY <1>4, <1>5, <1>6

\* What ApiRequestHandler has its store change is named by the url of the request
\* it handles at that moment, and becomes what that request says: POST of exactly
\* an entity makes a new object of the body, PUT and DELETE of exactly an entity
\* and a number write the body to the object of that number (of the int it wraps
\* to beyond the ints) or remove it, and nothing else changes an object
\* (request_handler_api.cc:29-175).
THEOREM ChangesWhatIsNamed == Spec => OnlyWhatTheUrlNames
  <1> DEFINE Changed(e, id) == id \in DOMAIN objects[e] /\ id \in DOMAIN objects'[e] =>
                                   objects[e][id] # objects'[e][id]
             Asked(t, e, id) ==
                 /\ status[t] = "called" /\ status'[t] = "replied"
                 /\ \/ http[t].method = "POST" /\ Names(http[t].url, <<e>>)
                       /\ id \notin DOMAIN objects[e]
                       /\ id \in DOMAIN objects'[e] /\ objects'[e][id] = http[t].body
                    \/ \E s \in DOMAIN Number :
                          /\ Denotes(Number[s], id) /\ Names(http[t].url, <<e, s>>)
                          /\ \/ http[t].method = "PUT" /\ id \in DOMAIN objects'[e]
                                /\ objects'[e][id] = http[t].body
                             \/ http[t].method = "DELETE" /\ id \notin DOMAIN objects'[e]
             Named == \A e \in Entities : \A id \in DOMAIN objects[e] \cup DOMAIN objects'[e] :
                          Changed(e, id) => \E t \in Threads : Asked(t, e, id)
  <1>1. Init => NamedInv
    BY DEF Init, Store!Init, NamedInv
  <1>2. IInv /\ NamedInv /\ [Next]_vars => NamedInv'
    BY NamedStays
  <1>3. ASSUME IInv, NamedInv, [Next]_vars, objects' # objects PROVE Named
    <2>1. PICK t \in Threads : StoreStep(t)
      <3>1. ASSUME NEW t \in Threads, NEW r \in HttpRequests, HandleRequest(t, r) PROVE FALSE
        BY <1>3, <3>1, HandlerActs DEF Reject, CallStore, Store!Call
      <3>2. ASSUME NEW t \in Threads, Respond(t) \/ Sent(t) PROVE FALSE
        BY <1>3, <3>2 DEF Respond, Store!Return, Sent
      <3> QED
        BY <1>3, <3>1, <3>2 DEF Next, vars
    <2>2. SUFFICES ASSUME NEW e \in Entities,
                          NEW id \in DOMAIN objects[e] \cup DOMAIN objects'[e],
                          Changed(e, id)
                   PROVE  Asked(t, e, id)
      OBVIOUS
    <2>3. /\ status[t] = "called" /\ status'[t] = "replied" /\ e = request[t].entity_name
          /\ \/ /\ request[t].op = "create" /\ id \notin DOMAIN objects[e]
                /\ id \in DOMAIN objects'[e] /\ objects'[e][id] = request[t].data
             \/ /\ request[t].op = "update" /\ id = request[t].id
                /\ id \in DOMAIN objects'[e] /\ objects'[e][id] = request[t].data
             \/ /\ request[t].op = "delete" /\ id = request[t].id
                /\ id \notin DOMAIN objects'[e]
      BY <1>3, <2>1, <2>2, ChangesRequested
    <2>4. Says(http[t], request[t])
      BY <1>3, <2>3 DEF NamedInv
    <2>5. CASE request[t].op = "create"
      BY <2>3, <2>4, <2>5 DEF Says, SaysCreate
    <2>6. CASE request[t].op \in {"update", "delete"}
      <3>1. SaysChange(http[t], request[t])
        BY <2>4, <2>6 DEF Says
      <3>2. PICK s \in DOMAIN Number : id = AsInt(Number[s]) /\ Names(http[t].url, <<e, s>>)
        BY <2>3, <2>6, <3>1 DEF SaysChange
      <3>3. Denotes(Number[s], id)
        BY <3>2, IdsAreDenoted, NumberAssumption
      <3> QED
        BY <2>3, <2>6, <3>1, <3>2, <3>3 DEF SaysChange
    <2> QED
      BY <2>3, <2>5, <2>6
  <1>4. ASSUME IInv, NamedInv, [Next]_vars PROVE [Named]_objects
    BY <1>3, <1>4
  <1>5. [Named]_objects => [ \A e \in Entities : \A id \in DOMAIN objects[e] \cup DOMAIN objects'[e] :
            LET Has(objs) == id \in DOMAIN objs[e]
                Becomes(data) == Has(objects') /\ objects'[e][id] = data
            IN  (Has(objects) /\ Has(objects') => objects[e][id] # objects'[e][id]) =>
                \E t \in Threads :
                    LET r == http[t]
                    IN  /\ status[t] = "called" /\ status'[t] = "replied"
                        /\ \/ r.method = "POST" /\ Names(r.url, <<e>>)
                              /\ ~Has(objects) /\ Becomes(r.body)
                           \/ \E s \in DOMAIN Number :
                                 /\ Denotes(Number[s], id) /\ Names(r.url, <<e, s>>)
                                 /\ \/ r.method = "PUT" /\ Becomes(r.body)
                                    \/ r.method = "DELETE" /\ ~Has(objects')
      ]_objects
    OBVIOUS
  <1> HIDE DEF Named
  <1> QED
    BY <1>1, <1>2, <1>4, <1>5, Invariant, PTL DEF Spec, OnlyWhatTheUrlNames

================================================================================
