---------------------------------- MODULE Api ----------------------------------
(******************************************************************************)
(* ApiRequestHandler (src/request_handler_api.cc) and EntityStoreValidation:  *)
(* the pool's threads handle requests on one store.  The store is module      *)
(* EntityStore, what every store promises: between the call and its effect,   *)
(* and between the effect and the response, other threads run.                *)
(*                                                                            *)
(* A url is a sequence of pieces of text: "/" and "?" are pieces, and what    *)
(* stands between them is one piece or, where a shorter word begins it as     *)
(* /api does /apiary, several.                                                *)
(******************************************************************************)
EXTENDS Integers, FiniteSets, Sequences, SequencesExt

CONSTANTS
    Threads,
    Entities,       \* the valid entity names among the segments of urls
    Number,         \* Number[s]: the number s spells, for the segments made of digits
    MaxInt,         \* the greatest int, 2^31 - 1
    Bodies,         \* bodies that are valid JSON
    NewIds,         \* ids the store picks from in Create
    url_prefix_,    \* path of the location the handler is for
    HttpRequests    \* requests that are sent

ASSUME IntAssumption == MaxInt \in Nat
ASSUME NewIdsAssumption == NewIds \subseteq 0 .. MaxInt
ASSUME NumberAssumption == \A s \in DOMAIN Number : Number[s] \in Nat

VARIABLES
    objects, status, request, reply,    \* of EntityStore
    response        \* response[t]: what t's handle_request returned, until sent

\* Ghost: http[t] is the request t handles.
VARIABLE http

vars == <<objects, status, request, reply, response, http>>

\* Bug that TypeOK catches: a wider type for the id than the store's int.
AsLong(n) == n

\* result * 10 + digit in an int: signed overflow, which the build lets wrap.
AsInt(n) ==
    LET low == n % (2 * (MaxInt + 1))
    IN  IF low > MaxInt THEN low - 2 * (MaxInt + 1) ELSE low

ParsedIds == {AsInt(Number[s]) : s \in DOMAIN Number}

Store == INSTANCE EntityStore WITH Ids <- ParsedIds

NoHttp == [method |-> "none"]
NoResponse == [status |-> 0]

ASSUME HttpRequestsAssumption ==
    /\ NoHttp \notin HttpRequests
    /\ \A r \in HttpRequests : r.url \in Seq(ToSet(r.url))
    /\ url_prefix_ \in Seq(ToSet(url_prefix_))

Ok(body) == [status |-> 200, body |-> body]
Error(code) == [status |-> code]

Init ==
    /\ Store!Init
    /\ response = [t \in Threads |-> NoResponse]
    /\ http = [t \in Threads |-> NoHttp]

--------------------------------------------------------------------------------
(* handle_request up to the call of the store                                 *)

BeforeQuery(url) ==
    IF "?" \in ToSet(url)
    THEN SubSeq(url, 1, SelectInSeq(url, LAMBDA s : s = "?") - 1)
    ELSE url

\* getline up to the next slash, and push_back unless nothing was there.
Segments(path) ==
    LET pushed[n \in 0 .. Len(path)] ==
            IF n = 0 THEN <<>>
            ELSE CASE path[n] = "/" -> pushed[n - 1]
                   [] path[n] # "/" /\ (n = 1 \/ path[n - 1] = "/") ->
                          Append(pushed[n - 1], <<path[n]>>)
                   [] OTHER -> Append(Front(pushed[n - 1]),
                                      Append(Last(pushed[n - 1]), path[n]))
    IN  pushed[Len(path)]

\* Bug that OnlyWhatTheUrlNames catches: the prefix is cut off in the middle of a
\* segment.
BeginsWithPrefix(path) == IsPrefix(url_prefix_, path)

\* The prefix goes only where it ends at a slash or at the end of the path.
HasPrefix(path) ==
    /\ IsPrefix(url_prefix_, path)
    /\ LET n == Len(url_prefix_) IN Len(path) = n \/ path[n + 1] = "/"

ExtractSegments(url) ==
    LET path == BeforeQuery(url)
    IN  Segments(IF HasPrefix(path) THEN SubSeq(path, Len(url_prefix_) + 1, Len(path))
                 ELSE path)

IsValidEntityName(s) == s \in Entities
IsNumber(s) == s \in DOMAIN Number
IsValidJson(body) == body \in Bodies

Reject(t, code) ==
    /\ status[t] = "idle"
    /\ response' = [response EXCEPT ![t] = Error(code)]
    /\ UNCHANGED <<objects, status, request, reply>>

CallStore(t, call) ==
    /\ Store!Call(t, call)
    /\ UNCHANGED response

HandlePost(t, r, segments) ==
    IF Len(segments) = 1 /\ IsValidJson(r.body)
    THEN CallStore(t, [op |-> "create", entity_name |-> segments[1], data |-> r.body])
    ELSE Reject(t, 400)

\* What follows the id is not looked at.
HandleGet(t, segments) ==
    \/ /\ Len(segments) = 1
       /\ CallStore(t, [op |-> "list", entity_name |-> segments[1]])
    \/ /\ Len(segments) > 1
       /\ IF IsNumber(segments[2])
          THEN CallStore(t, [op |-> "read", entity_name |-> segments[1],
                             id |-> AsInt(Number[segments[2]])])
          ELSE Reject(t, 400)

NamesObject(segments) == Len(segments) = 2 /\ IsNumber(segments[2])

HandlePut(t, r, segments) ==
    IF NamesObject(segments) /\ IsValidJson(r.body)
    THEN CallStore(t, [op |-> "update", entity_name |-> segments[1],
                       id |-> AsInt(Number[segments[2]]), data |-> r.body])
    ELSE Reject(t, 400)

HandleDelete(t, segments) ==
    IF NamesObject(segments)
    THEN CallStore(t, [op |-> "delete", entity_name |-> segments[1],
                       id |-> AsInt(Number[segments[2]])])
    ELSE Reject(t, 400)

HandleRequest(t, r) ==
    LET segments == ExtractSegments(r.url)
        named == segments # <<>> /\ IsValidEntityName(segments[1])
    IN  /\ http[t] = NoHttp
        /\ http' = [http EXCEPT ![t] = r]
        /\ \/ ~named /\ Reject(t, 400)
           \/ named /\ r.method = "POST" /\ HandlePost(t, r, segments)
           \/ named /\ r.method = "GET" /\ HandleGet(t, segments)
           \/ named /\ r.method = "PUT" /\ HandlePut(t, r, segments)
           \/ named /\ r.method = "DELETE" /\ HandleDelete(t, segments)
           \/ named /\ r.method \notin {"POST", "GET", "PUT", "DELETE"} /\ Reject(t, 405)

--------------------------------------------------------------------------------
(* The store's step, and the response made of its reply                       *)

StoreStep(t) ==
    /\ \/ \E id \in NewIds \cup {-1} :
              reply' = [reply EXCEPT ![t] = [id |-> id]] /\ Store!Create(t)
       \/ Store!Read(t) \/ Store!Update(t) \/ Store!Delete(t) \/ Store!List(t)
    /\ UNCHANGED <<response, http>>

\* std::sort of what List returned.
Ascending(ids) ==
    CHOOSE seq \in [1 .. Cardinality(ids) -> ids] :
        /\ ToSet(seq) = ids
        /\ \A m, n \in DOMAIN seq : m < n => seq[m] < seq[n]

\* Bug that ApiImplementsResources catches: an answer as if the deletion was done.
AlwaysDeleted(result) == Ok([deleted |-> TRUE])

DeleteResponse(result) == IF result.ok THEN Ok([deleted |-> TRUE]) ELSE Error(404)

\* The response to a call of the store that returned result.
ResponseFor(call, result) ==
    CASE call.op = "create" -> IF result.id < 0 THEN Error(500) ELSE Ok([id |-> result.id])
      [] call.op = "list" -> Ok(Ascending(result.ids))
      [] call.op = "read" -> IF result.ok THEN Ok(result.out_data) ELSE Error(404)
      [] call.op = "update" -> IF result.ok THEN Ok([id |-> call.id]) ELSE Error(500)
      [] call.op = "delete" -> DeleteResponse(result)

Respond(t) ==
    /\ Store!Return(t)
    /\ response' = [response EXCEPT ![t] = ResponseFor(request[t], reply[t])]
    /\ UNCHANGED http

\* The session takes the response.
Sent(t) ==
    /\ response[t] # NoResponse
    /\ response' = [response EXCEPT ![t] = NoResponse]
    /\ http' = [http EXCEPT ![t] = NoHttp]
    /\ UNCHANGED <<objects, status, request, reply>>

--------------------------------------------------------------------------------
Next ==
    \E t \in Threads :
        \/ \E r \in HttpRequests : HandleRequest(t, r)
        \/ StoreStep(t) \/ Respond(t) \/ Sent(t)

Spec == Init /\ [][Next]_vars

--------------------------------------------------------------------------------
(* Properties                                                                 *)

\* A thread in the store handles a request and has no response yet; ids are ints.
TypeOK ==
    /\ DOMAIN objects = Entities
    /\ \A e \in Entities :
           /\ DOMAIN objects[e] \subseteq -MaxInt - 1 .. MaxInt
           /\ \A id \in DOMAIN objects[e] : objects[e][id] \in Bodies
    /\ status \in [Threads -> {"idle", "called", "replied"}]
    /\ \A t \in Threads :
           /\ request[t] \in Store!Requests \cup {Store!NoRequest}
           /\ response[t].status \in {0, 200, 400, 404, 405, 500}
           /\ http[t] \in HttpRequests \cup {NoHttp}
           /\ status[t] # "idle" => http[t] # NoHttp /\ response[t] = NoResponse

\* A request asks until the store has taken its effect, and is answered from then
\* on.
Asking == [t \in Threads |-> IF status[t] = "called" THEN request[t]
                             ELSE [op |-> "nothing"]]
Answers == [t \in Threads |-> IF status[t] = "replied"
                              THEN ResponseFor(request[t], reply[t]) ELSE response[t]]

Mapped ==
    INSTANCE Resources WITH
        Clients <- Threads, Ids <- ParsedIds, asked <- Asking, answer <- Answers

\* Whatever the threads do, each response says what happened at one moment while
\* the request was handled, and a request that is refused (the rejected PUT of
\* request_handler_api_test.cc, an unknown method, a url without an entity)
\* changed nothing, neither before nor after it was found out.
ApiImplementsResources == Mapped!Spec

\* These are the segments of a text, with one slash or more between any two and
\* nothing but slashes around them.
Spells(text, segments) ==
    \E from, to \in [DOMAIN segments -> DOMAIN text] :
        /\ \A n \in DOMAIN segments :
              /\ from[n] <= to[n] /\ segments[n] = SubSeq(text, from[n], to[n])
              /\ \A m \in DOMAIN segments : n < m => to[n] + 1 < from[m]
        /\ \A k \in DOMAIN text :
              text[k] = "/" <=> ~\E n \in DOMAIN segments : from[n] <= k /\ k <= to[n]

\* What comes before the query spells these segments, behind the prefix if the url
\* is the prefix or goes on with a slash after it, and from its beginning if not.
Names(url, segments) ==
    \E n \in 0 .. Len(url) :
        LET path == SubSeq(url, 1, n)
        IN  /\ n = Len(url) \/ url[n + 1] = "?"
            /\ \A k \in 1 .. n : url[k] # "?"
            /\ IF path = url_prefix_ \/ IsPrefix(url_prefix_ \o <<"/">>, path)
               THEN \E rest \in Suffixes(path) :
                        path = url_prefix_ \o rest /\ Spells(rest, segments)
               ELSE Spells(path, segments)

\* The object whose id is written like that: beyond the ints, the id is what the
\* number leaves when it wraps, another object's or a negative one.
Denotes(n, id) ==
    LET wrapped == n % (2 * (MaxInt + 1))
    IN  IF n <= MaxInt THEN id = n ELSE id \in {wrapped, wrapped - 2 * (MaxInt + 1)}

\* An object changes only when the store carries out a request whose url names it,
\* and it becomes what that request says: POST of exactly an entity makes a new
\* object of it, PUT and DELETE of exactly an entity and a number write and
\* remove that one, and GET changes nothing.  No part of the prefix or the query,
\* no later segment and no word that only begins like the prefix is taken for
\* either.
OnlyWhatTheUrlNames ==
    [][ \A e \in Entities : \A id \in DOMAIN objects[e] \cup DOMAIN objects'[e] :
            LET Has(objs) == id \in DOMAIN objs[e]
                Becomes(data) == Has(objects') /\ objects'[e][id] = data
            IN  (Has(objects) /\ Has(objects') => objects[e][id] # objects'[e][id]) =>
                \E t \in Threads :
                    LET r == http[t]
                    IN  /\ status[t] = "called" /\ status'[t] = "replied"
                        /\ \/ r.method = "POST" /\ Names(r.url, <<e>>)
                              /\ ~Has(objects) /\ Becomes(r.body)
                           \/ \E s \in DOMAIN Number :
                                 /\ Denotes(Number[s], id) /\ Names(r.url, <<e, s>>)
                                 /\ \/ r.method = "PUT" /\ Becomes(r.body)
                                    \/ r.method = "DELETE" /\ ~Has(objects')
      ]_objects
================================================================================
