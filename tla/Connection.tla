------------------------------- MODULE Connection -------------------------------
(******************************************************************************)
(* One connection: the bytes a client sends, the session that reads them      *)
(* (session::handle_read, handle_write in src/session.cc), RequestParser      *)
(* (src/request_parser.cc), and the responses on their way back.              *)
(*                                                                            *)
(* TCP delivers the client's bytes in order and cuts them anywhere; a read    *)
(* returns at most max_length of them.  A request is a head, made of its      *)
(* lines and the empty line that ends it, and as many pieces of body as it    *)
(* has.  Which thread runs a handler is in module Server: a session has one   *)
(* operation or handler at a time.                                            *)
(******************************************************************************)
EXTENDS Integers, Sequences, SequencesExt

CONSTANTS
    Requests,       \* requests a client may send
    ValidRequests,  \* those whose request line the parser accepts
    BodyPieces,     \* BodyPieces[r]: pieces of r's body
    max_length,     \* pieces that data_ has room for
    Pipelines,      \* whether a client sends on before it has its answer
    MaxRequests     \* bound: requests a client sends

ASSUME ValidRequestsAssumption == ValidRequests \subseteq Requests
ASSUME BodyPiecesAssumption == BodyPieces \in [Requests -> Nat]
ASSUME PipelinesAssumption == Pipelines \in BOOLEAN
ASSUME MaxLengthAssumption == max_length \in Nat \ {0}
ASSUME MaxRequestsAssumption == MaxRequests \in Nat

VARIABLES
    client,          \* "open", "closed" (nothing more to send) or "gone"
    inbound,         \* pieces the session has not read yet
    outbound,        \* responses the client has not received yet
    state,           \* the session: "reading", "writing" or "deleted"
    request_buffer_, \* what the session has read
    response_,       \* the response it is writing
    received         \* responses the client has received

\* Ghosts: what the properties remember.
VARIABLES
    sent,      \* the requests the client has sent, in order
    stream,    \* everything it has sent: their pieces
    executed,  \* the calls of handle_request, in order
    reads      \* number of reads the session has made

session == <<state, request_buffer_, response_>>
asked == <<sent, stream>>
vars == <<client, inbound, outbound, session, received, asked, executed, reads>>

Piece(r, part) == [request |-> r, part |-> part]

Pieces(r) ==
    <<Piece(r, "lines"), Piece(r, "empty line")>>
        \o [n \in 1..BodyPieces[r] |-> Piece(r, "body")]

NoResponse == [status |-> "none"]

Init ==
    /\ client = "open"
    /\ inbound = <<>>
    /\ outbound = <<>>
    /\ state = "reading"
    /\ request_buffer_ = <<>>
    /\ response_ = NoResponse
    /\ received = <<>>
    /\ sent = <<>>
    /\ stream = <<>>
    /\ executed = <<>>
    /\ reads = 0

--------------------------------------------------------------------------------
(* The client and the network                                                 *)

Send(r) ==
    /\ client = "open"
    /\ Pipelines \/ Len(received) = Len(sent)
    /\ Len(sent) < MaxRequests
    /\ sent' = Append(sent, r)
    /\ stream' = stream \o Pieces(r)
    /\ inbound' = inbound \o Pieces(r)
    /\ UNCHANGED <<client, outbound, session, received, executed, reads>>

\* The client shuts down its side; it still receives.
Close ==
    /\ client = "open"
    /\ client' = "closed"
    /\ UNCHANGED <<inbound, outbound, session, received, asked, executed, reads>>

\* The connection is reset.  What has arrived may still be read, or not; what
\* is on its way to the client is lost.
Reset ==
    /\ client # "gone"
    /\ client' = "gone"
    /\ outbound' = <<>>
    /\ UNCHANGED <<inbound, session, received, asked, executed, reads>>

Receive ==
    /\ client # "gone"
    /\ outbound # <<>>
    /\ received' = Append(received, Head(outbound))
    /\ outbound' = Tail(outbound)
    /\ UNCHANGED <<client, inbound, session, asked, executed, reads>>

--------------------------------------------------------------------------------
(* RequestParser::Parse                                                       *)

\* find("\r\n\r\n") finds the first one in the buffer.
HeadEnds(buffer) == {n \in DOMAIN buffer : buffer[n].part = "empty line"}

\* Bug that RequestIsAnswered catches: a request complete only with something
\* behind its head.
WaitsForBody(buffer) == HeadEnds(buffer) # {} /\ Len(buffer) > Min(HeadEnds(buffer))

IsComplete(buffer) == HeadEnds(buffer) # {}

\* Bug that OneRequestServedOnce catches: the body taken from one piece too far.
BodyStartsLate(buffer) ==
    LET header_end == Min(HeadEnds(buffer))
    IN  [url |-> buffer[1].request,
         is_valid |-> buffer[1].request \in ValidRequests,
         body |-> SubSeq(buffer, header_end + 2, Len(buffer))]

\* The first line is the request line, all that follows the head is the body:
\* no Content-Length, no second request.
Parse(buffer) ==
    LET header_end == Min(HeadEnds(buffer))
    IN  [url |-> buffer[1].request,
         is_valid |-> buffer[1].request \in ValidRequests,
         body |-> SubSeq(buffer, header_end + 1, Len(buffer))]

--------------------------------------------------------------------------------
(* The session                                                                *)

\* ResponseBuilder::BadRequest, or what the handler answers to this request.
ResponseTo(request) ==
    IF request.is_valid
    THEN [status |-> "handled", url |-> request.url, body |-> request.body]
    ELSE [status |-> "400 Bad Request"]

\* Bug that AnswersReadTheStream catches: what arrives goes in front.
ReadSomePrepends(n) ==
    /\ state = "reading"
    /\ n \in 1..max_length
    /\ n <= Len(inbound)
    /\ request_buffer_' = SubSeq(inbound, 1, n) \o request_buffer_
    /\ inbound' = SubSeq(inbound, n + 1, Len(inbound))
    /\ reads' = reads + 1

\* handle_read, up to the parser: n pieces have arrived.
ReadSome(n) ==
    /\ state = "reading"
    /\ n \in 1..max_length
    /\ n <= Len(inbound)
    /\ request_buffer_' = request_buffer_ \o SubSeq(inbound, 1, n)
    /\ inbound' = SubSeq(inbound, n + 1, Len(inbound))
    /\ reads' = reads + 1

\* Bug that TypeOK catches: the write begun before response_ is filled.
SendResponseTooEarly(resp_obj) ==
    /\ UNCHANGED response_
    /\ state' = "writing"

SendResponse(resp_obj) ==
    /\ response_' = resp_obj
    /\ state' = "writing"

ReadMore(n) ==
    /\ ReadSome(n)
    /\ ~IsComplete(request_buffer_')
    /\ UNCHANGED <<client, outbound, state, response_, received, asked, executed>>

ReadInvalid(n) ==
    /\ ReadSome(n)
    /\ IsComplete(request_buffer_')
    /\ ~Parse(request_buffer_').is_valid
    /\ SendResponse(ResponseTo(Parse(request_buffer_')))
    /\ UNCHANGED <<client, outbound, received, asked, executed>>

ReadRequest(n) ==
    /\ ReadSome(n)
    /\ IsComplete(request_buffer_')
    /\ LET request == Parse(request_buffer_')
       IN  /\ request.is_valid
           /\ executed' = Append(executed, [url |-> request.url, body |-> request.body])
           /\ SendResponse(ResponseTo(request))
    /\ UNCHANGED <<client, outbound, received, asked>>

\* Bug that SessionEnds catches: the end of the stream taken for an empty read.
ReadErrorReadsOn ==
    /\ state = "reading"
    /\ client = "gone"
    /\ state' = "deleted"
    /\ UNCHANGED <<client, inbound, outbound, request_buffer_, response_, received,
                   asked, executed, reads>>

\* handle_read with an error: the end of the stream, once everything before it
\* has been read, or the reset.
ReadError ==
    /\ state = "reading"
    /\ \/ client = "closed" /\ inbound = <<>>
       \/ client = "gone"
    /\ state' = "deleted"
    /\ UNCHANGED <<client, inbound, outbound, request_buffer_, response_, received,
                   asked, executed, reads>>

\* Bug that EveryAnswerIsSentOnce catches: a response written again.
WriteDoneWritesAgain ==
    /\ state = "writing"
    /\ client # "gone"
    /\ outbound' = Append(outbound, response_)
    /\ Len(outbound) < MaxRequests
    /\ UNCHANGED <<client, inbound, session, received, asked, executed, reads>>

\* handle_write: the response is out, the session reads on, and keeps its buffer.
WriteDone ==
    /\ state = "writing"
    /\ client # "gone"
    /\ outbound' = Append(outbound, response_)
    /\ response_' = NoResponse
    /\ state' = "reading"
    /\ UNCHANGED <<client, inbound, request_buffer_, received, asked, executed, reads>>

WriteError ==
    /\ state = "writing"
    /\ client = "gone"
    /\ state' = "deleted"
    /\ UNCHANGED <<client, inbound, outbound, request_buffer_, response_, received,
                   asked, executed, reads>>

--------------------------------------------------------------------------------
Handler ==
    \/ \E n \in 1..max_length : ReadMore(n) \/ ReadInvalid(n) \/ ReadRequest(n)
    \/ ReadError
    \/ WriteDone
    \/ WriteError

\* Both ends are done with the connection.
Over ==
    /\ state = "deleted"
    /\ outbound = <<>>
    /\ UNCHANGED vars

Next ==
    \/ \E r \in Requests : Send(r)
    \/ Close \/ Reset \/ Receive
    \/ Handler
    \/ Over

Spec == Init /\ [][Next]_vars

\* The session's handlers are run (module Server), and what is sent arrives
\* unless the connection is reset.  Nobody has to send or close.
FairSpec == Spec /\ WF_vars(Handler) /\ WF_vars(Receive)

--------------------------------------------------------------------------------
(* Properties                                                                 *)

Responses == {NoResponse, [status |-> "400 Bad Request"]}
    \cup {[status |-> "handled", url |-> call.url, body |-> call.body] :
              call \in Range(executed)}

\* The type invariant.
TypeOK ==
    /\ client \in {"open", "closed", "gone"}
    /\ state \in {"reading", "writing", "deleted"}
    /\ sent \in Seq(Requests) /\ Len(sent) <= MaxRequests
    /\ response_ \in Responses
    /\ state = "writing" => response_ # NoResponse
    /\ Range(outbound) \cup Range(received) \subseteq Responses \ {NoResponse}
    /\ reads \in 0..Len(stream)

\* Answers that were made: they are received, on their way, or being written.
Answers ==
    received \o outbound \o (IF state = "writing" THEN <<response_>> ELSE <<>>)

\* A client that sends one request has it executed once, with its own body,
\* however TCP cuts it up, if it has no body, and if it has one, when all of it
\* arrives in one read.
OneRequestServedOnce ==
    Len(sent) = 1 /\ (BodyPieces[sent[1]] = 0 \/ (reads <= 1 /\ inbound = <<>>)) =>
        executed \in {<<>>, <<[url |-> sent[1],
                              body |-> [n \in 1..BodyPieces[sent[1]] |->
                                            Piece(sent[1], "body")]]>>}

\* Whatever is sent and however it is cut up, each answer is for a complete head
\* and for a beginning of what the client sent: no byte is lost, repeated or out
\* of place, and nothing is answered before it is asked.
AnswersReadTheStream ==
    \A i \in DOMAIN Answers : \E n \in 1..Len(stream) :
        /\ IsComplete(SubSeq(stream, 1, n))
        /\ Answers[i] = ResponseTo(Parse(SubSeq(stream, 1, n)))

ResponseOf(call) == [status |-> "handled", url |-> call.url, body |-> call.body]

\* The answers of handlers among answers are those of calls, in their order.
AnswerInOrder(calls, answers) ==
    \E place \in [DOMAIN calls -> DOMAIN answers] :
        /\ Range(place) = {k \in DOMAIN answers : answers[k].status = "handled"}
        /\ \A i, j \in DOMAIN calls : i < j => place[i] < place[j]
        /\ \A i \in DOMAIN calls : answers[place[i]] = ResponseOf(calls[i])

\* Each call of a handler yields one answer, sent once and in order, while the
\* connection lasts.
EveryAnswerIsSentOnce == client # "gone" => AnswerInOrder(executed, Answers)

\* A client that has sent a request gets an answer unless the connection breaks.
RequestIsAnswered == sent # <<>> ~> (received # <<>> \/ client = "gone")

\* A session ends once its client has closed or lost the connection.
SessionEnds == client # "open" ~> state = "deleted"

--------------------------------------------------------------------------------
(* What the documentation says and the code does not keep                     *)

\* "reads requests": the handlers are called for the requests the client sent,
\* in order, once each, each with its own body.
ExecutesWhatWasSent ==
    /\ Len(executed) <= Len(sent)
    /\ \A i \in DOMAIN executed :
           /\ executed[i].url = sent[i]
           /\ executed[i].body = [n \in 1..BodyPieces[sent[i]] |->
                                     Piece(sent[i], "body")]
================================================================================
