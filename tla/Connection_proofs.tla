---------------------------- MODULE Connection_proofs ----------------------------
(******************************************************************************)
(* What a session answers, for any requests with bodies of any length, cut up *)
(* anywhere, and any number of them on a connection.                          *)
(******************************************************************************)
EXTENDS Connection, TLAPS

AllPieces == [request : Requests, part : {"lines", "empty line", "body"}]

--------------------------------------------------------------------------------
(* Sequences                                                                  *)

\* What follows does not change a beginning.
LEMMA BeginningStays ==
    ASSUME NEW S, NEW s \in Seq(S), NEW u \in Seq(S), NEW n \in 1..Len(s)
    PROVE  /\ SubSeq(s \o u, 1, n) = SubSeq(s, 1, n)
           /\ n \in 1..Len(s \o u)
  OBVIOUS

\* The first of two joined sequences is a beginning.
LEMMA FirstIsBeginning ==
    ASSUME NEW S, NEW s \in Seq(S), NEW u \in Seq(S)
    PROVE  SubSeq(s \o u, 1, Len(s)) = s
  OBVIOUS

LEMMA JoinIsAssociative ==
    ASSUME NEW S, NEW s \in Seq(S), NEW u \in Seq(S), NEW v \in Seq(S)
    PROVE  (s \o u) \o v = s \o (u \o v)
  OBVIOUS

\* Cut anywhere, the parts joined are the whole.
LEMMA CutJoins ==
    ASSUME NEW S, NEW s \in Seq(S), NEW n \in 1..Len(s)
    PROVE  /\ SubSeq(s, 1, n) \in Seq(S) /\ Len(SubSeq(s, 1, n)) = n
           /\ SubSeq(s, n + 1, Len(s)) \in Seq(S)
           /\ SubSeq(s, 1, n) \o SubSeq(s, n + 1, Len(s)) = s
  <1>1. SubSeq(s, 1, n) \in Seq(S) /\ Len(SubSeq(s, 1, n)) = n
    OBVIOUS
  <1>2. SubSeq(s, n + 1, Len(s)) \in Seq(S)
    OBVIOUS
  <1>3. SubSeq(s, 1, n) \o SubSeq(s, n + 1, Len(s)) = s
    OBVIOUS
  <1> QED
    BY <1>1, <1>2, <1>3

LEMMA PiecesType ==
    ASSUME NEW r \in Requests
    PROVE  Pieces(r) \in Seq(AllPieces)
  <1>1. PICK k \in Nat : k = BodyPieces[r]
    BY BodyPiecesAssumption
  <1>2. PICK p \in AllPieces : p = Piece(r, "body")
    BY DEF Piece, AllPieces
  <1>3. PICK body : body = [n \in 1..k |-> p]
    OBVIOUS
  <1>4. body \in Seq(AllPieces)
    BY <1>3
  <1>5. PICK l \in AllPieces, e \in AllPieces :
            l = Piece(r, "lines") /\ e = Piece(r, "empty line")
    BY DEF Piece, AllPieces
  <1>6. <<l, e>> \o body \in Seq(AllPieces)
    BY <1>4
  <1>7. Pieces(r) = <<l, e>> \o body
    BY <1>1, <1>2, <1>3, <1>5 DEF Pieces
  <1> QED
    BY <1>6, <1>7

--------------------------------------------------------------------------------
(* The stream                                                                 *)

\* What the session has read and what is on its way are what the client sent.
Conserved ==
    /\ request_buffer_ \in Seq(AllPieces)
    /\ inbound \in Seq(AllPieces)
    /\ stream = request_buffer_ \o inbound
    /\ reads \in 0..Len(request_buffer_)

\* A read takes from the one and adds to the other.
LEMMA ReadConserves ==
    ASSUME Conserved, NEW n \in 1..max_length, ReadSome(n), UNCHANGED stream
    PROVE  Conserved'
  <1>0. request_buffer_ \in Seq(AllPieces) /\ inbound \in Seq(AllPieces)
    BY DEF Conserved
  <1>1. /\ n \in 1..Len(inbound)
        /\ request_buffer_' = request_buffer_ \o SubSeq(inbound, 1, n)
        /\ inbound' = SubSeq(inbound, n + 1, Len(inbound))
        /\ reads' = reads + 1
    BY MaxLengthAssumption DEF ReadSome
  <1>2. PICK taken \in Seq(AllPieces), left \in Seq(AllPieces) :
            /\ taken = SubSeq(inbound, 1, n) /\ Len(taken) = n
            /\ left = SubSeq(inbound, n + 1, Len(inbound))
            /\ taken \o left = inbound
    <2>1. /\ SubSeq(inbound, 1, n) \in Seq(AllPieces)
          /\ Len(SubSeq(inbound, 1, n)) = n
          /\ SubSeq(inbound, n + 1, Len(inbound)) \in Seq(AllPieces)
          /\ SubSeq(inbound, 1, n) \o SubSeq(inbound, n + 1, Len(inbound)) = inbound
      BY <1>0, <1>1, CutJoins
    <2> QED
      BY <2>1
  <1>3. /\ request_buffer_' = request_buffer_ \o taken
        /\ inbound' = left
        /\ stream = request_buffer_ \o (taken \o left)
    BY <1>1, <1>2 DEF Conserved
  <1>4. (request_buffer_ \o taken) \o left = request_buffer_ \o (taken \o left)
    BY <1>0, JoinIsAssociative, SMTT(30)
  <1>5. request_buffer_' \in Seq(AllPieces) /\ Len(request_buffer_') = Len(request_buffer_) + n
    BY <1>2, <1>3 DEF Conserved
  <1>6. reads' \in 0..Len(request_buffer_')
    BY <1>1, <1>5 DEF Conserved
  <1>7. stream' = request_buffer_' \o inbound'
    BY <1>3, <1>4
  <1> QED
    BY <1>3, <1>5, <1>6, <1>7 DEF Conserved

LEMMA SendConserves ==
    ASSUME Conserved, NEW r \in Requests, Send(r)
    PROVE  /\ Conserved'
           /\ stream \in Seq(AllPieces)
           /\ \E more \in Seq(AllPieces) : stream' = stream \o more
  <1>1. PICK more \in Seq(AllPieces) : more = Pieces(r)
    BY PiecesType
  <1>2. /\ inbound' = inbound \o more
        /\ stream' = stream \o more
        /\ UNCHANGED <<request_buffer_, reads>>
    BY <1>1 DEF Send, session
  <1>3. stream \in Seq(AllPieces) /\ inbound' \in Seq(AllPieces)
    BY <1>2 DEF Conserved
  <1>4. (request_buffer_ \o inbound) \o more = request_buffer_ \o (inbound \o more)
    BY JoinIsAssociative DEF Conserved
  <1> QED
    BY <1>2, <1>3, <1>4 DEF Conserved

\* The steps that read nothing and send nothing.
Unread == UNCHANGED <<request_buffer_, inbound, stream, reads>>

LEMMA StepsOnTheStream ==
    [Next]_vars =>
        \/ \E r \in Requests : Send(r)
        \/ \E n \in 1..max_length : ReadMore(n) \/ ReadInvalid(n) \/ ReadRequest(n)
        \/ Unread
  BY DEF Next, Handler, Close, Reset, Receive, ReadError, WriteDone, WriteError, Over,
         Unread, session, vars, asked

LEMMA ConservedStays == Conserved /\ [Next]_vars => Conserved'
  <1> SUFFICES ASSUME Conserved, [Next]_vars PROVE Conserved'
    OBVIOUS
  <1>1. ASSUME NEW n \in 1..max_length, ReadMore(n) \/ ReadInvalid(n) \/ ReadRequest(n)
        PROVE  Conserved'
    <2>1. ReadSome(n) /\ UNCHANGED stream
      BY <1>1 DEF ReadMore, ReadInvalid, ReadRequest, asked
    <2> QED
      BY <2>1, ReadConserves
  <1>2. CASE Unread
    BY <1>2 DEF Unread, Conserved
  <1> QED
    BY <1>1, <1>2, SendConserves, StepsOnTheStream

--------------------------------------------------------------------------------
(* The answers                                                                *)

\* a is the answer to a beginning of s.
Answerable(a, s) ==
    \E n \in 1..Len(s) :
        /\ IsComplete(SubSeq(s, 1, n))
        /\ a = ResponseTo(Parse(SubSeq(s, 1, n)))

AllAnswers == {ResponseTo(Parse(buffer)) : buffer \in Seq(AllPieces)}

Answered ==
    /\ received \in Seq(AllAnswers)
    /\ outbound \in Seq(AllAnswers)
    /\ \A i \in DOMAIN received : Answerable(received[i], stream)
    /\ \A i \in DOMAIN outbound : Answerable(outbound[i], stream)
    /\ state = "writing" => response_ \in AllAnswers /\ Answerable(response_, stream)

\* What comes later does not take an answer's ground away.
LEMMA AnswerableStays ==
    ASSUME Conserved, [Next]_vars, NEW a, Answerable(a, stream)
    PROVE  Answerable(a, stream')
  <1>1. CASE UNCHANGED stream
    BY <1>1 DEF Answerable
  <1>2. ASSUME NEW r \in Requests, Send(r) PROVE Answerable(a, stream')
    <2>1. PICK more \in Seq(AllPieces) : stream' = stream \o more
      BY <1>2, SendConserves
    <2>2. stream \in Seq(AllPieces)
      BY <1>2, SendConserves
    <2>3. PICK n \in 1..Len(stream) :
              /\ IsComplete(SubSeq(stream, 1, n))
              /\ a = ResponseTo(Parse(SubSeq(stream, 1, n)))
      BY DEF Answerable
    <2>4. SubSeq(stream', 1, n) = SubSeq(stream, 1, n) /\ n \in 1..Len(stream')
      BY <2>1, <2>2, BeginningStays
    <2> QED
      BY <2>3, <2>4 DEF Answerable
  <1>3. (\E r \in Requests : Send(r)) \/ UNCHANGED stream
    BY StepsOnTheStream DEF ReadMore, ReadInvalid, ReadRequest, asked, Unread
  <1> QED
    BY <1>1, <1>2, <1>3

\* A session answers all that it has read.
LEMMA AnswersTheBuffer ==
    ASSUME Conserved', request_buffer_' # <<>>, IsComplete(request_buffer_'),
           response_' = ResponseTo(Parse(request_buffer_'))
    PROVE  response_' \in AllAnswers /\ Answerable(response_', stream')
  <1>1. /\ request_buffer_' \in Seq(AllPieces) /\ inbound' \in Seq(AllPieces)
        /\ stream' = request_buffer_' \o inbound'
    BY DEF Conserved
  <1>2. SubSeq(stream', 1, Len(request_buffer_')) = request_buffer_'
    BY <1>1, FirstIsBeginning
  <1>3. Len(request_buffer_') \in 1..Len(stream')
    BY <1>1
  <1>4. Answerable(response_', stream')
    BY <1>2, <1>3 DEF Answerable
  <1> QED
    BY <1>1, <1>4 DEF AllAnswers

\* The first of a sequence is gone, or one more is at its end.
LEMMA TailOfAnswers ==
    ASSUME NEW S, NEW s \in Seq(S), s # <<>>
    PROVE  /\ Tail(s) \in Seq(S) /\ Head(s) = s[1] /\ 1 \in DOMAIN s
           /\ \A i \in DOMAIN Tail(s) : i + 1 \in DOMAIN s /\ Tail(s)[i] = s[i + 1]
  OBVIOUS

LEMMA AppendToAnswers ==
    ASSUME NEW S, NEW s \in Seq(S), NEW a \in S
    PROVE  /\ Append(s, a) \in Seq(S)
           /\ \A i \in DOMAIN Append(s, a) :
                  Append(s, a)[i] = a \/ (i \in DOMAIN s /\ Append(s, a)[i] = s[i])
  OBVIOUS

LEMMA AnsweredStays == Conserved /\ Answered /\ [Next]_vars => Answered'
  <1> SUFFICES ASSUME Conserved, Answered, [Next]_vars PROVE Answered'
    OBVIOUS
  <1>0. /\ received \in Seq(AllAnswers) /\ outbound \in Seq(AllAnswers)
        /\ state = "writing" => response_ \in AllAnswers
        /\ \A i \in DOMAIN received : Answerable(received[i], stream')
        /\ \A i \in DOMAIN outbound : Answerable(outbound[i], stream')
        /\ state = "writing" => Answerable(response_, stream')
    <2>1. ASSUME NEW a, Answerable(a, stream) PROVE Answerable(a, stream')
      BY <2>1, AnswerableStays
    <2> QED
      BY <2>1 DEF Answered
  <1>1. CASE UNCHANGED <<received, outbound, state, response_>>
    BY <1>0, <1>1 DEF Answered
  <1>2. CASE Reset \/ ReadError \/ WriteError
    <2>1. /\ outbound' \in {outbound, <<>>}
          /\ UNCHANGED <<received, response_>>
          /\ state' \in {state, "deleted"}
      BY <1>2 DEF Reset, ReadError, WriteError, session
    <2>2. <<>> \in Seq(AllAnswers) /\ DOMAIN <<>> = {}
      OBVIOUS
    <2>3. /\ outbound' \in Seq(AllAnswers)
          /\ \A i \in DOMAIN outbound' : Answerable(outbound'[i], stream')
      BY <1>0, <2>1, <2>2
    <2> QED
      BY <1>0, <2>1, <2>3 DEF Answered
  <1>3. CASE Receive
    <2>1. /\ outbound # <<>>
          /\ received' = Append(received, outbound[1])
          /\ outbound' = Tail(outbound)
          /\ UNCHANGED <<state, response_>>
      BY <1>0, <1>3 DEF Receive, session
    <2>2. 1 \in DOMAIN outbound /\ outbound[1] \in AllAnswers
      BY <1>0, <2>1
    <2>3. /\ received' \in Seq(AllAnswers)
          /\ \A i \in DOMAIN received' : Answerable(received'[i], stream')
      BY <1>0, <2>1, <2>2, AppendToAnswers
    <2>4. /\ outbound' \in Seq(AllAnswers)
          /\ \A i \in DOMAIN outbound' : Answerable(outbound'[i], stream')
      BY <1>0, <2>1, TailOfAnswers
    <2> QED
      BY <1>0, <2>1, <2>3, <2>4 DEF Answered
  <1>4. ASSUME NEW n \in 1..max_length, ReadMore(n) \/ ReadInvalid(n) \/ ReadRequest(n)
        PROVE  Answered'
    <2>1. UNCHANGED <<received, outbound>>
      BY <1>4 DEF ReadMore, ReadInvalid, ReadRequest
    <2>2. Conserved'
      BY ConservedStays
    <2>3. CASE ReadMore(n)
      BY <1>0, <2>1, <2>3 DEF ReadMore, Answered
    <2>4. CASE ReadInvalid(n) \/ ReadRequest(n)
      <3>1. /\ IsComplete(request_buffer_')
            /\ response_' = ResponseTo(Parse(request_buffer_'))
        BY <2>4 DEF ReadInvalid, ReadRequest, SendResponse
      <3>2. request_buffer_' # <<>>
        <4>1. DOMAIN <<>> = {}
          OBVIOUS
        <4>2. DOMAIN request_buffer_' # {}
          BY <3>1 DEF IsComplete, HeadEnds
        <4> QED
          BY <4>1, <4>2
      <3>3. response_' \in AllAnswers /\ Answerable(response_', stream')
        BY <2>2, <3>1, <3>2, AnswersTheBuffer
      <3> QED
        BY <1>0, <2>1, <3>3 DEF Answered
    <2> QED
      BY <1>4, <2>3, <2>4
  <1>5. CASE WriteDone
    <2>1. /\ state = "writing" /\ state' = "reading"
          /\ outbound' = Append(outbound, response_)
          /\ UNCHANGED received
      BY <1>5 DEF WriteDone
    <2>2. /\ outbound' \in Seq(AllAnswers)
          /\ \A i \in DOMAIN outbound' : Answerable(outbound'[i], stream')
      BY <1>0, <2>1, AppendToAnswers
    <2> QED
      BY <1>0, <2>1, <2>2 DEF Answered
  <1>6. (\E r \in Requests : Send(r)) \/ Close \/ Over \/ UNCHANGED vars
            => UNCHANGED <<received, outbound, state, response_>>
    BY DEF Send, Close, Over, vars, session
  <1> QED
    BY <1>1, <1>2, <1>3, <1>4, <1>5, <1>6 DEF Next, Handler

--------------------------------------------------------------------------------
(* Types                                                                      *)

\* What handlers may be called with.
AllCalls == {[url |-> Parse(buffer).url, body |-> Parse(buffer).body] :
                 buffer \in Seq(AllPieces)}

\* An answer that is sent is one: to an invalid request, or of a call.
TypesSoFar ==
    /\ client \in {"open", "closed", "gone"}
    /\ state \in {"reading", "writing", "deleted"}
    /\ sent \in Seq(Requests) /\ Len(sent) <= MaxRequests
    /\ response_ \in Responses
    /\ state = "writing" => response_ # NoResponse
    /\ \A i \in DOMAIN received : received[i] \in Responses \ {NoResponse}
    /\ \A i \in DOMAIN outbound : outbound[i] \in Responses \ {NoResponse}
    /\ executed \in Seq(AllCalls)

LEMMA TypesByParts == Conserved /\ TypesSoFar => TypeOK
  <1> SUFFICES ASSUME Conserved, TypesSoFar PROVE TypeOK
    OBVIOUS
  <1>1. reads \in 0..Len(stream)
    BY DEF Conserved
  <1>2. Range(outbound) \cup Range(received) \subseteq Responses \ {NoResponse}
    BY DEF TypesSoFar, Range
  <1> QED
    BY <1>1, <1>2 DEF TypesSoFar, TypeOK

LEMMA TypesInit == Init => TypesSoFar
  <1> SUFFICES ASSUME Init PROVE TypesSoFar
    OBVIOUS
  <1>1. <<>> \in Seq(Requests) /\ <<>> \in Seq(AllCalls) /\ Len(<<>>) = 0
    OBVIOUS
  <1>2. DOMAIN <<>> = {}
    OBVIOUS
  <1> QED
    BY <1>1, <1>2, MaxRequestsAssumption DEF Init, TypesSoFar, Responses

\* One more call: answers stay answers, and its own is one.
LEMMA CallsAddResponses ==
    ASSUME NEW call \in AllCalls, executed \in Seq(AllCalls),
           executed' = Append(executed, call)
    PROVE  /\ executed' \in Seq(AllCalls)
           /\ Responses \subseteq Responses'
           /\ [status |-> "handled", url |-> call.url, body |-> call.body] \in Responses'
  <1>1. /\ executed' \in Seq(AllCalls)
        /\ DOMAIN executed' = 1..(Len(executed) + 1)
        /\ DOMAIN executed = 1..Len(executed) /\ Len(executed) \in Nat
        /\ \A i \in DOMAIN executed : executed'[i] = executed[i]
        /\ executed'[Len(executed) + 1] = call
    OBVIOUS
  <1>2. \A i \in DOMAIN executed : i \in DOMAIN executed'
    BY <1>1
  <1>3. Range(executed) \subseteq Range(executed') /\ call \in Range(executed')
    BY <1>1, <1>2 DEF Range
  <1> QED
    BY <1>1, <1>3 DEF Responses

LEMMA TypesStay == Conserved /\ Answered /\ TypesSoFar /\ [Next]_vars => TypesSoFar'
  <1> SUFFICES ASSUME Conserved, Answered, TypesSoFar, [Next]_vars PROVE TypesSoFar'
    OBVIOUS
  <1>0. received \in Seq(AllAnswers) /\ outbound \in Seq(AllAnswers)
    BY DEF Answered
  <1>1. ASSUME NEW r \in Requests, Send(r) PROVE TypesSoFar'
    <2>1. /\ sent' = Append(sent, r) /\ Len(sent) < MaxRequests
          /\ UNCHANGED <<client, outbound, state, response_, received, executed>>
      BY <1>1 DEF Send, session
    <2>2. sent' \in Seq(Requests) /\ Len(sent') <= MaxRequests
      BY <2>1, MaxRequestsAssumption DEF TypesSoFar
    <2> QED
      BY <2>1, <2>2 DEF TypesSoFar, Responses
  <1>2. CASE Close \/ Reset \/ ReadError \/ WriteError \/ Over \/ UNCHANGED vars
    <2>1. /\ client' \in {client, "closed", "gone"}
          /\ outbound' = outbound \/ outbound' = <<>>
          /\ state' \in {state, "deleted"}
          /\ UNCHANGED <<sent, response_, received, executed>>
      BY <1>2 DEF Close, Reset, ReadError, WriteError, Over, vars, session, asked
    <2>2. DOMAIN <<>> = {}
      OBVIOUS
    <2>3. Responses' = Responses
      BY <2>1 DEF Responses
    <2>4. \A i \in DOMAIN outbound' : outbound'[i] \in Responses \ {NoResponse}
      BY <2>1, <2>2 DEF TypesSoFar
    <2> QED
      BY <2>1, <2>3, <2>4 DEF TypesSoFar
  <1>3. CASE Receive
    <2>1. /\ outbound # <<>>
          /\ received' = Append(received, outbound[1])
          /\ outbound' = Tail(outbound)
          /\ UNCHANGED <<client, sent, state, response_, executed>>
      BY <1>0, <1>3 DEF Receive, session, asked
    <2>2. 1 \in DOMAIN outbound /\ outbound[1] \in AllAnswers
      BY <1>0, <2>1
    <2>3. \A i \in DOMAIN received' : received'[i] \in Responses \ {NoResponse}
      BY <1>0, <2>1, <2>2, AppendToAnswers DEF TypesSoFar
    <2>4. \A i \in DOMAIN outbound' : outbound'[i] \in Responses \ {NoResponse}
      BY <1>0, <2>1, TailOfAnswers DEF TypesSoFar
    <2>5. Responses' = Responses
      BY <2>1 DEF Responses
    <2> QED
      BY <2>1, <2>3, <2>4, <2>5 DEF TypesSoFar
  <1>4. ASSUME NEW n \in 1..max_length, ReadMore(n) \/ ReadInvalid(n) PROVE TypesSoFar'
    <2>1. /\ UNCHANGED <<client, outbound, received, sent, executed>>
          /\ \/ UNCHANGED <<state, response_>>
             \/ /\ state' = "writing"
                /\ response_' = [status |-> "400 Bad Request"]
      BY <1>4 DEF ReadMore, ReadInvalid, SendResponse, ResponseTo, asked
    <2>2. /\ Responses' = Responses
          /\ [status |-> "400 Bad Request"] \in Responses
      BY <2>1 DEF Responses
    <2>3. [status |-> "400 Bad Request"] # NoResponse
      BY DEF NoResponse
    <2> QED
      BY <2>1, <2>2, <2>3 DEF TypesSoFar
  <1>5. ASSUME NEW n \in 1..max_length, ReadRequest(n) PROVE TypesSoFar'
    <2>1. PICK request : request = Parse(request_buffer_')
      OBVIOUS
    <2>2. PICK call : call = [url |-> request.url, body |-> request.body]
      OBVIOUS
    <2>3. /\ UNCHANGED <<client, outbound, received, sent>>
          /\ executed' = Append(executed, call)
          /\ state' = "writing"
          /\ response_' = [status |-> "handled", url |-> request.url, body |-> request.body]
      BY <1>5, <2>1, <2>2 DEF ReadRequest, SendResponse, ResponseTo, asked
    <2>4. request_buffer_' \in Seq(AllPieces)
      BY ConservedStays DEF Conserved
    <2>5. call \in AllCalls
      BY <2>1, <2>2, <2>4 DEF AllCalls
    <2>6. /\ executed' \in Seq(AllCalls)
          /\ Responses \subseteq Responses'
          /\ response_' \in Responses'
      BY <2>2, <2>3, <2>5, CallsAddResponses DEF TypesSoFar
    <2>7. response_' # NoResponse
      BY <2>3 DEF NoResponse
    <2> QED
      BY <2>3, <2>6, <2>7 DEF TypesSoFar
  <1>6. CASE WriteDone
    <2>1. /\ state = "writing" /\ state' = "reading"
          /\ outbound' = Append(outbound, response_)
          /\ response_' = NoResponse
          /\ UNCHANGED <<client, received, sent, executed>>
      BY <1>6 DEF WriteDone, asked
    <2>2. \A i \in DOMAIN outbound' : outbound'[i] \in Responses \ {NoResponse}
      BY <1>0, <2>1, AppendToAnswers DEF TypesSoFar, Answered
    <2>3. Responses' = Responses /\ NoResponse \in Responses
      BY <2>1 DEF Responses
    <2> QED
      BY <2>1, <2>2, <2>3 DEF TypesSoFar
  <1> QED
    BY <1>1, <1>2, <1>3, <1>4, <1>5, <1>6 DEF Next, Handler

--------------------------------------------------------------------------------
(* Theorems                                                                   *)

\* The invariant: the stream is conserved, answers have their ground in it.
IInv == Conserved /\ Answered /\ TypesSoFar

LEMMA InvariantInit == Init => IInv
  <1> SUFFICES ASSUME Init PROVE IInv
    OBVIOUS
  <1>1. /\ <<>> \in Seq(AllPieces) /\ <<>> \in Seq(AllAnswers)
        /\ DOMAIN <<>> = {} /\ Len(<<>>) = 0
    OBVIOUS
  <1>2. <<>> \o <<>> = <<>>
    OBVIOUS
  <1>3. Conserved
    BY <1>1, <1>2 DEF Init, Conserved
  <1>4. Answered
    BY <1>1 DEF Init, Answered
  <1> QED
    BY <1>3, <1>4, TypesInit DEF IInv

LEMMA Invariant == Spec => []IInv
  <1>1. IInv /\ [Next]_vars => IInv'
    BY ConservedStays, AnsweredStays, TypesStay DEF IInv
  <1> QED
    BY <1>1, InvariantInit, PTL DEF Spec

\* The session's state keeps its types, and an answer is that of a call or 400
\* (session.cc:101-158).
THEOREM TypeCorrect == Spec => []TypeOK
  <1>1. IInv => TypeOK
    BY TypesByParts DEF IInv
  <1> QED
    BY <1>1, Invariant, PTL

\* However requests are cut up, and however many there are, each answer is for a
\* complete head and a beginning of what the client sent: no byte is lost,
\* repeated or out of place (session.cc:101-134, request_parser.cc:10-59).
THEOREM AnswersAreOfTheStream == Spec => []AnswersReadTheStream
  <1>1. ASSUME IInv PROVE AnswersReadTheStream
    <2>1. /\ received \in Seq(AllAnswers) /\ outbound \in Seq(AllAnswers)
          /\ state = "writing" => response_ \in AllAnswers
      BY <1>1 DEF IInv, Answered
    <2>2. PICK last \in Seq(AllAnswers) :
              last = IF state = "writing" THEN <<response_>> ELSE <<>>
      <3>1. CASE state = "writing"
        <4>1. PICK answer \in AllAnswers : answer = response_
          BY <2>1, <3>1
        <4>2. <<answer>> \in Seq(AllAnswers)
          OBVIOUS
        <4> QED
          BY <3>1, <4>1, <4>2
      <3>2. CASE state # "writing"
        <4>1. <<>> \in Seq(AllAnswers)
          OBVIOUS
        <4> QED
          BY <3>2, <4>1
      <3> QED
        BY <3>1, <3>2
    <2>3. \A i \in DOMAIN last : last[i] = response_ /\ state = "writing"
      BY <2>2
    <2>4. \A i \in DOMAIN Answers :
              \/ \E j \in DOMAIN received : Answers[i] = received[j]
              \/ \E j \in DOMAIN outbound : Answers[i] = outbound[j]
              \/ \E j \in DOMAIN last : Answers[i] = last[j]
      <3>1. PICK front \in Seq(AllAnswers) : front = received \o outbound
        <4>1. received \o outbound \in Seq(AllAnswers)
          BY <2>1
        <4> QED
          BY <4>1
      <3>2. Answers = front \o last
        BY <2>2, <3>1 DEF Answers
      <3>3. \A i \in DOMAIN Answers :
                \/ i \in DOMAIN front /\ Answers[i] = front[i]
                \/ i - Len(front) \in DOMAIN last /\ Answers[i] = last[i - Len(front)]
        BY <3>2
      <3>4. \A i \in DOMAIN front :
                \/ i \in DOMAIN received /\ front[i] = received[i]
                \/ /\ i - Len(received) \in DOMAIN outbound
                   /\ front[i] = outbound[i - Len(received)]
        BY <2>1, <3>1
      <3> QED
        BY <3>3, <3>4
    <2>5. \A i \in DOMAIN Answers : Answerable(Answers[i], stream)
      BY <1>1, <2>3, <2>4 DEF IInv, Answered
    <2> QED
      BY <2>5 DEF Answerable, AnswersReadTheStream
  <1> QED
    BY <1>1, Invariant, PTL

--------------------------------------------------------------------------------
(* Each answer is sent once                                                   *)

Handled(answers) == {k \in DOMAIN answers : answers[k].status = "handled"}

LEMMA AppendFacts ==
    ASSUME NEW S, NEW s \in Seq(S), NEW a \in S
    PROVE  /\ Append(s, a) \in Seq(S)
           /\ Len(s) \in Nat /\ DOMAIN s = 1..Len(s)
           /\ DOMAIN Append(s, a) = 1..(Len(s) + 1)
           /\ Append(s, a)[Len(s) + 1] = a
           /\ \A k \in DOMAIN s : Append(s, a)[k] = s[k]
  OBVIOUS

\* An answer that no handler gave changes nothing.
LEMMA OtherAnswerKeepsOrder ==
    ASSUME NEW S, NEW answers \in Seq(S), NEW a \in S, a.status # "handled",
           NEW calls, AnswerInOrder(calls, answers)
    PROVE  AnswerInOrder(calls, Append(answers, a))
  <1>1. PICK place \in [DOMAIN calls -> DOMAIN answers] :
            /\ Range(place) = Handled(answers)
            /\ \A i, j \in DOMAIN calls : i < j => place[i] < place[j]
            /\ \A i \in DOMAIN calls : answers[place[i]] = ResponseOf(calls[i])
    BY DEF AnswerInOrder, Handled
  <1>2. PICK more \in Seq(S) : more = Append(answers, a)
    BY AppendFacts
  <1>3. /\ DOMAIN answers \subseteq DOMAIN more
        /\ \A k \in DOMAIN answers : more[k] = answers[k]
        /\ \A k \in DOMAIN more : k \in DOMAIN answers \/ more[k] = a
    BY <1>2, AppendFacts
  <1>4. Handled(more) = Handled(answers)
    BY <1>3 DEF Handled
  <1>5. place \in [DOMAIN calls -> DOMAIN more]
    BY <1>1, <1>3
  <1>6. \A i \in DOMAIN calls : more[place[i]] = ResponseOf(calls[i])
    BY <1>1, <1>3
  <1> QED
    BY <1>1, <1>2, <1>4, <1>5, <1>6 DEF AnswerInOrder, Handled

\* The answer of one more call comes after those of the calls before.
LEMMA NextAnswerKeepsOrder ==
    ASSUME NEW S, NEW answers \in Seq(S), NEW C, NEW calls \in Seq(C), NEW call \in C,
           ResponseOf(call) \in S, AnswerInOrder(calls, answers)
    PROVE  AnswerInOrder(Append(calls, call), Append(answers, ResponseOf(call)))
  <1>1. PICK place \in [DOMAIN calls -> DOMAIN answers] :
            /\ Range(place) = Handled(answers)
            /\ \A i, j \in DOMAIN calls : i < j => place[i] < place[j]
            /\ \A i \in DOMAIN calls : answers[place[i]] = ResponseOf(calls[i])
    BY DEF AnswerInOrder, Handled
  <1>2. PICK n \in Nat, k \in Nat :
            n = Len(calls) + 1 /\ k = Len(answers) + 1
    OBVIOUS
  <1>3. PICK a \in S : a = ResponseOf(call) /\ a.status = "handled"
    BY DEF ResponseOf
  <1>4a. PICK longer \in Seq(C) : longer = Append(calls, call)
    BY AppendFacts
  <1>4. /\ longer = Append(calls, call) /\ DOMAIN longer = 1..n /\ longer[n] = call
        /\ \A i \in DOMAIN calls : longer[i] = calls[i] /\ i \in 1..n - 1
        /\ \A i \in 1..n : i # n => i \in DOMAIN calls
    <2>1. DOMAIN longer = 1..n /\ longer[n] = call /\ DOMAIN calls = 1..n - 1
      BY <1>2, <1>4a, AppendFacts
    <2>2. \A i \in DOMAIN calls : longer[i] = calls[i]
      BY <1>4a, AppendFacts
    <2>3. \A i \in 1..n : i # n => i \in 1..n - 1
      OBVIOUS
    <2> QED
      BY <1>4a, <2>1, <2>2, <2>3, Zenon
  <1>5a. PICK more \in Seq(S) : more = Append(answers, a)
    BY AppendFacts
  <1>5. /\ more = Append(answers, a) /\ DOMAIN more = 1..k /\ more[k] = a
        /\ \A m \in DOMAIN answers : more[m] = answers[m] /\ m \in 1..k - 1
        /\ \A m \in 1..k : m # k => m \in DOMAIN answers
    <2>1. DOMAIN more = 1..k /\ more[k] = a /\ DOMAIN answers = 1..k - 1
      BY <1>2, <1>5a, AppendFacts
    <2>2. \A m \in DOMAIN answers : more[m] = answers[m]
      BY <1>5a, AppendFacts
    <2>3. \A m \in 1..k : m # k => m \in 1..k - 1
      OBVIOUS
    <2> QED
      BY <1>5a, <2>1, <2>2, <2>3, Zenon
  <1>6. PICK new \in [1..n -> 1..k] : new = [i \in 1..n |-> IF i = n THEN k ELSE place[i]]
    <2>1. k \in 1..k /\ \A i \in 1..n : i # n => place[i] \in 1..k
      BY <1>1, <1>2, <1>4, <1>5
    <2>2. [i \in 1..n |-> IF i = n THEN k ELSE place[i]] \in [1..n -> 1..k]
      BY <2>1
    <2> QED
      BY <2>2
  <1>7. /\ n \in 1..n /\ new[n] = k
        /\ \A i \in DOMAIN calls : i \in 1..n /\ new[i] = place[i] /\ new[i] \in DOMAIN answers
    BY <1>1, <1>2, <1>4, <1>6
  <1>8. Range(new) = Handled(more)
    <2>1. Handled(more) = Handled(answers) \cup {k}
      BY <1>2, <1>3, <1>5 DEF Handled
    <2>2. ASSUME NEW i \in 1..n PROVE new[i] \in Handled(answers) \cup {k}
      <3>1. CASE i = n
        BY <1>7, <3>1
      <3>2. CASE i # n
        <4>1. i \in DOMAIN calls /\ new[i] = place[i]
          BY <1>4, <1>7, <3>2
        <4>2. place[i] \in Range(place)
          BY <1>1, <4>1 DEF Range
        <4> QED
          BY <1>1, <4>1, <4>2
      <3> QED
        BY <3>1, <3>2
    <2>3. ASSUME NEW m \in Handled(answers) PROVE \E i \in 1..n : new[i] = m
      <3>1. PICK i \in DOMAIN calls : place[i] = m
        BY <1>1 DEF Range
      <3> QED
        BY <1>7, <3>1
    <2>4. \A m \in Handled(more) : \E i \in 1..n : new[i] = m
      BY <1>7, <2>1, <2>3
    <2>5. Range(new) = {new[i] : i \in 1..n}
      BY <1>6 DEF Range
    <2>6. \A i \in 1..n : new[i] \in Handled(more)
      BY <2>1, <2>2
    <2> QED
      BY <2>4, <2>5, <2>6
  <1>9. ASSUME NEW i \in 1..n, NEW j \in 1..n, i < j PROVE new[i] < new[j]
    <2>1. i # n /\ i \in DOMAIN calls /\ new[i] = place[i] /\ new[i] \in 1..k - 1
      BY <1>2, <1>4, <1>5, <1>7, <1>9
    <2>2. CASE j = n
      BY <1>2, <1>7, <2>1, <2>2
    <2>3. CASE j # n
      BY <1>1, <1>4, <1>7, <1>9, <2>1, <2>3
    <2> QED
      BY <2>2, <2>3
  <1>10. ASSUME NEW i \in 1..n PROVE more[new[i]] = ResponseOf(longer[i])
    <2>1. CASE i = n
      BY <1>3, <1>4, <1>5, <1>7, <2>1
    <2>2. CASE i # n
      <3>1. i \in DOMAIN calls /\ longer[i] = calls[i] /\ new[i] = place[i]
        BY <1>4, <1>7, <2>2
      <3>2. more[new[i]] = answers[place[i]]
        BY <1>5, <1>7, <3>1
      <3> QED
        BY <1>1, <3>1, <3>2
    <2> QED
      BY <2>1, <2>2
  <1>11. AnswerInOrder(longer, more)
    <2>1. DOMAIN longer = 1..n /\ DOMAIN more = 1..k
      BY <1>4, <1>5
    <2>2. Range(new) = {m \in DOMAIN more : more[m].status = "handled"}
      BY <1>8 DEF Handled
    <2> QED
      BY <1>6, <1>9, <1>10, <2>1, <2>2 DEF AnswerInOrder
  <1> QED
    BY <1>3, <1>4, <1>5, <1>11

LEMMA AnswersAreSequences ==
    ASSUME Answered
    PROVE  /\ received \o outbound \in Seq(AllAnswers)
           /\ state # "writing" => Answers = received \o outbound
           /\ state = "writing" => Answers = Append(received \o outbound, response_)
           /\ Answers \in Seq(AllAnswers)
  <1>1. PICK front \in Seq(AllAnswers) : front = received \o outbound
    <2>1. received \o outbound \in Seq(AllAnswers)
      BY DEF Answered
    <2> QED
      BY <2>1
  <1>2. CASE state # "writing"
    <2>1. front \o <<>> = front
      OBVIOUS
    <2> QED
      BY <1>1, <1>2, <2>1 DEF Answers
  <1>3. CASE state = "writing"
    <2>1. PICK a \in AllAnswers : a = response_
      BY <1>3 DEF Answered
    <2>2. front \o <<a>> = Append(front, a) /\ Append(front, a) \in Seq(AllAnswers)
      OBVIOUS
    <2>3. Answers = Append(front, a)
      BY <1>1, <1>3, <2>1, <2>2 DEF Answers
    <2> QED
      BY <1>1, <1>3, <2>1, <2>2, <2>3
  <1> QED
    BY <1>2, <1>3

LEMMA SentOnceStays ==
    ASSUME IInv, EveryAnswerIsSentOnce, [Next]_vars, IInv'
    PROVE  EveryAnswerIsSentOnce'
  <1>0. SUFFICES ASSUME client' # "gone" PROVE AnswerInOrder(executed', Answers')
    BY DEF EveryAnswerIsSentOnce
  <1>1. client # "gone"
    BY <1>0 DEF Next, Handler, Send, Close, Reset, Receive, ReadMore, ReadInvalid,
                ReadRequest, ReadError, WriteDone, WriteError, Over, vars
  <1>2. AnswerInOrder(executed, Answers)
    BY <1>1 DEF EveryAnswerIsSentOnce
  <1>3. PICK front \in Seq(AllAnswers) :
            /\ front = received \o outbound
            /\ state # "writing" => Answers = front
            /\ state = "writing" => Answers = Append(front, response_)
    BY AnswersAreSequences DEF IInv
  <1>4. CASE UNCHANGED <<received, outbound, state, response_, executed>>
    BY <1>2, <1>4 DEF Answers
  <1>5. CASE Receive
    <2>1. /\ outbound # <<>>
          /\ received' = Append(received, Head(outbound)) /\ outbound' = Tail(outbound)
          /\ UNCHANGED <<state, response_, executed>>
      BY <1>5 DEF Receive, session
    <2>2. received \in Seq(AllAnswers) /\ outbound \in Seq(AllAnswers)
      BY DEF IInv, Answered
    <2>3. Append(received, Head(outbound)) \o Tail(outbound) = received \o outbound
      BY <2>1, <2>2
    <2>4. Answers' = Answers
      BY <2>1, <2>3 DEF Answers
    <2> QED
      BY <1>2, <2>1, <2>4
  <1>6. CASE WriteDone
    <2>1. /\ state = "writing" /\ state' = "reading"
          /\ outbound' = Append(outbound, response_)
          /\ UNCHANGED <<received, executed>>
      BY <1>6 DEF WriteDone
    <2>2. PICK a \in AllAnswers : a = response_
      BY <2>1 DEF IInv, Answered
    <2>3. received \o Append(outbound, a) = Append(received \o outbound, a)
      BY DEF IInv, Answered
    <2>4. Answers' = received' \o outbound'
      BY <2>1, AnswersAreSequences DEF IInv, Answers
    <2>5. Answers' = Answers
      BY <1>3, <2>1, <2>2, <2>3, <2>4
    <2> QED
      BY <1>2, <2>1, <2>5
  <1>7. ASSUME NEW n \in 1..max_length, ReadMore(n) PROVE AnswerInOrder(executed', Answers')
    BY <1>4, <1>7 DEF ReadMore
  <1>8. ASSUME NEW n \in 1..max_length, ReadInvalid(n) \/ ReadRequest(n)
        PROVE  /\ Answers = front /\ Answers' = Append(front, response_')
               /\ response_' \in AllAnswers
               /\ response_' = ResponseTo(Parse(request_buffer_'))
    <2>1. /\ state = "reading" /\ state' = "writing" /\ UNCHANGED <<received, outbound>>
          /\ response_' = ResponseTo(Parse(request_buffer_'))
      BY <1>8 DEF ReadInvalid, ReadRequest, ReadSome, SendResponse
    <2>2. response_' \in AllAnswers
      BY <2>1 DEF IInv, Answered
    <2>3. PICK a \in AllAnswers : a = response_'
      BY <2>2
    <2>4. front \o <<a>> = Append(front, a)
      OBVIOUS
    <2>5. Answers' = Append(front, response_')
      BY <1>3, <2>1, <2>3, <2>4 DEF Answers
    <2> QED
      BY <1>3, <2>1, <2>2, <2>5
  <1>9. ASSUME NEW n \in 1..max_length, ReadInvalid(n) PROVE AnswerInOrder(executed', Answers')
    <2>1. UNCHANGED executed /\ response_' = [status |-> "400 Bad Request"]
      BY <1>9 DEF ReadInvalid, SendResponse, ResponseTo
    <2>2. response_'.status # "handled"
      BY <2>1
    <2> QED
      BY <1>2, <1>8, <1>9, <2>1, <2>2, OtherAnswerKeepsOrder
  <1>10. ASSUME NEW n \in 1..max_length, ReadRequest(n) PROVE AnswerInOrder(executed', Answers')
    <2>1. PICK request : request = Parse(request_buffer_')
      OBVIOUS
    <2>2. PICK call : call = [url |-> request.url, body |-> request.body]
      OBVIOUS
    <2>3. executed' = Append(executed, call) /\ response_' = ResponseOf(call)
      BY <1>10, <2>1, <2>2 DEF ReadRequest, SendResponse, ResponseTo, ResponseOf
    <2>4. request_buffer_' \in Seq(AllPieces) /\ executed \in Seq(AllCalls)
      BY DEF IInv, Conserved, TypesSoFar
    <2>5. call \in AllCalls
      BY <2>1, <2>2, <2>4 DEF AllCalls
    <2> QED
      BY <1>2, <1>8, <1>10, <2>3, <2>4, <2>5, NextAnswerKeepsOrder
  <1>11. CASE (\E r \in Requests : Send(r)) \/ Close \/ Over \/ UNCHANGED vars
    BY <1>4, <1>11 DEF Send, Close, Over, vars, session
  <1>12. CASE ReadError
    <2>1. /\ state = "reading" /\ state' = "deleted"
          /\ UNCHANGED <<received, outbound, executed>>
      BY <1>12 DEF ReadError
    <2>2. Answers' = Answers
      BY <2>1 DEF Answers
    <2> QED
      BY <1>2, <2>1, <2>2
  <1>13. ~Reset /\ ~WriteError
    BY <1>0, <1>1 DEF Reset, WriteError
  <1> QED
    BY <1>5, <1>6, <1>7, <1>9, <1>10, <1>11, <1>12, <1>13 DEF Next, Handler

\* Each call of a handler yields one answer, written once, and the answers of a
\* connection that lasts come in the order of the calls (session.cc:121-134,
\* 147-153).
THEOREM AnswersAreSentOnce == Spec => []EveryAnswerIsSentOnce
  <1>1. Init => EveryAnswerIsSentOnce
    <2> SUFFICES ASSUME Init PROVE AnswerInOrder(executed, Answers)
      BY DEF EveryAnswerIsSentOnce
    <2>1. executed = <<>> /\ Answers = <<>>
      <3>1. (<<>> \o <<>>) \o <<>> = <<>>
        OBVIOUS
      <3> QED
        BY <3>1 DEF Init, Answers
    <2>2. PICK place \in [{} -> {}] : TRUE
      <3>1. [i \in {} |-> i] \in [{} -> {}]
        OBVIOUS
      <3> QED
        BY <3>1
    <2>3. DOMAIN <<>> = {} /\ Range(place) = {}
      BY DEF Range
    <2> QED
      BY <2>1, <2>2, <2>3 DEF AnswerInOrder
  <1>2. IInv /\ IInv' /\ EveryAnswerIsSentOnce /\ [Next]_vars => EveryAnswerIsSentOnce'
    BY SentOnceStays
  <1> QED
    BY <1>1, <1>2, Invariant, PTL DEF Spec

--------------------------------------------------------------------------------
(* The first request is served once                                           *)

CallFor(buffer) == [url |-> Parse(buffer).url, body |-> Parse(buffer).body]

\* Of a client that has sent at most one request: nothing is read before it is
\* sent, one read makes at most one call, of what it has read, and without a body
\* nothing is left to read once the head is complete.
FirstRequest ==
    /\ sent = <<>> => stream = <<>>
    /\ Len(sent) = 1 => stream = Pieces(sent[1])
    /\ reads = 0 => executed = <<>>
    /\ reads = 1 => executed = <<>> \/ executed = <<CallFor(request_buffer_)>>
    /\ Len(sent) = 1 /\ BodyPieces[sent[1]] = 0 =>
           \/ executed = <<>>
           \/ inbound = <<>> /\ executed = <<CallFor(request_buffer_)>>

LEMMA JoinLength ==
    ASSUME NEW S, NEW s \in Seq(S), NEW u \in Seq(S)
    PROVE  /\ s \o u \in Seq(S) /\ Len(s) \in Nat /\ Len(u) \in Nat
           /\ Len(s \o u) = Len(s) + Len(u)
  OBVIOUS

LEMMA JoinParts ==
    ASSUME NEW S, NEW s \in Seq(S), NEW u \in Seq(S)
    PROVE  /\ \A n \in 1..Len(s) : n \in 1..Len(s \o u) /\ (s \o u)[n] = s[n]
           /\ \A n \in 1..Len(u) : (s \o u)[Len(s) + n] = u[n]
  OBVIOUS

LEMMA SequenceFacts ==
    ASSUME NEW S, NEW s \in Seq(S)
    PROVE  /\ Len(s) \in Nat /\ DOMAIN s = 1..Len(s)
           /\ \A n \in 1..Len(s) : s[n] \in S
           /\ Len(s) = 0 <=> s = <<>>
  OBVIOUS

\* The pieces of a request, one by one.
LEMMA PiecesByPart ==
    ASSUME NEW r \in Requests, NEW s, s = Pieces(r)
    PROVE  /\ s \in Seq(AllPieces) /\ BodyPieces[r] \in Nat
           /\ Len(s) = BodyPieces[r] + 2
           /\ s[1] = Piece(r, "lines") /\ s[2] = Piece(r, "empty line")
           /\ \A n \in 1..BodyPieces[r] : s[n + 2] = Piece(r, "body")
  <1>1. PICK k \in Nat : k = BodyPieces[r]
    BY BodyPiecesAssumption
  <1>2. PICK l \in AllPieces, e \in AllPieces, p \in AllPieces :
            l = Piece(r, "lines") /\ e = Piece(r, "empty line") /\ p = Piece(r, "body")
    BY DEF Piece, AllPieces
  <1>3. PICK body \in Seq(AllPieces) : body = [n \in 1..k |-> p]
    <2>1. [n \in 1..k |-> p] \in Seq(AllPieces)
      OBVIOUS
    <2> QED
      BY <2>1
  <1>4. PICK front \in Seq(AllPieces) : front = <<l, e>>
    <2>1. <<l, e>> \in Seq(AllPieces)
      OBVIOUS
    <2> QED
      BY <2>1
  <1>5. Len(front) = 2 /\ front[1] = l /\ front[2] = e /\ Len(body) = k
    BY <1>3, <1>4
  <1>6. s = front \o body
    BY <1>1, <1>2, <1>3, <1>4 DEF Pieces
  <1>7. s \in Seq(AllPieces) /\ Len(s) = k + 2 /\ s[1] = l /\ s[2] = e
    <2>1. s \in Seq(AllPieces) /\ Len(s) = 2 + k
      <3>1. s \in Seq(AllPieces) /\ Len(s) = Len(front) + Len(body)
        BY <1>6, JoinLength
      <3> QED
        BY <1>5, <3>1
    <2>2. 1 \in 1..Len(front) /\ 2 \in 1..Len(front)
      BY <1>5
    <2>3. s[1] = front[1] /\ s[2] = front[2]
      BY <1>6, <2>2, JoinParts
    <2> QED
      BY <1>5, <2>1, <2>3
  <1>8. ASSUME NEW n \in 1..k PROVE s[n + 2] = p
    <2>1. s[Len(front) + n] = body[n]
      <3>1. n \in 1..Len(body)
        BY <1>5
      <3> QED
        BY <1>6, <3>1, JoinParts
    <2> QED
      BY <1>3, <1>5, <2>1
  <1> QED
    BY <1>1, <1>2, <1>7, <1>8

LEMMA PartsDiffer ==
    \A r : /\ Piece(r, "lines").part # "empty line" /\ Piece(r, "body").part # "empty line"
           /\ Piece(r, "empty line").part = "empty line" /\ Piece(r, "lines").request = r
  BY DEF Piece

\* A request that arrives whole is called with its own body.
LEMMA CallForWhole ==
    ASSUME NEW r \in Requests
    PROVE  CallFor(Pieces(r)) = [url |-> r, body |-> [n \in 1..BodyPieces[r] |-> Piece(r, "body")]]
  <1>1. PICK s \in Seq(AllPieces) : s = Pieces(r)
    BY PiecesByPart
  <1>2. PICK k \in Nat : k = BodyPieces[r] /\ Len(s) = k + 2
    <2>1. BodyPieces[r] \in Nat /\ Len(s) = BodyPieces[r] + 2
      BY <1>1, PiecesByPart
    <2> QED
      BY <2>1
  <1>3. /\ s[1] = Piece(r, "lines") /\ s[2] = Piece(r, "empty line")
        /\ \A n \in 1..k : s[n + 2] = Piece(r, "body")
    BY <1>1, <1>2, PiecesByPart
  <1>4. ASSUME NEW n \in 1..k + 2, n # 2 PROVE s[n].part # "empty line"
    <2>1. CASE n = 1
      BY <1>3, <2>1, PartsDiffer
    <2>2. CASE n # 1
      <3>1. PICK m \in 1..k : n = m + 2
        <4>1. n - 2 \in 1..k /\ n = (n - 2) + 2
          BY <1>4, <2>2
        <4> QED
          BY <4>1
      <3> QED
        BY <1>3, <3>1, PartsDiffer
    <2> QED
      BY <2>1, <2>2
  <1>5. HeadEnds(s) = {2}
    <2>1. DOMAIN s = 1..k + 2 /\ 2 \in 1..k + 2
      BY <1>2
    <2>2. s[2].part = "empty line"
      BY <1>3, PartsDiffer
    <2> QED
      BY <1>4, <2>1, <2>2 DEF HeadEnds
  <1>6. Min(HeadEnds(s)) = 2
    <2>1. \E x \in {2} : \A y \in {2} : x <= y
      OBVIOUS
    <2> QED
      BY <1>5, <2>1 DEF Min
  <1>7. SubSeq(s, 3, Len(s)) = [n \in 1..k |-> Piece(r, "body")]
    <2>1. SubSeq(s, 3, Len(s)) = [n \in 1..k |-> s[n + 2]]
      BY <1>2
    <2>2. [n \in 1..k |-> s[n + 2]] = [n \in 1..k |-> Piece(r, "body")]
      BY <1>3
    <2> QED
      BY <2>1, <2>2
  <1>8. Parse(s).url = r
    BY <1>3, PartsDiffer DEF Parse
  <1>9. Parse(s).body = SubSeq(s, 3, Len(s))
    BY <1>6 DEF Parse
  <1> QED
    BY <1>1, <1>2, <1>7, <1>8, <1>9 DEF CallFor

LEMMA FirstRequestRead ==
    ASSUME IInv, IInv', FirstRequest, NEW n \in 1..max_length,
           ReadMore(n) \/ ReadInvalid(n) \/ ReadRequest(n)
    PROVE  FirstRequest'
  <1>0. /\ inbound \in Seq(AllPieces) /\ request_buffer_ \in Seq(AllPieces)
        /\ reads \in Nat /\ stream = request_buffer_ \o inbound
    <2>1. request_buffer_ \in Seq(AllPieces) /\ reads \in 0..Len(request_buffer_)
      BY DEF IInv, Conserved
    <2>2. reads \in Nat
      BY <2>1, SequenceFacts
    <2> QED
      BY <2>2 DEF IInv, Conserved
  <1>1. UNCHANGED <<sent, stream>> /\ n \in 1..Len(inbound) /\ reads' = reads + 1
    <2>1. UNCHANGED <<sent, stream>> /\ n <= Len(inbound) /\ reads' = reads + 1
      BY DEF ReadMore, ReadInvalid, ReadRequest, ReadSome, asked
    <2>2. Len(inbound) \in Nat /\ n \in Nat /\ n >= 1
      BY <1>0, MaxLengthAssumption, SequenceFacts
    <2> QED
      BY <2>1, <2>2
  <1>2. \/ executed' = executed
        \/ /\ executed' = Append(executed, CallFor(request_buffer_'))
           /\ IsComplete(request_buffer_')
    BY DEF ReadMore, ReadInvalid, ReadRequest, CallFor
  <1>3. inbound # <<>> /\ sent # <<>> /\ reads' # 0
    <2>1. Len(inbound) # 0 /\ Len(inbound) \in Nat
      BY <1>0, <1>1, SequenceFacts
    <2>2. inbound # <<>>
      BY <1>0, <2>1, SequenceFacts
    <2>3. stream # <<>>
      <3>1. Len(stream) = Len(request_buffer_) + Len(inbound) /\ Len(request_buffer_) \in Nat
        BY <1>0, JoinLength
      <3>2. Len(stream) # 0
        BY <2>1, <3>1
      <3>3. Len(<<>>) = 0
        OBVIOUS
      <3> QED
        BY <3>2, <3>3
    <2>4. reads' # 0
      BY <1>0, <1>1
    <2> QED
      BY <2>2, <2>3, <2>4 DEF FirstRequest
  <1>4. ASSUME executed = <<>>
        PROVE  executed' = <<>> \/ executed' = <<CallFor(request_buffer_')>>
    <2>1. PICK call : call = CallFor(request_buffer_')
      OBVIOUS
    <2>2. Append(<<>>, call) = <<call>>
      OBVIOUS
    <2> QED
      BY <1>2, <1>4, <2>1, <2>2
  <1>5. reads' = 1 => executed' = <<>> \/ executed' = <<CallFor(request_buffer_')>>
    <2>1. ASSUME reads' = 1 PROVE reads = 0
      BY <1>0, <1>1, <2>1
    <2> QED
      BY <1>4, <2>1 DEF FirstRequest
  <1>6. ASSUME Len(sent) = 1, BodyPieces[sent[1]] = 0, executed' # <<>>
        PROVE  inbound' = <<>> /\ executed' = <<CallFor(request_buffer_')>>
    <2>1. executed = <<>>
      BY <1>3, <1>6 DEF FirstRequest
    <2>2. executed' = <<CallFor(request_buffer_')>> /\ IsComplete(request_buffer_')
      BY <1>2, <1>4, <1>6, <2>1
    <2>3. PICK r \in Requests : r = sent[1]
      <3>1. sent \in Seq(Requests) /\ 1 \in 1..Len(sent)
        BY <1>6 DEF IInv, TypesSoFar
      <3> QED
        BY <3>1, SequenceFacts
    <2>4. stream' = Pieces(r)
      BY <1>1, <1>6, <2>3 DEF FirstRequest
    <2>5. /\ stream' \in Seq(AllPieces) /\ Len(stream') = 2
          /\ stream'[1] = Piece(r, "lines")
      <3>1. /\ stream' \in Seq(AllPieces) /\ Len(stream') = BodyPieces[r] + 2
            /\ stream'[1] = Piece(r, "lines")
        BY <2>4, PiecesByPart
      <3> QED
        BY <1>6, <2>3, <3>1
    <2>6. /\ request_buffer_' \in Seq(AllPieces) /\ inbound' \in Seq(AllPieces)
          /\ stream' = request_buffer_' \o inbound'
      BY DEF IInv, Conserved
    <2>7. PICK m \in DOMAIN request_buffer_' : request_buffer_'[m].part = "empty line"
      BY <2>2 DEF IsComplete, HeadEnds
    <2>8. PICK read \in Nat, left \in Nat :
              /\ read = Len(request_buffer_') /\ left = Len(inbound') /\ read + left = 2
              /\ m \in 1..read
      <3>1. /\ Len(request_buffer_') \in Nat /\ Len(inbound') \in Nat
            /\ Len(stream') = Len(request_buffer_') + Len(inbound')
        BY <2>6, JoinLength
      <3>2. m \in 1..Len(request_buffer_')
        BY <2>6, SequenceFacts
      <3> QED
        BY <2>5, <3>1, <3>2
    <2>9. stream'[m].part = "empty line"
      <3>1. m \in 1..Len(request_buffer_')
        BY <2>8
      <3>2. stream'[m] = request_buffer_'[m]
        BY <2>6, <3>1, JoinParts
      <3> QED
        BY <2>7, <3>2
    <2>10. m # 1
      BY <2>5, <2>9, PartsDiffer
    <2>11. left = 0
      BY <2>8, <2>10
    <2>12. inbound' = <<>>
      BY <2>6, <2>8, <2>11, SequenceFacts
    <2> QED
      BY <2>2, <2>12
  <1> QED
    BY <1>1, <1>3, <1>5, <1>6 DEF FirstRequest

LEMMA FirstRequestSend ==
    ASSUME IInv, IInv', FirstRequest, NEW r \in Requests, Send(r)
    PROVE  FirstRequest'
  <1>1. /\ sent' = Append(sent, r) /\ stream' = stream \o Pieces(r)
        /\ UNCHANGED <<request_buffer_, executed, reads>>
    BY DEF Send, session
  <1>2. sent \in Seq(Requests) /\ sent' # <<>>
    BY <1>1 DEF IInv, TypesSoFar
  <1>3. CASE sent = <<>>
    <2>1. stream = <<>> /\ stream \in Seq(AllPieces)
      <3>1. <<>> \in Seq(AllPieces)
        OBVIOUS
      <3> QED
        BY <1>3, <3>1 DEF FirstRequest
    <2>2. sent'[1] = r
      BY <1>1, <1>3
    <2>3. stream' = Pieces(r)
      <3>1. PICK s \in Seq(AllPieces) : s = Pieces(r)
        BY PiecesType
      <3>2. <<>> \o s = s
        OBVIOUS
      <3> QED
        BY <1>1, <2>1, <3>1, <3>2
    <2>4. executed = <<>>
      <3>1. /\ stream = request_buffer_ \o inbound /\ reads \in 0..Len(request_buffer_)
            /\ request_buffer_ \in Seq(AllPieces) /\ inbound \in Seq(AllPieces)
        BY DEF IInv, Conserved
      <3>2. Len(request_buffer_) = 0
        <4>1. /\ Len(stream) = Len(request_buffer_) + Len(inbound)
              /\ Len(request_buffer_) \in Nat /\ Len(inbound) \in Nat
          BY <3>1, JoinLength
        <4>2. Len(<<>>) = 0
          OBVIOUS
        <4>3. PICK read \in Nat, left \in Nat :
                  read = Len(request_buffer_) /\ left = Len(inbound) /\ read + left = Len(stream)
          BY <4>1
        <4>4. Len(stream) = 0
          BY <2>1, <4>2
        <4>5. read = 0
          BY <4>3, <4>4
        <4> QED
          BY <4>3, <4>5
      <3>3. reads = 0
        BY <3>1, <3>2
      <3> QED
        BY <3>3 DEF FirstRequest
    <2> QED
      BY <1>1, <1>2, <2>2, <2>3, <2>4 DEF FirstRequest
  <1>4. CASE sent # <<>>
    <2>1. Len(sent') # 1
      BY <1>1, <1>2, <1>4
    <2> QED
      BY <1>1, <1>2, <2>1 DEF FirstRequest
  <1> QED
    BY <1>3, <1>4

LEMMA FirstRequestStays ==
    ASSUME IInv, IInv', FirstRequest, [Next]_vars
    PROVE  FirstRequest'
  <1>1. CASE UNCHANGED <<sent, stream, request_buffer_, inbound, executed, reads>>
    BY <1>1 DEF FirstRequest
  <1>2. \/ \E r \in Requests : Send(r)
        \/ \E n \in 1..max_length : ReadMore(n) \/ ReadInvalid(n) \/ ReadRequest(n)
        \/ UNCHANGED <<sent, stream, request_buffer_, inbound, executed, reads>>
    BY DEF Next, Handler, Close, Reset, Receive, ReadError, WriteDone, WriteError, Over,
           session, vars, asked
  <1> QED
    BY <1>1, <1>2, FirstRequestRead, FirstRequestSend

\* A client that sends one request, without a body, or with one that arrives in
\* one read with it, has its handler called at most once, with its own url and
\* body (session.cc:101-134, request_parser.cc:10-59).
THEOREM FirstRequestIsServedOnce == Spec => []OneRequestServedOnce
  <1>1. Init => FirstRequest
    <2> SUFFICES ASSUME Init PROVE FirstRequest
      OBVIOUS
    <2>1. Len(<<>>) # 1
      OBVIOUS
    <2> QED
      BY <2>1 DEF Init, FirstRequest
  <1>2. IInv /\ IInv' /\ FirstRequest /\ [Next]_vars => FirstRequest'
    BY FirstRequestStays
  <1>3. ASSUME IInv, FirstRequest PROVE OneRequestServedOnce
    <2> SUFFICES ASSUME Len(sent) = 1,
                        BodyPieces[sent[1]] = 0 \/ (reads <= 1 /\ inbound = <<>>),
                        executed # <<>>
                 PROVE  executed = <<[url |-> sent[1],
                                      body |-> [n \in 1..BodyPieces[sent[1]] |->
                                                    Piece(sent[1], "body")]]>>
      BY DEF OneRequestServedOnce
    <2>1. inbound = <<>> /\ executed = <<CallFor(request_buffer_)>>
      <3>1. reads \in Nat
        BY <1>3 DEF IInv, Conserved
      <3> QED
        BY <1>3, <3>1 DEF FirstRequest
    <2>2. request_buffer_ = stream
      <3>1. stream = request_buffer_ \o <<>> /\ request_buffer_ \in Seq(AllPieces)
        BY <1>3, <2>1 DEF IInv, Conserved
      <3> QED
        BY <3>1
    <2>3. PICK r \in Requests : r = sent[1]
      <3>1. sent \in Seq(Requests) /\ 1 \in 1..Len(sent)
        BY <1>3 DEF IInv, TypesSoFar
      <3> QED
        BY <3>1, SequenceFacts
    <2>4. request_buffer_ = Pieces(r)
      BY <1>3, <2>2, <2>3 DEF FirstRequest
    <2> QED
      BY <2>1, <2>3, <2>4, CallForWhole
  <1> QED
    BY <1>1, <1>2, <1>3, Invariant, PTL DEF Spec

================================================================================
