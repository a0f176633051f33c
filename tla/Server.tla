--------------------------------- MODULE Server ---------------------------------
(******************************************************************************)
(* The server's event loop: src/server_main.cc (thread pool, signal handling, *)
(* shutdown), src/server.cc (the acceptor) and the life of the session        *)
(* objects of src/session.cc.  There are no strands and no locks, and a       *)
(* session is a raw pointer that deletes itself: what keeps a session alive   *)
(* and to one thread at a time is that exactly one asynchronous operation,    *)
(* queued completion or running handler refers to it.                         *)
(*                                                                            *)
(* What a session reads and answers is in module Connection.                  *)
(******************************************************************************)
EXTENDS Integers, FiniteSets, Sequences

CONSTANTS
    Threads,    \* the pool: hardware_concurrency() threads in io_service.run()
    Sessions,   \* session objects the allocator can hand out; bound: a
                \* connection arrives only while one is left for the next accept
    NoSession   \* on[t] of a thread that runs no session's handler

\* hardware_concurrency() may return 0; such a server accepts nothing and main
\* returns at once.
ASSUME ThreadsAssumption == Threads # {}
ASSUME NoSessionAssumption == NoSession \notin Sessions

VARIABLES
    phase,       \* the process: "running", "exited" or "terminated"
    stopped,     \* io_service.stop() was called
    signals,     \* the signal_set: "waiting", "queued" or "handled"
    live,        \* session objects that are allocated
    peer,        \* peer[s], s's socket: "none", "open" or "reset"
    outstanding, \* outstanding[s][k]: operations of kind k begun on s's socket
    queue,       \* completions that wait for a thread, oldest first
    at,          \* at[t]: where in a handler thread t is
    on,          \* on[t]: the session that handler is for
    failed       \* failed[t]: it was called with an error

network == <<peer, outstanding, queue>>
vars == <<phase, stopped, signals, live, network, at, on, failed>>

Kinds == {"accept", "read", "write"}

\* boost::bind binds the handler, the session and the placeholder for the error.
Completion(k, s, error) == [kind |-> k, session |-> s, error |-> error]

Begin(k, s) == outstanding' = [outstanding EXCEPT ![s][k] = @ + 1]

\* main: the signal_set waits, the server's constructor has called
\* start_accept, no thread of the pool has been started yet.
Init ==
    /\ phase = "running"
    /\ stopped = FALSE
    /\ signals = "waiting"
    /\ \E first \in Sessions :
           /\ live = {first}
           /\ outstanding = [s \in Sessions |-> [k \in Kinds |->
                  IF s = first /\ k = "accept" THEN 1 ELSE 0]]
    /\ peer = [s \in Sessions |-> "none"]
    /\ queue = <<>>
    /\ at = [t \in Threads |-> "unborn"]
    /\ on = [t \in Threads |-> NoSession]
    /\ failed = [t \in Threads |-> FALSE]

--------------------------------------------------------------------------------
(* The network and the user                                                   *)

\* Bug that TypeOK catches: a completion delivered once more.
CompleteAgain(k, s, error) ==
    /\ phase = "running"
    /\ outstanding' = [outstanding EXCEPT ![s][k] = @ - 1]
    /\ queue' = Append(queue, Completion(k, s, error))
    /\ UNCHANGED <<phase, stopped, signals, live, at, on, failed>>

Complete(k, s, error) ==
    /\ phase = "running"
    /\ outstanding[s][k] > 0
    /\ outstanding' = [outstanding EXCEPT ![s][k] = @ - 1]
    /\ queue' = Append(queue, Completion(k, s, error))
    /\ UNCHANGED <<phase, stopped, signals, live, at, on, failed>>

Connect(s) ==
    /\ live # Sessions
    /\ Complete("accept", s, FALSE)
    /\ peer' = [peer EXCEPT ![s] = "open"]

AcceptFails(s) ==
    /\ Complete("accept", s, TRUE)
    /\ UNCHANGED peer

DataArrives(s) ==
    /\ peer[s] = "open"
    /\ Complete("read", s, FALSE)
    /\ UNCHANGED peer

\* The end of the stream, or the reset.
ReadFails(s) ==
    /\ Complete("read", s, TRUE)
    /\ UNCHANGED peer

WriteSucceeds(s) ==
    /\ peer[s] = "open"
    /\ Complete("write", s, FALSE)
    /\ UNCHANGED peer

WriteFails(s) ==
    /\ peer[s] = "reset"
    /\ Complete("write", s, TRUE)
    /\ UNCHANGED peer

\* The peer closes the connection with a reset: from here on the socket has no
\* remote endpoint.
PeerResets(s) ==
    /\ phase = "running"
    /\ peer[s] = "open"
    /\ peer' = [peer EXCEPT ![s] = "reset"]
    /\ UNCHANGED <<phase, stopped, signals, live, outstanding, queue, at, on, failed>>

\* SIGINT or SIGTERM: the signal_set's wait completes.
Interrupt ==
    /\ phase = "running"
    /\ signals = "waiting"
    /\ signals' = "queued"
    /\ queue' = Append(queue, Completion("signal", NoSession, FALSE))
    /\ UNCHANGED <<phase, stopped, live, peer, outstanding, at, on, failed>>

Environment ==
    \/ \E s \in Sessions :
           \/ Connect(s) \/ AcceptFails(s)
           \/ DataArrives(s) \/ ReadFails(s)
           \/ WriteSucceeds(s) \/ WriteFails(s)
           \/ PeerResets(s)
    \/ Interrupt

--------------------------------------------------------------------------------
(* main and io_service::run                                                   *)

Spawn(t) ==
    /\ phase = "running"
    /\ at[t] = "unborn"
    /\ at' = [at EXCEPT ![t] = "run"]
    /\ UNCHANGED <<phase, stopped, signals, live, network, on, failed>>

\* Bug that CompletionIsHandled catches: the newest completion handed out first.
TakeNewest(t) ==
    /\ phase = "running"
    /\ at[t] = "run"
    /\ ~stopped
    /\ queue # <<>>
    /\ queue' = SubSeq(queue, 1, Len(queue) - 1)
    /\ at' = [at EXCEPT ![t] = queue[Len(queue)].kind]
    /\ on' = [on EXCEPT ![t] = queue[Len(queue)].session]
    /\ failed' = [failed EXCEPT ![t] = queue[Len(queue)].error]
    /\ UNCHANGED <<phase, stopped, signals, live, peer, outstanding>>

\* run() hands the oldest completion to whichever thread asks first.
Take(t) ==
    /\ phase = "running"
    /\ at[t] = "run"
    /\ ~stopped
    /\ queue # <<>>
    /\ queue' = Tail(queue)
    /\ at' = [at EXCEPT ![t] = Head(queue).kind]
    /\ on' = [on EXCEPT ![t] = Head(queue).session]
    /\ failed' = [failed EXCEPT ![t] = Head(queue).error]
    /\ UNCHANGED <<phase, stopped, signals, live, peer, outstanding>>

\* Bug that ShutdownEnds catches: shutdown by letting run() drain its queue.
RunDrains(t) ==
    /\ phase = "running"
    /\ at[t] = "run"
    /\ stopped
    /\ queue = <<>>
    /\ at' = [at EXCEPT ![t] = "returned"]
    /\ UNCHANGED <<phase, stopped, signals, live, network, on, failed>>

\* run() returns once the io_service is stopped, not before its handler ends.
RunReturns(t) ==
    /\ phase = "running"
    /\ at[t] = "run"
    /\ stopped
    /\ at' = [at EXCEPT ![t] = "returned"]
    /\ UNCHANGED <<phase, stopped, signals, live, network, on, failed>>

\* main has joined every thread.
Exit ==
    /\ phase = "running"
    /\ \A t \in Threads : at[t] = "returned"
    /\ phase' = "exited"
    /\ UNCHANGED <<stopped, signals, live, network, at, on, failed>>

\* The lambda of signals.async_wait.
HandleSignal(t) ==
    /\ phase = "running"
    /\ at[t] = "signal"
    /\ signals' = "handled"
    /\ stopped' = TRUE
    /\ at' = [at EXCEPT ![t] = "run"]
    /\ UNCHANGED <<phase, live, network, on, failed>>

--------------------------------------------------------------------------------
(* The handlers.  Running(t, where): thread t is at that point of one.        *)

Running(t, where) == phase = "running" /\ at[t] = where

Go(t, where) ==
    /\ at' = [at EXCEPT ![t] = where]
    /\ UNCHANGED <<phase, stopped, signals, on, failed>>

Leave(t) ==
    /\ at' = [at EXCEPT ![t] = "run"]
    /\ on' = [on EXCEPT ![t] = NoSession]
    /\ failed' = [failed EXCEPT ![t] = FALSE]
    /\ UNCHANGED <<phase, stopped, signals>>

\* An exception leaves the handler and run(); nothing on the thread's stack
\* catches it.
Terminate ==
    /\ phase' = "terminated"
    /\ UNCHANGED <<stopped, signals, live, network, at, on, failed>>

\* Bug that SocketsFollowSessions catches: a session that gives up without
\* closing its socket.
DeleteKeepsSocket(s) ==
    /\ live' = live \ {s}
    /\ UNCHANGED peer

\* delete: the object is gone and its socket closed.
Delete(s) ==
    /\ live' = live \ {s}
    /\ peer' = [peer EXCEPT ![s] = "none"]

StartAsyncRead(s) == Begin("read", s) /\ UNCHANGED <<live, peer, queue>>
SendResponse(s) == Begin("write", s) /\ UNCHANGED <<live, peer, queue>>
HandleError(s) == Delete(s) /\ UNCHANGED <<outstanding, queue>>

\* socket().remote_endpoint() throws when the peer is already gone.
HasRemoteEndpoint(s) == peer[s] = "open"

\* Bug that OneAcceptor catches: handle_accept that returns from its error
\* branch.
AcceptErrorReturns(t) ==
    /\ Running(t, "accept")
    /\ failed[t]
    /\ HandleError(on[t])
    /\ Leave(t)

\* server::handle_accept, the error branch,
AcceptError(t) ==
    /\ Running(t, "accept")
    /\ failed[t]
    /\ HandleError(on[t])
    /\ Go(t, "rearm")

\* the log line, which asks for the remote endpoint,
AcceptLog(t) ==
    /\ Running(t, "accept")
    /\ ~failed[t]
    /\ \/ HasRemoteEndpoint(on[t]) /\ Go(t, "start") /\ UNCHANGED <<live, network>>
       \/ ~HasRemoteEndpoint(on[t]) /\ Terminate

\* session::start, which asks again,
SessionStart(t) ==
    /\ Running(t, "start")
    /\ \/ HasRemoteEndpoint(on[t]) /\ StartAsyncRead(on[t]) /\ Go(t, "rearm")
       \/ ~HasRemoteEndpoint(on[t]) /\ Terminate

\* and start_accept: a new object waits for the next connection.
StartAccept(t) ==
    /\ Running(t, "rearm")
    /\ \E s \in Sessions \ live :
           /\ live' = live \cup {s}
           /\ Begin("accept", s)
    /\ Leave(t)
    /\ UNCHANGED <<peer, queue>>

\* session::handle_read: an error deletes the session; otherwise what has been
\* read so far is incomplete, invalid or a request.
ReadError(t) ==
    /\ Running(t, "read")
    /\ failed[t]
    /\ HandleError(on[t])
    /\ Leave(t)

ReadMore(t) ==
    /\ Running(t, "read")
    /\ ~failed[t]
    /\ StartAsyncRead(on[t])
    /\ Leave(t)

\* Bug that OneOwner catches: handle_read without the else: after an invalid
\* request it also reads on.
ReadInvalidReadsOn(t) ==
    /\ Running(t, "read")
    /\ ~failed[t]
    /\ outstanding' = [outstanding EXCEPT ![on[t]] =
                          [@ EXCEPT !["write"] = @ + 1, !["read"] = @ + 1]]
    /\ UNCHANGED <<live, peer, queue>>
    /\ Leave(t)

ReadInvalid(t) ==
    /\ Running(t, "read")
    /\ ~failed[t]
    /\ SendResponse(on[t])
    /\ Leave(t)

ReadRequest(t) ==
    /\ Running(t, "read")
    /\ ~failed[t]
    /\ Go(t, "handler")
    /\ UNCHANGED <<live, network>>

\* handle_request returns, after however long (SleepRequestHandler: 3 s), or
\* throws (FileRequestHandler asks fs::exists outside its try block).
HandlerReturns(t) ==
    /\ Running(t, "handler")
    /\ SendResponse(on[t])
    /\ Leave(t)

HandlerThrows(t) ==
    /\ Running(t, "handler")
    /\ Terminate

\* session::handle_write.
WriteError(t) ==
    /\ Running(t, "write")
    /\ failed[t]
    /\ HandleError(on[t])
    /\ Leave(t)

WriteDone(t) ==
    /\ Running(t, "write")
    /\ ~failed[t]
    /\ StartAsyncRead(on[t])
    /\ Leave(t)

--------------------------------------------------------------------------------
Work(t) ==
    \/ Take(t) \/ RunReturns(t) \/ HandleSignal(t)
    \/ AcceptError(t) \/ AcceptLog(t) \/ SessionStart(t) \/ StartAccept(t)
    \/ ReadError(t) \/ ReadMore(t) \/ ReadInvalid(t) \/ ReadRequest(t)
    \/ HandlerReturns(t) \/ HandlerThrows(t)
    \/ WriteError(t) \/ WriteDone(t)

\* The process is over.
Over == phase # "running" /\ UNCHANGED vars

Next ==
    \/ Environment
    \/ \E t \in Threads : Spawn(t) \/ Work(t)
    \/ Exit
    \/ Over

Spec == Init /\ [][Next]_vars

\* main starts its threads, threads are scheduled, handlers return; the network
\* and the user owe nothing.
FairSpec ==
    /\ Spec
    /\ \A t \in Threads : WF_vars(Spawn(t)) /\ WF_vars(Work(t))
    /\ WF_vars(Exit)

--------------------------------------------------------------------------------
(* Properties                                                                 *)

\* The type invariant.
TypeOK ==
    /\ phase \in {"running", "exited", "terminated"}
    /\ stopped \in BOOLEAN
    /\ signals \in {"waiting", "queued", "handled"}
    /\ live \subseteq Sessions
    /\ peer \in [Sessions -> {"none", "open", "reset"}]
    /\ outstanding \in [Sessions -> [Kinds -> Nat]]
    /\ queue \in Seq([kind : Kinds \cup {"signal"},
                      session : Sessions \cup {NoSession}, error : BOOLEAN])
    /\ at \in [Threads -> {"unborn", "run", "returned", "signal", "accept", "start",
                           "rearm", "read", "handler", "write"}]
    /\ on \in [Threads -> Sessions \cup {NoSession}]
    /\ failed \in [Threads -> BOOLEAN]

\* The points of the handlers from which the code still uses the session.
UsesSession == {"accept", "start", "read", "handler", "write"}

\* Everything that holds a pointer to s: operations begun (two of a kind would
\* count as two), completions queued, threads in a handler that has not yet
\* passed the session on or deleted it.
Owners(s) ==
    {o \in {"outstanding"} \X Kinds \X {1, 2} : o[3] <= outstanding[s][o[2]]}
        \cup {o \in {"queued"} \X DOMAIN queue : queue[o[2]].session = s}
        \cup {o \in {"running"} \X Threads : on[o[2]] = s /\ at[o[2]] \in UsesSession}

\* A session that is allocated is referred to from exactly one place, and one
\* that is deleted from none: no handler runs on a deleted session, no two
\* threads are in handlers of one session, response_ is not rewritten while it
\* is being sent, nothing is deleted twice and nothing is leaked.
OneOwner ==
    \A s \in Sessions :
        IF s \in live THEN \E o \in Owners(s) : Owners(s) = {o}
                      ELSE Owners(s) = {}

\* The places from which the next connection will be accepted.
Acceptors ==
    {o \in {"outstanding"} \X Sessions \X {1, 2} : o[3] <= outstanding[o[2]]["accept"]}
        \cup {o \in {"queued"} \X DOMAIN queue : queue[o[2]].kind = "accept"}
        \cup {o \in {"running"} \X Threads : at[o[2]] \in {"accept", "start", "rearm"}}

\* The server never stops accepting, and never accepts twice at once: whatever
\* the outcome of an accept, handle_accept leads to start_accept exactly once.
OneAcceptor == \E o \in Acceptors : Acceptors = {o}

\* A connection stays with its session: a socket is open exactly while its
\* session is allocated and past its accept, so closing one connection never
\* closes another's.
SocketsFollowSessions ==
    \A s \in Sessions :
        peer[s] # "none" <=> /\ s \in live
                             /\ outstanding[s]["accept"] = 0
                             /\ \A i \in DOMAIN queue :
                                    queue[i] # Completion("accept", s, TRUE)
                             /\ \A t \in Threads :
                                    ~(at[t] = "accept" /\ on[t] = s /\ failed[t])

Queued(s) == \E i \in DOMAIN queue : queue[i].session = s

\* The pool gets to every completion, however busy other sessions keep it,
\* unless the server is stopped or dies: handlers are bounded and the queue is
\* first in, first out.
CompletionIsHandled ==
    \A s \in Sessions :
        Queued(s) ~> (~Queued(s) \/ stopped \/ phase = "terminated")

\* After SIGINT the process ends: every thread finishes its handler and leaves
\* run(), whatever is still queued or outstanding.
ShutdownEnds == stopped ~> phase # "running"

\* "Should not crash - session should delete itself on error": a client that
\* goes away, and a request of any form, leave the server running.
NeverTerminates == phase # "terminated"
================================================================================
