----------------------------- MODULE Server_proofs -----------------------------
(******************************************************************************)
(* The ownership discipline of Server's sessions, for any number of threads,  *)
(* sessions and connections; on top of it, that sockets follow their sessions *)
(* and that one accept is always under way.                                   *)
(******************************************************************************)
EXTENDS Server, TLAPS

--------------------------------------------------------------------------------
(* The inductive invariant                                                    *)

\* Owners(s) and Acceptors taken apart: what refers to s, one predicate for each
\* kind of place.
Begun(s, k) == outstanding[s][k] > 0
Waits(s, i) == queue[i].session = s
Runs(s, t) == on[t] = s /\ at[t] \in UsesSession

Owned(s) ==
    \/ \E k \in Kinds : Begun(s, k)
    \/ \E i \in DOMAIN queue : Waits(s, i)
    \/ \E t \in Threads : Runs(s, t)

\* No two of them at once.
Exclusive(s) ==
    /\ \A k \in Kinds : outstanding[s][k] <= 1
    /\ \A k, l \in Kinds : Begun(s, k) /\ Begun(s, l) => k = l
    /\ \A i, j \in DOMAIN queue : Waits(s, i) /\ Waits(s, j) => i = j
    /\ \A t, u \in Threads : Runs(s, t) /\ Runs(s, u) => t = u
    /\ \A k \in Kinds, i \in DOMAIN queue : ~(Begun(s, k) /\ Waits(s, i))
    /\ \A k \in Kinds, t \in Threads : ~(Begun(s, k) /\ Runs(s, t))
    /\ \A i \in DOMAIN queue, t \in Threads : ~(Waits(s, i) /\ Runs(s, t))

\* One of them while s is allocated, none otherwise.
OwnedOnce(s) == Exclusive(s) /\ (Owned(s) <=> s \in live)
Ownership == \A s \in Sessions : OwnedOnce(s)

\* A completion that calls a session's handler names a session, and so does the
\* thread that runs it.
SessionsNamed ==
    /\ \A i \in DOMAIN queue :
           queue[i].kind \in Kinds <=> queue[i].session \in Sessions
    /\ \A t \in Threads : at[t] \in UsesSession => on[t] \in Sessions

IInv == TypeOK /\ SessionsNamed /\ Ownership

\* What the invariant says of a session's owners as sets.
LEMMA OwnershipIsOneOwner ==
    ASSUME TypeOK, Ownership PROVE OneOwner
  <1> SUFFICES ASSUME NEW s \in Sessions
               PROVE  /\ s \in live => \E o \in Owners(s) : Owners(s) = {o}
                      /\ s \notin live => Owners(s) = {}
    BY DEF OneOwner
  <1>0. outstanding[s] \in [Kinds -> Nat]
    BY DEF TypeOK
  <1>1. Exclusive(s) /\ (Owned(s) <=> s \in live)
    BY DEF Ownership, OwnedOnce
  <1>2. CASE s \notin live
    BY <1>0, <1>1, <1>2 DEF Owned, Owners, Begun, Waits, Runs
  <1>3. ASSUME NEW k \in Kinds, Begun(s, k)
        PROVE  Owners(s) = {<<"outstanding", k, 1>>}
    BY <1>0, <1>1, <1>3 DEF Exclusive, Owners, Begun, Waits, Runs
  <1>4. ASSUME NEW i \in DOMAIN queue, Waits(s, i)
        PROVE  Owners(s) = {<<"queued", i>>}
    BY <1>0, <1>1, <1>4 DEF Exclusive, Owners, Begun, Waits, Runs
  <1>5. ASSUME NEW t \in Threads, Runs(s, t)
        PROVE  Owners(s) = {<<"running", t>>}
    BY <1>0, <1>1, <1>5 DEF Exclusive, Owners, Begun, Waits, Runs
  <1> QED
    BY <1>1, <1>2, <1>3, <1>4, <1>5 DEF Owned

--------------------------------------------------------------------------------
(* Types                                                                      *)

CompletionType ==
    [kind : Kinds \cup {"signal"}, session : Sessions \cup {NoSession},
     error : BOOLEAN]

Places ==
    {"unborn", "run", "returned", "signal", "accept", "start", "rearm", "read",
     "handler", "write"}

LEMMA InitTypes == Init => TypeOK
  <1> SUFFICES ASSUME Init PROVE TypeOK
    OBVIOUS
  <1>1. PICK first \in Sessions :
            /\ live = {first}
            /\ outstanding = [s \in Sessions |-> [k \in Kinds |->
                   IF s = first /\ k = "accept" THEN 1 ELSE 0]]
    BY DEF Init
  <1>2. outstanding \in [Sessions -> [Kinds -> Nat]]
    BY <1>1
  <1>3. queue \in Seq(CompletionType)
    BY DEF Init
  <1> QED
    BY <1>1, <1>2, <1>3 DEF Init, TypeOK, CompletionType

\* An operation begun or completed leaves a count for each.
LEMMA CountsStayTyped ==
    ASSUME outstanding \in [Sessions -> [Kinds -> Nat]],
           NEW s \in Sessions, NEW k \in Kinds, NEW n \in Nat
    PROVE  [outstanding EXCEPT ![s][k] = n] \in [Sessions -> [Kinds -> Nat]]
  OBVIOUS

LEMMA BeginTypes ==
    ASSUME TypeOK, NEW s \in Sessions, NEW k \in Kinds, Begin(k, s)
    PROVE  outstanding' \in [Sessions -> [Kinds -> Nat]]
  BY DEF TypeOK, Begin

LEMMA CompleteTypes ==
    ASSUME TypeOK, NEW s \in Sessions, NEW k \in Kinds, NEW e \in BOOLEAN,
           Complete(k, s, e), peer' \in [Sessions -> {"none", "open", "reset"}]
    PROVE  TypeOK'
  <1>1. outstanding' \in [Sessions -> [Kinds -> Nat]]
    BY DEF TypeOK, Complete
  <1>2. Completion(k, s, e) \in CompletionType
    BY DEF Completion, CompletionType
  <1>3. queue' \in Seq(CompletionType)
    BY <1>2 DEF TypeOK, Complete, CompletionType
  <1> QED
    BY <1>1, <1>3 DEF TypeOK, Complete, CompletionType

--------------------------------------------------------------------------------
(* Ownership: what each kind of step does to the owners of a session          *)

\* The first session is owned by the accept that the constructor begins.
LEMMA InitOwnership == Init => SessionsNamed /\ Ownership
  <1> SUFFICES ASSUME Init PROVE SessionsNamed /\ Ownership
    OBVIOUS
  <1>1. PICK first \in Sessions :
            /\ live = {first}
            /\ outstanding = [s \in Sessions |-> [k \in Kinds |->
                   IF s = first /\ k = "accept" THEN 1 ELSE 0]]
    BY DEF Init
  <1>2. queue = <<>> /\ DOMAIN queue = {}
    BY DEF Init
  <1>3. \A t \in Threads : at[t] \notin UsesSession
    BY DEF Init, UsesSession
  <1>4. SessionsNamed
    BY <1>2, <1>3 DEF SessionsNamed
  <1>5. ASSUME NEW s \in Sessions PROVE OwnedOnce(s)
    <2>1. Exclusive(s)
      BY <1>1, <1>2, <1>3 DEF Exclusive, Begun, Waits, Runs, Kinds
    <2>2. Owned(s) <=> s = first
      BY <1>1, <1>2, <1>3 DEF Owned, Begun, Waits, Runs, Kinds
    <2> QED
      BY <1>1, <2>1, <2>2 DEF OwnedOnce
  <1> QED
    BY <1>4, <1>5 DEF Ownership

\* A step that leaves everything that could refer to x alone.
LEMMA OthersKeepOwners ==
    ASSUME NEW x \in Sessions, OwnedOnce(x),
           outstanding'[x] = outstanding[x],
           queue' = queue,
           \A t \in Threads : Runs(x, t)' <=> Runs(x, t),
           x \in live' <=> x \in live
    PROVE  OwnedOnce(x)'
  BY DEF OwnedOnce, Exclusive, Owned, Begun, Waits

\* A handler begins its last operation: the operation now owns the session.
LEMMA BeginMovesOwner ==
    ASSUME IInv, NEW t \in Threads, at[t] \in UsesSession, NEW k \in Kinds,
           Begin(k, on[t]), queue' = queue, live' = live,
           at'[t] \notin UsesSession,
           \A u \in Threads \ {t} : at'[u] = at[u] /\ on'[u] = on[u]
    PROVE  Ownership'
  <1> SUFFICES ASSUME NEW x \in Sessions PROVE OwnedOnce(x)'
    BY DEF Ownership
  <1>0. outstanding \in [Sessions -> [Kinds -> Nat]] /\ OwnedOnce(x)
    BY DEF IInv, TypeOK, Ownership
  <1>1. CASE x # on[t]
    <2>1. outstanding'[x] = outstanding[x]
      BY <1>0, <1>1 DEF Begin
    <2>2. \A u \in Threads : Runs(x, u)' <=> Runs(x, u)
      BY <1>1 DEF Runs
    <2> QED
      BY <1>0, <2>1, <2>2, OthersKeepOwners
  <1>2. CASE x = on[t]
    <2>1. Runs(x, t)
      BY <1>2 DEF Runs
    <2>2. /\ \A l \in Kinds : outstanding[x][l] = 0
          /\ \A i \in DOMAIN queue : ~Waits(x, i)
          /\ \A u \in Threads \ {t} : ~Runs(x, u)
      BY <1>0, <2>1 DEF OwnedOnce, Exclusive, Begun
    <2>3. \A l \in Kinds : outstanding'[x][l] = IF l = k THEN 1 ELSE 0
      BY <1>0, <1>2, <2>2 DEF Begin
    <2>4. \A i \in DOMAIN queue' : ~Waits(x, i)'
      BY <2>2 DEF Waits
    <2>5. \A u \in Threads : ~Runs(x, u)'
      BY <2>2 DEF Runs
    <2>6. Exclusive(x)'
      BY <2>3, <2>4, <2>5 DEF Exclusive, Begun
    <2>7. Owned(x)'
      BY <2>3 DEF Owned, Begun
    <2>8. x \in live'
      BY <1>0, <2>1 DEF OwnedOnce, Owned
    <2> QED
      BY <2>6, <2>7, <2>8 DEF OwnedOnce
  <1> QED
    BY <1>1, <1>2

\* A handler deletes its session: nothing refers to it any more.
LEMMA DeleteDropsOwner ==
    ASSUME IInv, NEW t \in Threads, at[t] \in UsesSession,
           Delete(on[t]), outstanding' = outstanding, queue' = queue,
           at'[t] \notin UsesSession,
           \A u \in Threads \ {t} : at'[u] = at[u] /\ on'[u] = on[u]
    PROVE  Ownership'
  <1> SUFFICES ASSUME NEW x \in Sessions PROVE OwnedOnce(x)'
    BY DEF Ownership
  <1>0. outstanding \in [Sessions -> [Kinds -> Nat]] /\ OwnedOnce(x)
    BY DEF IInv, TypeOK, Ownership
  <1>1. CASE x # on[t]
    <2>1. \A u \in Threads : Runs(x, u)' <=> Runs(x, u)
      BY <1>1 DEF Runs
    <2> QED
      BY <1>0, <1>1, <2>1, OthersKeepOwners DEF Delete
  <1>2. CASE x = on[t]
    <2>1. Runs(x, t)
      BY <1>2 DEF Runs
    <2>2. /\ \A l \in Kinds : ~Begun(x, l)
          /\ \A i \in DOMAIN queue : ~Waits(x, i)
          /\ \A u \in Threads \ {t} : ~Runs(x, u)
      BY <1>0, <2>1 DEF OwnedOnce, Exclusive
    <2>3. /\ \A l \in Kinds : ~Begun(x, l)' /\ outstanding'[x][l] <= 1
          /\ \A i \in DOMAIN queue' : ~Waits(x, i)'
      BY <1>0, <2>2 DEF Begun, Waits, OwnedOnce, Exclusive
    <2>4. \A u \in Threads : ~Runs(x, u)'
      BY <2>2 DEF Runs
    <2>5. x \notin live'
      BY <1>2 DEF Delete
    <2> QED
      BY <2>3, <2>4, <2>5 DEF OwnedOnce, Exclusive, Owned
  <1> QED
    BY <1>1, <1>2

\* An operation completes: its completion, last in the queue, owns the session.
LEMMA CompleteMovesOwner ==
    ASSUME IInv, NEW s \in Sessions, NEW k \in Kinds, NEW e \in BOOLEAN,
           Complete(k, s, e)
    PROVE  Ownership'
  <1> SUFFICES ASSUME NEW x \in Sessions PROVE OwnedOnce(x)'
    BY DEF Ownership
  <1>0. /\ outstanding \in [Sessions -> [Kinds -> Nat]]
        /\ queue \in Seq(CompletionType)
        /\ OwnedOnce(x)
    BY DEF IInv, TypeOK, Ownership, CompletionType
  <1>1. /\ outstanding[s][k] > 0
        /\ outstanding' = [outstanding EXCEPT ![s][k] = @ - 1]
        /\ queue' = Append(queue, Completion(k, s, e))
        /\ live' = live /\ at' = at /\ on' = on
    BY DEF Complete
  <1> PICK last \in Nat : last = Len(queue) + 1
    BY <1>0
  <1>2. /\ DOMAIN queue' = DOMAIN queue \cup {last}
        /\ last \notin DOMAIN queue
        /\ \A i \in DOMAIN queue : queue'[i] = queue[i]
        /\ queue'[last] = Completion(k, s, e)
    BY <1>0, <1>1
  <1>3. \A t \in Threads : Runs(x, t)' <=> Runs(x, t)
    BY <1>1 DEF Runs
  <1>4. /\ \A i \in DOMAIN queue : Waits(x, i)' <=> Waits(x, i)
        /\ Waits(x, last)' <=> x = s
    BY <1>2 DEF Waits, Completion
  <1>5. CASE x # s
    <2>1. \A l \in Kinds : outstanding'[x][l] = outstanding[x][l]
      BY <1>0, <1>1, <1>5
    <2>2. Exclusive(x)'
      BY <1>0, <1>2, <1>3, <1>4, <1>5, <2>1 DEF OwnedOnce, Exclusive, Begun
    <2>3. Owned(x)' <=> Owned(x)
      BY <1>2, <1>3, <1>4, <1>5, <2>1 DEF Owned, Begun
    <2> QED
      BY <1>0, <1>1, <2>2, <2>3 DEF OwnedOnce
  <1>6. CASE x = s
    <2>1. Begun(x, k)
      BY <1>1, <1>6 DEF Begun
    <2>2. /\ outstanding[x][k] = 1
          /\ \A l \in Kinds \ {k} : outstanding[x][l] = 0
          /\ \A i \in DOMAIN queue : ~Waits(x, i)
          /\ \A t \in Threads : ~Runs(x, t)
      BY <1>0, <2>1 DEF OwnedOnce, Exclusive, Begun
    <2>3. \A l \in Kinds : outstanding'[x][l] = 0
      BY <1>0, <1>1, <1>6, <2>2
    <2>4. Exclusive(x)'
      BY <1>2, <1>3, <1>4, <2>2, <2>3 DEF Exclusive, Begun
    <2>5. Owned(x)'
      BY <1>2, <1>4, <1>6 DEF Owned
    <2>6. x \in live'
      BY <1>0, <1>1, <2>1 DEF OwnedOnce, Owned
    <2> QED
      BY <2>4, <2>5, <2>6 DEF OwnedOnce
  <1> QED
    BY <1>5, <1>6

\* A thread takes a completion: its handler owns the session.
LEMMA TakeMovesOwner ==
    ASSUME IInv, NEW t \in Threads, Take(t)
    PROVE  Ownership' /\ SessionsNamed'
  <1>0. /\ outstanding \in [Sessions -> [Kinds -> Nat]]
        /\ queue \in Seq(CompletionType) /\ queue # <<>>
        /\ at \in [Threads -> Places] /\ on \in [Threads -> Sessions \cup {NoSession}]
    BY DEF IInv, TypeOK, CompletionType, Places, Take
  <1>1. /\ DOMAIN queue = 1..Len(queue) /\ Len(queue) \in Nat /\ Len(queue) >= 1
        /\ DOMAIN queue' = 1..(Len(queue) - 1)
        /\ \A i \in DOMAIN queue' : queue'[i] = queue[i + 1] /\ i + 1 \in DOMAIN queue
        /\ 1 \in DOMAIN queue
    BY <1>0 DEF Take
  <1>2. /\ at[t] = "run"
        /\ at'[t] = queue[1].kind /\ on'[t] = queue[1].session
        /\ \A u \in Threads \ {t} : at'[u] = at[u] /\ on'[u] = on[u]
        /\ outstanding' = outstanding /\ live' = live
    BY <1>0 DEF Take
  <1>3. queue[1].kind \in Kinds \cup {"signal"}
    <2>1. queue[1] \in CompletionType
      BY <1>0, <1>1
    <2> QED
      BY <2>1 DEF CompletionType
  <1>4. queue[1].session \in Sessions <=> at'[t] \in UsesSession
    BY <1>1, <1>2, <1>3 DEF IInv, SessionsNamed, Kinds, UsesSession
  <1>5. SessionsNamed'
    <2>1. \A i \in DOMAIN queue' :
              queue'[i].kind \in Kinds <=> queue'[i].session \in Sessions
      BY <1>1 DEF IInv, SessionsNamed
    <2>2. \A u \in Threads : at'[u] \in UsesSession => on'[u] \in Sessions
      BY <1>2, <1>4 DEF IInv, SessionsNamed
    <2> QED
      BY <2>1, <2>2 DEF SessionsNamed
  <1>6. ASSUME NEW x \in Sessions PROVE OwnedOnce(x)'
    <2>0. OwnedOnce(x)
      BY DEF IInv, Ownership
    <2>1. \A i \in DOMAIN queue' : Waits(x, i)' <=> Waits(x, i + 1)
      BY <1>1 DEF Waits
    <2>2. \A l \in Kinds : (Begun(x, l)' <=> Begun(x, l))
                            /\ outstanding'[x][l] = outstanding[x][l]
      BY <1>2 DEF Begun
    <2>3. ~Runs(x, t) /\ (\A u \in Threads \ {t} : Runs(x, u)' <=> Runs(x, u))
      BY <1>2 DEF Runs, UsesSession
    <2>4. Runs(x, t)' <=> Waits(x, 1)
      BY <1>2, <1>4 DEF Runs, Waits
    <2>5. CASE Waits(x, 1)
      <3>1. /\ \A l \in Kinds : ~Begun(x, l)
            /\ \A i \in DOMAIN queue : Waits(x, i) => i = 1
            /\ \A u \in Threads : ~Runs(x, u)
        BY <1>1, <2>0, <2>5 DEF OwnedOnce, Exclusive
      <3>2. \A i \in DOMAIN queue' : ~Waits(x, i)'
        <4>1. \A i \in DOMAIN queue' : i \in Nat /\ i >= 1 /\ i + 1 # 1
          BY <1>1
        <4> QED
          BY <1>1, <2>1, <3>1, <4>1
      <3>3. Exclusive(x)'
        BY <2>0, <2>2, <2>3, <2>4, <3>1, <3>2 DEF Exclusive, OwnedOnce
      <3>4. Owned(x)' /\ x \in live'
        BY <1>1, <1>2, <2>0, <2>4, <2>5 DEF Owned, OwnedOnce
      <3> QED
        BY <3>3, <3>4 DEF OwnedOnce
    <2>6. CASE ~Waits(x, 1)
      <3>1. \A u \in Threads : Runs(x, u)' <=> Runs(x, u)
        BY <2>3, <2>4, <2>6
      <3>2. \A i, j \in DOMAIN queue' : Waits(x, i)' /\ Waits(x, j)' => i = j
        <4>1. \A i, j \in DOMAIN queue' : i + 1 = j + 1 => i = j
          BY <1>1
        <4> QED
          BY <1>1, <2>0, <2>1, <4>1 DEF OwnedOnce, Exclusive
      <3>3. Exclusive(x)'
        BY <1>1, <2>0, <2>1, <2>2, <3>1, <3>2 DEF OwnedOnce, Exclusive
      <3>4. (\E i \in DOMAIN queue : Waits(x, i))
                <=> (\E i \in DOMAIN queue' : Waits(x, i)')
        <4>1. ASSUME NEW i \in DOMAIN queue, Waits(x, i)
              PROVE  \E j \in DOMAIN queue' : Waits(x, j)'
          <5>1. i # 1 /\ i - 1 \in DOMAIN queue' /\ (i - 1) + 1 = i
            BY <1>1, <2>6, <4>1
          <5> QED
            BY <2>1, <4>1, <5>1
        <4>2. ASSUME NEW i \in DOMAIN queue', Waits(x, i)'
              PROVE  \E j \in DOMAIN queue : Waits(x, j)
          BY <1>1, <2>1, <4>2
        <4> QED
          BY <4>1, <4>2
      <3>5. Owned(x)' <=> Owned(x)
        BY <2>2, <3>1, <3>4 DEF Owned
      <3> QED
        BY <1>2, <2>0, <3>3, <3>5 DEF OwnedOnce
    <2> QED
      BY <2>5, <2>6
  <1> QED
    BY <1>5, <1>6 DEF Ownership

\* start_accept: a new session is owned by the accept that is begun on it.
LEMMA AcceptMakesOwner ==
    ASSUME IInv, NEW t \in Threads, StartAccept(t)
    PROVE  Ownership'
  <1>1. PICK s \in Sessions \ live : live' = live \cup {s} /\ Begin("accept", s)
    BY DEF StartAccept
  <1>2. /\ at[t] = "rearm" /\ at' = [at EXCEPT ![t] = "run"]
        /\ on' = [on EXCEPT ![t] = NoSession] /\ queue' = queue
    BY DEF StartAccept, Running, Leave
  <1>3. /\ outstanding \in [Sessions -> [Kinds -> Nat]]
        /\ at \in [Threads -> Places] /\ on \in [Threads -> Sessions \cup {NoSession}]
    BY DEF IInv, TypeOK, Places
  <1>4. "accept" \in Kinds /\ "rearm" \notin UsesSession /\ "run" \notin UsesSession
    BY DEF Kinds, UsesSession
  <1> SUFFICES ASSUME NEW x \in Sessions PROVE OwnedOnce(x)'
    BY DEF Ownership
  <1>5. OwnedOnce(x)
    BY DEF IInv, Ownership
  <1>6. \A u \in Threads : Runs(x, u)' <=> Runs(x, u)
    BY <1>2, <1>3, <1>4 DEF Runs
  <1>7. CASE x # s
    <2>1. outstanding'[x] = outstanding[x]
      BY <1>1, <1>3, <1>7 DEF Begin
    <2> QED
      BY <1>1, <1>2, <1>5, <1>6, <1>7, <2>1, OthersKeepOwners
  <1>8. CASE x = s
    <2>1. ~Owned(x)
      BY <1>1, <1>5, <1>8 DEF OwnedOnce
    <2>2. /\ \A l \in Kinds : outstanding[x][l] = 0
          /\ \A i \in DOMAIN queue : ~Waits(x, i)
          /\ \A u \in Threads : ~Runs(x, u)
      BY <1>3, <2>1 DEF Owned, Begun
    <2>3. \A l \in Kinds : outstanding'[x][l] = IF l = "accept" THEN 1 ELSE 0
      BY <1>1, <1>3, <1>4, <1>8, <2>2 DEF Begin
    <2>4. \A i \in DOMAIN queue' : ~Waits(x, i)'
      BY <1>2, <2>2 DEF Waits
    <2>5. Exclusive(x)'
      BY <1>6, <2>2, <2>3, <2>4 DEF Exclusive, Begun
    <2>6. Owned(x)'
      BY <1>4, <2>3 DEF Owned, Begun
    <2> QED
      BY <1>1, <1>8, <2>5, <2>6 DEF OwnedOnce
  <1> QED
    BY <1>7, <1>8

--------------------------------------------------------------------------------
(* Every step preserves the invariant                                         *)

\* A handler runs on a session.
LEMMA RunsOnASession ==
    ASSUME IInv, NEW t \in Threads, at[t] \in UsesSession
    PROVE  on[t] \in Sessions
  BY DEF IInv, SessionsNamed

LEMMA TypesPreserved == IInv /\ [Next]_vars => TypeOK'
  <1> SUFFICES ASSUME IInv, [Next]_vars PROVE TypeOK'
    OBVIOUS
  <1>0. TypeOK
    BY DEF IInv
  <1>1. ASSUME NEW s \in Sessions,
               Connect(s) \/ AcceptFails(s) \/ DataArrives(s) \/ ReadFails(s)
                   \/ WriteSucceeds(s) \/ WriteFails(s)
        PROVE  TypeOK'
    <2>1. /\ "accept" \in Kinds /\ "read" \in Kinds /\ "write" \in Kinds
          /\ FALSE \in BOOLEAN /\ TRUE \in BOOLEAN
      BY DEF Kinds
    <2>2. peer' \in [Sessions -> {"none", "open", "reset"}]
      BY <1>0, <1>1
      DEF TypeOK, Connect, AcceptFails, DataArrives, ReadFails, WriteSucceeds, WriteFails
    <2>3. \E k \in Kinds, e \in BOOLEAN : Complete(k, s, e)
      BY <1>1, <2>1
      DEF Connect, AcceptFails, DataArrives, ReadFails, WriteSucceeds, WriteFails
    <2> QED
      BY <1>0, <2>2, <2>3, CompleteTypes
  <1>2. ASSUME NEW s \in Sessions, PeerResets(s) PROVE TypeOK'
    BY <1>0, <1>2 DEF TypeOK, PeerResets
  <1>3. CASE Interrupt
    <2>1. PICK c \in CompletionType : queue' = Append(queue, c)
      BY <1>3 DEF Interrupt, Completion, CompletionType
    <2>2. queue \in Seq(CompletionType)
      BY <1>0 DEF TypeOK, CompletionType
    <2>3. queue' \in Seq(CompletionType)
      BY <2>1, <2>2
    <2> QED
      BY <1>0, <1>3, <2>3 DEF TypeOK, Interrupt, CompletionType
  <1>4. ASSUME NEW t \in Threads,
               Spawn(t) \/ RunReturns(t) \/ HandleSignal(t)
        PROVE  TypeOK'
    BY <1>0, <1>4 DEF TypeOK, Spawn, RunReturns, HandleSignal, network
  <1>5. ASSUME NEW t \in Threads, Take(t) PROVE TypeOK'
    <2>1. queue \in Seq(CompletionType) /\ queue # <<>>
      BY <1>0, <1>5 DEF TypeOK, Take, CompletionType
    <2>2. queue' \in Seq(CompletionType) /\ Head(queue) \in CompletionType
      BY <2>1, <1>5 DEF Take
    <2>3. /\ Head(queue).kind \in {"accept", "read", "write", "signal"}
          /\ Head(queue).session \in Sessions \cup {NoSession}
          /\ Head(queue).error \in BOOLEAN
      BY <2>2 DEF CompletionType, Kinds
    <2> QED
      BY <1>0, <1>5, <2>2, <2>3 DEF TypeOK, Take, CompletionType
  <1>6. ASSUME NEW t \in Threads, AcceptError(t) \/ ReadError(t) \/ WriteError(t)
        PROVE  TypeOK'
    <2>1. on[t] \in Sessions
      BY <1>6, RunsOnASession
      DEF AcceptError, ReadError, WriteError, Running, UsesSession
    <2> QED
      BY <1>0, <1>6, <2>1
      DEF TypeOK, AcceptError, ReadError, WriteError, HandleError, Delete, Go, Leave
  <1>7. ASSUME NEW t \in Threads,
               AcceptLog(t) \/ ReadRequest(t) \/ HandlerThrows(t)
        PROVE  TypeOK'
    BY <1>0, <1>7
    DEF TypeOK, AcceptLog, ReadRequest, HandlerThrows, Terminate, Go, network
  <1>8. ASSUME NEW t \in Threads,
               SessionStart(t) \/ ReadMore(t) \/ ReadInvalid(t)
                   \/ HandlerReturns(t) \/ WriteDone(t)
        PROVE  TypeOK'
    <2>1. on[t] \in Sessions
      BY <1>8, RunsOnASession
      DEF SessionStart, ReadMore, ReadInvalid, HandlerReturns, WriteDone, Running,
          UsesSession
    <2>2. "read" \in Kinds /\ "write" \in Kinds
      BY DEF Kinds
    <2>3. CASE Begin("read", on[t]) \/ Begin("write", on[t])
      <3>1. outstanding' \in [Sessions -> [Kinds -> Nat]]
        BY <1>0, <2>1, <2>2, <2>3, BeginTypes
      <3> QED
        BY <1>0, <1>8, <3>1
        DEF TypeOK, SessionStart, ReadMore, ReadInvalid, HandlerReturns, WriteDone,
            StartAsyncRead, SendResponse, Go, Leave, Terminate, network
    <2>4. CASE Terminate
      BY <1>0, <2>4 DEF TypeOK, Terminate, network
    <2> QED
      BY <1>8, <2>3, <2>4
      DEF SessionStart, ReadMore, ReadInvalid, HandlerReturns, WriteDone,
          StartAsyncRead, SendResponse
  <1>9. ASSUME NEW t \in Threads, StartAccept(t) PROVE TypeOK'
    <2>1. PICK s \in Sessions : live' = live \cup {s} /\ Begin("accept", s)
      BY <1>9 DEF StartAccept
    <2>2. outstanding' \in [Sessions -> [Kinds -> Nat]]
      BY <1>0, <2>1, BeginTypes DEF Kinds
    <2> QED
      BY <1>0, <1>9, <2>1, <2>2 DEF TypeOK, StartAccept, Leave
  <1>10. CASE Exit
    BY <1>0, <1>10 DEF TypeOK, Exit, network
  <1>11. CASE UNCHANGED vars
    BY <1>0, <1>11 DEF TypeOK, vars, network
  <1> QED
    BY <1>1, <1>2, <1>3, <1>4, <1>5, <1>6, <1>7, <1>8, <1>9, <1>10, <1>11
    DEF Next, Environment, Work, Over

\* A step that moves no operation, completion or session, only threads among the
\* points of a handler.
LEMMA MoveKeepsOwners ==
    ASSUME IInv, outstanding' = outstanding, queue' = queue, live' = live,
           \A t \in Threads : /\ on'[t] = on[t]
                              /\ at'[t] \in UsesSession <=> at[t] \in UsesSession
    PROVE  Ownership' /\ SessionsNamed'
  <1>1. ASSUME NEW x \in Sessions PROVE OwnedOnce(x)'
    <2>1. \A t \in Threads : Runs(x, t)' <=> Runs(x, t)
      BY DEF Runs
    <2> QED
      BY <2>1, OthersKeepOwners DEF IInv, Ownership
  <1>2. SessionsNamed'
    BY DEF IInv, SessionsNamed
  <1> QED
    BY <1>1, <1>2 DEF Ownership

LEMMA OwnershipPreserved == IInv /\ [Next]_vars => Ownership' /\ SessionsNamed'
  <1> SUFFICES ASSUME IInv, [Next]_vars PROVE Ownership' /\ SessionsNamed'
    OBVIOUS
  <1>0. /\ TypeOK /\ SessionsNamed /\ Ownership
        /\ at \in [Threads -> Places]
        /\ on \in [Threads -> Sessions \cup {NoSession}]
    BY DEF IInv, TypeOK, Places
  <1>1. ASSUME NEW s \in Sessions,
               Connect(s) \/ AcceptFails(s) \/ DataArrives(s) \/ ReadFails(s)
                   \/ WriteSucceeds(s) \/ WriteFails(s)
        PROVE  Ownership' /\ SessionsNamed'
    <2>1. PICK k \in Kinds, e \in BOOLEAN : Complete(k, s, e)
      BY <1>1
      DEF Connect, AcceptFails, DataArrives, ReadFails, WriteSucceeds, WriteFails, Kinds
    <2>2. queue \in Seq(CompletionType)
      BY <1>0 DEF TypeOK, CompletionType
    <2>3. SessionsNamed'
      BY <1>0, <2>1, <2>2 DEF SessionsNamed, Complete, Completion
    <2> QED
      BY <2>1, <2>3, CompleteMovesOwner
  <1>2. ASSUME NEW s \in Sessions, PeerResets(s)
        PROVE  Ownership' /\ SessionsNamed'
    BY <1>2, MoveKeepsOwners DEF PeerResets
  <1>3. CASE Interrupt
    <2>0. queue \in Seq(CompletionType)
      BY <1>0 DEF TypeOK, CompletionType
    <2> PICK c \in CompletionType :
            c.kind = "signal" /\ c.session = NoSession /\ queue' = Append(queue, c)
      BY <1>3 DEF Interrupt, Completion, CompletionType
    <2>1. outstanding' = outstanding /\ live' = live /\ at' = at /\ on' = on
      BY <1>3 DEF Interrupt
    <2> PICK last \in Nat : last = Len(queue) + 1
      BY <2>0
    <2>2. /\ DOMAIN queue' = DOMAIN queue \cup {last}
          /\ \A i \in DOMAIN queue : queue'[i] = queue[i]
          /\ queue'[last] = c
          /\ last \notin DOMAIN queue
      BY <2>0
    <2>3. SessionsNamed'
      BY <1>0, <2>1, <2>2, NoSessionAssumption DEF SessionsNamed, Kinds
    <2>4. ASSUME NEW x \in Sessions PROVE OwnedOnce(x)'
      <3>1. \A i \in DOMAIN queue' : Waits(x, i)' <=> (i \in DOMAIN queue /\ Waits(x, i))
        BY <2>2, NoSessionAssumption DEF Waits
      <3>2. OwnedOnce(x)
        BY <1>0 DEF Ownership
      <3>3. Exclusive(x)'
        BY <2>1, <3>1, <3>2 DEF OwnedOnce, Exclusive, Begun, Runs
      <3>4. Owned(x)' <=> Owned(x)
        BY <2>1, <2>2, <3>1 DEF Owned, Begun, Runs
      <3> QED
        BY <2>1, <3>2, <3>3, <3>4 DEF OwnedOnce
    <2> QED
      BY <2>3, <2>4 DEF Ownership
  <1>4. ASSUME NEW t \in Threads,
               Spawn(t) \/ RunReturns(t) \/ HandleSignal(t)
        PROVE  Ownership' /\ SessionsNamed'
    <2>1. outstanding' = outstanding /\ queue' = queue /\ live' = live /\ on' = on
      BY <1>4 DEF Spawn, RunReturns, HandleSignal, network
    <2>2. \A u \in Threads : at'[u] \in UsesSession <=> at[u] \in UsesSession
      BY <1>0, <1>4 DEF Spawn, RunReturns, HandleSignal, UsesSession
    <2> QED
      BY <2>1, <2>2, MoveKeepsOwners
  <1>5. ASSUME NEW t \in Threads, Take(t) PROVE Ownership' /\ SessionsNamed'
    BY <1>5, TakeMovesOwner
  <1>6. ASSUME NEW t \in Threads, AcceptError(t) \/ ReadError(t) \/ WriteError(t)
        PROVE  Ownership' /\ SessionsNamed'
    <2>1. /\ at[t] \in UsesSession /\ Delete(on[t])
          /\ outstanding' = outstanding /\ queue' = queue
      BY <1>6 DEF AcceptError, ReadError, WriteError, HandleError, Running, UsesSession
    <2>2. /\ at'[t] \notin UsesSession
          /\ \A u \in Threads \ {t} : at'[u] = at[u] /\ on'[u] = on[u]
      BY <1>0, <1>6 DEF AcceptError, ReadError, WriteError, Go, Leave, UsesSession
    <2>3. SessionsNamed'
      BY <1>0, <2>1, <2>2 DEF SessionsNamed
    <2> QED
      BY <2>1, <2>2, <2>3, DeleteDropsOwner
  <1>7. ASSUME NEW t \in Threads,
               AcceptLog(t) \/ ReadRequest(t) \/ HandlerThrows(t)
        PROVE  Ownership' /\ SessionsNamed'
    <2>1. outstanding' = outstanding /\ queue' = queue /\ live' = live /\ on' = on
      BY <1>7 DEF AcceptLog, ReadRequest, HandlerThrows, Terminate, Go, network
    <2>2. \A u \in Threads : at'[u] \in UsesSession <=> at[u] \in UsesSession
      BY <1>0, <1>7
      DEF AcceptLog, ReadRequest, HandlerThrows, Terminate, Go, Running, UsesSession
    <2> QED
      BY <2>1, <2>2, MoveKeepsOwners
  <1>8. ASSUME NEW t \in Threads,
               SessionStart(t) \/ ReadMore(t) \/ ReadInvalid(t)
                   \/ HandlerReturns(t) \/ WriteDone(t)
        PROVE  Ownership' /\ SessionsNamed'
    <2>1. CASE Terminate
      <3>1. outstanding' = outstanding /\ queue' = queue /\ live' = live
            /\ on' = on /\ at' = at
        BY <2>1 DEF Terminate, network
      <3> QED
        BY <3>1, MoveKeepsOwners
    <2>2. CASE ~Terminate
      <3>1. PICK k \in Kinds : Begin(k, on[t])
        BY <1>8, <2>2
        DEF SessionStart, ReadMore, ReadInvalid, HandlerReturns, WriteDone,
            StartAsyncRead, SendResponse, Kinds
      <3>2. at[t] \in UsesSession /\ queue' = queue /\ live' = live
        BY <1>8, <2>2
        DEF SessionStart, ReadMore, ReadInvalid, HandlerReturns, WriteDone,
            StartAsyncRead, SendResponse, Running, UsesSession
      <3>3. /\ at'[t] \notin UsesSession
            /\ \A u \in Threads \ {t} : at'[u] = at[u] /\ on'[u] = on[u]
        BY <1>0, <1>8, <2>2
        DEF SessionStart, ReadMore, ReadInvalid, HandlerReturns, WriteDone, Go, Leave,
            UsesSession
      <3>4. SessionsNamed'
        BY <1>0, <3>2, <3>3 DEF SessionsNamed
      <3> QED
        BY <3>1, <3>2, <3>3, <3>4, BeginMovesOwner
    <2> QED
      BY <2>1, <2>2
  <1>9. ASSUME NEW t \in Threads, StartAccept(t) PROVE Ownership' /\ SessionsNamed'
    <2>1. /\ queue' = queue /\ at'[t] \notin UsesSession
          /\ \A u \in Threads \ {t} : at'[u] = at[u] /\ on'[u] = on[u]
      BY <1>0, <1>9 DEF StartAccept, Leave, UsesSession
    <2>2. SessionsNamed'
      BY <1>0, <2>1 DEF SessionsNamed
    <2> QED
      BY <1>9, <2>2, AcceptMakesOwner
  <1>10. CASE Exit
    BY <1>10, MoveKeepsOwners DEF Exit, network
  <1>11. CASE UNCHANGED vars
    BY <1>11, MoveKeepsOwners DEF vars, network
  <1> QED
    BY <1>1, <1>2, <1>3, <1>4, <1>5, <1>6, <1>7, <1>8, <1>9, <1>10, <1>11
    DEF Next, Environment, Work, Over

--------------------------------------------------------------------------------
(* Theorems                                                                   *)

THEOREM Invariance == Spec => []IInv
  <1>1. Init => IInv
    BY InitTypes, InitOwnership DEF IInv
  <1>2. IInv /\ [Next]_vars => IInv'
    BY TypesPreserved, OwnershipPreserved DEF IInv
  <1> QED
    BY <1>1, <1>2, PTL DEF Spec

\* The state of the event loop keeps its types.
THEOREM TypeCorrect == Spec => []TypeOK
  <1>1. IInv => TypeOK
    BY DEF IInv
  <1> QED
    BY <1>1, Invariance, PTL

\* However many threads run the io_service, a session object that is allocated
\* is referred to from exactly one operation, completion or handler, and a
\* deleted one from none: handlers never run on freed memory, two threads never
\* share a session, none is leaked.
THEOREM OneOwnerAlways == Spec => []OneOwner
  <1>1. IInv => OneOwner
    BY OwnershipIsOneOwner DEF IInv
  <1> QED
    BY <1>1, Invariance, PTL

--------------------------------------------------------------------------------
(* Sockets                                                                    *)

\* A failed accept of s is known but not yet handled.
FailedWaits(s) == \E i \in DOMAIN queue : queue[i] = Completion("accept", s, TRUE)
FailedRuns(s) == \E t \in Threads : at[t] = "accept" /\ on[t] = s /\ failed[t]

Accepted(s) ==
    s \in live /\ outstanding[s]["accept"] = 0 /\ ~FailedWaits(s) /\ ~FailedRuns(s)

SocketFollows(s) == peer[s] # "none" <=> Accepted(s)

LEMMA SocketsByParts == SocketsFollowSessions <=> \A s \in Sessions : SocketFollows(s)
  BY DEF SocketsFollowSessions, SocketFollows, Accepted, FailedWaits, FailedRuns

LEMMA SocketsByPartsNext ==
    SocketsFollowSessions' <=> \A s \in Sessions : SocketFollows(s)'
  BY DEF SocketsFollowSessions, SocketFollows, Accepted, FailedWaits, FailedRuns

\* A step that neither connects nor closes x.
LEMMA SocketUntouched ==
    ASSUME NEW x \in Sessions, SocketFollows(x),
           peer'[x] = "none" <=> peer[x] = "none",
           Accepted(x)' <=> Accepted(x)
    PROVE  SocketFollows(x)'
  BY DEF SocketFollows

\* A completion that is not a failed accept of x.
LEMMA AppendKeepsFailed ==
    ASSUME TypeOK, NEW x \in Sessions, NEW c, queue' = Append(queue, c)
    PROVE  FailedWaits(x)' <=> FailedWaits(x) \/ c = Completion("accept", x, TRUE)
  <1>0. queue \in Seq(CompletionType)
    BY DEF TypeOK, CompletionType
  <1> PICK last \in Nat : last = Len(queue) + 1
    BY <1>0
  <1>1. /\ DOMAIN queue' = DOMAIN queue \cup {last}
        /\ \A i \in DOMAIN queue : queue'[i] = queue[i]
        /\ queue'[last] = c
    BY <1>0
  <1> QED
    BY <1>1 DEF FailedWaits

\* A session that an operation is outstanding for has no failed accept.
LEMMA BegunHasNotFailed ==
    ASSUME IInv, NEW s \in Sessions, NEW k \in Kinds, outstanding[s][k] > 0
    PROVE  /\ s \in live /\ ~FailedWaits(s) /\ ~FailedRuns(s)
           /\ outstanding[s][k] = 1
           /\ \A l \in Kinds \ {k} : outstanding[s][l] = 0
  <1>1. OwnedOnce(s) /\ outstanding[s] \in [Kinds -> Nat] /\ Begun(s, k)
    BY DEF IInv, Ownership, TypeOK, Begun
  <1>2. /\ \A i \in DOMAIN queue : ~Waits(s, i)
        /\ \A t \in Threads : ~Runs(s, t)
        /\ outstanding[s][k] = 1
        /\ \A l \in Kinds \ {k} : outstanding[s][l] = 0
        /\ s \in live
    BY <1>1 DEF OwnedOnce, Exclusive, Owned, Begun
  <1>3. ~FailedWaits(s)
    BY <1>2 DEF FailedWaits, Waits, Completion
  <1>4. ~FailedRuns(s)
    BY <1>2 DEF FailedRuns, Runs, UsesSession
  <1> QED
    BY <1>2, <1>3, <1>4

LEMMA CompleteKeepsSockets ==
    ASSUME IInv, SocketsFollowSessions, NEW s \in Sessions, NEW k \in Kinds,
           NEW e \in BOOLEAN, Complete(k, s, e),
           peer' = IF k = "accept" /\ ~e THEN [peer EXCEPT ![s] = "open"] ELSE peer
    PROVE  SocketsFollowSessions'
  <1> SUFFICES ASSUME NEW x \in Sessions PROVE SocketFollows(x)'
    BY SocketsByPartsNext
  <1>1. /\ SocketFollows(x)
        /\ TypeOK
        /\ peer \in [Sessions -> {"none", "open", "reset"}]
        /\ outstanding \in [Sessions -> [Kinds -> Nat]]
    BY SocketsByParts DEF IInv, TypeOK
  <1>2. /\ outstanding[s][k] > 0
        /\ outstanding' = [outstanding EXCEPT ![s][k] = @ - 1]
        /\ queue' = Append(queue, Completion(k, s, e))
        /\ UNCHANGED <<live, at, on, failed>>
    BY DEF Complete
  <1>3. "accept" \in Kinds
    BY DEF Kinds
  <1>4. FailedRuns(x)' <=> FailedRuns(x)
    BY <1>2 DEF FailedRuns
  <1>5. FailedWaits(x)' <=> FailedWaits(x) \/ Completion(k, s, e) = Completion("accept", x, TRUE)
    BY <1>1, <1>2, AppendKeepsFailed
  <1>6. Completion(k, s, e) = Completion("accept", x, TRUE) <=> k = "accept" /\ s = x /\ e
    BY DEF Completion
  <1>7. CASE x # s \/ k # "accept"
    <2>1. outstanding'[x]["accept"] = outstanding[x]["accept"]
      BY <1>1, <1>2, <1>3, <1>7
    <2>2. peer'[x] = peer[x]
      BY <1>1, <1>7
    <2>3. Accepted(x)' <=> Accepted(x)
      BY <1>2, <1>4, <1>5, <1>6, <1>7, <2>1 DEF Accepted
    <2> QED
      BY <1>1, <2>2, <2>3, SocketUntouched
  <1>8. CASE x = s /\ k = "accept"
    <2>1. /\ x \in live /\ ~FailedWaits(x) /\ ~FailedRuns(x)
          /\ outstanding[x]["accept"] = 1
      BY <1>2, <1>8, BegunHasNotFailed
    <2>2. outstanding'[x]["accept"] = 0
      BY <1>1, <1>2, <1>8, <2>1
    <2>3. peer[x] = "none"
      BY <1>1, <2>1 DEF SocketFollows, Accepted
    <2>4. CASE e
      <3>1. ~Accepted(x)'
        BY <1>5, <1>6, <1>8, <2>4 DEF Accepted
      <3>2. peer'[x] = "none"
        BY <2>3, <2>4
      <3> QED
        BY <3>1, <3>2 DEF SocketFollows
    <2>5. CASE ~e
      <3>1. Accepted(x)'
        BY <1>2, <1>4, <1>5, <1>6, <2>1, <2>2, <2>5 DEF Accepted
      <3>2. peer'[x] = "open"
        BY <1>1, <1>8, <2>5
      <3> QED
        BY <3>1, <3>2 DEF SocketFollows
    <2> QED
      BY <2>4, <2>5
  <1> QED
    BY <1>7, <1>8

LEMMA TakeKeepsSockets ==
    ASSUME IInv, SocketsFollowSessions, NEW t \in Threads, Take(t)
    PROVE  SocketsFollowSessions'
  <1> SUFFICES ASSUME NEW x \in Sessions PROVE SocketFollows(x)'
    BY SocketsByPartsNext
  <1>0. /\ SocketFollows(x)
        /\ queue \in Seq(CompletionType) /\ queue # <<>>
        /\ at \in [Threads -> Places] /\ on \in [Threads -> Sessions \cup {NoSession}]
        /\ failed \in [Threads -> BOOLEAN]
    BY SocketsByParts DEF IInv, TypeOK, CompletionType, Places, Take
  <1>1. /\ 1 \in DOMAIN queue
        /\ \A i \in DOMAIN queue' : i + 1 \in DOMAIN queue /\ queue'[i] = queue[i + 1]
        /\ \A i \in DOMAIN queue : i = 1 \/ (i - 1 \in DOMAIN queue' /\ (i - 1) + 1 = i)
    BY <1>0 DEF Take
  <1>2. /\ at[t] = "run"
        /\ at'[t] = queue[1].kind /\ on'[t] = queue[1].session
        /\ failed'[t] = queue[1].error
        /\ \A u \in Threads \ {t} : at'[u] = at[u] /\ on'[u] = on[u] /\ failed'[u] = failed[u]
        /\ UNCHANGED <<peer, outstanding, live>>
    BY <1>0 DEF Take
  <1>3. PICK k \in Kinds \cup {"signal"}, s \in Sessions \cup {NoSession}, e \in BOOLEAN :
            queue[1] = Completion(k, s, e)
    <2>1. queue[1] \in CompletionType
      BY <1>0, <1>1
    <2> QED
      BY <2>1 DEF CompletionType, Completion
  <1>11. queue[1].kind = k /\ queue[1].session = s /\ queue[1].error = e
    BY <1>3 DEF Completion
  <1> DEFINE first == queue[1] = Completion("accept", x, TRUE)
  <1>4. first <=> k = "accept" /\ s = x /\ e
    <2>1. Completion(k, s, e) = Completion("accept", x, TRUE) <=> k = "accept" /\ s = x /\ e
      BY DEF Completion
    <2> QED
      BY <1>3, <2>1
  <1>9. FailedWaits(x) <=> FailedWaits(x)' \/ first
    <2>1. ASSUME FailedWaits(x) PROVE FailedWaits(x)' \/ first
      <3>1. PICK i \in DOMAIN queue : queue[i] = Completion("accept", x, TRUE)
        BY <2>1 DEF FailedWaits
      <3>2. CASE i = 1
        BY <3>1, <3>2
      <3>3. CASE i # 1
        <4>1. i - 1 \in DOMAIN queue' /\ queue'[i - 1] = queue[i]
          BY <1>1, <3>3
        <4> QED
          BY <3>1, <4>1 DEF FailedWaits
      <3> QED
        BY <3>2, <3>3
    <2>2. ASSUME FailedWaits(x)' PROVE FailedWaits(x)
      BY <1>1, <2>2 DEF FailedWaits
    <2>3. ASSUME first PROVE FailedWaits(x)
      BY <1>1, <2>3 DEF FailedWaits
    <2> QED
      BY <2>1, <2>2, <2>3
  <1> HIDE DEF first
  <1>8. first <=> at'[t] = "accept" /\ on'[t] = x /\ failed'[t]
    BY <1>2, <1>4, <1>11
  <1>10. at[t] # "accept"
    BY <1>2
  <1>5. FailedRuns(x)' <=> FailedRuns(x) \/ first
    BY <1>2, <1>8, <1>10 DEF FailedRuns
  <1>7. Accepted(x)' <=> Accepted(x)
    BY <1>2, <1>5, <1>9 DEF Accepted
  <1> QED
    BY <1>0, <1>2, <1>7, SocketUntouched

\* Steps of a handler that neither delete a session nor make one.
LEMMA GoingOnKeepsSockets ==
    ASSUME SocketsFollowSessions,
           NEW t \in Threads, failed[t] => at[t] # "accept",
           UNCHANGED <<peer, queue, live>>,
           \A s \in Sessions :
               outstanding'[s]["accept"] = outstanding[s]["accept"],
           at'[t] # "accept",
           \A u \in Threads \ {t} : at'[u] = at[u] /\ on'[u] = on[u] /\ failed'[u] = failed[u]
    PROVE  SocketsFollowSessions'
  <1> SUFFICES ASSUME NEW x \in Sessions PROVE SocketFollows(x)'
    BY SocketsByPartsNext
  <1>1. FailedWaits(x)' <=> FailedWaits(x)
    BY DEF FailedWaits
  <1>2. FailedRuns(x)' <=> FailedRuns(x)
    BY DEF FailedRuns
  <1>3. Accepted(x)' <=> Accepted(x)
    BY <1>1, <1>2 DEF Accepted
  <1> QED
    BY <1>3, SocketsByParts, SocketUntouched

LEMMA DeleteKeepsSockets ==
    ASSUME IInv, SocketsFollowSessions, NEW t \in Threads, at[t] \in UsesSession,
           Delete(on[t]), UNCHANGED <<outstanding, queue>>, at'[t] # "accept",
           \A u \in Threads \ {t} : at'[u] = at[u] /\ on'[u] = on[u] /\ failed'[u] = failed[u]
    PROVE  SocketsFollowSessions'
  <1> SUFFICES ASSUME NEW x \in Sessions PROVE SocketFollows(x)'
    BY SocketsByPartsNext
  <1>0. /\ SocketFollows(x) /\ on[t] \in Sessions
        /\ peer \in [Sessions -> {"none", "open", "reset"}]
    BY SocketsByParts, RunsOnASession DEF IInv, TypeOK
  <1>1. CASE x = on[t]
    BY <1>0, <1>1 DEF SocketFollows, Accepted, Delete
  <1>2. CASE x # on[t]
    <2>1. peer'[x] = peer[x] /\ (x \in live' <=> x \in live)
      BY <1>0, <1>2 DEF Delete
    <2>2. (FailedWaits(x)' <=> FailedWaits(x)) /\ (FailedRuns(x)' <=> FailedRuns(x))
      BY <1>2 DEF FailedWaits, FailedRuns
    <2>3. Accepted(x)' <=> Accepted(x)
      BY <2>1, <2>2 DEF Accepted
    <2> QED
      BY <1>0, <2>1, <2>3, SocketUntouched
  <1> QED
    BY <1>1, <1>2

LEMMA StartAcceptKeepsSockets ==
    ASSUME IInv, SocketsFollowSessions, NEW t \in Threads, StartAccept(t)
    PROVE  SocketsFollowSessions'
  <1> SUFFICES ASSUME NEW x \in Sessions PROVE SocketFollows(x)'
    BY SocketsByPartsNext
  <1>0. /\ SocketFollows(x)
        /\ outstanding \in [Sessions -> [Kinds -> Nat]]
        /\ at \in [Threads -> Places]
        /\ on \in [Threads -> Sessions \cup {NoSession}]
        /\ failed \in [Threads -> BOOLEAN]
    BY SocketsByParts DEF IInv, TypeOK, Places
  <1>1. PICK s \in Sessions \ live : live' = live \cup {s} /\ Begin("accept", s)
    BY DEF StartAccept
  <1>2. /\ at[t] = "rearm" /\ at'[t] = "run"
        /\ \A u \in Threads \ {t} : at'[u] = at[u] /\ on'[u] = on[u] /\ failed'[u] = failed[u]
        /\ UNCHANGED <<peer, queue>>
    BY <1>0 DEF StartAccept, Running, Leave
  <1>3. (FailedWaits(x)' <=> FailedWaits(x)) /\ (FailedRuns(x)' <=> FailedRuns(x))
    BY <1>2 DEF FailedWaits, FailedRuns
  <1>4. CASE x = s
    <2>1. outstanding'[x]["accept"] # 0
      BY <1>0, <1>1, <1>4 DEF Begin, Kinds
    <2> QED
      BY <1>0, <1>1, <1>2, <1>4, <2>1 DEF SocketFollows, Accepted
  <1>5. CASE x # s
    <2>1. outstanding'[x] = outstanding[x] /\ (x \in live' <=> x \in live)
      BY <1>0, <1>1, <1>5 DEF Begin
    <2>2. Accepted(x)' <=> Accepted(x)
      BY <1>3, <2>1 DEF Accepted
    <2> QED
      BY <1>0, <1>2, <2>2, SocketUntouched
  <1> QED
    BY <1>4, <1>5

LEMMA SocketsPreserved ==
    IInv /\ SocketsFollowSessions /\ [Next]_vars => SocketsFollowSessions'
  <1> SUFFICES ASSUME IInv, SocketsFollowSessions, [Next]_vars
               PROVE  SocketsFollowSessions'
    OBVIOUS
  <1>0. /\ at \in [Threads -> Places]
        /\ on \in [Threads -> Sessions \cup {NoSession}]
        /\ failed \in [Threads -> BOOLEAN]
        /\ peer \in [Sessions -> {"none", "open", "reset"}]
        /\ outstanding \in [Sessions -> [Kinds -> Nat]]
    BY DEF IInv, TypeOK, Places
  <1>1. ASSUME NEW s \in Sessions,
               Connect(s) \/ AcceptFails(s) \/ DataArrives(s) \/ ReadFails(s)
                   \/ WriteSucceeds(s) \/ WriteFails(s)
        PROVE  SocketsFollowSessions'
    <2>1. PICK k \in Kinds, e \in BOOLEAN :
              /\ Complete(k, s, e)
              /\ peer' = IF k = "accept" /\ ~e THEN [peer EXCEPT ![s] = "open"] ELSE peer
      BY <1>1
      DEF Connect, AcceptFails, DataArrives, ReadFails, WriteSucceeds, WriteFails, Kinds
    <2> QED
      BY <2>1, CompleteKeepsSockets
  <1>2. ASSUME NEW s \in Sessions, PeerResets(s) PROVE SocketsFollowSessions'
    <2>1. /\ \A x \in Sessions : peer'[x] = "none" <=> peer[x] = "none"
          /\ UNCHANGED <<live, outstanding, queue, at, on, failed>>
      BY <1>0, <1>2 DEF PeerResets
    <2> QED
      BY <2>1 DEF SocketsFollowSessions
  <1>3. CASE Interrupt
    <2>1. /\ queue' = Append(queue, Completion("signal", NoSession, FALSE))
          /\ UNCHANGED <<live, peer, outstanding, at, on, failed>>
      BY <1>3 DEF Interrupt
    <2>2. \A x : Completion("signal", NoSession, FALSE) # Completion("accept", x, TRUE)
      BY DEF Completion
    <2>3. ASSUME NEW x \in Sessions PROVE FailedWaits(x)' <=> FailedWaits(x)
      <3> PICK c : c = Completion("signal", NoSession, FALSE)
        OBVIOUS
      <3>1. FailedWaits(x)' <=> FailedWaits(x) \/ c = Completion("accept", x, TRUE)
        BY <2>1, AppendKeepsFailed DEF IInv
      <3> QED
        BY <2>2, <3>1
    <2>4. \A x \in Sessions : Accepted(x)' <=> Accepted(x)
      BY <2>1, <2>3 DEF Accepted, FailedRuns
    <2> QED
      BY <2>1, <2>4, SocketsByParts, SocketsByPartsNext, SocketUntouched
  <1>4. ASSUME NEW t \in Threads,
               Spawn(t) \/ RunReturns(t) \/ HandleSignal(t)
                   \/ (ReadRequest(t) /\ ~Terminate)
                   \/ (AcceptLog(t) /\ ~Terminate)
        PROVE  SocketsFollowSessions'
    <2>1. /\ failed[t] => at[t] # "accept"
          /\ UNCHANGED <<peer, queue, live, outstanding>>
      BY <1>4 DEF Spawn, RunReturns, HandleSignal, ReadRequest, AcceptLog, Running, Go,
                  network
    <2>2. /\ at'[t] # "accept"
          /\ \A u \in Threads \ {t} :
                 at'[u] = at[u] /\ on'[u] = on[u] /\ failed'[u] = failed[u]
      BY <1>0, <1>4 DEF Spawn, RunReturns, HandleSignal, ReadRequest, AcceptLog, Go
    <2> QED
      BY <2>1, <2>2, GoingOnKeepsSockets
  <1>5. ASSUME NEW t \in Threads, Take(t) PROVE SocketsFollowSessions'
    BY <1>5, TakeKeepsSockets
  <1>6. ASSUME NEW t \in Threads, AcceptError(t) \/ ReadError(t) \/ WriteError(t)
        PROVE  SocketsFollowSessions'
    <2>1. /\ at[t] \in UsesSession /\ Delete(on[t])
          /\ outstanding' = outstanding /\ queue' = queue
      BY <1>6 DEF AcceptError, ReadError, WriteError, HandleError, Running, UsesSession
    <2>2. /\ at'[t] # "accept"
          /\ \A u \in Threads \ {t} :
                 at'[u] = at[u] /\ on'[u] = on[u] /\ failed'[u] = failed[u]
      BY <1>0, <1>6 DEF AcceptError, ReadError, WriteError, Go, Leave
    <2> QED
      BY <2>1, <2>2, DeleteKeepsSockets
  <1>7. ASSUME NEW t \in Threads,
               SessionStart(t) \/ ReadMore(t) \/ ReadInvalid(t)
                   \/ HandlerReturns(t) \/ WriteDone(t),
               ~Terminate
        PROVE  SocketsFollowSessions'
    <2>1. /\ Begin("read", on[t]) \/ Begin("write", on[t])
          /\ UNCHANGED <<peer, queue, live>>
          /\ at[t] \in UsesSession \ {"accept"}
      BY <1>7
      DEF SessionStart, ReadMore, ReadInvalid, HandlerReturns, WriteDone,
          StartAsyncRead, SendResponse, Running, UsesSession
    <2>2. \A s \in Sessions : outstanding'[s]["accept"] = outstanding[s]["accept"]
      BY <1>0, <2>1 DEF Begin, Kinds
    <2>3. /\ at'[t] # "accept"
          /\ \A u \in Threads \ {t} :
                 at'[u] = at[u] /\ on'[u] = on[u] /\ failed'[u] = failed[u]
      BY <1>0, <1>7
      DEF SessionStart, ReadMore, ReadInvalid, HandlerReturns, WriteDone, Go, Leave
    <2> QED
      BY <2>1, <2>2, <2>3, GoingOnKeepsSockets
  <1>8. ASSUME NEW t \in Threads, StartAccept(t) PROVE SocketsFollowSessions'
    BY <1>8, StartAcceptKeepsSockets
  <1>9. CASE Exit \/ Terminate \/ UNCHANGED vars
    <2>1. UNCHANGED <<live, peer, outstanding, queue, at, on, failed>>
      BY <1>9 DEF Exit, Terminate, vars, network
    <2> QED
      BY <2>1 DEF SocketsFollowSessions
  <1> QED
    BY <1>1, <1>2, <1>3, <1>4, <1>5, <1>6, <1>7, <1>8, <1>9
    DEF Next, Environment, Work, Over, HandlerThrows

--------------------------------------------------------------------------------
(* The acceptor                                                               *)

\* Acceptors taken apart, one predicate for each kind of place.
Listens(s) == outstanding[s]["accept"] > 0
Arrived(i) == queue[i].kind = "accept"
Rearms(t) == at[t] \in {"accept", "start", "rearm"}

AcceptOnce ==
    /\ \A s \in Sessions : outstanding[s]["accept"] <= 1
    /\ \A s, r \in Sessions : Listens(s) /\ Listens(r) => s = r
    /\ \A i, j \in DOMAIN queue : Arrived(i) /\ Arrived(j) => i = j
    /\ \A t, u \in Threads : Rearms(t) /\ Rearms(u) => t = u
    /\ \A s \in Sessions, i \in DOMAIN queue : ~(Listens(s) /\ Arrived(i))
    /\ \A s \in Sessions, t \in Threads : ~(Listens(s) /\ Rearms(t))
    /\ \A i \in DOMAIN queue, t \in Threads : ~(Arrived(i) /\ Rearms(t))

Accepts ==
    \/ \E s \in Sessions : Listens(s)
    \/ \E i \in DOMAIN queue : Arrived(i)
    \/ \E t \in Threads : Rearms(t)

LEMMA AcceptorsByParts ==
    ASSUME TypeOK, AcceptOnce, Accepts PROVE OneAcceptor
  <1>0. \A s \in Sessions : outstanding[s]["accept"] \in Nat
    BY DEF TypeOK, Kinds
  <1>1. ASSUME NEW s \in Sessions, Listens(s)
        PROVE  Acceptors = {<<"outstanding", s, 1>>}
    BY <1>0, <1>1 DEF AcceptOnce, Acceptors, Listens, Arrived, Rearms
  <1>2. ASSUME NEW i \in DOMAIN queue, Arrived(i)
        PROVE  Acceptors = {<<"queued", i>>}
    BY <1>0, <1>2 DEF AcceptOnce, Acceptors, Listens, Arrived, Rearms
  <1>3. ASSUME NEW t \in Threads, Rearms(t)
        PROVE  Acceptors = {<<"running", t>>}
    BY <1>0, <1>3 DEF AcceptOnce, Acceptors, Listens, Arrived, Rearms
  <1> QED
    BY <1>1, <1>2, <1>3 DEF Accepts, OneAcceptor

LEMMA AcceptInit == Init => AcceptOnce /\ Accepts
  <1> SUFFICES ASSUME Init PROVE AcceptOnce /\ Accepts
    OBVIOUS
  <1>1. PICK first \in Sessions :
            outstanding = [s \in Sessions |-> [k \in Kinds |->
                IF s = first /\ k = "accept" THEN 1 ELSE 0]]
    BY DEF Init
  <1>2. \A s \in Sessions : outstanding[s]["accept"] = IF s = first THEN 1 ELSE 0
    BY <1>1 DEF Kinds
  <1>3. DOMAIN queue = {} /\ \A t \in Threads : ~Rearms(t)
    BY DEF Init, Rearms
  <1> QED
    BY <1>2, <1>3 DEF AcceptOnce, Accepts, Listens

\* A step that moves no accept.
LEMMA AcceptUntouched ==
    ASSUME AcceptOnce, Accepts, queue' = queue,
           \A s \in Sessions : outstanding'[s]["accept"] = outstanding[s]["accept"],
           \A t \in Threads : Rearms(t)' <=> Rearms(t)
    PROVE  AcceptOnce' /\ Accepts'
  BY DEF AcceptOnce, Accepts, Listens, Arrived

\* A completion of another kind.
LEMMA OtherKindArrives ==
    ASSUME TypeOK, AcceptOnce, Accepts, NEW c \in CompletionType, c.kind # "accept",
           queue' = Append(queue, c), UNCHANGED at,
           \A s \in Sessions : outstanding'[s]["accept"] = outstanding[s]["accept"]
    PROVE  AcceptOnce' /\ Accepts'
  <1>0. queue \in Seq(CompletionType)
    BY DEF TypeOK, CompletionType
  <1> PICK last \in Nat : last = Len(queue) + 1
    BY <1>0
  <1>1. /\ DOMAIN queue' = DOMAIN queue \cup {last}
        /\ \A i \in DOMAIN queue : queue'[i] = queue[i]
        /\ queue'[last] = c
        /\ last \notin DOMAIN queue
    BY <1>0
  <1>2. \A i \in DOMAIN queue' : Arrived(i)' <=> i \in DOMAIN queue /\ Arrived(i)
    BY <1>1 DEF Arrived
  <1>3. \A t \in Threads : Rearms(t)' <=> Rearms(t)
    BY DEF Rearms
  <1>4. \A s \in Sessions : Listens(s)' <=> Listens(s)
    BY DEF Listens
  <1>5. AcceptOnce'
    BY <1>2, <1>3, <1>4 DEF AcceptOnce
  <1>6. Accepts'
    BY <1>1, <1>2, <1>3, <1>4 DEF Accepts
  <1> QED
    BY <1>5, <1>6

LEMMA AcceptArrives ==
    ASSUME IInv, AcceptOnce, Accepts, NEW s \in Sessions, NEW e \in BOOLEAN,
           Complete("accept", s, e)
    PROVE  AcceptOnce' /\ Accepts'
  <1>0. /\ queue \in Seq(CompletionType)
        /\ outstanding \in [Sessions -> [Kinds -> Nat]]
        /\ "accept" \in Kinds
    BY DEF IInv, TypeOK, CompletionType, Kinds
  <1> PICK last \in Nat : last = Len(queue) + 1
    BY <1>0
  <1>1. /\ DOMAIN queue' = DOMAIN queue \cup {last}
        /\ \A i \in DOMAIN queue : queue'[i] = queue[i]
        /\ queue'[last] = Completion("accept", s, e)
        /\ last \notin DOMAIN queue
    BY <1>0 DEF Complete
  <1>2. Listens(s)
    BY DEF Complete, Listens
  <1>3. \A r \in Sessions : outstanding'[r]["accept"] = 0
    <2>1. \A r \in Sessions \ {s} : outstanding[r]["accept"] = 0
      BY <1>0, <1>2 DEF AcceptOnce, Listens
    <2>2. outstanding[s]["accept"] = 1
      BY <1>0, <1>2 DEF AcceptOnce, Listens
    <2> QED
      BY <1>0, <2>1, <2>2 DEF Complete
  <1>4. \A i \in DOMAIN queue' : Arrived(i)' <=> i = last
    BY <1>1, <1>2 DEF AcceptOnce, Arrived, Completion
  <1>5. \A t \in Threads : ~Rearms(t)'
    BY <1>2 DEF AcceptOnce, Rearms, Complete
  <1>6. AcceptOnce'
    BY <1>3, <1>4, <1>5 DEF AcceptOnce, Listens
  <1>7. Accepts'
    BY <1>1, <1>4 DEF Accepts
  <1> QED
    BY <1>6, <1>7

LEMMA AcceptTaken ==
    ASSUME IInv, AcceptOnce, Accepts, NEW t \in Threads, Take(t)
    PROVE  AcceptOnce' /\ Accepts'
  <1>0. /\ queue \in Seq(CompletionType) /\ queue # <<>>
        /\ at \in [Threads -> Places]
    BY DEF IInv, TypeOK, CompletionType, Places, Take
  <1>1. /\ DOMAIN queue = 1..Len(queue) /\ Len(queue) \in Nat /\ Len(queue) >= 1
        /\ DOMAIN queue' = 1..(Len(queue) - 1)
        /\ \A i \in DOMAIN queue' : queue'[i] = queue[i + 1] /\ i + 1 \in DOMAIN queue
        /\ 1 \in DOMAIN queue
    BY <1>0 DEF Take
  <1>2. /\ at[t] = "run" /\ at'[t] = queue[1].kind
        /\ \A u \in Threads \ {t} : at'[u] = at[u]
        /\ outstanding' = outstanding
    BY <1>0 DEF Take
  <1>3. queue[1].kind \in Kinds \cup {"signal"}
    <2>1. queue[1] \in CompletionType
      BY <1>0, <1>1
    <2> QED
      BY <2>1 DEF CompletionType
  <1>4. Rearms(t)' <=> Arrived(1)
    BY <1>2, <1>3 DEF Rearms, Arrived, Kinds
  <1>5. ~Rearms(t) /\ \A u \in Threads \ {t} : Rearms(u)' <=> Rearms(u)
    BY <1>2 DEF Rearms
  <1>6. \A i \in DOMAIN queue' : Arrived(i)' <=> Arrived(i + 1)
    BY <1>1 DEF Arrived
  <1>7. \A s \in Sessions : /\ Listens(s)' <=> Listens(s)
                            /\ outstanding'[s]["accept"] = outstanding[s]["accept"]
    BY <1>2 DEF Listens
  <1>8. CASE Arrived(1)
    <2>1. /\ \A s \in Sessions : ~Listens(s)
          /\ \A i \in DOMAIN queue : Arrived(i) => i = 1
          /\ \A u \in Threads : ~Rearms(u)
      BY <1>1, <1>8 DEF AcceptOnce
    <2>2. \A i \in DOMAIN queue' : ~Arrived(i)'
      <3>1. \A i \in DOMAIN queue' : i \in Nat /\ i >= 1 /\ i + 1 # 1
        BY <1>1
      <3> QED
        BY <1>1, <1>6, <2>1, <3>1
    <2>3. AcceptOnce'
      BY <1>4, <1>5, <1>7, <2>1, <2>2 DEF AcceptOnce
    <2>4. Accepts'
      BY <1>4, <1>8 DEF Accepts
    <2> QED
      BY <2>3, <2>4
  <1>9. CASE ~Arrived(1)
    <2>1. \A u \in Threads : Rearms(u)' <=> Rearms(u)
      BY <1>4, <1>5, <1>9
    <2>2. \A i, j \in DOMAIN queue' : Arrived(i)' /\ Arrived(j)' => i = j
      <3>1. \A i, j \in DOMAIN queue' : i + 1 = j + 1 => i = j
        BY <1>1
      <3> QED
        BY <1>1, <1>6, <3>1 DEF AcceptOnce
    <2>3. AcceptOnce'
      BY <1>1, <1>6, <1>7, <2>1, <2>2 DEF AcceptOnce
    <2>4. ASSUME NEW i \in DOMAIN queue, Arrived(i)
          PROVE  \E j \in DOMAIN queue' : Arrived(j)'
      <3>1. i # 1 /\ i - 1 \in DOMAIN queue' /\ (i - 1) + 1 = i
        BY <1>1, <1>9, <2>4
      <3> QED
        BY <1>6, <2>4, <3>1
    <2>5. Accepts'
      BY <1>7, <2>1, <2>4 DEF Accepts
    <2> QED
      BY <2>3, <2>5
  <1> QED
    BY <1>8, <1>9

LEMMA AcceptBegins ==
    ASSUME IInv, AcceptOnce, NEW t \in Threads, StartAccept(t)
    PROVE  AcceptOnce' /\ Accepts'
  <1>0. /\ outstanding \in [Sessions -> [Kinds -> Nat]]
        /\ at \in [Threads -> Places]
        /\ "accept" \in Kinds
    BY DEF IInv, TypeOK, Places, Kinds
  <1>1. PICK s \in Sessions \ live : Begin("accept", s)
    BY DEF StartAccept
  <1>2. /\ at[t] = "rearm" /\ at'[t] = "run"
        /\ \A u \in Threads \ {t} : at'[u] = at[u]
        /\ queue' = queue
    BY <1>0 DEF StartAccept, Running, Leave
  <1>3. Rearms(t)
    BY <1>2 DEF Rearms
  <1>4. /\ \A r \in Sessions : outstanding[r]["accept"] = 0
        /\ \A i \in DOMAIN queue : ~Arrived(i)
        /\ \A u \in Threads \ {t} : ~Rearms(u)
    BY <1>0, <1>3 DEF AcceptOnce, Listens
  <1>5. \A r \in Sessions : outstanding'[r]["accept"] = IF r = s THEN 1 ELSE 0
    BY <1>0, <1>1, <1>4 DEF Begin
  <1>6. /\ \A i \in DOMAIN queue' : ~Arrived(i)'
        /\ \A u \in Threads : ~Rearms(u)'
    BY <1>2, <1>4 DEF Arrived, Rearms
  <1>7. AcceptOnce'
    BY <1>5, <1>6 DEF AcceptOnce, Listens
  <1>8. Accepts'
    BY <1>5 DEF Accepts, Listens
  <1> QED
    BY <1>7, <1>8

LEMMA AcceptPreserved ==
    IInv /\ AcceptOnce /\ Accepts /\ [Next]_vars => AcceptOnce' /\ Accepts'
  <1> SUFFICES ASSUME IInv, AcceptOnce, Accepts, [Next]_vars
               PROVE  AcceptOnce' /\ Accepts'
    OBVIOUS
  <1>0. /\ TypeOK
        /\ at \in [Threads -> Places]
        /\ outstanding \in [Sessions -> [Kinds -> Nat]]
    BY DEF IInv, TypeOK, Places
  <1>1. ASSUME NEW s \in Sessions, Connect(s) \/ AcceptFails(s)
        PROVE  AcceptOnce' /\ Accepts'
    BY <1>1, AcceptArrives DEF Connect, AcceptFails
  <1>2. ASSUME NEW s \in Sessions,
               DataArrives(s) \/ ReadFails(s) \/ WriteSucceeds(s) \/ WriteFails(s)
        PROVE  AcceptOnce' /\ Accepts'
    <2>1. PICK k \in {"read", "write"}, e \in BOOLEAN : Complete(k, s, e)
      BY <1>2 DEF DataArrives, ReadFails, WriteSucceeds, WriteFails
    <2>2. /\ Completion(k, s, e) \in CompletionType
          /\ Completion(k, s, e).kind # "accept"
      BY DEF Completion, CompletionType, Kinds
    <2>3. /\ queue' = Append(queue, Completion(k, s, e))
          /\ UNCHANGED at
          /\ \A r \in Sessions : outstanding'[r]["accept"] = outstanding[r]["accept"]
      BY <1>0, <2>1 DEF Complete, Kinds
    <2> QED
      BY <1>0, <2>2, <2>3, OtherKindArrives
  <1>3. CASE Interrupt
    <2>1. /\ Completion("signal", NoSession, FALSE) \in CompletionType
          /\ Completion("signal", NoSession, FALSE).kind # "accept"
      BY DEF Completion, CompletionType
    <2> QED
      BY <1>0, <1>3, <2>1, OtherKindArrives DEF Interrupt
  <1>4. ASSUME NEW t \in Threads, Take(t) PROVE AcceptOnce' /\ Accepts'
    BY <1>4, AcceptTaken
  <1>5. ASSUME NEW t \in Threads, StartAccept(t) PROVE AcceptOnce' /\ Accepts'
    BY <1>5, AcceptBegins
  <1>6. ASSUME NEW t \in Threads,
               Spawn(t) \/ RunReturns(t) \/ HandleSignal(t) \/ AcceptError(t)
                   \/ AcceptLog(t) \/ ReadError(t) \/ ReadRequest(t) \/ WriteError(t)
        PROVE  AcceptOnce' /\ Accepts'
    <2>1. UNCHANGED <<outstanding, queue>>
      BY <1>6 DEF Spawn, RunReturns, HandleSignal, AcceptError, AcceptLog, ReadError,
                  ReadRequest, WriteError, HandleError, Terminate, network
    <2>2. \A u \in Threads : Rearms(u)' <=> Rearms(u)
      BY <1>0, <1>6 DEF Spawn, RunReturns, HandleSignal, AcceptError, AcceptLog,
                        ReadError, ReadRequest, WriteError, Go, Leave, Terminate,
                        Running, Rearms
    <2> QED
      BY <2>1, <2>2, AcceptUntouched
  <1>7. ASSUME NEW t \in Threads,
               SessionStart(t) \/ ReadMore(t) \/ ReadInvalid(t)
                   \/ HandlerReturns(t) \/ WriteDone(t),
               ~Terminate
        PROVE  AcceptOnce' /\ Accepts'
    <2>1. /\ Begin("read", on[t]) \/ Begin("write", on[t])
          /\ queue' = queue
      BY <1>7
      DEF SessionStart, ReadMore, ReadInvalid, HandlerReturns, WriteDone,
          StartAsyncRead, SendResponse
    <2>2. \A s \in Sessions : outstanding'[s]["accept"] = outstanding[s]["accept"]
      BY <1>0, <2>1 DEF Begin, Kinds
    <2>3. \A u \in Threads : Rearms(u)' <=> Rearms(u)
      BY <1>0, <1>7 DEF SessionStart, ReadMore, ReadInvalid, HandlerReturns, WriteDone,
                        Go, Leave, Running, Rearms
    <2> QED
      BY <2>1, <2>2, <2>3, AcceptUntouched
  <1>8. CASE (\E s \in Sessions : PeerResets(s)) \/ Exit \/ Terminate \/ UNCHANGED vars
    <2>1. UNCHANGED <<outstanding, queue, at>>
      BY <1>8 DEF PeerResets, Exit, Terminate, vars, network
    <2> QED
      BY <2>1, AcceptUntouched DEF Rearms
  <1> QED
    BY <1>1, <1>2, <1>3, <1>4, <1>5, <1>6, <1>7, <1>8
    DEF Next, Environment, Work, Over, HandlerThrows

--------------------------------------------------------------------------------
(* Theorems                                                                   *)

\* A connection stays with its session: closing a session's socket never closes
\* another's, and no socket outlives its session (session.cc:33-51, 132-157).
THEOREM SocketsFollow == Spec => []SocketsFollowSessions
  <1>1. Init => SocketsFollowSessions
    <2> SUFFICES ASSUME Init, NEW s \in Sessions
                 PROVE  ~Accepted(s) /\ peer[s] = "none"
      BY SocketsByParts DEF SocketFollows
    <2>1. PICK first \in Sessions :
              /\ live = {first}
              /\ outstanding = [x \in Sessions |-> [k \in Kinds |->
                     IF x = first /\ k = "accept" THEN 1 ELSE 0]]
      BY DEF Init
    <2> QED
      BY <2>1 DEF Init, Accepted, Kinds
  <1> QED
    BY <1>1, SocketsPreserved, Invariance, PTL DEF Spec

\* Whatever accepts, resets, errors and threads do, exactly one accept is under
\* way or being handled: the server never stops accepting (server.cc:19-41).
THEOREM AlwaysOneAcceptor == Spec => []OneAcceptor
  <1>1. Spec => [](AcceptOnce /\ Accepts)
    BY AcceptInit, AcceptPreserved, Invariance, PTL DEF Spec
  <1>2. IInv /\ AcceptOnce /\ Accepts => OneAcceptor
    BY AcceptorsByParts DEF IInv
  <1> QED
    BY <1>1, <1>2, Invariance, PTL
================================================================================
