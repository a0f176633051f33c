---------------------- MODULE EntityStorePersistent_proofs ----------------------
(******************************************************************************)
(* What the runs show of EntityStorePersistent for two threads and bodies of  *)
(* two blocks holds for any number of threads, entities and ids, for bodies   *)
(* of any length, and whatever fails or dies.                                 *)
(* And while no two calls overlap, the store keeps the contract of            *)
(* entity_store.h.                                                            *)
(******************************************************************************)
EXTENDS EntityStorePersistent, FiniteSetTheorems, WellFoundedInduction, TLAPS

--------------------------------------------------------------------------------
(* The invariant                                                              *)

Stages == {"idle", "called", "ensured", "found", "scanning", "scanned", "writing",
           "reading", "replied"}

\* The directories, and the inodes they name: each one made for the path it is
\* at.
DiskInPlace ==
    /\ dirs \subseteq ValidNames
    /\ DOMAIN files = Entities
    /\ \A e \in Entities :
           /\ DOMAIN files[e] \in SUBSET Nat
           /\ IsFiniteSet(DOMAIN files[e])
           /\ DOMAIN files[e] # {} => e \in dirs
           /\ \A id \in DOMAIN files[e] :
                 \E n \in Nat : files[e][id] = <<EntityFilePath(e, id), n>>

Typed ==
    /\ pc \in [Threads -> Stages]
    /\ request \in [Threads -> Abstract!Requests \cup {Abstract!NoRequest}]
    /\ ids \in [Threads -> SUBSET Nat]
    /\ coming \in [Threads -> SUBSET Nat]
    /\ file_id \in [Threads -> Int]
    /\ DOMAIN reply = Threads /\ DOMAIN file = Threads /\ DOMAIN data = Threads
    /\ DOMAIN existed = Threads /\ DOMAIN seen = Threads

\* A thread's request fits the place it is at.
RequestFits(t) ==
    /\ pc[t] = "idle" <=> request[t] = Abstract!NoRequest
    /\ pc[t] # "idle" /\ request[t].op \in {"create", "update"} =>
           request[t].data \in BodiesOf[Me(t)]
    /\ pc[t] \in {"ensured", "scanned", "writing"} =>
           request[t].op \in {"create", "update"} /\ Me(t) \in dirs /\ Valid(t)
    /\ pc[t] = "found" => request[t].op = "list" /\ Valid(t) /\ Me(t) \in dirs
    /\ pc[t] = "scanning" =>
           request[t].op \in {"create", "list"} /\ Me(t) \in dirs /\ Valid(t)
    /\ pc[t] = "scanned" => request[t].op = "create"
    /\ pc[t] = "reading" => request[t].op = "read" /\ Valid(t)

\* So do its locals.  A stream is on a file of the entity, named or not.
LocalsFit(t) ==
    /\ pc[t] = "replied" <=> reply[t] # Abstract!NoReply
    /\ IsFiniteSet(ids[t]) /\ IsFiniteSet(coming[t])
    /\ pc[t] = "writing" => file_id[t] \in Nat
    /\ pc[t] \in {"reading", "writing"} =>
           \E id, n \in Nat : file[t] = <<EntityFilePath(Me(t), id), n>>
    /\ pc[t] \notin {"reading", "writing"} => file[t] = NoInode

ThreadsInPlace == Typed /\ \A t \in Threads : RequestFits(t) /\ LocalsFit(t)

Counters == faults \in 0..MaxFaults /\ crashes \in 0..MaxCrashes

\* Nothing is kept but what is named or open.
OnlyLive == DOMAIN blocks = LiveInodes

Types == DiskInPlace /\ ThreadsInPlace /\ Counters /\ OnlyLive

--------------------------------------------------------------------------------
(* Facts about numbers and sets                                               *)

\* Create finds the lowest unused id since every set of numbers has a least one.
LEMMA LeastNumber ==
    ASSUME NEW S \in SUBSET Nat, S # {}
    PROVE \E m \in S : \A n \in S : m <= n
  <1> DEFINE Below == OpToRel(<, Nat)
  <1>1. IsWellFoundedOn(Below, Nat)
    BY NatLessThanWellFounded
  <1>2. \A m, n \in Nat : <<n, m>> \in Below <=> n < m
    BY DEF OpToRel
  <1> HIDE DEF Below
  <1>3. \E m \in S : \A n \in S : <<n, m>> \notin Below
    BY <1>1, WFMin
  <1>4. \E m \in S : \A n \in S : ~(n < m)
    BY <1>2, <1>3, Zenon
  <1> QED
    BY <1>4

\* There are more numbers up to the size of a set than the set has elements.
LEMMA OneIsLeftOver ==
    ASSUME NEW used, IsFiniteSet(used)
    PROVE  Cardinality(used) \in Nat /\ \E n \in 0 .. Cardinality(used) : n \notin used
  <1>1. PICK size \in Nat : size = Cardinality(used)
    BY FS_CardinalityType
  <1>2. IsFiniteSet(0 .. size) /\ Cardinality(0 .. size) = size + 1
    BY FS_Interval
  <1>3. ~(0 .. size \subseteq used)
    <2> SUFFICES ASSUME 0 .. size \in SUBSET used PROVE FALSE
      OBVIOUS
    <2>1. Cardinality(0 .. size) <= Cardinality(used)
      BY FS_Subset
    <2> QED
      BY <1>1, <1>2, <2>1
  <1> QED
    BY <1>1, <1>3

\* Create's next id is a new one.
LEMMA LowestUnusedIsUnused ==
    ASSUME NEW used \in SUBSET Nat, IsFiniteSet(used)
    PROVE  LowestUnused(used) \in Nat \ used
  <1>1. PICK size \in Nat : size = Cardinality(used)
    BY OneIsLeftOver
  <1>2. {n \in 0 .. size : n \notin used} # {}
    BY <1>1, OneIsLeftOver
  <1>3. PICK least \in {n \in 0 .. size : n \notin used} :
            \A n \in {k \in 0 .. size : k \notin used} : least <= n
    <2> DEFINE free == {n \in 0 .. size : n \notin used}
    <2>1. free \in SUBSET Nat /\ free # {}
      BY <1>2
    <2> HIDE DEF free
    <2>2. \E least \in free : \A n \in free : least <= n
      BY <2>1, LeastNumber
    <2> QED
      BY <2>2 DEF free
  <1>4. \A lower \in 0 .. least - 1 : lower \in used
    BY <1>3
  <1>5. \E id \in 0..size :
          id \notin used /\ \A lower \in 0..(id - 1) : lower \in used
    BY <1>3, <1>4
  <1> QED
    BY <1>1, <1>5 DEF LowestUnused

\* As many values of a function as its domain has elements, and one more number.
LEMMA OneNumberIsFree ==
    ASSUME NEW T, IsFiniteSet(T), NEW f, DOMAIN f = T
    PROVE  \E n \in 1 .. Cardinality(T) + 1 : \A t \in T : f[t] # n
  <1>1. PICK size \in Nat : size = Cardinality(T)
    BY FS_CardinalityType
  <1>2. PICK g \in [T -> {f[t] : t \in T}] : \A t \in T : g[t] = f[t]
    <2>1. [t \in T |-> f[t]] \in [T -> {f[t] : t \in T}]
      OBVIOUS
    <2> QED
      BY <2>1
  <1>3. g \in Surjection(T, {f[t] : t \in T})
    BY <1>2 DEF Surjection
  <1>4. IsFiniteSet({f[t] : t \in T}) /\ Cardinality({f[t] : t \in T}) <= size
    BY <1>1, <1>3, FS_Surjection
  <1>5. IsFiniteSet(1 .. size + 1) /\ Cardinality(1 .. size + 1) = size + 1
    <2>1. 1 \in Int /\ size + 1 \in Int /\ ~(1 > size + 1) /\ (size + 1) - 1 + 1 = size + 1
      OBVIOUS
    <2> QED
      BY <2>1, FS_Interval
  <1>6. ~(1 .. size + 1 \subseteq {f[t] : t \in T})
    <2> SUFFICES ASSUME 1 .. size + 1 \in SUBSET {f[t] : t \in T} PROVE FALSE
      OBVIOUS
    <2>1. Cardinality(1 .. size + 1) <= Cardinality({f[t] : t \in T})
      BY <1>4, FS_Subset
    <2>2. Cardinality({f[t] : t \in T}) \in Nat
      BY <1>4, FS_CardinalityType
    <2> QED
      BY <1>4, <1>5, <2>1, <2>2
  <1> QED
    BY <1>1, <1>6

--------------------------------------------------------------------------------
(* Facts about requests, answers and streams                                  *)

\* The fields a request of each kind has.
LEMMA RequestFields ==
    ASSUME NEW req \in Abstract!Requests
    PROVE  /\ req.entity_name \in Entities
           /\ req.op \in {"create", "read", "update", "delete", "list"}
           /\ req.op \in {"read", "update", "delete"} => req.id \in Int
           /\ req # Abstract!NoRequest
  <1>1. /\ req.entity_name \in Entities
        /\ req.op \in {"create", "read", "update", "delete", "list"}
    BY DEF Abstract!Requests
  <1>2. req.op \in {"read", "update", "delete"} => req.id \in Int
    BY IdsAssumption DEF Abstract!Requests
  <1>3. Abstract!NoRequest.op = "none"
    BY DEF Abstract!NoRequest
  <1> QED
    BY <1>1, <1>2, <1>3

\* No answer is taken for none.
LEMMA AnswersAreNotNone ==
    /\ \A id : [id |-> id] # Abstract!NoReply
    /\ \A ok : [ok |-> ok] # Abstract!NoReply
    /\ \A found : [ids |-> found] # Abstract!NoReply
    /\ \A text : [ok |-> TRUE, out_data |-> text] # Abstract!NoReply
  BY DEF Abstract!NoReply

LEMMA FailureIsNotNone == \A op : Failure(op) # Abstract!NoReply
  <1>1. SUFFICES ASSUME NEW op PROVE Failure(op) # Abstract!NoReply
    OBVIOUS
  <1>2. CASE op = "create"
    <2>1. Failure(op) = [id |-> -1]
      BY <1>2, Zenon DEF Failure
    <2> QED
      BY <2>1, AnswersAreNotNone
  <1>3. CASE op = "list"
    <2>1. op # "create"
      BY <1>3
    <2>2. Failure(op) = [ids |-> {}]
      BY <1>3, <2>1, Zenon DEF Failure
    <2> QED
      BY <2>2, AnswersAreNotNone
  <1>4. CASE op # "create" /\ op # "list"
    <2>1. Failure(op) = [ok |-> FALSE]
      BY <1>4, Zenon DEF Failure
    <2> QED
      BY <2>1, AnswersAreNotNone
  <1> QED
    BY <1>2, <1>3, <1>4

\* No file is taken for a closed stream.
LEMMA InodesAreNotNone == \A path, n : <<path, n>> # NoInode
  BY DEF NoInode

\* What keeps an inode alive.
LEMMA LiveMeans ==
    ASSUME NEW named, NEW open, NEW i
    PROVE  i \in Live(named, open) <=>
               \/ \E e \in Entities : \E id \in DOMAIN named[e] : i = named[e][id]
               \/ \E t \in DOMAIN open : i = open[t] /\ i # NoInode
  BY DEF Live, Range

--------------------------------------------------------------------------------
(* A step moves one thread                                                    *)

\* What thread u has is as it was, the directory it reads aside.
Still(u) ==
    /\ pc'[u] = pc[u]
    /\ request'[u] = request[u]
    /\ reply'[u] = reply[u]
    /\ ids'[u] = ids[u]
    /\ file_id'[u] = file_id[u]
    /\ file'[u] = file[u]
    /\ data'[u] = data[u]

Step(t) == (\E req \in Abstract!Requests : Call(t, req)) \/ Work(t)

\* Reading a directory, entry by entry, is a thread's own affair.
ReadsDirectory(t) ==
    \/ OpenDirectory(t) \/ ScanEntry(t)
    \/ CreateScanned(t)
    \/ ListExists(t) \/ ListEnd(t)

LEMMA DirectoryIsOnlyRead ==
    ASSUME Typed, NEW t \in Threads, ReadsDirectory(t)
    PROVE  /\ UNCHANGED <<disk, request, file_id, file, data, faults, crashes, ghosts>>
           /\ pc[t] \in {"called", "ensured", "found", "scanning"}
           /\ pc'[t] \in {"found", "scanning", "scanned", "replied"}
           /\ \A u \in Threads \ {t} : Still(u) /\ coming'[u] = coming[u]
  <1> USE DEF Typed, Still, Finish, locals, At
  <1>1. CASE OpenDirectory(t)
    BY <1>1 DEF OpenDirectory
  <1>2. CASE ScanEntry(t)
    BY <1>2 DEF ScanEntry
  <1>3. CASE CreateScanned(t)
    BY <1>3 DEF CreateScanned
  <1>4. CASE ListExists(t)
    BY <1>4 DEF ListExists
  <1>5. CASE ListEnd(t)
    BY <1>5 DEF ListEnd
  <1> QED
    BY <1>1, <1>2, <1>3, <1>4, <1>5, Zenon DEF ReadsDirectory

LEMMA OnlyOneMoves ==
    ASSUME Typed, NEW t \in Threads, Step(t), NEW u \in Threads \ {t}
    PROVE  Still(u)
  <1> USE DEF Typed, Still, Finish, locals
  <1>1. CASE \E req \in Abstract!Requests : Call(t, req)
    BY <1>1 DEF Call
  <1>2. CASE Reject(t) \/ Fail(t) \/ EnsureEntityDirectory(t)
    BY <1>2 DEF Reject, Fail, EnsureEntityDirectory
  <1>3. ASSUME NEW id, OpenForWriting(t, id) PROVE Still(u)
    BY <1>3 DEF OpenForWriting
  <1>4. CASE Write(t)
    BY <1>4 DEF Write, WriteAndClose
  <1>5. CASE WriteFails(t)
    BY <1>5 DEF WriteFails, WriteAndClose
  <1>6. CASE ReadOpen(t)
    BY <1>6 DEF ReadOpen
  <1>7. CASE ReadBlock(t) \/ ReadEnd(t) \/ Delete(t)
    BY <1>7 DEF ReadBlock, ReadEnd, Delete
  <1>8. CASE Return(t)
    BY <1>8 DEF Return
  <1>9. CASE CreateOpen(t) \/ UpdateOpen(t)
    BY <1>3, <1>9, Zenon DEF CreateOpen, UpdateOpen
  <1>10. CASE ReadsDirectory(t)
    BY <1>10, DirectoryIsOnlyRead
  <1> QED
    BY <1>1, <1>2, <1>4, <1>5, <1>6, <1>7, <1>8, <1>9, <1>10, Zenon
    DEF Step, Work, ReadsDirectory

\* A new entry or one that is gone changes what threads that read the directory
\* have yet to come to.
LEMMA EntriesCome ==
    ASSUME coming \in [Threads -> SUBSET Nat], NEW e, NEW id \in Nat, EntryMade(e, id)
    PROVE  /\ coming' \in [Threads -> SUBSET Nat]
           /\ \A u \in Threads :
                 \/ coming'[u] = coming[u]
                 \/ /\ u \in Scanning(e) /\ id \notin DOMAIN files[e]
                    /\ coming'[u] = coming[u] \cup {id}
  <1>1. PICK some \in SUBSET {u \in Scanning(e) : id \notin ids[u] \cup DOMAIN files[e]} :
            coming' = [u \in Threads |->
                          coming[u] \cup (IF u \in some THEN {id} ELSE {})]
    BY DEF EntryMade
  <1>2. ASSUME NEW u \in Threads
        PROVE  coming'[u] = coming[u] \cup (IF u \in some THEN {id} ELSE {})
    BY <1>1
  <1> QED
    BY <1>1, <1>2

LEMMA EntriesGo ==
    ASSUME coming \in [Threads -> SUBSET Nat], NEW e, NEW id, EntryGone(e, id)
    PROVE  /\ coming' \in [Threads -> SUBSET Nat]
           /\ \A u \in Threads :
                 \/ coming'[u] = coming[u]
                 \/ u \in Scanning(e) /\ coming'[u] = (coming[u] \ {id})
  <1>1. PICK some \in SUBSET Scanning(e) :
            coming' = [u \in Threads |->
                          coming[u] \ (IF u \in some THEN {id} ELSE {})]
    BY DEF EntryGone
  <1>2. ASSUME NEW u \in Threads
        PROVE  coming'[u] = coming[u] \ (IF u \in some THEN {id} ELSE {})
    BY <1>1
  <1> QED
    BY <1>1, <1>2

--------------------------------------------------------------------------------
(* The disk stays in place                                                    *)

\* A new file can be told apart from all others of its path: there are more
\* numbers than threads that may have one open.
LEMMA FreeInodeIsOfItsPath ==
    ASSUME DiskInPlace, Typed, NEW e \in Entities, NEW id \in Nat,
           id \notin DOMAIN files[e]
    PROVE  \E n \in Nat : FreeInode(EntityFilePath(e, id)) = <<EntityFilePath(e, id), n>>
  <1> DEFINE path == EntityFilePath(e, id)
             taken == [t \in Threads |-> file[t][2]]
  <1>1. PICK most \in Nat : most = Cardinality(Threads)
    BY ThreadsAssumption, FS_CardinalityType
  <1>2. PICK n \in 1 .. most + 1 : \A t \in Threads : taken[t] # n
    <2>1. DOMAIN taken = Threads
      OBVIOUS
    <2> HIDE DEF taken
    <2> QED
      BY <1>1, <2>1, ThreadsAssumption, OneNumberIsFree
  <1>3. \A t \in Threads : file[t] # <<path, n>>
    BY <1>2
  <1>4. \A x \in Entities : \A i \in DOMAIN files[x] : files[x][i] # <<path, n>>
    BY DEF DiskInPlace, EntityFilePath
  <1>5. <<path, n>> \notin LiveInodes
    BY <1>3, <1>4, LiveMeans DEF LiveInodes, Typed
  <1>6. \E i \in {path} \X (1 .. most + 1) : i \notin LiveInodes
    BY <1>2, <1>5
  <1>7. FreeInode(path) \in {path} \X (1 .. most + 1)
    BY <1>1, <1>6 DEF FreeInode
  <1> QED
    BY <1>7

\* What opening a file for writing does to the disk, new or not.
Opens(t, id, inode) ==
    /\ files' = [files EXCEPT ![Me(t)] = Abstract!Put(@, id, inode)]
    /\ file' = [file EXCEPT ![t] = inode]
    /\ id \in DOMAIN files[Me(t)] => files[Me(t)][id] = inode
    /\ blocks' = [i \in Live(files', file') |-> Abstract!Put(blocks, inode, <<>>)[i]]
    /\ alone' = LET others == {u \in Threads : pc[u] = "writing" /\ file[u] = inode}
                IN  (alone \cup (IF others = {} THEN {t} ELSE {})) \ others

LEMMA Opening ==
    ASSUME DiskInPlace, Typed, NEW t \in Threads, Me(t) \in Entities, NEW id \in Nat,
           OpenForWriting(t, id)
    PROVE  \E n \in Nat : Opens(t, id, <<EntityFilePath(Me(t), id), n>>)
  <1>1. EntityFilePath(Me(t), id)[1] = Me(t)
    BY DEF EntityFilePath
  <1>2. CASE id \in DOMAIN files[Me(t)]
    <2>1. PICK n \in Nat : files[Me(t)][id] = <<EntityFilePath(Me(t), id), n>>
      BY <1>2 DEF DiskInPlace
    <2> QED
      BY <1>1, <1>2, <2>1, ZenonT(60) DEF OpenForWriting, KeepLive, Truncated, Opens
  <1>3. CASE id \notin DOMAIN files[Me(t)]
    <2>1. PICK n \in Nat :
              FreeInode(EntityFilePath(Me(t), id)) = <<EntityFilePath(Me(t), id), n>>
      BY <1>3, FreeInodeIsOfItsPath
    <2> QED
      BY <1>1, <1>3, <2>1 DEF OpenForWriting, KeepLive, Opens
  <1> QED
    BY <1>2, <1>3

LEMMA CallersAreKnown ==
    ASSUME ThreadsInPlace, NEW t \in Threads, pc[t] # "idle"
    PROVE  /\ request[t] \in Abstract!Requests
           /\ Me(t) \in Entities
           /\ request[t].op \in {"create", "read", "update", "delete", "list"}
           /\ request[t].op \in {"read", "update", "delete"} => request[t].id \in Int
  <1>1. request[t] \in Abstract!Requests
    BY DEF ThreadsInPlace, Typed, RequestFits
  <1> QED
    BY <1>1, RequestFields DEF Me

\* Create and Update open a file with a proper id.
LEMMA WritersOpen ==
    ASSUME ThreadsInPlace, NEW t \in Threads, CreateOpen(t) \/ UpdateOpen(t)
    PROVE  \E id \in Nat : /\ OpenForWriting(t, id)
                           /\ CreateOpen(t) => id \notin ids[t]
                           /\ pc[t] \in {"ensured", "scanned"}
  <1>1. CASE CreateOpen(t)
    <2>1. ids[t] \in SUBSET Nat /\ IsFiniteSet(ids[t])
      BY DEF ThreadsInPlace, Typed, LocalsFit
    <2>2. LowestUnused(ids[t]) \in Nat \ ids[t]
      BY <2>1, LowestUnusedIsUnused
    <2> QED
      BY <1>1, <2>2 DEF CreateOpen, At
  <1>2. CASE UpdateOpen(t)
    <2>1. pc[t] = "ensured" /\ request[t].op = "update" /\ OpenForWriting(t, request[t].id)
      BY <1>2 DEF UpdateOpen, At
    <2>2. request[t].id \in Nat
      BY <2>1, CallersAreKnown DEF ThreadsInPlace, RequestFits, Valid
    <2>3. ~CreateOpen(t)
      BY <2>1 DEF CreateOpen, At
    <2> QED
      BY <2>1, <2>2, <2>3
  <1> QED
    BY <1>1, <1>2

LEMMA DiskStays ==
    ASSUME DiskInPlace, ThreadsInPlace, NEW t \in Threads, Step(t)
    PROVE  DiskInPlace' /\ dirs \subseteq dirs'
  <1>1. CASE UNCHANGED <<dirs, files>>
    BY <1>1 DEF DiskInPlace
  <1>2. CASE EnsureEntityDirectory(t)
    <2>1. dirs' = dirs \cup {Me(t)} /\ Me(t) \in ValidNames /\ files' = files
      BY <1>2 DEF EnsureEntityDirectory, Valid
    <2> QED
      BY <2>1 DEF DiskInPlace
  <1>3. CASE CreateOpen(t) \/ UpdateOpen(t)
    <2>1. PICK id \in Nat : OpenForWriting(t, id) /\ pc[t] \in {"ensured", "scanned"}
      BY <1>3, WritersOpen
    <2>2. Me(t) \in Entities /\ Me(t) \in dirs
      BY <2>1, CallersAreKnown DEF ThreadsInPlace, RequestFits
    <2>3. PICK n \in Nat : Opens(t, id, <<EntityFilePath(Me(t), id), n>>)
      BY <2>1, <2>2, Opening DEF ThreadsInPlace
    <2>4. dirs' = dirs
      BY <2>1 DEF OpenForWriting
    <2>5. DOMAIN files' = Entities
      BY <2>3 DEF DiskInPlace, Opens
    <2>6. ASSUME NEW e \in Entities
          PROVE  /\ DOMAIN files'[e] \in SUBSET Nat
                 /\ IsFiniteSet(DOMAIN files'[e])
                 /\ DOMAIN files'[e] # {} => e \in dirs
                 /\ \A x \in DOMAIN files'[e] :
                       \E k \in Nat : files'[e][x] = <<EntityFilePath(e, x), k>>
      <3>1. CASE e # Me(t)
        BY <2>3, <3>1 DEF DiskInPlace, Opens
      <3>2. CASE e = Me(t)
        <4>1. files'[e] = Abstract!Put(files[e], id, <<EntityFilePath(e, id), n>>)
          BY <2>2, <2>3, <3>2 DEF DiskInPlace, Opens
        <4>2. DOMAIN files'[e] = DOMAIN files[e] \cup {id}
          BY <4>1 DEF Abstract!Put
        <4>3. IsFiniteSet(DOMAIN files[e] \cup {id})
          BY FS_AddElement DEF DiskInPlace
        <4>4. \A x \in DOMAIN files'[e] :
                  files'[e][x] = IF x = id THEN <<EntityFilePath(e, id), n>> ELSE files[e][x]
          BY <4>1 DEF Abstract!Put
        <4>5. \A x \in DOMAIN files'[e] :
                  \E k \in Nat : files'[e][x] = <<EntityFilePath(e, x), k>>
          BY <4>2, <4>4 DEF DiskInPlace
        <4> QED
          BY <2>2, <3>2, <4>2, <4>3, <4>5 DEF DiskInPlace
      <3> QED
        BY <3>1, <3>2
    <2> QED
      BY <2>4, <2>5, <2>6 DEF DiskInPlace
  <1>4. CASE Delete(t)
    <2>1. /\ files' = [files EXCEPT ![Me(t)] = Abstract!Drop(@, request[t].id)]
          /\ dirs' = dirs
      BY <1>4 DEF Delete
    <2>2. Me(t) \in Entities
      BY <1>4, CallersAreKnown DEF Delete, At
    <2>3. ASSUME NEW e \in Entities
          PROVE  /\ DOMAIN files'[e] \in SUBSET DOMAIN files[e]
                 /\ \A x \in DOMAIN files'[e] : files'[e][x] = files[e][x]
      <3>1. CASE e # Me(t)
        BY <2>1, <3>1 DEF DiskInPlace
      <3>2. CASE e = Me(t)
        <4>1. files'[e] = [x \in DOMAIN files[e] \ {request[t].id} |-> files[e][x]]
          BY <2>1, <2>2, <3>2 DEF DiskInPlace, Abstract!Drop, Abstract!Restrict
        <4> QED
          BY <4>1
      <3> QED
        BY <3>1, <3>2
    <2>4. \A e \in Entities : IsFiniteSet(DOMAIN files'[e])
      BY <2>3, FS_Subset DEF DiskInPlace
    <2>5. DOMAIN files' = Entities
      BY <2>1 DEF DiskInPlace
    <2> QED
      BY <2>1, <2>3, <2>4, <2>5 DEF DiskInPlace
  <1>5. CASE Write(t) \/ WriteFails(t)
    <2>1. UNCHANGED <<dirs, files>>
      BY <1>5 DEF Write, WriteFails, WriteAndClose
    <2> QED
      BY <1>1, <2>1
  <1>6. CASE \/ \E req \in Abstract!Requests : Call(t, req)
             \/ Reject(t) \/ Fail(t)
             \/ ReadOpen(t) \/ ReadBlock(t) \/ ReadEnd(t) \/ Return(t)
    <2>1. UNCHANGED <<dirs, files>>
      BY <1>6 DEF Call, Reject, Fail, ReadOpen, ReadBlock, ReadEnd, Return, disk
    <2> QED
      BY <1>1, <2>1
  <1>7. CASE ReadsDirectory(t)
    <2>1. UNCHANGED <<dirs, files>>
      BY <1>7, DirectoryIsOnlyRead DEF disk, ThreadsInPlace
    <2> QED
      BY <1>1, <2>1
  <1> QED
    BY <1>2, <1>3, <1>4, <1>5, <1>6, <1>7, Zenon DEF Step, Work, ReadsDirectory

--------------------------------------------------------------------------------
(* The threads stay in place                                                  *)

LEMMA TypedStays ==
    ASSUME DiskInPlace, ThreadsInPlace, NEW t \in Threads, Step(t)
    PROVE  Typed'
  <1> USE DEF Typed, Stages, Finish, locals, ghosts
  <1>0. Typed
    BY DEF ThreadsInPlace
  <1>1. ASSUME NEW req \in Abstract!Requests, Call(t, req) PROVE Typed'
    BY <1>0, <1>1 DEF Call
  <1>2. CASE Reject(t) \/ Fail(t)
    BY <1>0, <1>2 DEF Reject, Fail
  <1>3. CASE EnsureEntityDirectory(t)
    BY <1>0, <1>3 DEF EnsureEntityDirectory
  <1>4. CASE ReadsDirectory(t)
    <2>1. CASE OpenDirectory(t)
      <3>1. Me(t) \in Entities
        BY <2>1, CallersAreKnown DEF OpenDirectory, At
      <3>2. DOMAIN files[Me(t)] \in SUBSET Nat
        BY <3>1 DEF DiskInPlace
      <3> QED
        BY <1>0, <2>1, <3>2 DEF OpenDirectory
    <2>2. CASE ScanEntry(t)
      BY <1>0, <2>2 DEF ScanEntry
    <2>3. CASE CreateScanned(t) \/ ListExists(t) \/ ListEnd(t)
      BY <1>0, <2>3 DEF CreateScanned, ListExists, ListEnd
    <2> QED
      BY <1>4, <2>1, <2>2, <2>3, Zenon DEF ReadsDirectory
  <1>5. CASE CreateOpen(t) \/ UpdateOpen(t)
    <2>1. PICK id \in Nat : OpenForWriting(t, id)
      BY <1>5, WritersOpen
    <2>2. EntryMade(EntityFilePath(Me(t), id)[1], id)
      BY <2>1 DEF OpenForWriting
    <2>3. coming' \in [Threads -> SUBSET Nat]
      BY <1>0, <2>2, EntriesCome
    <2>4. /\ pc' = [pc EXCEPT ![t] = "writing"] /\ ids' = [ids EXCEPT ![t] = {}]
          /\ file_id' = [file_id EXCEPT ![t] = id]
          /\ DOMAIN file' = DOMAIN file /\ DOMAIN seen' = Threads
          /\ UNCHANGED <<request, reply, data, existed>>
      BY <2>1 DEF OpenForWriting
    <2> QED
      BY <1>0, <2>3, <2>4
  <1>6. CASE Write(t)
    BY <1>0, <1>6 DEF Write, WriteAndClose
  <1>7. CASE WriteFails(t)
    BY <1>0, <1>7 DEF WriteFails, WriteAndClose
  <1>8. CASE ReadOpen(t)
    BY <1>0, <1>8 DEF ReadOpen
  <1>9. CASE ReadBlock(t) \/ ReadEnd(t)
    BY <1>0, <1>9 DEF ReadBlock, ReadEnd
  <1>10. CASE Delete(t)
    <2>1. EntryGone(Me(t), request[t].id)
      BY <1>10 DEF Delete
    <2>2. coming' \in [Threads -> SUBSET Nat]
      BY <1>0, <2>1, EntriesGo
    <2> QED
      BY <1>0, <1>10, <2>2 DEF Delete
  <1>11. CASE Return(t)
    BY <1>0, <1>11 DEF Return
  <1> QED
    BY <1>1, <1>2, <1>3, <1>4, <1>5, <1>6, <1>7, <1>8, <1>9, <1>10, <1>11, Zenon
    DEF Step, Work, ReadsDirectory

\* Who does not move stays in place, since directories are never removed.
LEMMA OthersStay ==
    ASSUME NEW u \in Threads, RequestFits(u), LocalsFit(u), Still(u), dirs \subseteq dirs',
           IsFiniteSet(coming'[u])
    PROVE  RequestFits(u)' /\ LocalsFit(u)'
  <1>1. RequestFits(u)'
    BY DEF RequestFits, Still, Me, Valid
  <1>2. LocalsFit(u)'
    BY DEF LocalsFit, Still, Me
  <1> QED
    BY <1>1, <1>2

LEMMA MoverKeepsRequest ==
    ASSUME DiskInPlace, ThreadsInPlace, NEW t \in Threads, Step(t)
    PROVE  RequestFits(t)'
  <1>0. /\ Typed /\ RequestFits(t)
        /\ pc[t] # "idle" => request[t] # Abstract!NoRequest
    BY DEF ThreadsInPlace, RequestFits
  <1>1. ASSUME NEW req \in Abstract!Requests, Call(t, req) PROVE RequestFits(t)'
    <2>1. pc'[t] = "called" /\ request'[t] = req
      BY <1>0, <1>1 DEF Call, Typed
    <2>2. req # Abstract!NoRequest
      BY RequestFields
    <2>3. req.op \in {"create", "update"} => req.data \in BodiesOf[req.entity_name]
      BY <1>1 DEF Call, MayCall
    <2> QED
      BY <2>1, <2>2, <2>3 DEF RequestFits, Me
  <1>2. ASSUME pc'[t] = "replied", request' = request, pc[t] # "idle"
        PROVE  RequestFits(t)'
    BY <1>0, <1>2 DEF RequestFits, Me
  <1>3. CASE Reject(t) \/ Fail(t) \/ Delete(t) \/ ListEnd(t) \/ ReadEnd(t)
    <2>1. pc'[t] = "replied" /\ request' = request /\ pc[t] # "idle"
      BY <1>0, <1>3 DEF Reject, Fail, Delete, ListEnd, ReadEnd, Finish, At, Typed
    <2> QED
      BY <1>2, <2>1
  <1>4. CASE Write(t) \/ WriteFails(t)
    <2>1. pc'[t] = "replied" /\ request' = request /\ pc[t] # "idle"
      BY <1>0, <1>4 DEF Write, WriteFails, Finish, Typed
    <2> QED
      BY <1>2, <2>1
  <1>5. CASE EnsureEntityDirectory(t)
    <2>1. /\ pc'[t] = "ensured" /\ request' = request /\ dirs' = dirs \cup {Me(t)}
          /\ pc[t] = "called" /\ request[t].op \in {"create", "update"} /\ Valid(t)
      BY <1>0, <1>5 DEF EnsureEntityDirectory, Typed
    <2> QED
      BY <1>0, <2>1 DEF RequestFits, Me, Valid
  <1>6. CASE OpenDirectory(t) \/ ScanEntry(t) \/ CreateScanned(t) \/ ListExists(t)
    <2>1. CASE OpenDirectory(t)
      <3>1. /\ pc'[t] = "scanning" /\ request' = request /\ dirs' = dirs
            /\ \/ pc[t] = "ensured" /\ request[t].op = "create"
               \/ pc[t] = "found" /\ request[t].op = "list"
        BY <1>0, <2>1 DEF OpenDirectory, At, Typed, disk
      <3> QED
        BY <1>0, <3>1 DEF RequestFits, Me, Valid
    <2>2. CASE ScanEntry(t)
      <3>1. pc' = pc /\ request' = request /\ dirs' = dirs
        BY <2>2 DEF ScanEntry, disk
      <3> QED
        BY <1>0, <3>1 DEF RequestFits, Me, Valid
    <2>3. CASE CreateScanned(t)
      <3>1. /\ pc'[t] = "scanned" /\ request' = request /\ dirs' = dirs
            /\ pc[t] = "scanning" /\ request[t].op = "create"
        BY <1>0, <2>3 DEF CreateScanned, At, Typed, disk
      <3> QED
        BY <1>0, <3>1 DEF RequestFits, Me, Valid
    <2>4. CASE ListExists(t)
      <3>1. /\ request' = request /\ dirs' = dirs
            /\ pc[t] = "called" /\ request[t].op = "list" /\ Valid(t)
            /\ pc'[t] = "replied" \/ (pc'[t] = "found" /\ Me(t) \in dirs)
        BY <1>0, <2>4 DEF ListExists, At, Finish, Typed, disk
      <3> QED
        BY <1>0, <3>1 DEF RequestFits, Me, Valid
    <2> QED
      BY <1>6, <2>1, <2>2, <2>3, <2>4, Zenon
  <1>7. CASE CreateOpen(t) \/ UpdateOpen(t)
    <2>1. PICK id \in Nat : OpenForWriting(t, id) /\ pc[t] \in {"ensured", "scanned"}
      BY <1>7, WritersOpen
    <2>2. pc'[t] = "writing" /\ request' = request /\ dirs' = dirs
      BY <1>0, <2>1 DEF OpenForWriting, Typed
    <2> QED
      BY <1>0, <2>1, <2>2 DEF RequestFits, Me, Valid
  <1>8. CASE ReadOpen(t)
    <2>1. /\ pc[t] = "called" /\ request[t].op = "read" /\ Valid(t)
          /\ pc'[t] \in {"replied", "reading"} /\ request' = request
      BY <1>0, <1>8 DEF ReadOpen, At, Finish, Typed
    <2> QED
      BY <1>0, <2>1 DEF RequestFits, Me, Valid
  <1>9. CASE ReadBlock(t)
    <2>1. pc' = pc /\ request' = request /\ dirs' = dirs
      BY <1>9 DEF ReadBlock, disk
    <2> QED
      BY <1>0, <2>1 DEF RequestFits, Me, Valid
  <1>10. CASE Return(t)
    <2>1. pc'[t] = "idle" /\ request'[t] = Abstract!NoRequest
      BY <1>0, <1>10 DEF Return, Typed
    <2> QED
      BY <2>1 DEF RequestFits
  <1> QED
    BY <1>1, <1>3, <1>4, <1>5, <1>6, <1>7, <1>8, <1>9, <1>10, Zenon DEF Step, Work

LEMMA MoverKeepsLocals ==
    ASSUME DiskInPlace, ThreadsInPlace, NEW t \in Threads, Step(t)
    PROVE  LocalsFit(t)'
  <1>0. Typed /\ LocalsFit(t) /\ ids[t] \in SUBSET Nat
    BY DEF ThreadsInPlace, Typed
  <1>1. ASSUME NEW where, pc'[t] = where,
               where \in {"called", "ensured", "found", "scanning", "scanned"},
               pc[t] \in {"idle", "called", "ensured", "found", "scanning"},
               reply'[t] = reply[t], file'[t] = file[t],
               IsFiniteSet(ids'[t]), IsFiniteSet(coming'[t])
        PROVE  LocalsFit(t)'
    BY <1>0, <1>1 DEF LocalsFit
  <1>2. ASSUME NEW req \in Abstract!Requests, Call(t, req) PROVE LocalsFit(t)'
    <2>1. /\ pc'[t] = "called" /\ pc[t] = "idle"
          /\ reply' = reply /\ ids' = ids /\ coming' = coming /\ file' = file
      BY <1>0, <1>2 DEF Call, Typed, locals
    <2> QED
      BY <1>0, <1>1, <2>1 DEF LocalsFit
  <1>3. CASE EnsureEntityDirectory(t)
    <2>1. /\ pc'[t] = "ensured" /\ pc[t] = "called"
          /\ reply' = reply /\ ids' = ids /\ coming' = coming /\ file' = file
      BY <1>0, <1>3 DEF EnsureEntityDirectory, Typed, locals
    <2> QED
      BY <1>0, <1>1, <2>1 DEF LocalsFit
  <1>4. CASE OpenDirectory(t)
    <2>1. /\ pc'[t] = "scanning" /\ pc[t] \in {"ensured", "found"}
          /\ reply' = reply /\ file' = file
          /\ ids'[t] = {} /\ coming'[t] = DOMAIN files[Me(t)]
      BY <1>0, <1>4 DEF OpenDirectory, At, Typed
    <2>2. IsFiniteSet(ids'[t]) /\ IsFiniteSet(coming'[t])
      BY <2>1, CallersAreKnown, FS_EmptySet DEF DiskInPlace
    <2> QED
      BY <1>1, <2>1, <2>2
  <1>5. CASE ScanEntry(t)
    <2>1. PICK id \in coming[t] : /\ ids' = [ids EXCEPT ![t] = @ \cup {id}]
                                  /\ coming' = [coming EXCEPT ![t] = @ \ {id}]
      BY <1>5 DEF ScanEntry
    <2>2. ids'[t] = ids[t] \cup {id} /\ coming'[t] = coming[t] \ {id}
      BY <1>0, <2>1 DEF Typed
    <2>3. IsFiniteSet(ids'[t]) /\ IsFiniteSet(coming'[t])
      BY <1>0, <2>2, FS_AddElement, FS_Subset DEF LocalsFit
    <2>4. pc[t] = "scanning" /\ pc' = pc /\ reply' = reply /\ file' = file
      BY <1>5 DEF ScanEntry
    <2> QED
      BY <1>1, <2>3, <2>4
  <1>6. CASE CreateScanned(t)
    <2>1. /\ pc'[t] = "scanned" /\ pc[t] = "scanning" /\ reply' = reply
          /\ ids' = ids /\ coming' = coming /\ file' = file
      BY <1>0, <1>6 DEF CreateScanned, At, Typed, locals
    <2> QED
      BY <1>0, <1>1, <2>1 DEF LocalsFit
  <1>7. ASSUME NEW r, Finish(t, r), r # Abstract!NoReply, file'[t] = NoInode,
               IsFiniteSet(ids'[t]), IsFiniteSet(coming'[t])
        PROVE  LocalsFit(t)'
    <2>1. pc'[t] = "replied" /\ reply'[t] = r
      BY <1>0, <1>7 DEF Finish, Typed
    <2> QED
      BY <1>0, <1>7, <2>1 DEF LocalsFit
  <1>8. CASE Reject(t) \/ Fail(t)
    <2>1. /\ Finish(t, Failure(request[t].op))
          /\ ids' = ids /\ coming' = coming /\ file' = file
          /\ pc[t] \in {"called", "ensured", "found", "scanned"}
      BY <1>8 DEF Reject, Fail, locals
    <2> QED
      BY <1>0, <1>7, <2>1, FailureIsNotNone DEF LocalsFit
  <1>9. CASE Delete(t)
    <2>1. /\ Finish(t, [ok |-> Removes(files[Me(t)], request[t].id)])
          /\ ids' = ids /\ file' = file /\ pc[t] = "called"
          /\ EntryGone(Me(t), request[t].id)
      BY <1>9 DEF Delete, locals, At
    <2>2. coming'[t] = coming[t] \/ coming'[t] = coming[t] \ {request[t].id}
      BY <1>0, <2>1, EntriesGo DEF Typed
    <2>3. IsFiniteSet(coming'[t])
      BY <1>0, <2>2, FS_Subset DEF LocalsFit
    <2> QED
      BY <1>0, <1>7, <2>1, <2>3, AnswersAreNotNone DEF LocalsFit
  <1>10. CASE ListExists(t)
    <2>1. /\ ids' = ids /\ coming' = coming /\ file' = file /\ pc[t] = "called"
          /\ IsFiniteSet(ids'[t]) /\ IsFiniteSet(coming'[t])
      BY <1>0, <1>10 DEF ListExists, locals, At, LocalsFit
    <2>2. CASE Finish(t, [ids |-> {}])
      BY <1>0, <1>7, <2>1, <2>2, AnswersAreNotNone DEF LocalsFit
    <2>3. CASE pc' = [pc EXCEPT ![t] = "found"] /\ UNCHANGED <<request, reply, crashes>>
      <3>1. pc'[t] = "found" /\ reply' = reply
        BY <1>0, <2>3 DEF Typed
      <3> QED
        BY <1>1, <2>1, <3>1
    <2> QED
      BY <1>10, <2>2, <2>3 DEF ListExists
  <1>11. CASE ListEnd(t)
    <2>1. /\ Finish(t, [ids |-> ids[t]]) /\ pc[t] = "scanning"
          /\ ids'[t] = {} /\ coming' = coming /\ file' = file
      BY <1>0, <1>11 DEF ListEnd, At, Typed
    <2>2. IsFiniteSet(ids'[t]) /\ IsFiniteSet(coming'[t]) /\ file'[t] = NoInode
      BY <1>0, <2>1, FS_EmptySet DEF LocalsFit
    <2> QED
      BY <1>7, <2>1, <2>2, AnswersAreNotNone
  <1>12. CASE ReadEnd(t)
    <2>1. /\ Finish(t, [ok |-> TRUE, out_data |-> data[t]])
          /\ ids' = ids /\ coming' = coming /\ file'[t] = NoInode
      BY <1>0, <1>12 DEF ReadEnd, Typed
    <2> QED
      BY <1>0, <1>7, <2>1, AnswersAreNotNone DEF LocalsFit
  <1>13. CASE Write(t)
    <2>1. PICK r : Finish(t, r) /\ r \in {[id |-> file_id[t]], [ok |-> TRUE]}
      BY <1>13 DEF Write
    <2>2. ids' = ids /\ coming' = coming /\ file'[t] = NoInode
      BY <1>0, <1>13 DEF Write, WriteAndClose, Typed
    <2>3. r # Abstract!NoReply
      BY <2>1, AnswersAreNotNone
    <2> QED
      BY <1>0, <1>7, <2>1, <2>2, <2>3 DEF LocalsFit
  <1>14. CASE WriteFails(t)
    <2>1. /\ Finish(t, Failure(request[t].op))
          /\ ids' = ids /\ coming' = coming /\ file'[t] = NoInode
      BY <1>0, <1>14 DEF WriteFails, WriteAndClose, Typed
    <2> QED
      BY <1>0, <1>7, <2>1, FailureIsNotNone DEF LocalsFit
  <1>15. CASE CreateOpen(t) \/ UpdateOpen(t)
    <2>1. PICK id \in Nat : OpenForWriting(t, id) /\ pc[t] \in {"ensured", "scanned"}
      BY <1>15, WritersOpen
    <2>2. Me(t) \in Entities
      BY <2>1, CallersAreKnown
    <2>3. PICK n \in Nat : Opens(t, id, <<EntityFilePath(Me(t), id), n>>)
      BY <1>0, <2>1, <2>2, Opening
    <2>4. /\ pc'[t] = "writing" /\ request' = request /\ reply' = reply
          /\ file_id'[t] = id /\ ids'[t] = {}
          /\ EntryMade(EntityFilePath(Me(t), id)[1], id)
      BY <1>0, <2>1 DEF OpenForWriting, Typed
    <2>5. coming'[t] = coming[t] \/ coming'[t] = coming[t] \cup {id}
      BY <1>0, <2>4, EntriesCome DEF Typed
    <2>6. IsFiniteSet({}) /\ IsFiniteSet(coming'[t])
      BY <1>0, <2>5, FS_EmptySet, FS_AddElement DEF LocalsFit
    <2>7. file'[t] = <<EntityFilePath(Me(t), id), n>> /\ Me(t)' = Me(t)
      BY <1>0, <2>3, <2>4 DEF Typed, Me, Opens
    <2> QED
      BY <1>0, <2>1, <2>4, <2>6, <2>7 DEF LocalsFit
  <1>16. CASE ReadOpen(t)
    <2>1. pc[t] = "called" /\ ids' = ids /\ coming' = coming /\ Me(t) \in Entities
      BY <1>16, CallersAreKnown DEF ReadOpen, At
    <2>2. CASE Finish(t, [ok |-> FALSE]) /\ UNCHANGED file
      BY <1>0, <1>7, <2>1, <2>2, AnswersAreNotNone DEF LocalsFit
    <2>3. CASE /\ request[t].id \in DOMAIN files[Me(t)]
               /\ file' = [file EXCEPT ![t] = files[Me(t)][request[t].id]]
               /\ pc' = [pc EXCEPT ![t] = "reading"]
               /\ UNCHANGED <<request, reply, crashes>>
      <3>1. PICK n \in Nat : files[Me(t)][request[t].id] =
                                 <<EntityFilePath(Me(t), request[t].id), n>>
        BY <2>1, <2>3 DEF DiskInPlace
      <3>2. request[t].id \in Nat
        BY <2>1, <2>3 DEF DiskInPlace
      <3>3. /\ pc'[t] = "reading" /\ reply'[t] = reply[t] /\ Me(t)' = Me(t)
            /\ file'[t] = <<EntityFilePath(Me(t), request[t].id), n>>
        BY <1>0, <2>3, <3>1 DEF Typed, Me
      <3> QED
        BY <1>0, <2>1, <3>2, <3>3 DEF LocalsFit
    <2> QED
      BY <1>16, <2>2, <2>3 DEF ReadOpen
  <1>17. CASE ReadBlock(t)
    <2>1. pc' = pc /\ request' = request /\ reply' = reply /\ ids' = ids
          /\ coming' = coming /\ file_id' = file_id /\ file' = file
      BY <1>17 DEF ReadBlock
    <2> QED
      BY <1>0, <2>1 DEF LocalsFit, Me
  <1>18. CASE Return(t)
    <2>1. /\ pc'[t] = "idle" /\ reply'[t] = Abstract!NoReply /\ ids' = ids
          /\ coming' = coming /\ file' = file /\ pc[t] = "replied"
      BY <1>0, <1>18 DEF Return, Typed, locals
    <2> QED
      BY <1>0, <2>1 DEF LocalsFit
  <1> QED
    BY <1>2, <1>3, <1>4, <1>5, <1>6, <1>8, <1>9, <1>10, <1>11, <1>12, <1>13, <1>14,
       <1>15, <1>16, <1>17, <1>18, Zenon
    DEF Step, Work

\* What others read may gain a file that is there and lose one that is not.
LEMMA OthersEntries ==
    ASSUME DiskInPlace, ThreadsInPlace, NEW t \in Threads, Step(t), NEW u \in Threads \ {t}
    PROVE  \/ coming'[u] = coming[u]
           \/ /\ pc[u] = "scanning"
              /\ \E id : \/ /\ coming'[u] = coming[u] \cup {id}
                          /\ id \in DOMAIN files'[Me(u)]
                       \/ /\ coming'[u] = (coming[u] \ {id})
                          /\ id \notin DOMAIN files'[Me(u)]
  <1>0. /\ Typed /\ coming \in [Threads -> SUBSET Nat] /\ DOMAIN files = Entities
    BY DEF ThreadsInPlace, Typed, DiskInPlace
  <1>1. CASE CreateOpen(t) \/ UpdateOpen(t)
    <2>1. PICK id \in Nat : OpenForWriting(t, id) /\ pc[t] \in {"ensured", "scanned"}
      BY <1>1, WritersOpen
    <2>2. Me(t) \in Entities
      BY <2>1, CallersAreKnown
    <2>3. PICK n \in Nat : Opens(t, id, <<EntityFilePath(Me(t), id), n>>)
      BY <1>0, <2>1, <2>2, Opening
    <2>4. EntryMade(Me(t), id)
      BY <2>1 DEF OpenForWriting, EntityFilePath
    <2>5. \/ coming'[u] = coming[u]
          \/ u \in Scanning(Me(t)) /\ coming'[u] = coming[u] \cup {id}
      BY <1>0, <2>4, EntriesCome
    <2>6. id \in DOMAIN files'[Me(t)]
      BY <1>0, <2>2, <2>3 DEF Opens, Abstract!Put
    <2> QED
      BY <2>5, <2>6 DEF Scanning
  <1>2. CASE Delete(t)
    <2>1. pc[t] = "called" /\ EntryGone(Me(t), request[t].id)
          /\ files' = [files EXCEPT ![Me(t)] = Abstract!Drop(@, request[t].id)]
      BY <1>2 DEF Delete, At
    <2>2. \/ coming'[u] = coming[u]
          \/ u \in Scanning(Me(t)) /\ coming'[u] = coming[u] \ {request[t].id}
      BY <1>0, <2>1, EntriesGo
    <2>3. request[t].id \notin DOMAIN files'[Me(t)]
      <3>1. Me(t) \in Entities
        BY <2>1, CallersAreKnown
      <3> QED
        BY <1>0, <2>1, <3>1 DEF Abstract!Drop, Abstract!Restrict
    <2> QED
      BY <2>2, <2>3 DEF Scanning
  <1>3. CASE ReadsDirectory(t)
    BY <1>0, <1>3, DirectoryIsOnlyRead
  <1>4. CASE \/ \E req \in Abstract!Requests : Call(t, req)
             \/ Reject(t) \/ Fail(t) \/ EnsureEntityDirectory(t) \/ Write(t)
             \/ WriteFails(t) \/ ReadOpen(t) \/ ReadBlock(t) \/ ReadEnd(t) \/ Return(t)
    <2>1. coming' = coming
      BY <1>4 DEF Call, Reject, Fail, EnsureEntityDirectory, Write, WriteFails,
                  WriteAndClose, ReadOpen, ReadBlock, ReadEnd, Return, locals
    <2> QED
      BY <2>1
  <1> QED
    BY <1>1, <1>2, <1>3, <1>4, Zenon DEF Step, Work, ReadsDirectory

LEMMA ThreadsStay ==
    ASSUME DiskInPlace, ThreadsInPlace, NEW t \in Threads, Step(t)
    PROVE  ThreadsInPlace'
  <1>1. Typed'
    BY TypedStays
  <1>2. ASSUME NEW u \in Threads PROVE RequestFits(u)' /\ LocalsFit(u)'
    <2>1. CASE u = t
      BY <2>1, MoverKeepsRequest, MoverKeepsLocals
    <2>2. CASE u # t
      <3>1. Still(u)
        BY <2>2, OnlyOneMoves DEF ThreadsInPlace
      <3>2. dirs \subseteq dirs'
        BY DiskStays
      <3>3. IsFiniteSet(coming'[u])
        <4>1. PICK id :
                  coming'[u] \in {coming[u], coming[u] \cup {id}, coming[u] \ {id}}
          BY <2>2, OthersEntries
        <4> QED
          BY <4>1, FS_AddElement, FS_Subset DEF ThreadsInPlace, LocalsFit
      <3> QED
        BY <3>1, <3>2, <3>3, OthersStay DEF ThreadsInPlace
    <2> QED
      BY <2>1, <2>2
  <1> QED
    BY <1>1, <1>2 DEF ThreadsInPlace

--------------------------------------------------------------------------------
(* The file system keeps what is named or open                                *)

LEMMA KeptIsLive == ASSUME NEW content, KeepLive(content)
                    PROVE  OnlyLive'
  BY DEF KeepLive, OnlyLive, LiveInodes

LEMMA OnlyLiveStays ==
    ASSUME DiskInPlace, ThreadsInPlace, OnlyLive, NEW t \in Threads, Step(t)
    PROVE  OnlyLive'
  <1>0. DOMAIN file = Threads
    BY DEF ThreadsInPlace, Typed
  <1>1. ASSUME UNCHANGED <<files, blocks, file>> PROVE OnlyLive'
    BY <1>1 DEF OnlyLive, LiveInodes, Live
  <1>2. CASE \/ \E req \in Abstract!Requests : Call(t, req)
             \/ Reject(t) \/ Fail(t) \/ EnsureEntityDirectory(t) \/ ReadsDirectory(t)
             \/ ReadBlock(t) \/ Return(t)
    <2>1. CASE ReadsDirectory(t)
      <3>1. UNCHANGED <<files, blocks, file>>
        BY <2>1, DirectoryIsOnlyRead DEF ThreadsInPlace, disk
      <3> QED
        BY <1>1, <3>1
    <2>2. CASE ~ReadsDirectory(t)
      <3>1. UNCHANGED <<files, blocks, file>>
        BY <1>2, <2>2 DEF Call, Reject, Fail, EnsureEntityDirectory, ReadBlock, Return,
                          disk, locals
      <3> QED
        BY <1>1, <3>1
    <2> QED
      BY <2>1, <2>2
  <1>3. CASE CreateOpen(t) \/ UpdateOpen(t)
    <2>1. PICK id \in Nat : OpenForWriting(t, id) /\ pc[t] \in {"ensured", "scanned"}
      BY <1>3, WritersOpen
    <2>2. Me(t) \in Entities
      BY <2>1, CallersAreKnown
    <2>3. PICK n \in Nat : Opens(t, id, <<EntityFilePath(Me(t), id), n>>)
      BY <2>1, <2>2, Opening DEF ThreadsInPlace
    <2> QED
      BY <2>3 DEF Opens, OnlyLive, LiveInodes
  <1>4. CASE Write(t)
    BY <1>4, KeptIsLive DEF Write, WriteAndClose
  <1>5. CASE WriteFails(t)
    BY <1>5, KeptIsLive DEF WriteFails, WriteAndClose
  <1>6. CASE ReadEnd(t) \/ Delete(t)
    BY <1>6, KeptIsLive DEF ReadEnd, Delete
  <1>7. CASE ReadOpen(t)
    <2>1. /\ UNCHANGED <<files, blocks>> /\ pc[t] = "called"
          /\ \/ file' = file
             \/ /\ request[t].id \in DOMAIN files[Me(t)]
                /\ file' = [file EXCEPT ![t] = files[Me(t)][request[t].id]]
      BY <1>7 DEF ReadOpen, At, disk
    <2>2. Me(t) \in Entities /\ file[t] = NoInode
      BY <2>1, CallersAreKnown DEF ThreadsInPlace, LocalsFit
    <2>3. CASE /\ request[t].id \in DOMAIN files[Me(t)]
               /\ file' = [file EXCEPT ![t] = files[Me(t)][request[t].id]]
      <3>1. ASSUME NEW i PROVE i \in Live(files, file') <=> i \in Live(files, file)
        <4>1. /\ DOMAIN file' = Threads
              /\ \A u \in Threads : file'[u] = IF u = t THEN files[Me(t)][request[t].id]
                                               ELSE file[u]
          BY <1>0, <2>3
        <4>2. \A x : x \in Live(files, file') <=>
                  \/ \E e \in Entities : \E id \in DOMAIN files[e] : x = files[e][id]
                  \/ \E u \in Threads : x = file'[u] /\ x # NoInode
          BY <4>1, LiveMeans
        <4>3. \A x : x \in Live(files, file) <=>
                  \/ \E e \in Entities : \E id \in DOMAIN files[e] : x = files[e][id]
                  \/ \E u \in Threads : x = file[u] /\ x # NoInode
          BY <1>0, LiveMeans
        <4>4. \E id \in DOMAIN files[Me(t)] : file'[t] = files[Me(t)][id]
          BY <2>3, <4>1
        <4>5. \A u \in Threads \ {t} : file'[u] = file[u]
          BY <4>1
        <4>6. ASSUME i \in Live(files, file') PROVE i \in Live(files, file)
          BY <2>2, <4>2, <4>3, <4>4, <4>5, <4>6
        <4>7. ASSUME i \in Live(files, file) PROVE i \in Live(files, file')
          BY <2>2, <4>2, <4>3, <4>5, <4>7
        <4> QED
          BY <4>6, <4>7
      <3>2. Live(files, file') = Live(files, file)
        BY <3>1
      <3> QED
        BY <2>1, <3>2 DEF OnlyLive, LiveInodes
    <2> QED
      BY <1>1, <2>1, <2>3
  <1> QED
    BY <1>2, <1>3, <1>4, <1>5, <1>6, <1>7, Zenon DEF Step, Work, ReadsDirectory

LEMMA CountersStay ==
    ASSUME Typed, Counters, NEW t \in Threads, Step(t)
    PROVE  Counters' /\ faults <= faults'
  <1>1. CASE faults' = faults /\ crashes' = crashes
    BY <1>1 DEF Counters
  <1>2. CASE Fail(t) \/ WriteFails(t)
    BY <1>2, BoundsAssumption DEF Fail, WriteFails, Finish, Counters
  <1>3. CASE CreateOpen(t) \/ UpdateOpen(t)
    BY <1>1, <1>3 DEF CreateOpen, UpdateOpen, OpenForWriting
  <1>4. CASE \/ \E req \in Abstract!Requests : Call(t, req)
             \/ Reject(t) \/ EnsureEntityDirectory(t) \/ Write(t)
             \/ ReadOpen(t) \/ ReadBlock(t) \/ ReadEnd(t) \/ Delete(t) \/ Return(t)
    <2>1. faults' = faults /\ crashes' = crashes
      BY <1>4 DEF Call, Reject, EnsureEntityDirectory, Write, ReadOpen, ReadBlock,
                  ReadEnd, Delete, Return, Finish
    <2> QED
      BY <1>1, <2>1
  <1>5. CASE ReadsDirectory(t)
    BY <1>1, <1>5, DirectoryIsOnlyRead
  <1> QED
    BY <1>2, <1>3, <1>4, <1>5, Zenon DEF Step, Work, ReadsDirectory

--------------------------------------------------------------------------------
(* The process dies                                                           *)

\* Whether by itself or by what an iterator throws.
Died == Crash \/ \E t \in Threads : ScanThrows(t)

LEMMA WhoDiedDies ==
    ASSUME Died
    PROVE  Dies /\ (faults' = faults \/ (faults < MaxFaults /\ faults' = faults + 1))
  BY DEF Died, Crash, ScanThrows

LEMMA CrashKeepsTypes ==
    ASSUME Types, Died
    PROVE  Types'
  <1>0. Dies /\ (faults' = faults \/ (faults < MaxFaults /\ faults' = faults + 1))
    BY WhoDiedDies
  <1>1. DiskInPlace'
    BY <1>0 DEF Types, Dies, DiskInPlace
  <1>2. Typed'
    BY <1>0 DEF Types, Dies, ThreadsInPlace, Typed, Stages
  <1>3. ASSUME NEW t \in Threads PROVE RequestFits(t)' /\ LocalsFit(t)'
    <2>1. /\ pc'[t] = "idle" /\ request'[t] = Abstract!NoRequest
          /\ reply'[t] = Abstract!NoReply /\ ids'[t] = {} /\ coming'[t] = {}
          /\ file'[t] = NoInode
      BY <1>0 DEF Dies
    <2>2. IsFiniteSet({})
      BY FS_EmptySet
    <2> QED
      BY <2>1, <2>2 DEF RequestFits, LocalsFit
  <1>4. Counters'
    <2>1. crashes < MaxCrashes /\ crashes' = crashes + 1
      BY <1>0 DEF Dies
    <2> QED
      BY <1>0, <2>1, BoundsAssumption DEF Types, Counters
  <1>5. OnlyLive'
    BY <1>0, KeptIsLive DEF Dies
  <1> QED
    BY <1>1, <1>2, <1>3, <1>4, <1>5 DEF Types, ThreadsInPlace

LEMMA UnchangedKeepsTypes ==
    ASSUME Types, UNCHANGED vars
    PROVE  Types'
  <1>1. DiskInPlace'
    BY DEF Types, vars, disk, DiskInPlace
  <1>2. Typed'
    BY DEF Types, vars, locals, ghosts, ThreadsInPlace, Typed
  <1>3. ASSUME NEW t \in Threads PROVE RequestFits(t)' /\ LocalsFit(t)'
    <2>1. Still(t) /\ dirs \subseteq dirs' /\ coming' = coming
      BY DEF vars, locals, disk, Still
    <2>2. IsFiniteSet(coming'[t])
      BY <2>1 DEF Types, ThreadsInPlace, LocalsFit
    <2> QED
      BY <2>1, <2>2, OthersStay DEF Types, ThreadsInPlace
  <1>4. Counters'
    BY DEF Types, vars, Counters
  <1>5. OnlyLive'
    BY DEF Types, vars, disk, locals, OnlyLive, LiveInodes, Live
  <1> QED
    BY <1>1, <1>2, <1>3, <1>4, <1>5 DEF Types, ThreadsInPlace

LEMMA NextMeans == Next => (\E t \in Threads : Step(t)) \/ Died
  BY Zenon DEF Next, Step, Died

LEMMA TypesStay == Types /\ [Next]_vars => Types'
  <1> SUFFICES ASSUME Types, [Next]_vars PROVE Types'
    OBVIOUS
  <1>1. ASSUME NEW t \in Threads, Step(t) PROVE Types'
    BY <1>1, DiskStays, ThreadsStay, CountersStay, OnlyLiveStays DEF Types, ThreadsInPlace
  <1>2. CASE Died
    BY <1>2, CrashKeepsTypes
  <1>3. CASE UNCHANGED vars
    BY <1>3, UnchangedKeepsTypes
  <1> QED
    BY <1>1, <1>2, <1>3, NextMeans

LEMMA TypesInit == Init => Types
  <1> SUFFICES ASSUME Init PROVE Types
    OBVIOUS
  <1>1. IsFiniteSet({})
    BY FS_EmptySet
  <1>2. /\ DOMAIN NoMap = {}
        /\ files = [e \in Entities |-> NoMap]
    BY DEF Init, NoMap
  <1>3. DiskInPlace
    BY <1>1, <1>2 DEF Init, DiskInPlace
  <1>4. Typed
    BY DEF Init, Typed, Stages
  <1>5. ASSUME NEW t \in Threads PROVE RequestFits(t) /\ LocalsFit(t)
    BY <1>1 DEF Init, RequestFits, LocalsFit
  <1>6. Counters
    BY BoundsAssumption DEF Init, Counters
  <1>7. OnlyLive
    <2>1. \A i : i \notin Live(files, file)
      BY <1>2, LiveMeans DEF Init
    <2>2. DOMAIN blocks = {}
      BY <1>2 DEF Init
    <2> QED
      BY <2>1, <2>2 DEF OnlyLive, LiveInodes
  <1> QED
    BY <1>3, <1>4, <1>5, <1>6, <1>7 DEF Types, ThreadsInPlace

LEMMA TypesGiveTypeOK == Types => TypeOK
  <1> SUFFICES ASSUME Types PROVE TypeOK
    OBVIOUS
  <1>1. \A e \in Entities :
            /\ DOMAIN files[e] \subseteq Nat
            /\ \A id \in DOMAIN files[e] : files[e][id][1] = EntityFilePath(e, id)
            /\ DOMAIN files[e] # {} => e \in dirs
    BY DEF Types, DiskInPlace
  <1>2. ASSUME NEW t \in Threads
        PROVE  /\ pc[t] = "idle" <=> request[t] = Abstract!NoRequest
               /\ pc[t] = "replied" <=> reply[t] # Abstract!NoReply
               /\ pc[t] \in {"reading", "writing"} <=> file[t] # NoInode
               /\ ids[t] \cup coming[t] \subseteq Nat
    BY InodesAreNotNone
    DEF Types, ThreadsInPlace, RequestFits, LocalsFit, Typed
  <1> QED
    BY <1>1, <1>2 DEF TypeOK, Types, DiskInPlace, ThreadsInPlace, Typed, Stages,
                      Counters, OnlyLive

--------------------------------------------------------------------------------
(* What a step does to the content of files                                   *)

\* Nothing comes to life when names and streams only go.
LEMMA LiveShrinks ==
    ASSUME DOMAIN file = Threads, DOMAIN file' = Threads,
           \A e \in Entities : \A id \in DOMAIN files'[e] :
               id \in DOMAIN files[e] /\ files'[e][id] = files[e][id],
           \A u \in Threads : file'[u] \in {file[u], NoInode}
    PROVE  Live(files', file') \subseteq Live(files, file)
  <1> SUFFICES ASSUME NEW i \in Live(files', file') PROVE i \in Live(files, file)
    OBVIOUS
  <1>1. CASE \E e \in Entities : \E id \in DOMAIN files'[e] : i = files'[e][id]
    BY <1>1, LiveMeans
  <1>2. CASE \E u \in Threads : i = file'[u] /\ i # NoInode
    BY <1>2, LiveMeans
  <1> QED
    BY <1>1, <1>2, LiveMeans

\* What is left keeps its content.
Kept == \A i \in DOMAIN blocks' : i \in DOMAIN blocks /\ blocks'[i] = blocks[i]

LEMMA ShrinkingKeeps ==
    ASSUME OnlyLive, KeepLive(blocks), Live(files', file') \subseteq Live(files, file)
    PROVE  Kept
  BY DEF Kept, KeepLive, OnlyLive, LiveInodes

LEMMA CrashKeepsBlocks == ASSUME Types, Died PROVE Kept
  <1>0. Dies
    BY WhoDiedDies
  <1>1. KeepLive(blocks) /\ files' = files
    BY <1>0 DEF Dies
  <1>2. DOMAIN file' = Threads /\ \A u \in Threads : file'[u] = NoInode
    BY <1>0 DEF Dies
  <1>3. Live(files', file') \subseteq Live(files, file)
    BY <1>1, <1>2, LiveShrinks DEF Types, ThreadsInPlace, Typed
  <1> QED
    BY <1>1, <1>3, ShrinkingKeeps DEF Types

Writes(t) == CreateOpen(t) \/ UpdateOpen(t) \/ Write(t) \/ WriteFails(t)

LEMMA OthersKeepBlocks ==
    ASSUME Types, NEW t \in Threads, Step(t), ~Writes(t)
    PROVE  Kept
  <1>1. CASE blocks' = blocks
    BY <1>1 DEF Kept
  <1>2. CASE Delete(t)
    <2>1. /\ KeepLive(blocks) /\ file' = file
          /\ files' = [files EXCEPT ![Me(t)] = Abstract!Drop(@, request[t].id)]
      BY <1>2 DEF Delete, locals
    <2>2. Me(t) \in Entities /\ DOMAIN files = Entities
      BY <1>2, CallersAreKnown DEF Delete, At, Types, DiskInPlace
    <2>3. files'[Me(t)] = [id \in DOMAIN files[Me(t)] \ {request[t].id} |-> files[Me(t)][id]]
      BY <2>1, <2>2 DEF Abstract!Drop, Abstract!Restrict
    <2>4. \A e \in Entities \ {Me(t)} : files'[e] = files[e]
      BY <2>1, <2>2
    <2>5. \A e \in Entities : \A id \in DOMAIN files'[e] :
              id \in DOMAIN files[e] /\ files'[e][id] = files[e][id]
      BY <2>3, <2>4
    <2>6. Live(files', file') \subseteq Live(files, file)
      BY <2>1, <2>5, LiveShrinks DEF Types, ThreadsInPlace, Typed
    <2> QED
      BY <2>1, <2>6, ShrinkingKeeps DEF Types
  <1>3. CASE ReadEnd(t)
    <2>1. /\ KeepLive(blocks) /\ files' = files
          /\ file' = [file EXCEPT ![t] = NoInode]
      BY <1>3 DEF ReadEnd
    <2>2. Live(files', file') \subseteq Live(files, file)
      BY <2>1, LiveShrinks DEF Types, ThreadsInPlace, Typed
    <2> QED
      BY <2>1, <2>2, ShrinkingKeeps DEF Types
  <1>4. CASE \/ \E req \in Abstract!Requests : Call(t, req)
             \/ Reject(t) \/ Fail(t) \/ EnsureEntityDirectory(t)
             \/ ReadOpen(t) \/ ReadBlock(t) \/ Return(t)
    <2>1. blocks' = blocks
      BY <1>4 DEF Call, Reject, Fail, EnsureEntityDirectory, ReadOpen, ReadBlock,
                  Return, disk
    <2> QED
      BY <1>1, <2>1
  <1>5. CASE ReadsDirectory(t)
    <2>1. blocks' = blocks
      BY <1>5, DirectoryIsOnlyRead DEF Types, ThreadsInPlace, disk
    <2> QED
      BY <1>1, <2>1
  <1> QED
    BY <1>2, <1>3, <1>4, <1>5, Zenon DEF Step, Work, Writes, ReadsDirectory

\* A file that is opened for writing is empty, the others are as they were.
EmptiesOnly(inode) ==
    \A i \in DOMAIN blocks' :
        /\ i = inode => blocks'[i] = <<>>
        /\ i # inode => i \in DOMAIN blocks /\ blocks'[i] = blocks[i]

LEMMA OpeningEmpties ==
    ASSUME Types, NEW t \in Threads, Me(t) \in Entities, file[t] = NoInode,
           NEW id, NEW inode, Opens(t, id, inode)
    PROVE  EmptiesOnly(inode)
  <1>0. DOMAIN files = Entities /\ DOMAIN file = Threads /\ DOMAIN blocks = Live(files, file)
    BY DEF Types, DiskInPlace, ThreadsInPlace, Typed, OnlyLive, LiveInodes
  <1>1. blocks' = [i \in Live(files', file') |-> Abstract!Put(blocks, inode, <<>>)[i]]
    BY DEF Opens
  <1>2. ASSUME NEW i \in Live(files', file'), i # inode PROVE i \in Live(files, file)
    <2>1. CASE \E e \in Entities : \E x \in DOMAIN files'[e] : i = files'[e][x]
      <3>0. PICK e \in Entities : \E x \in DOMAIN files'[e] : i = files'[e][x]
        BY <2>1
      <3>1. PICK x \in DOMAIN files'[e] : i = files'[e][x]
        BY <3>0
      <3>2. files'[e] = IF e = Me(t) THEN Abstract!Put(files[e], id, inode) ELSE files[e]
        BY <1>0 DEF Opens
      <3>3. x \in DOMAIN files[e] /\ i = files[e][x]
        BY <1>2, <3>1, <3>2 DEF Abstract!Put
      <3> QED
        BY <3>3, LiveMeans
    <2>2. CASE \E u \in Threads : i = file'[u] /\ i # NoInode
      <3>1. PICK u \in Threads : i = file'[u] /\ i # NoInode
        BY <2>2
      <3>2. file'[u] = IF u = t THEN inode ELSE file[u]
        BY <1>0 DEF Opens
      <3>3. i = file[u] /\ u \in DOMAIN file
        BY <1>0, <1>2, <3>1, <3>2
      <3> QED
        BY <3>1, <3>3, LiveMeans
    <2>3. DOMAIN file' = Threads
      BY <1>0 DEF Opens
    <2> QED
      BY <1>2, <2>1, <2>2, <2>3, LiveMeans
  <1>3. ASSUME NEW i \in DOMAIN blocks'
        PROVE  /\ i = inode => blocks'[i] = <<>>
               /\ i # inode => i \in DOMAIN blocks /\ blocks'[i] = blocks[i]
    <2>1. i \in Live(files', file') /\ blocks'[i] = Abstract!Put(blocks, inode, <<>>)[i]
      BY <1>1, <1>3
    <2>2. CASE i = inode
      BY <2>1, <2>2 DEF Abstract!Put
    <2>3. CASE i # inode
      BY <1>0, <1>2, <2>1, <2>3 DEF Abstract!Put
    <2> QED
      BY <2>2, <2>3
  <1> QED
    BY <1>3 DEF EmptiesOnly

\* A write changes the file its stream is on.
LEMMA WritingChangesOne ==
    ASSUME Types, NEW t \in Threads, NEW n, WriteAndClose(t, n)
    PROVE  \A i \in DOMAIN blocks' :
              /\ i \in DOMAIN blocks
              /\ blocks'[i] = IF i = file[t] THEN Written(blocks[i], request[t].data, n)
                              ELSE blocks[i]
  <1>0. DOMAIN file = Threads /\ DOMAIN blocks = Live(files, file)
    BY DEF Types, ThreadsInPlace, Typed, OnlyLive, LiveInodes
  <1>1. file' = [file EXCEPT ![t] = NoInode] /\ files' = files
    BY DEF WriteAndClose
  <1>2. Live(files', file') \subseteq Live(files, file)
    BY <1>0, <1>1, LiveShrinks
  <1>3. blocks' = [i \in Live(files', file') |->
                      [blocks EXCEPT ![file[t]] = Written(@, request[t].data, n)][i]]
    BY DEF WriteAndClose, KeepLive
  <1> QED
    BY <1>0, <1>2, <1>3

--------------------------------------------------------------------------------
(* Blocks stay in place                                                       *)

\* What can be made of blocks of e's bodies, each at its place.
Texts(e) ==
    {text \in Seq(Blocks) :
        \A n \in DOMAIN text :
            \E body \in BodiesOf[e] : n \in DOMAIN body /\ body[n] = text[n]}

OwnContent == \A i \in DOMAIN blocks : blocks[i] \in Texts(i[1][1])

LEMMA EmptyIsText == \A e : <<>> \in Texts(e)
  <1>1. <<>> \in Seq(Blocks) /\ DOMAIN <<>> = {}
    OBVIOUS
  <1> QED
    BY <1>1 DEF Texts

\* The first blocks of a body and the last of what was there before.
LEMMA WrittenIsText ==
    ASSUME NEW e \in Entities, NEW body \in BodiesOf[e], NEW text \in Texts(e),
           NEW n \in 0 .. Len(body)
    PROVE  Written(text, body, n) \in Texts(e)
  <1>1. body \in Seq(Blocks) /\ text \in Seq(Blocks)
    BY BodiesAssumption DEF Texts
  <1>2. PICK front \in Seq(Blocks) : front = SubSeq(body, 1, n)
    <2>1. SubSeq(body, 1, n) \in Seq(Blocks)
      BY <1>1
    <2> QED
      BY <2>1
  <1>3. Len(front) = n /\ \A k \in 1 .. n : k \in DOMAIN body /\ front[k] = body[k]
    BY <1>1, <1>2
  <1>4. PICK back \in Seq(Blocks) : back = SubSeq(text, n + 1, Len(text))
    <2>1. SubSeq(text, n + 1, Len(text)) \in Seq(Blocks)
      BY <1>1
    <2> QED
      BY <2>1
  <1>5. \A k \in DOMAIN back : k + n \in DOMAIN text /\ back[k] = text[k + n]
    BY <1>1, <1>4
  <1>6. Written(text, body, n) = front \o back
    BY <1>2, <1>4 DEF Written
  <1>7. front \o back \in Seq(Blocks)
    OBVIOUS
  <1>8. ASSUME NEW k \in DOMAIN (front \o back)
        PROVE  \E b \in BodiesOf[e] : k \in DOMAIN b /\ b[k] = (front \o back)[k]
    <2>1. CASE k <= n
      <3>1. k \in 1 .. n /\ (front \o back)[k] = front[k]
        BY <1>3, <1>8, <2>1
      <3> QED
        BY <1>3, <3>1
    <2>2. CASE k > n
      <3>1. k - n \in DOMAIN back /\ (front \o back)[k] = back[k - n]
        BY <1>3, <1>8, <2>2
      <3>2. k \in DOMAIN text /\ back[k - n] = text[k]
        BY <1>5, <1>8, <3>1
      <3> QED
        BY <3>1, <3>2 DEF Texts
    <2>3. k \in Nat /\ n \in Nat
      BY <1>1, <1>7, <1>8
    <2> QED
      BY <2>1, <2>2, <2>3
  <1> QED
    BY <1>6, <1>7, <1>8 DEF Texts

LEMMA ReadingOnIsText ==
    ASSUME NEW e, NEW text \in Texts(e), NEW content \in Texts(e), Len(text) < Len(content)
    PROVE  Append(text, content[Len(text) + 1]) \in Texts(e)
  <1>1. /\ text \in Seq(Blocks) /\ content \in Seq(Blocks)
        /\ Len(text) + 1 \in DOMAIN content
    BY DEF Texts
  <1>2. PICK block \in Blocks : block = content[Len(text) + 1]
    BY <1>1
  <1>3. Append(text, block) \in Seq(Blocks)
    BY <1>1
  <1>4. ASSUME NEW n \in DOMAIN Append(text, block)
        PROVE  \E body \in BodiesOf[e] : n \in DOMAIN body /\ body[n] = Append(text, block)[n]
    <2>1. \/ n \in DOMAIN text /\ Append(text, block)[n] = text[n]
          \/ n = Len(text) + 1 /\ Append(text, block)[n] = content[n]
      BY <1>1, <1>2, <1>4
    <2> QED
      BY <1>1, <2>1 DEF Texts
  <1> QED
    BY <1>2, <1>3, <1>4 DEF Texts

LEMMA OpenFilesAreLive ==
    ASSUME Types, NEW t \in Threads, pc[t] \in {"reading", "writing"}
    PROVE  file[t] \in DOMAIN blocks /\ file[t][1][1] = Me(t) /\ Me(t) \in Entities
  <1>1. PICK id \in Nat : \E n \in Nat : file[t] = <<EntityFilePath(Me(t), id), n>>
    BY DEF Types, ThreadsInPlace, LocalsFit
  <1>2. file[t] # NoInode /\ file[t][1][1] = Me(t)
    BY <1>1, InodesAreNotNone DEF EntityFilePath
  <1>3. file[t] \in Live(files, file)
    BY <1>2, LiveMeans DEF Types, ThreadsInPlace, Typed
  <1> QED
    BY <1>2, <1>3, CallersAreKnown DEF Types, OnlyLive, LiveInodes

LEMMA ContentStays ==
    ASSUME Types, OwnContent, NEW t \in Threads, Step(t)
    PROVE  OwnContent'
  <1>1. CASE ~Writes(t)
    <2>1. Kept
      BY <1>1, OthersKeepBlocks
    <2> QED
      BY <2>1 DEF Kept, OwnContent
  <1>2. CASE CreateOpen(t) \/ UpdateOpen(t)
    <2>1. PICK id \in Nat : OpenForWriting(t, id) /\ pc[t] \in {"ensured", "scanned"}
      BY <1>2, WritersOpen DEF Types
    <2>2. Me(t) \in Entities /\ file[t] = NoInode
      BY <2>1, CallersAreKnown DEF Types, ThreadsInPlace, LocalsFit
    <2>3. PICK n \in Nat : Opens(t, id, <<EntityFilePath(Me(t), id), n>>)
      BY <2>1, <2>2, Opening DEF Types, ThreadsInPlace
    <2>4. \A i \in DOMAIN blocks' :
              \/ blocks'[i] = <<>>
              \/ i \in DOMAIN blocks /\ blocks'[i] = blocks[i]
      <3>1. EmptiesOnly(<<EntityFilePath(Me(t), id), n>>)
        BY <2>2, <2>3, OpeningEmpties, Zenon
      <3> QED
        BY <3>1 DEF EmptiesOnly
    <2> QED
      BY <2>4, EmptyIsText DEF OwnContent
  <1>3. ASSUME pc[t] = "writing", NEW n \in 0 .. Len(request[t].data), WriteAndClose(t, n)
        PROVE  OwnContent'
    <2>1. \A i \in DOMAIN blocks' :
              /\ i \in DOMAIN blocks
              /\ blocks'[i] = IF i = file[t] THEN Written(blocks[i], request[t].data, n)
                              ELSE blocks[i]
      BY <1>3, WritingChangesOne
    <2>2. request[t].data \in BodiesOf[Me(t)] /\ Me(t) \in Entities
      BY <1>3, CallersAreKnown DEF Types, ThreadsInPlace, RequestFits
    <2>3. blocks[file[t]] \in Texts(Me(t)) /\ file[t][1][1] = Me(t)
      BY <1>3, OpenFilesAreLive DEF OwnContent
    <2>4. Written(blocks[file[t]], request[t].data, n) \in Texts(file[t][1][1])
      BY <1>3, <2>2, <2>3, WrittenIsText
    <2> QED
      BY <2>1, <2>4 DEF OwnContent
  <1>4. CASE Write(t) \/ WriteFails(t)
    <2>1. pc[t] = "writing"
      BY <1>4 DEF Write, WriteFails
    <2>2. request[t].data \in Seq(Blocks)
      BY <2>1, CallersAreKnown, BodiesAssumption DEF Types, ThreadsInPlace, RequestFits
    <2>3. \E n \in 0 .. Len(request[t].data) : WriteAndClose(t, n)
      <3>1. CASE Write(t)
        <4>1. WriteAndClose(t, Len(request[t].data))
          BY <3>1 DEF Write
        <4>2. Len(request[t].data) \in 0 .. Len(request[t].data)
          BY <2>2
        <4> QED
          BY <4>1, <4>2
      <3>2. CASE WriteFails(t)
        <4>1. \E n \in 0 .. Len(request[t].data) - 1 : WriteAndClose(t, n)
          BY <3>2 DEF WriteFails
        <4>2. 0 .. Len(request[t].data) - 1 \subseteq 0 .. Len(request[t].data)
          BY <2>2
        <4> QED
          BY <4>1, <4>2
      <3> QED
        BY <1>4, <3>1, <3>2
    <2> QED
      BY <1>3, <2>1, <2>3
  <1> QED
    BY <1>1, <1>2, <1>4 DEF Writes

LEMMA ContentStaysWhenNobodyWrites ==
    ASSUME Types, OwnContent, Died \/ UNCHANGED vars
    PROVE  OwnContent'
  <1>1. Kept
    <2>1. CASE Died
      BY <2>1, CrashKeepsBlocks
    <2>2. CASE UNCHANGED vars
      BY <2>2 DEF vars, disk, Kept
    <2> QED
      BY <2>1, <2>2
  <1> QED
    BY <1>1 DEF Kept, OwnContent

\* What a thread that has read nothing yet, or has no answer of Read, shows.
ReadsFit(t) ==
    /\ pc[t] = "reading" => data[t] \in Texts(Me(t))
    /\ pc[t] # "reading" => data[t] = <<>>
    /\ At(t, "replied", "read") /\ reply[t].ok => reply[t].out_data \in Texts(Me(t))

OwnReads == \A t \in Threads : ReadsFit(t)

LEMMA OthersReadsStay ==
    ASSUME NEW u \in Threads, ReadsFit(u), Still(u)
    PROVE  ReadsFit(u)'
  BY DEF ReadsFit, Still, Me, At, Texts

LEMMA MoverReads ==
    ASSUME Types, OwnContent, NEW t \in Threads, ReadsFit(t), Step(t)
    PROVE  ReadsFit(t)'
  <1>0. Typed
    BY DEF Types, ThreadsInPlace
  <1>1. ASSUME pc'[t] \notin {"reading", "replied"}, data'[t] = <<>>
        PROVE  ReadsFit(t)'
    BY <1>1 DEF ReadsFit, At
  <1>2. CASE \E req \in Abstract!Requests : Call(t, req)
    <2>1. pc'[t] = "called" /\ pc[t] = "idle" /\ data' = data
      BY <1>0, <1>2 DEF Call, Typed, locals
    <2> QED
      BY <1>1, <2>1 DEF ReadsFit
  <1>3. CASE Return(t)
    <2>1. pc'[t] = "idle" /\ pc[t] = "replied" /\ data' = data
      BY <1>0, <1>3 DEF Return, Typed, locals
    <2> QED
      BY <1>1, <2>1 DEF ReadsFit
  <1>4. CASE EnsureEntityDirectory(t)
    <2>1. pc'[t] = "ensured" /\ pc[t] = "called" /\ data' = data
      BY <1>0, <1>4 DEF EnsureEntityDirectory, Typed, locals
    <2> QED
      BY <1>1, <2>1 DEF ReadsFit
  <1>5. CASE ReadsDirectory(t)
    <2>1. /\ data' = data /\ request' = request
          /\ pc[t] \in {"called", "ensured", "found", "scanning"}
          /\ pc'[t] \in {"found", "scanning", "scanned", "replied"}
      BY <1>0, <1>5, DirectoryIsOnlyRead
    <2>2. pc'[t] = "replied" => request[t].op # "read"
      <3>1. CASE ListExists(t) \/ ListEnd(t)
        BY <3>1 DEF ListExists, ListEnd, At
      <3>2. CASE OpenDirectory(t) \/ ScanEntry(t) \/ CreateScanned(t)
        BY <1>0, <3>2 DEF OpenDirectory, ScanEntry, CreateScanned, At, Typed
      <3> QED
        BY <1>5, <3>1, <3>2, Zenon DEF ReadsDirectory
    <2> QED
      BY <2>1, <2>2 DEF ReadsFit, At
  <1>6. CASE CreateOpen(t) \/ UpdateOpen(t)
    <2>1. PICK id \in Nat : OpenForWriting(t, id) /\ pc[t] \in {"ensured", "scanned"}
      BY <1>6, WritersOpen DEF Types
    <2>2. pc'[t] = "writing" /\ data' = data
      BY <1>0, <2>1 DEF OpenForWriting, Typed
    <2> QED
      BY <1>1, <2>1, <2>2 DEF ReadsFit
  <1>7. ASSUME pc'[t] = "replied", request' = request, data'[t] = <<>>,
               request[t].op # "read"
        PROVE  ReadsFit(t)'
    BY <1>7 DEF ReadsFit, At
  <1>8. CASE Write(t) \/ WriteFails(t)
    <2>1. pc[t] = "writing" /\ pc'[t] = "replied" /\ request' = request /\ data' = data
      BY <1>0, <1>8 DEF Write, WriteFails, WriteAndClose, Finish, Typed
    <2>2. request[t].op # "read"
      BY <2>1 DEF Types, ThreadsInPlace, RequestFits
    <2> QED
      BY <1>7, <2>1, <2>2 DEF ReadsFit
  <1>9. CASE Delete(t)
    <2>1. /\ pc[t] = "called" /\ pc'[t] = "replied" /\ request' = request /\ data' = data
          /\ request[t].op # "read"
      BY <1>0, <1>9 DEF Delete, At, Finish, Typed, locals
    <2> QED
      BY <1>7, <2>1 DEF ReadsFit
  <1>10. CASE Reject(t) \/ Fail(t)
    <2>1. /\ Finish(t, Failure(request[t].op)) /\ data' = data
          /\ pc[t] \in {"called", "ensured", "found", "scanned"}
      BY <1>10 DEF Reject, Fail, locals
    <2>2. pc'[t] = "replied" /\ request' = request /\ reply'[t] = Failure(request[t].op)
      BY <1>0, <2>1 DEF Finish, Typed
    <2>3. request[t].op = "read" => reply'[t].ok = FALSE
      <3>1. ASSUME request[t].op = "read" PROVE Failure(request[t].op) = [ok |-> FALSE]
        BY <3>1, Zenon DEF Failure
      <3> QED
        BY <2>2, <3>1
    <2> QED
      BY <2>1, <2>2, <2>3 DEF ReadsFit, At
  <1>11. CASE ReadOpen(t)
    <2>1. /\ pc[t] = "called" /\ data' = data /\ request' = request
          /\ \/ pc'[t] = "replied" /\ reply'[t] = [ok |-> FALSE]
             \/ pc'[t] = "reading"
      BY <1>0, <1>11 DEF ReadOpen, At, Finish, Typed
    <2>2. data'[t] = <<>> /\ \A e : <<>> \in Texts(e)
      BY <2>1, EmptyIsText DEF ReadsFit
    <2>3. CASE pc'[t] = "replied" /\ reply'[t] = [ok |-> FALSE]
      BY <2>2, <2>3 DEF ReadsFit, At
    <2>4. CASE pc'[t] = "reading"
      BY <2>2, <2>4 DEF ReadsFit, At, Texts
    <2> QED
      BY <2>1, <2>3, <2>4
  <1>12. CASE ReadBlock(t)
    <2>1. /\ pc[t] = "reading" /\ Len(data[t]) < Len(blocks[file[t]])
          /\ pc' = pc /\ request' = request
          /\ data'[t] = Append(data[t], blocks[file[t]][Len(data[t]) + 1])
      BY <1>0, <1>12 DEF ReadBlock, Typed
    <2>2. blocks[file[t]] \in Texts(Me(t)) /\ data[t] \in Texts(Me(t))
      BY <2>1, OpenFilesAreLive DEF OwnContent, ReadsFit
    <2>3. data'[t] \in Texts(Me(t))
      BY <2>1, <2>2, ReadingOnIsText
    <2>4. Texts(Me(t))' = Texts(Me(t))
      BY <2>1 DEF Texts, Me
    <2> QED
      BY <2>1, <2>3, <2>4 DEF ReadsFit, At
  <1>13. CASE ReadEnd(t)
    <2>1. /\ pc[t] = "reading" /\ pc'[t] = "replied" /\ request' = request
          /\ data'[t] = <<>> /\ reply'[t] = [ok |-> TRUE, out_data |-> data[t]]
      BY <1>0, <1>13 DEF ReadEnd, Finish, Typed
    <2>2. reply'[t].out_data \in Texts(Me(t))
      BY <2>1 DEF ReadsFit
    <2>3. Texts(Me(t))' = Texts(Me(t))
      BY <2>1 DEF Texts, Me
    <2> QED
      BY <2>1, <2>2, <2>3 DEF ReadsFit, At
  <1> QED
    BY <1>2, <1>3, <1>4, <1>5, <1>6, <1>8, <1>9, <1>10, <1>11, <1>12, <1>13, Zenon
    DEF Step, Work, ReadsDirectory

--------------------------------------------------------------------------------
(* What was acknowledged is on the disk                                       *)

Unwritten(i) == \A u \in Threads : pc[u] = "writing" => file[u] # i

\* A thread that is alone has emptied its file, and nobody has written it since.
AloneFits(t) ==
    /\ pc[t] = "writing"
    /\ blocks[file[t]] = <<>>
    /\ \A u \in Threads \ {t} : pc[u] = "writing" => file[u] # file[t]

AloneInPlace == alone \subseteq Threads /\ \A t \in alone : AloneFits(t)

\* An acknowledged object is named, holds its body, and is being written by none.
AckedFits(e, id) ==
    /\ e \in Entities /\ id \in DOMAIN files[e]
    /\ blocks[files[e][id]] = acked[<<e, id>>]
    /\ Unwritten(files[e][id])

AckedInPlace ==
    \A x \in DOMAIN acked : x = <<x[1], x[2]>> /\ AckedFits(x[1], x[2])

\* Next, too, what is named or open has content.
LEMMA LiveNext ==
    ASSUME Types'
    PROVE  /\ \A e \in Entities : \A id \in DOMAIN files'[e] : files'[e][id] \in DOMAIN blocks'
           /\ \A u \in Threads : pc'[u] = "writing" => file'[u] \in DOMAIN blocks'
  <1>1. DOMAIN blocks' = Live(files', file') /\ DOMAIN file' = Threads
    BY DEF Types, OnlyLive, LiveInodes, ThreadsInPlace, Typed
  <1>2. \A u \in Threads : pc'[u] = "writing" => file'[u] # NoInode
    BY InodesAreNotNone DEF Types, ThreadsInPlace, LocalsFit
  <1> QED
    BY <1>1, <1>2, LiveMeans

\* Steps other than an open or a write leave the writers, and drop what they
\* remove.
LEMMA QuietSteps ==
    ASSUME Types, NEW t \in Threads, Step(t), ~Writes(t)
    PROVE  /\ pc[t] # "writing" /\ pc'[t] # "writing"
           /\ alone' = alone
           /\ \/ files' = files /\ acked' = acked
              \/ /\ Me(t) \in Entities
                 /\ files' = [files EXCEPT ![Me(t)] = Abstract!Drop(@, request[t].id)]
                 /\ acked' = Abstract!Drop(acked, <<Me(t), request[t].id>>)
  <1>0. Typed
    BY DEF Types, ThreadsInPlace
  <1> USE DEF Typed, Finish, locals, disk, ghosts, At
  <1>1. CASE \E req \in Abstract!Requests : Call(t, req)
    BY <1>0, <1>1 DEF Call
  <1>2. CASE Reject(t) \/ Fail(t)
    BY <1>0, <1>2 DEF Reject, Fail
  <1>3. CASE EnsureEntityDirectory(t)
    BY <1>0, <1>3 DEF EnsureEntityDirectory
  <1>4. CASE ReadOpen(t) \/ ReadBlock(t) \/ ReadEnd(t)
    BY <1>0, <1>4 DEF ReadOpen, ReadBlock, ReadEnd
  <1>5. CASE Return(t)
    BY <1>0, <1>5 DEF Return
  <1>6. CASE Delete(t)
    <2>1. pc[t] = "called" /\ Me(t) \in Entities
      BY <1>6, CallersAreKnown DEF Delete, Types
    <2> QED
      BY <1>0, <1>6, <2>1 DEF Delete
  <1>7. CASE ReadsDirectory(t)
    BY <1>0, <1>7, DirectoryIsOnlyRead
  <1> QED
    BY <1>1, <1>2, <1>3, <1>4, <1>5, <1>6, <1>7, Zenon
    DEF Step, Work, Writes, ReadsDirectory

LEMMA QuietKeepsAcked ==
    ASSUME Types, AloneInPlace, AckedInPlace, Types',
           NEW t \in Threads, Step(t), ~Writes(t)
    PROVE  AloneInPlace' /\ AckedInPlace'
  <1>0. Typed /\ DOMAIN files = Entities
    BY DEF Types, ThreadsInPlace, DiskInPlace
  <1>1. pc[t] # "writing" /\ pc'[t] # "writing" /\ alone' = alone
    BY QuietSteps
  <1>2. \A u \in Threads \ {t} : pc'[u] = pc[u] /\ file'[u] = file[u]
    BY <1>0, OnlyOneMoves DEF Still
  <1>3. Kept
    BY OthersKeepBlocks
  <1>4. ASSUME NEW u \in alone PROVE AloneFits(u)'
    <2>1. u \in Threads /\ pc[u] = "writing" /\ u # t
      BY <1>1, <1>4 DEF AloneInPlace, AloneFits
    <2>2. blocks'[file'[u]] = blocks[file[u]]
      BY <1>2, <1>3, <2>1, LiveNext DEF Kept
    <2> QED
      BY <1>1, <1>2, <1>4, <2>1, <2>2 DEF AloneInPlace, AloneFits
  <1>5. \A i : Unwritten(i) => Unwritten(i)'
    BY <1>1, <1>2 DEF Unwritten
  <1>6. ASSUME NEW x \in DOMAIN acked' PROVE x = <<x[1], x[2]>> /\ AckedFits(x[1], x[2])'
    <2>1. /\ x \in DOMAIN acked /\ acked'[x] = acked[x]
          /\ x[2] \in DOMAIN files'[x[1]] /\ files'[x[1]][x[2]] = files[x[1]][x[2]]
      <3>1. CASE files' = files /\ acked' = acked
        BY <1>6, <3>1 DEF AckedInPlace, AckedFits
      <3>2. CASE /\ Me(t) \in Entities
                 /\ files' = [files EXCEPT ![Me(t)] = Abstract!Drop(@, request[t].id)]
                 /\ acked' = Abstract!Drop(acked, <<Me(t), request[t].id>>)
        <4>1. x \in DOMAIN acked /\ x # <<Me(t), request[t].id>> /\ acked'[x] = acked[x]
          BY <1>6, <3>2 DEF Abstract!Drop, Abstract!Restrict
        <4>2. x = <<x[1], x[2]>> /\ x[1] \in Entities /\ x[2] \in DOMAIN files[x[1]]
          BY <4>1 DEF AckedInPlace, AckedFits
        <4>3. files'[Me(t)] = [id \in DOMAIN files[Me(t)] \ {request[t].id} |-> files[Me(t)][id]]
          BY <1>0, <3>2 DEF Abstract!Drop, Abstract!Restrict
        <4>4. CASE x[1] = Me(t)
          BY <4>1, <4>2, <4>3, <4>4
        <4>5. CASE x[1] # Me(t)
          BY <1>0, <3>2, <4>1, <4>2, <4>5
        <4> QED
          BY <4>4, <4>5
      <3> QED
        BY <3>1, <3>2, QuietSteps
    <2>2. x = <<x[1], x[2]>> /\ AckedFits(x[1], x[2])
      BY <2>1 DEF AckedInPlace
    <2>3. files'[x[1]][x[2]] \in DOMAIN blocks'
      BY <2>1, <2>2, LiveNext DEF AckedFits
    <2>4. blocks'[files'[x[1]][x[2]]] = acked'[<<x[1], x[2]>>]
      BY <1>3, <2>1, <2>2, <2>3 DEF Kept, AckedFits
    <2>5. Unwritten(files[x[1]][x[2]])'
      BY <1>1, <1>2, <2>1, <2>2 DEF AckedFits, Unwritten
    <2> QED
      BY <2>1, <2>2, <2>4, <2>5 DEF AckedFits
  <1> QED
    BY <1>1, <1>4, <1>6 DEF AloneInPlace, AckedInPlace

\* A file that is opened for writing is at a path that is acknowledged no more.
LEMMA OpeningKeepsAcked ==
    ASSUME Types, AloneInPlace, AckedInPlace, Types',
           NEW t \in Threads, Step(t), CreateOpen(t) \/ UpdateOpen(t)
    PROVE  AloneInPlace' /\ AckedInPlace'
  <1>0. Typed /\ DOMAIN files = Entities
    BY DEF Types, ThreadsInPlace, DiskInPlace
  <1>1. PICK id \in Nat : OpenForWriting(t, id) /\ pc[t] \in {"ensured", "scanned"}
    BY WritersOpen DEF Types
  <1>2. Me(t) \in Entities /\ file[t] = NoInode
    BY <1>1, CallersAreKnown DEF Types, ThreadsInPlace, LocalsFit
  <1>3. PICK n \in Nat : Opens(t, id, <<EntityFilePath(Me(t), id), n>>)
    BY <1>0, <1>1, <1>2, Opening DEF Types
  <1>4. PICK inode : inode = <<EntityFilePath(Me(t), id), n>>
    OBVIOUS
  <1>5. /\ EmptiesOnly(inode)
        /\ file'[t] = inode /\ pc'[t] = "writing"
        /\ files' = [files EXCEPT ![Me(t)] = Abstract!Put(@, id, inode)]
        /\ acked' = Abstract!Drop(acked, <<Me(t), id>>)
        /\ alone' = LET others == {u \in Threads : pc[u] = "writing" /\ file[u] = inode}
                    IN  (alone \cup (IF others = {} THEN {t} ELSE {})) \ others
    <2>1. EmptiesOnly(<<EntityFilePath(Me(t), id), n>>)
      BY <1>2, <1>3, OpeningEmpties, Zenon
    <2>2. EntityFilePath(Me(t), id) = <<Me(t), id>>
      BY DEF EntityFilePath
    <2>3. acked' = Abstract!Drop(acked, <<Me(t), id>>) /\ pc'[t] = "writing"
      BY <1>0, <1>1, <2>2 DEF OpenForWriting, Typed
    <2> QED
      BY <1>0, <1>3, <1>4, <2>1, <2>3 DEF Opens, Typed
  <1>6. \A u \in Threads \ {t} : pc'[u] = pc[u] /\ file'[u] = file[u]
    BY <1>0, OnlyOneMoves DEF Still
  <1>7. pc[t] # "writing" /\ inode \in DOMAIN blocks'
    BY <1>1, <1>5, LiveNext
  <1>8. ASSUME NEW u \in alone' PROVE u \in Threads /\ AloneFits(u)'
    <2>1. CASE u = t
      <3>1. \A v \in Threads : ~(pc[v] = "writing" /\ file[v] = inode)
        <4>1. t \notin alone
          BY <1>7 DEF AloneInPlace, AloneFits
        <4> QED
          BY <1>5, <1>8, <2>1, <4>1
      <3>2. blocks'[inode] = <<>>
        BY <1>5, <1>7 DEF EmptiesOnly
      <3> QED
        BY <1>5, <1>6, <2>1, <3>1, <3>2 DEF AloneFits
    <2>2. CASE u # t
      <3>1. u \in alone /\ AloneFits(u) /\ file[u] # inode /\ u \in Threads
        BY <1>5, <1>8, <2>2 DEF AloneInPlace, AloneFits
      <3>2. pc'[u] = "writing" /\ file'[u] = file[u]
        BY <1>6, <2>2, <3>1 DEF AloneFits
      <3>3. blocks'[file'[u]] = blocks[file[u]]
        BY <1>5, <3>1, <3>2, LiveNext DEF EmptiesOnly
      <3> QED
        BY <1>5, <1>6, <2>2, <3>1, <3>2, <3>3 DEF AloneFits
    <2> QED
      BY <2>1, <2>2
  <1>9. ASSUME NEW x \in DOMAIN acked' PROVE x = <<x[1], x[2]>> /\ AckedFits(x[1], x[2])'
    <2>1. x \in DOMAIN acked /\ x # <<Me(t), id>> /\ acked'[x] = acked[x]
      BY <1>5, <1>9 DEF Abstract!Drop, Abstract!Restrict
    <2>2. x = <<x[1], x[2]>> /\ AckedFits(x[1], x[2])
      BY <2>1 DEF AckedInPlace
    <2>3. x[2] \in DOMAIN files'[x[1]] /\ files'[x[1]][x[2]] = files[x[1]][x[2]]
      <3>1. CASE x[1] = Me(t)
        <4>1. files'[x[1]] = Abstract!Put(files[x[1]], id, inode) /\ x[2] # id
          BY <1>0, <1>2, <1>5, <2>1, <2>2, <3>1
        <4> QED
          BY <2>2, <4>1 DEF Abstract!Put, AckedFits
      <3>2. CASE x[1] # Me(t)
        BY <1>0, <1>5, <2>2, <3>2 DEF AckedFits
      <3> QED
        BY <3>1, <3>2
    <2>4. PICK k \in Nat : files[x[1]][x[2]] = <<EntityFilePath(x[1], x[2]), k>>
      BY <2>2 DEF AckedFits, Types, DiskInPlace
    <2>5. files[x[1]][x[2]] # inode
      BY <1>4, <2>1, <2>2, <2>4 DEF EntityFilePath
    <2>6. files'[x[1]][x[2]] \in DOMAIN blocks'
      BY <2>2, <2>3, LiveNext DEF AckedFits
    <2>7. blocks'[files'[x[1]][x[2]]] = acked'[<<x[1], x[2]>>]
      BY <1>5, <2>1, <2>2, <2>3, <2>5, <2>6 DEF EmptiesOnly, AckedFits
    <2>8. Unwritten(files[x[1]][x[2]])'
      BY <1>5, <1>6, <2>2, <2>3, <2>5 DEF AckedFits, Unwritten
    <2> QED
      BY <2>2, <2>3, <2>7, <2>8 DEF AckedFits
  <1> QED
    BY <1>8, <1>9 DEF AloneInPlace, AckedInPlace

\* A body written to an empty file is what the file holds.
LEMMA WrittenWhole ==
    ASSUME NEW e \in Entities, NEW body \in BodiesOf[e]
    PROVE  Written(<<>>, body, Len(body)) = body
  <1>1. body \in Seq(Blocks)
    BY BodiesAssumption
  <1>2. SubSeq(body, 1, Len(body)) = body
    BY <1>1
  <1>3. SubSeq(<<>>, Len(body) + 1, Len(<<>>)) = <<>>
    BY <1>1
  <1>4. Written(<<>>, body, Len(body)) = body \o <<>>
    BY <1>2, <1>3, Zenon DEF Written
  <1>5. body \o <<>> = body
    BY <1>1
  <1> QED
    BY <1>4, <1>5

\* A write leaves the objects that others acknowledged, and the writers that are
\* alone.
LEMMA WritingKeepsAcked ==
    ASSUME Types, AloneInPlace, AckedInPlace, Types',
           NEW t \in Threads, Step(t), NEW n, WriteAndClose(t, n),
           pc[t] = "writing", pc'[t] = "replied"
    PROVE  /\ AloneInPlace'
           /\ \A x \in DOMAIN acked :
                 /\ x[2] \in DOMAIN files'[x[1]]
                 /\ blocks'[files'[x[1]][x[2]]] = acked[x]
                 /\ Unwritten(files[x[1]][x[2]])'
  <1>0. Typed
    BY DEF Types, ThreadsInPlace
  <1>1. files' = files /\ alone' = alone \ {t}
    BY DEF WriteAndClose
  <1>2. \A u \in Threads \ {t} : pc'[u] = pc[u] /\ file'[u] = file[u]
    BY <1>0, OnlyOneMoves DEF Still
  <1>3. \A i \in DOMAIN blocks' : i # file[t] => blocks'[i] = blocks[i]
    BY WritingChangesOne
  <1>4. ASSUME NEW u \in alone' PROVE u \in Threads /\ AloneFits(u)'
    <2>1. u \in Threads /\ u # t /\ AloneFits(u) /\ file[u] # file[t]
      BY <1>1, <1>4 DEF AloneInPlace, AloneFits
    <2>2. blocks'[file'[u]] = blocks[file[u]]
      BY <1>2, <1>3, <2>1, LiveNext DEF AloneFits
    <2> QED
      BY <1>2, <2>1, <2>2 DEF AloneFits
  <1>5. ASSUME NEW x \in DOMAIN acked
        PROVE  /\ x[2] \in DOMAIN files'[x[1]]
               /\ blocks'[files'[x[1]][x[2]]] = acked[x]
               /\ Unwritten(files[x[1]][x[2]])'
    <2>1. x = <<x[1], x[2]>> /\ AckedFits(x[1], x[2])
      BY DEF AckedInPlace
    <2>2. files[x[1]][x[2]] # file[t] /\ files'[x[1]][x[2]] \in DOMAIN blocks'
      BY <1>1, <2>1, LiveNext DEF AckedFits, Unwritten
    <2>3. blocks'[files'[x[1]][x[2]]] = acked[x]
      BY <1>1, <1>3, <2>1, <2>2 DEF AckedFits
    <2>4. Unwritten(files[x[1]][x[2]])'
      BY <1>1, <1>2, <2>1 DEF AckedFits, Unwritten
    <2> QED
      BY <1>1, <2>1, <2>3, <2>4 DEF AckedFits
  <1> QED
    BY <1>4, <1>5 DEF AloneInPlace

LEMMA AckedStays ==
    ASSUME Types, AloneInPlace, AckedInPlace, Types', NEW t \in Threads, Step(t)
    PROVE  AloneInPlace' /\ AckedInPlace'
  <1>0. Typed
    BY DEF Types, ThreadsInPlace
  <1>1. CASE ~Writes(t)
    BY <1>1, QuietKeepsAcked
  <1>2. CASE CreateOpen(t) \/ UpdateOpen(t)
    BY <1>2, OpeningKeepsAcked
  <1>3. CASE WriteFails(t)
    <2>1. PICK n : WriteAndClose(t, n)
      BY <1>3 DEF WriteFails
    <2>2. pc[t] = "writing" /\ pc'[t] = "replied" /\ acked' = acked
      BY <1>0, <1>3 DEF WriteFails, Finish, Typed
    <2> QED
      BY <2>1, <2>2, WritingKeepsAcked DEF AckedInPlace, AckedFits, WriteAndClose
  <1>4. CASE Write(t)
    <2>1. /\ WriteAndClose(t, Len(request[t].data))
          /\ pc[t] = "writing" /\ pc'[t] = "replied"
          /\ acked' = IF t \in alone /\ StillNamed(t)
                      THEN Abstract!Put(acked, <<Me(t), file_id[t]>>, request[t].data)
                      ELSE acked
      BY <1>0, <1>4 DEF Write, Finish, Typed
    <2>2. /\ AloneInPlace'
          /\ \A x \in DOMAIN acked :
                /\ x[2] \in DOMAIN files'[x[1]]
                /\ blocks'[files'[x[1]][x[2]]] = acked[x]
                /\ Unwritten(files[x[1]][x[2]])'
      BY <2>1, WritingKeepsAcked
    <2>3. \A x \in DOMAIN acked : x = <<x[1], x[2]>> /\ x[1] \in Entities
      BY DEF AckedInPlace, AckedFits
    <2>4. CASE ~(t \in alone /\ StillNamed(t))
      BY <2>1, <2>2, <2>3, <2>4 DEF AckedInPlace, AckedFits
    <2>5. CASE t \in alone /\ StillNamed(t)
      <3>1. PICK id : id = file_id[t]
        OBVIOUS
      <3>2. Me(t) \in Entities /\ request[t].data \in BodiesOf[Me(t)]
        BY <2>1, CallersAreKnown DEF Types, ThreadsInPlace, RequestFits
      <3>3. id \in DOMAIN files[Me(t)] /\ files[Me(t)][id] = file[t] /\ files' = files
        BY <2>1, <2>5, <3>1 DEF StillNamed, WriteAndClose
      <3>4. blocks[file[t]] = <<>>
        BY <2>5 DEF AloneInPlace, AloneFits
      <3>5. file[t] \in DOMAIN blocks'
        BY <3>2, <3>3, LiveNext
      <3>6. blocks'[file[t]] = request[t].data
        BY <2>1, <3>2, <3>4, <3>5, WritingChangesOne, WrittenWhole
      <3>7. Unwritten(files[Me(t)][id])'
        <4>1. \A u \in Threads \ {t} : pc'[u] = pc[u] /\ file'[u] = file[u]
          BY <1>0, OnlyOneMoves DEF Still
        <4>2. \A u \in Threads \ {t} : pc[u] = "writing" => file[u] # file[t]
          BY <2>5 DEF AloneInPlace, AloneFits
        <4>3. request' = request
          BY <1>4 DEF Write, Finish
        <4> QED
          BY <2>1, <3>3, <4>1, <4>2, <4>3 DEF Unwritten, Me
      <3>8. request' = request
        BY <1>4 DEF Write, Finish
      <3>9. ASSUME NEW x \in DOMAIN acked' PROVE x = <<x[1], x[2]>> /\ AckedFits(x[1], x[2])'
        <4>1. CASE x = <<Me(t), id>>
          <5>1. x[1] = Me(t) /\ x[2] = id /\ acked'[x] = request[t].data
            BY <2>1, <2>5, <3>1, <4>1 DEF Abstract!Put
          <5>2. Unwritten(files[x[1]][x[2]])'
            BY <3>7, <3>8, <5>1 DEF Me, Unwritten
          <5> QED
            BY <3>2, <3>3, <3>6, <4>1, <5>1, <5>2 DEF AckedFits
        <4>2. CASE x # <<Me(t), id>>
          <5>1. x \in DOMAIN acked /\ acked'[x] = acked[x]
            BY <2>1, <2>5, <3>1, <3>9, <4>2 DEF Abstract!Put
          <5> QED
            BY <2>2, <2>3, <5>1 DEF AckedFits
        <4> QED
          BY <4>1, <4>2
      <3> QED
        BY <2>2, <3>9 DEF AckedInPlace
    <2> QED
      BY <2>4, <2>5
  <1> QED
    BY <1>1, <1>2, <1>3, <1>4 DEF Writes

LEMMA CrashKeepsAcked ==
    ASSUME Types, AckedInPlace, Types', Died
    PROVE  AloneInPlace' /\ AckedInPlace'
  <1>1. /\ alone' = {} /\ acked' = acked /\ files' = files
        /\ \A t \in Threads : pc'[t] = "idle"
    BY WhoDiedDies DEF Dies
  <1>2. Kept
    BY CrashKeepsBlocks
  <1>3. ASSUME NEW x \in DOMAIN acked PROVE AckedFits(x[1], x[2])'
    <2>1. x = <<x[1], x[2]>> /\ AckedFits(x[1], x[2])
      BY DEF AckedInPlace
    <2>2. files'[x[1]][x[2]] \in DOMAIN blocks'
      BY <1>1, <2>1, LiveNext DEF AckedFits
    <2>3. Unwritten(files[x[1]][x[2]])'
      BY <1>1 DEF Unwritten
    <2> QED
      BY <1>1, <1>2, <2>1, <2>2, <2>3 DEF AckedFits, Kept
  <1> QED
    BY <1>1, <1>3 DEF AloneInPlace, AckedInPlace

LEMMA UnchangedKeepsAcked ==
    ASSUME AloneInPlace, AckedInPlace, UNCHANGED vars
    PROVE  AloneInPlace' /\ AckedInPlace'
  BY DEF vars, disk, locals, ghosts, AloneInPlace, AloneFits, AckedInPlace, AckedFits,
         Unwritten

--------------------------------------------------------------------------------
(* Answers and the directory                                                  *)

\* What existed all along is there, what is there has been seen.
Watching(t) ==
    /\ existed[t] \subseteq DOMAIN files[Me(t)]
    /\ DOMAIN files[Me(t)] \subseteq seen[t]

AnswerFits(t) ==
    pc[t] = "replied" /\ Valid(t) /\ faults = 0 =>
        /\ request[t].op \in {"read", "delete"} =>
               /\ reply[t].ok => request[t].id \in seen[t]
               /\ ~reply[t].ok => request[t].id \notin existed[t]
        /\ request[t].op = "list" =>
               existed[t] \subseteq reply[t].ids /\ reply[t].ids \subseteq seen[t]

\* What a thread has read of its directory, and what it has yet to come to.
ScanFits(t) ==
    /\ existed[t] \subseteq ids[t] \cup coming[t]
    /\ ids[t] \cup coming[t] \subseteq seen[t]

ObserverFits(t) ==
    /\ pc[t] # "idle" => Watching(t)
    /\ pc[t] = "scanning" => ScanFits(t)
    /\ pc[t] = "scanned" => existed[t] \subseteq ids[t]
    /\ pc[t] = "reading" => request[t].id \in seen[t]
    /\ AnswerFits(t)

KeepsWatching(u) ==
    /\ existed'[u] \subseteq existed[u] /\ seen[u] \subseteq seen'[u]
    /\ existed'[u] \subseteq DOMAIN files'[Me(u)]
    /\ DOMAIN files'[Me(u)] \subseteq seen'[u]

\* Whoever moves, a thread that is in a call keeps watching.
LEMMA WatchersStay ==
    ASSUME Types, NEW t \in Threads, Step(t), NEW u \in Threads,
           pc[u] # "idle", pc'[u] # "idle", Watching(u)
    PROVE  KeepsWatching(u)
  <1>0. Typed /\ DOMAIN files = Entities /\ Me(u) \in Entities
    BY CallersAreKnown DEF Types, ThreadsInPlace, DiskInPlace
  <1>1. ASSUME files' = files, existed'[u] = existed[u], seen'[u] = seen[u]
        PROVE  KeepsWatching(u)
    BY <1>1 DEF Watching, KeepsWatching
  <1>2. CASE \/ Reject(t) \/ Fail(t) \/ EnsureEntityDirectory(t)
             \/ ReadOpen(t) \/ ReadBlock(t) \/ ReadEnd(t)
    <2>1. files' = files /\ existed' = existed /\ seen' = seen
      BY <1>2 DEF Reject, Fail, EnsureEntityDirectory, ReadOpen, ReadBlock, ReadEnd,
                  disk, ghosts
    <2> QED
      BY <1>1, <2>1
  <1>3. CASE Write(t) \/ WriteFails(t)
    <2>1. files' = files /\ existed' = existed /\ seen' = seen
      BY <1>3 DEF Write, WriteFails, WriteAndClose
    <2> QED
      BY <1>1, <2>1
  <1>4. CASE \E req \in Abstract!Requests : Call(t, req)
    <2>1. files' = files /\ existed'[u] = existed[u] /\ seen'[u] = seen[u]
      BY <1>0, <1>4 DEF Call, Typed, disk
    <2> QED
      BY <1>1, <2>1
  <1>5. CASE Return(t)
    <2>1. files' = files /\ existed'[u] = existed[u] /\ seen'[u] = seen[u]
      BY <1>0, <1>5 DEF Return, Typed, disk
    <2> QED
      BY <1>1, <2>1
  <1>6. CASE CreateOpen(t) \/ UpdateOpen(t)
    <2>1. PICK id \in Nat : OpenForWriting(t, id) /\ pc[t] \in {"ensured", "scanned"}
      BY <1>6, WritersOpen DEF Types
    <2>2. Me(t) \in Entities
      BY <2>1, CallersAreKnown DEF Types
    <2>3. PICK n \in Nat : Opens(t, id, <<EntityFilePath(Me(t), id), n>>)
      BY <1>0, <2>1, <2>2, Opening DEF Types
    <2>4. DOMAIN files'[Me(u)] = IF Me(u) = Me(t) THEN DOMAIN files[Me(u)] \cup {id}
                                 ELSE DOMAIN files[Me(u)]
      BY <1>0, <2>3 DEF Opens, Abstract!Put
    <2>5. /\ existed' = existed
          /\ seen'[u] = IF Me(u) = Me(t) THEN seen[u] \cup {id} ELSE seen[u]
      BY <2>1 DEF OpenForWriting, EntityFilePath
    <2> QED
      BY <2>4, <2>5 DEF Watching, KeepsWatching
  <1>7. CASE Delete(t)
    <2>1. /\ files' = [files EXCEPT ![Me(t)] = Abstract!Drop(@, request[t].id)]
          /\ seen' = seen
          /\ existed'[u] = IF Me(u) = Me(t) THEN existed[u] \ {request[t].id}
                           ELSE existed[u]
      BY <1>7 DEF Delete
    <2>2. DOMAIN files'[Me(u)] = IF Me(u) = Me(t)
                                 THEN DOMAIN files[Me(u)] \ {request[t].id}
                                 ELSE DOMAIN files[Me(u)]
      BY <1>0, <2>1 DEF Abstract!Drop, Abstract!Restrict
    <2> QED
      BY <2>1, <2>2 DEF Watching, KeepsWatching
  <1>8. CASE ReadsDirectory(t)
    <2>1. files' = files /\ existed' = existed /\ seen' = seen
      BY <1>0, <1>8, DirectoryIsOnlyRead DEF disk, ghosts
    <2> QED
      BY <1>1, <2>1
  <1> QED
    BY <1>2, <1>3, <1>4, <1>5, <1>6, <1>7, <1>8, Zenon DEF Step, Work, ReadsDirectory

LEMMA OtherObserversStay ==
    ASSUME Types, NEW t \in Threads, Step(t), NEW u \in Threads \ {t}, ObserverFits(u)
    PROVE  ObserverFits(u)'
  <1>1. Still(u)
    BY OnlyOneMoves DEF Types, ThreadsInPlace
  <1>2. faults' = 0 => faults = 0
    BY CountersStay, BoundsAssumption DEF Types, ThreadsInPlace, Counters
  <1>3. pc[u] # "idle" => KeepsWatching(u)
    BY <1>1, WatchersStay DEF Still, ObserverFits
  <1>4. (pc[u] # "idle" => Watching(u))'
    BY <1>1, <1>3 DEF Watching, KeepsWatching, Still, Me
  <1>5. AnswerFits(u)'
    <2>1. Valid(u)' = Valid(u)
      BY <1>1 DEF Still, Valid, Me
    <2>2. SUFFICES ASSUME pc'[u] = "replied", Valid(u)', faults' = 0 PROVE AnswerFits(u)'
      BY DEF AnswerFits
    <2>3. /\ request[u].op \in {"read", "delete"} =>
                 /\ reply[u].ok => request[u].id \in seen[u]
                 /\ ~reply[u].ok => request[u].id \notin existed[u]
          /\ request[u].op = "list" =>
                 existed[u] \subseteq reply[u].ids /\ reply[u].ids \subseteq seen[u]
      BY <1>1, <1>2, <2>1, <2>2 DEF ObserverFits, AnswerFits, Still
    <2> QED
      BY <1>1, <1>3, <2>2, <2>3 DEF AnswerFits, KeepsWatching, Still
  \* An entry that is made is seen, one that is gone has not existed all along.
  <1>6. (pc[u] = "scanning" => ScanFits(u))'
    <2>1. SUFFICES ASSUME pc'[u] = "scanning" PROVE ScanFits(u)'
      OBVIOUS
    <2>2. ScanFits(u) /\ KeepsWatching(u) /\ ids'[u] = ids[u]
      BY <1>1, <1>3, <2>1 DEF ObserverFits, Still
    <2>3. \/ coming'[u] = coming[u]
          \/ \E id : \/ /\ coming'[u] = coming[u] \cup {id}
                       /\ id \in DOMAIN files'[Me(u)]
                    \/ /\ coming'[u] = (coming[u] \ {id})
                       /\ id \notin DOMAIN files'[Me(u)]
      BY OthersEntries DEF Types
    <2>4. /\ existed'[u] \subseteq ids[u] \cup coming[u] /\ ids[u] \cup coming[u] \subseteq seen'[u]
          /\ existed'[u] \subseteq DOMAIN files'[Me(u)] /\ DOMAIN files'[Me(u)] \subseteq seen'[u]
      BY <2>2 DEF ScanFits, KeepsWatching
    <2>5. /\ existed'[u] \subseteq ids[u] \cup coming'[u]
          /\ ids[u] \cup coming'[u] \subseteq seen'[u]
      BY <2>3, <2>4
    <2> QED
      BY <2>2, <2>5 DEF ScanFits
  <1> QED
    BY <1>1, <1>3, <1>4, <1>5, <1>6 DEF ObserverFits, KeepsWatching, Still

LEMMA MoverObserves ==
    ASSUME Types, NEW t \in Threads, Step(t), ObserverFits(t)
    PROVE  ObserverFits(t)'
  <1>0. Typed /\ DOMAIN files = Entities
    BY DEF Types, ThreadsInPlace, DiskInPlace
  <1>1. CASE \E req \in Abstract!Requests : Call(t, req)
    <2>1. PICK req \in Abstract!Requests : Call(t, req)
      BY <1>1
    <2>2. /\ pc'[t] = "called" /\ request'[t] = req /\ files' = files
          /\ existed'[t] = DOMAIN files[req.entity_name]
          /\ seen'[t] = DOMAIN files[req.entity_name]
      BY <1>0, <2>1 DEF Call, Typed, disk
    <2> QED
      BY <2>2 DEF ObserverFits, Watching, AnswerFits, Me
  <1>2. CASE Return(t)
    <2>1. pc'[t] = "idle"
      BY <1>0, <1>2 DEF Return, Typed
    <2> QED
      BY <2>1 DEF ObserverFits, AnswerFits
  <1>3. ASSUME pc[t] # "idle", request' = request, pc'[t] # "idle"
        PROVE  /\ Watching(t)' /\ Watching(t) /\ KeepsWatching(t)
               /\ Valid(t)' = Valid(t)
    <2>1. Watching(t) /\ KeepsWatching(t)
      BY <1>3, WatchersStay DEF ObserverFits
    <2> QED
      BY <1>3, <2>1 DEF Watching, KeepsWatching, Me, Valid
  <1>4. ASSUME pc[t] # "idle", request' = request, pc'[t] \in {"ensured", "writing"}
        PROVE  ObserverFits(t)'
    BY <1>3, <1>4 DEF ObserverFits, AnswerFits
  <1>5. ASSUME pc[t] # "idle", request' = request, pc'[t] = "replied", AnswerFits(t)'
        PROVE  ObserverFits(t)'
    BY <1>3, <1>5 DEF ObserverFits
  <1>6. CASE EnsureEntityDirectory(t)
    <2>1. pc[t] = "called" /\ request' = request /\ pc'[t] = "ensured"
      BY <1>0, <1>6 DEF EnsureEntityDirectory, Typed
    <2> QED
      BY <1>4, <2>1
  <1>7. CASE CreateOpen(t) \/ UpdateOpen(t)
    <2>1. PICK id \in Nat : OpenForWriting(t, id) /\ pc[t] \in {"ensured", "scanned"}
      BY <1>7, WritersOpen DEF Types
    <2>2. request' = request /\ pc'[t] = "writing"
      BY <1>0, <2>1 DEF OpenForWriting, Typed
    <2> QED
      BY <1>4, <2>1, <2>2
  <1>8. CASE OpenDirectory(t) \/ ScanEntry(t) \/ CreateScanned(t)
    <2>1. CASE OpenDirectory(t)
      <3>1. /\ pc[t] \in {"ensured", "found"} /\ request' = request /\ pc'[t] = "scanning"
            /\ existed' = existed /\ seen' = seen
            /\ ids'[t] = {} /\ coming'[t] = DOMAIN files[Me(t)]
        BY <1>0, <2>1 DEF OpenDirectory, At, Typed, ghosts
      <3>2. ScanFits(t)'
        BY <1>3, <3>1 DEF ScanFits, Watching
      <3> QED
        BY <1>3, <3>1, <3>2 DEF ObserverFits, AnswerFits
    <2>2. CASE ScanEntry(t)
      <3>1. /\ pc[t] = "scanning" /\ request' = request /\ pc' = pc
            /\ existed' = existed /\ seen' = seen
            /\ ids'[t] \cup coming'[t] = ids[t] \cup coming[t]
        BY <1>0, <2>2 DEF ScanEntry, Typed, ghosts
      <3>2. ScanFits(t)'
        BY <3>1 DEF ScanFits, ObserverFits
      <3> QED
        BY <1>3, <3>1, <3>2 DEF ObserverFits, AnswerFits
    <2>3. CASE CreateScanned(t)
      <3>1. /\ pc[t] = "scanning" /\ request' = request /\ pc'[t] = "scanned"
            /\ existed' = existed /\ ids' = ids /\ coming[t] = {}
        BY <1>0, <2>3 DEF CreateScanned, At, Typed, ghosts, locals
      <3>2. existed'[t] \subseteq ids'[t]
        BY <3>1 DEF ScanFits, ObserverFits
      <3> QED
        BY <1>3, <3>1, <3>2 DEF ObserverFits, AnswerFits
    <2> QED
      BY <1>8, <2>1, <2>2, <2>3
  <1>9. CASE Write(t) \/ WriteFails(t)
    <2>1. pc[t] = "writing" /\ request' = request /\ pc'[t] = "replied"
      BY <1>0, <1>9 DEF Write, WriteFails, Finish, Typed
    <2>2. request[t].op \in {"create", "update"}
      BY <2>1 DEF Types, ThreadsInPlace, RequestFits
    <2>3. AnswerFits(t)'
      BY <2>1, <2>2 DEF AnswerFits
    <2> QED
      BY <1>5, <2>1, <2>3
  <1>10. CASE Reject(t)
    <2>1. pc[t] = "called" /\ request' = request /\ pc'[t] = "replied" /\ ~Valid(t)
      BY <1>0, <1>10 DEF Reject, Finish, Typed
    <2>2. AnswerFits(t)'
      BY <1>3, <2>1 DEF AnswerFits
    <2> QED
      BY <1>5, <2>1, <2>2
  <1>11. CASE Fail(t)
    <2>1. /\ pc[t] # "idle" /\ request' = request /\ pc'[t] = "replied"
          /\ faults' = faults + 1 /\ faults \in Nat
      BY <1>0, <1>11, BoundsAssumption DEF Fail, Finish, Typed, Types, Counters
    <2>2. AnswerFits(t)'
      BY <2>1 DEF AnswerFits
    <2> QED
      BY <1>5, <2>1, <2>2
  <1>12. CASE ReadOpen(t)
    <2>1. /\ pc[t] = "called" /\ request[t].op = "read" /\ request' = request
          /\ existed' = existed /\ seen' = seen
          /\ \/ /\ request[t].id \notin DOMAIN files[Me(t)]
                /\ pc'[t] = "replied" /\ reply'[t] = [ok |-> FALSE]
             \/ request[t].id \in DOMAIN files[Me(t)] /\ pc'[t] = "reading"
      BY <1>0, <1>12 DEF ReadOpen, At, Finish, Typed, ghosts
    <2>2. CASE /\ request[t].id \notin DOMAIN files[Me(t)]
               /\ pc'[t] = "replied" /\ reply'[t] = [ok |-> FALSE]
      <3>1. AnswerFits(t)'
        BY <1>3, <2>1, <2>2 DEF AnswerFits, Watching
      <3> QED
        BY <1>5, <2>1, <2>2, <3>1
    <2>3. CASE request[t].id \in DOMAIN files[Me(t)] /\ pc'[t] = "reading"
      BY <1>3, <2>1, <2>3 DEF ObserverFits, AnswerFits, Watching
    <2> QED
      BY <2>1, <2>2, <2>3
  <1>13. CASE ReadBlock(t)
    <2>1. /\ pc[t] = "reading" /\ request' = request /\ pc' = pc /\ seen' = seen
      BY <1>0, <1>13 DEF ReadBlock, ghosts
    <2> QED
      BY <1>3, <2>1 DEF ObserverFits, AnswerFits
  <1>14. CASE ReadEnd(t)
    <2>1. /\ pc[t] = "reading" /\ request' = request /\ pc'[t] = "replied" /\ seen' = seen
          /\ reply'[t] = [ok |-> TRUE, out_data |-> data[t]]
      BY <1>0, <1>14 DEF ReadEnd, Finish, Typed, ghosts
    <2>2. request[t].op = "read"
      BY <2>1 DEF Types, ThreadsInPlace, RequestFits
    <2>3. AnswerFits(t)'
      BY <2>1, <2>2 DEF AnswerFits, ObserverFits
    <2> QED
      BY <1>5, <2>1, <2>3
  <1>15. CASE Delete(t)
    <2>1. /\ pc[t] = "called" /\ request[t].op = "delete" /\ request' = request
          /\ pc'[t] = "replied" /\ seen' = seen
          /\ reply'[t] = [ok |-> Removes(files[Me(t)], request[t].id)]
      BY <1>0, <1>15 DEF Delete, At, Finish, Typed
    <2>2. reply'[t].ok <=> request[t].id \in DOMAIN files[Me(t)]
      <3>1. \A removed : [ok |-> removed].ok = removed
        OBVIOUS
      <3>2. reply'[t].ok = Removes(files[Me(t)], request[t].id)
        BY <2>1, <3>1
      <3> QED
        BY <3>2, Zenon DEF Removes
    <2>3. /\ request[t].id \in DOMAIN files[Me(t)] => request[t].id \in seen'[t]
          /\ request[t].id \notin DOMAIN files[Me(t)] => request[t].id \notin existed'[t]
      BY <1>3, <2>1 DEF Watching, KeepsWatching
    <2>4. AnswerFits(t)'
      BY <2>1, <2>2, <2>3 DEF AnswerFits
    <2> QED
      BY <1>5, <2>1, <2>4
  <1>16. CASE ListExists(t)
    <2>1. /\ pc[t] = "called" /\ request[t].op = "list" /\ request' = request
          /\ seen' = seen /\ existed' = existed
          /\ \/ /\ Me(t) \notin dirs
                /\ pc'[t] = "replied" /\ reply'[t] = [ids |-> {}]
             \/ pc'[t] = "found"
      BY <1>0, <1>16 DEF ListExists, At, Finish, Typed, ghosts
    <2>2. CASE /\ Me(t) \notin dirs
               /\ pc'[t] = "replied" /\ reply'[t] = [ids |-> {}]
      <3>1. DOMAIN files[Me(t)] = {}
        BY <2>1, <2>2, CallersAreKnown DEF Types, DiskInPlace
      <3>2. reply'[t].ids = {}
        BY <2>2
      <3>3. AnswerFits(t)'
        BY <1>3, <2>1, <2>2, <3>1, <3>2 DEF AnswerFits, Watching
      <3> QED
        BY <1>5, <2>1, <2>2, <3>3
    <2>3. CASE pc'[t] = "found"
      BY <1>3, <2>1, <2>3 DEF ObserverFits, AnswerFits
    <2> QED
      BY <2>1, <2>2, <2>3
  <1>17. CASE ListEnd(t)
    <2>1. /\ pc[t] = "scanning" /\ request[t].op = "list" /\ request' = request
          /\ coming[t] = {} /\ seen' = seen /\ existed' = existed
          /\ pc'[t] = "replied" /\ reply'[t] = [ids |-> ids[t]]
      BY <1>0, <1>17 DEF ListEnd, At, Finish, Typed, ghosts
    <2>2. reply'[t].ids = ids[t]
      BY <2>1
    <2>3. existed[t] \subseteq ids[t] /\ ids[t] \subseteq seen[t]
      BY <2>1 DEF ScanFits, ObserverFits
    <2>4. AnswerFits(t)'
      BY <2>1, <2>2, <2>3 DEF AnswerFits
    <2> QED
      BY <1>5, <2>1, <2>4
  <1> QED
    BY <1>1, <1>2, <1>6, <1>7, <1>8, <1>9, <1>10, <1>11, <1>12, <1>13, <1>14, <1>15,
       <1>16, <1>17, Zenon
    DEF Step, Work

LEMMA IdleObserves == ASSUME NEW t, pc'[t] = "idle" PROVE ObserverFits(t)'
  BY DEF ObserverFits, AnswerFits

LEMMA UnchangedObserves ==
    ASSUME NEW t \in Threads, UNCHANGED vars, ObserverFits(t) PROVE ObserverFits(t)'
  BY DEF vars, disk, locals, ghosts, ObserverFits, AnswerFits, Watching, ScanFits, Valid, Me

--------------------------------------------------------------------------------
(* The theorems                                                               *)

\* The inductive invariant.  What files hold, what readers have read of them,
\* what was acknowledged, who writes alone and what observers have seen are of
\* use only together with where each thread is and what it has open.
IInv ==
    /\ Types
    /\ OwnContent /\ OwnReads
    /\ AloneInPlace /\ AckedInPlace
    /\ \A t \in Threads : ObserverFits(t)

LEMMA IInvInit == Init => IInv
  <1> SUFFICES ASSUME Init PROVE IInv
    OBVIOUS
  <1>1. OwnContent
    <2>1. DOMAIN blocks = {}
      BY DEF Init, NoMap
    <2> QED
      BY <2>1 DEF OwnContent
  <1>2. OwnReads
    BY DEF Init, OwnReads, ReadsFit, At
  <1>3. AloneInPlace /\ AckedInPlace
    <2>1. DOMAIN acked = {} /\ alone = {}
      BY DEF Init, NoMap
    <2> QED
      BY <2>1 DEF AloneInPlace, AckedInPlace
  <1>4. \A t \in Threads : ObserverFits(t)
    BY DEF Init, ObserverFits, AnswerFits
  <1> QED
    BY <1>1, <1>2, <1>3, <1>4, TypesInit DEF IInv

LEMMA IInvStays == IInv /\ [Next]_vars => IInv'
  <1> SUFFICES ASSUME IInv, [Next]_vars PROVE IInv'
    OBVIOUS
  <1>1. Types'
    BY TypesStay DEF IInv
  <1>2. ASSUME NEW t \in Threads, Step(t) PROVE IInv'
    <2>1. OwnContent'
      BY <1>2, ContentStays DEF IInv
    <2>2. ASSUME NEW u \in Threads PROVE ReadsFit(u)'
      <3>1. CASE u = t
        BY <1>2, <3>1, MoverReads DEF IInv, OwnReads
      <3>2. CASE u # t
        <4>1. Still(u)
          BY <1>2, <3>2, OnlyOneMoves DEF IInv, Types, ThreadsInPlace
        <4> QED
          BY <4>1, OthersReadsStay DEF IInv, OwnReads
      <3> QED
        BY <3>1, <3>2
    <2>3. AloneInPlace' /\ AckedInPlace'
      BY <1>1, <1>2, AckedStays DEF IInv
    <2>4. ASSUME NEW u \in Threads PROVE ObserverFits(u)'
      <3>1. CASE u = t
        BY <1>2, <3>1, MoverObserves DEF IInv
      <3>2. CASE u # t
        BY <1>2, <3>2, OtherObserversStay DEF IInv
      <3> QED
        BY <3>1, <3>2
    <2> QED
      BY <1>1, <2>1, <2>2, <2>3, <2>4 DEF IInv, OwnReads
  <1>3. CASE Died
    <2>1. \A t \in Threads : pc'[t] = "idle" /\ data'[t] = <<>>
      BY <1>3, WhoDiedDies DEF Dies
    <2>2. OwnReads'
      BY <2>1 DEF OwnReads, ReadsFit, At
    <2>3. OwnContent'
      BY <1>3, ContentStaysWhenNobodyWrites DEF IInv
    <2>4. AloneInPlace' /\ AckedInPlace'
      BY <1>1, <1>3, CrashKeepsAcked DEF IInv
    <2>5. \A t \in Threads : ObserverFits(t)'
      BY <2>1, IdleObserves
    <2> QED
      BY <1>1, <2>2, <2>3, <2>4, <2>5 DEF IInv
  <1>4. CASE UNCHANGED vars
    <2>1. ASSUME NEW t \in Threads PROVE ReadsFit(t)'
      <3>1. Still(t)
        BY <1>4 DEF vars, locals, Still
      <3> QED
        BY <3>1, OthersReadsStay DEF IInv, OwnReads
    <2>2. OwnContent'
      BY <1>4, ContentStaysWhenNobodyWrites DEF IInv
    <2>3. AloneInPlace' /\ AckedInPlace'
      BY <1>4, UnchangedKeepsAcked DEF IInv
    <2>4. \A t \in Threads : ObserverFits(t)'
      BY <1>4, UnchangedObserves DEF IInv
    <2> QED
      BY <1>1, <2>1, <2>2, <2>3, <2>4 DEF IInv, OwnReads
  <1> QED
    BY <1>2, <1>3, <1>4, NextMeans

LEMMA Invariant == Spec => []IInv
  BY IInvInit, IInvStays, PTL DEF Spec

\* The directory and the streams of EntityStorePersistent stay in step: a file
\* is only where EnsureEntityDirectory has been and is named for its path, a
\* stream is open exactly while its thread reads or writes, and no inode is kept
\* that nothing names and no stream is open on, for any number of threads,
\* whatever system calls fail and whenever the process dies.
THEOREM TypeCorrect == Spec => []TypeOK
  <1>1. IInv => TypeOK
    BY TypesGiveTypeOK DEF IInv
  <1> QED
    BY <1>1, Invariant, PTL

\* EntityStorePersistent::Read answers with blocks that were submitted to Create
\* or Update for that very entity, each at its place in a body, however many
\* writers truncate and overwrite the file while it is read.
THEOREM ReadsAreOwn == Spec => []ReadsOnlyOwnBlocks
  <1>1. IInv => ReadsOnlyOwnBlocks
    BY DEF IInv, OwnReads, ReadsFit, Texts, ReadsOnlyOwnBlocks
  <1> QED
    BY <1>1, Invariant, PTL

\* A Create or Update answered with success that no other write of the same
\* object overlapped is on the disk whole, until the object is written again or
\* deleted: other calls, failing system calls and the death of the process leave
\* it alone.
THEOREM AcksAreDurable == Spec => []AckedDataSurvives
  <1>1. IInv => AckedDataSurvives
    BY DEF IInv, AckedInPlace, AckedFits, Stored, AckedDataSurvives
  <1> QED
    BY <1>1, Invariant, PTL

\* Read, Delete and List of EntityStorePersistent, none of which locks the
\* directory, answer what was true of it during the call, however many threads
\* change it meanwhile, as long as no system call fails: Read and Delete what was
\* true at some moment, and List, whose directory_iterator comes to one entry
\* after another, every object that was there all along and none that never was.
THEOREM AnswersAreTrue == Spec => []AnswersReflectDirectory
  <1>1. ASSUME IInv, NEW t \in Threads,
               pc[t] = "replied" /\ Valid(t) /\ faults = 0
        PROVE  CASE request[t].op \in {"read", "delete"} ->
                        /\ reply[t].ok => request[t].id \in seen[t]
                        /\ ~reply[t].ok => request[t].id \notin existed[t]
                 [] request[t].op = "list" ->
                        existed[t] \subseteq reply[t].ids
                            /\ reply[t].ids \subseteq seen[t]
                 [] OTHER -> TRUE
    <2>1. /\ request[t].op \in {"read", "delete"} =>
                 /\ reply[t].ok => request[t].id \in seen[t]
                 /\ ~reply[t].ok => request[t].id \notin existed[t]
          /\ request[t].op = "list" =>
                 existed[t] \subseteq reply[t].ids /\ reply[t].ids \subseteq seen[t]
      BY <1>1 DEF IInv, ObserverFits, AnswerFits
    <2>2. ~(request[t].op \in {"read", "delete"} /\ request[t].op = "list")
      OBVIOUS
    <2>3. CASE request[t].op \in {"read", "delete"}
      BY <2>1, <2>2, <2>3, Zenon
    <2>4. CASE request[t].op = "list"
      BY <2>1, <2>2, <2>4, Zenon
    <2>5. CASE request[t].op \notin {"read", "delete"} /\ request[t].op # "list"
      BY <2>5, Zenon
    <2> QED
      BY <2>3, <2>4, <2>5, Zenon
  <1>2. IInv => AnswersReflectDirectory
    BY <1>1, Zenon DEF AnswersReflectDirectory
  <1> QED
    BY <1>2, Invariant, PTL

\* EntityStorePersistent::Create reads the directory entry by entry and opens the
\* file in a later step, yet never truncates an object that was there before the call and has
\* been there since, whatever holes the ids have.
THEOREM CreateTakesNewIds == Spec => CreateSparesExisting
  <1>1. ASSUME IInv, [Next]_vars, NEW t \in Threads,
               At(t, "scanned", "create") /\ pc'[t] = "writing"
        PROVE  file_id'[t] \notin existed[t]
    <2>1. Typed /\ existed[t] \subseteq ids[t]
      BY <1>1 DEF IInv, Types, ThreadsInPlace, ObserverFits, At
    <2>2. Step(t)
      <3>1. pc'[t] # pc[t]
        BY <1>1 DEF At
      <3>2. CASE \E u \in Threads : Step(u)
        <4>1. PICK u \in Threads : Step(u)
          BY <3>2
        <4>2. u = t
          BY <2>1, <3>1, <4>1, OnlyOneMoves DEF Still
        <4> QED
          BY <4>1, <4>2
      <3>3. CASE Died
        BY <1>1, <3>3, WhoDiedDies DEF Dies
      <3>4. CASE UNCHANGED vars
        BY <3>1, <3>4 DEF vars
      <3> QED
        BY <1>1, <3>2, <3>3, <3>4, NextMeans
    <2>3. CreateOpen(t)
      <3>1. pc[t] = "scanned" /\ request[t].op = "create" /\ pc'[t] = "writing"
        BY <1>1 DEF At
      <3>2. CASE \E req \in Abstract!Requests : Call(t, req)
        BY <3>1, <3>2 DEF Call
      <3>3. CASE Work(t)
        <4>1. ~Fail(t) /\ ~Return(t) /\ ~Reject(t)
          BY <2>1, <3>1 DEF Fail, Reject, Return, Finish, Typed
        <4>2. ~EnsureEntityDirectory(t) /\ ~ReadsDirectory(t) /\ ~UpdateOpen(t)
          BY <2>1, <3>1, DirectoryIsOnlyRead DEF EnsureEntityDirectory, UpdateOpen, At
        <4>3. ~Write(t) /\ ~WriteFails(t) /\ ~ReadOpen(t) /\ ~ReadBlock(t) /\ ~ReadEnd(t)
          BY <3>1 DEF Write, WriteFails, ReadOpen, ReadBlock, ReadEnd, At
        <4>4. ~Delete(t)
          BY <3>1 DEF Delete, At
        <4> QED
          BY <3>3, <4>1, <4>2, <4>3, <4>4, Zenon DEF Work, ReadsDirectory
      <3> QED
        BY <2>2, <3>2, <3>3 DEF Step
    <2>4. PICK id \in Nat : OpenForWriting(t, id) /\ id \notin ids[t]
      BY <1>1, <2>3, WritersOpen DEF IInv, Types
    <2>5. file_id'[t] = id
      BY <2>1, <2>4 DEF OpenForWriting, Typed
    <2> QED
      BY <2>1, <2>4, <2>5
  <1>2. IInv /\ [Next]_vars =>
            [\A t \in Threads :
                At(t, "scanned", "create") /\ pc'[t] = "writing" =>
                    file_id'[t] \notin existed[t]]_vars
    BY <1>1
  <1> QED
    BY <1>2, Invariant, PTL DEF Spec, CreateSparesExisting

--------------------------------------------------------------------------------
(* Calls that do not overlap                                                  *)

CallsDoNotOverlap ==
    \A t, u \in Threads : pc[t] # "idle" /\ pc[u] # "idle" => t = u

\* What a call knows of the disk while no other one runs: the ids it has read and
\* those it has yet to read are still those in use, the file it writes is still at its path and empty, and
\* what it has read is still how the file it reads begins.
SerialFits(t) ==
    /\ pc[t] = "scanning" => ids[t] \cup coming[t] = DOMAIN files[Me(t)]
    /\ pc[t] = "scanned" => ids[t] = DOMAIN files[Me(t)]
    /\ pc[t] = "writing" =>
           /\ StillNamed(t)
           /\ blocks[file[t]] = <<>>
           /\ request[t].op = "update" => file_id[t] = request[t].id
           /\ request[t].op = "create" => before[t] = {}
    /\ pc[t] = "reading" =>
           /\ request[t].id \in DOMAIN files[Me(t)]
           /\ file[t] = files[Me(t)][request[t].id]
           /\ Len(data[t]) <= Len(blocks[file[t]])
           /\ \A n \in DOMAIN data[t] : data[t][n] = blocks[file[t]][n]

Serial == DOMAIN before = Threads /\ \A t \in Threads : SerialFits(t)

\* A thread that moves is in a call, before or after; so no other one is.
LEMMA OthersAreIdle ==
    ASSUME Typed, CallsDoNotOverlap, CallsDoNotOverlap', NEW t \in Threads, Step(t),
           NEW u \in Threads \ {t}
    PROVE  pc[u] = "idle" /\ pc'[u] = "idle"
  <1>1. pc'[u] = pc[u]
    BY OnlyOneMoves DEF Still
  <1>2. CASE pc[t] # "idle"
    BY <1>1, <1>2 DEF CallsDoNotOverlap
  <1>3. CASE pc[t] = "idle"
    <2>1. PICK req \in Abstract!Requests : Call(t, req)
      BY <1>3 DEF Step, Work, Reject, Fail, EnsureEntityDirectory, OpenDirectory,
             ScanEntry, CreateScanned, CreateOpen, UpdateOpen, Write, WriteFails, ReadOpen,
             ReadBlock, ReadEnd, Delete, ListExists, ListEnd, Return, At
    <2>2. pc'[t] = "called"
      BY <2>1 DEF Call, Typed
    <2> QED
      BY <1>1, <2>2 DEF CallsDoNotOverlap
  <1> QED
    BY <1>2, <1>3

LEMMA SerialOpen ==
    ASSUME IInv, IInv', Serial, NEW t \in Threads, CreateOpen(t) \/ UpdateOpen(t)
    PROVE  \E id \in Nat :
              /\ OpenForWriting(t, id)
              /\ pc[t] \in {"ensured", "scanned"} /\ pc'[t] = "writing"
              /\ \E n \in Nat : Opens(t, id, <<EntityFilePath(Me(t), id), n>>)
              /\ file_id'[t] = id /\ request' = request
              /\ request[t].op = "create" =>
                     id \notin DOMAIN files[Me(t)] /\ before'[t] = {}
              /\ request[t].op = "update" => id = request[t].id
              /\ id \in DOMAIN files[Me(t)] => before'[t] = {blocks[files[Me(t)][id]]}
              /\ id \notin DOMAIN files[Me(t)] => before'[t] = {}
  <1>0. Typed /\ ThreadsInPlace /\ DiskInPlace
    BY DEF IInv, Types, ThreadsInPlace
  <1>1. PICK id \in Nat : /\ OpenForWriting(t, id)
                          /\ CreateOpen(t) => id \notin ids[t]
                          /\ pc[t] \in {"ensured", "scanned"}
    BY <1>0, WritersOpen
  <1>2. \E n \in Nat : Opens(t, id, <<EntityFilePath(Me(t), id), n>>)
    BY <1>0, <1>1, Opening, CallersAreKnown
  <1>3. /\ pc' = [pc EXCEPT ![t] = "writing"]
        /\ file_id' = [file_id EXCEPT ![t] = id] /\ request' = request
    BY <1>1 DEF OpenForWriting
  <1>4. pc'[t] = "writing" /\ file_id'[t] = id
    BY <1>0, <1>3 DEF Typed
  <1>5. before'[t] = IF id \in DOMAIN files[Me(t)] THEN {blocks[files[Me(t)][id]]} ELSE {}
    BY <1>1 DEF OpenForWriting, EntityFilePath, Serial
  <1>6. CASE CreateOpen(t)
    <2>1. request[t].op = "create" /\ pc[t] = "scanned"
      BY <1>6 DEF CreateOpen, At
    <2>2. id \notin DOMAIN files[Me(t)]
      BY <1>1, <1>6, <2>1 DEF Serial, SerialFits
    <2> QED
      BY <1>1, <1>2, <1>3, <1>4, <1>5, <2>1, <2>2
  <1>7. CASE UpdateOpen(t)
    <2>1. request[t].op = "update" /\ file_id' = [file_id EXCEPT ![t] = request[t].id]
      BY <1>7 DEF UpdateOpen, At, OpenForWriting
    <2>2. id = request[t].id
      BY <1>0, <1>4, <2>1 DEF Typed
    <2> QED
      BY <1>1, <1>2, <1>3, <1>4, <1>5, <2>1, <2>2
  <1> QED
    BY <1>6, <1>7

\* A file named before a step is what was written, if the step renames nothing.
LEMMA SerialAfterOpen ==
    ASSUME IInv, IInv', Serial, NEW t \in Threads, CreateOpen(t) \/ UpdateOpen(t)
    PROVE  SerialFits(t)'
  <1>0. Types /\ Typed /\ DOMAIN files = Entities /\ DOMAIN file = Threads /\ Types'
    BY DEF IInv, Types, ThreadsInPlace, DiskInPlace, Typed
  <1>1. PICK id \in Nat :
              /\ pc[t] \in {"ensured", "scanned"} /\ pc'[t] = "writing"
              /\ \E n \in Nat : Opens(t, id, <<EntityFilePath(Me(t), id), n>>)
              /\ file_id'[t] = id /\ request' = request
              /\ request[t].op = "create" => before'[t] = {}
              /\ request[t].op = "update" => id = request[t].id
    BY SerialOpen
  <1>2. PICK n \in Nat : Opens(t, id, <<EntityFilePath(Me(t), id), n>>)
    BY <1>1
  <1>3. PICK inode : inode = <<EntityFilePath(Me(t), id), n>>
    OBVIOUS
  <1>4. Me(t) \in Entities /\ file[t] = NoInode /\ Me(t)' = Me(t)
    <2>1. Me(t) \in Entities
      BY <1>0, <1>1, CallersAreKnown DEF Types
    <2>2. file[t] = NoInode
      BY <1>0, <1>1 DEF Types, ThreadsInPlace, LocalsFit
    <2> QED
      BY <1>1, <2>1, <2>2 DEF Me
  <1>5. file'[t] = inode /\ files'[Me(t)] = Abstract!Put(files[Me(t)], id, inode)
    BY <1>0, <1>2, <1>3, <1>4 DEF Opens
  <1>6. EmptiesOnly(inode)
    BY <1>0, <1>2, <1>3, <1>4, OpeningEmpties
  <1>7. inode \in DOMAIN blocks'
    BY <1>0, <1>1, <1>5, LiveNext
  <1>8. StillNamed(t)'
    BY <1>1, <1>4, <1>5 DEF StillNamed, Abstract!Put
  <1>9. blocks'[file'[t]] = <<>>
    BY <1>5, <1>6, <1>7 DEF EmptiesOnly
  <1> QED
    BY <1>1, <1>8, <1>9 DEF SerialFits

LEMMA SerialStays ==
    ASSUME IInv, IInv', Serial, NEW t \in Threads, Step(t),
           CallsDoNotOverlap, CallsDoNotOverlap'
    PROVE  Serial'
  <1>0. Typed /\ Typed' /\ Types /\ Types'
    BY DEF IInv, Types, ThreadsInPlace
  <1>1. ASSUME NEW u \in Threads \ {t} PROVE SerialFits(u)'
    BY <1>0, OthersAreIdle DEF SerialFits
  <1>2. DOMAIN before' = Threads
    BY DEF Serial, Step, Work, Call, Reject, Fail, EnsureEntityDirectory, OpenDirectory,
           ScanEntry, CreateScanned, CreateOpen, UpdateOpen, OpenForWriting, Write,
           WriteFails, WriteAndClose, ReadOpen, ReadBlock, ReadEnd, Delete, ListExists,
           ListEnd, Return, ghosts
  <1>3. SerialFits(t)'
    <2>1. CASE CreateOpen(t) \/ UpdateOpen(t)
      BY <2>1, SerialAfterOpen
    <2>2. CASE ReadsDirectory(t)
      <3>0. files' = files /\ Me(t)' = Me(t)
        BY <1>0, <2>2, DirectoryIsOnlyRead DEF disk, Me
      <3>1. CASE OpenDirectory(t)
        <4>1. pc'[t] = "scanning" /\ ids'[t] = {} /\ coming'[t] = DOMAIN files[Me(t)]
          BY <1>0, <3>1 DEF OpenDirectory, Typed
        <4> QED
          BY <3>0, <4>1 DEF SerialFits
      <3>2. CASE ScanEntry(t)
        <4>1. /\ pc[t] = "scanning" /\ pc' = pc
              /\ ids'[t] \cup coming'[t] = ids[t] \cup coming[t]
          BY <1>0, <3>2 DEF ScanEntry, Typed
        <4> QED
          BY <3>0, <4>1 DEF SerialFits, Serial
      <3>3. CASE CreateScanned(t)
        <4>1. pc[t] = "scanning" /\ pc'[t] = "scanned" /\ ids' = ids /\ coming[t] = {}
          BY <1>0, <3>3 DEF CreateScanned, Typed, At, locals
        <4> QED
          BY <3>0, <4>1 DEF SerialFits, Serial
      <3>4. CASE ListExists(t) \/ ListEnd(t)
        <4>1. pc'[t] \in {"found", "replied"}
          BY <1>0, <3>4 DEF ListExists, ListEnd, Finish, Typed
        <4> QED
          BY <4>1 DEF SerialFits
      <3> QED
        BY <2>2, <3>1, <3>2, <3>3, <3>4, Zenon DEF ReadsDirectory
    <2>3. CASE ReadOpen(t)
      <3>1. /\ pc[t] = "called" /\ files' = files /\ blocks' = blocks /\ data' = data
            /\ request' = request
            /\ \/ pc'[t] = "replied"
               \/ /\ pc'[t] = "reading"
                  /\ request[t].id \in DOMAIN files[Me(t)]
                  /\ file'[t] = files[Me(t)][request[t].id]
        BY <1>0, <2>3 DEF ReadOpen, Finish, Typed, disk, At
      <3>2. data[t] = <<>>
        BY <3>1 DEF IInv, OwnReads, ReadsFit
      <3>3. CASE pc'[t] = "replied"
        BY <3>3 DEF SerialFits
      <3>4. CASE pc'[t] = "reading"
        <4>1. Me(t) \in Entities
          BY <1>0, <3>1, CallersAreKnown DEF Types
        <4>2. file'[t] \in DOMAIN blocks
          BY <1>0, <3>1, <3>4, <4>1, LiveMeans DEF Types, OnlyLive, LiveInodes
        <4>3. blocks[file'[t]] \in Seq(Blocks)
          BY <4>2 DEF IInv, OwnContent, Texts
        <4>4. Len(data'[t]) = 0 /\ DOMAIN data'[t] = {} /\ Len(blocks'[file'[t]]) \in Nat
          BY <3>1, <3>2, <4>3
        <4> QED
          BY <3>1, <3>4, <4>4 DEF SerialFits, Me
      <3> QED
        BY <3>1, <3>3, <3>4
    <2>4. CASE ReadBlock(t)
      <3>1. /\ pc[t] = "reading" /\ pc' = pc /\ file' = file /\ files' = files
            /\ blocks' = blocks /\ request' = request
            /\ Len(data[t]) < Len(blocks[file[t]])
            /\ data'[t] = Append(data[t], blocks[file[t]][Len(data[t]) + 1])
        BY <1>0, <2>4 DEF ReadBlock, Typed, disk
      <3>2. PICK read \in Seq(Blocks), text \in Seq(Blocks) :
                read = data[t] /\ text = blocks[file[t]]
        BY <1>0, <3>1, OpenFilesAreLive DEF IInv, OwnReads, ReadsFit, OwnContent, Texts
      <3>3. /\ Len(read) < Len(text)
            /\ \A n \in DOMAIN read : read[n] = text[n]
            /\ data'[t] = Append(read, text[Len(read) + 1])
        BY <3>1, <3>2 DEF Serial, SerialFits
      <3>4. /\ Len(data'[t]) <= Len(text)
            /\ \A n \in DOMAIN data'[t] : data'[t][n] = text[n]
        <4>1. text[Len(read) + 1] \in Blocks
          BY <3>3
        <4>2. /\ Len(data'[t]) = Len(read) + 1 /\ DOMAIN data'[t] = 1 .. Len(read) + 1
              /\ \A n \in 1 .. Len(read) : data'[t][n] = read[n]
              /\ data'[t][Len(read) + 1] = text[Len(read) + 1]
          BY <3>3, <4>1
        <4> QED
          BY <3>3, <4>2
      <3>5. /\ request[t].id \in DOMAIN files[Me(t)]
            /\ file[t] = files[Me(t)][request[t].id]
        BY <3>1 DEF Serial, SerialFits
      <3> QED
        BY <3>1, <3>2, <3>4, <3>5 DEF SerialFits, Me
    <2>5. CASE \/ \E req \in Abstract!Requests : Call(t, req)
               \/ Reject(t) \/ Fail(t) \/ EnsureEntityDirectory(t)
               \/ ReadEnd(t) \/ Delete(t) \/ Return(t)
               \/ Write(t) \/ WriteFails(t)
      <3>1. pc'[t] \notin {"scanning", "scanned", "writing", "reading"}
        BY <1>0, <2>5 DEF Call, Reject, Fail, EnsureEntityDirectory, ReadEnd, Delete,
                   Return, Write, WriteFails, WriteAndClose, Finish, Typed
      <3> QED
        BY <3>1 DEF SerialFits
    <2> QED
      BY <2>1, <2>2, <2>3, <2>4, <2>5, Zenon DEF Step, Work, ReadsDirectory
  <1> QED
    BY <1>1, <1>2, <1>3 DEF Serial

--------------------------------------------------------------------------------
(* What callers see of the disk                                               *)

Quiet == \A u \in Threads : pc[u] # "writing"

LEMMA QuietObjects ==
    /\ Quiet => Objects = [e \in Entities |-> Stored(e)]
    /\ Quiet' => Objects' = [e \in Entities |-> Stored(e)']
  BY DEF Quiet, Objects

\* The one writer's file counts as what it was.
LEMMA WritersObjects ==
    ASSUME NEW t \in Threads
    PROVE  /\ pc[t] = "writing" /\ CallsDoNotOverlap =>
                  Objects = [e \in Entities |-> IF e = Me(t) THEN AsBefore(t) ELSE Stored(e)]
           /\ pc'[t] = "writing" /\ CallsDoNotOverlap' =>
                  Objects' = [e \in Entities |-> IF e = Me(t)' THEN AsBefore(t)' ELSE Stored(e)']
  <1>1. ASSUME pc[t] = "writing", CallsDoNotOverlap, NEW e \in Entities
        PROVE  Objects[e] = IF e = Me(t) THEN AsBefore(t) ELSE Stored(e)
    <2>1. \A u \in Threads : pc[u] = "writing" <=> u = t
      BY <1>1 DEF CallsDoNotOverlap
    <2>2. CASE e = Me(t)
      <3>1. \A u : (u \in Threads /\ pc[u] = "writing" /\ request[u].entity_name = e) <=> u = t
        BY <2>1, <2>2 DEF Me
      <3>2. (CHOOSE u \in Threads : pc[u] = "writing" /\ request[u].entity_name = e) = t
        BY <3>1
      <3> QED
        BY <2>2, <3>1, <3>2 DEF Objects
    <2>3. CASE e # Me(t)
      <3>1. ~\E u \in Threads : pc[u] = "writing" /\ request[u].entity_name = e
        BY <2>1, <2>3 DEF Me
      <3> QED
        BY <2>3, <3>1 DEF Objects
    <2> QED
      BY <2>2, <2>3
  <1>2. ASSUME pc'[t] = "writing", CallsDoNotOverlap', NEW e \in Entities
        PROVE  Objects'[e] = IF e = Me(t)' THEN AsBefore(t)' ELSE Stored(e)'
    <2>1. \A u \in Threads : pc'[u] = "writing" <=> u = t
      BY <1>2 DEF CallsDoNotOverlap
    <2>2. CASE e = Me(t)'
      <3>1. \A u : (u \in Threads /\ pc'[u] = "writing" /\ request'[u].entity_name = e) <=> u = t
        BY <2>1, <2>2 DEF Me
      <3>2. (CHOOSE u \in Threads : pc'[u] = "writing" /\ request'[u].entity_name = e) = t
        BY <3>1
      <3> QED
        BY <2>2, <3>1, <3>2 DEF Objects
    <2>3. CASE e # Me(t)'
      <3>1. ~\E u \in Threads : pc'[u] = "writing" /\ request'[u].entity_name = e
        BY <2>1, <2>3 DEF Me
      <3> QED
        BY <2>3, <3>1 DEF Objects
    <2> QED
      BY <2>2, <2>3
  <1>3. Objects = [e \in Entities |-> Objects[e]] /\ Objects' = [e \in Entities |-> Objects'[e]]
    BY DEF Objects
  <1> QED
    BY <1>1, <1>2, <1>3

LEMMA StoredStays ==
    ASSUME Types', Kept, NEW e \in Entities, files'[e] = files[e]
    PROVE  Stored(e)' = Stored(e)
  BY LiveNext DEF Kept, Stored

LEMMA QuietStays ==
    ASSUME Types', Quiet, Quiet', Kept, files' = files PROVE Objects' = Objects
  BY QuietObjects, StoredStays

\* What a call's end is to the contract.
LEMMA FinishIsEffect ==
    ASSUME Typed, NEW t \in Threads, pc[t] \notin {"idle", "replied"}, Me(t) \in Entities,
           NEW r, Finish(t, r), NEW objs, Objects' = [Objects EXCEPT ![Me(t)] = objs]
    PROVE  Abstract!Effect(t, objs, r) /\ Status[t] = "called"
  <1>1. pc' = [pc EXCEPT ![t] = "replied"] /\ reply' = [reply EXCEPT ![t] = r]
        /\ request' = request
    BY DEF Finish
  <1>2. Status' = [Status EXCEPT ![t] = "replied"]
    BY <1>1 DEF Status, Typed
  <1> QED
    BY <1>1, <1>2 DEF Abstract!Effect, Me, Status

LEMMA FinishUnchanged ==
    ASSUME Typed, NEW t \in Threads, pc[t] \notin {"idle", "replied"}, Me(t) \in Entities,
           NEW r, Finish(t, r), Objects' = Objects
    PROVE  Abstract!Effect(t, Abstract!Here(t), r) /\ Status[t] = "called"
  <1>1. Objects' = [Objects EXCEPT ![Me(t)] = Objects[Me(t)]]
    BY DEF Objects
  <1> QED
    BY <1>1, FinishIsEffect DEF Abstract!Here, Me

--------------------------------------------------------------------------------
(* Each step is one of the contract, or none                                  *)

\* A step of a call that no other one overlaps.
SerialStep(t) ==
    /\ IInv /\ IInv'
    /\ Serial
    /\ CallsDoNotOverlap /\ CallsDoNotOverlap'
    /\ Step(t)

LEMMA SerialFacts ==
    ASSUME NEW t \in Threads, SerialStep(t)
    PROVE  /\ Types /\ Types' /\ Typed /\ Typed' /\ DOMAIN files = Entities
           /\ pc[t] # "writing" => Quiet
           /\ pc'[t] # "writing" => Quiet'
           /\ pc[t] # "idle" => Me(t) \in Entities
  <1>1. Types /\ Types' /\ Typed /\ Typed' /\ DOMAIN files = Entities
    BY DEF SerialStep, IInv, Types, ThreadsInPlace, DiskInPlace
  <1>2. \A u \in Threads \ {t} : pc[u] = "idle" /\ pc'[u] = "idle"
    BY <1>1, OthersAreIdle DEF SerialStep
  <1>3. pc[t] # "idle" => Me(t) \in Entities
    BY <1>1, CallersAreKnown DEF Types
  <1> QED
    BY <1>1, <1>2, <1>3 DEF Quiet

\* Calling, returning and what leads up to an effect.
LEMMA StutterOrCall ==
    ASSUME NEW t \in Threads, SerialStep(t),
           \/ \E req \in Abstract!Requests : Call(t, req)
           \/ EnsureEntityDirectory(t) \/ ReadBlock(t) \/ Return(t)
    PROVE  [Abstract!Next]_(Abstract!vars)
  <1>1. /\ pc[t] # "writing" /\ pc'[t] # "writing"
        /\ files' = files /\ blocks' = blocks
    BY SerialFacts DEF Call, EnsureEntityDirectory, ReadBlock, Return, Typed, disk
  <1>2. Objects' = Objects
    BY <1>1, SerialFacts, QuietStays DEF Kept
  <1>3. ASSUME NEW req \in Abstract!Requests, Call(t, req) PROVE Abstract!Next
    <2>1. Abstract!Call(t, req)
      BY <1>2, <1>3, SerialFacts DEF Call, Abstract!Call, Status, Typed
    <2> QED
      BY <2>1 DEF Abstract!Next, Abstract!Step
  <1>4. CASE Return(t)
    <2>1. Abstract!Return(t)
      BY <1>2, <1>4, SerialFacts DEF Return, Abstract!Return, Status, Typed
    <2> QED
      BY <2>1 DEF Abstract!Next, Abstract!Step
  <1>5. CASE EnsureEntityDirectory(t) \/ ReadBlock(t)
    <2>1. Status' = Status
      BY <1>5, SerialFacts DEF EnsureEntityDirectory, ReadBlock, Status, Typed
    <2> QED
      BY <1>2, <1>5, <2>1 DEF EnsureEntityDirectory, ReadBlock, Abstract!vars
  <1> QED
    BY <1>3, <1>4, <1>5

\* Reading a directory changes nothing that the contract knows of.
LEMMA ScanObjects ==
    ASSUME NEW t \in Threads, SerialStep(t), ReadsDirectory(t)
    PROVE  Objects' = Objects /\ request' = request
  <1>1. /\ pc[t] # "writing" /\ pc'[t] # "writing" /\ request' = request
        /\ files' = files /\ blocks' = blocks
    BY SerialFacts, DirectoryIsOnlyRead DEF disk
  <1> QED
    BY <1>1, SerialFacts, QuietStays DEF Kept

LEMMA ScanStutters ==
    ASSUME NEW t \in Threads, SerialStep(t),
           \/ OpenDirectory(t) \/ ScanEntry(t) \/ CreateScanned(t)
           \/ ListExists(t) /\ pc'[t] # "replied"
    PROVE  UNCHANGED Abstract!vars
  <1>1. Objects' = Objects /\ request' = request
    BY ScanObjects DEF ReadsDirectory
  <1>2. ASSUME NEW here, NEW there, pc[t] = here, pc' = [pc EXCEPT ![t] = there],
               here \notin {"idle", "replied"}, there \notin {"idle", "replied"}
        PROVE  Status' = Status
    BY <1>2, SerialFacts DEF Status, Typed
  <1>3. CASE OpenDirectory(t)
    <2>1. /\ pc[t] \in {"ensured", "found"} /\ pc' = [pc EXCEPT ![t] = "scanning"]
          /\ reply' = reply
      BY <1>3 DEF OpenDirectory, At
    <2> QED
      BY <1>1, <1>2, <2>1 DEF Abstract!vars
  <1>4. CASE ScanEntry(t)
    <2>1. pc' = pc /\ reply' = reply
      BY <1>4 DEF ScanEntry
    <2> QED
      BY <1>1, <2>1 DEF Abstract!vars, Status
  <1>5. CASE CreateScanned(t)
    <2>1. /\ pc[t] = "scanning" /\ pc' = [pc EXCEPT ![t] = "scanned"]
          /\ reply' = reply
      BY <1>5 DEF CreateScanned, At
    <2> QED
      BY <1>1, <1>2, <2>1 DEF Abstract!vars
  <1>6. CASE ListExists(t) /\ pc'[t] # "replied"
    <2>1. /\ pc[t] = "called" /\ pc' = [pc EXCEPT ![t] = "found"]
          /\ reply' = reply
      BY <1>6, SerialFacts DEF ListExists, At, Finish, Typed
    <2> QED
      BY <1>1, <1>2, <2>1 DEF Abstract!vars
  <1> QED
    BY <1>3, <1>4, <1>5, <1>6

\* Nothing named is what a caller with invalid arguments asks for.
LEMMA RejectStep ==
    ASSUME NEW t \in Threads, SerialStep(t), Reject(t)
    PROVE  Abstract!Next
  <1>1. /\ pc[t] = "called" /\ ~Valid(t) /\ Finish(t, Failure(request[t].op))
        /\ files' = files /\ blocks' = blocks
    BY DEF Reject, disk
  <1>2. pc'[t] = "replied"
    BY <1>1, SerialFacts DEF Finish, Typed
  <1>3. Objects' = Objects
    BY <1>1, <1>2, SerialFacts, QuietStays DEF Kept
  <1>4. Abstract!Effect(t, Abstract!Here(t), Failure(request[t].op)) /\ Status[t] = "called"
    BY <1>1, <1>3, SerialFacts, FinishUnchanged
  <1>5. Abstract!Here(t) = Stored(Me(t)) /\ DOMAIN Abstract!Here(t) = DOMAIN files[Me(t)]
    BY <1>1, SerialFacts, QuietObjects DEF Abstract!Here, Me, Stored
  <1>6. request[t].op \in {"create", "read", "update", "delete", "list"}
    BY <1>1, SerialFacts, CallersAreKnown DEF Types
  <1>7. /\ DOMAIN files[Me(t)] \in SUBSET Nat
        /\ Me(t) \notin ValidNames => DOMAIN files[Me(t)] = {}
    BY <1>1, SerialFacts DEF Types, DiskInPlace
  <1>8. CASE request[t].op = "create"
    <2>1. Failure(request[t].op) = [id |-> -1]
      BY <1>8 DEF Failure
    <2> QED
      BY <1>4, <1>8, <2>1 DEF Abstract!Create, Abstract!Asked, Abstract!Next, Abstract!Step
  <1>9. CASE request[t].op \in {"read", "update", "delete"}
    <2>1. Failure(request[t].op) = [ok |-> FALSE]
      BY <1>9 DEF Failure
    <2>2. request[t].id \notin DOMAIN files[Me(t)]
      <3>1. CASE Me(t) \notin ValidNames
        BY <1>7, <3>1
      <3>2. CASE ~(request[t].id >= 0)
        BY <1>7, <3>2
      <3> QED
        BY <1>1, <3>1, <3>2 DEF Valid
    <2> QED
      BY <1>4, <1>5, <1>9, <2>1, <2>2
      DEF Abstract!Read, Abstract!Update, Abstract!Delete, Abstract!Asked, Abstract!Next,
          Abstract!Step
  <1>10. CASE request[t].op = "list"
    <2>1. Failure(request[t].op) = [ids |-> {}]
      BY <1>10 DEF Failure
    <2>2. DOMAIN files[Me(t)] = {}
      BY <1>1, <1>7, <1>10 DEF Valid
    <2> QED
      BY <1>4, <1>5, <1>10, <2>1, <2>2
      DEF Abstract!List, Abstract!Asked, Abstract!Next, Abstract!Step
  <1> QED
    BY <1>6, <1>8, <1>9, <1>10

\* List takes effect when there is no directory, or when the last entry is read.
LEMMA ListStep ==
    ASSUME NEW t \in Threads, SerialStep(t),
           (ListExists(t) /\ pc'[t] = "replied") \/ ListEnd(t)
    PROVE  Abstract!Next
  <1>1. Objects' = Objects
    BY ScanObjects DEF ReadsDirectory
  <1>2. /\ pc[t] \in {"called", "scanning"} /\ request[t].op = "list"
        /\ Finish(t, [ids |-> DOMAIN files[Me(t)]])
    <2>1. CASE ListExists(t) /\ pc'[t] = "replied"
      <3>1. /\ pc[t] = "called" /\ request[t].op = "list"
            /\ Me(t) \notin dirs /\ Finish(t, [ids |-> {}])
        BY <2>1, SerialFacts DEF ListExists, At, Typed
      <3>2. DOMAIN files[Me(t)] = {}
        BY <3>1, SerialFacts DEF Types, DiskInPlace
      <3> QED
        BY <3>1, <3>2
    <2>2. CASE ListEnd(t)
      <3>1. /\ pc[t] = "scanning" /\ request[t].op = "list"
            /\ coming[t] = {} /\ Finish(t, [ids |-> ids[t]])
        BY <2>2 DEF ListEnd, At
      <3>2. ids[t] = DOMAIN files[Me(t)]
        BY <3>1 DEF SerialStep, Serial, SerialFits
      <3> QED
        BY <3>1, <3>2
    <2> QED
      BY <2>1, <2>2
  <1>3. pc[t] # "writing" /\ pc[t] # "idle"
    BY <1>2
  <1>4. DOMAIN Abstract!Here(t) = DOMAIN files[Me(t)]
    BY <1>3, SerialFacts, QuietObjects DEF Abstract!Here, Me, Stored
  <1>5. Abstract!Effect(t, Abstract!Here(t), [ids |-> DOMAIN files[Me(t)]])
        /\ Status[t] = "called"
    BY <1>1, <1>2, SerialFacts, FinishUnchanged
  <1> QED
    BY <1>2, <1>4, <1>5 DEF Abstract!List, Abstract!Asked, Abstract!Next, Abstract!Step

\* Reading takes effect when there is no file, or when its end is found.
LEMMA ReadOpenStep ==
    ASSUME NEW t \in Threads, SerialStep(t), ReadOpen(t)
    PROVE  [Abstract!Next]_(Abstract!vars)
  <1>1. /\ pc[t] = "called" /\ request[t].op = "read"
        /\ files' = files /\ blocks' = blocks
    BY DEF ReadOpen, disk, At
  <1>2. CASE request[t].id \notin DOMAIN files[Me(t)] /\ Finish(t, [ok |-> FALSE])
    <2>1. pc'[t] = "replied"
      BY <1>2, SerialFacts DEF Finish, Typed
    <2>2. Objects' = Objects
      BY <1>1, <2>1, SerialFacts, QuietStays DEF Kept
    <2>3. Abstract!Effect(t, Abstract!Here(t), [ok |-> FALSE]) /\ Status[t] = "called"
      BY <1>1, <1>2, <2>2, SerialFacts, FinishUnchanged
    <2>4. DOMAIN Abstract!Here(t) = DOMAIN files[Me(t)]
      BY <1>1, SerialFacts, QuietObjects DEF Abstract!Here, Me, Stored
    <2> QED
      BY <1>1, <1>2, <2>3, <2>4 DEF Abstract!Read, Abstract!Asked, Abstract!Next, Abstract!Step
  <1>3. CASE pc' = [pc EXCEPT ![t] = "reading"] /\ UNCHANGED <<request, reply>>
    <2>1. pc'[t] = "reading"
      BY <1>3, SerialFacts DEF Typed
    <2>2. Objects' = Objects
      BY <1>1, <2>1, SerialFacts, QuietStays DEF Kept
    <2>3. Status' = Status
      BY <1>1, <1>3, SerialFacts DEF Status, Typed
    <2> QED
      BY <1>3, <2>2, <2>3 DEF Abstract!vars
  <1> QED
    BY <1>2, <1>3 DEF ReadOpen

LEMMA ReadEndStep ==
    ASSUME NEW t \in Threads, SerialStep(t), ReadEnd(t)
    PROVE  Abstract!Next
  <1>1. /\ pc[t] = "reading" /\ files' = files
        /\ Len(data[t]) >= Len(blocks[file[t]])
        /\ Finish(t, [ok |-> TRUE, out_data |-> data[t]])
    BY DEF ReadEnd
  <1>2. pc'[t] = "replied" /\ request[t].op = "read"
    BY <1>1, SerialFacts DEF Finish, Typed, Types, ThreadsInPlace, RequestFits
  <1>3. Kept
    <2>1. ~Writes(t)
      BY <1>1, SerialFacts DEF Writes, CreateOpen, UpdateOpen, Write, WriteFails, At
    <2> QED
      BY <2>1, SerialFacts, OthersKeepBlocks DEF SerialStep
  <1>4. Objects' = Objects
    BY <1>1, <1>2, <1>3, SerialFacts, QuietStays
  <1>5. /\ Abstract!Effect(t, Abstract!Here(t), [ok |-> TRUE, out_data |-> data[t]])
        /\ Status[t] = "called"
    BY <1>1, <1>4, SerialFacts, FinishUnchanged
  <1>6. PICK read \in Seq(Blocks), text \in Seq(Blocks) :
            read = data[t] /\ text = blocks[file[t]]
    BY <1>1, SerialFacts, OpenFilesAreLive
    DEF SerialStep, IInv, OwnReads, ReadsFit, OwnContent, Texts
  <1>7. /\ Len(read) = Len(text) /\ \A n \in DOMAIN read : read[n] = text[n]
        /\ request[t].id \in DOMAIN files[Me(t)]
        /\ file[t] = files[Me(t)][request[t].id]
    BY <1>1, <1>6 DEF SerialStep, Serial, SerialFits
  <1>8. read = text
    BY <1>7
  <1>9. Abstract!Here(t) = Stored(Me(t))
    BY <1>1, SerialFacts, QuietObjects DEF Abstract!Here, Me
  <1>10. /\ request[t].id \in DOMAIN Abstract!Here(t)
         /\ Abstract!Here(t)[request[t].id] = data[t]
    BY <1>6, <1>7, <1>8, <1>9 DEF Stored
  <1> QED
    BY <1>2, <1>5, <1>10 DEF Abstract!Read, Abstract!Asked, Abstract!Next, Abstract!Step

LEMMA DeleteStep ==
    ASSUME NEW t \in Threads, SerialStep(t), Delete(t)
    PROVE  Abstract!Next
  <1> DEFINE id == request[t].id
             found == id \in DOMAIN files[Me(t)]
             here == Abstract!Here(t)
             left == Abstract!Drop(here, id)
  <1>1. /\ pc[t] = "called" /\ request[t].op = "delete" /\ request' = request
        /\ files' = [files EXCEPT ![Me(t)] = Abstract!Drop(@, id)]
        /\ Finish(t, [ok |-> found])
    BY DEF Delete, At, Finish, Removes
  <1>2. pc'[t] = "replied" /\ Me(t) \in Entities
    BY <1>1, SerialFacts DEF Finish, Typed
  <1>3. Kept
    <2>1. ~Writes(t)
      BY <1>1, SerialFacts DEF Writes, CreateOpen, UpdateOpen, Write, WriteFails, At
    <2> QED
      BY <2>1, SerialFacts, OthersKeepBlocks DEF SerialStep
  <1>4. Objects = [e \in Entities |-> Stored(e)] /\ Objects' = [e \in Entities |-> Stored(e)']
    BY <1>1, <1>2, SerialFacts, QuietObjects
  <1>5. here = Stored(Me(t)) /\ DOMAIN here = DOMAIN files[Me(t)]
    BY <1>2, <1>4 DEF Abstract!Here, Me, Stored
  <1>6. Stored(Me(t))' = left
    <2>1. files'[Me(t)] = [i \in DOMAIN files[Me(t)] \ {id} |-> files[Me(t)][i]]
      BY <1>1, <1>2, SerialFacts DEF Abstract!Drop, Abstract!Restrict
    <2>2. \A i \in DOMAIN files'[Me(t)] : files'[Me(t)][i] \in DOMAIN blocks'
      BY <1>2, SerialFacts, LiveNext
    <2>3. Me(t)' = Me(t)
      BY <1>1 DEF Me
    <2>4. left = [i \in DOMAIN files[Me(t)] \ {id} |-> blocks[files[Me(t)][i]]]
      BY <1>5 DEF Abstract!Drop, Abstract!Restrict, Stored
    <2> QED
      BY <1>3, <2>1, <2>2, <2>3, <2>4 DEF Kept, Stored
  <1>7. \A e \in Entities \ {Me(t)} : Stored(e)' = Stored(e)
    BY <1>1, <1>3, SerialFacts, StoredStays
  <1>8. Objects' = [Objects EXCEPT ![Me(t)] = left]
    <2>1. \A e \in Entities : Objects'[e] = IF e = Me(t) THEN left ELSE Objects[e]
      <3>1. Me(t)' = Me(t)
        BY <1>1 DEF Me
      <3>2. Objects'[Me(t)] = left
        BY <1>2, <1>4, <1>6, <3>1
      <3> QED
        BY <1>4, <1>7, <3>2
    <2> HIDE DEF left
    <2> QED
      BY <1>2, <1>4, <2>1
  <1>9. Abstract!Effect(t, left, [ok |-> found]) /\ Status[t] = "called"
    <2> HIDE DEF left, found
    <2> QED
      BY <1>1, <1>2, <1>8, SerialFacts, FinishIsEffect
  <1>10. CASE found
    <2>1. [ok |-> found] = [ok |-> TRUE]
      BY <1>10
    <2> QED
      BY <1>1, <1>5, <1>9, <1>10, <2>1
      DEF Abstract!Delete, Abstract!Asked, Abstract!Next, Abstract!Step
  <1>11. CASE ~found
    <2>1. [ok |-> found] = [ok |-> FALSE]
      <3>1. found = FALSE
        BY <1>11
      <3> HIDE DEF found
      <3> QED
        BY <3>1
    <2>2. left = here
      BY <1>5, <1>11 DEF Abstract!Drop, Abstract!Restrict, Stored
    <2> QED
      BY <1>1, <1>9, <2>1, <2>2
      DEF Abstract!Delete, Abstract!Asked, Abstract!Next, Abstract!Step
  <1> QED
    BY <1>10, <1>11

\* Opening for writing destroys what was there, but no caller sees it yet.
LEMMA OpenStep ==
    ASSUME NEW t \in Threads, SerialStep(t), CreateOpen(t) \/ UpdateOpen(t)
    PROVE  UNCHANGED Abstract!vars
  <1>1. PICK id \in Nat :
              /\ OpenForWriting(t, id)
              /\ pc[t] \in {"ensured", "scanned"} /\ pc'[t] = "writing"
              /\ \E n \in Nat : Opens(t, id, <<EntityFilePath(Me(t), id), n>>)
              /\ file_id'[t] = id /\ request' = request
              /\ id \in DOMAIN files[Me(t)] => before'[t] = {blocks[files[Me(t)][id]]}
              /\ id \notin DOMAIN files[Me(t)] => before'[t] = {}
    BY SerialOpen DEF SerialStep
  <1>2. PICK n \in Nat : Opens(t, id, <<EntityFilePath(Me(t), id), n>>)
    BY <1>1
  <1>3. PICK inode : inode = <<EntityFilePath(Me(t), id), n>>
    OBVIOUS
  <1>4. Me(t) \in Entities /\ file[t] = NoInode /\ Me(t)' = Me(t)
    BY <1>1, SerialFacts DEF Types, ThreadsInPlace, LocalsFit, Me
  <1>5. EmptiesOnly(inode)
    BY <1>2, <1>3, <1>4, SerialFacts, OpeningEmpties
  <1>6. /\ files'[Me(t)] = Abstract!Put(files[Me(t)], id, inode)
        /\ \A e \in Entities \ {Me(t)} : files'[e] = files[e]
    BY <1>2, <1>3, <1>4, SerialFacts DEF Opens
  <1>7. \A e \in Entities : \A i \in DOMAIN files'[e] : files'[e][i] \in DOMAIN blocks'
    BY SerialFacts, LiveNext
  \* Only the file at this path has this inode.
  <1>8. ASSUME NEW e \in Entities, NEW i \in DOMAIN files[e], e # Me(t) \/ i # id
        PROVE  /\ i \in DOMAIN files'[e] /\ files'[e][i] = files[e][i]
               /\ blocks'[files'[e][i]] = blocks[files[e][i]]
    <2>1. i \in DOMAIN files'[e] /\ files'[e][i] = files[e][i]
      BY <1>6, <1>8 DEF Abstract!Put
    <2>2. PICK m \in Nat : files[e][i] = <<EntityFilePath(e, i), m>>
      BY SerialFacts DEF Types, DiskInPlace
    <2>3. files[e][i] # inode
      BY <1>3, <1>8, <2>2 DEF EntityFilePath
    <2> QED
      BY <1>5, <1>7, <2>1, <2>3 DEF EmptiesOnly
  <1>9. \A e \in Entities \ {Me(t)} : Stored(e)' = Stored(e)
    BY <1>6, <1>8 DEF Stored
  <1>10. AsBefore(t)' = Stored(Me(t))
    <2> DEFINE kept == {i \in DOMAIN files'[Me(t)] : i # id \/ before'[t] # {}}
    <2>1. kept = DOMAIN files[Me(t)]
      BY <1>1, <1>6 DEF Abstract!Put
    <2>2. Stored(Me(t))' = [i \in DOMAIN files'[Me(t)] |-> blocks'[files'[Me(t)][i]]]
      BY <1>4 DEF Stored
    <2>3. AsBefore(t)' = [i \in kept |->
                IF i = id THEN CHOOSE old \in before'[t] : TRUE ELSE Stored(Me(t))'[i]]
      BY <1>1, <1>4 DEF AsBefore, Me
    <2>4. ASSUME NEW i \in DOMAIN files[Me(t)]
          PROVE  (IF i = id THEN CHOOSE old \in before'[t] : TRUE ELSE Stored(Me(t))'[i])
                     = blocks[files[Me(t)][i]]
      <3>1. CASE i = id
        <4>1. before'[t] = {blocks[files[Me(t)][id]]}
          BY <1>1, <3>1
        <4> QED
          BY <3>1, <4>1
      <3>2. CASE i # id
        BY <1>4, <1>8, <2>2, <3>2
      <3> QED
        BY <3>1, <3>2
    <2> HIDE DEF kept
    <2> QED
      BY <2>1, <2>3, <2>4 DEF Stored
  <1>11. Objects' = Objects
    <2>1. Objects = [e \in Entities |-> Stored(e)]
      BY <1>1, SerialFacts, QuietObjects
    <2>2. Objects' = [e \in Entities |-> IF e = Me(t)' THEN AsBefore(t)' ELSE Stored(e)']
      BY <1>1, WritersObjects DEF SerialStep
    <2> QED
      BY <1>4, <1>9, <1>10, <2>1, <2>2
  <1>12. Status' = Status
    <2>1. pc' = [pc EXCEPT ![t] = "writing"]
      BY <1>1 DEF OpenForWriting
    <2> QED
      BY <1>1, <2>1, SerialFacts DEF Status, Typed
  <1>13. UNCHANGED <<request, reply>>
    BY <1>1 DEF OpenForWriting
  <1> QED
    BY <1>11, <1>12, <1>13 DEF Abstract!vars

\* The write(2) of the whole body is where Create and Update take effect.
LEMMA WriteStep ==
    ASSUME NEW t \in Threads, SerialStep(t), Write(t)
    PROVE  Abstract!Next
  <1> DEFINE body == request[t].data
             here == Abstract!Here(t)
             written == Abstract!Put(here, file_id[t], body)
             answer == IF request[t].op = "create" THEN [id |-> file_id[t]] ELSE [ok |-> TRUE]
  <1>1. /\ pc[t] = "writing" /\ files' = files /\ request' = request
        /\ WriteAndClose(t, Len(body)) /\ Finish(t, answer)
    BY DEF Write, WriteAndClose, Finish
  <1>2. /\ pc'[t] = "replied" /\ Me(t) \in Entities /\ Me(t)' = Me(t)
        /\ request[t].op \in {"create", "update"} /\ body \in BodiesOf[Me(t)]
        /\ file_id[t] \in Nat
    BY <1>1, SerialFacts DEF Finish, Typed, Me, Types, ThreadsInPlace, RequestFits, LocalsFit
  <1>3. /\ file_id[t] \in DOMAIN files[Me(t)] /\ file[t] = files[Me(t)][file_id[t]]
        /\ blocks[file[t]] = <<>>
        /\ request[t].op = "update" => file_id[t] = request[t].id
        /\ request[t].op = "create" => before[t] = {}
    BY <1>1 DEF SerialStep, Serial, SerialFits, StillNamed
  <1>4. \A e \in Entities : \A i \in DOMAIN files[e] :
            blocks'[files[e][i]] =
                IF files[e][i] = file[t] THEN Written(blocks[files[e][i]], body, Len(body))
                                         ELSE blocks[files[e][i]]
    <2>1. \A i \in DOMAIN blocks' :
              blocks'[i] = IF i = file[t] THEN Written(blocks[i], body, Len(body)) ELSE blocks[i]
      BY <1>1, SerialFacts, WritingChangesOne
    <2> QED
      BY <1>1, <2>1, SerialFacts, LiveNext
  <1>5. ASSUME NEW e \in Entities, NEW i \in DOMAIN files[e], e # Me(t) \/ i # file_id[t]
        PROVE  blocks'[files[e][i]] = blocks[files[e][i]]
    <2>1. PICK m \in Nat : files[e][i] = <<EntityFilePath(e, i), m>>
      BY SerialFacts DEF Types, DiskInPlace
    <2>2. PICK k \in Nat : file[t] = <<EntityFilePath(Me(t), file_id[t]), k>>
      BY <1>2, <1>3, SerialFacts DEF Types, DiskInPlace
    <2>3. files[e][i] # file[t]
      BY <1>5, <2>1, <2>2 DEF EntityFilePath
    <2> QED
      BY <1>4, <2>3
  <1>6. blocks'[file[t]] = body
    BY <1>2, <1>3, <1>4, WrittenWhole
  <1>7. /\ Objects = [e \in Entities |-> IF e = Me(t) THEN AsBefore(t) ELSE Stored(e)]
        /\ Objects' = [e \in Entities |-> Stored(e)']
    BY <1>1, <1>2, SerialFacts, QuietObjects, WritersObjects DEF SerialStep
  <1>8. here = AsBefore(t)
    BY <1>2, <1>7 DEF Abstract!Here, Me
  <1>9. Stored(Me(t))' = written
    <2>1. Stored(Me(t))' = [i \in DOMAIN files[Me(t)] |-> blocks'[files[Me(t)][i]]]
      BY <1>1, <1>2 DEF Stored
    <2>2. DOMAIN here \cup {file_id[t]} = DOMAIN files[Me(t)]
      BY <1>3, <1>8 DEF AsBefore, Me
    <2>3. \A i \in DOMAIN here : i # file_id[t] => here[i] = blocks[files[Me(t)][i]]
      BY <1>8 DEF AsBefore, Me, Stored
    <2>4. written = [i \in DOMAIN files[Me(t)] |-> IF i = file_id[t] THEN body ELSE here[i]]
      BY <2>2 DEF Abstract!Put
    <2>5. \A i \in DOMAIN files[Me(t)] :
              blocks'[files[Me(t)][i]] = IF i = file_id[t] THEN body ELSE here[i]
      <3> HIDE DEF here
      <3> QED
        BY <1>2, <1>3, <1>5, <1>6, <2>2, <2>3
    <2> HIDE DEF written, here
    <2> QED
      BY <2>1, <2>4, <2>5
  <1>10. \A e \in Entities \ {Me(t)} : Stored(e)' = Stored(e)
    BY <1>1, <1>5 DEF Stored
  <1>11. Objects' = [Objects EXCEPT ![Me(t)] = written]
    <2> HIDE DEF written
    <2> QED
      BY <1>2, <1>7, <1>9, <1>10
  <1>12. Abstract!Effect(t, written, answer) /\ Status[t] = "called"
    <2> HIDE DEF written, answer
    <2> QED
      BY <1>1, <1>2, <1>11, SerialFacts, FinishIsEffect
  <1>13. CASE request[t].op = "create"
    <2>1. answer = [id |-> file_id[t]] /\ reply'[t].id = file_id[t]
      BY <1>1, <1>13, SerialFacts DEF Finish, Typed
    <2>2. file_id[t] \in Nat \ DOMAIN here
      BY <1>2, <1>3, <1>8, <1>13 DEF AsBefore
    <2>3. Abstract!Create(t)
      <3> HIDE DEF answer
      <3> QED
        BY <1>12, <1>13, <2>1, <2>2 DEF Abstract!Create, Abstract!Asked
    <2> QED
      BY <2>3 DEF Abstract!Next, Abstract!Step
  <1>14. CASE request[t].op = "update"
    <2>1. answer = [ok |-> TRUE] /\ file_id[t] = request[t].id
      BY <1>3, <1>14
    <2>2. Abstract!Update(t)
      BY <1>12, <1>14, <2>1 DEF Abstract!Update, Abstract!Asked
    <2> QED
      BY <2>2 DEF Abstract!Next, Abstract!Step
  <1> QED
    BY <1>2, <1>13, <1>14

LEMMA StepImplements ==
    IInv /\ IInv' /\ Serial /\ CallsDoNotOverlap /\ CallsDoNotOverlap' /\ [Next]_vars
        => (faults' = 0 /\ crashes' = 0 => [Abstract!Next]_(Abstract!vars))
  <1> SUFFICES ASSUME IInv, IInv', Serial, CallsDoNotOverlap, CallsDoNotOverlap', [Next]_vars,
                      faults' = 0, crashes' = 0
               PROVE  [Abstract!Next]_(Abstract!vars)
    OBVIOUS
  <1>1. faults \in Nat /\ crashes \in Nat
    BY BoundsAssumption DEF IInv, Types, Counters
  <1>2. ASSUME NEW t \in Threads, Step(t) PROVE [Abstract!Next]_(Abstract!vars)
    <2>1. SerialStep(t)
      BY <1>2 DEF SerialStep
    <2>2. ~Fail(t) /\ ~WriteFails(t)
      BY <1>1 DEF Fail, WriteFails
    <2> QED
      BY <1>2, <2>1, <2>2, StutterOrCall, RejectStep, ScanStutters, ListStep, ReadOpenStep,
         ReadEndStep, DeleteStep, OpenStep, WriteStep, Zenon
      DEF Step, Work
  <1>3. ~Died
    BY <1>1, WhoDiedDies DEF Dies
  <1>4. CASE UNCHANGED vars
    <2>1. Objects' = Objects /\ Status' = Status
      BY <1>4 DEF vars, disk, locals, ghosts, Objects, Status, AsBefore, Stored
    <2> QED
      BY <1>4, <2>1 DEF vars, Abstract!vars
  <1> QED
    BY <1>2, <1>3, <1>4, NextMeans

LEMMA SerialNext ==
    IInv /\ IInv' /\ Serial /\ CallsDoNotOverlap /\ CallsDoNotOverlap' /\ [Next]_vars => Serial'
  <1> SUFFICES ASSUME IInv, IInv', Serial, CallsDoNotOverlap, CallsDoNotOverlap', [Next]_vars
               PROVE  Serial'
    OBVIOUS
  <1>1. ASSUME NEW t \in Threads, Step(t) PROVE Serial'
    BY <1>1, SerialStays
  <1>2. CASE Died
    BY <1>2, WhoDiedDies DEF Dies, Serial, SerialFits
  <1>3. CASE UNCHANGED vars
    BY <1>3 DEF vars, disk, locals, ghosts, Serial, SerialFits, StillNamed, Me
  <1> QED
    BY <1>1, <1>2, <1>3, NextMeans

LEMMA InitImplements == Init => Abstract!Init /\ Serial
  <1> SUFFICES ASSUME Init PROVE Abstract!Init /\ Serial
    OBVIOUS
  <1>1. Serial
    BY DEF Init, Serial, SerialFits
  <1>2. Quiet
    BY DEF Init, Quiet
  <1>3. \A e \in Entities : Stored(e) = Abstract!NoObjects
    BY DEF Init, NoMap, Stored, Abstract!NoObjects
  <1>4. Objects = [e \in Entities |-> Abstract!NoObjects]
    BY <1>2, <1>3, QuietObjects
  <1>5. Status = [t \in Threads |-> "idle"]
    BY DEF Init, Status
  <1> QED
    BY <1>1, <1>4, <1>5 DEF Init, Abstract!Init

\* While no two calls overlap, EntityStorePersistent keeps the contract of
\* entity_store.h until a system call fails or the process dies, whichever and
\* however many threads make the calls: Create and Update take effect with their
\* write(2), Read when it finds the end of the file or no file, and the other
\* steps show nothing to a caller.
THEOREM Implementation == Spec /\ []CallsDoNotOverlap => ImplementsEntityStore
  <1>1. Spec /\ []CallsDoNotOverlap => []Serial
    BY Invariant, InitImplements, SerialNext, PTL DEF Spec
  <1>2. Spec => Abstract!Init
    BY InitImplements, PTL DEF Spec
  <1> QED
    BY <1>1, <1>2, Invariant, StepImplements, PTL DEF Spec, ImplementsEntityStore
================================================================================
