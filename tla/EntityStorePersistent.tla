------------------------- MODULE EntityStorePersistent -------------------------
(******************************************************************************)
(* EntityStorePersistent (src/entity_store_persistent.cc): a directory per    *)
(* entity, a file per object, no lock.  The store keeps no state of its own:  *)
(* what its calls share is the file system, so each system call is a step.    *)
(*                                                                            *)
(* A file is a sequence of blocks, a block being what one fill of a stream    *)
(* buffer reads; a body is written by one write(2), at the latest when the    *)
(* stream is closed.  Opening for writing truncates the file in place, and a  *)
(* file that is removed stays readable and writable through an open stream.   *)
(******************************************************************************)
EXTENDS Integers, FiniteSets, Sequences, SequencesExt

CONSTANTS
    Threads,     \* threads that share the data directory
    Allowed,     \* Allowed[t]: the operations that t calls
    Entities,    \* entity names that callers use
    ValidNames,  \* those that IsValidEntityName accepts
    Ids,         \* ids that callers name
    BodiesOf,    \* BodiesOf[e]: values of data for entity e, sequences of blocks
    MaxObjects,  \* bound: objects of an entity that has another one created
    MaxFaults,   \* bound: system calls that fail
    MaxCrashes   \* bound: times the process dies and is started again

Blocks == UNION {UNION {Range(body) : body \in BodiesOf[e]} : e \in Entities}

ASSUME ThreadsAssumption == IsFiniteSet(Threads)
ASSUME ValidNamesAssumption == ValidNames \subseteq Entities
ASSUME IdsAssumption == Ids \subseteq Int
ASSUME BodiesAssumption == \A e \in Entities : BodiesOf[e] \subseteq Seq(Blocks)
ASSUME BoundsAssumption == MaxFaults \in Nat /\ MaxCrashes \in Nat

VARIABLES
    dirs,        \* entity directories that exist
    files,       \* files[e]: the directory of e, a map from id to inode
    blocks,      \* blocks[i]: what inode i holds, while it is named or open
    pc,          \* where each thread is
    request,     \* its arguments
    reply,       \* its return value
    ids,         \* Create's and List's local ids: those read so far, as a set
    coming,      \* what a directory_iterator has yet to come to
    file_id,     \* the id that names the file a thread opened
    file,        \* the inode its stream is open on
    data,        \* Read's local string: the blocks read so far
    faults, crashes

\* Ghosts: what the properties remember.
VARIABLES
    alone,       \* threads whose stream is the only one writing its file so far
    acked,       \* <<entity, id>> -> body: writes that were alone and succeeded,
                 \* until the object is written again or deleted
    before,      \* before[t]: what the file held when t opened it, {} if it was new
    existed,     \* ids of t's entity that have existed since t called
    seen         \* ids of t's entity that existed at some time since t called

disk == <<dirs, files, blocks>>
locals == <<ids, coming, file_id, file, data>>
ghosts == <<alone, acked, before, existed, seen>>
vars == <<disk, pc, request, reply, locals, faults, crashes, ghosts>>

NoInode == <<>>
NoMap == [id \in {} |-> id]
Bodies == UNION {BodiesOf[e] : e \in Entities}

\* The objects of entity e as the disk holds them,
Stored(e) == [id \in DOMAIN files[e] |-> blocks[files[e][id]]]

AsBefore(t) ==
    [id \in {id \in DOMAIN files[request[t].entity_name] :
                 id # file_id[t] \/ before[t] # {}} |->
        IF id = file_id[t] THEN CHOOSE old \in before[t] : TRUE
                           ELSE Stored(request[t].entity_name)[id]]

\* and as a caller sees them: a file being written still counts as what it was.
Objects ==
    [e \in Entities |->
        IF \E t \in Threads : pc[t] = "writing" /\ request[t].entity_name = e
        THEN AsBefore(CHOOSE t \in Threads :
                         pc[t] = "writing" /\ request[t].entity_name = e)
        ELSE Stored(e)]

Status == [t \in Threads |-> IF pc[t] \in {"idle", "replied"} THEN pc[t]
                             ELSE "called"]

Abstract == INSTANCE EntityStore WITH objects <- Objects, status <- Status

Init ==
    /\ dirs = {}
    /\ files = [e \in Entities |-> NoMap]
    /\ blocks = NoMap
    /\ pc = [t \in Threads |-> "idle"]
    /\ request = [t \in Threads |-> Abstract!NoRequest]
    /\ reply = [t \in Threads |-> Abstract!NoReply]
    /\ ids = [t \in Threads |-> {}]
    /\ coming = [t \in Threads |-> {}]
    /\ file_id = [t \in Threads |-> -1]
    /\ file = [t \in Threads |-> NoInode]
    /\ data = [t \in Threads |-> <<>>]
    /\ faults = 0 /\ crashes = 0
    /\ alone = {}
    /\ acked = NoMap
    /\ before = [t \in Threads |-> {}]
    /\ existed = [t \in Threads |-> {}]
    /\ seen = [t \in Threads |-> {}]

--------------------------------------------------------------------------------
(* What every operation has in common                                         *)

Me(t) == request[t].entity_name
At(t, where, op) == pc[t] = where /\ request[t].op = op

\* EntityStoreValidation::IsValidEntityName and the id < 0 checks.
Valid(t) ==
    /\ Me(t) \in ValidNames
    /\ request[t].op \in {"read", "update", "delete"} => request[t].id >= 0

\* The file system frees a file once nothing names it and no stream is open on
\* it.
Live(named, open) ==
    (UNION {Range(named[e]) : e \in Entities}) \cup (Range(open) \ {NoInode})
LiveInodes == Live(files, file)
KeepLive(content) == blocks' = [i \in Live(files', file') |-> content[i]]

Failure(op) == CASE op = "create" -> [id |-> -1]
                 [] op = "list" -> [ids |-> {}]
                 [] OTHER -> [ok |-> FALSE]

MayCall(t, req) ==
    /\ req.op \in Allowed[t]
    /\ req.op \in {"create", "update"} => req.data \in BodiesOf[req.entity_name]
    /\ req.op = "create" =>
           Cardinality(DOMAIN files[req.entity_name]) < MaxObjects

Call(t, req) ==
    /\ pc[t] = "idle"
    /\ MayCall(t, req)
    /\ pc' = [pc EXCEPT ![t] = "called"]
    /\ request' = [request EXCEPT ![t] = req]
    /\ existed' = [existed EXCEPT ![t] = DOMAIN files[req.entity_name]]
    /\ seen' = [seen EXCEPT ![t] = DOMAIN files[req.entity_name]]
    /\ UNCHANGED <<disk, reply, locals, faults, crashes, alone, acked, before>>

Finish(t, r) ==
    /\ pc' = [pc EXCEPT ![t] = "replied"]
    /\ reply' = [reply EXCEPT ![t] = r]
    /\ UNCHANGED <<request, crashes>>

\* Invalid arguments are turned away before the disk is touched.
Reject(t) ==
    /\ pc[t] = "called"
    /\ ~Valid(t)
    /\ Finish(t, Failure(request[t].op))
    /\ UNCHANGED <<disk, locals, faults, ghosts>>

\* create_directories, the iterator, an open or remove reports an error: the
\* call fails and has changed nothing that a caller can see.
Fail(t) ==
    /\ pc[t] \in {"called", "ensured", "found", "scanned"}
    /\ Valid(t)
    /\ faults < MaxFaults
    /\ faults' = faults + 1
    /\ Finish(t, Failure(request[t].op))
    /\ UNCHANGED <<disk, locals, ghosts>>

Return(t) ==
    /\ pc[t] = "replied"
    /\ pc' = [pc EXCEPT ![t] = "idle"]
    /\ request' = [request EXCEPT ![t] = Abstract!NoRequest]
    /\ reply' = [reply EXCEPT ![t] = Abstract!NoReply]
    /\ existed' = [existed EXCEPT ![t] = {}]
    /\ seen' = [seen EXCEPT ![t] = {}]
    /\ UNCHANGED <<disk, locals, faults, crashes, alone, acked, before>>

\* The process dies: its threads and their streams are gone, the disk is not.
\* The constructor of the next process finds the data directory in place.
Dies ==
    /\ crashes < MaxCrashes
    /\ crashes' = crashes + 1
    /\ pc' = [t \in Threads |-> "idle"]
    /\ request' = [t \in Threads |-> Abstract!NoRequest]
    /\ reply' = [t \in Threads |-> Abstract!NoReply]
    /\ ids' = [t \in Threads |-> {}]
    /\ coming' = [t \in Threads |-> {}]
    /\ file_id' = [t \in Threads |-> -1]
    /\ file' = [t \in Threads |-> NoInode]
    /\ data' = [t \in Threads |-> <<>>]
    /\ before' = [t \in Threads |-> {}]
    /\ alone' = {}
    /\ existed' = [t \in Threads |-> {}]
    /\ seen' = [t \in Threads |-> {}]
    /\ UNCHANGED <<dirs, files, acked>>
    /\ KeepLive(blocks)

Crash == Dies /\ UNCHANGED faults

--------------------------------------------------------------------------------
(* Reading a directory: Create and List                                       *)

\* The system reads the directory while others change it: an entry that stays is
\* returned, one that is made or removed meanwhile may be or not.
OpenDirectory(t) ==
    /\ At(t, "ensured", "create") \/ At(t, "found", "list")
    /\ ids' = [ids EXCEPT ![t] = {}]
    /\ coming' = [coming EXCEPT ![t] = DOMAIN files[Me(t)]]
    /\ pc' = [pc EXCEPT ![t] = "scanning"]
    /\ UNCHANGED <<disk, request, reply, file_id, file, data, faults, crashes, ghosts>>

\* Bug that AnswersReflectDirectory catches: a loop that ends at an entry whose
\* file is gone by now.
ScanWhilePresent(t) ==
    /\ pc[t] = "scanning"
    /\ \E id \in coming[t] :
          IF id \in DOMAIN files[Me(t)]
          THEN /\ ids' = [ids EXCEPT ![t] = @ \cup {id}]
               /\ coming' = [coming EXCEPT ![t] = @ \ {id}]
          ELSE coming' = [coming EXCEPT ![t] = {}] /\ UNCHANGED ids
    /\ UNCHANGED <<disk, pc, request, reply, file_id, file, data, faults, crashes, ghosts>>

\* Entries come in any order; that a file is there still does not matter to a name.
ScanEntry(t) ==
    /\ pc[t] = "scanning"
    /\ \E id \in coming[t] :
          /\ ids' = [ids EXCEPT ![t] = @ \cup {id}]
          /\ coming' = [coming EXCEPT ![t] = @ \ {id}]
    /\ UNCHANGED <<disk, pc, request, reply, file_id, file, data, faults, crashes, ghosts>>

\* The iterator's ++ and is_regular_file() throw where its constructor sets ec,
\* and on a pool thread nothing catches what they throw: the process ends.
ScanThrows(t) ==
    /\ pc[t] = "scanning"
    /\ faults < MaxFaults
    /\ faults' = faults + 1
    /\ Dies

Scanning(e) == {u \in Threads : pc[u] = "scanning" /\ Me(u) = e}

\* Some that read the directory will come to a new entry, some to one that is
\* gone.
EntryMade(e, id) ==
    \E some \in SUBSET {u \in Scanning(e) : id \notin ids[u] \cup DOMAIN files[e]} :
        coming' = [u \in Threads |-> coming[u] \cup (IF u \in some THEN {id} ELSE {})]

EntryGone(e, id) ==
    \E some \in SUBSET Scanning(e) :
        coming' = [u \in Threads |-> coming[u] \ (IF u \in some THEN {id} ELSE {})]

--------------------------------------------------------------------------------
(* Writing: Create and Update                                                 *)

EnsureEntityDirectory(t) ==
    /\ pc[t] = "called" /\ request[t].op \in {"create", "update"}
    /\ Valid(t)
    /\ dirs' = dirs \cup {Me(t)}
    /\ pc' = [pc EXCEPT ![t] = "ensured"]
    /\ UNCHANGED <<files, blocks, request, reply, locals, faults, crashes, ghosts>>

\* What another thread adds from here on is not in ids.
CreateScanned(t) ==
    /\ At(t, "scanning", "create")
    /\ coming[t] = {}
    /\ pc' = [pc EXCEPT ![t] = "scanned"]
    /\ UNCHANGED <<disk, request, reply, locals, faults, crashes, ghosts>>

\* Bug that TypeOK catches: the search for an unused id that starts at the value
\* that means failure.
LowestUnusedFromMinusOne(used) ==
    CHOOSE id \in -1..Cardinality(used) :
        id \notin used /\ \A lower \in -1..(id - 1) : lower \in used

\* Bug that CreateSparesExisting catches: the next id taken to be the number of
\* files: wrong once there is a hole.
CountAsNextId(used) == Cardinality(used)

LowestUnused(used) ==
    CHOOSE id \in 0..Cardinality(used) :
        id \notin used /\ \A lower \in 0..(id - 1) : lower \in used

\* A new file, named for its path and told apart from removed ones still open.
FreeInode(path) ==
    CHOOSE i \in {path} \X (1..(Cardinality(Threads) + 1)) : i \notin LiveInodes

EntityFilePath(e, id) == <<e, id>>

\* Bug that ImplementsEntityStore catches: a writer that forgets ios::trunc, so
\* that a longer old body shows behind the new one.
NotTruncated(content) == content

\* ios::trunc: what is left of the content of a file that is opened.
Truncated(content) == <<>>

\* std::ofstream: the file is made, or emptied if it is there.
OpenForWriting(t, id) ==
    LET path == EntityFilePath(Me(t), id)
        dir == files[path[1]]
        inode == IF id \in DOMAIN dir THEN dir[id] ELSE FreeInode(path)
    IN  /\ files' = [files EXCEPT ![path[1]] = Abstract!Put(dir, id, inode)]
        /\ file' = [file EXCEPT ![t] = inode]
        /\ KeepLive(Abstract!Put(blocks, inode,
                IF id \in DOMAIN dir THEN Truncated(blocks[inode]) ELSE <<>>))
        /\ file_id' = [file_id EXCEPT ![t] = id]
        /\ ids' = [ids EXCEPT ![t] = {}]
        /\ EntryMade(path[1], id)
        /\ pc' = [pc EXCEPT ![t] = "writing"]
        /\ alone' = LET others == {u \in Threads : pc[u] = "writing" /\ file[u] = inode}
                    IN  (alone \cup (IF others = {} THEN {t} ELSE {})) \ others
        /\ acked' = Abstract!Drop(acked, path)
        /\ before' = [before EXCEPT ![t] = IF id \in DOMAIN dir THEN {blocks[dir[id]]}
                                           ELSE {}]
        /\ seen' = [u \in Threads |-> IF pc[u] # "idle" /\ Me(u) = path[1]
                                      THEN seen[u] \cup {id} ELSE seen[u]]
        /\ UNCHANGED <<dirs, request, reply, data, faults, crashes, existed>>

CreateOpen(t) ==
    /\ At(t, "scanned", "create")
    /\ OpenForWriting(t, LowestUnused(ids[t]))

UpdateOpen(t) ==
    /\ At(t, "ensured", "update")
    /\ OpenForWriting(t, request[t].id)

\* Bug that ReadsOnlyOwnBlocks catches: a writer that appends (ios::app) instead
\* of writing from the start.
WrittenBehind(content, body, n) == content \o SubSeq(body, 1, n)

\* Bug that AckedDataSurvives catches: the answer sent before the stream is
\* flushed: the last block is missing.
WrittenButLast(content, body, n) ==
    SubSeq(body, 1, n - 1) \o SubSeq(content, n + 1, Len(content))

\* n blocks of the body go to the start of the file; what lies beyond them, put
\* there by another stream, stays.
Written(content, body, n) ==
    SubSeq(body, 1, n) \o SubSeq(content, n + 1, Len(content))

WriteAndClose(t, n) ==
    /\ file' = [file EXCEPT ![t] = NoInode]
    /\ file_id' = [file_id EXCEPT ![t] = -1]
    /\ before' = [before EXCEPT ![t] = {}]
    /\ alone' = alone \ {t}
    /\ UNCHANGED <<dirs, files, ids, coming, data, existed, seen>>
    /\ KeepLive([blocks EXCEPT ![file[t]] = Written(@, request[t].data, n)])

StillNamed(t) ==
    /\ file_id[t] \in DOMAIN files[Me(t)]
    /\ files[Me(t)][file_id[t]] = file[t]

Write(t) ==
    /\ pc[t] = "writing"
    /\ WriteAndClose(t, Len(request[t].data))
    /\ acked' = IF t \in alone /\ StillNamed(t)
                THEN Abstract!Put(acked, <<Me(t), file_id[t]>>, request[t].data)
                ELSE acked
    /\ Finish(t, IF request[t].op = "create" THEN [id |-> file_id[t]]
                                             ELSE [ok |-> TRUE])
    /\ UNCHANGED faults

\* The disk is full: part of the body is written, the stream turns bad.
WriteFails(t) ==
    /\ pc[t] = "writing"
    /\ faults < MaxFaults
    /\ faults' = faults + 1
    /\ \E n \in 0..(Len(request[t].data) - 1) : WriteAndClose(t, n)
    /\ Finish(t, Failure(request[t].op))
    /\ UNCHANGED acked

--------------------------------------------------------------------------------
(* Reading, deleting, listing                                                 *)

ReadOpen(t) ==
    /\ At(t, "called", "read")
    /\ Valid(t)
    /\ LET id == request[t].id
           dir == files[Me(t)]
       IN  \/ /\ id \notin DOMAIN dir
              /\ Finish(t, [ok |-> FALSE])
              /\ UNCHANGED file
           \/ /\ id \in DOMAIN dir
              /\ file' = [file EXCEPT ![t] = dir[id]]
              /\ pc' = [pc EXCEPT ![t] = "reading"]
              /\ UNCHANGED <<request, reply, crashes>>
    /\ UNCHANGED <<disk, ids, coming, file_id, data, faults, ghosts>>

\* Bug that EveryCallEnds catches: a read loop that looks at the first buffer
\* again and again.
ReadBlockAgain(t) ==
    /\ pc[t] = "reading"
    /\ Len(data[t]) < Len(blocks[file[t]])
    /\ data' = [data EXCEPT ![t] = IF @ = <<>> THEN Append(@, blocks[file[t]][1])
                                   ELSE <<>>]
    /\ UNCHANGED <<disk, pc, request, reply, ids, coming, file_id, file, faults, crashes,
                   ghosts>>

\* The stream buffer is filled again, from where the last fill stopped,
ReadBlock(t) ==
    /\ pc[t] = "reading"
    /\ Len(data[t]) < Len(blocks[file[t]])
    /\ data' = [data EXCEPT ![t] =
                   Append(@, blocks[file[t]][Len(data[t]) + 1])]
    /\ UNCHANGED <<disk, pc, request, reply, ids, coming, file_id, file, faults, crashes,
                   ghosts>>

\* until a fill finds the end of the file.
ReadEnd(t) ==
    /\ pc[t] = "reading"
    /\ Len(data[t]) >= Len(blocks[file[t]])
    /\ file' = [file EXCEPT ![t] = NoInode]
    /\ data' = [data EXCEPT ![t] = <<>>]
    /\ Finish(t, [ok |-> TRUE, out_data |-> data[t]])
    /\ UNCHANGED <<dirs, files, ids, coming, file_id, faults, ghosts>>
    /\ KeepLive(blocks)

\* What fs::remove returns.
Removes(dir, id) == id \in DOMAIN dir

Delete(t) ==
    /\ At(t, "called", "delete")
    /\ Valid(t)
    /\ LET id == request[t].id
           e == Me(t)
       IN  /\ files' = [files EXCEPT ![e] = Abstract!Drop(@, id)]
           /\ acked' = Abstract!Drop(acked, <<e, id>>)
           /\ existed' = [u \in Threads |-> IF pc[u] # "idle" /\ Me(u) = e
                                            THEN existed[u] \ {id} ELSE existed[u]]
           /\ EntryGone(e, id)
           /\ Finish(t, [ok |-> Removes(files[e], id)])
    /\ UNCHANGED <<dirs, ids, file_id, file, data, faults, alone, before, seen>>
    /\ KeepLive(blocks)

ListExists(t) ==
    /\ At(t, "called", "list")
    /\ Valid(t)
    /\ \/ Me(t) \notin dirs /\ Finish(t, [ids |-> {}])
       \/ /\ Me(t) \in dirs
          /\ pc' = [pc EXCEPT ![t] = "found"]
          /\ UNCHANGED <<request, reply, crashes>>
    /\ UNCHANGED <<disk, locals, faults, ghosts>>

ListEnd(t) ==
    /\ At(t, "scanning", "list")
    /\ coming[t] = {}
    /\ Finish(t, [ids |-> ids[t]])
    /\ ids' = [ids EXCEPT ![t] = {}]
    /\ UNCHANGED <<disk, coming, file_id, file, data, faults, ghosts>>

--------------------------------------------------------------------------------
Work(t) ==
    \/ Reject(t) \/ Fail(t)
    \/ EnsureEntityDirectory(t)
    \/ OpenDirectory(t) \/ ScanEntry(t)
    \/ CreateScanned(t) \/ CreateOpen(t) \/ UpdateOpen(t)
    \/ Write(t) \/ WriteFails(t)
    \/ ReadOpen(t) \/ ReadBlock(t) \/ ReadEnd(t)
    \/ Delete(t)
    \/ ListExists(t) \/ ListEnd(t)
    \/ Return(t)

Next ==
    \/ \E t \in Threads : \/ \E req \in Abstract!Requests : Call(t, req)
                          \/ Work(t)
                          \/ ScanThrows(t)
    \/ Crash

Spec == Init /\ [][Next]_vars

\* A running thread is scheduled again and again; nothing here waits for
\* another thread.
FairSpec == Spec /\ \A t \in Threads : WF_vars(Work(t))

--------------------------------------------------------------------------------
(* Properties                                                                 *)

Paths == Entities \X Int

\* The type invariant: entity directories hold named inodes, and only where
\* EnsureEntityDirectory has been; a stream is open exactly while its thread
\* reads or writes.
TypeOK ==
    /\ dirs \subseteq ValidNames
    /\ \A e \in Entities :
           /\ DOMAIN files[e] \subseteq Nat
           /\ \A id \in DOMAIN files[e] : files[e][id][1] = EntityFilePath(e, id)
           /\ DOMAIN files[e] # {} => e \in dirs
    /\ DOMAIN blocks = LiveInodes
    /\ pc \in [Threads -> {"idle", "called", "ensured", "found", "scanning", "scanned",
                           "writing", "reading", "replied"}]
    /\ \A t \in Threads :
           /\ pc[t] = "idle" <=> request[t] = Abstract!NoRequest
           /\ pc[t] = "replied" <=> reply[t] # Abstract!NoReply
           /\ pc[t] \in {"reading", "writing"} <=> file[t] # NoInode
           /\ ids[t] \cup coming[t] \subseteq Nat
    /\ faults \in 0..MaxFaults /\ crashes \in 0..MaxCrashes

\* The directory is shared without a lock, yet an answer never contradicts it
\* (when no system call failed): Read and Delete miss an object only if it was
\* gone at some moment of the call and find one only if it was there at some
\* moment, and List, whose entries come one by one while others are made and
\* removed, names every object that existed all along and none that never did.
AnswersReflectDirectory ==
    \A t \in Threads :
        pc[t] = "replied" /\ Valid(t) /\ faults = 0 =>
            CASE request[t].op \in {"read", "delete"} ->
                     /\ reply[t].ok => request[t].id \in seen[t]
                     /\ ~reply[t].ok => request[t].id \notin existed[t]
              [] request[t].op = "list" ->
                     existed[t] \subseteq reply[t].ids
                         /\ reply[t].ids \subseteq seen[t]
              [] OTHER -> TRUE

\* Create scans and opens in several steps, but it never empties an object that
\* existed before the scan and still does: the lowest unused id is a hole.
CreateSparesExisting ==
    [][\A t \in Threads :
          At(t, "scanned", "create") /\ pc'[t] = "writing" =>
              file_id'[t] \notin existed[t]]_vars

\* Whatever writers and readers do to one file at once, every block of a Read's
\* answer was submitted for that very entity at that very place of a body.
ReadsOnlyOwnBlocks ==
    \A t \in Threads :
        At(t, "replied", "read") /\ reply[t].ok =>
            \A n \in DOMAIN reply[t].out_data :
                \E body \in BodiesOf[Me(t)] :
                    n \in DOMAIN body /\ body[n] = reply[t].out_data[n]

\* A write answered with success that no other write of the same object
\* overlapped is durable: until the object is written again or deleted its file
\* holds exactly the body, whatever other calls do to other objects, and whether
\* or not the process dies.
AckedDataSurvives ==
    \A x \in DOMAIN acked :
        x[2] \in DOMAIN files[x[1]] /\ Stored(x[1])[x[2]] = acked[x]

\* The store promises what entity_store.h says to a single thread: until a
\* system call fails or the process dies, a call that overlaps no other one
\* takes effect at once.
ImplementsEntityStore ==
    /\ Abstract!Init
    /\ [][faults' = 0 /\ crashes' = 0 => [Abstract!Next]_(Abstract!vars)]_vars

\* No call waits for another one: each of them ends, in an answer or because
\* the process dies.
EveryCallEnds == \A t \in Threads : pc[t] # "idle" ~> pc[t] = "idle"

--------------------------------------------------------------------------------
(* What the documentation says and the code does not keep                     *)

\* Two successful Creates that are both unanswered made two objects.
CreatesAreDistinct ==
    \A t, u \in Threads :
        /\ t # u /\ At(t, "replied", "create") /\ At(u, "replied", "create")
        /\ Me(t) = Me(u) /\ reply[t].id >= 0
        => reply[t].id # reply[u].id

\* A file no thread is writing "contains the entity data".
FileContainsEntityData ==
    \A e \in Entities : \A id \in DOMAIN files[e] :
        \/ Stored(e)[id] \in BodiesOf[e]
        \/ \E t \in Threads : pc[t] = "writing" /\ file[t] = files[e][id]
================================================================================
