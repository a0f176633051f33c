# UCLA Bathroom Ratings: specifications

TLA+ specifications of the web server in this repository, TLC configurations
that check them on small instances, and TLAPS proofs of the properties that
matter most. Line numbers below are those of the files under `src/`, `include/`
and `assets/` of the repository.

Checking: `tlc -workers 2 -config <run>.cfg <module>.tla`, with the module
named for the run in `PROJECT.json`; proving: `tlapm <component>_proofs.tla`.

## The system

An HTTP server (`webserver <config>`) on Boost.Asio, and a page
(`assets/bathroom-map`) that it serves and that talks to it.

| component | state it keeps | operations | module |
|---|---|---|---|
| start-up: `server_main.cc`, `server_main_utils.cc` | `ServerConfig` while it is extracted | parse, extract, register, check, open the port | `Routing` |
| configuration parser: `config_parser.cc` | a stack of open blocks, the last two token types | `ParseToken`, `Parse`, `ToString` | `ConfigParser` |
| handler registry, dispatcher, factories | `_factories` (static map by path), `locations_` (list in file order) | `RegisterHandler`, `InitFromServerConfig`, `FindBestMatch`, `CreateHandler` | `Routing` |
| event loop: `server_main.cc`, `server.cc` | io_service queue, signal set, thread pool, the pending accept | `start_accept`, `handle_accept`, `stop`, join | `Server` |
| session: `session.cc` | socket, `data_`, `request_buffer_`, `response_`; the object deletes itself | `start`, `StartAsyncRead`, `handle_read`, `SendResponse`, `handle_write`, `HandleError` | `Server` (life and ownership), `Connection` (what is read and answered) |
| request parser, response builder | none | `Parse`, `Ok`, `BadRequest`, ... | `Connection` |
| API handler, `EntityStoreValidation` | none; shares a store | `handle_request` for POST, GET, PUT, DELETE | `Api` |
| entity store interface: `entity_store.h` | objects by entity and id | `Create`, `Read`, `Update`, `Delete`, `List` | `EntityStore` |
| in-memory store (tests) | table, `next_id_`, mutex | the same | `EntityStoreInMemory` |
| persistent store (the server) | none of its own: directories and files, no lock | the same, as system calls | `EntityStorePersistent` |
| static file handler | none; the file system | checks a path, reads a file | `StaticFiles` |
| echo, health, sleep, not-found handlers | none | an answer that depends on the request only | `Site`; that a handler takes time or throws, in `Server` |
| map page: `app.js` | `allBathrooms`, `heatLayer`, `markers`, route, location marker | `loadBathrooms` (one fetch per bathroom), refresh, route, locate | `BathroomMap` |

How they interact. Start-up fills the registry and the dispatcher once, before
any thread exists; afterwards they are only read. One `io_service` is run by
`hardware_concurrency()` threads, without strands and, apart from the in-memory
store's mutex, without locks. `server` always has one accept outstanding; each
connection has a `session`, whose handlers are called back one at a time because
it never has more than one operation outstanding. A read handler parses, asks
the dispatcher for a new handler object by the url, calls it in the same thread,
and starts the write. Handlers of the same location share one entity store, so
several threads are in it at once.

What is hard in it, and what makes each part correct:

* **Ownership.** Session objects are raw pointers that delete themselves, with no
  lock: one owner at any time, one acceptor, no completion lost, and an end after
  a signal.
* **A byte stream without framing.** TCP cuts requests anywhere; a request must be
  executed once, with its own body, and answered once and in order.
* **A shared store.** Ids must be fresh, calls atomic; the persistent store has
  several system calls per operation, other threads in between, failing calls
  and a process that may die.
* **Two tables for one question.** The dispatcher's list and the registry treat a
  path that is configured twice differently; a url must get the handler the
  configuration gives it.
* **A language.** The parser decides with one remembered token type and a depth
  what its grammar says; a configuration is what its text says.
* **Files that change.** The static handler looks at a file four times before it
  opens it, and treats an error differently each time.
* **Numbers.** A port in a short, an id that overflows an int.
* **The page.** Overlapping asynchronous loads write the same globals, and a
  callback may throw half way.

`PROJECT.json` lists these hazards one by one, each at its line, with the
properties that would catch it. Some have none: what can go wrong there is what the
code does whenever the case arises and contradicts nothing the repository says, so
that a property would only restate it. Their notes say where the model has the step.
Of static files these are the answer that never comes when `exists()` throws
(`request_handler_file.cc:42`) and the empty 200 for a file that is gone by its open
(line 82); of sessions, reads without a timeout (`session.cc:33`) and one that lasts as
long as its client does not close; of the event loop, a pool of no threads
(`server_main.cc:61`), which the model excludes; of the page, a heat layer or a search that
throws, a refresh of a list that has become empty, and the circles of earlier
positions. Others are covered in part, and their notes say which part: what a truncated
file loses when the process dies, the id that an overflowing number becomes, the word
that a configuration ends in, a request that takes two reads for its length, an older load
that ends last, an indicator that goes out early.

## The modules

Names of actions and variables are the code's where it has them. A module says
above each property what it is about; a definition "Bug that X catches" is a
plausible mistake, used in place of the definition below it to make sure that
property X can fail.

### EntityStore: the contract

The abstract specification of a store: a thread calls, the operation takes
effect in one step, the thread returns. It is as weak as `entity_store.h`:
`Create` may pick any unused nonnegative id or fail, `Update` and `Delete` may
fail, `Read` and `List` tell the truth. Where a mutation fails nothing changes.

### EntityStoreInMemory

`Lock`, the operation, `Unlock`. Create is cut at its statements: `CreateBegin`
finds or makes the entity's map, `CreateSkip` is one turn of the loop that skips
used ids, `CreateTake` takes a free one, `CreateInsert` stores the object; the
other operations are one statement on the table. `objects_by_id_by_entity_`,
`next_id_` and `mutex_` are the members; `pc`, `request`, `reply`, `new_id` are
the threads' locals; `issued` remembers the ids given out. Every operation makes
the map of an entity it meets for the first time, List and Read included. No
Create is called once `MaxCreates` ids are issued (several may be under way by
then), as `next_id_` only grows.

### EntityStorePersistent

A directory per entity and a file per object; since nothing else is shared, each
system call is a step: `EnsureEntityDirectory`, `ListExists`, `OpenDirectory`,
`ScanEntry` (one entry of the directory), `CreateScanned` and `ListEnd` (the
directory has been read), `CreateOpen` and `UpdateOpen` (open and truncate), `Write` (the one
write(2) when the stream is closed), `ReadOpen`, `ReadBlock`, `ReadEnd`, `Delete`.

A directory is read entry by entry while others make and remove files. What an
iterator has still to return is `coming`: the entries that were there when the
directory was opened, less those that are removed before their turn, and those that
are made meanwhile may come or not, which is what POSIX says of readdir. Entries come in any
order. `ids` is what has come. As the code puts the ids into a set or into a
list that is compared as one, an entry that readdir returns twice would not show.
The iterator and `is_regular_file` are the overloads that throw, and no thread of the
pool catches that: `ScanThrows` ends the process, like `Crash`. At most `MaxObjects`
objects exist, so a scan ends, as it does in a directory that grows more
slowly than it is read.

A file is a sequence of blocks, a block being one fill of a
stream buffer; a removed file stays usable through an open stream, so files are
inodes. `Fail` and `WriteFails` are system calls that fail (`MaxFaults`),
`Crash` the death of the process and its restart (`MaxCrashes`). What
`write(2)` was given survives a crash of the process; loss of power, which would
lose the page cache, is not modelled.

### Api and Resources

`Api` is `handle_request` with its checks in the code's order, for threads that
share a store: `HandleRequest` up to the store's call or the refusal, `StoreStep`,
`Respond`, and `Sent`, when the session takes the response. The store is module `EntityStore` itself, instantiated: `Api` relies
on what a store promises. (The persistent store breaks that promise for
overlapping calls, see the findings; what `Api` shows holds for it only as far
as calls do not overlap.) A url is a sequence of pieces: slashes, question marks and what
stands between them, a word in more than one piece where a shorter one begins it (`/apiary` is
`/`, `api`, `ary`). `ExtractSegments` keeps the code's treatment of the prefix, the query and
repeated slashes, and an id is the number of its digits wrapped to an int, the greatest of
which is `MaxInt`. The overflow is undefined in C++; the build's arithmetic wraps.

What a url names is stated without the code's loop. `Names(url, segments)` holds when what is before
the query, less a prefix that ends there or at a slash, spells exactly these segments;
`Denotes` is the id a number stands for, beyond the ints the one that it leaves when it
wraps. `OnlyWhatTheUrlNames` is made of these two: each object that changes was made, written or
removed by a POST, PUT or DELETE of exactly that entity, or exactly that entity and number, and holds that
request's body. The requests of the run are chosen so that a second object or entity is there to be
taken for it: in the query, behind the object, with the prefix twice, or in a word
that only begins like the prefix. That a number wraps at all is what the code
does; the property says which object is meant then, not that it should be.

`Resources` is what a client is promised: each request is answered once, by what
one moment between its arrival and its answer shows; 200 means it took effect
then, any other status that nothing was changed. `Api` implements it under the
mapping `Mapped`.

### ConfigParser

The parser as operators. A text is a sequence of characters; where the characters
of a word do not matter the word is one element. `ParseToken` is the code's:
skip white space, then one of the single characters, a comment up to the end of
its line, a quoted token with its escapes, or a word up to a delimiter; a word that
the file ends in is dropped. `ParseStep` is one turn of `Parse`'s loop, with the
stack of open blocks as a depth and the type of the last token. The tree is the
sequence of its statements with their depths, which is how `Parse` builds it:
always at the end. `ConfigToString` writes it.

### Routing

From a text to the handler of a url: `ParseTurn` (a turn of the loop of `Parse`),
then `LoadConfig` with what it has built; then the statements of the tree one at a time, those of the first `server` block with `EnterServerBlock`,
`ReadListen`, `EnterLocation`, `ReadHandler`, `ReadArg` and `EndLocation` (with
`RegisterHandlerForLocation`), all others with `SkipStatement`; `Start`
(dispatcher, `is_valid`, the acceptor, which may fail to get its port), and
`CreateHandler` for any url, with what the factory hands to the handler. The
properties speak of the tree of the file (`Children`, `Location`) and not of the
two tables that the code makes from it. A port is kept in a short, the greatest
of which is `MaxShort`.

### StaticFiles

`handle_request` of the static handler, each look at the file system a step:
`CheckExists` (which may throw), `Canonical`, `CheckExistsAgain`,
`CheckDirectory`, `CheckIndex`, `Read`. Between two of them `FileChanges` puts a
name in another condition: a content (the empty one too, which is not the same as a
file that cannot be read), a directory, absent, unreadable, unknown
(the system reports an error), or leading to another path, by a link or by `..`. The ghost
`seen` is what each name was since the request came.

The check of lines 54-59 is that of the code: the text of the root's canonical path is where the
text of the file's begins. `BeginsLikeRoot` says so of a path's directory, so that
what is in a directory beside the root with a longer name of the same beginning passes the
check and is answered with 200, and what is elsewhere gets 403. An `index.html` is put behind a
directory after that check, and where it leads is not looked at. src/README.md:345-349 says
of the check that it is there to "prevent directory traversal"; what it admits is more than what is
in the root, and `StaticAnswersReflectFiles` says what it is: 403 only if the name led
to a path that does not begin like the root's, 200 only if it did not do so all the time. Two
simplifications: what a path leads to leads nowhere itself, and what is at
index.html changes on its own, also when the way to its directory changes. `MaxFileChanges`
bounds the changes.

### Site

`Routing` and `StaticFiles` composed with the remaining handlers: from the text of a
configuration to the answer of a url, again and again. A static location hands
its path and root to the static handler; the answer is sent, the handler object
dropped, and the files may be anything when the next request comes.

### BathroomMap

The page. `loadBathrooms` is cut at its awaits: `StartLoad`, `ListAnswered` (the
server has answered, the page does not know yet), `ListArrives` or `ListFails`,
`FetchSettles` for each id, then `FinishLoad`, or `DrawFails` where a position
makes the heat layer throw. `FindNearest`, `PositionArrives`, `PositionFails` are
`findNearestBathroom` and its callbacks; `ShowRoute` and `ClearRoute` the route.
`Change` is another client of the API. `onMap` is what Leaflet holds, against what
the page's variables know of. A bathroom's data is a position, none, one that
only `parseFloat` understands, or one that nothing does. (An empty string, which Leaflet
takes for 0 and `parseFloat` for no number, is left out: no property depends on the
difference.)

### Server

The event loop. `outstanding` counts the operations begun on each socket, `queue`
holds completions in order, `at`, `on` and `failed` say which handler each thread
is in and where. Environment actions (`Connect`, `DataArrives`, `PeerResets`,
...) complete operations; `Spawn`, `Take`, `RunReturns` and `Exit` are the pool
and `main`; the others are handlers, cut where another thread may see the
difference. `HandlerThrows` and the throwing `remote_endpoint()` end the process
(`Terminate`). `Sessions` bounds the objects the allocator can hand out: no
connection arrives when none is left for the next accept.

### Connection

One connection. The client sends whole requests, TCP delivers them cut up
anywhere, a read returns up to `max_length` pieces. A request is a head (its
lines, and the empty line that ends it: two pieces, so that the end of the head
can be cut off) and some pieces of body. `ReadMore`, `ReadInvalid`,
`ReadRequest`, `ReadError`, `WriteDone` and `WriteError` are the paths through
`handle_read` and `handle_write`; the handler is a function of url and body.
`Pipelines` says whether clients send before they have their answer;
`MaxRequests` bounds what a client sends. The ghost `stream` is all that was sent.

## The runs

| run | instance | what it shows |
|---|---|---|
| `InMemory` | 2 threads, 2 entities, 1 id for callers to name, 2 bodies, Creates until one has its id | lock discipline, reserved and never reissued ids, implementation of `EntityStore`, progress |
| `PersistentOneThread` | 1 thread, ids -1, 0, 1, a valid and an invalid name, bodies of 1 and 2 blocks, 1 fault, 1 crash | types; implements `EntityStore` until something fails; durable writes, also then (6.6 thousand states) |
| `PersistentShared` | 2 threads, any calls, 1 crash, body of 2 blocks | what survives without a lock: truthful answers, of directories too that change while they are read, holes only, blocks in place, durable writes, every call ends (340 thousand states) |
| `PersistentRacingCreates` | 2 creators | finding: both get the same id |
| `PersistentMixedWrites` | 2 updaters, bodies of 1 and 2 blocks | finding: the file holds a mixture |
| `Server` | 2 threads, 3 session objects | one owner, one acceptor, sockets follow sessions, completions are handled, shutdown ends |
| `ServerCrash` | the same | finding: an early reset ends the process |
| `Connection` | up to 2 requests of 3 kinds, reads of up to 4 pieces, pipelining | one request is served once, answers read the stream, each is sent once, liveness |
| `ConnectionSecondRequest` | requests without body, no pipelining | finding: the first request is executed again |
| `Api` | 2 threads, 18 requests of every kind, 5-bit ints | implements `Resources`, changes only what the url names |
| `Site` | every text of up to 6 characters over three alphabets; server blocks of up to 3 directives; 4-bit shorts; 10 states of a name and its index, one path beside the root and one elsewhere, 2 file changes | the parser accepts its grammar and keeps the text; longest prefix, ports, start-up; static answers tell of the files (640 thousand states) |
| `BathroomMap` | 2 loads of 2 bathrooms, 1 change, 2 searches | what is shown is one load's, true of the store while it ran; nothing is lost track of; the indicator goes out |

Why the bounds are enough. Races need two threads: no code path waits for a
third, and every thread runs the same code. Three session objects give a
pending accept and two connections in any two stages at once; the code has no
state that relates more. Two blocks suffice to see a read or write in the middle
of a file, and two lengths to see a tail left over. One fault and one crash can
fall at any step; a crash leaves idle threads and a disk, and a file that it left empty or
cut short is a file like any other to the calls that follow. Texts of 6
characters hold a nested block and a statement behind it, or a quoted token with two
escapes: the parser remembers a token type and a depth, so longer texts repeat
its transitions. Three directives allow a path
configured twice with something between or around, and a listen on either side;
nested paths of three lengths and a url that continues a segment
distinguish longest from first match. Two changes let a file go and come back
between the checks of a request. Two loads of two ids overlap in every way, each
with an old and a new answer; a third would only be another one that is earlier
or later. 4-bit shorts and 5-bit ints have a sign,
a wrap, and a wrap to zero or to another object's id. Two requests suffice for
anything left in the buffer to meet a next one.

Where the system may really stop (the process ended, the connection done, the
start failed) the module has an explicit stuttering action (`Over`, `Ended`), and
deadlock is checked in all runs but `BathroomMap`: there the page comes to rest
when nobody does anything more, at no particular place.

### Fairness

* `EntityStoreInMemory`: each thread's steps are weakly fair, `Lock` included as
  it is enabled. A mutex does not promise each waiter its turn, so liveness
  speaks of some call completing, not of every one.
* `EntityStorePersistent`: a thread inside a call goes on (`Work`); nothing it does
  waits for another thread. That the iterator throws (`ScanThrows`) and a crash are no part of it.
* `Server`: `main` starts its threads, the operating system schedules them,
  handlers return (none loops or waits for another; the longest sleeps for 3
  seconds). Nothing is assumed of peers, the network or the user.
* `Connection`: the session's handlers are run, which `Server` shows, and bytes
  under way arrive unless the connection is reset. Clients need not send,
  close, or read.
* `BathroomMap`: a request that was sent is answered or given up by the browser,
  and its callback is run. Nothing is assumed of the user, who may leave the
  browser's question for permission open, or of other clients.
* `Api`, `Site`: none; their properties are of safety. (`handle_request` waits for nothing, so that it
  returns would follow from the fairness alone.)

### Findings

Four runs end with a violation, of something the repository's documentation,
comments or tests say (quoted in `PROJECT.json`):

1. `PersistentRacingCreates`: Create picks an id and opens it in separate steps,
   without O_EXCL, so overlapping Creates share an id and one object is lost.
2. `PersistentMixedWrites`: overlapping Updates of one object leave a file that is
   neither body.
3. `ServerCrash`: a peer that resets before `remote_endpoint()` is called makes it
   throw on a pool thread that catches nothing.
4. `ConnectionSecondRequest`: `request_buffer_` is never cleared; the second request
   on a connection executes the first one again with the second as its body.

For the same reason a body that arrives in a later read than its head is missed
at first and then makes the handler run again; `OneRequestServedOnce` therefore
speaks of bodies only when all of the request arrives in one read.

Two more disagreements have no run of their own; the properties state them as what the
code does. A word that the file ends in, with no newline behind it, is dropped, so `server {
... } foo` is accepted, although `config_parser.h:31-32` promises true "iff the input
config file is valid"; `foo` alone is rejected, as the test `Error_EofAfterNormalTokenIsInvalid`
(config_parser_test.cc:158) asks, but for the missing statement and not for the word. To the grammar such a
word is a token of its own, `CUT_WORD`: `AcceptsTheGrammar` says that the parser accepts it at
the end of a configuration and nowhere else, and `ConfigIsTheText` excepts such texts
from what `ToString` writes. The other is the check of static paths, see StaticFiles.

## The proofs

Proved with TLAPS, for every value of the constants that satisfies the modules'
named assumptions (any number of threads, sessions, entities, bodies):

* `EntityStoreInMemory_proofs`: `TypeCorrect`, `MutualExclusion`,
  `CreateOverwritesNothing`, `IdsIssuedOnce`, and `Implementation`, that the
  in-memory store implements `EntityStore`. `IInv` adds to these properties that
  requests are in place (a thread past "idle" has a proper request, and the
  steps of Create belong to a Create) and the facts on `next_id_` that make
  issued ids distinct: every id issued is below the counter. `LockHeldInside`
  is what makes the rest inductive: between `CreateTake` and `CreateInsert` no
  other thread is at a step that writes the table or the counter. For the implementation, the step of
  the contract is the one at which a thread reaches "done"; locking, picking
  the id and unlocking are stutters.
* `EntityStorePersistent_proofs`: `TypeCorrect`, `ReadsAreOwn`, `AcksAreDurable`, `AnswersAreTrue`, `CreateTakesNewIds` and `Implementation`, for any
  number of threads, entities and
  ids, bodies of any length, and any bound on faults and crashes. With no lock the
  invariant has to say what threads cannot do to each other. `Types` has two
  facts that carry it: an inode belongs to one path for good, and what is named
  or open is exactly what has content. `OwnContent` and `OwnReads` go together, since
  a reader copies a file that writers change. `AloneInPlace` (a writer that is alone
  has emptied its file and nobody has written it since) makes `AckedInPlace` stay:
  an acknowledged object is named, holds its body and is open in no writer.
  `ObserverFits` compares what has existed since a call began with the directory and
  with what has been seen. `ScanFits` does so for a directory that is being read: what has come was
  seen, what will come is there or was, and what has existed all along has come or will. Each
  step that makes, removes or returns an entry is shown to keep it (`EntriesCome`,
  `EntriesGo`), from which `AnswersAreTrue` follows for List and `CreateTakesNewIds` for Create. That Create finds a new id, and the file system a new
  inode, is a counting argument (`LowestUnusedIsUnused`, `OneNumberIsFree`), for which
  the module assumes a finite set of threads.
  `Implementation` is that the store implements `EntityStore` until something fails or
  dies, under the hypothesis `[]CallsDoNotOverlap` (at most one thread is in a call at
  a time): without it the findings 1 and 2 contradict it, and the run has it by having
  one thread. `Serial` is what a call then knows: the ids it listed are those in use, the
  file it writes is still named and empty, what it has read is how its file begins.
  Every step of a lone call is one of the contract or a stutter: the effect of
  Create and Update is the write(2), as `Objects` counts a file that is being
  written as what it was before; that of Read is at the end of the file.
* `Server_proofs`: `TypeCorrect`, `OneOwnerAlways`, `SocketsFollow` and
  `AlwaysOneAcceptor`. `OneOwner` speaks of a set of
  owners; `Ownership` says the same in a form a step can be checked against: of
  the operations, completions and handlers that could refer to a session exactly
  one does, or, if the session is not allocated, none. `SessionsNamed` is needed
  since a handler acts on the session its completion names. The argument then is
  that each action passes the one reference on: beginning an operation moves it
  from a handler to `outstanding`, completing to `queue`, taking to a thread;
  deleting drops it together with the object, and `start_accept` makes both.
  On top of that invariant, `SocketFollows` says of each socket which part of its
  session's life it belongs to; `AcceptOnce` that no two accepts exist,
  and `Accepts` that one does. The step that carries the proof is
  `handle_accept`, which hands the acceptor's session on and makes the next.
* `Connection_proofs`: `TypeCorrect`, `AnswersAreOfTheStream`, `AnswersAreSentOnce` and
  `FirstRequestIsServedOnce`. `Conserved` is the
  key: what the session has read followed by what is under way is what the
  client sent, so each buffer that is parsed is a beginning of the stream, and a
  head that is complete in it stays complete. `Answered` carries that to every
  answer, received, under way or being written, while the stream grows. That answers
  are sent once and in order holds by itself: a step takes an answer from one of the
  three places to the next, or adds the newest at the end, and a session that begins
  a write holds no other answer. `FirstRequest` speaks of a client that has sent at
  most one request: after one read there is at most one call, of what was read, and
  a request without body leaves nothing to read once its head is complete.
* `BathroomMap_proofs`: `TypeCorrect`, `OneLoadShown`, `OffersWereThere`, `NoOrphans`.
  To the properties `IInv` adds `Bounded` (the counters), `LoadsInOrder` (a load has
  no answers before its list, and layers only when it is done) and `Witnessed`
  (what a running load's list and answers say was in the store since it started). The properties
  are mutually dependent: that the old layers are removed needs `NothingIsOrphaned`,
  and that `heatLayer` is of the markers' load needs `MapShowsOneLoad`.
* `Api_proofs`: `TypeCorrect`, `ChangesWhatIsNamed`, and `Implementation`, that the
  handler keeps the promise of `Resources`, from the contract of the store. `ThreadFits` is the invariant: a
  thread in the store has a proper request and no response, so at most one of
  the two is seen in `Answers`. A refusal maps to `Refuse`, a call to `Ask`, the
  store's step to the operation, and responding to a stutter. The list of ids needs a
  lemma of its own: a finite set of ints can be put in ascending order
  (`AscendingLists`), shown from the least counterexample instead of by
  induction. It assumes that the store's new ids
  are ints and that `Number` gives natural numbers; of the requests that are sent,
  only that a url is a sequence of pieces. For `ChangesWhatIsNamed` the invariant is
  `NamedInv`: a call under way, and the body it carries, is what its request's
  url and body say (`Says`). The loop of `ExtractSegments` is shown to keep the segments found
  so far in their places in the path (`SegmentsFound`, again from the least counterexample), so that
  they spell it; `PrefixEnds` is that the code's test of the prefix and the one of `Names` agree, and
  `IdsAreDenoted` that the int of a number is the one it denotes. What an object becomes is then
  that of the store's step (`ChangesRequested`).
* `Site_proofs`: `TypeCorrect`, `StartsWithItsPort`, `GrammarAccepted`, `ConfigRoundTrip`,
  `LongestPrefix` and
  `StaticAnswersAreTrue`, for any texts, numbers, urls, range of shorts, contents and number
  of file changes. The invariant has five parts.
  `GrammarInv` says that a parser is either one whose end the grammar agrees with,
  or still under way with everything it needs to know about the tokens it has taken: their
  number of open blocks is the height of its stack and the last of them is the token it
  remembers (`Remembers`). Two arguments carry it. The recursive function `IsConfig` is
  first shown to be the same as `Balanced`, which is not recursive: depths that start and
  end alike, never come lower and change at braces only, and a rule for neighbouring tokens
  (`GrammarIsBalance`; each direction takes the shortest token sequence that
  would be an exception, and cuts it where its first statement ends). Then the parser is followed
  token by token (`ParsesGrammar`): a token that may follow keeps the sequence one that can
  still be balanced, a token that may not rules out every balanced continuation
  (`Unbalanced`), and at the end of the file balanced is what the parser asks for. As each
  token shortens the text, as many turns as it has characters, and one more, reach the end.
  `TextInv` says that what a parser has read so far is written by `ToString` up to where the
  last statement goes (`Written`), and two things of that. `ReadsBack`: from every text that
  begins with it, and tells its last word from what comes behind, `Parse` comes to the same
  parser; hence at the end of the file to the same tree. `WritesText`: without white
  space it is what has been read, unless there are comments. Both follow from what a single
  token does, which is in `ConfigParser_proofs`: there the five
  cases of `Consume` each add to the text the token, white space before it and at most
  the end of the line behind it (`TokenAdds`), and a token that was read is read again between
  other white space (`TokenAgain`), since what tells where it ends (a delimiter, or the
  closing quote) is written with it. The parts of `ToString` that
  close blocks are written late, with the statement after them, so the text of a parser
  closes as many as its stack says, and one token moves the
  rest (`BlockEndAdds`). `FlattenSeq`, whose definition is recursive, is known by its
  values for the empty sequence and for one with one more element (`FlattenFacts`).
  `RoutingInv` says what has been extracted from the statements before `at`: outside
  of the server block nothing; in it (`Extracted`), the port of its last `listen` so far,
  and of its locations so far the list in order of the file and the
  registry's last factory for each path; inside a location (`Reading`), what its
  directives so far say as well. A step visits one statement, so the proof is of
  what one more child adds (`ChildNext`, `LastValueAdd`, `ConfiguredAdd`) and that a
  block ends where a statement is no deeper than it (`ChildrenEnd`). When the port is
  open, `Extracted` speaks of the whole tree, and `BestMatch` shows that the first
  of the longest prefixes in the list, together with the factory last registered for
  its path, is the last block with that path.
  `DispatchInv` says that the handler is the one the dispatcher finds for some url.
  `FilesInv` says for each stage of a static request what the looks before it have found
  out (`Looked`), and what is still so if nothing has changed since (`Calm`). What each
  outcome may tell is a lemma of its own, so that the look at which
  an answer is given need only name the condition it saw.
  Assumed is that the default port is a short, that words spell ints, that texts
  and urls are sequences of characters, and that no content is mistaken for another
  condition. For the routing the proof uses of the parser only that it builds statements of words
  (`ParseStepOK`), whether or not it accepts.

Model-checked only: all liveness properties, as liveness under fairness and ENABLED are
beyond the prover. Every safety property of the passing runs, invariant or action property,
is proved.

## What is not modelled, and why

* Wording: headers, MIME types, log lines, the text of errors; on the page,
  popups, alerts and the view. No property is about them, and nothing else reads
  them. The JSON parser is a set of valid bodies, the request line and headers
  are valid or not.
* Libraries: Leaflet and its plug-ins, `atoi` and the file system are modelled by what
  the code sees of them.
* In `Site`, the answers of the API handler, which are those of `Api`, and several
  requests at once: handlers share nothing but files that others change anyway,
  and the stores.
* Torn reads: a `Read` that overlaps an `Update` may return blocks of both. It is in
  `EntityStorePersistent`, and `ReadsOnlyOwnBlocks` says how far it goes, but no
  document of the repository promises more to readers.
* Timeouts: the code has none. A silent client keeps its session for ever, in the
  model too.
* `hardware_concurrency()` returning 0: `Server` assumes a non-empty pool.
* Power loss, and several processes on one data directory.
* Tests, build files, Docker files, style sheets.

## Plan

Done: all components with state, alone and, where they interact, composed: `Api`
over `EntityStore`, `Site` over `Routing`, `ConfigParser` and `StaticFiles`.

Proved: every safety property that a passing run checks, for every value of the constants.
What is left is liveness, which stays with TLC.
