# A TLA+ model of SyncLink

SyncLink is a small distributed file system in C: one *naming server* keeps a
catalogue of paths, several *storage servers* keep the files, *clients* ask the
naming server who has a path and then talk to that storage server directly.
This directory holds TLA+ modules that model the naming server, the storage
server, the client, the bytes that they exchange and the copying of files from
server to server, TLC configurations that check them on small instances, and
proofs of the main results for instances of any size. Source paths below are
relative to `src/src/`.

Contents: [1 The system](#1-the-system) - [2 Modules](#2-modules) -
[3 Runs](#3-runs) - [4 Bounds and fairness](#4-bounds-and-fairness) -
[5 Proofs](#5-proofs) - [6 Disagreements found](#6-disagreements-found) -
[7 Not modelled](#7-not-modelled) - [8 Plan](#8-plan)

## 1 The system

### Inventory

| component | state | operations | talks to |
|---|---|---|---|
| Path catalogue, `NM/trie.c` | a 256-way prefix tree, path -> server id | `insert_trie`, `search_trie`, `delete_trie` | called by `ss_info.c` under `path_ss_info_lock` |
| Lookup cache, `NM/hash.c` | a table of `HASHTABLE_SIZE` = 2 slots with second-granular ages | `addPath`, `deletePath`, `getSSID` | called by `ss_info.c` under its own lock |
| Naming server memory, `NM/ss_info.c` | two address tables, catalogue, cache, registered flags; one mutex each | `register_ss`, `add_path`, `remove_path`, `get_ss_id_of_path`, `get_random_registered_ss_id` | shared by all threads of the naming server |
| Client handler threads, `NM/client_handler.c`, `NM/request_handlers/*` | per thread: request, looked-up server, response | CREATE, DELETE, READ, WRITE, FILE_INFO, GET_LIST, COPY | clients; storage servers, one connection per request |
| Registration thread, `NM/ss_handler.c` | the server being registered | receive a registration, `register_ss`, answer OK | storage servers |
| Storage server start-up, `SS/main.c`, `SS/initialize.c` | the list of paths on disk | scan the disk, register, start the acceptors after OK | registration thread |
| Storage server, requests of the naming server, `SS/nm_handler.c`, `SS/create.c`, `SS/delete.c` | the server's tree and `../backup`, shared by the servers of a machine | create and delete on the primary tree, then on the backup | naming server |
| Storage server, requests of clients, `SS/client_handler.c` | open files, offsets | READ, WRITE (streams), FILE_INFO, GET_LIST, COPY, and CREATE/DELETE for a copying server | clients, other storage servers |
| Master lock, `SS/file_lock_master_lock.c` | one mutex of the process | acquire, release | READ, WRITE, DELETE of the storage server |
| File lock table, `SS/file_lock.c` | a table of locked inodes | `read_lock_file`, `write_lock_file`, `unlock_file` | nobody: not linked |
| Framing, `Common/network_utils.c`, `requests.c`, `responses.c` | bytes of a stream received so far | send and receive of typed messages, requests, responses | everybody |
| Client, `Client/*` | an interactive session | one request at a time | naming server, then a storage server |
| Logging, `Common/loggers.c` | none | output | - |

### What is hard about it

* The naming server holds one lock per piece of memory and never two of them.
  A lookup reads the cache, then the catalogue, then fills the cache in three
  critical sections; `add_path` and `remove_path` are two sections each; a
  registration is five. Everything can come in between.
* Between a lookup and the update of the catalogue a handler waits for a storage
  server, which may die on the call. The answer is read with `recv`, whose
  0 is taken for success, so that a response that was never written is used.
* `delete_trie` removes a subtree chosen by a walk that skips characters without
  a child; what is removed is not simply the word it was given.
* The storage server changes two trees per request, by separate system calls,
  from many threads. Creates take no lock, deletes and streams take the master
  lock per file, and some returns skip its release.
* `fcntl` record locks belong to the process: among the threads of one server
  they lock nothing.
* A connection carries typed messages and bare bytes side by side, with no mark
  to tell them apart; `recv` may return less than it was asked for, and its 0, the
  end of the connection, is not looked at.
* A storage server that copies is a client of another one, or of itself, while it
  walks a tree that others change; the WRITE handlers it starts go on after it.

The correctness properties that follow for each component are listed with the
modules below; `PROJECT.json` lists every hazard with the line where it bites
and the properties that watch it.

## 2 Modules

```
WordMap  <=(refined by)=  TrieStore
                              |
                            Trie   PathCache
                               \    /
                              SsInfo
                                 |
                            NamingServer      StorageServer      Copying
TrieProofs               ->  NamingProofs     StorageProofs    CopyingProofs
TrieProofs               ->  TrieStoreProofs

      Frames
        |
     Framing  (two instances, up and down)  ->  ClientSession
  FramingProofs             ->  SessionProofs  ->  AgreementProofs
```

`Trie`, `PathCache` and `SsInfo` are extended by `NamingServer`; `StorageServer`
stands by itself: it is one storage server in full detail, while `NamingServer`
contains all storage servers as the naming server sees them, a tree operation
being one step there. `Copying` has the servers of a copy side by side, the
naming server's part of it included, and takes lookups and deletes, which the
other two take apart, as one step. `ClientSession` has the client, the handler
thread it talks to, and the connection between them byte by byte. A `MC...`
module gives the constants of an instance. Definitions introduced by a comment
"Mutant of" are broken variants used to show that the properties can fail; no
specification uses them.

### Trie, TrieStore, WordMap (`NM/trie.c`)

A tree is a function from its nodes to their data, a node being the word that
leads to it. `Insert`, `Search`, `Delete` are `insert_trie`, `search_trie`,
`delete_trie`; `Walk`, `IsLeafNode`, `CheckDivergence`, `LongestPrefix` are its
helpers, skipped characters and terminating NUL included. `TrieStore` is the
state machine "any sequence of calls" (they are serialised by a lock). `WordMap`
is what the catalogue really promises: putting a word changes that word only;
deleting a word that is there removes it together with some prefixes and
extensions of it, or removes nothing; deleting a word that is not there may take
away words with the same first character. `ImplementsMap` is the refinement.
`NoDanglingBranch`: every branch ends in data, although subtrees are cut and
never pruned upwards.

### PathCache (`NM/hash.c`)

A slot is path, server and whether its time is the current second; that is all
the code ever asks of the time. `AddPath` keeps the order of the code: refresh a
hit (keeping its server), else the first free slot, else the last old one, else
`insert_at` is indeterminate: either any slot of the table, or the process dies
(`AddPathCrashes`).

### SsInfo, NamingServer (`NM/*`, and `SS/` from outside)

`SsInfo` has one operator per critical section of `ss_info.c`. In `NamingServer`
a thread is a record with a program counter:

| pc | code |
|---|---|
| `idle` -> `cache` -> `trie` -> `fill` | accept, request, `get_ss_id_of_path` (three sections) |
| `pick`, `connect` | choice of a server for a top-level create; socket, connect, send |
| `primary`, `backup`, `reply` | the server's `nm_handler` on its two trees |
| `cut` | the server died on the call |
| `trieAdd`, `cacheAdd` / `cacheDel`, `trieDel` | `add_path` / `remove_path` |
| `redirect`, `answer` -> `done` | the answer |

CREATE looks up the target and then its parent; READ and WRITE differ in nothing
here, neither do FILE_INFO and GET_LIST. The registrar walks through
`register_ss` section by section, then answers. Storage servers boot (announce
their disk), go up when told OK, crash and boot again. `held` is a history
variable: which server ever had which path; so is the `removed` of a thread: what
its DELETE has taken from the disk.

Properties:

* `AddressPublished` - no thread ever gets hold of a server whose addresses are
  not written yet, although registration is not atomic.
* `Provenance` - what catalogue, cache, lookups and redirects say was once so.
  Stale cache fills are possible and allowed; invented owners are not.
* `NoDuplicateEntries` - a path has one cache slot, although two threads may
  miss and fill at the same time.
* `CreatedStaysVisible` - a confirmed create stays findable until a DELETE of a
  path with the same first character has gone through (nothing stronger is true
  of `delete_trie`).
* `NoLostPath` - what is on a disk is in the catalogue, but for creates in flight,
  cut, or refused by the backup, and for what a delete with the same first character
  took along.
* `NoPhantomPath` - what the catalogue places on a server is on its disk, unless a
  DELETE took that very path from there, or its create on that server was cut. A
  DELETE that was refused, could not connect, or found nothing excuses nothing.
  That the catalogue keeps what a DELETE has taken (it is told later; not at all
  when part of the DELETE fails or `delete_trie` does nothing) is what the code does.
* `NeverStuck`, `EveryServerGoesUp` - every request is answered, every server
  that registers goes up, through crashes.

### StorageServer (`SS/client_handler.c`, `nm_handler.c`, `create.c`, `delete.c`, master lock)

A step is a system call or a lock operation. The two trees map a path to nothing,
a folder or an inode; the files are sequences of chunks, a chunk being the thread
that wrote it. `delete_file_or_folder` is recursive: a thread that deletes has a
stack of frames, each at stat, opendir, readdir, lock, open or remove. `readdir`
returns what was there at opendir and still is, and may return what came since,
no name twice. Reads and writes go through the offset of the thread's own
descriptor; a file that has been removed lives on for those who have it open.
A record lock held by one thread never stops another thread of the process, so
record locks have no state in the model.

The early returns with the lock held are actions of their own: `ReadLeaks`
(`client_handler.c:82`), `WriteLeaks` (`:419`), `BackupDeleteLeaks`
(`delete.c:157`; only the outermost backup call returns so, inside a folder the
primary function is used, which releases).

Properties:

* `DeleteRemovesWhatItOpened` - a delete truncates a file, then removes a path;
  nobody changes what the path names in between.
* `LeakNeedsRace` - the master lock is lost only by a WRITE, or by a READ or a
  DELETE that ran along with a related delete; never otherwise.
* `DeletedIsGone` - after a DELETE was answered OK, what it covers is gone, but
  for what was made since and what a second delete is about to remove.
* `Undisturbed` - a stream that has its file to itself (`alone`: no WRITE was
  streaming into the file when it was opened, nobody has truncated it since) is right:
  a writer finds exactly its own data and a reader sends the whole file. Nothing is
  said of what the others find: the second of two overlapping WRITEs is one of them,
  although nobody truncates what it writes. But a stream is one of them only if it
  has a rival (`Contested`): another WRITE that has had that file open, or a CREATE
  or DELETE of its path.
* `MirrorKept` - at rest the two trees have the same shape, if the changes came
  from the naming server, all were answered OK and no delete raced.
* `StalledClientBlocksNobody` - a client that stops in the middle of a stream
  holds up nobody, unless the lock has been lost already.

### Frames, Framing (`Common/network_utils.c`, `requests.c`, `responses.c`)

`Frames` has the items that are sent: messages (type, length, payload) and bare
blocks (a response byte, an address, what `stat` returns). `Framing` is one
direction of a connection. The sender hands over one field per `send`, a payload
in chunks, and may stop between them; the receiver asks for a message or a block
and takes what comes: type and length with one `recv` each, assumed complete, a
payload in a loop that never looks at 0. `astray` records that a fixed field was
read in part, or that something was asked for that is not what comes next.

* `ReceivedAsSent` - what was received whole is what was sent, in order.
* `SpinsOnCutItems` - a receiver is in the endless loop of `receive_message`
  only for the rest of a message that its sender left unfinished.

### ClientSession (`Client/*`, the handlers from the other end)

The client's loop: a command, a connection to the naming server, a request, and
what follows: an answer, or a redirect, a second connection and a request to the
storage server, then a stream to be shown, lines to be sent, a `stat` or rows.
The handler thread receives, dispatches and answers with every order of messages
that `client_handler.c` has on either server, its errors in the middle of
an operation included. `up` and `down` are instances of `Framing`. Servers crash,
the client is killed or stops in the middle of a WRITE, a peer that goes away may
kill the other by SIGPIPE, and descriptors stay open as the client leaves them.
A chunk of a file fills the buffer, or is the last one, and may have a NUL in it;
what READ shows of it is what "%s" makes of its buffer (`Text`, `Beyond`).

* `AgreeOnWhatComes` - client and handler agree on the next item and its length on
  every path, with three exceptions: a READ and a GET that fail at the storage
  server, and the rows of every LIST: the client asks for `RowsWanted`, the 400 rows
  of `MAX_PATH_LENGTH + 1` bytes of its table (`list.c:108`), the server sends 400
  rows of `MAX_PATH_LENGTH` (`client_handler.c:520`).
* `EofMeansAll` - what READ receives is a first part of what the server streams, and
  all of it when it prints EOF, unless the server was gone (a cut header and an end
  look the same to it). What it shows is what it received only if that is a single
  chunk, not a full one, without a NUL: `read.c:105` and `:116` print a full chunk
  beyond its end, and any chunk up to the first NUL. Of all other files the model has
  the code's wrong output, and nothing is claimed.
* `OkMeansWritten` - a WRITE that was told OK has all its lines written.
* `SameSocket` - READ and WRITE `connect` the descriptor they have just closed
  and send on another variable: it is the same socket.
* `ServersOutliveClients` - no client that goes on ends a server by SIGPIPE, but
  for the second answer to a GET or LIST of an unknown path.
* `CommandsEnd` - every command comes to its end, with the exceptions that
  the code makes: a handler that waits for others for ever (the master lock, another
  server), a message cut off, a short field, a storage server that fails in READ,
  WRITE or GET.

### Copying (`NM/request_handlers/copy_request_handler.c`, `copy_` in `SS/client_handler.c`)

A COPY is one chain of calls from the client's thread at the naming server to the
server of the source to the server of the destination, each waiting for its
answer, so it is one thread with the program counter

| pc | code |
|---|---|
| `source`, `target`, `parent`, `connect` | `copy_request_handler.c:13-70` |
| `check`, `copy` | the COPY case of the storage server; `copy_` with its stack of folders |
| `table`, `waits`, `rows` | `send_copied_paths` and `receive_copied_paths`; `add_path` row by row |
| `primary`, `backup`, `add`, `forget` | CREATE and DELETE of the naming server, which run beside it |

An entry at work is at `stat`, `create` (a CREATE request to the destination),
`opendir`, `list`, `write` (a WRITE request to the destination), `open`, `read`.
The WRITE handlers at the destination are processes of their own, with the chunks
that are on their way to them in a queue: `copy_` closes the connection
and goes on without their answer. An early return with the master lock held makes
a server `jammed`, as `StorageServer` shows in detail. `disturbed` is a history
variable: the requests that had a request for a related path beside them.

* `CopyIsWhole` - an undisturbed copy that has returned 0 has every entry of the
  source, the data being in the file or on their way.
* `NothingButTheSource` - and nothing else, also when it copies a folder into
  itself, and also half way.
* `ListedIsThere` - whatever fails and races, the catalogue names no path that is
  not on the disk, unless it was deleted.
* `ThereIsListed` - an entry that the catalogue does not know was left by a copy
  or create that failed or had company, or was forgotten along with another.
* `DeletedCopyStays` - what the code does with a copy that is deleted: no backup
  was made of it, so the DELETE empties it, is answered with an error and leaves
  the path in the catalogue.
* `UndisturbedCopyEnds` - no lock and no call between the two servers, which may
  be one, keeps an undisturbed copy waiting.

## 3 Runs

| run | what it asks | result |
|---|---|---|
| `trie_store` | any insertions and deletions of eight words over two characters and two values: shape, no dangling branch, refinement of `WordMap` | holds |
| `naming_crash` | two requests of eight kinds, one server that may crash and restart, three initial disks: the inductive invariant `CatalogueInv` and all safety properties of the naming server | holds |
| `naming_race` | three racing requests (create, delete and read of one file, mkdir of a folder), two servers, empty disks: the properties relating cache, catalogue and disks | holds |
| `naming_live` | one request, two servers, two crashes, with fairness: everything is answered, every server goes up | holds |
| `storage_race` | three requests out of ten, for a folder and the file in it, one or two chunks: the inductive invariant `StoreInv` and all safety properties of the storage server | holds |
| `storage_live` | a delete, a read and a write of one file, with fairness of the server and none of the clients | holds |
| `session` | three commands (of all seven kinds, COPY included), short reads, crashes, a client that is killed: framing and session properties, and that commands end | holds |
| `copy` | two requests out of ten (copies to another place, of the copy, into the source; creates and deletes of the same paths), two servers | holds |
| `copy_table` | one copy with the real sizes of table and chunk: is a copy that was made confirmed? | violated |
| `delete_forgets` | does a confirmed DELETE leave the catalogue? | violated |
| `stays_up` | can clients bring the naming server down? | violated |
| `lock_leaks` | does every request of a storage server end if clients keep up their streams? | violated |

A violated run states what the repository says of the program; section 6 tells
what TLC found.

Deadlock is not checked where a behaviour may end: the requests of a behaviour
are bounded by `Threads`, the naming server may die, a lost master lock may stop
every thread. That a request is not forgotten on the way is the subject of
`NeverStuck`, `StalledClientBlocksNobody`, `CommandsEnd` and
`UndisturbedCopyEnds` instead. `trie_store` has deadlock
checking on.

## 4 Bounds and fairness

* `HASHTABLE_SIZE` = 2 is the value of `hash.h`. Three paths (`d`, `d/x`, `e`)
  fill and overflow the cache.
* The naming paths have a folder, a file in it, and a path with another first
  character, so that the catalogue branches at the root, has a word that is the
  prefix of another, and has a create that must look up its parent. An absolute
  path is among the requests, so that path validation is exercised.
* `Threads` is the number of requests of a behaviour. Two requests are enough
  for each pairwise race of critical sections; `naming_race` adds a third, which
  is needed to fill the cache between two steps of another one.
* `MaxCrashes` 1 or 2: a crash, a restart and a second registration are within
  it.
* `StorageServer`: one folder with one file in each tree, three threads. Two
  levels are enough for the stack to wait on a folder; a third thread makes the
  file appear or vanish while a delete and a stream are under way.
  `MaxChunks` 2 makes a write extend past, or fall into, another one's data and
  a truncation leave a hole.
* `ClientSession`: `MaxCommands` 3, `MaxFd` 2 and `MaxChunks` 2: two commands
  may leave their sockets open before a third finds no descriptor; a stream has a
  first and a last chunk. The buffer of a chunk has two bytes instead of 1024, the
  least for which there are full chunks, full ones with a NUL, and shorter ones; the
  client wants one byte of rows more than is sent, instead of 400. `MAX_CHUNK_SIZE` 1 cuts every payload in two, so
  that a `recv` can end inside every field. A length has two bytes instead of
  eight, a path or an address one or two.
* `Copying`: a folder with a file of one chunk in it, two servers, two requests;
  the second request may be a copy of the copy or a delete of either end at
  any point of the first. The paths are one level deeper than the folder, so that
  a copy of the folder into itself would have room to go wrong. In `copy` the
  table of copied paths fits one chunk (`MAX_PATH_LENGTH` 1,
  `MAX_ACCESIBLE_PATHS` 8, `MAX_CHUNK_SIZE` 8), without which no copy is ever
  confirmed; `copy_table` has the real sizes, 4096, 400 and 1024.
* Symmetry is used on `Threads` only, in runs of invariants only: threads are
  interchangeable, paths and servers are named by the requests and disks.

Fairness of the naming server: weak, per thread of the naming server and for the
registrar. Each is a POSIX thread that waits only for mutexes held over a single
critical section (which is one step here). Nothing is assumed of clients (they
need not send), of the clock, or of storage servers: `NeverStuck` does not count
the time a storage server works on a request, and `EveryServerGoesUp` starts when
the server has sent its request. Weak fairness of the disjunction
`ThreadStep(t)` is what the scheduler gives: which branch is taken is never
assumed.

Fairness of the storage server: `FairSpec` has weak fairness of `ServerStep(t)`,
the steps the server makes by itself; a step of a stream needs the client and
carries no fairness. Weak fairness of a lock acquisition means that a mutex that
is free from some time on is taken. A thread that waits while others take and
release it could starve under weak fairness in an unbounded behaviour; with
bounded requests that cannot happen. `FairClients` adds fairness of streams for
`lock_leaks`, where the violation must not be the client's doing.

Fairness of a session: weak for the client's program as a whole, which waits for
nothing but the handler's bytes, and for the handler thread where it waits for
nothing but the client's. Where it waits for others it is given no fairness at all
(`AwaitsOthers`): in a CREATE, DELETE or COPY of the naming server, for a storage
server; in a READ, WRITE, DELETE or COPY of a storage server, for the master lock, which
`lock_leaks` shows may be lost for ever, or for the other server. A handler may
stay there, and `CommandsEnd` excepts this (`<>[]AwaitsOthers`). The mutexes of the
naming server are held for one critical section only and are not counted. Nothing is
assumed of the user: typing a line of a WRITE, or giving a command, need not happen;
nor need a crash.

Fairness of a copy: weak, per thread (a chain of calls, of which one process at a
time is at work) and for the WRITE handlers that it has started. The branches
that a thread may take, a connection that fails among them, are one disjunction:
none is assumed. A thread that waits for the table or for a lost lock has no step.

## 5 Proofs

All theorems are for any constants that satisfy the named assumptions:
`CacheAssumption` (the table has a slot), `SSAssumption` (no server is called
-1), `SlashAssumption` ('/' is a character), `RequestsAssumption` (requests and
disks are well formed), `WordsAssumption` (no word is empty, no value means
"none"); for the storage server `TreesAssumption` (the inodes of the initial
tree are numbered from 1, no file has two names, what exists is in a folder) and
`StorageAssumption` (paths are not empty and have their parents, READ and WRITE
come from clients, the value for "nobody" is no thread); for copies `CopyingAssumption` (each beginning of a path is a
path, no path is on two servers at first) and `WorldsAssumption` (what is there at
first is in folders, no file has two names); `SessionAssumption` for the bounds of a session.

`TrieProofs` proves what the operators of `Trie` keep: insertion and deletion map
trees to trees (`InsertIsTrie`, `DeleteIsTrie`, the latter for words that are not
in the tree too), deletion takes whole subtrees and never the root
(`DoomedIsSubtree`), an insertion writes one datum and a deletion none
(`InsertData`, `DeleteData`). The first lemmas of `NamingProofs` say that a path
never gets a second slot from `AddPath`, `DeletePath` or a new second.

`TrieStoreProofs` proves `StoreTyped`, `NoneDangling` and `StoreImplementsMap`: for
any words, whatever is inserted and deleted, every branch of the tree ends in data,
and the tree implements `WordMap`. What is needed is how far `Walk` gets, and
`Walk` is a recursive function, so that its value is taken step by step from
its defining equation and a property that failed would have a least place where
it fails (`WalkSteps`). As long as the word is in the tree no character of it is
skipped, so that `LongestPrefix` is the word up to its last divergence. The
subtree that is cut begins one character after that divergence; a word
in it that were not comparable to the deleted one would part from it further down,
which would be a later divergence (`DoomedAreComparable`). The node above the cut
is a divergence: it has data or another child, hence no dangling branch is left.
For a word that is not in the tree only the first character is left to rely on,
which is what `WordMap` allows (`DeleteForgetsLittle`).

`NamingProofs` proves `Spec => []IInv` and from it `TypeCorrect`,
`AddressesAlwaysPublished`, `ProvenanceHolds`; `NoDuplicatesAlways` is inductive
by itself once the cache is known to be one. The conjuncts of `IInv` need one another:

* `AddressPublished` is kept by a lookup because cache and catalogue satisfy it;
  by `RegisterPaths` and `RegisterFlag` because of `RegistrarOK` (the registrar is
  past both addresses).
* `Provenance` of the cache after a fill needs `LookupProvenance` of the thread,
  which comes from the catalogue at the earlier lookup; `Vouched` never becomes
  false again, which is why staleness does no harm here. A recorded create needs
  `CreateVouched`: the server reported OK, hence has had the path, or the
  connection was cut and the response is garbage (`cut` is never reset).
* `ThreadOK` ties program counter, request kind and known server together.

The proof goes through `StepKeepsIInv` / `ThreadUpdate`: a step of thread t keeps
the invariant if its new record satisfies the per-thread parts and what it does
to the shared memory keeps the shared ones. Each action is then a lemma.

Its second half proves `Spec => []CatalogueInv`, and from it
`CreatedAlwaysVisible`, `NoPathEverLost` and `NoPhantomPathEver`. None of the three
is inductive: each relates the catalogue, which is changed at the end of a request,
to a disk that was changed earlier, at another process. The invariant puts between
them what never goes away again:

* `Backed(s, p)` - server s has p, or somebody has taken it (`Excuses`: a DELETE
  that was served by s has p among the paths it took from the disk, or a create of p
  on s was cut). A disk loses a path only in the step that puts it into the `removed`
  of a thread, which nothing takes out again; before that step it is empty
  (`HandlerOK`). `CatalogueBacked` says it of what the catalogue says, `CreateBacked`
  of what a create is about to make it say.
* `Found(p)` - the catalogue has p, or a DELETE with the same first character has
  gone through. Insertions only add (`InsertData`); for a deletion `DoomedShareFirst`
  gives the first character.
* `ListedFound` says it of every path on the disk of a server that is past the
  announcement of its paths, so that a server that goes up already has it; a path
  made meanwhile is `Unlisted` as long as its create is on its way.
* `HandlerOK` - only a DELETE that was confirmed gets to `cacheDel` and `trieDel`,
  and none has removed anything before a server has served it.

`StorageProofs` proves `Spec => []IInv` for the storage server, from which
`TypeCorrect` and `DeleteRemovesItsFile`. The argument: a thread at open or
remove holds the master lock (so no other delete is between its own open and
remove); what it is about to remove is a file, so `mkdir` fails on it, `rmdir`
does not touch it, and the `fopen "w"` of a create, which takes no lock, truncates
the file but leaves the path with the same inode (a WRITE opens under the master
lock and so cannot come in between). `FileOpen` is there for the types: a stream
reads and writes a file that the server has. `ThreadOK` says that in the stack of
a delete only folders wait below the top, so that taking the top frame off never
brings up a frame that holds the lock.

Its second half proves `Spec => []StoreInv` and from it `LeakAlwaysNeedsRace`,
`DeletedStaysGone`, `AlwaysUndisturbed` and `MirrorAlwaysKept`. The actions are first
replaced by the kinds of move they are for the record of their thread
(`StepMoves`), so that each part of `StoreInv` is shown against a dozen moves:

* `WellRooted` - what exists is in a folder. Hence nothing is below a file, nor
  below a folder without children (`NothingBelow`, by a shortest path below it),
  and a delete that has removed its outermost folder has removed everything.
* `BelowItsPath` - a delete works on its path and below it, and on its path again
  when one frame is left.
* `RivalsRaced`, `StillThere` - two threads on related paths, one of them a
  delete, have raced; so what a thread saw before it asked for the lock is still
  there at `fopen` unless it has raced. With `Owned`, which says who may have the lock
  at all, this is `LeakNeedsRace`: the returns that skip the release are taken by a
  WRITE or by a thread to which something has happened.
* `LeftOver(t, p)` - if there is anything at p in the primary tree it was made since
  the delete t began, or another delete has just opened it and will remove it. No
  step takes this away. `LeftPrimary` says it of all paths below one whose delete
  has left the primary tree. `SawFile` is the case in which that was found out early:
  `stat` saw a file, so nothing was below it, and when `fopen` fails on a folder in
  its place the folder was made since.
* `AloneInFile` - the other threads with the same file open do not write. A new
  writer truncates the file first, which ends the privilege for all who have it open,
  the ended threads included. `Contested` gives the reason of each thread that has
  lost it: the WRITE that was there first or came later has, or had, the same inode
  open, and a file is truncated otherwise only by a CREATE or DELETE of its path, since
  a file that a thread has opened has no other path than the thread's (`OpenedHere`).
* `MirrorBacked` - unless something has drifted for good (`Drifted`), the two trees
  agree on each path that no request has still to do with in the backup tree
  (`Pending`), and what a request did to the primary tree is still so while it works on
  the backup tree (`PrimaryDone`; without a race nobody else works there).
* `StageOK` - an offset and a file are there only from `stream` on.

`FramingProofs` proves one direction of a connection for any items, any chunk
size and any way in which `recv` cuts the bytes: `Spec => []IInv`, and from it
`ReceivedAsSent` and `SpinsOnCutItems`. `IInv` says that the items lie in the
stream one after the other, from `starts[n]` on, the last one perhaps in part; and
that a receiver that has not gone astray is in the item after those it has received,
having taken a prefix of it: at `data` it knows the true length, because two whole
bytes of it were read. `FramingAssumption` (the items are well formed) is a plain
definition and a hypothesis of the theorems, because `Framing` is instantiated.

`SessionProofs` discharges it for the items of a session (`TrafficIsWellFormed`)
and proves that a session's steps are, on `up` and `down`, steps of `Framing`, a
new connection, or nothing; so `SessionReceivedAsSent` and
`SessionSpinsOnCutItems` follow from the lemmas of `FramingProofs`. `OneSocket`
proves `SameSocket` for any number of descriptors: between the `close` and the
`socket` of `read.c` and `write.c` no other descriptor comes free, and the one
closed was the lowest free one when it was made, hence is so again.

`CopyingProofs` proves `Spec => []IInv` for copies, from which `TypeCorrect` and
`ListedIsAlwaysThere`, for any number of servers and threads, any paths, disks and
requests. The catalogue gets its rows long after the entries were made, while
others delete. So `ListedIsThere` speaks of what may since have been deleted, and
`Known` is made of the places where something is or whose deletion somebody has
asked for: nothing ever leaves it (`KnownGrows`). `WorkOK` says that the entries a
thread has made, its rows among them, are known; an entry is at work there only
after its CREATE was answered. `PcOK` ties the program counter to the kind of
request and to the servers that were looked up. For the types, a stream of a copy
has a WRITE handler that waits for it (`OpenAt`), and its file has data (`Inodes`).

A second invariant, `TInv`, gives `WhatIsThereIsListed` (`ThereIsListed`) and
`DeletedCopyAlwaysStays` (`DeletedCopyStays`). Its parts:

* `Rooted` - what exists is in folders. It is what makes the lookup of the target
  mean anything: if the target is not in the catalogue, nothing below it is on a
  disk that ought to be listed (`NothingBelow`).
* `Older`, `Alone` - of two threads with related paths one is disturbed, and an
  undisturbed one finds the other at rest. This is all that the history variable
  `disturbed` is for, and it is kept without a look at any step but `Accept`.
* `WalkOK` - all that a copy has at work or in its table is at or below the
  destination, the copy itself at the bottom of the stack. It follows that a thread
  only makes places with which its request is related (`MakesTouches`).
* `ListOK` - the induction proper. Where nobody deletes, what exists is listed if
  nobody makes it; if one thread makes it, `Said` says by the program counter
  what there can be: nothing before the CREATE, an entry that is listed or still in the
  stack or the table after it, everything listed when OK was said. A failure ends
  this, since `copy_` undoes nothing. Two threads that make one path are linked
  (`MakersLinked`), so that one is disturbed.
* `BackupOK`, `CopyOK`, `RefusedOK` - for a path that is otherwise left alone
  (`Quiet`): what has a backup is listed; a copy, which was not listed when it began,
  has therefore no backup when it is confirmed; and a delete of it is refused.

A step of a thread at work is shown to be `StepOK`, which speaks of that thread and
of what changes on disks and in the catalogue, and `StepKeepsRest` does the
rest once for all of them, `RequestsStay` being the reason that it can: a step
changes neither a request nor whom it is related to.

`DeletedCopyStays` excludes (in `Elsewhere`) other deletes with the same first
character, although their paths are not related to the copy: `RefusedOK` is not
inductive without it, since `delete_trie`, given a path that the catalogue does not have,
may forget the copy with it.

A third, `WInv`, gives `CopyIsAlwaysWhole` (`CopyIsWhole`) and `NothingElseArrives`
(`NothingButTheSource`), for trees of any depth and files of any number of chunks:

* `OneFile` - no file has two names, so that a file in the destination is not also
  one of the source, even when one server has both.
* `StreamPlaces` - the file of a WRITE handler is nowhere but at its path, which is
  below the destination of the copy that has called it. A handler is still at work
  when the copy has long been answered, so this is all that can be said of it.
* `Locals` - of each entry at work by itself (`PlaceOK`): it is below the source, its
  copy is at the same place below the destination (`Image`), a folder has seen only
  its own entries, and all that is above it on the stack is at or below one of these.
* `Calms` - the induction proper, for a copy that nobody disturbs (`CalmOK`). Each
  entry of the source has arrived or is still `Ahead`: it is below an entry at work
  and, if that is a folder that is being listed, not below what it has seen. A stack of
  folders is so described without recursion. `EntryOK` ties an entry at work to the
  trees (a file whose stream is half way has in its copy, with what is in the queue,
  the first `pos` chunks of the source). `StreamOK` says that each handler writes
  to the copy of an entry, and that only the stream that is open can be ahead
  still. Below the destination is nothing but copies (`Started`): when the copy began
  nothing was there, by `NothingBelow`.

A step of a thread is shown to be right for the copy it makes (`Goes`), and `OthersCalm`
says once for all steps that it leaves alone the copies of others that are not
disturbed: a step changes only what is below the paths of its request, and by `TInv`
these are not related to theirs. The destination of a copy may be below its source;
so what is to be copied (`Src`) leaves out what is in the copy (`InCopy`).

What the two programs make of the bytes is proved in `AgreementProofs`:
`Spec => []SessionInv`, and from it `SessionTypeCorrect`, `AlwaysAgree`,
`EofAlwaysMeansAll`, `OkAlwaysMeansWritten` and `ServersAlwaysOutlive`, for any
commands and any number of commands, chunks, lines and descriptors. Nothing in the
code says at run time where the other end is in a command; each counts on having
received what it has asked for. `SessionInv` (second half of `SessionProofs`) says
what they can count on. It was model-checked on the instance of `session` before it
was proved. Its parts:

* Four scripts, each in terms of one program counter and one history: what the
  client has sent so far (`ClientSends`: its request, the lines, the end) and what it
  has asked for (`ClientAsks`), what the handler has asked for (`HandlerAsks`) and
  what it has sent (`HandlerSends`, with `NmSends`, `ReadSends` and `SsSends` by the
  request). They are kept whatever the other end does, since a script never looks at
  what was received, or is checked against `ReceivedAsSent`.
* What one end knows of the other: `RequestKnown` (a handler serves the request that
  was sent), `AnswersKnown` (an address follows a REDIRECT; what READ has received, and
  the answer a WRITE ends with, are the first items of what was sent; `ShownWell` says
  what was shown of the first chunk). Since
  `FramingProofs` makes the k-th thing received the k-th thing sent, the place in
  one's own script gives the place in the other's; every knowledge is lost when a
  direction has gone astray, so it is only stated for `astray = {}`.
* `AfterMix` follows the errors of the code that the properties make an exception
  of: a response where the client of a READ or a GET expects something else
  (`client_handler.c`), and rows that are fewer bytes than the client of a LIST wants.
  Each is the last thing the handler sends, so a client that has taken it for
  something else gets nothing further wrong.
* `AllWritten` carries a WRITE from the lines received to the lines written,
  `EmptyAtEof` says that what came short came at the end and is empty, `Counted` that
  the commands begun are within the bound.
* `NothingToCome` is what SIGPIPE depends on: with the client back at its prompt a
  handler has at most one block left to send, which one `send` takes, and
  nothing once it has sent to a closed one, unless the naming server still has to
  redirect a GET or a LIST that it has refused.

`ReadSends` says more than a READ's client relies on (a second item only follows
OK_START_STREAM): without it `SessionInv` was not inductive.

Only model-checked, because TLAPS does not prove liveness under fairness:
`NeverStuck`, `EveryServerGoesUp`, `StalledClientBlocksNobody`, `CommandsEnd` and
`UndisturbedCopyEnds`. Every invariant that the passing runs check is stated by
a theorem.

## 6 Disagreements found

1. `DeleteForgets`: `delete_trie` cuts after the last branching character. A word
   that never branches is not removed: after a confirmed DELETE of the only file
   the catalogue still names its server, a new CREATE is answered
   ALREADY_EXISTS, a READ is redirected to a server that has no such file.
2. `StaysUp`: three lookups within a second make `addPath` use an index it never
   assigned (`hash.c:67`).
3. `EveryRequestEnds`: a READ whose file is deleted between the existence test
   and `fopen` returns with the master lock held; later requests wait for ever.
4. `CopyIsConfirmed`: the table of copied paths is sent and received in chunks
   whose place is counted in rows instead of bytes (`responses.c:75` and `:93`).
   With the real sizes the second chunk is beyond the table: a copy that was made
   is never confirmed nor added to the catalogue, and the naming server's thread
   may wait for the rest for ever.

The models also show weaknesses that no run is spent on, because the properties
name them as exceptions: two clients can both be told that they created one path
(the check and the insertion are separated by the call to the storage server);
a DELETE that fails half way leaves in the catalogue what it has taken from the disk
(`NoPhantomPath`);
two WRITEs of one file get the same record lock, both are told OK and the file
has pieces of both (`Undisturbed` says nothing of a stream with such a rival);
the error byte of a failed READ or GET sends the client astray, and the client of a
LIST asks for 400 bytes that are never sent and reads rows of another length than
the server's (`AgreeOnWhatComes`); a READ of a file of 1024 bytes
or more shows what lies in memory behind the buffer, and one with a NUL less than
there is (`EofMeansAll`); a WRITE to a path that cannot be opened is never answered,
and a handler that waits for a lost master lock lets its client wait with it
(`CommandsEnd`); a copied path cannot be deleted (`DeletedCopyStays`); a copy of
a copy that has just been confirmed may copy an empty file, because the data of
the first are still on their way (`CopyIsWhole` counts it as disturbed).

## 7 Not modelled

* The file lock table, `SS/file_lock.c`: it is not linked into the storage server
  (its `unlock_file` would clash with that of `client_handler.c`), so that nothing
  it does can happen.
* Logging; reading the command line; progress bars.
* The rows of a listing: that the path of a subfolder is composed from memory never
  written (`client_handler.c:130`) changes no state. In `ClientSession` rows are
  one block.
* In a session: the difference between a connection that was reset and one that
  was closed where the program sees an error in both cases; addresses and
  other contents of a block; what happens in memory when `list.c` prints rows that
  were not received. Of a WRITE that fails on the disk only the answer and the possible
  end of the process are modelled (`client_handler.c:443-458` closes the file twice).
* In a copy: crashes of the servers; more copied paths than the table has rows
  (`client_handler.c:273` does not count); what lies in memory beyond the table,
  where a chunk that is not refused would be read from or written to; the sockets
  that `copy_` leaves open when it fails. Lookups, `add_path`, `remove_path` and
  the delete of a tree are one step, being taken apart elsewhere.
* A full disk, failing `close`, permissions; exhaustion of descriptors is only
  present as "socket or connect fails at any time".
* In `NamingServer`: malformed requests, clients that hang up, a server that
  dies between its registration request and the answer. In `StorageServer`: other
  servers of the machine working on the shared backup tree (`NamingServer` has
  one backup tree for all servers), crashes of the storage server.
* A WRITE changes the primary tree only, as in the code: the backup never gets
  any data.
* `unregister_ss`, which nothing calls.

## 8 Plan

What is left, in order:

1. Crashes of the source and of the destination in the middle of a copy, and the
   registration that follows, which announces what the copy has left.
2. A bound on the descriptors of the naming server, which closes none of the
   sockets of its requests.
