------------------------------ MODULE Copying ------------------------------
(***************************************************************************)
(* COPY: the handler of the naming server (NM/request_handlers/copy_re-    *)
(* quest_handler.c), the server of the source that walks its own tree and  *)
(* is a client of the server of the destination (copy_ in SS/client_hand-  *)
(* ler.c), the table of copied paths that comes back (Common/responses.c), *)
(* and what runs beside it: other COPYs, CREATEs and DELETEs, and the      *)
(* WRITE handlers at the destination, which are still at work when the     *)
(* source has gone on.                                                     *)
(*                                                                         *)
(* A copy is one chain of calls, each of which waits for its answer, so it *)
(* is one thread here, whichever process it is in.  A lookup, an update of *)
(* the catalogue and a delete of a subtree are one step (NamingServer and  *)
(* StorageServer take them apart); no server crashes.                      *)
(***************************************************************************)
EXTENDS Integers, FiniteSets, SequencesExt

CONSTANTS
    SS,                    \* storage servers, all of them registered
    Threads,               \* handler threads, one request each
    Path,                  \* paths, as sequences of names
    Requests,              \* the requests they may receive
    Worlds,                \* what the servers may hold at first
    MAX_PATH_LENGTH, MAX_ACCESIBLE_PATHS,
    MAX_CHUNK_SIZE         \* the most that one send or recv moves

(* A place in a tree holds nothing, a folder, or a file: an inode number;  *)
(* in the backup tree, whose data are not kept, that of every file is 1.   *)
None     == -1
Folder   == 0
File     == 1
Kind(i)  == IF i > Folder THEN File ELSE i
NoServer == -1

(* The inodes of all servers are numbered from 1.  The data of a file are  *)
(* chunks; a file has at first one, with the number of the file.           *)
Files(W) == Cardinality({sp \in SS \X Path : W[sp[1]][sp[2]] > Folder})
Hole  == 0
Chunk == Nat

OK == "OK"
NotFound == "NOT_FOUND"
AlreadyExists == "ALREADY_EXISTS"
InternalError == "INTERNAL_ERROR"
NoAnswer == "no answer"
Responses == {OK, NotFound, AlreadyExists, InternalError, NoAnswer}

Ops == {"copy", "create", "mkdir", "delete"}
NoRequest == [op |-> "none", path |-> <<>>, dest |-> <<>>]

(* A path is made in its parent; the table of copied paths has a row of    *)
(* MAX_PATH_LENGTH bytes for each of MAX_ACCESIBLE_PATHS paths, and a      *)
(* second chunk starts, at row number MAX_CHUNK_SIZE, beyond it.           *)
ASSUME CopyingAssumption ==
    /\ SS \subseteq Nat
    /\ Path \subseteq Seq(STRING) \ {<<>>}
    /\ \A p \in Path : \A n \in 1 .. Len(p) : SubSeq(p, 1, n) \in Path
    /\ \A q \in Requests :
          /\ q.op \in Ops /\ q.path \in Path
          /\ IF q.op = "copy" THEN q.dest \in Path \ {q.path} ELSE q.dest = <<>>
    /\ \A W \in Worlds : Files(W) \in Nat /\ W \in [SS -> [Path -> None .. Files(W)]]
    /\ \A W \in Worlds, p \in Path, s, u \in SS :
          W[s][p] # None /\ W[u][p] # None => s = u
    /\ MAX_PATH_LENGTH \in Nat \ {0}
    /\ MAX_ACCESIBLE_PATHS \in Nat \ {0}
    /\ MAX_CHUNK_SIZE \in Nat /\ MAX_CHUNK_SIZE >= MAX_ACCESIBLE_PATHS

(* What the servers hold at first are trees: what exists is in folders,    *)
(* and no file has two names.                                              *)
ASSUME WorldsAssumption ==
    \A W \in Worlds, s, u \in SS, p, q \in Path :
        /\ W[s][q] # None /\ IsPrefix(p, q) /\ p # q => W[s][p] = Folder
        /\ W[s][p] > Folder /\ W[s][p] = W[u][q] => s = u /\ p = q

VARIABLES
    cat,           \* the catalogue of the naming server: path -> server
    tree,          \* what is at a path, on each server
    data,          \* what is in each file, one entry per inode
    backup,        \* ../backup, which the servers share
    jammed,        \* servers whose master lock was never released
    thread,        \* the handler threads
    writers,       \* WRITE handlers that copies have started
    disturbed      \* history: threads that had company, see Accept

fsVars == << tree, data, backup, jammed >>
vars == << cat, fsVars, thread, writers, disturbed >>

Pcs == {"idle", "source", "target", "parent", "connect", "check", "copy",
        "table", "waits", "rows", "primary", "backup", "add", "forget",
        "answer", "done"}

(* What copy_ is doing with one entry; a folder that is being copied waits *)
(* below the entry at work.                                                *)
Acts == {"stat", "create", "opendir", "list", "write", "open", "read"}
FrameRecord ==
    [act : Acts, src : Seq(STRING), dst : Seq(STRING), folder : BOOLEAN,
     listed : SUBSET Path, seen : SUBSET Path, ino : Int, pos : Nat]
Frame(src, dst) ==
    [act |-> "stat", src |-> src, dst |-> dst, folder |-> FALSE,
     listed |-> {}, seen |-> {}, ino |-> None, pos |-> 0]

ThreadRecord ==
    [pc : Pcs, req : Requests \cup {NoRequest}, from : SS \cup {NoServer},
     to : SS \cup {NoServer}, work : Seq(FrameRecord), rows : Seq(Path),
     copied : BOOLEAN, resp : Responses]
IdleThread ==
    [pc |-> "idle", req |-> NoRequest, from |-> NoServer, to |-> NoServer,
     work |-> <<>>, rows |-> <<>>, copied |-> FALSE, resp |-> NoAnswer]

Owner(W, p) ==
    IF \E s \in SS : W[s][p] # None THEN CHOOSE s \in SS : W[s][p] # None
    ELSE NoServer

Init ==
    \E W \in Worlds :
        /\ tree = W
        /\ data = [i \in 1 .. Files(W) |-> <<i>>]
        /\ cat = [p \in Path |-> Owner(W, p)]
        /\ backup = [p \in Path |-> IF Owner(W, p) = NoServer THEN None
                                     ELSE Kind(W[Owner(W, p)][p])]
        /\ jammed = {}
        /\ thread = [t \in Threads |-> IdleThread]
        /\ writers = {}
        /\ disturbed = {}

-----------------------------------------------------------------------------
(* The file systems, as the calls of the servers see them. *)
Exists(s, p) == p \in Path /\ tree[s][p] # None
Children(s, p) == {c \in Path : Front(c) = p /\ Exists(s, c)}
Below(s, p) == {q \in Path : IsPrefix(p, q) /\ Exists(s, q)}

(* create_folder: mkdir, which fails on anything that is there; create_    *)
(* file: fopen "w", which truncates the file at p, or makes one.  A name   *)
(* that is not in Path is too long.                                        *)
CanCreate(T, p, folder) ==
    /\ p \in Path
    /\ Len(p) > 1 => T[Front(p)] = Folder
    /\ IF folder THEN T[p] = None ELSE T[p] # Folder
CanOpen(s, p) == CanCreate(tree[s], p, FALSE)
Inode(s, p) == IF Exists(s, p) THEN tree[s][p] ELSE Len(data) + 1
Truncate(s, p) ==
    /\ tree' = [tree EXCEPT ![s][p] = Inode(s, p)]
    /\ data' = IF Exists(s, p) THEN [data EXCEPT ![tree[s][p]] = <<>>]
               ELSE Append(data, <<>>)

Create(s, p, folder) ==
    IF folder THEN tree' = [tree EXCEPT ![s][p] = Folder] /\ data' = data
    ELSE Truncate(s, p)

-----------------------------------------------------------------------------
(* Helpers of the thread actions. *)
Become(t, r) == thread' = [thread EXCEPT ![t] = r]
At(t, pc) == thread[t].pc = pc
Is(t, op) == thread[t].req.op = op
Go(t, pc) == Become(t, [thread[t] EXCEPT !.pc = pc])
Answer(t, response) ==
    Become(t, [thread[t] EXCEPT !.pc = "answer", !.work = <<>>, !.resp = response])

(* The path that a request makes. *)
Target(q) == IF q.op = "copy" THEN q.dest ELSE q.path
Paths(q) == IF q.op = "copy" THEN {q.path, q.dest} ELSE {q.path}

(* History: who had company.  A thread is at work until it has answered    *)
(* and the WRITE handlers it started have ended.  Whoever begins while a   *)
(* thread with related paths is at work is disturbed, and so is everyone,  *)
(* at work or not, to whose paths a later request is related.              *)
AtWork(t) ==
    \/ thread[t].pc \notin {"idle", "done"}
    \/ \E w \in writers : w.by = t
Comparable(p, q) == IsPrefix(p, q) \/ IsPrefix(q, p)
Related(q, r) == \E p \in Paths(q), u \in Paths(r) : Comparable(p, u)
Rivals(q) == {u \in Threads : ~ At(u, "idle") /\ Related(thread[u].req, q)}

Accept(t) ==
    /\ At(t, "idle")
    /\ \E q \in Requests :
        /\ Become(t, [thread[t] EXCEPT
                         !.req = q,
                         !.pc = IF q.op \in {"copy", "delete"} THEN "source" ELSE "target"])
        /\ disturbed' = disturbed \cup Rivals(q)
                           \cup IF \E u \in Rivals(q) : AtWork(u) THEN {t} ELSE {}
    /\ UNCHANGED << cat, fsVars, writers >>

-----------------------------------------------------------------------------
(* The naming server: lookups, and the choice of a server for what has no  *)
(* parent.                                                                 *)
LookupSource(t) ==
    LET s == cat[thread[t].req.path] IN
    /\ At(t, "source")
    /\ IF s = NoServer THEN Answer(t, NotFound)
       ELSE Become(t, [thread[t] EXCEPT
                !.from = s,
                !.pc = IF thread[t].req.op = "copy" THEN "target" ELSE "connect"])
    /\ UNCHANGED << cat, fsVars, writers, disturbed >>

LookupTarget(t) ==
    /\ At(t, "target")
    /\ IF cat[Target(thread[t].req)] # NoServer THEN Answer(t, AlreadyExists)
       ELSE Go(t, "parent")
    /\ UNCHANGED << cat, fsVars, writers, disturbed >>

(* Mutant of LookupParent: the answer is not looked at.                    *)
LookupAnyParent(t) ==
    LET p == Target(thread[t].req) IN
    /\ At(t, "parent") /\ Len(p) > 1
    /\ Become(t, [thread[t] EXCEPT !.pc = "connect", !.to = cat[Front(p)]])
    /\ UNCHANGED << cat, fsVars, writers, disturbed >>

LookupParent(t) ==
    LET p == Target(thread[t].req) IN
    /\ At(t, "parent") /\ Len(p) > 1
    /\ IF cat[Front(p)] = NoServer THEN Answer(t, NotFound)
       ELSE Become(t, [thread[t] EXCEPT !.pc = "connect", !.to = cat[Front(p)]])
    /\ UNCHANGED << cat, fsVars, writers, disturbed >>

PickServer(t) ==
    /\ At(t, "parent") /\ Len(Target(thread[t].req)) = 1
    /\ \E s \in SS : Become(t, [thread[t] EXCEPT !.pc = "connect", !.to = s])
    /\ UNCHANGED << cat, fsVars, writers, disturbed >>

(* COPY goes to the client port of the server of the source, CREATE and    *)
(* DELETE to the port for the naming server.                               *)
Connect(t) ==
    /\ At(t, "connect")
    /\ Go(t, IF thread[t].req.op = "copy" THEN "check" ELSE "primary")
    /\ UNCHANGED << cat, fsVars, writers, disturbed >>

ConnectFails(t) ==
    /\ At(t, "connect")
    /\ Answer(t, InternalError)
    /\ UNCHANGED << cat, fsVars, writers, disturbed >>

SendAnswer(t) ==
    /\ At(t, "answer")
    /\ Go(t, "done")
    /\ UNCHANGED << cat, fsVars, writers, disturbed >>

-----------------------------------------------------------------------------
(* The COPY case of the server of the source. *)
CheckSource(t) ==
    LET r == thread[t] IN
    /\ At(t, "check")
    /\ IF ~ Exists(r.from, r.req.path) THEN Answer(t, NotFound)
       ELSE Become(t, [r EXCEPT !.pc = "copy",
                                !.work = << Frame(r.req.path, r.req.dest) >>])
    /\ UNCHANGED << cat, fsVars, writers, disturbed >>

(* copy_ on one entry. *)
Top(t) == Head(thread[t].work)
Doing(t, act) == At(t, "copy") /\ Top(t).act = act
Now(t, f) == Become(t, [thread[t] EXCEPT !.work = [@ EXCEPT ![1] = f]])
CopyFails(t) == Answer(t, InternalError)

(* copy_ returns 0: to the folder it was called for, or to the handler.    *)
Returned(r) ==
    IF Len(r.work) > 1 THEN [r EXCEPT !.work = Tail(@)]
    ELSE [r EXCEPT !.pc = "table", !.work = <<>>, !.copied = TRUE]
Finished(t) == Returned([thread[t] EXCEPT !.rows = Append(@, Top(t).dst)])

(* Mutant of StatEntry: it is not.                                         *)
StatEveryEntry(t) ==
    LET r == thread[t]  f == Top(t) IN
    /\ Doing(t, "stat")
    /\ IF ~ Exists(r.from, f.src) THEN CopyFails(t)
       ELSE Now(t, [f EXCEPT !.act = "create", !.folder = tree[r.from][f.src] = Folder])
    /\ UNCHANGED << cat, fsVars, writers, disturbed >>

(* The destination of the whole copy is left out, when the walk meets it.  *)
StatEntry(t) ==
    LET r == thread[t]  f == Top(t) IN
    /\ Doing(t, "stat")
    /\ IF f.src = r.req.dest THEN Become(t, Returned(r))
       ELSE IF ~ Exists(r.from, f.src) THEN CopyFails(t)
       ELSE Now(t, [f EXCEPT !.act = "create", !.folder = tree[r.from][f.src] = Folder])
    /\ UNCHANGED << cat, fsVars, writers, disturbed >>

(* CREATE at the destination: on its primary tree only. *)
CreateEntry(t) ==
    LET r == thread[t]  f == Top(t) IN
    /\ Doing(t, "create")
    /\ IF CanCreate(tree[r.to], f.dst, f.folder)
       THEN /\ Create(r.to, f.dst, f.folder)
            /\ Now(t, [f EXCEPT !.act = IF f.folder THEN "opendir" ELSE "write"])
       ELSE CopyFails(t) /\ UNCHANGED << tree, data >>
    /\ UNCHANGED << cat, backup, jammed, writers, disturbed >>

(* No socket, or no connection to the destination. *)
NoConnection(t) ==
    /\ Doing(t, "create") \/ Doing(t, "write")
    /\ CopyFails(t)
    /\ UNCHANGED << cat, fsVars, writers, disturbed >>

OpenFolder(t) ==
    LET r == thread[t]  f == Top(t) IN
    /\ Doing(t, "opendir")
    /\ IF tree[r.from][f.src] # Folder THEN CopyFails(t)
       ELSE Now(t, [f EXCEPT !.act = "list", !.listed = Children(r.from, f.src)])
    /\ UNCHANGED << cat, fsVars, writers, disturbed >>

(* readdir: an entry that was there at opendir, or one made since; no name *)
(* is returned twice.                                                      *)
ReadEntry(t) ==
    LET r == thread[t]  f == Top(t) IN
    /\ Doing(t, "list")
    /\ \E c \in (f.listed \cup Children(r.from, f.src)) \ f.seen :
        Become(t, [r EXCEPT !.work =
            << Frame(c, Append(f.dst, Last(c))) >>
               \o [@ EXCEPT ![1] = [f EXCEPT !.seen = @ \cup {c}]]])
    /\ UNCHANGED << cat, fsVars, writers, disturbed >>

FolderCopied(t) ==
    LET r == thread[t]  f == Top(t) IN
    /\ Doing(t, "list") /\ f.listed \cap Children(r.from, f.src) \subseteq f.seen
    /\ Become(t, Finished(t))
    /\ UNCHANGED << cat, fsVars, writers, disturbed >>

(* Mutant of OpenAtDestination: the lock is never released.                *)
OpenAndKeepLock(t) ==
    LET r == thread[t]  f == Top(t) IN
    /\ Doing(t, "write") /\ r.to \notin jammed /\ CanOpen(r.to, f.dst)
    /\ Truncate(r.to, f.dst)
    /\ writers' = writers \cup
          {[by |-> t, path |-> f.dst, ino |-> Inode(r.to, f.dst), pos |-> 0,
            queue |-> <<>>, open |-> TRUE]}
    /\ Now(t, [f EXCEPT !.act = "open"])
    /\ jammed' = jammed \cup {r.to}
    /\ UNCHANGED << cat, backup, disturbed >>

(* WRITE at the destination: the master lock, fopen "w", OK_START_STREAM.  *)
(* If fopen fails the handler returns with the lock, and says nothing.     *)
OpenAtDestination(t) ==
    LET r == thread[t]  f == Top(t) IN
    /\ Doing(t, "write") /\ r.to \notin jammed
    /\ IF CanOpen(r.to, f.dst)
       THEN /\ Truncate(r.to, f.dst)
            /\ writers' = writers \cup
                  {[by |-> t, path |-> f.dst, ino |-> Inode(r.to, f.dst), pos |-> 0,
                    queue |-> <<>>, open |-> TRUE]}
            /\ Now(t, [f EXCEPT !.act = "open"])
            /\ UNCHANGED jammed
       ELSE /\ jammed' = jammed \cup {r.to}
            /\ Go(t, "waits")
            /\ UNCHANGED << tree, data, writers >>
    /\ UNCHANGED << cat, backup, disturbed >>

(* read_file_and_send_data: the same lock, at the source; it is kept if    *)
(* fopen "r" fails, and the connection to the destination is left open.    *)
OpenAtSource(t) ==
    LET r == thread[t]  f == Top(t) IN
    /\ Doing(t, "open") /\ r.from \notin jammed
    /\ IF Exists(r.from, f.src)
       THEN /\ Now(t, [f EXCEPT !.act = "read", !.ino = tree[r.from][f.src]])
            /\ UNCHANGED jammed
       ELSE jammed' = jammed \cup {r.from} /\ CopyFails(t)
    /\ UNCHANGED << cat, tree, data, backup, writers, disturbed >>

(* The WRITE handler that the entry at work is sent to. *)
Writer(t) == CHOOSE w \in writers : w.by = t /\ w.path = Top(t).dst
Sent(t, w) == writers' = (writers \ {Writer(t)}) \cup {w}
Contents(ino) == IF ino = Folder THEN <<>> ELSE data[ino]

SendChunk(t) ==
    LET f == Top(t)  w == Writer(t) IN
    /\ Doing(t, "read") /\ f.pos < Len(Contents(f.ino))
    /\ Sent(t, [w EXCEPT !.queue = Append(@, Contents(f.ino)[f.pos + 1])])
    /\ Now(t, [f EXCEPT !.pos = @ + 1])
    /\ UNCHANGED << cat, fsVars, disturbed >>

(* Mutant of FileCopied: one chunk too early.                              *)
FileCopiedEarly(t) ==
    LET f == Top(t)  w == Writer(t) IN
    /\ Doing(t, "read") /\ f.pos >= Len(Contents(f.ino)) - 1
    /\ Sent(t, [w EXCEPT !.open = FALSE])
    /\ Become(t, Finished(t))
    /\ UNCHANGED << cat, fsVars, disturbed >>

(* The end of the stream, and the connection is closed: nobody waits for   *)
(* what the WRITE handler has to say.                                      *)
FileCopied(t) ==
    LET f == Top(t)  w == Writer(t) IN
    /\ Doing(t, "read") /\ f.pos >= Len(Contents(f.ino))
    /\ Sent(t, [w EXCEPT !.open = FALSE])
    /\ Become(t, Finished(t))
    /\ UNCHANGED << cat, fsVars, disturbed >>

-----------------------------------------------------------------------------
(* The WRITE handlers.  A chunk counts as received when it reaches the     *)
(* file, which may be as late as fclose.                                   *)
Overwrite(content, k, chunk) ==
    [j \in 1 .. IF Len(content) > k THEN Len(content) ELSE k + 1 |->
        IF j = k + 1 THEN chunk ELSE IF j <= Len(content) THEN content[j] ELSE Hole]

WriteChunk(w) ==
    /\ w.queue # <<>>
    /\ data' = [data EXCEPT ![w.ino] = Overwrite(@, w.pos, Head(w.queue))]
    /\ writers' = (writers \ {w}) \cup {[w EXCEPT !.pos = @ + 1, !.queue = Tail(@)]}
    /\ UNCHANGED << cat, tree, backup, jammed, thread, disturbed >>

EndWrite(w) ==
    /\ w.queue = <<>> /\ ~ w.open
    /\ writers' = writers \ {w}
    /\ UNCHANGED << cat, fsVars, thread, disturbed >>

-----------------------------------------------------------------------------
(* The table of copied paths, after the OK of the source.  It goes in      *)
(* chunks, whose place is counted in rows where bytes are meant, so that   *)
(* every chunk but the first is beyond the table: send fails there, and so *)
(* does recv, if there is something to receive.  A sender that has failed  *)
(* does not close the connection.                                          *)
TableSize == MAX_PATH_LENGTH * MAX_ACCESIBLE_PATHS
OneChunk == MAX_CHUNK_SIZE >= TableSize

(* The whole table in one chunk; or less is received than was sent, and    *)
(* recv is called for the rest; or there is no rest, but ought to be.      *)
TableOutcomes == {"part"} \cup IF OneChunk THEN {"whole"} ELSE {"cut"}

ReceiveTable(t) ==
    /\ At(t, "table")
    /\ \E outcome \in TableOutcomes :
        CASE outcome = "whole" -> Go(t, "rows")
          [] outcome = "part" -> Answer(t, InternalError)
          [] outcome = "cut" -> Go(t, "waits")
    /\ UNCHANGED << cat, fsVars, writers, disturbed >>

(* Mutant of AddRow: for the server of the source.                         *)
AddRowForSource(t) ==
    LET r == thread[t] IN
    /\ At(t, "rows") /\ r.rows # <<>>
    /\ cat' = [cat EXCEPT ![Head(r.rows)] = r.from]
    /\ Become(t, [r EXCEPT !.rows = Tail(@)])
    /\ UNCHANGED << fsVars, writers, disturbed >>

AddRow(t) ==
    LET r == thread[t] IN
    /\ At(t, "rows") /\ r.rows # <<>>
    /\ cat' = [cat EXCEPT ![Head(r.rows)] = r.to]
    /\ Become(t, [r EXCEPT !.rows = Tail(@)])
    /\ UNCHANGED << fsVars, writers, disturbed >>

(* Mutant of RowsAdded: one row too early.                                 *)
RowsAddedButOne(t) ==
    /\ At(t, "rows") /\ Len(thread[t].rows) <= 1
    /\ Answer(t, OK)
    /\ UNCHANGED << cat, fsVars, writers, disturbed >>

RowsAdded(t) ==
    /\ At(t, "rows") /\ thread[t].rows = <<>>
    /\ Answer(t, OK)
    /\ UNCHANGED << cat, fsVars, writers, disturbed >>

-----------------------------------------------------------------------------
(* CREATE and DELETE of the naming server: the primary tree, then the      *)
(* backup tree, then the catalogue.                                        *)
CreatePrimary(t) ==
    LET r == thread[t]  folder == r.req.op = "mkdir" IN
    /\ At(t, "primary") /\ r.req.op # "delete"
    /\ IF CanCreate(tree[r.to], r.req.path, folder)
       THEN Create(r.to, r.req.path, folder) /\ Go(t, "backup")
       ELSE Answer(t, InternalError) /\ UNCHANGED << tree, data >>
    /\ UNCHANGED << cat, backup, jammed, writers, disturbed >>

CreateBackup(t) ==
    LET r == thread[t]  p == r.req.path  folder == r.req.op = "mkdir" IN
    /\ At(t, "backup") /\ r.req.op # "delete"
    /\ IF CanCreate(backup, p, folder)
       THEN backup' = [backup EXCEPT ![p] = IF folder THEN Folder ELSE File] /\ Go(t, "add")
       ELSE backup' = backup /\ Answer(t, InternalError)
    /\ UNCHANGED << cat, tree, data, jammed, writers, disturbed >>

AddCreated(t) ==
    LET r == thread[t] IN
    /\ At(t, "add")
    /\ cat' = [cat EXCEPT ![r.req.path] = r.to]
    /\ Answer(t, OK)
    /\ UNCHANGED << fsVars, writers, disturbed >>

Without(T, gone) == [q \in Path |-> IF q \in gone THEN None ELSE T[q]]

(* delete_file_or_folder: all of the subtree, or a part of what is in the  *)
(* folder, when others make entries in it meanwhile.  What is still open   *)
(* is emptied.                                                             *)
DeletePrimary(t) ==
    LET r == thread[t]  s == r.from  p == r.req.path  all == Below(s, p) IN
    /\ At(t, "primary") /\ r.req.op = "delete"
    /\ (\E q \in all : tree[s][q] > Folder) => s \notin jammed
    /\ \E gone \in SUBSET all :
        /\ p \in gone => gone = all
        /\ \A q \in gone : Below(s, q) \subseteq gone
        /\ all = {p} => gone = all
        /\ tree' = [tree EXCEPT ![s] = Without(@, gone)]
        /\ data' = [i \in DOMAIN data |->
                       IF \E q \in gone : tree[s][q] = i THEN <<>> ELSE data[i]]
        /\ IF p \in gone THEN Go(t, "backup") ELSE Answer(t, InternalError)
    /\ UNCHANGED << cat, backup, jammed, writers, disturbed >>

(* Mutant of DeleteBackup: what is not there need not be deleted.          *)
DeleteBackupIfAny(t) ==
    LET p == thread[t].req.path IN
    /\ At(t, "backup") /\ thread[t].req.op = "delete"
    /\ backup' = Without(backup, {q \in Path : IsPrefix(p, q)})
    /\ Go(t, "forget")
    /\ UNCHANGED << cat, tree, data, jammed, writers, disturbed >>

DeleteBackup(t) ==
    LET p == thread[t].req.path IN
    /\ At(t, "backup") /\ thread[t].req.op = "delete"
    /\ IF backup[p] = None THEN backup' = backup /\ Answer(t, InternalError)
       ELSE /\ backup' = Without(backup, {q \in Path : IsPrefix(p, q)})
            /\ Go(t, "forget")
    /\ UNCHANGED << cat, tree, data, jammed, writers, disturbed >>

(* remove_path, as WordMap has it (a name counts as one character). *)
Forgettable(p) ==
    IF cat[p] = NoServer THEN SUBSET {q \in Path : q[1] = p[1]}
    ELSE {{}} \cup {S \in SUBSET {q \in Path : Comparable(p, q)} : p \in S}
Forget(t) ==
    /\ At(t, "forget")
    /\ \E S \in Forgettable(thread[t].req.path) :
        cat' = [q \in Path |-> IF q \in S THEN NoServer ELSE cat[q]]
    /\ Answer(t, OK)
    /\ UNCHANGED << fsVars, writers, disturbed >>

-----------------------------------------------------------------------------
CopyStep(t) ==
    \/ StatEntry(t) \/ CreateEntry(t) \/ NoConnection(t) \/ OpenFolder(t)
    \/ ReadEntry(t) \/ FolderCopied(t) \/ OpenAtDestination(t) \/ OpenAtSource(t)
    \/ SendChunk(t) \/ FileCopied(t)

ThreadStep(t) ==
    \/ LookupSource(t) \/ LookupTarget(t) \/ LookupParent(t) \/ PickServer(t)
    \/ Connect(t) \/ ConnectFails(t) \/ CheckSource(t) \/ CopyStep(t)
    \/ ReceiveTable(t) \/ AddRow(t) \/ RowsAdded(t)
    \/ CreatePrimary(t) \/ CreateBackup(t) \/ AddCreated(t)
    \/ DeletePrimary(t) \/ DeleteBackup(t) \/ Forget(t)
    \/ SendAnswer(t)

WriterStep(t) == \E w \in writers : w.by = t /\ (WriteChunk(w) \/ EndWrite(w))

Next ==
    \/ \E t \in Threads : Accept(t) \/ ThreadStep(t)
    \/ \E w \in writers : WriteChunk(w) \/ EndWrite(w)

Spec == Init /\ [][Next]_vars

(* Every process goes on with what it can do: a thread waits for nothing   *)
(* but an answer, the master lock and the table.  Nothing is assumed of    *)
(* when requests arrive.                                                   *)
Fairness ==
    \A t \in Threads : WF_vars(ThreadStep(t)) /\ WF_vars(WriterStep(t))
FairSpec == Spec /\ Fairness

-----------------------------------------------------------------------------
(* Properties. *)

WriterRecord ==
    [by : Threads, path : Path, ino : DOMAIN data, pos : Nat,
     queue : Seq(Chunk), open : BOOLEAN]

(* Type correctness: every inode that a tree or a WRITE handler refers to  *)
(* has an entry in data, and a thread has the servers it is about to call. *)
TypeOK ==
    /\ cat \in [Path -> SS \cup {NoServer}]
    /\ tree \in [SS -> [Path -> {None, Folder} \cup DOMAIN data]]
    /\ data \in Seq(Seq(Chunk))
    /\ backup \in [Path -> None .. File]
    /\ jammed \subseteq SS
    /\ DOMAIN thread = Threads /\ \A t \in Threads : thread[t] \in ThreadRecord
    /\ \A t \in Threads :
          thread[t].pc \in {"connect", "check", "copy", "primary", "rows"} =>
              /\ Is(t, "copy") \/ Is(t, "delete") => thread[t].from \in SS
              /\ ~ Is(t, "delete") => thread[t].to \in SS
    /\ writers \subseteq WriterRecord
    /\ disturbed \subseteq Threads

Dest(t, p) == thread[t].req.dest \o SubSeq(p, Len(thread[t].req.path) + 1, Len(p))

(* What a copy is to copy: the subtree, without the copy itself.           *)
Sources(t) ==
    LET path == thread[t].req.path  dest == thread[t].req.dest IN
    {p \in Below(thread[t].from, path) : ~ (IsPrefix(path, dest) /\ IsPrefix(dest, p))}

(* The copy of a file is complete once its WRITE handler has stored what   *)
(* was sent to it.                                                         *)
Own(t) == {w \in writers : w.by = t}
Stored(t, ino) ==
    IF \E w \in Own(t) : w.ino = ino
    THEN data[ino] \o (CHOOSE w \in Own(t) : w.ino = ino).queue
    ELSE data[ino]

Arrived(t, p) ==
    LET source == tree[thread[t].from][p]
        copy == IF Dest(t, p) \in Path THEN tree[thread[t].to][Dest(t, p)] ELSE None
    IN  IF source = Folder THEN copy = Folder
        ELSE copy > Folder /\ Stored(t, copy) = data[source]

(* When copy_ has returned 0 and nobody else has been near the two paths,  *)
(* every entry of the source has arrived: the folders and files are made,  *)
(* and the data of each file are in it or with a WRITE handler that is     *)
(* still at work.  copy_ does not wait for that handler, so that the data  *)
(* may come after the OK (client_handler.c:266).                           *)
CopyIsWhole ==
    \A t \in Threads :
        thread[t].copied /\ t \notin disturbed =>
            \A p \in Sources(t) : Arrived(t, p)

(* Nothing else arrives, while the copy goes on and afterwards: a folder   *)
(* that is copied into itself does not contain the copy, although readdir  *)
(* may return what has been made since (client_handler.c:164, `exclude_    *)
(* copy`).                                                                 *)
Begun(t) ==
    \/ thread[t].copied
    \/ At(t, "copy") /\ Last(thread[t].work).act \notin {"stat", "create"}
NothingButTheSource ==
    \A t \in Threads :
        Begun(t) /\ t \notin disturbed =>
            Below(thread[t].to, thread[t].req.dest) \subseteq {Dest(t, p) : p \in Sources(t)}

(* What the catalogue says of a path is so, whatever fails and whoever     *)
(* races, unless a DELETE has been near: the rows of the table are added   *)
(* long after the entries were made (copy_request_handler.c:87).           *)
Deletes(u, p) == Is(u, "delete") /\ IsPrefix(thread[u].req.path, p)
ListedIsThere ==
    \A p \in Path :
        cat[p] # NoServer /\ ~ Exists(cat[p], p) => \E u \in Threads : Deletes(u, p)

(* What is on a disk and not in the catalogue was left there by a COPY or  *)
(* a CREATE that was not answered OK, or that had company, or was lost by  *)
(* delete_trie, which may take entries with the same first character: a    *)
(* copy that fails half way leaves what it has made (client_handler.c:171  *)
(* to :271 undo nothing), a copy that is confirmed leaves nothing behind.  *)
Makes(t, p) == ~ At(t, "idle") /\ ~ Is(t, "delete") /\ IsPrefix(Target(thread[t].req), p)
Confirmed(t) == At(t, "done") /\ thread[t].resp = OK
ThereIsListed ==
    \A s \in SS, p \in Path :
        Exists(s, p) /\ cat[p] # s =>
            \/ \E t \in Threads : Makes(t, p) /\ (~ Confirmed(t) \/ t \in disturbed)
            \/ \E u \in Threads : Is(u, "delete") /\ thread[u].req.path[1] = p[1]

(* A copy is made in the primary tree only (client_handler.c:333, where    *)
(* nm_handler.c:37 makes the backup too), so that a DELETE of the copy,    *)
(* which empties it, fails on the backup, is not confirmed, and leaves the *)
(* path in the catalogue for good.  Other requests are elsewhere; no other *)
(* DELETE has the same first character, for which delete_trie might forget *)
(* the copy.                                                               *)
Elsewhere(v, p) ==
    \/ At(v, "idle")
    \/ /\ \A q \in Paths(thread[v].req) : ~ Comparable(p, q)
       /\ Is(v, "delete") => thread[v].req.path[1] # p[1]
DeletedCopyStays ==
    \A t, u \in Threads :
        /\ Is(t, "copy") /\ Confirmed(t)
        /\ Is(u, "delete") /\ thread[u].req.path = thread[t].req.dest /\ u \notin disturbed
        /\ \A v \in Threads \ {t, u} : Elsewhere(v, thread[t].req.dest)
        => thread[u].resp # OK /\ cat[thread[t].req.dest] = thread[t].to

(* A COPY that nobody disturbs comes to an end: no lock of the two servers *)
(* and no call between them, the source being a client of the destination  *)
(* that may be itself, keeps it waiting.                                   *)
UndisturbedCopyEnds ==
    \A t \in Threads :
        Is(t, "copy") ~> At(t, "done") \/ t \in disturbed

(* A copy that was made is confirmed (README.md:26, "copying of files/     *)
(* directories between storage servers").                                  *)
CopyIsConfirmed ==
    \A t \in Threads : thread[t].copied ~> Confirmed(t)
=============================================================================
