--------------------------- MODULE StorageServer ---------------------------
(***************************************************************************)
(* One storage server process from the inside: a thread per request        *)
(* (SS/client_handler.c, SS/nm_handler.c), the two directory trees they    *)
(* share (its own folder and ../backup), the files in them and the one     *)
(* master lock (SS/file_lock_master_lock.c).                               *)
(*                                                                         *)
(* A step is one system call or one lock operation.  The record locks that *)
(* the code takes with fcntl have no state here: they belong to the        *)
(* process, so that they never make one of its threads wait for another.   *)
(*                                                                         *)
(* A thread serves one request, so Threads bounds the requests of a        *)
(* behaviour; MaxChunks bounds the length of a stream.                     *)
(***************************************************************************)
EXTENDS Integers, FiniteSets, SequencesExt

CONSTANTS
    Threads,       \* handler threads, one request each
    Path,          \* paths, as sequences of names
    Requests,      \* the requests they may receive
    Trees,         \* what the two trees may hold at first
    MaxChunks      \* bound on the chunks a client writes

Roots == {"primary", "backup"}

(* A place in a tree holds nothing, a folder, or a file: an inode number.  *)
None   == -1
Folder == 0

(* Where a piece of a file's data comes from: a thread, or one of these.   *)
Before == "before"             \* it was there when the server started
Hole   == "hole"               \* zeros: written past the end of the file

Nobody == "nobody"             \* the master lock is free

OK == "OK"
NotFound == "NOT_FOUND"
InternalError == "INTERNAL_ERROR"
OkStartStream == "OK_START_STREAM"
NoAnswer == "no answer"
Responses == {OK, NotFound, InternalError, OkStartStream, NoAnswer}

Ops == {"create", "mkdir", "delete", "read", "write"}
NoRequest == [op |-> "none", path |-> <<>>, port |-> "none"]

(* What delete_file_or_folder is doing with one path; a folder that is     *)
(* being emptied waits below the entry that is being deleted.              *)
Acts == {"stat", "opendir", "list", "lock", "open", "remove"}
FrameRecord ==
    [act : Acts, path : Path, listed : SUBSET Path, seen : SUBSET Path, ino : Int]
Frame(act, p) == [act |-> act, path |-> p, listed |-> {}, seen |-> {}, ino |-> None]

(* The inodes of a tree are numbered from 1. *)
Files(T) == Cardinality({p \in Path : T[p] > Folder})

ASSUME TreesAssumption ==
    \A T \in Trees :
        /\ Files(T) \in Nat /\ T \in [Path -> None .. Files(T)]
        /\ \A p, q \in Path : T[p] = T[q] /\ T[p] > Folder => p = q
        /\ \A p \in Path : T[p] # None /\ Len(p) > 1 => T[Front(p)] = Folder

ASSUME StorageAssumption ==
    /\ Path \subseteq Seq(STRING) \ {<<>>}
    /\ \A p \in Path : Len(p) > 1 => Front(p) \in Path
    /\ Requests \subseteq [op : Ops, path : Path, port : {"nm", "client"}]
    /\ \A q \in Requests : q.op \in {"read", "write"} => q.port = "client"
    /\ MaxChunks \in Nat
    /\ Nobody \notin Threads

VARIABLES
    tree,          \* what is at a path, in each of the two trees
    data,          \* what is in each file: whose chunk, at each offset
    master,        \* who holds the master lock
    thread,        \* the handler threads
    raced,         \* history: threads that ran along with a related delete
    alone,         \* history: threads with the file they opened to themselves
    made           \* history: paths made since a delete began

fsVars == << tree, data >>
histVars == << raced, alone, made >>
vars == << fsVars, master, thread, histVars >>

Pcs == {"idle", "create", "delete", "exists", "lock", "open", "stream", "done"}

Authors == Threads \cup {Before, Hole}

ThreadRecord ==
    [pc : Pcs, req : Requests \cup {NoRequest}, root : Roots,
     work : Seq(FrameRecord), ino : Int, pos : Nat, got : Seq(Authors),
     resp : Responses]

IdleThread ==
    [pc |-> "idle", req |-> NoRequest, root |-> "primary", work |-> <<>>,
     ino |-> None, pos |-> 0, got |-> <<>>, resp |-> NoAnswer]

Init ==
    /\ \E T \in Trees : tree = [r \in Roots |-> T]
    /\ data = [r \in Roots |-> [i \in 1 .. Files(tree[r]) |-> <<Before>>]]
    /\ master = Nobody
    /\ thread = [t \in Threads |-> IdleThread]
    /\ raced = {} /\ alone = {}
    /\ made = [t \in Threads |-> {}]

-----------------------------------------------------------------------------
(* The file system, as the server's calls see it.                          *)
Exists(r, p) == tree[r][p] # None
HasParent(r, p) == Len(p) > 1 => tree[r][Front(p)] = Folder
Children(r, p) == {c \in Path : Front(c) = p /\ Exists(r, c)}

(* Mutant of Truncate: the new file's data are not kept.                   *)
TruncateOnly(r, p) ==
    /\ tree' = [tree EXCEPT ![r][p] = IF Exists(r, p) THEN tree[r][p]
                                       ELSE Len(data[r]) + 1]
    /\ data' = [data EXCEPT ![r] =
                   IF Exists(r, p) THEN [@ EXCEPT ![tree[r][p]] = <<>>] ELSE @]

(* fopen "w": truncates the file at p, or makes one; fails on a folder and *)
(* in a folder that is not there.                                          *)
CanOpen(r, p) == HasParent(r, p) /\ tree[r][p] # Folder
Inode(r, p) == IF Exists(r, p) THEN tree[r][p] ELSE Len(data[r]) + 1
Truncate(r, p) ==
    /\ tree' = [tree EXCEPT ![r][p] = Inode(r, p)]
    /\ data' = [data EXCEPT ![r] =
                   IF Exists(r, p) THEN [@ EXCEPT ![tree[r][p]] = <<>>]
                   ELSE Append(@, <<>>)]

(* Mutant of Overwrite: every chunk goes to the start of the file.         *)
OverwriteAtStart(content, k, t) ==
    [j \in 1 .. IF Len(content) > 1 THEN Len(content) ELSE 1 |->
        IF j = 1 THEN t ELSE content[j]]

(* A chunk of t written at offset k; what lies between the end and k is    *)
(* filled with zeros.                                                      *)
Overwrite(content, k, t) ==
    [j \in 1 .. IF Len(content) > k THEN Len(content) ELSE k + 1 |->
        IF j = k + 1 THEN t ELSE IF j <= Len(content) THEN content[j] ELSE Hole]

Become(t, r) == thread' = [thread EXCEPT ![t] = r]
Answer(t, response) ==
    Become(t, [thread[t] EXCEPT !.pc = "done", !.work = <<>>, !.resp = response])

(* History.                                                                *)
Active(t) == thread[t].pc \notin {"idle", "done"}
Related(p, q) == IsPrefix(p, q) \/ IsPrefix(q, p)
Holders(i) == {u \in Threads : thread[u].ino = i}
Writing(i) == {u \in Holders(i) : thread[u].pc = "stream" /\ thread[u].req.op = "write"}
Make(p) == made' = [u \in Threads |->
    IF thread[u].req.op = "delete" THEN made[u] \cup {p} ELSE made[u]]
(* A thread has its file to itself when no WRITE was streaming into it as  *)
(* it opened it (OpenToRead, OpenToWrite) and nobody has truncated it since.*)
Disturb(r, p) ==
    alone' = IF r = "primary" THEN alone \ Holders(Inode(r, p)) ELSE alone

-----------------------------------------------------------------------------
(* The acceptors start a thread for a connection; it receives its request. *)
Accept(t) ==
    /\ thread[t].pc = "idle"
    /\ \E q \in Requests :
        LET first == CASE q.op \in {"create", "mkdir"} -> "create"
                       [] q.op = "delete" -> "delete"
                       [] q.op = "read" -> "exists"
                       [] q.op = "write" -> "lock"
            rivals == {u \in Threads :
                         /\ Active(u)
                         /\ Related(thread[u].req.path, q.path)
                         /\ "delete" \in {q.op, thread[u].req.op}}
        IN  /\ Become(t, [thread[t] EXCEPT !.pc = first, !.req = q,
                             !.work = IF q.op = "delete"
                                      THEN << Frame("stat", q.path) >> ELSE @])
            /\ raced' = IF rivals = {} THEN raced ELSE raced \cup rivals \cup {t}
    /\ UNCHANGED << fsVars, master, alone, made >>

(* Mutant of Succeeded: a delete forgets the backup tree.                  *)
SucceededOnPrimary(t) ==
    LET r == thread[t] IN
    IF r.req.port = "nm" /\ r.root = "primary" /\ r.req.op # "delete"
    THEN [r EXCEPT !.root = "backup"]
    ELSE [r EXCEPT !.pc = "done", !.work = <<>>, !.resp = OK]

(* An operation on one tree succeeded: a request of the naming server goes *)
(* on with the backup tree.                                                *)
Succeeded(t) ==
    LET r == thread[t] IN
    IF r.req.port = "nm" /\ r.root = "primary"
    THEN [r EXCEPT !.root = "backup",
                   !.work = IF r.req.op = "delete"
                            THEN << Frame("stat", r.req.path) >> ELSE <<>>]
    ELSE [r EXCEPT !.pc = "done", !.work = <<>>, !.resp = OK]

CanCreate(t) ==
    LET r == thread[t] IN
    IF r.req.op = "mkdir"
    THEN ~ Exists(r.root, r.req.path) /\ HasParent(r.root, r.req.path)
    ELSE CanOpen(r.root, r.req.path)

(* create_file, create_folder and their backup twins; no lock is taken.    *)
CreateFile(t) ==
    LET r == thread[t] IN
    /\ r.pc = "create" /\ r.req.op = "create" /\ CanCreate(t)
    /\ Truncate(r.root, r.req.path)
    /\ Disturb(r.root, r.req.path)
    /\ Make(r.req.path)
    /\ Become(t, Succeeded(t))
    /\ UNCHANGED << master, raced >>

CreateFolder(t) ==
    LET r == thread[t] IN
    /\ r.pc = "create" /\ r.req.op = "mkdir" /\ CanCreate(t)
    /\ tree' = [tree EXCEPT ![r.root][r.req.path] = Folder]
    /\ Make(r.req.path)
    /\ Become(t, Succeeded(t))
    /\ UNCHANGED << data, master, raced, alone >>

CreateFails(t) ==
    /\ thread[t].pc = "create" /\ ~ CanCreate(t)
    /\ Answer(t, InternalError)
    /\ UNCHANGED << fsVars, master, histVars >>

-----------------------------------------------------------------------------
(* delete_file_or_folder, one path at a time.                              *)
Top(t) == Head(thread[t].work)
Doing(t, act) == thread[t].pc = "delete" /\ Top(t).act = act
Now(t, f) == Become(t, [thread[t] EXCEPT !.work = << f >> \o Tail(@)])

(* Mutant of Deleted: the outermost call does not go on to the answer.     *)
DeletedEntry(t) == [thread[t] EXCEPT !.work = Tail(@)]

(* The function returns 0: the folder above goes on, or the tree is done.  *)
Deleted(t) ==
    IF Len(thread[t].work) > 1
    THEN [thread[t] EXCEPT !.work = Tail(@)] ELSE Succeeded(t)

(* stat; any -1 ends the whole delete.                                     *)
StatEntry(t) ==
    /\ Doing(t, "stat")
    /\ LET kind == tree[thread[t].root][Top(t).path] IN
       \/ kind = None /\ Answer(t, InternalError)
       \/ kind = Folder /\ Now(t, Frame("opendir", Top(t).path))
       \/ kind > Folder /\ Now(t, Frame("lock", Top(t).path))
    /\ UNCHANGED << fsVars, master, histVars >>

OpenFolder(t) ==
    LET r == thread[t].root IN
    /\ Doing(t, "opendir")
    /\ IF tree[r][Top(t).path] # Folder THEN Answer(t, InternalError)
       ELSE Now(t, [Frame("list", Top(t).path) EXCEPT !.listed =
                       Children(r, Top(t).path)])
    /\ UNCHANGED << fsVars, master, histVars >>

(* readdir: an entry that was there at opendir, or one made since; no name *)
(* is returned twice.                                                      *)
ReadEntry(t) ==
    LET f == Top(t) IN
    /\ Doing(t, "list")
    /\ \E c \in (f.listed \cup Children(thread[t].root, f.path)) \ f.seen :
        Become(t, [thread[t] EXCEPT !.work =
            << Frame("stat", c), [f EXCEPT !.seen = @ \cup {c}] >> \o Tail(@)])
    /\ UNCHANGED << fsVars, master, histVars >>

(* readdir has returned what was there at opendir and still is; then rmdir *)
(* fails if something was made since, or if another thread was faster.     *)
RemoveFolder(t) ==
    LET r == thread[t].root
        p == Top(t).path
    IN
    /\ Doing(t, "list") /\ Top(t).listed \cap Children(r, p) \subseteq Top(t).seen
    /\ IF tree[r][p] = Folder /\ Children(r, p) = {}
       THEN tree' = [tree EXCEPT ![r][p] = None] /\ Become(t, Deleted(t))
       ELSE tree' = tree /\ Answer(t, InternalError)
    /\ UNCHANGED << data, master, histVars >>

(* Mutants of LockToDelete: no lock is taken; a busy lock passes for a     *)
(* success.                                                                *)
DeleteUnlocked(t) ==
    /\ Doing(t, "lock")
    /\ Now(t, [Top(t) EXCEPT !.act = "open"])
    /\ UNCHANGED << fsVars, master, histVars >>

TryLockToDelete(t) ==
    /\ Doing(t, "lock")
    /\ IF master = Nobody
       THEN master' = t /\ Now(t, [Top(t) EXCEPT !.act = "open"])
       ELSE master' = master /\ Become(t, Deleted(t))
    /\ UNCHANGED << fsVars, histVars >>

(* acquire_file_master_lock. *)
LockToDelete(t) ==
    /\ Doing(t, "lock") /\ master = Nobody
    /\ master' = t
    /\ Now(t, [Top(t) EXCEPT !.act = "open"])
    /\ UNCHANGED << fsVars, histVars >>

OpenToDelete(t) ==
    LET r == thread[t].root
        p == Top(t).path
    IN
    /\ Doing(t, "open") /\ CanOpen(r, p)
    /\ Truncate(r, p)
    /\ Disturb(r, p)
    /\ Now(t, [Top(t) EXCEPT !.act = "remove", !.ino = Inode(r, p)])
    /\ UNCHANGED << master, raced, made >>

(* The file went with its folder, or a folder took its place: taken for a  *)
(* success.                                                                *)
NothingToDelete(t) ==
    /\ Doing(t, "open") /\ ~ CanOpen(thread[t].root, Top(t).path)
    /\ ~ (thread[t].root = "backup" /\ Len(thread[t].work) = 1)
    /\ master' = Nobody
    /\ Become(t, Deleted(t))
    /\ UNCHANGED << fsVars, histVars >>

(* delete_file_or_folder_backup returns without releasing the lock.        *)
BackupDeleteLeaks(t) ==
    /\ Doing(t, "open") /\ ~ CanOpen(thread[t].root, Top(t).path)
    /\ thread[t].root = "backup" /\ Len(thread[t].work) = 1
    /\ Answer(t, InternalError)
    /\ UNCHANGED << fsVars, master, histVars >>

(* Mutant of RemoveFile: the lock is not released.                         *)
RemoveAndKeepLock(t) ==
    /\ Doing(t, "remove")
    /\ tree' = [tree EXCEPT ![thread[t].root][Top(t).path] = None]
    /\ Become(t, Deleted(t))
    /\ UNCHANGED << data, master, histVars >>

(* remove; it cannot fail: DeleteRemovesWhatItOpened.                      *)
RemoveFile(t) ==
    /\ Doing(t, "remove")
    /\ tree' = [tree EXCEPT ![thread[t].root][Top(t).path] = None]
    /\ master' = Nobody
    /\ Become(t, Deleted(t))
    /\ UNCHANGED << data, histVars >>

-----------------------------------------------------------------------------
(* READ and WRITE; they know the primary tree only.                        *)

(* is_directory: NOT_FOUND, or the stream is announced.  WRITE asks too,   *)
(* but never gets the answer it tests for.                                 *)
CheckExists(t) ==
    /\ thread[t].pc = "exists"
    /\ IF Exists("primary", thread[t].req.path)
       THEN Become(t, [thread[t] EXCEPT !.pc = "lock", !.resp = OkStartStream])
       ELSE Answer(t, NotFound)
    /\ UNCHANGED << fsVars, master, histVars >>

LockToOpen(t) ==
    /\ thread[t].pc = "lock" /\ master = Nobody
    /\ master' = t
    /\ Become(t, [thread[t] EXCEPT !.pc = "open"])
    /\ UNCHANGED << fsVars, histVars >>

(* read_file_and_send_data: fopen "r", which opens a folder too, and the   *)
(* release of the lock.                                                    *)
OpenToRead(t) ==
    LET i == tree["primary"][thread[t].req.path] IN
    /\ thread[t].pc = "open" /\ thread[t].req.op = "read" /\ i # None
    /\ master' = Nobody
    /\ Become(t, [thread[t] EXCEPT !.pc = "stream", !.ino = i])
    /\ alone' = IF i > Folder /\ Writing(i) = {} THEN alone \cup {t} ELSE alone
    /\ UNCHANGED << fsVars, raced, made >>

(* The file is gone: an error is answered and the lock is kept.            *)
ReadLeaks(t) ==
    /\ thread[t].pc = "open" /\ thread[t].req.op = "read"
    /\ ~ Exists("primary", thread[t].req.path)
    /\ Answer(t, InternalError)
    /\ UNCHANGED << fsVars, master, histVars >>

ReadChunk(t) ==
    LET r == thread[t] IN
    /\ r.pc = "stream" /\ r.req.op = "read" /\ r.ino > Folder
    /\ r.pos < Len(data["primary"][r.ino])
    /\ Become(t, [r EXCEPT !.pos = @ + 1,
                           !.got = Append(@, data["primary"][r.ino][r.pos + 1])])
    /\ UNCHANGED << fsVars, master, histVars >>

(* fread returns 0 at the end of the file, and at once for a folder.       *)
EndRead(t) ==
    LET r == thread[t] IN
    /\ r.pc = "stream" /\ r.req.op = "read"
    /\ r.ino > Folder => r.pos >= Len(data["primary"][r.ino])
    /\ Answer(t, r.resp)
    /\ UNCHANGED << fsVars, master, histVars >>

(* Mutant of OpenToWrite: the lock is kept while the client streams.       *)
OpenAndKeepLock(t) ==
    LET p == thread[t].req.path IN
    /\ thread[t].pc = "open" /\ thread[t].req.op = "write"
    /\ CanOpen("primary", p)
    /\ Truncate("primary", p)
    /\ Become(t, [thread[t] EXCEPT !.pc = "stream", !.ino = Inode("primary", p),
                                   !.resp = OkStartStream])
    /\ UNCHANGED << master, histVars >>

(* fopen "w", and the release of the lock.                                 *)
OpenToWrite(t) ==
    LET p == thread[t].req.path
        i == Inode("primary", p)
    IN
    /\ thread[t].pc = "open" /\ thread[t].req.op = "write"
    /\ CanOpen("primary", p)
    /\ Truncate("primary", p)
    /\ master' = Nobody
    /\ Become(t, [thread[t] EXCEPT !.pc = "stream", !.ino = i,
                                   !.resp = OkStartStream])
    /\ alone' = (alone \ Holders(i)) \cup (IF Writing(i) = {} THEN {t} ELSE {})
    /\ Make(p)
    /\ UNCHANGED raced

(* The thread returns: no answer, and the lock is kept.                    *)
WriteLeaks(t) ==
    /\ thread[t].pc = "open" /\ thread[t].req.op = "write"
    /\ ~ CanOpen("primary", thread[t].req.path)
    /\ Answer(t, NoAnswer)
    /\ UNCHANGED << fsVars, master, histVars >>

(* write_file: a buffer of the stream reaches the file, full or at fclose, *)
(* at the offset of this thread's own descriptor.                          *)
WriteChunk(t) ==
    LET r == thread[t] IN
    /\ r.pc = "stream" /\ r.req.op = "write" /\ r.pos < MaxChunks
    /\ data' = [data EXCEPT !["primary"][r.ino] = Overwrite(@, r.pos, t)]
    /\ Become(t, [r EXCEPT !.pos = @ + 1, !.resp = OK])
    /\ UNCHANGED << tree, master, histVars >>

(* The client ends its stream, or breaks off.                              *)
EndWrite(t) ==
    /\ thread[t].pc = "stream" /\ thread[t].req.op = "write"
    /\ \/ Answer(t, thread[t].resp)
       \/ Answer(t, InternalError)
    /\ UNCHANGED << fsVars, master, histVars >>

-----------------------------------------------------------------------------
(* What the server does by itself, and what waits for the client.          *)
ServerStep(t) ==
    \/ CreateFile(t) \/ CreateFolder(t) \/ CreateFails(t)
    \/ StatEntry(t) \/ OpenFolder(t) \/ ReadEntry(t) \/ RemoveFolder(t)
    \/ LockToDelete(t) \/ OpenToDelete(t) \/ NothingToDelete(t)
    \/ BackupDeleteLeaks(t) \/ RemoveFile(t)
    \/ CheckExists(t) \/ LockToOpen(t)
    \/ OpenToRead(t) \/ ReadLeaks(t) \/ OpenToWrite(t) \/ WriteLeaks(t)

StreamStep(t) == ReadChunk(t) \/ EndRead(t) \/ WriteChunk(t) \/ EndWrite(t)

Next == \E t \in Threads : Accept(t) \/ ServerStep(t) \/ StreamStep(t)

Spec == Init /\ [][Next]_vars

(* The scheduler runs every thread; clients may stall.                     *)
FairSpec == Spec /\ \A t \in Threads : WF_vars(ServerStep(t))

(* The clients keep reading and writing as well.                           *)
FairClients == FairSpec /\ \A t \in Threads : WF_vars(StreamStep(t))

-----------------------------------------------------------------------------
(* Properties. *)

(* The threads, the trees and the files are well typed; a place in a tree  *)
(* that holds a file names a file that there is, and no two places name    *)
(* the same one.                                                           *)
TypeOK ==
    /\ thread \in [Threads -> ThreadRecord]
    /\ master \in Threads \cup {Nobody}
    /\ raced \subseteq Threads /\ alone \subseteq Threads
    /\ made \in [Threads -> SUBSET Path]
    /\ data \in [Roots -> Seq(Seq(Authors))]
    /\ DOMAIN tree = Roots
    /\ \A r \in Roots :
        /\ tree[r] \in [Path -> None .. Len(data[r])]
        /\ \A p, q \in Path : tree[r][p] = tree[r][q] /\ tree[r][p] > Folder => p = q

(* A delete removes the very file it has opened and truncated: between the *)
(* two nobody puts another one in its place, although creates take no lock *)
(* (delete.c:106 takes the master lock for this).                          *)
DeleteRemovesWhatItOpened ==
    \A t \in Threads : Doing(t, "remove") =>
        tree[thread[t].root][Top(t).path] = Top(t).ino

(* What the record of a thread says by itself: it has a request once it is *)
(* not idle, a stack of frames just while it deletes, and in the stack only*)
(* folders that are being emptied below the entry at work.                 *)
ThreadOK(r) ==
    /\ r.pc # "idle" => r.req \in Requests
    /\ r.pc = "create" => r.req.op \in {"create", "mkdir"}
    /\ r.pc = "delete" => r.req.op = "delete"
    /\ r.pc = "delete" <=> r.work # <<>>
    /\ \A k \in 2 .. Len(r.work) : r.work[k].act = "list"

(* A thread that is about to open or to remove a file holds the lock.      *)
Holds(t) == thread[t].pc = "open" \/ Doing(t, "open") \/ Doing(t, "remove")

(* A thread that streams has a file or a folder of the primary tree open.  *)
FileOpen(r) == r.pc = "stream" => r.ino \in Folder .. Len(data["primary"])

(* The inductive invariant: the lock is what keeps other deletes away from *)
(* the file between open and remove, and that it is a file, and no longer  *)
(* nothing, is what keeps mkdir and rmdir away.                            *)
IInv ==
    /\ TypeOK
    /\ \A t \in Threads : ThreadOK(thread[t])
    /\ \A t \in Threads : FileOpen(thread[t])
    /\ \A t \in Threads : Holds(t) => master = t
    /\ \A t \in Threads : Doing(t, "remove") => Top(t).ino > Folder
    /\ DeleteRemovesWhatItOpened

(* What exists in a tree is in a folder.                                   *)
WellRooted == \A r \in Roots, p \in Path : Exists(r, p) => HasParent(r, p)

(* A delete works on its path and on what it has found below it.           *)
BelowItsPath(r) ==
    r.pc = "delete" =>
        /\ Last(r.work).path = r.req.path
        /\ \A k \in 1 .. Len(r.work) :
            /\ IsPrefix(r.req.path, r.work[k].path)
            /\ \A c \in r.work[k].listed : Front(c) = r.work[k].path

(* Two threads at work on related paths, one of them a delete, have raced. *)
RivalsRaced ==
    \A t, u \in Threads :
        /\ t # u /\ Active(t) /\ Active(u)
        /\ Related(thread[t].req.path, thread[u].req.path)
        /\ "delete" \in {thread[t].req.op, thread[u].req.op}
        => t \in raced

(* What a thread saw before it asked for the lock is still there when it   *)
(* opens it, unless a delete ran along with it.                            *)
StillThere(t) ==
    t \notin raced =>
        /\ thread[t].pc \in {"lock", "open"} /\ thread[t].req.op = "read" =>
            Exists("primary", thread[t].req.path)
        /\ Doing(t, "lock") \/ Doing(t, "open") =>
            tree[thread[t].root][Top(t).path] > Folder

(* The only threads that may keep the lock when they end.                  *)
MayLeak(t) ==
    \/ thread[t].req.op = "write"
    \/ thread[t].req.op \in {"read", "delete"} /\ t \in raced

Owned ==
    master # Nobody =>
        Holds(master) \/ (thread[master].pc = "done" /\ MayLeak(master))

(* What a thread has at each stage: no file and no offset before it        *)
(* streams, and only a READ or a WRITE comes so far.                       *)
StageOK(r) ==
    /\ r.pc = "idle" => r = IdleThread
    /\ r.pc \in {"exists", "lock", "open", "stream"} => r.req.op \in {"read", "write"}
    /\ r.pc \notin {"stream", "done"} => r.ino = None /\ r.pos = 0 /\ r.got = <<>>

(* Nobody but the thread itself writes to a file it has to itself.         *)
AloneInFile(t) ==
    LET r == thread[t]
        content == data["primary"][r.ino]
    IN  /\ r.pc \in {"stream", "done"} /\ r.req.op \in {"read", "write"}
        /\ r.ino \in 1 .. Len(data["primary"])
        /\ Writing(r.ino) \subseteq {t}
        /\ r.req.op = "write" => content = [j \in 1 .. r.pos |-> t]
        /\ r.req.op = "read" => IsPrefix(r.got, content) /\ Len(r.got) = r.pos
        /\ r.req.op = "read" /\ r.pc = "done" => r.got = content

(* Thread t has a file open, or has had one, to stream it. *)
Streamer(t) == thread[t].req.op \in {"read", "write"} /\ thread[t].ino > Folder

(* Someone else has had to do with that very file: another WRITE had it    *)
(* open as well, or a request created or deleted its path, or deleted a    *)
(* folder above it.                                                        *)
HasRival(t) ==
    \E u \in Threads \ {t} :
        \/ thread[u].req.op = "write" /\ thread[u].ino = thread[t].ino
        \/ /\ thread[u].req.op \in {"create", "delete"}
           /\ IsPrefix(thread[u].req.path, thread[t].req.path)

Contested == \A t \in Threads \ alone : Streamer(t) => HasRival(t)

(* The file a thread opened is at the thread's path or nowhere.            *)
OpenedHere(t) ==
    Streamer(t) =>
        /\ thread[t].ino \in 1 .. Len(data["primary"])
        /\ \A p \in Path : tree["primary"][p] = thread[t].ino => p = thread[t].req.path

(* What there is at p was made since the delete t began, or is about to go *)
(* again.                                                                  *)
BeingRemoved(p) ==
    \E u \in Threads :
        Doing(u, "remove") /\ thread[u].root = "primary" /\ Top(u).path = p
LeftOver(t, p) == Exists("primary", p) => p \in made[t] \/ BeingRemoved(p)

(* A delete that saw a file knew that nothing was below it.                *)
SawFile(t) ==
    thread[t].root = "primary" /\ (Doing(t, "lock") \/ Doing(t, "open")) =>
        /\ \A p \in Path : IsStrictPrefix(Top(t).path, p) => LeftOver(t, p)
        /\ tree["primary"][Top(t).path] = Folder => Top(t).path \in made[t]

(* A delete that has left the primary tree has left nothing behind.        *)
LeftPrimary(t) ==
    LET r == thread[t] IN
    r.req.op = "delete" /\ (r.root = "backup" \/ (r.pc = "done" /\ r.resp = OK)) =>
        \A p \in Path : IsPrefix(r.req.path, p) => LeftOver(t, p)

(* A thread has ended and holds the master lock for ever.                  *)
Leaked == master # Nobody /\ thread[master].pc = "done"

(* Only a WRITE can lose the master lock by itself (a folder, or a path    *)
(* without one); a READ or a DELETE only if a related delete ran along     *)
(* with it, and a create never takes it.                                   *)
LeakNeedsRace ==
    Leaked => MayLeak(master)

(* After a DELETE was answered OK its path and all below it are gone from  *)
(* the primary tree, but for what was made since it began and for what a   *)
(* second delete has brought back by opening it and is about to remove.    *)
DeletedIsGone ==
    \A t \in Threads :
        LET r == thread[t] IN
        r.pc = "done" /\ r.req.op = "delete" /\ r.resp = OK =>
            \A p \in Path \ made[t] :
                IsPrefix(r.req.path, p) /\ Exists("primary", p) =>
                    \E u \in Threads : Doing(u, "remove") /\ Top(u).path = p

(* The master lock is given back before a file is streamed, so two streams *)
(* of one file can meet.  A stream that has its file to itself - nobody    *)
(* was writing to it when it was opened, nobody has truncated it since -   *)
(* is right: a WRITE finds in the file what it has written and nothing     *)
(* else, a READ sends what is in it from the first chunk to the last.      *)
(* Nothing is said of what the others find; but a stream is one of them    *)
(* only if it has a rival: a WRITE of the same file (the second of two     *)
(* WRITEs that overlap is not alone either, although nobody truncates what *)
(* it writes), or a CREATE or DELETE of its path.                          *)
Undisturbed ==
    /\ \A t \in alone :
        LET r == thread[t]
            content == data["primary"][r.ino]
        IN  /\ r.req.op = "write" => content = [j \in 1 .. r.pos |-> t]
            /\ r.req.op = "read" => IsPrefix(r.got, content)
            /\ r.req.op = "read" /\ r.pc = "done" => r.got = content
    /\ Contested

(* The backup tree has the shape of the primary one when the server is at  *)
(* rest, provided the changes came from the naming server, all were        *)
(* answered OK and no delete ran along with a request for a related path.  *)
Shape(r, p) == IF tree[r][p] > Folder THEN 1 ELSE tree[r][p]
MirrorKept ==
    (\A t \in Threads :
        /\ ~ Active(t) /\ t \notin raced
        /\ thread[t].req.port = "nm" => thread[t].resp = OK
        /\ thread[t].req.port = "client" => thread[t].req.op = "read")
    => \A p \in Path : Shape("primary", p) = Shape("backup", p)

(* The ways in which the two trees may drift apart for good.               *)
Drifted ==
    \E t \in Threads :
        \/ t \in raced
        \/ thread[t].req.port = "client" /\ thread[t].req.op # "read"
        \/ thread[t].req.port = "nm" /\ thread[t].pc = "done" /\ thread[t].resp # OK

(* Some request has still to do with p in the backup tree.                 *)
Pending(p) ==
    \E u \in Threads :
        LET r == thread[u] IN
        \/ Active(u) /\ r.req.op = "delete" /\ IsPrefix(r.req.path, p)
        \/ r.pc = "create" /\ r.root = "backup" /\ r.req.path = p

(* What a request has done to the primary tree stays so while it goes on   *)
(* with the backup tree.                                                   *)
PrimaryDone(t) ==
    LET r == thread[t] IN
    r.root = "backup" =>
        /\ r.pc = "create" =>
            Shape("primary", r.req.path) = IF r.req.op = "mkdir" THEN Folder ELSE 1
        /\ r.pc = "delete" =>
            \A p \in Path : IsPrefix(r.req.path, p) => ~ Exists("primary", p)

MirrorBacked ==
    \/ Drifted
    \/ /\ \A p \in Path : Shape("primary", p) = Shape("backup", p) \/ Pending(p)
       /\ \A t \in Threads : PrimaryDone(t)

(* All of it, as TLC checks it and StorageProofs proves it.                *)
StoreInv ==
    /\ IInv
    /\ WellRooted /\ RivalsRaced /\ Owned /\ MirrorBacked
    /\ \A t \in Threads :
        /\ BelowItsPath(thread[t]) /\ StillThere(t) /\ StageOK(thread[t])
        /\ SawFile(t) /\ LeftPrimary(t)
    /\ \A t \in alone : AloneInFile(t)
    /\ Contested /\ \A t \in Threads : OpenedHere(t)

(* A client that stalls in the middle of a stream holds up nobody else: a  *)
(* request that is not streaming itself gets to its stream or to its end,  *)
(* unless the master lock has been lost.                                   *)
StalledClientBlocksNobody ==
    \A t \in Threads :
        Active(t) ~> (thread[t].pc \in {"stream", "done"} \/ Leaked)

(* Every request ends, whatever the others do (README.md:28).              *)
EveryRequestEnds == \A t \in Threads : Active(t) ~> ~ Active(t)
=============================================================================
