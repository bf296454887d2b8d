---------------------------- MODULE NamingServer ----------------------------
(***************************************************************************)
(* The naming server and what it makes the storage servers do: one thread  *)
(* per client connection (NM/client_handler.c and NM/request_handlers/),   *)
(* the thread that registers storage servers (NM/ss_handler.c), and the    *)
(* storage servers as the naming server sees them (SS/nm_handler.c,        *)
(* SS/create.c, SS/delete.c): a disk each and one backup tree they share.  *)
(*                                                                         *)
(* A thread serves one request, so the set Threads bounds the requests of  *)
(* a behaviour; MaxCrashes bounds the crashes of storage servers.          *)
(***************************************************************************)
EXTENDS SsInfo

CONSTANTS
    Threads,       \* client handler threads, one request each
    Path,          \* the paths that can exist on a disk
    Requests,      \* the requests clients send
    Disks,         \* what the disk of a storage server can hold at first
    Dot,           \* the character '.'
    MaxCrashes     \* bound on crashes of storage servers

None   == "none"
File   == "file"
Folder == "folder"
Kinds  == {None, File, Folder}

OK == "OK"                       \* OK_RESPONSE
NotFound == "NOT_FOUND"
InternalError == "INTERNAL_ERROR"
InvalidContent == "INVALID_REQUEST_CONTENT"
AlreadyExists == "ALREADY_EXISTS"
Redirect == "REDIRECT"
Garbage == "garbage"             \* an indeterminate byte other than OK
Responses == {OK, NotFound, InternalError, InvalidContent, AlreadyExists,
              Redirect, Garbage}

(* read stands for READ and WRITE, info for FILE_INFO and GET_LIST: the    *)
(* naming server treats the two of a pair alike.                           *)
Ops == {"create", "delete", "read", "info"}

NoRequest == [op |-> "none", path |-> <<>>, folder |-> FALSE]

(* get_parent: what precedes the last '/', nothing when there is none.     *)
Parent(p) ==
    LET slashes == {i \in 1 .. Len(p) : p[i] = Slash}
    IN  IF slashes = {} THEN <<>> ELSE SubSeq(p, 1, Max(slashes) - 1)

(* The paths create_request_handler refuses: empty, hidden or absolute, or *)
(* with an empty base name (get_basename).                                 *)
InvalidPath(p) == p = <<>> \/ p[1] \in {Dot, Slash} \/ p[Len(p)] = Slash

ASSUME RequestsAssumption ==
    /\ Path \subseteq Word
    /\ Requests \subseteq [op : Ops, path : Word, folder : BOOLEAN]
    /\ Disks \subseteq [Path -> Kinds]
    /\ MaxCrashes \in Nat

VARIABLES
    thread,        \* the client handler threads
    registrar,     \* the ss_handler thread
    alive,         \* FALSE once the naming server's process has died
    status,        \* the storage servers' processes
    disk,          \* their disks
    backup,        \* the tree under ../backup/
    crashes,       \* crashes so far
    held           \* history: <<s, p>> once server s has had path p

ssVars == << status, disk, backup, crashes, held >>
vars == << dirVars, thread, registrar, alive, ssVars >>

(* Where a client handler thread is.                                       *)
Pcs == {"idle",                          \* no connection accepted yet
        "cache", "trie", "fill",         \* in get_ss_id_of_path
        "pick", "connect",               \* choosing and calling a server
        "primary", "backup", "reply",    \* the server's nm_handler at work
        "cut",                           \* the server died on the call
        "trieAdd", "cacheAdd",           \* in add_path
        "cacheDel", "trieDel",           \* in remove_path
        "redirect", "answer", "done"}

Stages == {"target", "parent"}           \* which path is being looked up

ThreadRecord ==
    [pc : Pcs, req : Requests \cup {NoRequest}, stage : Stages,
     ss : SS \cup {Sentinel}, resp : Responses, cut : BOOLEAN,
     answers : Seq(Responses),
     removed : SUBSET Path]              \* history: what its DELETE has taken

IdleThread ==
    [pc |-> "idle", req |-> NoRequest, stage |-> "target", ss |-> Sentinel,
     resp |-> InternalError, cut |-> FALSE, answers |-> <<>>, removed |-> {}]

RegistrarPcs == {"idle", "nm", "client", "paths", "table", "flag", "reply"}

Init ==
    /\ DirInit
    /\ thread = [t \in Threads |-> IdleThread]
    /\ registrar = [pc |-> "idle", ss |-> Sentinel]
    /\ alive = TRUE
    /\ status = [s \in SS |-> "off"]
    /\ disk \in [SS -> Disks]
    /\ backup = [p \in Path |-> None]
    /\ crashes = 0
    /\ held = {}

-----------------------------------------------------------------------------
(* Helpers of the thread actions.                                          *)
Become(t, r) == thread' = [thread EXCEPT ![t] = r]

LookupPath(r) == IF r.stage = "target" THEN r.req.path ELSE Parent(r.req.path)

Finish(r, response) == [r EXCEPT !.pc = "answer", !.resp = response]

(* What the request handlers do with the answer of get_ss_id_of_path.      *)
AfterCreateTarget(r, s) ==
    IF s # Sentinel THEN Finish(r, AlreadyExists)
    ELSE IF Parent(r.req.path) # <<>>
         THEN [r EXCEPT !.pc = "cache", !.stage = "parent"]
         ELSE [r EXCEPT !.pc = "pick"]

AfterSsOp(r, s) ==
    IF s = Sentinel THEN Finish(r, NotFound) ELSE [r EXCEPT !.pc = "connect"]

AfterRead(r, s) ==
    IF s = Sentinel THEN Finish(r, NotFound) ELSE [r EXCEPT !.pc = "redirect"]

(* FILE_INFO and GET_LIST answer NOT_FOUND and do not return: they go on   *)
(* to redirect the client to server -1 (file_info_handler.c:10-14).        *)
AfterInfo(r, s) ==
    [r EXCEPT !.pc = "redirect",
              !.answers = IF s = Sentinel THEN Append(@, NotFound) ELSE @]

AfterLookup(r, s) ==
    LET q == [r EXCEPT !.ss = s] IN
    CASE r.req.op = "create" /\ r.stage = "target" -> AfterCreateTarget(q, s)
      [] r.req.op = "create" /\ r.stage = "parent" -> AfterSsOp(q, s)
      [] r.req.op = "delete" -> AfterSsOp(q, s)
      [] r.req.op = "read" -> AfterRead(q, s)
      [] r.req.op = "info" -> AfterInfo(q, s)

-----------------------------------------------------------------------------
(* client_handler: the request arrives; create validates its path.         *)
Accept(t) ==
    /\ thread[t].pc = "idle"
    /\ \E q \in Requests :
        LET r == [thread[t] EXCEPT !.req = q] IN
        Become(t, IF q.op = "create" /\ InvalidPath(q.path)
                  THEN Finish(r, InvalidContent)
                  ELSE [r EXCEPT !.pc = "cache"])
    /\ UNCHANGED << dirVars, registrar, alive, ssVars >>

(* get_ss_id_of_path: the cache, then the trie, then the fill, each under  *)
(* its own lock; what was read may be stale when it is put in the cache.   *)
ReadCache(t) ==
    /\ thread[t].pc = "cache"
    /\ \E s \in CacheAnswers(LookupPath(thread[t])) :
        Become(t, IF s = Sentinel
                  THEN [thread[t] EXCEPT !.pc = "trie"]
                  ELSE [thread[t] EXCEPT !.pc = "fill", !.ss = s])
    /\ UNCHANGED << dirVars, registrar, alive, ssVars >>

ReadTrie(t) ==
    /\ thread[t].pc = "trie"
    /\ LET s == TrieAnswer(LookupPath(thread[t])) IN
        Become(t, IF s = Sentinel
                  THEN AfterLookup(thread[t], Sentinel)
                  ELSE [thread[t] EXCEPT !.pc = "fill", !.ss = s])
    /\ UNCHANGED << dirVars, registrar, alive, ssVars >>

FillCache(t) ==
    /\ thread[t].pc = "fill"
    /\ CacheInsert(thread[t].ss, LookupPath(thread[t]))
    /\ Become(t, AfterLookup(thread[t], thread[t].ss))
    /\ UNCHANGED << registrar, alive, ssVars >>

(* get_random_registered_ss_id, for a new top-level path. *)
PickServer(t) ==
    /\ thread[t].pc = "pick"
    /\ \E s \in RandomRegistered :
        Become(t, IF s = Sentinel
                  THEN Finish(thread[t], InternalError)
                  ELSE [thread[t] EXCEPT !.pc = "connect", !.ss = s])
    /\ UNCHANGED << dirVars, registrar, alive, ssVars >>

(* The server accepts connections from the naming server.                  *)
Reachable(s) == s \in nm_connection_addresses /\ status[s] = "up"

Connect(t) ==
    /\ thread[t].pc = "connect"
    /\ Reachable(thread[t].ss)
    /\ Become(t, [thread[t] EXCEPT !.pc = "primary"])
    /\ UNCHANGED << dirVars, registrar, alive, ssVars >>

(* Mutant of ConnectFails: the handler goes on trying.                     *)
ConnectRetries(t) == thread[t].pc = "connect" /\ UNCHANGED vars

(* socket, connect or send fails: always when the server is not listening, *)
(* and at any time for want of a descriptor.                               *)
ConnectFails(t) ==
    /\ thread[t].pc = "connect"
    /\ Become(t, Finish(thread[t], InternalError))
    /\ UNCHANGED << dirVars, registrar, alive, ssVars >>

(* Mutant of AfterResponse: the catalogue is updated whatever the answer.  *)
AfterAnyResponse(r, response) ==
    [r EXCEPT !.resp = response,
              !.pc = IF r.req.op = "create" THEN "trieAdd" ELSE "cacheDel"]

(* receive_response, and what the handler does with the response.          *)
AfterResponse(r, response) ==
    LET q == [r EXCEPT !.resp = response] IN
    IF response # OK THEN [q EXCEPT !.pc = "answer"]
    ELSE IF r.req.op = "create" THEN [q EXCEPT !.pc = "trieAdd"]
    ELSE [q EXCEPT !.pc = "cacheDel"]

ReceiveResponse(t) ==
    /\ thread[t].pc = "reply"
    /\ Become(t, AfterResponse(thread[t], thread[t].resp))
    /\ UNCHANGED << dirVars, registrar, alive, ssVars >>

(* The server died on the call.  recv fails, or it returns 0, which the    *)
(* handlers do not tell from success: `response` is then read without ever *)
(* having been written.                                                    *)
ReceiveNothing(t) ==
    /\ thread[t].pc = "cut"
    /\ \E response \in {InternalError, OK, Garbage} :
        Become(t, AfterResponse(thread[t], response))
    /\ UNCHANGED << dirVars, registrar, alive, ssVars >>

(* Mutants of AddToTrie: no insertion; a server drawn a second time.       *)
AddToCacheOnly(t) ==
    /\ thread[t].pc = "trieAdd"
    /\ Become(t, [thread[t] EXCEPT !.pc = "cacheAdd"])
    /\ UNCHANGED << dirVars, registrar, alive, ssVars >>

AddToAnotherServer(t) ==
    /\ thread[t].pc = "trieAdd"
    /\ \E s \in RandomRegistered : TrieInsert(s, thread[t].req.path)
    /\ Become(t, [thread[t] EXCEPT !.pc = "cacheAdd"])
    /\ UNCHANGED << registrar, alive, ssVars >>

(* add_path *)
AddToTrie(t) ==
    /\ thread[t].pc = "trieAdd"
    /\ TrieInsert(thread[t].ss, thread[t].req.path)
    /\ Become(t, [thread[t] EXCEPT !.pc = "cacheAdd"])
    /\ UNCHANGED << registrar, alive, ssVars >>

AddToCache(t) ==
    /\ thread[t].pc = "cacheAdd"
    /\ CacheInsert(thread[t].ss, thread[t].req.path)
    /\ Become(t, [thread[t] EXCEPT !.pc = "answer"])
    /\ UNCHANGED << registrar, alive, ssVars >>

(* remove_path *)
RemoveFromCache(t) ==
    /\ thread[t].pc = "cacheDel"
    /\ CacheDelete(thread[t].req.path)
    /\ Become(t, [thread[t] EXCEPT !.pc = "trieDel"])
    /\ UNCHANGED << registrar, alive, ssVars >>

RemoveFromTrie(t) ==
    /\ thread[t].pc = "trieDel"
    /\ TrieDelete(thread[t].req.path)
    /\ Become(t, [thread[t] EXCEPT !.pc = "answer"])
    /\ UNCHANGED << registrar, alive, ssVars >>

SendResponse(t) ==
    /\ thread[t].pc = "answer"
    /\ Become(t, [thread[t] EXCEPT !.pc = "done",
                                   !.answers = Append(@, thread[t].resp)])
    /\ UNCHANGED << dirVars, registrar, alive, ssVars >>

(* REDIRECT and the client address of the server: of entry -1, which is    *)
(* outside the table, after a lookup that failed in FILE_INFO or GET_LIST. *)
SendRedirect(t) ==
    /\ thread[t].pc = "redirect"
    /\ Become(t, [thread[t] EXCEPT !.pc = "done", !.answers = Append(@, Redirect)])
    /\ UNCHANGED << dirVars, registrar, alive, ssVars >>

(* addPath writes outside the table: the process dies.                     *)
CacheCrash(t) ==
    /\ \/ thread[t].pc = "fill" /\ CacheInsertCrashes(LookupPath(thread[t]))
       \/ thread[t].pc = "cacheAdd" /\ CacheInsertCrashes(thread[t].req.path)
    /\ alive' = FALSE
    /\ UNCHANGED << dirVars, thread, registrar, ssVars >>

ThreadStep(t) ==
    /\ alive
    /\ \/ ReadCache(t) \/ ReadTrie(t) \/ FillCache(t) \/ PickServer(t)
       \/ Connect(t) \/ ConnectFails(t)
       \/ ReceiveResponse(t) \/ ReceiveNothing(t)
       \/ AddToTrie(t) \/ AddToCache(t) \/ RemoveFromCache(t) \/ RemoveFromTrie(t)
       \/ SendResponse(t) \/ SendRedirect(t) \/ CacheCrash(t)

-----------------------------------------------------------------------------
(* ss_handler_thread: one registration at a time, register_ss step by step.*)
Announced(s) == {p \in Path : disk[s][p] # None}

(* Mutant of AcceptServer: a server that is known is not registered again. *)
AcceptNewServer(s) ==
    /\ registrar.pc = "idle"
    /\ status[s] = "announced" /\ s \notin is_registered
    /\ registrar' = [pc |-> "nm", ss |-> s]
    /\ UNCHANGED << dirVars, thread, alive, ssVars >>

AcceptServer(s) ==
    /\ registrar.pc = "idle"
    /\ status[s] = "announced"
    /\ registrar' = [pc |-> "nm", ss |-> s]
    /\ UNCHANGED << dirVars, thread, alive, ssVars >>

RegisterNmAddress ==
    /\ registrar.pc = "nm"
    /\ WriteNmAddress(registrar.ss)
    /\ registrar' = [registrar EXCEPT !.pc = "client"]
    /\ UNCHANGED << thread, alive, ssVars >>

(* Mutant of RegisterClientAddress: the address is not stored.             *)
SkipClientAddress ==
    /\ registrar.pc = "client"
    /\ registrar' = [registrar EXCEPT !.pc = "paths"]
    /\ UNCHANGED << dirVars, thread, alive, ssVars >>

RegisterClientAddress ==
    /\ registrar.pc = "client"
    /\ WriteClientAddress(registrar.ss)
    /\ registrar' = [registrar EXCEPT !.pc = "paths"]
    /\ UNCHANGED << thread, alive, ssVars >>

RegisterPaths ==
    /\ registrar.pc = "paths"
    /\ InsertPaths(registrar.ss, Announced(registrar.ss))
    /\ registrar' = [registrar EXCEPT !.pc = "table"]
    /\ held' = held \cup ({registrar.ss} \X Announced(registrar.ss))
    /\ UNCHANGED << thread, alive, status, disk, backup, crashes >>

RegisterTable ==
    /\ registrar.pc = "table"
    /\ InitializeTable
    /\ registrar' = [registrar EXCEPT !.pc = "flag"]
    /\ UNCHANGED << thread, alive, ssVars >>

RegisterFlag ==
    /\ registrar.pc = "flag"
    /\ SetRegistered(registrar.ss)
    /\ registrar' = [registrar EXCEPT !.pc = "reply"]
    /\ UNCHANGED << thread, alive, ssVars >>

(* OK to the server, which starts its acceptors only now (SS/main.c).      *)
RegisterReply ==
    /\ registrar.pc = "reply"
    /\ status' = [status EXCEPT ![registrar.ss] = "up"]
    /\ registrar' = [pc |-> "idle", ss |-> Sentinel]
    /\ UNCHANGED << dirVars, thread, alive, disk, backup, crashes, held >>

RegistrarStep ==
    /\ alive
    /\ \/ \E s \in SS : AcceptServer(s)
       \/ RegisterNmAddress \/ RegisterClientAddress \/ RegisterPaths
       \/ RegisterTable \/ RegisterFlag \/ RegisterReply

-----------------------------------------------------------------------------
(* The storage servers.  A tree is a function from Path to Kinds.          *)
HasParent(tree, p) ==
    Parent(p) = <<>> \/ (Parent(p) \in Path /\ tree[Parent(p)] = Folder)

(* create_file: fopen "w", which truncates a file that is there.           *)
(* create_folder: mkdir, which fails on anything that is there.            *)
CanCreate(tree, p, folder) ==
    /\ p \in Path
    /\ HasParent(tree, p)
    /\ IF folder THEN tree[p] = None ELSE tree[p] # Folder

Created(tree, p, folder) ==
    [tree EXCEPT ![p] = IF folder THEN Folder ELSE File]

(* delete_file_or_folder: nothing when stat fails; else the whole subtree, *)
(* or a part of what is in the folder, depth first, when another thread    *)
(* removes or adds an entry meanwhile.                                     *)
Below(tree, p) == {q \in Path : IsPrefix(Append(p, Slash), q) /\ tree[q] # None}

Without(tree, gone) == [q \in Path |-> IF q \in gone THEN None ELSE tree[q]]

DeletedPart(tree, p) ==
    {gone \in SUBSET Below(tree, p) : \A q \in gone : Below(tree, q) \subseteq gone}

DeleteOutcomes(tree, p) ==
    IF p \notin Path \/ tree[p] = None
    THEN {[ok |-> FALSE, tree |-> tree]}
    ELSE {[ok |-> TRUE, tree |-> Without(tree, {p} \cup Below(tree, p))]}
         \cup {[ok |-> FALSE, tree |-> Without(tree, gone)] :
                  gone \in IF Below(tree, p) = {} THEN {} ELSE DeletedPart(tree, p)}

(* Mutant of SsStep: a failure in the primary tree is forgotten.           *)
SsStepRegardless(r, ok, next) == [r EXCEPT !.pc = next, !.resp = OK]

(* nm_handler: the primary tree first, then the backup tree, `||` between  *)
(* them; a backup that fails leaves the primary as it is.                  *)
SsStep(r, ok, next) ==
    IF ok THEN [r EXCEPT !.pc = next, !.resp = OK]
    ELSE [r EXCEPT !.pc = "reply", !.resp = InternalError]

CreatePrimary(t) ==
    LET r == thread[t]  s == r.ss  ok == CanCreate(disk[s], r.req.path, r.req.folder) IN
    /\ r.pc = "primary" /\ r.req.op = "create"
    /\ Become(t, SsStep(r, ok, "backup"))
    /\ disk' = IF ok THEN [disk EXCEPT ![s] = Created(@, r.req.path, r.req.folder)]
               ELSE disk
    /\ held' = IF ok THEN held \cup {<<s, r.req.path>>} ELSE held
    /\ UNCHANGED << dirVars, registrar, alive, status, backup, crashes >>

CreateBackup(t) ==
    LET r == thread[t]  ok == CanCreate(backup, r.req.path, r.req.folder) IN
    /\ r.pc = "backup" /\ r.req.op = "create"
    /\ Become(t, SsStep(r, ok, "reply"))
    /\ backup' = IF ok THEN Created(backup, r.req.path, r.req.folder) ELSE backup
    /\ UNCHANGED << dirVars, registrar, alive, status, disk, crashes, held >>

(* What a call took from a tree. *)
Taken(before, after) == {p \in Path : before[p] # None /\ after[p] = None}

DeletePrimary(t) ==
    LET r == thread[t]  s == r.ss IN
    /\ r.pc = "primary" /\ r.req.op = "delete"
    /\ \E o \in DeleteOutcomes(disk[s], r.req.path) :
          /\ Become(t, [SsStep(r, o.ok, "backup") EXCEPT
                          !.removed = Taken(disk[s], o.tree)])
          /\ disk' = [disk EXCEPT ![s] = o.tree]
    /\ UNCHANGED << dirVars, registrar, alive, status, backup, crashes, held >>

DeleteBackup(t) ==
    LET r == thread[t] IN
    /\ r.pc = "backup" /\ r.req.op = "delete"
    /\ \E o \in DeleteOutcomes(backup, r.req.path) :
          /\ Become(t, SsStep(r, o.ok, "reply"))
          /\ backup' = o.tree
    /\ UNCHANGED << dirVars, registrar, alive, status, disk, crashes, held >>

SsHandlerStep(t) ==
    CreatePrimary(t) \/ CreateBackup(t) \/ DeletePrimary(t) \/ DeleteBackup(t)

(* initialize: scan the disk and ask the naming server to register it.     *)
Boot(s) ==
    /\ status[s] = "off"
    /\ status' = [status EXCEPT ![s] = "announced"]
    /\ UNCHANGED << dirVars, thread, registrar, alive, disk, backup, crashes, held >>

(* The process dies, its nm_handler threads and their connections with it. *)
Crash(s) ==
    /\ status[s] = "up"
    /\ crashes < MaxCrashes
    /\ crashes' = crashes + 1
    /\ status' = [status EXCEPT ![s] = "off"]
    /\ thread' = [t \in Threads |->
          IF thread[t].ss = s /\ thread[t].pc \in {"primary", "backup", "reply"}
          THEN [thread[t] EXCEPT !.pc = "cut", !.cut = TRUE] ELSE thread[t]]
    /\ UNCHANGED << dirVars, registrar, alive, disk, backup, held >>

Tick ==
    /\ ClockTick
    /\ UNCHANGED << thread, registrar, alive, ssVars >>

-----------------------------------------------------------------------------
Next ==
    \/ \E t \in Threads : alive /\ Accept(t)
    \/ \E t \in Threads : ThreadStep(t)
    \/ RegistrarStep
    \/ \E t \in Threads : SsHandlerStep(t)
    \/ \E s \in SS : Boot(s) \/ Crash(s)
    \/ Tick

Spec == Init /\ [][Next]_vars

(* A thread of the naming server that can run does run, and so does the    *)
(* registrar: each is a POSIX thread that waits on nothing but locks held  *)
(* for one critical section.  Nothing is assumed of clients, of the clock  *)
(* or of the storage servers.                                              *)
Fairness == \A t \in Threads : WF_vars(ThreadStep(t))

FairSpec == Spec /\ Fairness /\ WF_vars(RegistrarStep)

-----------------------------------------------------------------------------
(* Type correctness of the naming server's memory and of what the storage  *)
(* servers hold.                                                           *)
SlotType == [path : Word, ssid : SS \cup {Sentinel}, fresh : BOOLEAN]

TypeOK ==
    /\ nm_connection_addresses \subseteq SS
    /\ client_connection_addresses \subseteq SS
    /\ IsTrie(path_ss_info)
    /\ \A n \in DOMAIN path_ss_info : path_ss_info[n] \in SS \cup {Sentinel}
    /\ DOMAIN ht = Slots /\ \A i \in Slots : ht[i] \in SlotType
    /\ ht_ready \in BOOLEAN
    /\ is_registered \subseteq SS
    /\ DOMAIN thread = Threads /\ \A t \in Threads : thread[t] \in ThreadRecord
    /\ registrar \in [pc : RegistrarPcs, ss : SS \cup {Sentinel}]
    /\ alive \in BOOLEAN
    /\ status \in [SS -> {"off", "announced", "up"}]
    /\ DOMAIN disk = SS /\ \A s \in SS : disk[s] \in [Path -> Kinds]
    /\ backup \in [Path -> Kinds]
    /\ crashes \in 0 .. MaxCrashes
    /\ held \subseteq SS \X Path

(* A server id the naming server can hand to a thread - from the trie, the *)
(* cache, the registered set, or one a thread already holds - has both its *)
(* addresses written: register_ss writes them before the paths and the     *)
(* flag, and nothing is unregistered, so no thread ever connects or        *)
(* redirects a client to an address that is still zero.                    *)
KnownIds ==
    ({path_ss_info[n] : n \in DOMAIN path_ss_info}
       \cup {ht[i].ssid : i \in Slots}
       \cup {thread[t].ss : t \in Threads}
       \cup is_registered) \ {Sentinel}

AddressPublished ==
    KnownIds \subseteq nm_connection_addresses \cap client_connection_addresses

(* Server s has had path p, or a create of p on it ended in a cut          *)
(* connection, whose unwritten response may read as OK.                    *)
Vouched(s, p) ==
    \/ <<s, p>> \in held
    \/ \E u \in Threads :
          /\ thread[u].cut
          /\ thread[u].req.op = "create" /\ thread[u].req.path = p
          /\ thread[u].ss = s

(* What the naming server says of a path was once so: a server named for   *)
(* it by the trie, by the cache, or to a client in a redirect, announced   *)
(* the path or created it.  Cache fills and lookups under separate locks   *)
(* may be stale, but never invent an owner.                                *)
TrieProvenance ==
    \A n \in DOMAIN path_ss_info :
        path_ss_info[n] # Sentinel => Vouched(path_ss_info[n], n)

CacheProvenance == \A i \in Used(ht) : Vouched(ht[i].ssid, ht[i].path)

LookupProvenance ==
    \A t \in Threads :
        thread[t].pc = "fill" => Vouched(thread[t].ss, LookupPath(thread[t]))

RedirectProvenance ==
    \A t \in Threads :
        thread[t].pc = "redirect" /\ thread[t].ss # Sentinel =>
            Vouched(thread[t].ss, thread[t].req.path)

Provenance ==
    TrieProvenance /\ CacheProvenance /\ LookupProvenance /\ RedirectProvenance

-----------------------------------------------------------------------------
(* The parts of the inductive invariant beyond what it is to imply.        *)

(* What the record of a thread says by itself: once it has a server it is  *)
(* one of SS, only a create looks up a parent, and a thread whose          *)
(* connection was cut is on its way to the answer.                         *)
ThreadOK(r) ==
    /\ IF r.pc = "idle" THEN r = IdleThread ELSE r.req \in Requests
    /\ r.pc \in {"fill", "connect", "primary", "backup", "reply", "cut",
                 "trieAdd", "cacheAdd"} => r.ss \in SS
    /\ r.stage = "parent" => r.req.op = "create"
    /\ r.pc = "redirect" => r.req.op \in {"read", "info"}
    /\ r.pc \in {"trieAdd", "cacheAdd"} => r.req.op = "create"
    /\ r.pc = "cut" => r.cut
    /\ r.cut => r.pc \in {"cut", "trieAdd", "cacheAdd", "cacheDel", "trieDel",
                          "answer", "done"}

(* The registering thread is past the writes of the addresses it has done. *)
RegistrarOK ==
    /\ registrar.pc # "idle" => registrar.ss \in SS
    /\ registrar.pc \in {"client", "paths", "table", "flag", "reply"} =>
          registrar.ss \in nm_connection_addresses
    /\ registrar.pc \in {"paths", "table", "flag", "reply"} =>
          registrar.ss \in client_connection_addresses

(* A create the naming server is about to record did happen. *)
CreateVouched(r) ==
    /\ r.req.op = "create"
    /\ \/ r.pc \in {"backup", "trieAdd", "cacheAdd"}
       \/ r.pc = "reply" /\ r.resp = OK
    => Vouched(r.ss, r.req.path)

(* The inductive invariant: each part is needed for another one to be kept *)
(* by some action, and each holds because of the order of the code.        *)
IInv ==
    /\ TypeOK
    /\ \A t \in Threads : ThreadOK(thread[t])
    /\ RegistrarOK
    /\ AddressPublished
    /\ Provenance
    /\ \A t \in Threads : CreateVouched(thread[t])

-----------------------------------------------------------------------------
(* A path is in at most one slot of the cache, although the miss that led  *)
(* to a fill was seen under another lock: addPath looks again.  Otherwise  *)
(* deletePath and the refreshes would leave two answers for one path.      *)
NoDuplicateEntries == NoDuplicates(ht)

(* The delete handler of thread u has run delete_trie, on a path with the  *)
(* same first character as p: what delete_trie can take along.             *)
DeleteRan(u, p) ==
    /\ thread[u].req.op = "delete"
    /\ thread[u].pc \in {"answer", "done"} /\ thread[u].resp = OK
    /\ thread[u].req.path[1] = p[1]

(* A path whose creation was confirmed stays in the catalogue, whatever    *)
(* other requests and registrations do, until some DELETE of a path that   *)
(* begins like it has gone through.                                        *)
CreatedStaysVisible ==
    \A t \in Threads :
        LET r == thread[t] IN
        /\ r.req.op = "create" /\ r.resp = OK
        /\ r.pc \in {"cacheAdd", "answer", "done"}
        => \/ TrieAnswer(r.req.path) # Sentinel
           \/ \E u \in Threads : DeleteRan(u, r.req.path)

(* Thread u has created p on server s, or may have, without the catalogue  *)
(* being told: it is still on its way, the backup tree refused it, or the  *)
(* connection broke.                                                       *)
Unlisted(u, s, p) ==
    /\ thread[u].req.op = "create" /\ thread[u].req.path = p /\ thread[u].ss = s
    /\ \/ thread[u].pc \in {"backup", "reply", "cut", "trieAdd"}
       \/ thread[u].pc \in {"answer", "done"} /\ thread[u].resp # OK

(* Every path on the disk of a running server can be found by clients,     *)
(* but for creates in flight, creates the naming server took for failed,   *)
(* and what a DELETE took along; crashes and new registrations included.   *)
NoLostPath ==
    \A s \in SS : \A p \in Path :
        status[s] = "up" /\ disk[s][p] # None
        => \/ TrieAnswer(p) # Sentinel
           \/ \E u \in Threads : Unlisted(u, s, p) \/ DeleteRan(u, p)

(* Thread u may be why server s does not have p: its DELETE took that very  *)
(* path from the disk of s, or its create of p on s was cut.  A DELETE that *)
(* was never sent, that found nothing, or that left the path where it is    *)
(* excuses nothing.                                                        *)
Excuses(u, s, p) ==
    LET r == thread[u] IN
    /\ r.ss = s
    /\ \/ p \in r.removed
       \/ r.req.op = "create" /\ r.req.path = p /\ r.cut

(* A path the catalogue places on a server is on its disk, unless a DELETE *)
(* took it from there - the catalogue is told later, when part of the      *)
(* DELETE fails never, and when delete_trie does nothing not at all - or   *)
(* its create was cut.  So a catalogue entry outlives only what a DELETE   *)
(* really took: refused requests, races and registrations leave none.      *)
NoPhantomPath ==
    \A p \in DOMAIN path_ss_info :
        path_ss_info[p] # Sentinel /\ disk[path_ss_info[p]][p] = None
        => \E u \in Threads : Excuses(u, path_ss_info[p], p)

-----------------------------------------------------------------------------
(* The parts of the inductive invariant behind the last three properties.  *)

(* More of what the record of a thread says by itself: which requests go   *)
(* to a storage server, that only a confirmed DELETE removes a path from   *)
(* the catalogue, and that none has taken anything before it was served.   *)
HandlerOK(r) ==
    /\ r.pc \in {"idle", "cache", "trie", "fill", "pick", "connect", "primary"} =>
          r.removed = {}
    /\ r.pc = "pick" => r.req.op = "create"
    /\ r.pc \in {"connect", "primary", "backup", "reply", "cut"} =>
          r.req.op \in {"create", "delete"}
    /\ r.pc \in {"cacheDel", "trieDel"} => r.req.op = "delete" /\ r.resp = OK

(* Server s has p, or may have lost it.  Once so, this remains so.         *)
Backed(s, p) ==
    \/ p \in Path /\ disk[s][p] # None
    \/ \E u \in Threads : Excuses(u, s, p)

(* What the catalogue says, and what a create is about to make it say.     *)
CatalogueBacked ==
    \A p \in DOMAIN path_ss_info :
        path_ss_info[p] # Sentinel => Backed(path_ss_info[p], p)

CreateBacked(r) ==
    /\ r.req.op = "create"
    /\ r.pc \in {"backup", "trieAdd"} \/ (r.pc = "reply" /\ r.resp = OK)
    => Backed(r.ss, r.req.path)

(* The path can be found, or a DELETE took it along.  So this remains, too. *)
Found(p) == TrieAnswer(p) # Sentinel \/ \E u \in Threads : DeleteRan(u, p)

(* Server s is running, or past the announcement of its paths.             *)
Listed(s) ==
    \/ status[s] = "up"
    \/ registrar.ss = s /\ registrar.pc \in {"table", "flag", "reply"}

ListedFound ==
    \A s \in SS : \A p \in Path :
        Listed(s) /\ disk[s][p] # None
        => Found(p) \/ \E u \in Threads : Unlisted(u, s, p)

CatalogueInv ==
    /\ IInv
    /\ \A t \in Threads : HandlerOK(thread[t]) /\ CreateBacked(thread[t])
    /\ CatalogueBacked
    /\ CreatedStaysVisible
    /\ ListedFound

-----------------------------------------------------------------------------
(* The naming server never leaves a client waiting on its own account: an  *)
(* accepted request is answered or is being worked on by a storage server, *)
(* as long as the process lives.                                           *)
Waiting(t) == thread[t].pc \notin {"idle", "done", "primary", "backup"}

NeverStuck == \A t \in Threads : Waiting(t) ~> (~ Waiting(t) \/ ~ alive)

(* A storage server that asks to be registered is told OK and goes up, one *)
(* after the other through the single registering thread, also after a     *)
(* crash and while another server is being registered.                     *)
EveryServerGoesUp ==
    \A s \in SS : status[s] = "announced" ~> (status[s] = "up" \/ ~ alive)

(* README: "Delete: Enables the deletion of files and folders".  A delete  *)
(* the storage server confirmed takes the path out of the catalogue.       *)
DeleteForgets ==
    [][\A t \in Threads :
          thread[t].pc = "trieDel" /\ thread'[t].pc = "answer"
          => Search(path_ss_info', thread[t].req.path) = Sentinel]_vars

(* README: "Supports up to 50 clients".  No requests of clients can bring  *)
(* the naming server down.                                                 *)
StaysUp == alive

=============================================================================
