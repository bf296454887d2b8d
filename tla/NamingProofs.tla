---------------------------- MODULE NamingProofs ----------------------------
(***************************************************************************)
(* The naming server's memory is well typed, names only servers whose      *)
(* addresses are written, and never invents the owner of a path; what it   *)
(* says of paths agrees with the disks of the storage servers, but for     *)
(* what is under way, deleted or was cut off: for any number of threads,   *)
(* servers, crashes, any paths, disks and requests.                        *)
(*                                                                         *)
(* IInv (NamingServer) is inductive.  StepKeepsIInv gathers what a step    *)
(* has to keep; every action is then an instance of it.  CatalogueInv is   *)
(* inductive, too: the second half of this module.                         *)
(***************************************************************************)
EXTENDS NamingServer, TrieProofs

(* The operations of PathCache never make two slots hold the same path,    *)
(* whatever the size of the table, its contents and the paths.             *)

(* What a cache is made of: slots with a path, a server and an age.        *)
IsCache(c) ==
    /\ DOMAIN c = Slots
    /\ \E P, S : \A i \in Slots : c[i] \in [path : P, ssid : S, fresh : BOOLEAN]

(* NoDuplicates, as the proofs use it. *)
LEMMA NoDuplicatesByPair ==
    ASSUME NEW c
    PROVE  NoDuplicates(c) <=>
             \A i, j \in Used(c) : c[i].path = c[j].path => i = j
BY DEF NoDuplicates, Hits

(* addPath looks for the path again before it takes a slot, so a fill that *)
(* comes after another one of the same path refreshes that entry.          *)
LEMMA AddPathNoDuplicates ==
    ASSUME NEW c, IsCache(c), NoDuplicates(c), NEW p, NEW s,
           NEW d \in AddPath(c, p, s)
    PROVE  NoDuplicates(d)
<1> USE NoDuplicatesByPair
<1>1. \A k \in Slots : c[k] = [path |-> c[k].path, ssid |-> c[k].ssid, fresh |-> c[k].fresh]
  BY DEF IsCache
<1>2. CASE Hits(c, p) # {}
  <2>1. PICK i \in Slots : d = [c EXCEPT ![i].fresh = TRUE]
    BY <1>2 DEF AddPath, Lowest, Hits, Used
  <2>2. \A k \in Slots : d[k].path = c[k].path /\ d[k].ssid = c[k].ssid
    BY <1>1, <2>1 DEF IsCache
  <2> QED BY <2>2 DEF Used
<1>3. CASE Hits(c, p) = {}
  <2>1. PICK i \in Slots : d = [c EXCEPT ![i] = [path |-> p, ssid |-> s, fresh |-> TRUE]]
    BY <1>3 DEF AddPath, SlotFor, Lowest, Highest, Free, Old, Used
  <2>2. /\ d[i].path = p
        /\ \A k \in Slots : k # i => d[k] = c[k]
    BY <2>1 DEF IsCache
  <2>3. \A k \in Used(c) : c[k].path # p
    BY <1>3 DEF Hits
  <2> QED BY <2>2, <2>3 DEF Used
<1> QED
  BY <1>2, <1>3

(* deletePath only empties slots. *)
LEMMA DeletePathNoDuplicates ==
    ASSUME NEW c, NoDuplicates(c), NEW p
    PROVE  NoDuplicates(DeletePath(c, p))
<1> DEFINE d == DeletePath(c, p)
<1>1. \A k \in Slots : d[k] = c[k] \/ d[k].ssid = -1
  BY DEF DeletePath, FreeSlot
<1> HIDE DEF d
<1>2. NoDuplicates(d)
  BY <1>1, NoDuplicatesByPair DEF Used
<1> QED
  BY <1>2 DEF d

(* The clock changes neither paths nor servers. *)
LEMMA NextSecondNoDuplicates ==
    ASSUME NEW c, IsCache(c), NoDuplicates(c)
    PROVE  NoDuplicates(NextSecond(c))
<1> DEFINE d == NextSecond(c)
<1>1. \A k \in Slots : d[k].path = c[k].path /\ d[k].ssid = c[k].ssid
  <2>1. \A k \in Slots : d[k] = [c[k] EXCEPT !.fresh = FALSE]
    BY DEF NextSecond
  <2>2. \A k \in Slots : c[k] = [path |-> c[k].path, ssid |-> c[k].ssid, fresh |-> c[k].fresh]
    BY DEF IsCache
  <2> QED BY <2>1, <2>2
<1> HIDE DEF d
<1>2. NoDuplicates(d)
  BY <1>1, NoDuplicatesByPair DEF Used
<1> QED
  BY <1>2 DEF d

-----------------------------------------------------------------------------

(* get_parent yields a path. *)
LEMMA ParentIsWord ==
    ASSUME NEW p \in Word
    PROVE  Parent(p) \in Word
<1> DEFINE S == {i \in 1 .. Len(p) : p[i] = Slash}
<1>1. Len(p) \in Nat
  BY DEF Word
<1>2. CASE S = {}
  BY <1>2 DEF Parent, Word
<1>3. CASE S # {}
  <2>1. S \in SUBSET (0 .. Len(p)) /\ S \subseteq 1 .. Len(p)
    BY <1>1
  <2>2. Parent(p) = SubSeq(p, 1, Max(S) - 1)
    BY <1>3 DEF Parent
  <2> HIDE DEF S
  <2>3. Max(S) \in 1 .. Len(p)
    BY <1>1, <1>3, <2>1, MaxIsMember
  <2> QED
    BY <1>1, <2>2, <2>3 DEF Word
<1> QED
  BY <1>2, <1>3

(* What a thread looks up is a path. *)
LEMMA LookupPathIsWord ==
    ASSUME RequestsAssumption, NEW r \in ThreadRecord
    PROVE  LookupPath(r) \in Word /\ r.req.path \in Word
<1>1. r.req \in Requests \cup {NoRequest}
  BY DEF ThreadRecord
<1>2. r.req \in Requests => r.req.path \in Word
  BY DEF RequestsAssumption
<1>3. r.req = NoRequest => r.req.path \in Word
  <2> HAVE r.req = NoRequest
  <2>1. r.req.path = <<>>
    BY DEF NoRequest
  <2>2. <<>> \in Word
    BY DEF Word
  <2> QED BY <2>1, <2>2
<1>4. r.req.path \in Word
  BY <1>1, <1>2, <1>3
<1> QED
  BY <1>4, ParentIsWord DEF LookupPath

-----------------------------------------------------------------------------
(* What the storage servers' part of TypeOK says. *)
SsTypeOK ==
    /\ status \in [SS -> {"off", "announced", "up"}]
    /\ DOMAIN disk = SS /\ \A s \in SS : disk[s] \in [Path -> Kinds]
    /\ backup \in [Path -> Kinds]
    /\ crashes \in 0 .. MaxCrashes
    /\ held \subseteq SS \X Path

Published == nm_connection_addresses \cap client_connection_addresses

(* What the record of thread u says of the rest of the state. *)
ThreadVouched(r) ==
    /\ r.pc = "fill" => Vouched(r.ss, LookupPath(r))
    /\ r.pc = "redirect" /\ r.ss # Sentinel => Vouched(r.ss, r.req.path)
    /\ CreateVouched(r)

GoodThread(u) ==
    /\ thread[u] \in ThreadRecord
    /\ ThreadOK(thread[u])
    /\ thread[u].ss \in {Sentinel} \cup Published
    /\ ThreadVouched(thread[u])

(* A create whose connection was cut keeps vouching for its path. *)
CutKept(u) ==
    thread[u].cut =>
        /\ thread'[u].cut
        /\ thread'[u].req = thread[u].req
        /\ thread'[u].ss = thread[u].ss

(* A datum of the trie, or an entry of the cache, is an old one, or names  *)
(* a published server that has had the path.                               *)
TrieKept ==
    /\ IsTrie(path_ss_info)'
    /\ \A n \in DOMAIN path_ss_info' :
         \/ path_ss_info'[n] = Sentinel
         \/ n \in DOMAIN path_ss_info /\ path_ss_info'[n] = path_ss_info[n]
         \/ path_ss_info'[n] \in SS \cap Published' /\ Vouched(path_ss_info[n], n)'

CacheKept ==
    /\ DOMAIN ht' = Slots
    /\ \A i \in Slots :
         /\ ht'[i] \in SlotType
         /\ \/ ht'[i].ssid = Sentinel
            \/ ht'[i].ssid = ht[i].ssid /\ ht'[i].path = ht[i].path
            \/ ht'[i].ssid \in SS \cap Published' /\ Vouched(ht[i].ssid, ht[i].path)'

(* What vouches for a path on a server goes on doing so. *)
LEMMA VouchedKept ==
    ASSUME NEW s, NEW p, Vouched(s, p),
           held \subseteq held', \A u \in Threads : CutKept(u)
    PROVE  Vouched(s, p)'
BY DEF Vouched, CutKept

(* The conditions under which a step keeps IInv. *)
LEMMA StepKeepsIInv ==
    ASSUME IInv,
           DOMAIN thread' = Threads,
           \A u \in Threads : CutKept(u),
           \A u \in Threads : thread'[u] = thread[u] \/ GoodThread(u)',
           TrieKept, CacheKept, SsTypeOK', held \subseteq held',
           nm_connection_addresses \subseteq nm_connection_addresses',
           client_connection_addresses \subseteq client_connection_addresses',
           nm_connection_addresses' \subseteq SS,
           client_connection_addresses' \subseteq SS,
           is_registered' \subseteq SS \cap Published',
           registrar' \in [pc : RegistrarPcs, ss : SS \cup {Sentinel}],
           RegistrarOK', alive' \in BOOLEAN, ht_ready' \in BOOLEAN
    PROVE  IInv'
<1>1. \A s, p : Vouched(s, p) => Vouched(s, p)'
  BY VouchedKept
<1>2. Published \subseteq Published'
  BY DEF Published
<1>3. \A u \in Threads : GoodThread(u)
  BY DEF IInv, TypeOK, AddressPublished, KnownIds, Published, GoodThread,
         ThreadVouched, Provenance, LookupProvenance, RedirectProvenance
<1>4. \A u \in Threads : GoodThread(u)'
  <2> TAKE u \in Threads
  <2>1. CASE thread'[u] = thread[u]
    BY <1>1, <1>2, <1>3, <2>1
      DEF GoodThread, ThreadVouched, CreateVouched
  <2> QED BY <2>1
<1>5. \A n \in DOMAIN path_ss_info' :
        path_ss_info'[n] # Sentinel =>
          path_ss_info'[n] \in SS \cap Published' /\ Vouched(path_ss_info[n], n)'
  <2> TAKE n \in DOMAIN path_ss_info'
  <2> HAVE path_ss_info'[n] # Sentinel
  <2>1. CASE n \in DOMAIN path_ss_info /\ path_ss_info'[n] = path_ss_info[n]
    <3>1. path_ss_info[n] \in SS \cap Published /\ Vouched(path_ss_info[n], n)
      BY <2>1 DEF IInv, TypeOK, AddressPublished, KnownIds, Published,
                  Provenance, TrieProvenance
    <3>2. Vouched(path_ss_info[n], n)'
      BY <1>1, <2>1, <3>1
    <3> QED BY <1>2, <2>1, <3>1, <3>2
  <2> QED BY <2>1 DEF TrieKept
<1>6. \A i \in Slots :
        ht'[i].ssid # Sentinel =>
          ht'[i].ssid \in SS \cap Published' /\ Vouched(ht[i].ssid, ht[i].path)'
  <2> TAKE i \in Slots
  <2> HAVE ht'[i].ssid # Sentinel
  <2>1. CASE ht'[i].ssid = ht[i].ssid /\ ht'[i].path = ht[i].path
    <3>1. ht[i].ssid \in SS \cap Published /\ Vouched(ht[i].ssid, ht[i].path)
      BY <2>1 DEF IInv, TypeOK, SlotType, AddressPublished, KnownIds, Published,
                  Provenance, CacheProvenance, Used, Sentinel
    <3>2. Vouched(ht[i].ssid, ht[i].path)'
      BY <1>1, <2>1, <3>1
    <3> QED BY <1>2, <2>1, <3>1, <3>2
  <2> QED BY <2>1 DEF CacheKept
<1>7. TypeOK'
  BY <1>4, <1>5 DEF TypeOK, GoodThread, TrieKept, CacheKept, SsTypeOK
<1>8. AddressPublished'
  BY <1>4, <1>5, <1>6, <1>7 DEF AddressPublished, KnownIds, GoodThread, Published
<1>9. Provenance'
  BY <1>4, <1>5, <1>6 DEF Provenance, TrieProvenance, CacheProvenance,
     LookupProvenance, RedirectProvenance, GoodThread, ThreadVouched, Used, Sentinel
<1> QED
  BY <1>4, <1>7, <1>8, <1>9 DEF IInv, GoodThread, ThreadVouched

-----------------------------------------------------------------------------
(* The response of a lookup turns a record in a lookup into a good one.    *)
LEMMA AfterLookupGood ==
    ASSUME RequestsAssumption,
           NEW r \in ThreadRecord, ThreadOK(r), r.pc \in {"trie", "fill"},
           NEW s \in SS \cup {Sentinel}, s = Sentinel \/ r.pc = "fill",
           r.pc = "fill" => Vouched(s, LookupPath(r))
    PROVE  /\ AfterLookup(r, s) \in ThreadRecord
           /\ ThreadOK(AfterLookup(r, s))
           /\ AfterLookup(r, s).ss = s
           /\ ~ r.cut
           /\ ThreadVouched(AfterLookup(r, s))
<1> DEFINE q == [r EXCEPT !.ss = s]
           a == AfterLookup(r, s)
<1>1. r.req \in Requests /\ ~ r.cut /\ r.req.op \in Ops /\ r.stage \in Stages
  BY DEF ThreadOK, ThreadRecord, RequestsAssumption
<1>2. q \in ThreadRecord /\ q.req = r.req /\ q.cut = r.cut /\ q.ss = s /\ q.stage = r.stage
  BY DEF ThreadRecord
<1> HIDE DEF q
<1> SUFFICES /\ a \in ThreadRecord
             /\ a.req = r.req /\ a.cut = r.cut /\ a.ss = s
             /\ a.pc \in {"cache", "pick", "connect", "redirect", "answer"}
             /\ a.stage = "parent" => r.req.op = "create"
             /\ a.pc = "connect" => s # Sentinel
             /\ a.pc = "redirect" => r.req.op \in {"read", "info"}
  <2> HIDE DEF a
  <2>1. a.pc = "redirect" /\ a.ss # Sentinel => Vouched(a.ss, a.req.path)
    BY <1>1 DEF LookupPath, Stages, ThreadOK
  <2>2. ThreadOK(a)
    BY <1>1 DEF ThreadOK
  <2>3. ThreadVouched(a)
    BY <2>1 DEF ThreadVouched, CreateVouched
  <2> QED BY <1>1, <2>2, <2>3 DEF a
<1>3. CASE r.req.op = "create" /\ r.stage = "target"
  <2>1. a = AfterCreateTarget(q, s)
    BY <1>3 DEF AfterLookup, q
  <2> HIDE DEF a
  <2> QED
    BY <1>1, <1>2, <1>3, <2>1, ZenonT(40)
      DEF AfterCreateTarget, Finish, ThreadRecord, Pcs, Stages, Responses, AlreadyExists
<1>4. CASE (r.req.op = "create" /\ r.stage = "parent") \/ r.req.op = "delete"
  <2>1. a = AfterSsOp(q, s)
    BY <1>4 DEF AfterLookup, q
  <2> HIDE DEF a
  <2> QED
    BY <1>1, <1>2, <1>4, <2>1
      DEF AfterSsOp, Finish, ThreadRecord, Pcs, Stages, Responses, NotFound, ThreadOK
<1>5. CASE r.req.op = "read"
  <2>1. a = AfterRead(q, s)
    BY <1>5 DEF AfterLookup, q
  <2> HIDE DEF a
  <2> QED
    BY <1>1, <1>2, <1>5, <2>1
      DEF AfterRead, Finish, ThreadRecord, Pcs, Stages, Responses, NotFound, ThreadOK
<1>6. CASE r.req.op = "info"
  <2> DEFINE sent == IF s = Sentinel THEN Append(q.answers, NotFound) ELSE q.answers
  <2>1. a = [q EXCEPT !.pc = "redirect", !.answers = sent]
    BY <1>6 DEF AfterLookup, AfterInfo, q
  <2>2. sent \in Seq(Responses)
    <3>1. q.answers \in Seq(Responses) /\ NotFound \in Responses
      BY <1>2 DEF ThreadRecord, Responses
    <3> QED BY <3>1
  <2> HIDE DEF a, sent
  <2> QED
    BY <1>1, <1>2, <1>6, <2>1, <2>2 DEF ThreadRecord, Pcs, Stages, ThreadOK
<1> QED
  BY <1>1, <1>3, <1>4, <1>5, <1>6 DEF Ops, Stages

-----------------------------------------------------------------------------
(* A step of one thread that leaves the storage servers alone. *)
LEMMA ThreadUpdate ==
    ASSUME IInv, NEW t \in Threads, NEW q, Become(t, q),
           q \in ThreadRecord, ThreadOK(q),
           q.ss \in {Sentinel} \cup Published,
           ThreadVouched(q),
           thread[t].cut => q.cut /\ q.req = thread[t].req /\ q.ss = thread[t].ss,
           TrieKept, CacheKept,
           UNCHANGED << nm_connection_addresses, client_connection_addresses,
                        is_registered, ht_ready, registrar, alive, ssVars >>
    PROVE  IInv'
<1>1. thread' = [thread EXCEPT ![t] = q] /\ DOMAIN thread = Threads
  BY DEF Become, IInv, TypeOK
<1>2. thread'[t] = q /\ \A u \in Threads : u # t => thread'[u] = thread[u]
  BY <1>1
<1>3. \A u \in Threads : CutKept(u)
  BY <1>2 DEF CutKept
<1>4. held \subseteq held'
  BY DEF ssVars
<1>5. \A s, p : Vouched(s, p) => Vouched(s, p)'
  BY <1>3, <1>4, VouchedKept
<1>6. GoodThread(t)'
  BY <1>2, <1>5 DEF GoodThread, ThreadVouched, CreateVouched, Published
<1>7. SsTypeOK'
  BY DEF IInv, TypeOK, SsTypeOK, ssVars
<1>8. RegistrarOK' /\ registrar' \in [pc : RegistrarPcs, ss : SS \cup {Sentinel}]
  BY DEF IInv, TypeOK, RegistrarOK
<1>9. is_registered' \subseteq SS \cap Published'
  BY SSAssumption DEF IInv, TypeOK, AddressPublished, KnownIds, Published
<1> QED
  BY <1>1, <1>2, <1>3, <1>4, <1>6, <1>7, <1>8, <1>9, StepKeepsIInv DEF IInv, TypeOK

(* A trie and a cache that do not change are kept. *)
LEMMA SameMemory ==
    ASSUME IInv
    PROVE  /\ UNCHANGED path_ss_info => TrieKept
           /\ UNCHANGED ht => CacheKept
BY DEF TrieKept, CacheKept, IInv, TypeOK, IsTrie

(* A thread step that changes nothing but the thread. *)
LEMMA QuietThreadUpdate ==
    ASSUME IInv, NEW t \in Threads, NEW q, Become(t, q),
           q \in ThreadRecord, ThreadOK(q),
           q.ss \in {Sentinel} \cup Published,
           ThreadVouched(q),
           thread[t].cut => q.cut /\ q.req = thread[t].req /\ q.ss = thread[t].ss,
           UNCHANGED << dirVars, registrar, alive, ssVars >>
    PROVE  IInv'
<1>1. TrieKept /\ CacheKept
  BY SameMemory DEF dirVars
<1> QED
  BY <1>1, ThreadUpdate DEF dirVars

-----------------------------------------------------------------------------
(* The actions of a client handler thread, one by one. *)
LEMMA AcceptKeeps ==
    ASSUME RequestsAssumption, IInv, NEW t \in Threads, Accept(t)
    PROVE  IInv'
<1>1. thread[t] = IdleThread
  BY DEF IInv, Accept, ThreadOK
<1>2. PICK q \in Requests :
        Become(t, IF q.op = "create" /\ InvalidPath(q.path)
                  THEN Finish([thread[t] EXCEPT !.req = q], InvalidContent)
                  ELSE [[thread[t] EXCEPT !.req = q] EXCEPT !.pc = "cache"])
  BY DEF Accept
<1> DEFINE n == IF q.op = "create" /\ InvalidPath(q.path)
                THEN Finish([thread[t] EXCEPT !.req = q], InvalidContent)
                ELSE [[thread[t] EXCEPT !.req = q] EXCEPT !.pc = "cache"]
<1>3. /\ n \in ThreadRecord
      /\ n.pc \in {"cache", "answer"} /\ n.req = q /\ n.stage = "target"
      /\ n.ss = Sentinel /\ ~ n.cut
  <2> DEFINE m == [IdleThread EXCEPT !.req = q]
  <2>1. n = Finish(m, InvalidContent) \/ n = [m EXCEPT !.pc = "cache"]
    BY <1>1
  <2>2. /\ m \in ThreadRecord /\ m.req = q /\ m.stage = "target"
        /\ m.ss = Sentinel /\ m.cut = FALSE
    <3>1. <<>> \in Seq(Responses)
      OBVIOUS
    <3> QED BY <3>1 DEF IdleThread, ThreadRecord, Pcs, Stages, Responses, InternalError
  <2> HIDE DEF n, m
  <2> QED
    BY <2>1, <2>2 DEF Finish, ThreadRecord, Pcs, Responses, InvalidContent
<1>4. Become(t, n) /\ ~ thread[t].cut
  BY <1>1, <1>2 DEF IdleThread
<1> HIDE DEF n
<1>5. ThreadOK(n) /\ ThreadVouched(n)
  BY <1>3 DEF ThreadOK, ThreadVouched, CreateVouched
<1> QED
  BY <1>3, <1>4, <1>5, QuietThreadUpdate DEF Accept

(* getSSID: an answer of the cache has had the path looked up. *)
LEMMA ReadCacheKeeps ==
    ASSUME RequestsAssumption, IInv, NEW t \in Threads, ReadCache(t)
    PROVE  IInv'
<1> DEFINE r == thread[t]
<1>1. r \in ThreadRecord /\ ThreadOK(r) /\ r.pc = "cache" /\ ~ r.cut
  BY DEF IInv, TypeOK, ReadCache, ThreadOK
<1>2. r.ss \in {Sentinel} \cup Published
  BY DEF IInv, AddressPublished, KnownIds, Published
<1>3. PICK s \in CacheAnswers(LookupPath(r)) :
        Become(t, IF s = Sentinel
                  THEN [r EXCEPT !.pc = "trie"]
                  ELSE [r EXCEPT !.pc = "fill", !.ss = s])
  BY DEF ReadCache
<1>4. CASE s = Sentinel
  <2> DEFINE n == [r EXCEPT !.pc = "trie"]
  <2>1. n \in ThreadRecord /\ ThreadOK(n) /\ n.ss = r.ss /\ ThreadVouched(n)
    BY <1>1 DEF ThreadRecord, ThreadOK, ThreadVouched, CreateVouched, Pcs
  <2> QED
    BY <1>1, <1>2, <1>3, <1>4, <2>1, QuietThreadUpdate DEF ReadCache
<1>5. CASE s # Sentinel
  <2> DEFINE n == [r EXCEPT !.pc = "fill", !.ss = s]
  <2>1. PICK i \in Used(ht) : s = ht[i].ssid /\ ht[i].path = LookupPath(r)
    BY <1>5 DEF CacheAnswers, GetSSID, Hits, Lowest, Sentinel
  <2>2. s \in SS \cap Published
    BY <1>5, <2>1 DEF IInv, TypeOK, SlotType, AddressPublished, KnownIds,
                      Published, Used
  <2>3. Vouched(s, LookupPath(r))
    BY <2>1 DEF IInv, Provenance, CacheProvenance
  <2>4. n \in ThreadRecord /\ n.ss = s /\ n.req = r.req /\ n.stage = r.stage
        /\ n.pc = "fill" /\ n.cut = r.cut
    BY <1>1, <2>2 DEF ThreadRecord, Pcs
  <2>5. Become(t, n)
    BY <1>3, <1>5
  <2> HIDE DEF n
  <2>6. ThreadOK(n) /\ ThreadVouched(n)
    BY <1>1, <2>2, <2>3, <2>4 DEF ThreadOK, ThreadVouched, CreateVouched, LookupPath
  <2> QED
    BY <1>1, <2>2, <2>4, <2>5, <2>6, QuietThreadUpdate DEF ReadCache
<1> QED
  BY <1>4, <1>5

(* search_trie: so has an answer of the trie. *)
LEMMA ReadTrieKeeps ==
    ASSUME RequestsAssumption, IInv, NEW t \in Threads, ReadTrie(t)
    PROVE  IInv'
<1> DEFINE r == thread[t]
           s == TrieAnswer(LookupPath(r))
<1>1. r \in ThreadRecord /\ ThreadOK(r) /\ r.pc = "trie" /\ ~ r.cut
  BY DEF IInv, TypeOK, ReadTrie, ThreadOK
<1>2. CASE s = Sentinel
  <2> DEFINE n == AfterLookup(r, Sentinel)
  <2>1. /\ n \in ThreadRecord /\ ThreadOK(n) /\ n.ss = Sentinel /\ ThreadVouched(n)
    BY <1>1, AfterLookupGood
  <2>2. Become(t, n)
    BY <1>2 DEF ReadTrie
  <2> HIDE DEF n
  <2> QED
    BY <1>1, <2>1, <2>2, QuietThreadUpdate DEF ReadTrie
<1>3. CASE s # Sentinel
  <2> DEFINE n == [r EXCEPT !.pc = "fill", !.ss = s]
  <2>1. LookupPath(r) \in DOMAIN path_ss_info /\ s = path_ss_info[LookupPath(r)]
    BY <1>3 DEF TrieAnswer, Search
  <2>2. Become(t, n)
    BY <1>3 DEF ReadTrie
  <2> HIDE DEF s
  <2>3. s \in SS \cap Published
    BY <1>3, <2>1 DEF IInv, TypeOK, AddressPublished, KnownIds, Published
  <2>4. Vouched(s, LookupPath(r))
    BY <1>3, <2>1 DEF IInv, Provenance, TrieProvenance
  <2>5. n \in ThreadRecord /\ n.ss = s /\ n.req = r.req /\ n.stage = r.stage
        /\ n.pc = "fill" /\ n.cut = r.cut
    BY <1>1, <2>3 DEF ThreadRecord, Pcs
  <2> HIDE DEF n
  <2>6. ThreadOK(n) /\ ThreadVouched(n)
    BY <1>1, <2>3, <2>4, <2>5 DEF ThreadOK, ThreadVouched, CreateVouched, LookupPath
  <2> QED
    BY <1>1, <2>2, <2>3, <2>5, <2>6, QuietThreadUpdate DEF ReadTrie
<1> QED
  BY <1>2, <1>3

(* A cache entry for a published server that has had the path is kept.     *)
LEMMA CacheInsertKept ==
    ASSUME IInv, NEW s \in SS \cap Published, NEW p \in Word, Vouched(s, p),
           CacheInsert(s, p), held' = held, \A u \in Threads : CutKept(u)
    PROVE  CacheKept
<1>1. Vouched(s, p)' /\ Published' = Published
  BY VouchedKept DEF CacheInsert, Published
<1>2. DOMAIN ht = Slots /\ \A i \in Slots : ht[i] \in SlotType
  BY DEF IInv, TypeOK
<1>3. CASE ht' = ht
  BY <1>2, <1>3 DEF CacheKept
<1>4. ASSUME NEW i \in Slots, ht' = [ht EXCEPT ![i].fresh = TRUE]
      PROVE  CacheKept
  <2>1. DOMAIN ht' = Slots /\ \A j \in Slots :
          ht'[j] \in SlotType /\ ht'[j].ssid = ht[j].ssid /\ ht'[j].path = ht[j].path
    BY <1>2, <1>4 DEF SlotType
  <2> QED BY <2>1 DEF CacheKept
<1>5. ASSUME NEW i \in Slots,
             ht' = [ht EXCEPT ![i] = [path |-> p, ssid |-> s, fresh |-> TRUE]]
      PROVE  CacheKept
  <2>1. /\ DOMAIN ht' = Slots
        /\ ht'[i].ssid = s /\ ht'[i].path = p /\ ht'[i] \in SlotType
        /\ \A j \in Slots : j # i => ht'[j] = ht[j]
    BY <1>2, <1>5 DEF SlotType
  <2>2. Vouched(ht[i].ssid, ht[i].path)'
    <3>1. Vouched(ht[i].ssid, ht[i].path)' <=>
            \/ <<s, p>> \in held'
            \/ \E u \in Threads :
                  /\ thread'[u].cut
                  /\ thread'[u].req.op = "create" /\ thread'[u].req.path = p
                  /\ thread'[u].ss = s
      BY <2>1 DEF Vouched
    <3> QED BY <1>1, <3>1 DEF Vouched
  <2> QED BY <1>1, <1>2, <2>1, <2>2 DEF CacheKept
<1>6. ht' \in (IF ht_ready THEN AddPath(ht, p, s) ELSE {ht})
  BY DEF CacheInsert
<1>7. \/ ht' = ht
      \/ \E i \in Slots : ht' = [ht EXCEPT ![i].fresh = TRUE]
      \/ \E i \in Slots :
            ht' = [ht EXCEPT ![i] = [path |-> p, ssid |-> s, fresh |-> TRUE]]
  BY <1>6 DEF AddPath, Hits, Used, Lowest, Highest, SlotFor, Free, Old
<1> QED
  BY <1>3, <1>4, <1>5, <1>7

(* addPath after a lookup, and what the request handler does next. *)
LEMMA FillCacheKeeps ==
    ASSUME RequestsAssumption, IInv, NEW t \in Threads, FillCache(t)
    PROVE  IInv'
<1> DEFINE r == thread[t]
           n == AfterLookup(r, r.ss)
<1>1. r \in ThreadRecord /\ ThreadOK(r) /\ r.pc = "fill" /\ r.ss \in SS /\ ~ r.cut
  BY DEF IInv, TypeOK, FillCache, ThreadOK
<1>2. r.ss \in SS \cap Published /\ Vouched(r.ss, LookupPath(r))
  BY <1>1, SSAssumption
    DEF IInv, AddressPublished, KnownIds, Published, Provenance, LookupProvenance
<1>3. n \in ThreadRecord /\ ThreadOK(n) /\ n.ss = r.ss /\ ThreadVouched(n)
  BY <1>1, <1>2, AfterLookupGood
<1>4. Become(t, n) /\ CacheInsert(r.ss, LookupPath(r)) /\ UNCHANGED ssVars
  BY DEF FillCache
<1> HIDE DEF n
<1>5. \A u \in Threads : CutKept(u)
  BY <1>1, <1>4 DEF Become, CutKept, IInv, TypeOK
<1>6. LookupPath(r) \in Word
  BY <1>1, LookupPathIsWord
<1>7. CacheKept
  BY <1>2, <1>4, <1>5, <1>6, CacheInsertKept DEF ssVars
<1>8. TrieKept
  BY <1>4, SameMemory DEF CacheInsert
<1> QED
  BY <1>1, <1>2, <1>3, <1>4, <1>7, <1>8, ThreadUpdate DEF FillCache, CacheInsert

(* get_random_registered_ss_id gives a server with both addresses. *)
LEMMA PickServerKeeps ==
    ASSUME IInv, NEW t \in Threads, PickServer(t)
    PROVE  IInv'
<1> DEFINE r == thread[t]
<1>1. r \in ThreadRecord /\ ThreadOK(r) /\ r.pc = "pick" /\ ~ r.cut
  BY DEF IInv, TypeOK, PickServer, ThreadOK
<1>2. r.ss \in {Sentinel} \cup Published
  BY DEF IInv, AddressPublished, KnownIds, Published
<1>3. PICK s \in RandomRegistered :
        Become(t, IF s = Sentinel
                  THEN Finish(r, InternalError)
                  ELSE [r EXCEPT !.pc = "connect", !.ss = s])
  BY DEF PickServer
<1>4. CASE s = Sentinel
  <2> DEFINE n == Finish(r, InternalError)
  <2>1. n \in ThreadRecord /\ ThreadOK(n) /\ n.ss = r.ss /\ ThreadVouched(n)
    BY <1>1 DEF Finish, ThreadRecord, ThreadOK, ThreadVouched, CreateVouched, Pcs,
                Responses, InternalError
  <2>2. Become(t, n)
    BY <1>3, <1>4
  <2> HIDE DEF n
  <2> QED
    BY <1>1, <1>2, <2>1, <2>2, QuietThreadUpdate DEF PickServer
<1>5. CASE s # Sentinel
  <2> DEFINE n == [r EXCEPT !.pc = "connect", !.ss = s]
  <2>1. s \in SS \cap Published
    BY <1>5 DEF RandomRegistered, IInv, TypeOK, AddressPublished, KnownIds,
                Published, Sentinel
  <2>2. n \in ThreadRecord /\ ThreadOK(n) /\ n.ss = s /\ ThreadVouched(n)
    BY <1>1, <2>1 DEF ThreadRecord, ThreadOK, ThreadVouched, CreateVouched, Pcs
  <2>3. Become(t, n)
    BY <1>3, <1>5
  <2> HIDE DEF n
  <2> QED
    BY <1>1, <2>1, <2>2, <2>3, QuietThreadUpdate DEF PickServer
<1> QED
  BY <1>4, <1>5

(* Calling the storage server, or failing to. *)
LEMMA ConnectKeeps ==
    ASSUME IInv, NEW t \in Threads, Connect(t) \/ ConnectFails(t)
    PROVE  IInv'
<1> DEFINE r == thread[t]
<1>1. r \in ThreadRecord /\ ThreadOK(r) /\ r.pc = "connect" /\ ~ r.cut /\ r.ss \in SS
  BY DEF IInv, TypeOK, Connect, ConnectFails, ThreadOK
<1>2. r.ss \in {Sentinel} \cup Published
  BY DEF IInv, AddressPublished, KnownIds, Published
<1>3. PICK n \in {[r EXCEPT !.pc = "primary"], Finish(r, InternalError)} : Become(t, n)
  BY DEF Connect, ConnectFails
<1>4. n \in ThreadRecord /\ ThreadOK(n) /\ n.ss = r.ss /\ ThreadVouched(n)
  BY <1>1 DEF Finish, ThreadRecord, ThreadOK, ThreadVouched, CreateVouched, Pcs,
              Responses, InternalError
<1> QED
  BY <1>1, <1>2, <1>3, <1>4, QuietThreadUpdate DEF Connect, ConnectFails

(* Receiving its response, or the byte nobody wrote. *)
LEMMA ReceiveKeeps ==
    ASSUME RequestsAssumption, IInv, NEW t \in Threads,
           ReceiveResponse(t) \/ ReceiveNothing(t)
    PROVE  IInv'
<1> DEFINE r == thread[t]
<1>1. r \in ThreadRecord /\ ThreadOK(r) /\ r.pc \in {"reply", "cut"} /\ r.ss \in SS
  BY DEF IInv, TypeOK, ReceiveResponse, ReceiveNothing, ThreadOK
<1>2. r.ss \in {Sentinel} \cup Published
  BY DEF IInv, AddressPublished, KnownIds, Published
<1>3. PICK resp \in Responses :
        /\ Become(t, AfterResponse(r, resp))
        /\ r.pc = "reply" => resp = r.resp
  BY <1>1 DEF ReceiveResponse, ReceiveNothing, ThreadRecord, Responses,
              InternalError, OK, Garbage, ThreadOK
<1> DEFINE n == AfterResponse(r, resp)
<1>4. r.req.op = "create" /\ resp = OK => Vouched(r.ss, r.req.path)
  <2>1. CASE r.pc = "reply"
    BY <1>3, <2>1 DEF IInv, CreateVouched
  <2>2. CASE r.pc = "cut"
    BY <1>1, <2>2 DEF Vouched, ThreadOK
  <2> QED BY <1>1, <2>1, <2>2
<1>5. /\ n \in ThreadRecord /\ n.ss = r.ss /\ n.req = r.req /\ n.cut = r.cut
      /\ n.stage = r.stage
      /\ n.pc \in {"answer", "trieAdd", "cacheDel"}
      /\ n.pc = "trieAdd" => resp = OK /\ r.req.op = "create"
  BY <1>1 DEF AfterResponse, ThreadRecord, Pcs
<1>6. Become(t, n)
  BY <1>3
<1> HIDE DEF n
<1>7. ThreadOK(n) /\ ThreadVouched(n)
  BY <1>1, <1>4, <1>5 DEF ThreadOK, ThreadVouched, CreateVouched
<1> QED
  BY <1>2, <1>5, <1>6, <1>7, QuietThreadUpdate DEF ReceiveResponse, ReceiveNothing

(* add_path: the trie, then the cache. *)
LEMMA AddToTrieKeeps ==
    ASSUME RequestsAssumption, IInv, NEW t \in Threads, AddToTrie(t)
    PROVE  IInv'
<1> DEFINE r == thread[t]
           n == [r EXCEPT !.pc = "cacheAdd"]
           p == r.req.path
<1>1. r \in ThreadRecord /\ ThreadOK(r) /\ r.pc = "trieAdd" /\ r.ss \in SS
  BY DEF IInv, TypeOK, AddToTrie, ThreadOK
<1>2. r.ss \in SS \cap Published
  BY <1>1, SSAssumption DEF IInv, AddressPublished, KnownIds, Published
<1>3. Vouched(r.ss, p)
  BY <1>1 DEF IInv, CreateVouched, ThreadOK
<1>4. n \in ThreadRecord /\ ThreadOK(n) /\ n.ss = r.ss /\ n.req = r.req
      /\ n.cut = r.cut /\ ThreadVouched(n)
  BY <1>1, <1>3 DEF ThreadRecord, ThreadOK, ThreadVouched, CreateVouched, Pcs
<1>5. /\ Become(t, n) /\ UNCHANGED ssVars
      /\ path_ss_info' = Insert(path_ss_info, p, r.ss)
      /\ UNCHANGED << nm_connection_addresses, client_connection_addresses, ht,
                      ht_ready, is_registered >>
  BY DEF AddToTrie, TrieInsert
<1> HIDE DEF n
<1>6. \A u \in Threads : CutKept(u)
  BY <1>4, <1>5 DEF Become, CutKept, IInv, TypeOK
<1>7. IsTrie(path_ss_info)'
  <2>1. p \in Word
    BY <1>1, LookupPathIsWord
  <2>2. IsTrie(path_ss_info)
    BY DEF IInv, TypeOK
  <2>3. IsTrie(Insert(path_ss_info, p, r.ss))
    BY <2>1, <2>2, InsertIsTrie
  <2> QED BY <1>5, <2>3 DEF IsTrie
<1>8. PICK s \in SS \cap Published, w \in Word : s = r.ss /\ w = p /\ Vouched(s, w)'
  <2>1. PICK s \in SS \cap Published, w \in Word : s = r.ss /\ w = p
    BY <1>1, <1>2, LookupPathIsWord
  <2>2. Vouched(s, w)'
    BY <1>3, <1>5, <1>6, <2>1, VouchedKept DEF ssVars
  <2> QED BY <2>1, <2>2
<1>9. ASSUME NEW m \in DOMAIN path_ss_info'
      PROVE  \/ path_ss_info'[m] = Sentinel
             \/ m \in DOMAIN path_ss_info /\ path_ss_info'[m] = path_ss_info[m]
             \/ path_ss_info'[m] \in SS \cap Published' /\ Vouched(path_ss_info[m], m)'
  <2>1. CASE m = w
    <3>1. path_ss_info'[m] = s
      BY <1>5, <1>8, <2>1, InsertData
    <3>2. Vouched(path_ss_info[m], m)'
      BY <1>8, <2>1, <3>1 DEF Vouched
    <3>3. Published' = Published
      BY <1>5 DEF Published
    <3> QED BY <1>8, <3>1, <3>2, <3>3
  <2>2. CASE m # w
    BY <1>5, <1>8, <2>2, InsertData
  <2> QED BY <2>1, <2>2
<1>10. TrieKept /\ CacheKept
  BY <1>5, <1>7, <1>9, SameMemory DEF TrieKept
<1> QED
  BY <1>2, <1>4, <1>5, <1>10, ThreadUpdate DEF AddToTrie

(* The second half of add_path. *)
LEMMA AddToCacheKeeps ==
    ASSUME RequestsAssumption, IInv, NEW t \in Threads, AddToCache(t)
    PROVE  IInv'
<1> DEFINE r == thread[t]
           n == [r EXCEPT !.pc = "answer"]
<1>1. r \in ThreadRecord /\ ThreadOK(r) /\ r.pc = "cacheAdd" /\ r.ss \in SS
  BY DEF IInv, TypeOK, AddToCache, ThreadOK
<1>2. r.ss \in SS \cap Published /\ Vouched(r.ss, r.req.path)
  BY <1>1, SSAssumption
    DEF IInv, AddressPublished, KnownIds, Published, CreateVouched, ThreadOK
<1>3. n \in ThreadRecord /\ ThreadOK(n) /\ n.ss = r.ss /\ n.req = r.req
      /\ n.cut = r.cut /\ ThreadVouched(n)
  BY <1>1 DEF ThreadRecord, ThreadOK, ThreadVouched, CreateVouched, Pcs
<1>4. Become(t, n) /\ CacheInsert(r.ss, r.req.path) /\ UNCHANGED ssVars
  BY DEF AddToCache
<1> HIDE DEF n
<1>5. \A u \in Threads : CutKept(u)
  BY <1>3, <1>4 DEF Become, CutKept, IInv, TypeOK
<1>6. CacheKept
  BY <1>1, <1>2, <1>4, <1>5, LookupPathIsWord, CacheInsertKept DEF ssVars
<1>7. TrieKept
  BY <1>4, SameMemory DEF CacheInsert
<1> QED
  BY <1>2, <1>3, <1>4, <1>6, <1>7, ThreadUpdate DEF AddToCache, CacheInsert

(* remove_path: the cache, then the trie. *)
LEMMA RemoveFromCacheKeeps ==
    ASSUME IInv, NEW t \in Threads, RemoveFromCache(t)
    PROVE  IInv'
<1> DEFINE r == thread[t]
           n == [r EXCEPT !.pc = "trieDel"]
<1>1. r \in ThreadRecord /\ ThreadOK(r) /\ r.pc = "cacheDel"
  BY DEF IInv, TypeOK, RemoveFromCache
<1>2. r.ss \in {Sentinel} \cup Published
  BY DEF IInv, AddressPublished, KnownIds, Published
<1>3. n \in ThreadRecord /\ ThreadOK(n) /\ n.ss = r.ss /\ n.req = r.req
      /\ n.cut = r.cut /\ ThreadVouched(n)
  BY <1>1 DEF ThreadRecord, ThreadOK, ThreadVouched, CreateVouched, Pcs
<1>4. Become(t, n) /\ CacheDelete(r.req.path)
  BY DEF RemoveFromCache
<1>5. CacheKept
  <2>1. DOMAIN ht = Slots /\ \A i \in Slots : ht[i] \in SlotType
    BY DEF IInv, TypeOK
  <2>2. FreeSlot \in SlotType /\ FreeSlot.ssid = Sentinel
    <3>1. <<>> \in Word
      BY DEF Word
    <3> QED BY <3>1 DEF FreeSlot, SlotType, Sentinel
  <2>3. DOMAIN ht' = Slots /\ \A i \in Slots : ht'[i] \in {FreeSlot, ht[i]}
    BY <1>4, <2>1 DEF CacheDelete, DeletePath
  <2> QED BY <2>1, <2>2, <2>3 DEF CacheKept
<1>6. TrieKept
  BY <1>4, SameMemory DEF CacheDelete
<1> QED
  BY <1>2, <1>3, <1>4, <1>5, <1>6, ThreadUpdate DEF RemoveFromCache, CacheDelete

(* The second half of remove_path: delete_trie invents no datum. *)
LEMMA RemoveFromTrieKeeps ==
    ASSUME RequestsAssumption, IInv, NEW t \in Threads, RemoveFromTrie(t)
    PROVE  IInv'
<1> DEFINE r == thread[t]
           n == [r EXCEPT !.pc = "answer"]
<1>1. r \in ThreadRecord /\ ThreadOK(r) /\ r.pc = "trieDel"
  BY DEF IInv, TypeOK, RemoveFromTrie
<1>2. r.ss \in {Sentinel} \cup Published
  BY DEF IInv, AddressPublished, KnownIds, Published
<1>3. n \in ThreadRecord /\ ThreadOK(n) /\ n.ss = r.ss /\ n.req = r.req
      /\ n.cut = r.cut /\ ThreadVouched(n)
  BY <1>1 DEF ThreadRecord, ThreadOK, ThreadVouched, CreateVouched, Pcs
<1>4. Become(t, n) /\ TrieDelete(r.req.path)
  BY DEF RemoveFromTrie
<1>5. TrieKept
  <2>1. r.req.path \in Word /\ IsTrie(path_ss_info)
    BY <1>1, LookupPathIsWord DEF IInv, TypeOK
  <2>2. IsTrie(Delete(path_ss_info, r.req.path))
    BY <2>1, DeleteIsTrie
  <2>3. path_ss_info' = Delete(path_ss_info, r.req.path)
    BY <1>4 DEF TrieDelete
  <2>4. IsTrie(path_ss_info)'
    BY <2>2, <2>3 DEF IsTrie
  <2> QED BY <2>3, <2>4, DeleteData DEF TrieKept
<1>6. CacheKept
  BY <1>4, SameMemory DEF TrieDelete
<1> QED
  BY <1>2, <1>3, <1>4, <1>5, <1>6, ThreadUpdate DEF RemoveFromTrie, TrieDelete

(* The answer to the client. *)
LEMMA SendKeeps ==
    ASSUME IInv, NEW t \in Threads, SendResponse(t) \/ SendRedirect(t)
    PROVE  IInv'
<1> DEFINE r == thread[t]
<1>1. r \in ThreadRecord /\ ThreadOK(r) /\ r.pc \in {"answer", "redirect"}
  BY DEF IInv, TypeOK, SendResponse, SendRedirect
<1>2. r.ss \in {Sentinel} \cup Published
  BY DEF IInv, AddressPublished, KnownIds, Published
<1>3. PICK sent \in Responses :
        Become(t, [r EXCEPT !.pc = "done", !.answers = Append(@, sent)])
  BY <1>1 DEF SendResponse, SendRedirect, ThreadRecord, Responses, Redirect
<1> DEFINE n == [r EXCEPT !.pc = "done", !.answers = Append(@, sent)]
<1>4. Append(r.answers, sent) \in Seq(Responses)
  BY <1>1 DEF ThreadRecord
<1>5. n \in ThreadRecord /\ ThreadOK(n) /\ n.ss = r.ss /\ n.req = r.req
      /\ n.cut = r.cut /\ ThreadVouched(n)
  BY <1>1, <1>4 DEF ThreadRecord, ThreadOK, ThreadVouched, CreateVouched, Pcs
<1> QED
  BY <1>2, <1>3, <1>5, QuietThreadUpdate DEF SendResponse, SendRedirect

-----------------------------------------------------------------------------
(* Steps that leave the threads alone. *)
LEMMA OtherUpdate ==
    ASSUME IInv, UNCHANGED thread,
           TrieKept, CacheKept, SsTypeOK', held \subseteq held',
           nm_connection_addresses \subseteq nm_connection_addresses',
           client_connection_addresses \subseteq client_connection_addresses',
           nm_connection_addresses' \subseteq SS,
           client_connection_addresses' \subseteq SS,
           is_registered' \subseteq SS \cap Published',
           registrar' \in [pc : RegistrarPcs, ss : SS \cup {Sentinel}],
           RegistrarOK', alive' \in BOOLEAN, ht_ready' \in BOOLEAN
    PROVE  IInv'
<1>1. DOMAIN thread' = Threads /\ \A u \in Threads : CutKept(u) /\ thread'[u] = thread[u]
  BY DEF IInv, TypeOK, CutKept
<1> QED
  BY <1>1, StepKeepsIInv

(* What IInv says to the steps of the registering thread. *)
LEMMA IInvFacts ==
    ASSUME IInv
    PROVE  /\ SsTypeOK /\ RegistrarOK
           /\ nm_connection_addresses \subseteq SS
           /\ client_connection_addresses \subseteq SS
           /\ is_registered \subseteq SS \cap Published
           /\ registrar \in [pc : RegistrarPcs, ss : SS \cup {Sentinel}]
           /\ alive \in BOOLEAN /\ ht_ready \in BOOLEAN
BY SSAssumption DEF IInv, TypeOK, SsTypeOK, AddressPublished, KnownIds, Published

(* Inserting the announced paths of a server leaves a trie. *)
LEMMA InsertAllIsTrie ==
    ASSUME NEW t, IsTrie(t), NEW P \in SUBSET Word, NEW s
    PROVE  IsTrie(InsertAll(t, P, s))
<1>1. DOMAIN InsertAll(t, P, s) = DOMAIN t \cup UNION {Prefixes(p) : p \in P}
  BY DEF InsertAll
<1> QED
  BY <1>1, PrefixesClosed DEF IsTrie

(* register_ss inserts the paths: the server has had them. *)
LEMMA RegisterPathsKeeps ==
    ASSUME RequestsAssumption, IInv, RegisterPaths
    PROVE  IInv'
<1> DEFINE P == Announced(registrar.ss)
<1>1. /\ registrar.pc = "paths" /\ registrar.ss \in SS \cap Published
      /\ P \subseteq Path /\ P \subseteq Word
  BY IInvFacts DEF RegisterPaths, RegistrarOK, Published, Announced, RequestsAssumption
<1>2. /\ path_ss_info' = InsertAll(path_ss_info, P, registrar.ss)
      /\ held' = held \cup ({registrar.ss} \X P)
      /\ UNCHANGED << nm_connection_addresses, client_connection_addresses, ht,
                      ht_ready, is_registered, thread, alive, status, disk,
                      backup, crashes >>
      /\ registrar' = [registrar EXCEPT !.pc = "table"]
  BY DEF RegisterPaths, InsertPaths
<1> HIDE DEF P
<1>3. IsTrie(path_ss_info)'
  <2>1. IsTrie(InsertAll(path_ss_info, P, registrar.ss))
    BY <1>1, InsertAllIsTrie DEF IInv, TypeOK
  <2> QED BY <1>2, <2>1 DEF IsTrie
<1>4. PICK s \in SS \cap Published : s = registrar.ss
  BY <1>1
<1>5. ASSUME NEW m \in DOMAIN path_ss_info'
      PROVE  \/ path_ss_info'[m] = Sentinel
             \/ m \in DOMAIN path_ss_info /\ path_ss_info'[m] = path_ss_info[m]
             \/ path_ss_info'[m] \in SS \cap Published' /\ Vouched(path_ss_info[m], m)'
  <2>1. CASE m \in P
    <3>1. path_ss_info'[m] = s /\ << s, m >> \in held'
      BY <1>2, <1>4, <2>1 DEF InsertAll
    <3>2. Vouched(path_ss_info[m], m)'
      BY <3>1 DEF Vouched
    <3> QED BY <1>2, <1>4, <3>1, <3>2 DEF Published
  <2>2. CASE m \notin P
    BY <1>2, <2>2 DEF InsertAll
  <2> QED BY <2>1, <2>2
<1>6. TrieKept /\ CacheKept
  BY <1>2, <1>3, <1>5, SameMemory DEF TrieKept
<1>7. SsTypeOK' /\ held \subseteq held'
  BY <1>1, <1>2, IInvFacts DEF SsTypeOK
<1>8. RegistrarOK' /\ registrar' \in [pc : RegistrarPcs, ss : SS \cup {Sentinel}]
  BY <1>1, <1>2, IInvFacts DEF RegistrarOK, RegistrarPcs, Published
<1> QED
  BY <1>2, <1>6, <1>7, <1>8, IInvFacts, OtherUpdate DEF Published

(* The steps of register_ss, in its order. *)
LEMMA RegistrarKeeps ==
    ASSUME RequestsAssumption, IInv, RegistrarStep
    PROVE  IInv'
<1>1. CASE \E s \in SS : AcceptServer(s)
  <2>1. PICK s \in SS : AcceptServer(s)
    BY <1>1
  <2>2. registrar' \in [pc : RegistrarPcs, ss : SS \cup {Sentinel}] /\ RegistrarOK'
    BY <2>1 DEF AcceptServer, RegistrarOK, RegistrarPcs
  <2>3. SsTypeOK' /\ held' = held
    BY <2>1, IInvFacts DEF AcceptServer, SsTypeOK, ssVars
  <2> QED
    BY <2>1, <2>2, <2>3, IInvFacts, SameMemory, OtherUpdate
      DEF AcceptServer, dirVars, Published
<1>2. CASE RegisterNmAddress
  <2>1. /\ registrar.pc = "nm" /\ registrar.ss \in SS
        /\ nm_connection_addresses' = nm_connection_addresses \cup {registrar.ss}
        /\ registrar' = [registrar EXCEPT !.pc = "client"]
        /\ UNCHANGED << client_connection_addresses, path_ss_info, ht, ht_ready,
                        is_registered, thread, alive, ssVars >>
    BY <1>2, IInvFacts DEF RegisterNmAddress, WriteNmAddress, RegistrarOK
  <2>2. registrar' \in [pc : RegistrarPcs, ss : SS \cup {Sentinel}] /\ RegistrarOK'
    BY <2>1, IInvFacts DEF RegistrarOK, RegistrarPcs
  <2>3. SsTypeOK' /\ held' = held
    BY <2>1, IInvFacts DEF SsTypeOK, ssVars
  <2> QED
    BY <2>1, <2>2, <2>3, IInvFacts, SameMemory, OtherUpdate DEF Published
<1>3. CASE RegisterClientAddress
  <2>1. /\ registrar.pc = "client" /\ registrar.ss \in SS
        /\ client_connection_addresses' = client_connection_addresses \cup {registrar.ss}
        /\ registrar' = [registrar EXCEPT !.pc = "paths"]
        /\ UNCHANGED << nm_connection_addresses, path_ss_info, ht, ht_ready,
                        is_registered, thread, alive, ssVars >>
    BY <1>3, IInvFacts DEF RegisterClientAddress, WriteClientAddress, RegistrarOK
  <2>2. registrar' \in [pc : RegistrarPcs, ss : SS \cup {Sentinel}] /\ RegistrarOK'
    BY <2>1, IInvFacts DEF RegistrarOK, RegistrarPcs
  <2>3. SsTypeOK' /\ held' = held
    BY <2>1, IInvFacts DEF SsTypeOK, ssVars
  <2> QED
    BY <2>1, <2>2, <2>3, IInvFacts, SameMemory, OtherUpdate DEF Published
<1>4. CASE RegisterPaths
  BY <1>4, RegisterPathsKeeps
<1>5. CASE RegisterTable \/ RegisterFlag
  <2>1. /\ registrar.pc \in {"table", "flag"} /\ registrar.ss \in SS \cap Published
        /\ registrar' \in {[registrar EXCEPT !.pc = "flag"], [registrar EXCEPT !.pc = "reply"]}
        /\ is_registered' \subseteq is_registered \cup {registrar.ss}
        /\ ht_ready' \in BOOLEAN
        /\ UNCHANGED << nm_connection_addresses, client_connection_addresses,
                        path_ss_info, ht, thread, alive, ssVars >>
    BY <1>5, IInvFacts
      DEF RegisterTable, RegisterFlag, InitializeTable, SetRegistered, RegistrarOK, Published
  <2>2. registrar' \in [pc : RegistrarPcs, ss : SS \cup {Sentinel}] /\ RegistrarOK'
    BY <2>1, IInvFacts DEF RegistrarOK, RegistrarPcs, Published
  <2>3. SsTypeOK' /\ held' = held
    BY <2>1, IInvFacts DEF SsTypeOK, ssVars
  <2> QED
    BY <2>1, <2>2, <2>3, IInvFacts, SameMemory, OtherUpdate DEF Published
<1>6. CASE RegisterReply
  <2>1. registrar' \in [pc : RegistrarPcs, ss : SS \cup {Sentinel}] /\ RegistrarOK'
    BY <1>6, IInvFacts DEF RegisterReply, RegistrarOK, RegistrarPcs
  <2>2. SsTypeOK' /\ held' = held
    BY <1>6, IInvFacts DEF RegisterReply, SsTypeOK
  <2> QED
    BY <1>6, <2>1, <2>2, IInvFacts, SameMemory, OtherUpdate
      DEF RegisterReply, dirVars, Published
<1> QED
  BY <1>1, <1>2, <1>3, <1>4, <1>5, <1>6 DEF RegistrarStep

-----------------------------------------------------------------------------
(* addPath writes outside the table: the process dies, nothing else changes. *)
LEMMA CacheCrashKeeps ==
    ASSUME IInv, NEW t \in Threads, CacheCrash(t)
    PROVE  IInv'
<1>1. /\ alive' = FALSE
      /\ UNCHANGED << nm_connection_addresses, client_connection_addresses, path_ss_info,
                      ht, ht_ready, is_registered, thread, registrar, ssVars >>
  BY DEF CacheCrash, dirVars
<1>2. SsTypeOK' /\ held' = held /\ RegistrarOK'
  BY <1>1, IInvFacts DEF SsTypeOK, ssVars, RegistrarOK
<1> QED
  BY <1>1, <1>2, IInvFacts, SameMemory, OtherUpdate DEF Published

(* A thread step of whichever kind keeps the invariant. *)
LEMMA ThreadKeeps ==
    ASSUME RequestsAssumption, IInv, NEW t \in Threads, ThreadStep(t)
    PROVE  IInv'
BY ReadCacheKeeps, ReadTrieKeeps, FillCacheKeeps, PickServerKeeps, ConnectKeeps,
   ReceiveKeeps, AddToTrieKeeps, AddToCacheKeeps, RemoveFromCacheKeeps,
   RemoveFromTrieKeeps, SendKeeps, CacheCrashKeeps DEF ThreadStep

(* A step of the storage server's handler that works for thread t.         *)
LEMMA SsUpdate ==
    ASSUME IInv, NEW t \in Threads, NEW q \in ThreadRecord, Become(t, q),
           ThreadOK(q), q.pc \in {"backup", "reply"},
           q.req.op = "create" /\ (q.pc = "backup" \/ q.resp = OK) =>
               \/ << q.ss, q.req.path >> \in held'
               \/ Vouched(q.ss, q.req.path),
           q.ss = thread[t].ss, q.req = thread[t].req, q.cut = thread[t].cut,
           SsTypeOK', held \subseteq held',
           UNCHANGED << dirVars, registrar, alive >>
    PROVE  IInv'
<1>1. /\ DOMAIN thread' = Threads /\ thread'[t] = q
      /\ \A u \in Threads : u # t => thread'[u] = thread[u]
  BY DEF Become, IInv, TypeOK
<1>2. \A u \in Threads : CutKept(u)
  BY <1>1 DEF CutKept
<1>3. q.ss \in {Sentinel} \cup Published
  BY DEF IInv, AddressPublished, KnownIds, Published
<1>4. GoodThread(t)'
  <2>1. \A s, p : Vouched(s, p) \/ << s, p >> \in held' => Vouched(s, p)'
    BY <1>2, VouchedKept DEF Vouched
  <2>2. CreateVouched(thread[t])'
    BY <1>1, <2>1 DEF CreateVouched
  <2> QED
    BY <1>1, <1>3, <2>2 DEF GoodThread, ThreadVouched, Published, dirVars
<1>5. RegistrarOK'
  BY IInvFacts DEF RegistrarOK, dirVars
<1> QED
  BY <1>1, <1>2, <1>4, <1>5, IInvFacts, SameMemory, StepKeepsIInv DEF dirVars, Published

(* Creating and deleting, in part or in whole, keep the type of a tree.    *)
LEMMA TreesStayTrees ==
    ASSUME NEW tree \in [Path -> Kinds], NEW p, NEW folder
    PROVE  /\ Created(tree, p, folder) \in [Path -> Kinds]
           /\ \A o \in DeleteOutcomes(tree, p) :
                 o.tree \in [Path -> Kinds] /\ o.ok \in BOOLEAN
<1>1. Created(tree, p, folder) \in [Path -> Kinds]
  BY DEF Created, Kinds, File, Folder
<1>2. \A gone : Without(tree, gone) \in [Path -> Kinds]
  BY DEF Without, Kinds
<1>3. ASSUME NEW o \in DeleteOutcomes(tree, p)
      PROVE  o.tree \in [Path -> Kinds] /\ o.ok \in BOOLEAN
  <2>1. PICK ok \in BOOLEAN, left \in [Path -> Kinds] : o = [ok |-> ok, tree |-> left]
    <3>1. CASE o = [ok |-> FALSE, tree |-> tree]
      BY <3>1
    <3>2. CASE o = [ok |-> TRUE, tree |-> Without(tree, {p} \cup Below(tree, p))]
      BY <1>2, <3>2
    <3>3. CASE \E gone \in DeletedPart(tree, p) : o = [ok |-> FALSE, tree |-> Without(tree, gone)]
      BY <1>2, <3>3
    <3> QED BY <1>3, <3>1, <3>2, <3>3 DEF DeleteOutcomes
  <2> QED BY <2>1
<1> QED
  BY <1>1, <1>3

(* What the next record of a thread is after one tree has been dealt with. *)
LEMMA SsStepRecord ==
    ASSUME NEW r \in ThreadRecord, ThreadOK(r), r.pc \in {"primary", "backup"},
           NEW ok \in BOOLEAN, NEW next \in {"backup", "reply"}
    PROVE  LET q == SsStep(r, ok, next) IN
           /\ q \in ThreadRecord /\ ThreadOK(q)
           /\ q.pc = (IF ok THEN next ELSE "reply")
           /\ q.resp = (IF ok THEN OK ELSE InternalError)
           /\ q.ss = r.ss /\ q.req = r.req /\ q.cut = r.cut
BY DEF SsStep, ThreadRecord, ThreadOK, Pcs, Responses, OK, InternalError

(* Creating in the primary tree: the server has had the path from then on. *)
LEMMA CreatePrimaryKeeps ==
    ASSUME RequestsAssumption, IInv, NEW t \in Threads, CreatePrimary(t)
    PROVE  IInv'
<1> DEFINE r == thread[t]
           ok == CanCreate(disk[r.ss], r.req.path, r.req.folder)
           q == SsStep(r, ok, "backup")
<1>1. r \in ThreadRecord /\ ThreadOK(r) /\ r.pc = "primary" /\ r.ss \in SS
  BY DEF IInv, TypeOK, CreatePrimary, ThreadOK
<1>2. /\ Become(t, q)
      /\ disk' = IF ok THEN [disk EXCEPT ![r.ss] = Created(@, r.req.path, r.req.folder)]
                 ELSE disk
      /\ held' = IF ok THEN held \cup {<<r.ss, r.req.path>>} ELSE held
      /\ UNCHANGED << dirVars, registrar, alive, status, backup, crashes >>
  BY DEF CreatePrimary
<1>3. ok \in BOOLEAN /\ (ok => r.req.path \in Path)
  BY DEF CanCreate
<1>4. SsTypeOK' /\ held \subseteq held'
  <2>1. SsTypeOK
    BY IInvFacts
  <2>2. Created(disk[r.ss], r.req.path, r.req.folder) \in [Path -> Kinds]
    BY <1>1, <2>1, TreesStayTrees DEF SsTypeOK
  <2> HIDE DEF ok
  <2>3. DOMAIN disk' = SS /\ \A s \in SS : disk'[s] \in [Path -> Kinds]
    BY <1>1, <1>2, <2>1, <2>2 DEF SsTypeOK
  <2>4. held \subseteq held' /\ held' \subseteq SS \X Path
    BY <1>1, <1>2, <1>3, <2>1 DEF SsTypeOK
  <2> QED BY <1>2, <2>1, <2>3, <2>4 DEF SsTypeOK
<1> HIDE DEF ok
<1>5. /\ q \in ThreadRecord /\ ThreadOK(q)
      /\ q.pc = (IF ok THEN "backup" ELSE "reply")
      /\ q.resp = (IF ok THEN OK ELSE InternalError)
      /\ q.ss = r.ss /\ q.req = r.req /\ q.cut = r.cut
  BY <1>1, <1>3, SsStepRecord
<1> HIDE DEF q
<1>6. q.pc = "backup" \/ q.resp = OK => << q.ss, q.req.path >> \in held'
  BY <1>2, <1>5 DEF OK, InternalError
<1> QED
  BY <1>2, <1>4, <1>5, <1>6, SsUpdate

(* Creating in the backup tree, and deleting in either. *)
LEMMA CreateBackupKeeps ==
    ASSUME IInv, NEW t \in Threads, CreateBackup(t)
    PROVE  IInv'
<1> DEFINE r == thread[t]
           ok == CanCreate(backup, r.req.path, r.req.folder)
           q == SsStep(r, ok, "reply")
<1>1. r \in ThreadRecord /\ ThreadOK(r) /\ r.pc = "backup" /\ r.req.op = "create"
  BY DEF IInv, TypeOK, CreateBackup
<1>2. /\ Become(t, q)
      /\ backup' = IF ok THEN Created(backup, r.req.path, r.req.folder) ELSE backup
      /\ UNCHANGED << dirVars, registrar, alive, status, disk, crashes, held >>
  BY DEF CreateBackup
<1>3. ok \in BOOLEAN
  BY DEF CanCreate, HasParent
<1> HIDE DEF ok
<1>4. SsTypeOK' /\ held' = held
  BY <1>2, IInvFacts, TreesStayTrees DEF SsTypeOK
<1>5. /\ q \in ThreadRecord /\ ThreadOK(q) /\ q.pc = "reply"
      /\ q.ss = r.ss /\ q.req = r.req /\ q.cut = r.cut
  BY <1>1, <1>3, SsStepRecord
<1> HIDE DEF q
<1>6. Vouched(r.ss, r.req.path)
  BY <1>1 DEF IInv, CreateVouched
<1> QED
  BY <1>2, <1>4, <1>5, <1>6, SsUpdate

(* Deleting in either tree. *)
LEMMA SsDeleteKeeps ==
    ASSUME IInv, NEW t \in Threads, DeletePrimary(t) \/ DeleteBackup(t)
    PROVE  IInv'
<1> DEFINE r == thread[t]
<1>1. /\ r \in ThreadRecord /\ ThreadOK(r) /\ r.req.op = "delete"
      /\ r.pc \in {"primary", "backup"} /\ r.ss \in SS
  BY DEF IInv, TypeOK, DeletePrimary, DeleteBackup, ThreadOK
<1>2. PICK q : /\ Become(t, q)
                /\ q \in ThreadRecord /\ ThreadOK(q) /\ q.pc \in {"backup", "reply"}
                /\ q.ss = r.ss /\ q.req = r.req /\ q.cut = r.cut
  <2>1. CASE DeletePrimary(t)
    <3>1. disk[r.ss] \in [Path -> Kinds]
      BY <1>1 DEF IInv, TypeOK
    <3>2. PICK o \in DeleteOutcomes(disk[r.ss], r.req.path) :
            Become(t, [SsStep(r, o.ok, "backup") EXCEPT
                        !.removed = Taken(disk[r.ss], o.tree)])
      BY <2>1 DEF DeletePrimary
    <3> DEFINE m == SsStep(r, o.ok, "backup")
    <3>3. o.ok \in BOOLEAN
      BY <3>1, <3>2, TreesStayTrees
    <3>4. /\ m \in ThreadRecord /\ ThreadOK(m) /\ m.pc \in {"backup", "reply"}
          /\ m.ss = r.ss /\ m.req = r.req /\ m.cut = r.cut
      BY <1>1, <3>3, SsStepRecord
    <3> HIDE DEF m
    <3>5. Taken(disk[r.ss], o.tree) \in SUBSET Path
      BY DEF Taken
    <3> QED BY <3>2, <3>4, <3>5 DEF ThreadRecord, ThreadOK, m
  <2>2. CASE DeleteBackup(t)
    <3>1. backup \in [Path -> Kinds]
      BY DEF IInv, TypeOK
    <3>2. PICK o \in DeleteOutcomes(backup, r.req.path) :
            Become(t, SsStep(r, o.ok, "reply"))
      BY <2>2 DEF DeleteBackup
    <3>3. o.ok \in BOOLEAN
      BY <3>1, <3>2, TreesStayTrees
    <3> QED BY <1>1, <3>2, <3>3, SsStepRecord
  <2> QED BY <2>1, <2>2
<1>3. SsTypeOK' /\ held' = held
  <2>1. SsTypeOK
    BY IInvFacts
  <2>2. CASE DeletePrimary(t)
    <3>1. disk[r.ss] \in [Path -> Kinds]
      BY <1>1, <2>1 DEF SsTypeOK
    <3>2. PICK tree \in [Path -> Kinds] : disk' = [disk EXCEPT ![r.ss] = tree]
      BY <2>2, <3>1, TreesStayTrees DEF DeletePrimary
    <3>3. UNCHANGED << status, backup, crashes, held >>
      BY <2>2 DEF DeletePrimary
    <3>4. DOMAIN disk' = SS /\ \A s \in SS : disk'[s] \in [Path -> Kinds]
      BY <1>1, <2>1, <3>2 DEF SsTypeOK
    <3> QED BY <2>1, <3>3, <3>4 DEF SsTypeOK
  <2>3. CASE DeleteBackup(t)
    <3>1. backup \in [Path -> Kinds]
      BY <2>1 DEF SsTypeOK
    <3>2. PICK o \in DeleteOutcomes(backup, r.req.path) : backup' = o.tree
      BY <2>3 DEF DeleteBackup
    <3>3. backup' \in [Path -> Kinds]
      BY <3>1, <3>2, TreesStayTrees
    <3>4. UNCHANGED << status, disk, crashes, held >>
      BY <2>3 DEF DeleteBackup
    <3> QED BY <2>1, <3>3, <3>4 DEF SsTypeOK
  <2> QED BY <2>2, <2>3
<1> QED
  BY <1>1, <1>2, <1>3, SsUpdate DEF DeletePrimary, DeleteBackup

-----------------------------------------------------------------------------
(* A storage server starts. *)
LEMMA BootKeeps ==
    ASSUME IInv, NEW s \in SS, Boot(s)
    PROVE  IInv'
<1>1. /\ status' = [status EXCEPT ![s] = "announced"]
      /\ UNCHANGED << nm_connection_addresses, client_connection_addresses, path_ss_info,
                      ht, ht_ready, is_registered, thread, registrar, alive, disk,
                      backup, crashes, held >>
  BY DEF Boot, dirVars
<1>2. SsTypeOK' /\ RegistrarOK'
  BY <1>1, IInvFacts DEF SsTypeOK, RegistrarOK
<1> QED
  BY <1>1, <1>2, IInvFacts, SameMemory, OtherUpdate DEF Published

(* A storage server dies, and cuts the calls it is serving: a create that  *)
(* is cut vouches for itself from then on.                                 *)
LEMMA CrashKeeps ==
    ASSUME RequestsAssumption, IInv, NEW s \in SS, Crash(s)
    PROVE  IInv'
<1> DEFINE Served(u) == thread[u].ss = s /\ thread[u].pc \in {"primary", "backup", "reply"}
<1>1. /\ crashes' = crashes + 1 /\ crashes < MaxCrashes
      /\ status' = [status EXCEPT ![s] = "off"]
      /\ thread' = [u \in Threads |->
            IF Served(u) THEN [thread[u] EXCEPT !.pc = "cut", !.cut = TRUE] ELSE thread[u]]
      /\ UNCHANGED << nm_connection_addresses, client_connection_addresses, path_ss_info,
                      ht, ht_ready, is_registered, registrar, alive, disk, backup, held >>
  BY DEF Crash, dirVars
<1>2. \A u \in Threads : thread[u] \in ThreadRecord /\ ThreadOK(thread[u])
                         /\ thread[u].ss \in {Sentinel} \cup Published
  BY DEF IInv, TypeOK, AddressPublished, KnownIds, Published
<1>3. \A u \in Threads : CutKept(u)
  BY <1>1, <1>2 DEF CutKept, ThreadRecord
<1>4. ASSUME NEW u \in Threads, Served(u)
      PROVE  GoodThread(u)'
  <2> DEFINE q == [thread[u] EXCEPT !.pc = "cut", !.cut = TRUE]
  <2>1. thread'[u] = q
    BY <1>1, <1>4
  <2>2. /\ q \in ThreadRecord /\ q.pc = "cut" /\ q.cut
        /\ q.ss = thread[u].ss /\ q.req = thread[u].req
    BY <1>2 DEF ThreadRecord, Pcs
  <2>3. ThreadOK(q)
    BY <1>2, <1>4 DEF ThreadOK, ThreadRecord
  <2> HIDE DEF q
  <2> QED
    BY <1>1, <1>2, <2>1, <2>2, <2>3
      DEF GoodThread, ThreadVouched, CreateVouched, Published
<1>5. \A u \in Threads : thread'[u] = thread[u] \/ GoodThread(u)'
  BY <1>1, <1>4
<1>6. SsTypeOK' /\ RegistrarOK'
  <2>1. crashes' \in 0 .. MaxCrashes
    <3>1. crashes \in 0 .. MaxCrashes /\ MaxCrashes \in Nat
      BY IInvFacts DEF SsTypeOK, RequestsAssumption
    <3>2. crashes' = crashes + 1 /\ crashes < MaxCrashes
      BY <1>1
    <3> QED BY <3>1, <3>2
  <2> QED BY <1>1, <2>1, IInvFacts DEF SsTypeOK, RegistrarOK
<1> QED
  BY <1>1, <1>3, <1>5, <1>6, IInvFacts, SameMemory, StepKeepsIInv DEF Published

(* The clock moves on: the entries of the cache only grow old.             *)
LEMMA TickKeeps ==
    ASSUME IInv, Tick
    PROVE  IInv'
<1>1. /\ ht' = NextSecond(ht)
      /\ UNCHANGED << nm_connection_addresses, client_connection_addresses,
                      path_ss_info, ht_ready, is_registered, thread, registrar, alive,
                      ssVars >>
  BY DEF Tick, ClockTick
<1>2. CacheKept
  <2>1. \A i \in Slots : ht[i] \in SlotType
    BY DEF IInv, TypeOK
  <2>2. DOMAIN ht' = Slots /\ \A i \in Slots : ht'[i] = [ht[i] EXCEPT !.fresh = FALSE]
    BY <1>1 DEF NextSecond
  <2> QED BY <2>1, <2>2 DEF CacheKept, SlotType
<1>3. SsTypeOK' /\ held' = held /\ RegistrarOK'
  BY <1>1, IInvFacts DEF SsTypeOK, RegistrarOK, ssVars
<1> QED
  BY <1>1, <1>2, <1>3, IInvFacts, SameMemory, OtherUpdate DEF Published

-----------------------------------------------------------------------------
(* Nothing is known, registered or running at first.                       *)
LEMMA InitIInv ==
    ASSUME RequestsAssumption, Init
    PROVE  IInv
<1>1. <<>> \in Word /\ <<>> \in Seq(Responses)
  BY DEF Word
<1>2. IdleThread \in ThreadRecord /\ ThreadOK(IdleThread)
  BY <1>1 DEF IdleThread, ThreadRecord, Pcs, Stages, Responses, InternalError,
              ThreadOK
<1>3. IsTrie(path_ss_info) /\ DOMAIN path_ss_info = {<<>>} /\ path_ss_info[<<>>] = Sentinel
  <2>1. path_ss_info = EmptyTrie
    BY DEF Init, DirInit
  <2>2. Prefixes(<<>>) = {<<>>}
    <3>1. <<>> \in Seq(Char) /\ Len(<<>>) = 0 /\ 0 .. 0 = {0}
      OBVIOUS
    <3>2. SubSeq(<<>>, 1, 0) = <<>>
      BY <3>1
    <3> QED BY <3>1, <3>2 DEF Prefixes
  <2> QED BY <1>1, <2>1, <2>2 DEF EmptyTrie, IsTrie
<1>4. FreeSlot \in SlotType /\ FreeSlot.ssid = Sentinel
  BY <1>1 DEF FreeSlot, SlotType, Sentinel
<1>5. /\ DOMAIN ht = Slots
      /\ \A i \in Slots : ht[i] \in SlotType /\ ht[i].ssid = Sentinel
  <2>1. ht = [i \in Slots |-> FreeSlot]
    BY DEF Init, DirInit, EmptyCache
  <2> QED BY <1>4, <2>1
<1>6. TypeOK
  <2>1. disk \in [SS -> Disks] /\ Disks \subseteq [Path -> Kinds]
    BY DEF Init, RequestsAssumption
  <2>2. backup \in [Path -> Kinds] /\ crashes \in 0 .. MaxCrashes
    BY DEF Init, Kinds, RequestsAssumption
  <2>3. \A t \in Threads : thread[t] \in ThreadRecord
    BY <1>2 DEF Init
  <2>4. registrar \in [pc : RegistrarPcs, ss : SS \cup {Sentinel}]
    BY DEF Init, RegistrarPcs
  <2> QED
    BY <1>3, <1>5, <2>1, <2>2, <2>3, <2>4 DEF TypeOK, Init, DirInit
<1>7. AddressPublished
  BY <1>3, <1>5 DEF AddressPublished, KnownIds, Init, DirInit, IdleThread
<1>8. Provenance
  <2>1. \A t \in Threads : thread[t].pc = "idle"
    BY DEF Init, IdleThread
  <2> QED
    BY <1>3, <1>5, <2>1 DEF Provenance, TrieProvenance, CacheProvenance, Used,
       LookupProvenance, RedirectProvenance, Sentinel
<1>9. \A t \in Threads : CreateVouched(thread[t])
  BY DEF Init, IdleThread, CreateVouched, NoRequest
<1>10. (\A t \in Threads : ThreadOK(thread[t])) /\ RegistrarOK
  BY <1>2 DEF Init, RegistrarOK
<1> QED
  BY <1>6, <1>7, <1>8, <1>9, <1>10 DEF IInv

(* Every step keeps the invariant. *)
LEMMA NextKeeps ==
    ASSUME RequestsAssumption, IInv, [Next]_vars
    PROVE  IInv'
<1>1. CASE \E t \in Threads : alive /\ Accept(t)
  BY <1>1, AcceptKeeps
<1>2. CASE \E t \in Threads : ThreadStep(t)
  BY <1>2, ThreadKeeps
<1>3. CASE RegistrarStep
  BY <1>3, RegistrarKeeps
<1>4. CASE \E t \in Threads : SsHandlerStep(t)
  BY <1>4, CreatePrimaryKeeps, CreateBackupKeeps, SsDeleteKeeps DEF SsHandlerStep
<1>5. CASE \E s \in SS : Boot(s) \/ Crash(s)
  BY <1>5, BootKeeps, CrashKeeps
<1>6. CASE Tick
  BY <1>6, TickKeeps
<1>7. CASE UNCHANGED vars
  <2>1. UNCHANGED << nm_connection_addresses, client_connection_addresses, path_ss_info,
                     ht, ht_ready, is_registered, thread, registrar, alive, ssVars >>
    BY <1>7 DEF vars, dirVars
  <2>2. SsTypeOK' /\ held' = held /\ RegistrarOK'
    BY <2>1, IInvFacts DEF SsTypeOK, RegistrarOK, ssVars
  <2> QED
    BY <2>1, <2>2, IInvFacts, SameMemory, OtherUpdate DEF Published
<1> QED
  BY <1>1, <1>2, <1>3, <1>4, <1>5, <1>6, <1>7 DEF Next

-----------------------------------------------------------------------------
(* The inductive invariant holds in every reachable state, whatever the    *)
(* constants.                                                              *)
THEOREM Inductive == Spec => []IInv
<1>1. Init => IInv
  BY RequestsAssumption, InitIInv
<1>2. IInv /\ [Next]_vars => IInv'
  BY RequestsAssumption, NextKeeps
<1> QED
  BY <1>1, <1>2, PTL DEF Spec

(* The naming server's memory is well typed: in particular path_ss_info    *)
(* stays a trie under any interleaving of insert_trie and delete_trie.     *)
THEOREM TypeCorrect == Spec => []TypeOK
<1>1. IInv => TypeOK
  BY DEF IInv
<1> QED
  BY <1>1, Inductive, PTL

(* No thread ever holds a server id whose addresses register_ss has not    *)
(* written yet.                                                            *)
THEOREM AddressesAlwaysPublished == Spec => []AddressPublished
<1>1. IInv => AddressPublished
  BY DEF IInv
<1> QED
  BY <1>1, Inductive, PTL

(* The trie, the cache and the redirects never invent the owner of a path. *)
THEOREM ProvenanceHolds == Spec => []Provenance
<1>1. IInv => Provenance
  BY DEF IInv
<1> QED
  BY <1>1, Inductive, PTL

-----------------------------------------------------------------------------
(* The cache of a state that satisfies IInv is one in the sense of IsCache. *)
LEMMA CacheIsCache ==
    ASSUME IInv
    PROVE  IsCache(ht)
BY DEF IInv, TypeOK, IsCache, SlotType

(* A path is in at most one slot of the cache: the only steps that touch   *)
(* the table are the fills and add_path, remove_path and the clock.        *)
THEOREM NoDuplicatesAlways == Spec => []NoDuplicateEntries
<1>1. Init => NoDuplicateEntries
  BY DEF Init, DirInit, EmptyCache, FreeSlot, NoDuplicateEntries, NoDuplicates, Hits, Used
<1>2. IInv /\ NoDuplicateEntries /\ [Next]_vars => NoDuplicateEntries'
  <2> SUFFICES ASSUME IInv, NoDuplicates(ht), [Next]_vars
               PROVE  NoDuplicates(ht')
    BY DEF NoDuplicateEntries, NoDuplicates, Hits, Used
  <2>1. ASSUME NEW s, NEW p, CacheInsert(s, p)
        PROVE  NoDuplicates(ht')
    BY <2>1, CacheIsCache, AddPathNoDuplicates DEF CacheInsert
  <2>2. ASSUME NEW p, CacheDelete(p)
        PROVE  NoDuplicates(ht')
    BY <2>2, DeletePathNoDuplicates DEF CacheDelete
  <2>3. CASE Tick
    BY <2>3, CacheIsCache, NextSecondNoDuplicates DEF Tick, ClockTick
  <2>4. CASE UNCHANGED ht
    BY <2>4
  <2>5. ASSUME NEW t \in Threads, ThreadStep(t)
        PROVE  NoDuplicates(ht')
    <3>1. UNCHANGED ht \/ FillCache(t) \/ AddToCache(t) \/ RemoveFromCache(t)
      BY <2>5 DEF ThreadStep, ReadCache, ReadTrie, PickServer, Connect, ConnectFails,
         ReceiveResponse, ReceiveNothing, AddToTrie, TrieInsert, RemoveFromTrie,
         TrieDelete, SendResponse, SendRedirect, CacheCrash, dirVars
    <3> QED
      BY <2>1, <2>2, <2>4, <3>1 DEF FillCache, AddToCache, RemoveFromCache
  <2>6. ASSUME RegistrarStep
        PROVE  UNCHANGED ht
    BY <2>6 DEF RegistrarStep, AcceptServer, RegisterNmAddress, WriteNmAddress,
       RegisterClientAddress, WriteClientAddress, RegisterPaths, InsertPaths,
       RegisterTable, InitializeTable, RegisterFlag, SetRegistered, RegisterReply, dirVars
  <2>7. ASSUME NEW t \in Threads, Accept(t) \/ SsHandlerStep(t)
        PROVE  UNCHANGED ht
    BY <2>7 DEF Accept, SsHandlerStep, CreatePrimary, CreateBackup, DeletePrimary,
       DeleteBackup, dirVars
  <2>8. ASSUME NEW s \in SS, Boot(s) \/ Crash(s)
        PROVE  UNCHANGED ht
    BY <2>8 DEF Boot, Crash, dirVars
  <2>9. CASE UNCHANGED vars
    BY <2>9 DEF vars, dirVars
  <2> QED
    BY <2>3, <2>4, <2>5, <2>6, <2>7, <2>8, <2>9 DEF Next
<1> QED
  BY <1>1, <1>2, Inductive, PTL DEF Spec

-----------------------------------------------------------------------------
(* The catalogue against the disks: CatalogueInv (NamingServer) is         *)
(* inductive relative to IInv.  Moves says what a step can make of the     *)
(* record of a thread, whoever takes it; what is said of disks, catalogue  *)
(* and registered servers is then kept because of the few actions that     *)
(* change them (WhoChanges).                                               *)

(* The program counters before a storage server is called.                 *)
Early == {"idle", "cache", "trie", "fill", "pick", "connect"}

(* What a step, of whomever, may make of the record of a thread. *)
Move(r, q) ==
    \/ q = r
    \/ /\ r.pc \in Early /\ ~ r.cut /\ ~ q.cut
       /\ r.pc # "idle" => q.req = r.req
       /\ q.pc \in Early \cup {"redirect", "primary", "answer"}
       /\ q.pc = "answer" => q.resp # OK
    \/ /\ q.req = r.req /\ q.ss = r.ss /\ (r.cut => q.cut)
       /\ r.removed \subseteq q.removed
       /\ \/ r.pc = "primary" /\ q.pc = "backup"
          \/ r.pc = "primary" /\ q.pc = "reply" /\ q.resp # OK
          \/ r.pc = "backup" /\ q.pc = "reply"
          \/ r.pc \in {"primary", "backup", "reply"} /\ q.pc = "cut" /\ q.cut
          \/ r.pc \in {"reply", "cut"} /\ q.pc = "answer" /\ q.resp # OK
          \/ /\ r.pc \in {"reply", "cut"} /\ (r.pc = "reply" => r.resp = OK)
             /\ q.resp = OK
             /\ q.pc = IF r.req.op = "create" THEN "trieAdd" ELSE "cacheDel"
          \/ /\ << r.pc, q.pc >> \in
                    { << "trieAdd", "cacheAdd" >>, << "cacheAdd", "answer" >>,
                      << "cacheDel", "trieDel" >>, << "trieDel", "answer" >>,
                      << "answer", "done" >>, << "redirect", "done" >> }
             /\ q.resp = r.resp

(* The same, with the two steps that matter beyond the record.             *)
Moves(u) ==
    /\ Move(thread[u], thread'[u]) /\ HandlerOK(thread'[u])
    /\ thread[u].pc = "trieAdd" /\ thread'[u].pc = "cacheAdd" => AddToTrie(u)
    /\ thread[u].pc = "primary" /\ thread'[u].pc = "backup" => SsHandlerStep(u)

(* The steps of one thread. *)
LEMMA OneMoves ==
    ASSUME IInv, \A u \in Threads : HandlerOK(thread[u]),
           NEW t \in Threads, NEW q, Become(t, q),
           Move(thread[t], q), HandlerOK(q),
           thread[t].pc = "trieAdd" => AddToTrie(t),
           thread[t].pc = "primary" => SsHandlerStep(t)
    PROVE  \A u \in Threads : Moves(u)
<1>1. thread'[t] = q /\ \A u \in Threads : u # t => thread'[u] = thread[u]
  BY DEF Become, IInv, TypeOK
<1> QED
  BY <1>1 DEF Moves, Move

(* Nobody else's steps move a thread, but for a crash. *)
LEMMA NobodyMoves ==
    ASSUME \A u \in Threads : HandlerOK(thread[u]), UNCHANGED thread
    PROVE  \A u \in Threads : Moves(u)
BY DEF Moves, Move

(* What becomes of a record after a lookup. *)
LEMMA AfterLookupMoves ==
    ASSUME RequestsAssumption,
           NEW r \in ThreadRecord, ThreadOK(r), HandlerOK(r), r.pc \in {"trie", "fill"},
           NEW s \in SS \cup {Sentinel}
    PROVE  Move(r, AfterLookup(r, s)) /\ HandlerOK(AfterLookup(r, s))
<1> DEFINE q == [r EXCEPT !.ss = s]
           a == AfterLookup(r, s)
<1>1. /\ r.req \in Requests /\ ~ r.cut /\ r.req.op \in Ops /\ r.stage \in Stages
      /\ r.removed = {}
  BY DEF ThreadOK, ThreadRecord, RequestsAssumption, HandlerOK
<1>2. /\ q \in ThreadRecord /\ q.req = r.req /\ q.cut = r.cut /\ q.stage = r.stage
      /\ q.removed = r.removed
  BY DEF ThreadRecord
<1> HIDE DEF q
<1> SUFFICES /\ a.req = r.req /\ a.cut = r.cut /\ a.removed = r.removed
             /\ a.pc \in {"cache", "pick", "connect", "redirect", "answer"}
             /\ a.pc = "answer" => a.resp # OK
             /\ a.pc = "pick" => r.req.op = "create"
             /\ a.pc = "connect" => r.req.op \in {"create", "delete"}
  BY <1>1 DEF Move, HandlerOK, Early
<1>3. CASE r.req.op = "create" /\ r.stage = "target"
  <2>1. a = AfterCreateTarget(q, s)
    BY <1>3 DEF AfterLookup, q
  <2> HIDE DEF a
  <2> QED
    BY <1>1, <1>2, <1>3, <2>1 DEF AfterCreateTarget, Finish, ThreadRecord, AlreadyExists, OK
<1>4. CASE (r.req.op = "create" /\ r.stage = "parent") \/ r.req.op = "delete"
  <2>1. a = AfterSsOp(q, s)
    BY <1>4 DEF AfterLookup, q
  <2> HIDE DEF a
  <2> QED
    BY <1>1, <1>2, <1>4, <2>1 DEF AfterSsOp, Finish, ThreadRecord, NotFound, OK
<1>5. CASE r.req.op = "read"
  <2>1. a = AfterRead(q, s)
    BY <1>5 DEF AfterLookup, q
  <2> HIDE DEF a
  <2> QED
    BY <1>1, <1>2, <1>5, <2>1 DEF AfterRead, Finish, ThreadRecord, NotFound, OK
<1>6. CASE r.req.op = "info"
  <2> DEFINE sent == IF s = Sentinel THEN Append(q.answers, NotFound) ELSE q.answers
  <2>1. a = [q EXCEPT !.pc = "redirect", !.answers = sent]
    BY <1>6 DEF AfterLookup, AfterInfo, q
  <2> HIDE DEF a, sent
  <2> QED
    BY <1>1, <1>2, <1>6, <2>1 DEF ThreadRecord
<1> QED
  BY <1>1, <1>3, <1>4, <1>5, <1>6 DEF Ops, Stages

(* A client handler thread moves. *)
LEMMA ThreadMoves ==
    ASSUME RequestsAssumption, IInv, \A u \in Threads : HandlerOK(thread[u]),
           NEW t \in Threads, Accept(t) \/ ThreadStep(t)
    PROVE  \A u \in Threads : Moves(u)
<1> DEFINE r == thread[t]
<1>1. r \in ThreadRecord /\ ThreadOK(r) /\ HandlerOK(r)
  BY DEF IInv, TypeOK
<1> SUFFICES ASSUME ~ CacheCrash(t)
             PROVE  \A u \in Threads : Moves(u)
  BY NobodyMoves DEF CacheCrash
<1>2. ASSUME NEW q, Become(t, q), Move(r, q), HandlerOK(q), r.pc # "primary",
             r.pc # "trieAdd" \/ AddToTrie(t)
      PROVE  \A u \in Threads : Moves(u)
  BY <1>2, OneMoves
<1>3. CASE Accept(t)
  <2>1. PICK q \in Requests :
          Become(t, IF q.op = "create" /\ InvalidPath(q.path)
                    THEN Finish([r EXCEPT !.req = q], InvalidContent)
                    ELSE [[r EXCEPT !.req = q] EXCEPT !.pc = "cache"])
    BY <1>3 DEF Accept
  <2> DEFINE n == IF q.op = "create" /\ InvalidPath(q.path)
                  THEN Finish([r EXCEPT !.req = q], InvalidContent)
                  ELSE [[r EXCEPT !.req = q] EXCEPT !.pc = "cache"]
  <2>2. /\ r.pc = "idle" /\ ~ r.cut /\ n.removed = {}
        /\ n.pc \in {"cache", "answer"} /\ ~ n.cut
        /\ n.pc = "answer" => n.resp # OK
    BY <1>1, <1>3 DEF Accept, ThreadRecord, ThreadOK, HandlerOK, Finish, InvalidContent, OK
  <2>3. Become(t, n)
    BY <2>1
  <2> HIDE DEF n
  <2> QED BY <1>2, <2>2, <2>3 DEF Move, HandlerOK, Early
<1>4. CASE ReadCache(t)
  <2>1. PICK s \in CacheAnswers(LookupPath(r)) :
          Become(t, IF s = Sentinel
                    THEN [r EXCEPT !.pc = "trie"]
                    ELSE [r EXCEPT !.pc = "fill", !.ss = s])
    BY <1>4 DEF ReadCache
  <2> DEFINE n == IF s = Sentinel
                  THEN [r EXCEPT !.pc = "trie"]
                  ELSE [r EXCEPT !.pc = "fill", !.ss = s]
  <2>2. /\ r.pc = "cache" /\ ~ r.cut /\ n.pc \in {"trie", "fill"} /\ ~ n.cut
        /\ n.req = r.req /\ n.removed = {}
    BY <1>1, <1>4 DEF ReadCache, ThreadRecord, ThreadOK, HandlerOK
  <2>3. Become(t, n)
    BY <2>1
  <2> HIDE DEF n
  <2> QED BY <1>2, <2>2, <2>3 DEF Move, HandlerOK, Early
<1>5. CASE ReadTrie(t)
  <2> DEFINE s == TrieAnswer(LookupPath(r))
             n == IF s = Sentinel THEN AfterLookup(r, Sentinel)
                  ELSE [r EXCEPT !.pc = "fill", !.ss = s]
  <2>1. r.pc = "trie" /\ ~ r.cut /\ Become(t, n)
    BY <1>1, <1>5 DEF ReadTrie, ThreadOK
  <2> HIDE DEF s
  <2>2. CASE s = Sentinel
    BY <1>1, <1>2, <2>1, <2>2, AfterLookupMoves
  <2>3. CASE s # Sentinel
    <3>1. n.pc = "fill" /\ ~ n.cut /\ n.req = r.req /\ n.removed = {}
      BY <1>1, <2>1, <2>3 DEF ThreadRecord, HandlerOK
    <3> HIDE DEF n
    <3> QED BY <1>2, <2>1, <3>1 DEF Move, HandlerOK, Early
  <2> QED BY <2>2, <2>3
<1>6. CASE FillCache(t)
  <2>1. r.pc = "fill" /\ r.ss \in SS /\ Become(t, AfterLookup(r, r.ss))
    BY <1>1, <1>6 DEF FillCache, ThreadOK
  <2> QED BY <1>1, <1>2, <2>1, AfterLookupMoves
<1>7. CASE PickServer(t)
  <2>1. PICK s \in RandomRegistered :
        Become(t, IF s = Sentinel
                  THEN Finish(r, InternalError)
                  ELSE [r EXCEPT !.pc = "connect", !.ss = s])
    BY <1>7 DEF PickServer
  <2> DEFINE n == IF s = Sentinel
                  THEN Finish(r, InternalError)
                  ELSE [r EXCEPT !.pc = "connect", !.ss = s]
  <2>2. /\ r.pc = "pick" /\ r.req.op = "create" /\ ~ r.cut
        /\ n.pc \in {"connect", "answer"} /\ ~ n.cut /\ n.req = r.req /\ n.removed = {}
        /\ n.pc = "answer" => n.resp # OK
    BY <1>1, <1>7
      DEF PickServer, ThreadRecord, ThreadOK, HandlerOK, Finish, InternalError, OK
  <2>3. Become(t, n)
    BY <2>1
  <2> HIDE DEF n
  <2> QED BY <1>2, <2>2, <2>3 DEF Move, HandlerOK, Early
<1>8. CASE Connect(t) \/ ConnectFails(t)
  <2>1. PICK n \in {[r EXCEPT !.pc = "primary"], Finish(r, InternalError)} : Become(t, n)
    BY <1>8 DEF Connect, ConnectFails
  <2>2. /\ r.pc = "connect" /\ r.req.op \in {"create", "delete"} /\ ~ r.cut
        /\ n.pc \in {"primary", "answer"} /\ ~ n.cut /\ n.req = r.req /\ n.removed = {}
        /\ n.pc = "answer" => n.resp # OK
    BY <1>1, <1>8
      DEF Connect, ConnectFails, ThreadRecord, ThreadOK, HandlerOK, Finish, InternalError, OK
  <2> QED BY <1>2, <2>1, <2>2 DEF Move, HandlerOK, Early
<1>9. CASE ReceiveResponse(t) \/ ReceiveNothing(t)
  <2>1. PICK resp \in Responses :
          /\ Become(t, AfterResponse(r, resp))
          /\ r.pc = "reply" => resp = r.resp
    BY <1>1, <1>9 DEF ReceiveResponse, ReceiveNothing, ThreadRecord, Responses,
                InternalError, OK, Garbage, ThreadOK
  <2> DEFINE n == AfterResponse(r, resp)
  <2>2. /\ r.pc \in {"reply", "cut"} /\ r.req.op \in {"create", "delete"}
        /\ n.req = r.req /\ n.ss = r.ss /\ n.cut = r.cut /\ n.resp = resp
        /\ n.removed = r.removed
        /\ n.pc = IF resp # OK THEN "answer"
                  ELSE IF r.req.op = "create" THEN "trieAdd" ELSE "cacheDel"
    BY <1>1, <1>9 DEF ReceiveResponse, ReceiveNothing, AfterResponse, ThreadRecord, HandlerOK
  <2>3. Become(t, n)
    BY <2>1
  <2> HIDE DEF n
  <2> QED BY <1>2, <2>1, <2>2, <2>3 DEF Move, HandlerOK
<1>10. CASE \/ AddToTrie(t) \/ AddToCache(t) \/ RemoveFromCache(t) \/ RemoveFromTrie(t)
            \/ SendResponse(t) \/ SendRedirect(t)
  <2>1. PICK q :
          /\ Become(t, q)
          /\ q.req = r.req /\ q.ss = r.ss /\ q.cut = r.cut /\ q.resp = r.resp
          /\ q.removed = r.removed
          /\ r.pc # "trieAdd" \/ AddToTrie(t)
          /\ << r.pc, q.pc >> \in
                    { << "trieAdd", "cacheAdd" >>, << "cacheAdd", "answer" >>,
                      << "cacheDel", "trieDel" >>, << "trieDel", "answer" >>,
                      << "answer", "done" >>, << "redirect", "done" >> }
    <3>1. CASE AddToTrie(t) \/ AddToCache(t) \/ RemoveFromCache(t) \/ RemoveFromTrie(t)
      <4>1. PICK pc : /\ Become(t, [r EXCEPT !.pc = pc])
                      /\ r.pc # "trieAdd" \/ AddToTrie(t)
                      /\ << r.pc, pc >> \in
                            { << "trieAdd", "cacheAdd" >>, << "cacheAdd", "answer" >>,
                              << "cacheDel", "trieDel" >>, << "trieDel", "answer" >> }
        BY <3>1 DEF AddToTrie, AddToCache, RemoveFromCache, RemoveFromTrie
      <4> WITNESS [r EXCEPT !.pc = pc]
      <4> QED BY <1>1, <4>1 DEF ThreadRecord
    <3>2. CASE SendResponse(t) \/ SendRedirect(t)
      <4>1. PICK sent : Become(t, [r EXCEPT !.pc = "done", !.answers = Append(@, sent)])
        BY <3>2 DEF SendResponse, SendRedirect
      <4>2. r.pc \in {"answer", "redirect"}
        BY <3>2 DEF SendResponse, SendRedirect
      <4> WITNESS [r EXCEPT !.pc = "done", !.answers = Append(@, sent)]
      <4> QED BY <1>1, <4>1, <4>2 DEF ThreadRecord
    <3> QED BY <1>10, <3>1, <3>2
  <2>2. Move(r, q) /\ HandlerOK(q)
    BY <1>1, <2>1 DEF Move, HandlerOK, ThreadOK
  <2>3. r.pc # "primary"
    BY <2>1
  <2> QED BY <1>2, <2>1, <2>2, <2>3
<1> QED
  BY <1>3, <1>4, <1>5, <1>6, <1>7, <1>8, <1>9, <1>10 DEF ThreadStep

(* The storage server's handler moves a thread. *)
LEMMA SsHandlerMoves ==
    ASSUME IInv, \A u \in Threads : HandlerOK(thread[u]),
           NEW t \in Threads, SsHandlerStep(t)
    PROVE  \A u \in Threads : Moves(u)
<1> DEFINE r == thread[t]
<1>1. r \in ThreadRecord /\ ThreadOK(r) /\ HandlerOK(r)
  BY DEF IInv, TypeOK
<1>2. PICK ok, next, gone :
        /\ \/ Become(t, SsStep(r, ok, next))
           \/ r.pc = "primary" /\ Become(t, [SsStep(r, ok, next) EXCEPT !.removed = gone])
        /\ << r.pc, next >> \in {<< "primary", "backup" >>, << "backup", "reply" >>}
  BY DEF SsHandlerStep, CreatePrimary, CreateBackup, DeletePrimary, DeleteBackup
<1> DEFINE n == SsStep(r, ok, next)
           m == [n EXCEPT !.removed = gone]
<1>3. /\ n.req = r.req /\ n.ss = r.ss /\ n.cut = r.cut /\ n.removed = r.removed
      /\ \/ n.pc = next
         \/ n.pc = "reply" /\ n.resp # OK
  BY <1>1 DEF SsStep, ThreadRecord, OK, InternalError
<1>4. /\ m.req = r.req /\ m.ss = r.ss /\ m.cut = r.cut
      /\ \/ m.pc = next
         \/ m.pc = "reply" /\ m.resp # OK
  BY <1>1 DEF SsStep, ThreadRecord, OK, InternalError
<1>5. Become(t, n) \/ (r.pc = "primary" /\ Become(t, m))
  BY <1>2
<1> HIDE DEF n, m
<1>6. PICK q : /\ Become(t, q) /\ q.req = r.req /\ q.ss = r.ss /\ q.cut = r.cut
               /\ r.removed \subseteq q.removed
               /\ \/ q.pc = next
                  \/ q.pc = "reply" /\ q.resp # OK
  BY <1>1, <1>3, <1>4, <1>5 DEF HandlerOK
<1>7. Move(r, q) /\ HandlerOK(q)
  BY <1>1, <1>2, <1>6 DEF Move, HandlerOK
<1> QED
  BY <1>2, <1>6, <1>7, OneMoves

(* So does the crash of a server. *)
LEMMA CrashMoves ==
    ASSUME IInv, \A u \in Threads : HandlerOK(thread[u]), NEW s \in SS, Crash(s)
    PROVE  \A u \in Threads : Moves(u)
<1> SUFFICES ASSUME NEW u \in Threads PROVE Moves(u)
  OBVIOUS
<1>1. thread[u] \in ThreadRecord
  BY DEF IInv, TypeOK
<1>2. \/ thread'[u] = thread[u]
      \/ /\ thread[u].pc \in {"primary", "backup", "reply"}
         /\ thread'[u] = [thread[u] EXCEPT !.pc = "cut", !.cut = TRUE]
  BY DEF Crash
<1> QED
  BY <1>1, <1>2 DEF Moves, Move, HandlerOK, ThreadRecord

(* Every step. *)
LEMMA AllMove ==
    ASSUME RequestsAssumption, IInv, \A u \in Threads : HandlerOK(thread[u]), [Next]_vars
    PROVE  \A u \in Threads : Moves(u)
<1>1. CASE RegistrarStep \/ Tick \/ (\E s \in SS : Boot(s)) \/ UNCHANGED vars
  <2>1. UNCHANGED thread
    BY <1>1 DEF RegistrarStep, AcceptServer, RegisterNmAddress, RegisterClientAddress,
       RegisterPaths, RegisterTable, RegisterFlag, RegisterReply, Tick, Boot, vars
  <2> QED BY <2>1, NobodyMoves
<1> QED
  BY <1>1, ThreadMoves, SsHandlerMoves, CrashMoves DEF Next

-----------------------------------------------------------------------------
(* The steps that change a tree of a storage server, the catalogue, or who *)
(* is registered.                                                          *)
LEMMA WhoChanges ==
    ASSUME [Next]_vars
    PROVE  /\ \/ UNCHANGED disk
              \/ \E t \in Threads : CreatePrimary(t) \/ DeletePrimary(t)
           /\ \/ UNCHANGED path_ss_info
              \/ \E t \in Threads : AddToTrie(t) \/ RemoveFromTrie(t)
              \/ RegisterPaths
           /\ \/ UNCHANGED << registrar, status >>
              \/ UNCHANGED registrar /\ \E s \in SS : Boot(s) \/ Crash(s)
              \/ \E s \in SS : AcceptServer(s)
              \/ RegisterNmAddress \/ RegisterClientAddress \/ RegisterPaths
              \/ RegisterTable \/ RegisterFlag \/ RegisterReply
<1>1. ASSUME NEW t \in Threads, Accept(t) \/ ThreadStep(t)
      PROVE  /\ UNCHANGED << disk, registrar, status >>
             /\ UNCHANGED path_ss_info \/ AddToTrie(t) \/ RemoveFromTrie(t)
  BY <1>1 DEF Accept, ThreadStep, ReadCache, ReadTrie, FillCache, CacheInsert,
     PickServer, Connect, ConnectFails, ReceiveResponse, ReceiveNothing, AddToTrie,
     TrieInsert, AddToCache, RemoveFromCache, CacheDelete, RemoveFromTrie, TrieDelete,
     SendResponse, SendRedirect, CacheCrash, dirVars, ssVars
<1>2. ASSUME NEW t \in Threads, SsHandlerStep(t)
      PROVE  /\ UNCHANGED << path_ss_info, registrar, status >>
             /\ UNCHANGED disk \/ CreatePrimary(t) \/ DeletePrimary(t)
  BY <1>2 DEF SsHandlerStep, CreatePrimary, CreateBackup, DeletePrimary, DeleteBackup,
     dirVars
<1>3. ASSUME RegistrarStep
      PROVE  UNCHANGED disk /\ (UNCHANGED path_ss_info \/ RegisterPaths)
  BY <1>3 DEF RegistrarStep, AcceptServer, RegisterNmAddress, WriteNmAddress,
     RegisterClientAddress, WriteClientAddress, RegisterPaths, RegisterTable,
     InitializeTable, RegisterFlag, SetRegistered, RegisterReply, dirVars, ssVars
<1>4. ASSUME NEW s \in SS, Boot(s) \/ Crash(s)
      PROVE  UNCHANGED << path_ss_info, disk, registrar >>
  BY <1>4 DEF Boot, Crash, dirVars
<1>5. CASE Tick \/ UNCHANGED vars
  BY <1>5 DEF Tick, ClockTick, vars, dirVars, ssVars
<1> QED
  BY <1>1, <1>2, <1>3, <1>4, <1>5 DEF Next, RegistrarStep

(* What a thread has done to excuse the absence of a path is not undone.   *)
LEMMA ExcusesKept ==
    ASSUME IInv, NEW u \in Threads, NEW s, NEW p,
           HandlerOK(thread[u]), Moves(u), Excuses(u, s, p)
    PROVE  Excuses(u, s, p)'
<1>1. ThreadOK(thread[u]) /\ thread[u] \in ThreadRecord
  BY DEF IInv, TypeOK
<1>2. CASE p \in thread[u].removed
  <2>1. thread[u].pc \notin Early
    BY <1>2 DEF HandlerOK, Early
  <2> QED BY <1>1, <1>2, <2>1 DEF Excuses, Moves, Move
<1>3. CASE thread[u].req.op = "create" /\ thread[u].cut
  BY <1>1, <1>3 DEF Excuses, Moves, Move, ThreadOK
<1> QED
  BY <1>2, <1>3 DEF Excuses

(* delete_file_or_folder takes what the path covers and adds nothing.      *)
LEMMA OutcomeCovered ==
    ASSUME NEW tree \in [Path -> Kinds], NEW w, NEW o \in DeleteOutcomes(tree, w),
           NEW p \in Path
    PROVE  \/ o.tree[p] = tree[p]
           \/ o.tree[p] = None /\ (p = w \/ IsPrefix(Append(w, Slash), p))
<1>1. \A gone : Without(tree, gone)[p] = IF p \in gone THEN None ELSE tree[p]
  BY DEF Without
<1>2. CASE o.tree = tree
  BY <1>2
<1>3. CASE o.tree = Without(tree, {w} \cup Below(tree, w))
  BY <1>1, <1>3 DEF Below
<1>4. ASSUME NEW gone \in DeletedPart(tree, w), o.tree = Without(tree, gone)
      PROVE  \/ o.tree[p] = tree[p]
             \/ o.tree[p] = None /\ IsPrefix(Append(w, Slash), p)
  BY <1>1, <1>4 DEF DeletedPart, Below
<1> QED
  BY <1>2, <1>3, <1>4 DEF DeleteOutcomes

(* A server that gets a path has it from a create that is still under way; *)
(* one that loses a path loses it to a DELETE that takes it.               *)
LEMMA DiskSteps ==
    ASSUME IInv, [Next]_vars, NEW s \in SS, NEW p \in Path
    PROVE  /\ disk[s][p] = None /\ disk'[s][p] # None =>
                \E u \in Threads : Unlisted(u, s, p)'
           /\ disk[s][p] # None /\ disk'[s][p] = None =>
                \E u \in Threads : Excuses(u, s, p)'
<1> SUFFICES ASSUME disk'[s][p] # disk[s][p]
             PROVE  \E u \in Threads :
                       \/ disk'[s][p] # None /\ Unlisted(u, s, p)'
                       \/ disk'[s][p] = None /\ Excuses(u, s, p)'
  OBVIOUS
<1>1. PICK t \in Threads : CreatePrimary(t) \/ DeletePrimary(t)
  BY WhoChanges
<1>2. PICK r : r = thread[t]
  OBVIOUS
<1>3. r \in ThreadRecord /\ DOMAIN thread = Threads /\ DOMAIN disk = SS
      /\ disk[s] \in [Path -> Kinds]
  BY <1>2 DEF IInv, TypeOK
<1>4. CASE CreatePrimary(t)
  <2> DEFINE ok == CanCreate(disk[r.ss], r.req.path, r.req.folder)
             n == SsStep(r, ok, "backup")
  <2>1. /\ r.req.op = "create" /\ Become(t, n)
        /\ disk' = IF ok THEN [disk EXCEPT ![r.ss] = Created(@, r.req.path, r.req.folder)]
                   ELSE disk
    BY <1>2, <1>4 DEF CreatePrimary
  <2> HIDE DEF ok
  <2>2. ok /\ s = r.ss /\ disk'[s] = Created(disk[s], r.req.path, r.req.folder)
    BY <1>3, <2>1
  <2>3. p = r.req.path /\ disk'[s][p] # None
    BY <1>3, <2>2 DEF Created, None, File, Folder
  <2>4. n.pc = "backup" /\ n.req = r.req /\ n.ss = r.ss
    BY <1>3, <2>2 DEF SsStep, ThreadRecord
  <2> HIDE DEF n
  <2>5. thread'[t] = n
    BY <1>3, <2>1 DEF Become
  <2> QED
    BY <2>1, <2>2, <2>3, <2>4, <2>5 DEF Unlisted
<1>5. CASE DeletePrimary(t)
  <2>1. PICK o \in DeleteOutcomes(disk[r.ss], r.req.path) :
          /\ Become(t, [SsStep(r, o.ok, "backup") EXCEPT
                          !.removed = Taken(disk[r.ss], o.tree)])
          /\ disk' = [disk EXCEPT ![r.ss] = o.tree]
    BY <1>2, <1>5 DEF DeletePrimary
  <2>2. s = r.ss /\ disk'[s] = o.tree
    BY <1>2, <1>3, <1>5, <2>1 DEF DeletePrimary
  <2>3. disk'[s][p] = None /\ disk[s][p] # None
    BY <1>3, <2>1, <2>2, OutcomeCovered
  <2> DEFINE n == [SsStep(r, o.ok, "backup") EXCEPT
                    !.removed = Taken(disk[r.ss], o.tree)]
  <2>4. n.ss = r.ss /\ p \in n.removed
    BY <1>3, <2>2, <2>3 DEF SsStep, ThreadRecord, Taken
  <2>5. thread'[t] = n
    BY <1>3, <2>1 DEF Become
  <2> HIDE DEF n
  <2>6. Excuses(t, s, p)'
    BY <2>2, <2>3, <2>4, <2>5 DEF Excuses
  <2> QED BY <2>3, <2>6
<1> QED
  BY <1>1, <1>4, <1>5

(* What a server has or may have lost remains so. *)
LEMMA BackedKept ==
    ASSUME RequestsAssumption, IInv, \A u \in Threads : HandlerOK(thread[u]),
           [Next]_vars, NEW s \in SS, NEW p, Backed(s, p)
    PROVE  Backed(s, p)'
<1>1. CASE \E u \in Threads : Excuses(u, s, p)
  BY <1>1, AllMove, ExcusesKept DEF Backed
<1>2. CASE p \in Path /\ disk[s][p] # None
  BY <1>2, DiskSteps DEF Backed
<1> QED
  BY <1>1, <1>2 DEF Backed

(* A create that has gone through in the primary tree is backed. *)
LEMMA CreatePrimaryBacks ==
    ASSUME IInv, NEW t \in Threads, SsHandlerStep(t),
           thread[t].pc = "primary", thread[t].req.op = "create",
           thread'[t].pc = "backup"
    PROVE  Backed(thread[t].ss, thread[t].req.path)'
<1>1. PICK r : r = thread[t]
  OBVIOUS
<1>2. CreatePrimary(t)
  BY DEF SsHandlerStep, DeletePrimary, CreateBackup, DeleteBackup
<1>3. /\ r \in ThreadRecord /\ ThreadOK(r) /\ r.ss \in SS /\ DOMAIN thread = Threads
      /\ DOMAIN disk = SS /\ disk[r.ss] \in [Path -> Kinds]
  BY <1>1 DEF IInv, TypeOK, ThreadOK
<1> DEFINE ok == CanCreate(disk[r.ss], r.req.path, r.req.folder)
           n == SsStep(r, ok, "backup")
<1>4. /\ Become(t, n)
      /\ disk' = IF ok THEN [disk EXCEPT ![r.ss] = Created(@, r.req.path, r.req.folder)]
                   ELSE disk
  BY <1>1, <1>2 DEF CreatePrimary
<1>5. ok => r.req.path \in Path
  BY DEF CanCreate
<1> HIDE DEF ok
<1>6. thread'[t] = n
  BY <1>3, <1>4 DEF Become
<1>7. ok
  BY <1>3, <1>6 DEF SsStep, ThreadRecord
<1>8. r.req.path \in Path /\ disk'[r.ss][r.req.path] # None
  BY <1>3, <1>4, <1>5, <1>7 DEF Created, None, File, Folder
<1>9. n.ss = r.ss /\ n.req = r.req
  BY <1>3, <1>7 DEF SsStep, ThreadRecord
<1> QED
  BY <1>6, <1>8, <1>9 DEF Backed

-----------------------------------------------------------------------------
(* What the catalogue is made to say: an old datum, the path of a create   *)
(* that is recorded, or a path on the disk of the server being registered. *)
LEMMA CatalogueSteps ==
    ASSUME RequestsAssumption, IInv, [Next]_vars, NEW p \in DOMAIN path_ss_info'
    PROVE  \/ path_ss_info'[p] = Sentinel
           \/ p \in DOMAIN path_ss_info /\ path_ss_info'[p] = path_ss_info[p]
           \/ \E t \in Threads :
                 /\ thread[t].pc = "trieAdd" /\ thread[t].req.op = "create"
                 /\ p = thread[t].req.path /\ path_ss_info'[p] = thread[t].ss
           \/ /\ path_ss_info'[p] \in SS /\ p \in Path
              /\ disk[path_ss_info'[p]][p] # None
<1>1. CASE UNCHANGED path_ss_info
  BY <1>1
<1>2. ASSUME NEW t \in Threads, AddToTrie(t)
      PROVE  \/ path_ss_info'[p] = Sentinel
             \/ p \in DOMAIN path_ss_info /\ path_ss_info'[p] = path_ss_info[p]
             \/ /\ thread[t].pc = "trieAdd" /\ thread[t].req.op = "create"
                /\ p = thread[t].req.path /\ path_ss_info'[p] = thread[t].ss
  <2>1. /\ path_ss_info' = Insert(path_ss_info, thread[t].req.path, thread[t].ss)
        /\ thread[t].pc = "trieAdd" /\ thread[t].req.op = "create"
    BY <1>2 DEF AddToTrie, TrieInsert, IInv, ThreadOK
  <2> QED BY <2>1 DEF Insert
<1>3. ASSUME NEW t \in Threads, RemoveFromTrie(t)
      PROVE  p \in DOMAIN path_ss_info /\ path_ss_info'[p] = path_ss_info[p]
  BY <1>3 DEF RemoveFromTrie, TrieDelete, Delete, Restrict
<1>4. CASE RegisterPaths
  <2>1. /\ path_ss_info' = InsertAll(path_ss_info, Announced(registrar.ss), registrar.ss)
        /\ registrar.ss \in SS
    BY <1>4 DEF RegisterPaths, InsertPaths, IInv, RegistrarOK
  <2> QED BY <2>1 DEF InsertAll, Announced
<1> QED
  BY <1>1, <1>2, <1>3, <1>4, WhoChanges

(* delete_trie takes only words that begin with the first character of its *)
(* word.                                                                   *)
LEMMA DoomedShareFirst ==
    ASSUME NEW t, IsTrie(t), NEW w \in Word, NEW p \in Doomed(t, w)
    PROVE  p[1] = w[1]
<1>1. PICK b \in 1 .. Len(w) :
        Doomed(t, w) = {n \in DOMAIN t : IsPrefix(SubSeq(w, 1, b), n)}
  BY DoomedIsSubtree
<1>2. p \in Word /\ IsPrefix(SubSeq(w, 1, b), p)
  BY <1>1 DEF IsTrie
<1>3. w \in Seq(Char) /\ p \in Seq(Char) /\ Len(w) \in Nat /\ b \in 1 .. Len(w)
  BY <1>2 DEF Word
<1> DEFINE v == SubSeq(w, 1, b)
<1>4. v \in Seq(Char) /\ Len(v) = b /\ v[1] = w[1]
  BY <1>3
<1> HIDE DEF v
<1>5. v[1] = p[1]
  BY <1>2, <1>3, <1>4 DEF IsPrefix, v
<1> QED BY <1>4, <1>5

(* add_path makes its path visible. *)
LEMMA AddMakesVisible ==
    ASSUME RequestsAssumption, IInv, NEW t \in Threads, AddToTrie(t)
    PROVE  Search(path_ss_info', thread[t].req.path) # Sentinel
<1>1. /\ path_ss_info' = Insert(path_ss_info, thread[t].req.path, thread[t].ss)
      /\ thread[t].ss \in SS /\ thread[t] \in ThreadRecord
  BY DEF AddToTrie, TrieInsert, IInv, ThreadOK, TypeOK
<1>2. thread[t].req.path \in Word
  BY <1>1, LookupPathIsWord
<1>3. thread[t].req.path \in Prefixes(thread[t].req.path)
  BY <1>2, PrefixesClosed
<1> QED
  BY <1>1, <1>3, SSAssumption DEF Insert, Search

(* register_ss makes the paths it announces visible. *)
LEMMA RegistrationMakesVisible ==
    ASSUME RequestsAssumption, IInv, RegisterPaths, NEW p \in Announced(registrar.ss)
    PROVE  Search(path_ss_info', p) # Sentinel
<1>1. /\ path_ss_info' = InsertAll(path_ss_info, Announced(registrar.ss), registrar.ss)
      /\ registrar.ss \in SS
  BY DEF RegisterPaths, InsertPaths, IInv, RegistrarOK
<1>2. p \in Word
  BY DEF Announced, RequestsAssumption
<1>3. p \in Prefixes(p)
  BY <1>2, PrefixesClosed
<1> QED
  BY <1>1, <1>3, SSAssumption DEF InsertAll, Search

(* What can be found, or has been taken along by a DELETE, remains so.     *)
LEMMA FoundKept ==
    ASSUME RequestsAssumption, IInv, \A u \in Threads : HandlerOK(thread[u]),
           [Next]_vars, NEW p, Found(p)
    PROVE  Found(p)'
<1>1. ASSUME NEW u \in Threads, DeleteRan(u, p)
      PROVE  DeleteRan(u, p)'
  <2>1. Moves(u)
    BY AllMove
  <2> QED
    BY <1>1, <2>1 DEF DeleteRan, Moves, Move, Early
<1>2. CASE TrieAnswer(p) # Sentinel
  <2>1. p \in DOMAIN path_ss_info /\ path_ss_info[p] # Sentinel
    BY <1>2 DEF TrieAnswer, Search
  <2> SUFFICES ASSUME Search(path_ss_info', p) = Sentinel
               PROVE  \E u \in Threads : DeleteRan(u, p)'
    BY DEF Found, TrieAnswer, Search
  <2>2. ~ UNCHANGED path_ss_info
    BY <2>1 DEF Search
  <2>3. ASSUME NEW t \in Threads, AddToTrie(t) PROVE FALSE
    <3>1. /\ path_ss_info' = Insert(path_ss_info, thread[t].req.path, thread[t].ss)
          /\ thread[t].ss \in SS
      BY <2>3 DEF AddToTrie, TrieInsert, IInv, ThreadOK
    <3> QED BY <2>1, <3>1, SSAssumption DEF Insert, Search
  <2>4. ~ RegisterPaths
    <3> SUFFICES ASSUME RegisterPaths PROVE FALSE
      OBVIOUS
    <3>1. /\ path_ss_info' = InsertAll(path_ss_info, Announced(registrar.ss), registrar.ss)
          /\ registrar.ss \in SS
      BY DEF RegisterPaths, InsertPaths, IInv, RegistrarOK
    <3> QED BY <2>1, <3>1, SSAssumption DEF InsertAll, Search
  <2>5. PICK t \in Threads : RemoveFromTrie(t)
    BY <2>2, <2>3, <2>4, WhoChanges
  <2>6. PICK r : r = thread[t]
    OBVIOUS
  <2>7. /\ r \in ThreadRecord /\ DOMAIN thread = Threads /\ IsTrie(path_ss_info)
        /\ r.pc = "trieDel" /\ r.req.op = "delete" /\ r.resp = OK
        /\ path_ss_info' = Delete(path_ss_info, r.req.path)
        /\ thread' = [thread EXCEPT ![t] = [r EXCEPT !.pc = "answer"]]
    BY <2>5, <2>6 DEF RemoveFromTrie, TrieDelete, Become, HandlerOK, IInv, TypeOK
  <2>8. p \in Doomed(path_ss_info, r.req.path)
    BY <2>1, <2>7 DEF Delete, Restrict, Search
  <2>9. p[1] = r.req.path[1]
    BY <2>7, <2>8, LookupPathIsWord, DoomedShareFirst
  <2>10. DeleteRan(t, p)'
    BY <2>7, <2>9 DEF DeleteRan, ThreadRecord
  <2> QED BY <2>10
<1> QED
  BY <1>1, <1>2 DEF Found

(* A confirmed create is found. *)
LEMMA CreatedStaysFound ==
    ASSUME RequestsAssumption, IInv, \A u \in Threads : HandlerOK(thread[u]),
           CreatedStaysVisible, [Next]_vars
    PROVE  CreatedStaysVisible'
<1> SUFFICES ASSUME NEW t \in Threads, NEW p, p = thread'[t].req.path,
                    thread'[t].req.op = "create", thread'[t].resp = OK,
                    thread'[t].pc \in {"cacheAdd", "answer", "done"}
             PROVE  Found(p)'
  BY DEF CreatedStaysVisible, Found
<1>1. Moves(t) /\ thread[t] \in ThreadRecord /\ ThreadOK(thread[t]) /\ HandlerOK(thread[t])
  BY AllMove DEF IInv, TypeOK
<1>2. \/ thread[t].pc \in {"cacheAdd", "answer", "done"} /\ thread[t].resp = OK
      \/ thread[t].pc = "trieAdd" /\ thread'[t].pc = "cacheAdd"
  BY <1>1 DEF Moves, Move, ThreadOK, HandlerOK, Early
<1>3. thread'[t].req = thread[t].req
  BY <1>1, <1>2 DEF Moves, Move, Early
<1>4. CASE thread[t].pc \in {"cacheAdd", "answer", "done"} /\ thread[t].resp = OK
  <2>1. Found(p)
    BY <1>3, <1>4 DEF CreatedStaysVisible, Found
  <2> QED BY <2>1, FoundKept
<1>5. CASE thread[t].pc = "trieAdd" /\ thread'[t].pc = "cacheAdd"
  <2>1. AddToTrie(t)
    BY <1>1, <1>5 DEF Moves
  <2>2. Search(path_ss_info', p) # Sentinel
    BY <1>3, <2>1, AddMakesVisible
  <2> QED BY <2>2 DEF Found, TrieAnswer, Search
<1> QED
  BY <1>2, <1>4, <1>5

(* What has not been listed yet still is not, or can be found. *)
LEMMA UnlistedKept ==
    ASSUME RequestsAssumption, IInv, \A u \in Threads : HandlerOK(thread[u]),
           [Next]_vars, NEW u \in Threads, NEW s, NEW p, Unlisted(u, s, p)
    PROVE  Unlisted(u, s, p)' \/ Found(p)'
<1>1. Moves(u)
  BY AllMove
<1>2. \/ Unlisted(u, s, p)'
      \/ thread[u].pc = "trieAdd" /\ thread'[u].pc = "cacheAdd"
  BY <1>1 DEF Moves, Move, Early, Unlisted
<1>3. CASE thread[u].pc = "trieAdd" /\ thread'[u].pc = "cacheAdd"
  <2>1. AddToTrie(u)
    BY <1>1, <1>3 DEF Moves
  <2>2. Search(path_ss_info', p) # Sentinel
    BY <2>1, AddMakesVisible DEF Unlisted
  <2> QED BY <2>2 DEF Found, TrieAnswer, Search
<1> QED
  BY <1>2, <1>3

(* A server comes to be listed only by the announcement of its paths. *)
LEMMA ListedSteps ==
    ASSUME RequestsAssumption, IInv, [Next]_vars, NEW s \in SS,
           Listed(s)', ~ Listed(s)
    PROVE  RegisterPaths /\ s = registrar.ss
<1>1. DOMAIN status = SS /\ registrar \in [pc : RegistrarPcs, ss : SS \cup {Sentinel}]
  BY DEF IInv, TypeOK
<1>2. ~ UNCHANGED << registrar, status >>
  BY DEF Listed
<1>3. ASSUME NEW b \in SS, Boot(b) \/ Crash(b), UNCHANGED registrar PROVE FALSE
  <2>1. \E q \in {"announced", "off"} : status' = [status EXCEPT ![b] = q]
    BY <1>3 DEF Boot, Crash
  <2> QED BY <1>1, <1>3, <2>1 DEF Listed
<1>4. ASSUME NEW b \in SS, AcceptServer(b) PROVE FALSE
  BY <1>4 DEF AcceptServer, ssVars, Listed
<1>5. ASSUME \/ RegisterNmAddress \/ RegisterClientAddress
             \/ RegisterTable \/ RegisterFlag
      PROVE FALSE
  BY <1>1, <1>5 DEF RegisterNmAddress, RegisterClientAddress, RegisterTable,
     RegisterFlag, ssVars, Listed
<1>6. ASSUME RegisterReply PROVE FALSE
  BY <1>1, <1>6, SSAssumption DEF RegisterReply, Listed
<1>7. RegisterPaths
  BY <1>2, <1>3, <1>4, <1>5, <1>6, WhoChanges
<1>8. registrar' = [registrar EXCEPT !.pc = "table"] /\ UNCHANGED status
  BY <1>7 DEF RegisterPaths
<1> QED
  BY <1>1, <1>7, <1>8 DEF Listed

(* What is on the disk of a listed server is found. *)
LEMMA ListedStaysFound ==
    ASSUME RequestsAssumption, IInv, \A u \in Threads : HandlerOK(thread[u]),
           ListedFound, [Next]_vars
    PROVE  ListedFound'
<1> SUFFICES ASSUME NEW s \in SS, NEW p \in Path, Listed(s)', disk'[s][p] # None
             PROVE  Found(p)' \/ \E u \in Threads : Unlisted(u, s, p)'
  BY DEF ListedFound
<1>1. CASE disk[s][p] = None
  BY <1>1, DiskSteps
<1>2. CASE disk[s][p] # None /\ Listed(s)
  <2>1. Found(p) \/ \E u \in Threads : Unlisted(u, s, p)
    BY <1>2 DEF ListedFound
  <2> QED BY <2>1, FoundKept, UnlistedKept
<1>3. CASE disk[s][p] # None /\ ~ Listed(s)
  <2>1. RegisterPaths /\ s = registrar.ss /\ p \in Announced(registrar.ss)
    BY <1>3, ListedSteps DEF Announced
  <2>2. Search(path_ss_info', p) # Sentinel
    BY <2>1, RegistrationMakesVisible
  <2> QED BY <2>2 DEF Found, TrieAnswer, Search
<1> QED
  BY <1>1, <1>2, <1>3

(* What the catalogue says is backed by a disk. *)
LEMMA CatalogueStaysBacked ==
    ASSUME RequestsAssumption, IInv, CatalogueBacked, [Next]_vars,
           \A u \in Threads : HandlerOK(thread[u]) /\ CreateBacked(thread[u])
    PROVE  CatalogueBacked'
<1> SUFFICES ASSUME NEW p \in DOMAIN path_ss_info', NEW s,
                    s = path_ss_info'[p], s # Sentinel
             PROVE  Backed(s, p)'
  BY DEF CatalogueBacked, Backed, Excuses
<1>1. CASE p \in DOMAIN path_ss_info /\ path_ss_info'[p] = path_ss_info[p]
  <2>1. s \in SS /\ Backed(s, p)
    BY <1>1 DEF CatalogueBacked, IInv, TypeOK
  <2> QED BY <2>1, BackedKept
<1>2. CASE \E t \in Threads :
                 /\ thread[t].pc = "trieAdd" /\ thread[t].req.op = "create"
                 /\ p = thread[t].req.path /\ path_ss_info'[p] = thread[t].ss
  <2>1. s \in SS /\ Backed(s, p)
    BY <1>2 DEF CreateBacked, IInv, ThreadOK
  <2> QED BY <2>1, BackedKept
<1>3. CASE s \in SS /\ p \in Path /\ disk[s][p] # None
  BY <1>3, BackedKept DEF Backed
<1> QED
  BY <1>1, <1>2, <1>3, CatalogueSteps

(* So is what a create is about to make it say. *)
LEMMA CreateStaysBacked ==
    ASSUME RequestsAssumption, IInv, [Next]_vars, NEW t \in Threads,
           \A u \in Threads : HandlerOK(thread[u]) /\ CreateBacked(thread[u])
    PROVE  CreateBacked(thread[t])'
<1> SUFFICES ASSUME thread'[t].req.op = "create",
                    \/ thread'[t].pc \in {"backup", "trieAdd"}
                    \/ thread'[t].pc = "reply" /\ thread'[t].resp = OK
             PROVE  Backed(thread[t].ss, thread[t].req.path)'
  BY DEF CreateBacked
<1>1. /\ Moves(t) /\ thread[t] \in ThreadRecord /\ ThreadOK(thread[t])
      /\ HandlerOK(thread[t]) /\ CreateBacked(thread[t])
  BY AllMove DEF IInv, TypeOK
<1>2. PICK s, p : s = thread[t].ss /\ p = thread[t].req.path
  OBVIOUS
<1>3. /\ thread'[t].req = thread[t].req /\ thread'[t].ss = thread[t].ss
      /\ thread[t].pc \in {"primary", "backup", "reply", "cut", "trieAdd"}
      /\ thread[t].pc = "primary" => thread'[t].pc = "backup"
      /\ thread[t].pc = "reply" => thread[t].resp = OK
  BY <1>1 DEF Moves, Move, Early
<1>4. s \in SS /\ thread[t].req.op = "create"
  BY <1>1, <1>2, <1>3 DEF ThreadOK
<1>5. Backed(s, p)'
  <2>1. CASE thread[t].pc = "primary"
    <3>1. SsHandlerStep(t) /\ thread'[t].pc = "backup"
      BY <1>1, <1>3, <2>1 DEF Moves
    <3>2. Backed(thread[t].ss, thread[t].req.path)'
      BY <1>4, <2>1, <3>1, CreatePrimaryBacks
    <3> QED BY <1>2, <1>3, <3>2 DEF Backed, Excuses
  <2>2. CASE thread[t].pc = "cut"
    <3>1. Excuses(t, s, p)
      BY <1>1, <1>2, <1>4, <2>2 DEF Excuses, ThreadOK
    <3>2. Backed(s, p)
      BY <3>1 DEF Backed
    <3> QED BY <1>4, <3>2, BackedKept
  <2>3. CASE thread[t].pc \in {"backup", "reply", "trieAdd"}
    <3>1. Backed(s, p)
      BY <1>1, <1>2, <1>3, <1>4, <2>3 DEF CreateBacked
    <3> QED BY <1>4, <3>1, BackedKept
  <2> QED BY <1>3, <2>1, <2>2, <2>3
<1> QED
  BY <1>2, <1>3, <1>5 DEF Backed, Excuses

(* The invariant about the catalogue holds in every reachable state.       *)
THEOREM CatalogueInductive == Spec => []CatalogueInv
<1>1. Init => CatalogueInv
  <2> SUFFICES ASSUME Init PROVE CatalogueInv
    OBVIOUS
  <2>1. IInv
    BY RequestsAssumption, InitIInv
  <2>2. \A t \in Threads : thread[t] = IdleThread
    BY DEF Init
  <2>3. \A t \in Threads : HandlerOK(thread[t]) /\ CreateBacked(thread[t])
    BY <2>2 DEF IdleThread, HandlerOK, CreateBacked
  <2>4. CreatedStaysVisible
    BY <2>2 DEF IdleThread, CreatedStaysVisible
  <2>5. CatalogueBacked
    BY DEF CatalogueBacked, Init, DirInit, EmptyTrie
  <2>6. ListedFound
    BY DEF ListedFound, Listed, Init
  <2> QED BY <2>1, <2>3, <2>4, <2>5, <2>6 DEF CatalogueInv
<1>2. CatalogueInv /\ [Next]_vars => CatalogueInv'
  <2> SUFFICES ASSUME CatalogueInv, [Next]_vars PROVE CatalogueInv'
    OBVIOUS
  <2>1. IInv'
    BY RequestsAssumption, NextKeeps DEF CatalogueInv
  <2>2. \A t \in Threads : HandlerOK(thread'[t])
    BY RequestsAssumption, AllMove DEF CatalogueInv, Moves
  <2>3. \A t \in Threads : CreateBacked(thread[t])'
    BY RequestsAssumption, CreateStaysBacked DEF CatalogueInv
  <2>4. CatalogueBacked' /\ CreatedStaysVisible' /\ ListedFound'
    BY RequestsAssumption, CatalogueStaysBacked, CreatedStaysFound, ListedStaysFound
      DEF CatalogueInv
  <2> QED
    BY <2>1, <2>2, <2>3, <2>4 DEF CatalogueInv, HandlerOK
<1> QED
  BY <1>1, <1>2, PTL DEF Spec

(* A path whose creation was confirmed can be found until a DELETE of a    *)
(* path that begins like it has gone through.                              *)
THEOREM CreatedAlwaysVisible == Spec => []CreatedStaysVisible
<1>1. CatalogueInv => CreatedStaysVisible
  BY DEF CatalogueInv
<1> QED
  BY <1>1, CatalogueInductive, PTL

(* No path on the disk of a running server is lost to clients, but for     *)
(* creates under way or taken for failed and for what a DELETE took along. *)
THEOREM NoPathEverLost == Spec => []NoLostPath
<1>1. CatalogueInv => NoLostPath
  BY DEF CatalogueInv, ListedFound, Listed, Found, NoLostPath
<1> QED
  BY <1>1, CatalogueInductive, PTL

(* The catalogue places no path on a server that does not have it, unless  *)
(* a DELETE took that path from the server's disk or its create was cut.   *)
THEOREM NoPhantomPathEver == Spec => []NoPhantomPath
<1>1. CatalogueInv => NoPhantomPath
  BY DEF CatalogueInv, CatalogueBacked, Backed, NoPhantomPath
<1> QED
  BY <1>1, CatalogueInductive, PTL

=============================================================================
