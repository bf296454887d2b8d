--------------------------- MODULE CopyingProofs ----------------------------
(* Proofs about Copying: its types; that the catalogue names nothing that  *)
(* is not on a disk, unless it was deleted; what is on a disk and not in   *)
(* the catalogue; what a copy leaves when it is deleted; and what a copy   *)
(* that nobody disturbs brings.  First IInv, with what is known about      *)
(* places, then TInv, with who has company, then WInv, with the data.      *)
EXTENDS Copying, SequenceTheorems, TLAPS

-----------------------------------------------------------------------------
(* The inductive invariant. *)

(* Gone: somebody has asked for the deletion of p.  Known: where a path    *)
(* is, or was until it was deleted.  OpenAt: where a copy has a WRITE      *)
(* handler that waits for more.                                            *)
Gone(p) == \E u \in Threads : Deletes(u, p)
Known == {sp \in SS \X Path : tree[sp[1]][sp[2]] # None \/ Gone(sp[2])}
OpenAt(t) == {w.path : w \in {v \in writers : v.by = t /\ v.open}}
Inodes == {Folder} \cup DOMAIN data

(* An entry at work has been made once it is past the CREATE; the WRITE    *)
(* handler that it sends to is there, and so is the file that it reads.    *)
FrameOK(f, s, known, open, inodes) ==
    /\ f.act \notin {"stat", "create"} => <<s, f.dst>> \in known
    /\ f.act \in {"open", "read"} => f.dst \in open
    /\ f.act = "read" => f.ino \in inodes

(* All that a thread is at work on, has copied or has made is known. *)
WorkOK(r, known, open, inodes) ==
    /\ \A k \in 1 .. Len(r.work) :
          /\ FrameOK(r.work[k], r.to, known, open, inodes)
          /\ k > 1 => r.work[k].act = "list"
    /\ r.pc = "copy" => r.work # <<>>
    /\ \A k \in 1 .. Len(r.rows) : <<r.to, r.rows[k]>> \in known
    /\ r.pc \in {"backup", "add"} /\ r.req.op # "delete" => <<r.to, r.req.path>> \in known

(* The program counter says what kind of request it is, which servers have *)
(* been looked up, and that nothing has been copied yet.                   *)
PcOK(r) ==
    /\ r.pc = "idle" => r = IdleThread
    /\ r.pc # "idle" => r.req \in Requests
    /\ r.pc \in {"source", "target", "parent", "connect", "check"} =>
          r.work = <<>> /\ r.rows = <<>>
    /\ r.pc = "source" => r.req.op \in {"copy", "delete"}
    /\ r.pc \in {"target", "parent"} => r.req.op # "delete"
    /\ r.pc \in {"check", "copy", "table", "waits", "rows"} => r.req.op = "copy"
    /\ r.pc = "primary" => r.req.op # "copy"
    /\ r.pc = "backup" => r.req.op # "copy"
    /\ r.pc = "add" => r.req.op \notin {"copy", "delete"}
    /\ r.pc = "forget" => r.req.op = "delete"
    /\ r.pc \notin {"idle", "source", "answer", "done"} /\ r.req.op \in {"copy", "delete"} =>
          r.from \in SS
    /\ r.pc \notin {"idle", "source", "target", "parent", "answer", "done"}
       /\ r.req.op # "delete" => r.to \in SS

ThreadOK(t) == PcOK(thread[t]) /\ WorkOK(thread[t], Known, OpenAt(t), Inodes)

CatalogueOK == \A p \in Path : cat[p] # NoServer => <<cat[p], p>> \in Known

IInv == TypeOK /\ (\A t \in Threads : ThreadOK(t)) /\ CatalogueOK

-----------------------------------------------------------------------------
(* Facts about requests and paths. *)
LEMMA RequestFacts ==
    ASSUME NEW q \in Requests
    PROVE  /\ q.op \in Ops /\ q.path \in Path /\ Target(q) \in Path
           /\ q.op = "copy" => q.dest \in Path
BY CopyingAssumption DEF Target, Ops

LEMMA PathFacts ==
    ASSUME NEW p \in Path
    PROVE  /\ p \in Seq(STRING) /\ p # <<>> /\ Len(p) \in Nat \ {0} /\ Last(p) \in STRING
           /\ Len(p) > 1 => Front(p) \in Path
<1>1. p \in Seq(STRING) /\ p # <<>> /\ \A n \in 1 .. Len(p) : SubSeq(p, 1, n) \in Path
  BY CopyingAssumption
<1>2. Len(p) \in Nat \ {0}
  BY <1>1
<1>3. Last(p) \in STRING
  BY <1>1, <1>2 DEF Last
<1>4. Len(p) > 1 => Front(p) \in Path
  <2>1. Len(p) > 1 => Len(p) - 1 \in 1 .. Len(p)
    BY <1>2
  <2> QED BY <1>1, <2>1 DEF Front
<1> QED
  BY <1>1, <1>2, <1>3, <1>4

LEMMA ServerFacts ==
    /\ NoServer \notin SS
    /\ None # Folder /\ ~ (None > Folder)
BY CopyingAssumption DEF NoServer, None, Folder

(* A function on 1 .. n is a sequence. *)
LEMMA FunctionIsSeq ==
    ASSUME NEW S, NEW n \in Nat, NEW f \in [1 .. n -> S]
    PROVE  f \in Seq(S) /\ Len(f) = n
<1>1. f \in UNION {[1 .. m -> S] : m \in Nat}
  OBVIOUS
<1> QED
  BY <1>1

(* The initial state. *)
LEMMA InitOK == Init => IInv
<1> SUFFICES ASSUME Init PROVE IInv
  OBVIOUS
<1>1. PICK W \in Worlds :
        /\ tree = W
        /\ data = [i \in 1 .. Files(W) |-> <<i>>]
        /\ cat = [p \in Path |-> Owner(W, p)]
        /\ backup = [p \in Path |-> IF Owner(W, p) = NoServer THEN None
                                     ELSE Kind(W[Owner(W, p)][p])]
  BY DEF Init
<1>2. Files(W) \in Nat /\ W \in [SS -> [Path -> None .. Files(W)]]
  BY CopyingAssumption
<1>3. \A p \in Path : Owner(W, p) \in SS \cup {NoServer}
                      /\ (Owner(W, p) # NoServer => W[Owner(W, p)][p] # None)
  BY DEF Owner
<1>4. jammed = {} /\ thread = [t \in Threads |-> IdleThread] /\ writers = {} /\ disturbed = {}
  BY DEF Init
<1>5. DOMAIN data = 1 .. Files(W) /\ data \in Seq(Seq(Chunk))
  <2>1. \A i \in 1 .. Files(W) : <<i>> \in Seq(Chunk)
    BY <1>2 DEF Chunk
  <2>2. data \in [1 .. Files(W) -> Seq(Chunk)]
    <3>1. \A i \in DOMAIN data : data[i] = <<i>>
      BY <1>1
    <3> QED BY <1>1, <2>1, <3>1
  <2> QED BY <1>2, <2>2, FunctionIsSeq
<1>6. IdleThread \in ThreadRecord
  BY DEF IdleThread, ThreadRecord, Pcs, Responses, NoAnswer
<1>7. TypeOK
  <2>1. cat \in [Path -> SS \cup {NoServer}]
    BY <1>1, <1>3
  <2>2. tree \in [SS -> [Path -> {None, Folder} \cup DOMAIN data]]
    BY <1>1, <1>2, <1>5 DEF None, Folder
  <2>3. backup \in [Path -> None .. File]
    <3>1. \A p \in Path : Owner(W, p) # NoServer => Kind(W[Owner(W, p)][p]) \in None .. File
      BY <1>2, <1>3 DEF Kind, None, File, Folder
    <3> QED BY <1>1, <3>1 DEF None, File
  <2>4. \A t \in Threads : thread[t].pc = "idle"
    BY <1>4 DEF IdleThread
  <2> QED BY <1>4, <1>5, <1>6, <2>1, <2>2, <2>3, <2>4 DEF TypeOK
<1>8. \A t \in Threads : ThreadOK(t)
  BY <1>4 DEF ThreadOK, PcOK, WorkOK, IdleThread, At
<1>9. CatalogueOK
  BY <1>1, <1>3 DEF CatalogueOK, Known
<1> QED
  BY <1>7, <1>8, <1>9 DEF IInv

-----------------------------------------------------------------------------
(* What a step of a thread must keep, so that the invariant holds of all.  *)

(* A file system forgets nothing but what is deleted. *)
LEMMA KnownGrows ==
    ASSUME \A u \in Threads : Is(u, "delete") => thread'[u].req = thread[u].req,
           \A s \in SS, p \in Path : tree[s][p] # None /\ tree'[s][p] = None => Gone(p)
    PROVE  Known \subseteq Known'
<1>1. \A p : Gone(p) => Gone(p)'
  BY DEF Gone, Deletes, Is
<1> QED
  BY <1>1 DEF Known

LEMMA WorkMonotone ==
    ASSUME NEW r, NEW T1, NEW T2, NEW O1, NEW O2, NEW D1, NEW D2,
           T1 \subseteq T2, O1 \subseteq O2, D1 \subseteq D2, WorkOK(r, T1, O1, D1)
    PROVE  WorkOK(r, T2, O2, D2)
<1>1. \A f, s : FrameOK(f, s, T1, O1, D1) => FrameOK(f, s, T2, O2, D2)
  BY DEF FrameOK
<1> QED
  BY <1>1 DEF WorkOK

(* The servers that a program counter calls for are there. *)
LEMMA PcServers ==
    ASSUME NEW r, PcOK(r), r.pc \in {"connect", "check", "copy", "primary", "rows"}
    PROVE  /\ r.req.op \in {"copy", "delete"} => r.from \in SS
           /\ r.req.op # "delete" => r.to \in SS
BY DEF PcOK

(* The types of what the threads share. *)
SharedTyped ==
    /\ cat \in [Path -> SS \cup {NoServer}]
    /\ tree \in [SS -> [Path -> {None, Folder} \cup DOMAIN data]]
    /\ data \in Seq(Seq(Chunk))
    /\ backup \in [Path -> None .. File]
    /\ jammed \subseteq SS
    /\ writers \subseteq WriterRecord
    /\ disturbed \subseteq Threads

LEMMA StepKeeps ==
    ASSUME IInv, NEW t \in Threads, NEW r \in ThreadRecord,
           thread' = [thread EXCEPT ![t] = r],
           PcOK(r), WorkOK(r, Known', OpenAt(t)', Inodes'),
           Is(t, "delete") => r.req = thread[t].req,
           SharedTyped',
           \A s \in SS, p \in Path : tree[s][p] # None /\ tree'[s][p] = None => Gone(p),
           DOMAIN data \subseteq DOMAIN data',
           \A u \in Threads \ {t} : OpenAt(u) \subseteq OpenAt(u)',
           CatalogueOK'
    PROVE  IInv'
<1>1. DOMAIN thread = Threads /\ \A u \in Threads : thread[u] \in ThreadRecord
  BY DEF IInv, TypeOK
<1>2. /\ DOMAIN thread' = Threads /\ thread'[t] = r
      /\ \A u \in Threads \ {t} : thread'[u] = thread[u]
  BY <1>1
<1>3. Known \subseteq Known'
  <2>1. \A u \in Threads : Is(u, "delete") => thread'[u].req = thread[u].req
    BY <1>2 DEF Is
  <2> QED BY <2>1, KnownGrows
<1>4. Inodes \subseteq Inodes'
  BY DEF Inodes
<1>5. \A u \in Threads : PcOK(thread'[u]) /\ WorkOK(thread'[u], Known', OpenAt(u)', Inodes')
  <2> SUFFICES ASSUME NEW u \in Threads, u # t
               PROVE  PcOK(thread'[u]) /\ WorkOK(thread'[u], Known', OpenAt(u)', Inodes')
    BY <1>2
  <2>1. PICK q : q = thread[u]
    OBVIOUS
  <2>2. PcOK(q) /\ WorkOK(q, Known, OpenAt(u), Inodes)
    BY <2>1 DEF IInv, ThreadOK
  <2>3. WorkOK(q, Known', OpenAt(u)', Inodes')
    BY <1>3, <1>4, <2>2, WorkMonotone
  <2> QED BY <1>2, <2>1, <2>2, <2>3
<1>6. (\A u \in Threads : ThreadOK(u))'
  BY <1>5 DEF ThreadOK
<1>7. TypeOK'
  <2>1. \A u \in Threads : thread'[u] \in ThreadRecord
    BY <1>1, <1>2
  <2>2. ASSUME NEW u \in Threads,
               thread'[u].pc \in {"connect", "check", "copy", "primary", "rows"}
        PROVE  /\ thread'[u].req.op \in {"copy", "delete"} => thread'[u].from \in SS
               /\ thread'[u].req.op # "delete" => thread'[u].to \in SS
    BY <1>5, <2>2, PcServers
  <2> QED BY <1>2, <2>1, <2>2 DEF TypeOK, SharedTyped, Is
<1> QED
  BY <1>6, <1>7 DEF IInv

(* A step that changes neither what is on the disks nor the WRITE          *)
(* handlers.                                                               *)
LEMMA LightStepKeeps ==
    ASSUME IInv, NEW t \in Threads, NEW r \in ThreadRecord,
           thread' = [thread EXCEPT ![t] = r],
           PcOK(r), WorkOK(r, Known, OpenAt(t), Inodes),
           Is(t, "delete") => r.req = thread[t].req,
           UNCHANGED << tree, data, writers >>,
           cat' \in [Path -> SS \cup {NoServer}],
           \A p \in Path : cat'[p] # NoServer => <<cat'[p], p>> \in Known,
           backup' \in [Path -> None .. File], jammed' \subseteq SS,
           disturbed' \subseteq Threads
    PROVE  IInv'
<1>1. DOMAIN thread = Threads /\ SharedTyped
  BY DEF IInv, TypeOK, SharedTyped
<1>2. Known \subseteq Known'
  <2>1. \A u \in Threads : Is(u, "delete") => thread'[u].req = thread[u].req
    BY <1>1 DEF Is
  <2> QED BY <2>1, KnownGrows
<1>3. Inodes' = Inodes /\ (\A u \in Threads : OpenAt(u)' = OpenAt(u))
  BY DEF Inodes, OpenAt
<1>4. WorkOK(r, Known', OpenAt(t)', Inodes')
  BY <1>2, <1>3, WorkMonotone
<1>5. SharedTyped'
  BY <1>1 DEF SharedTyped, WriterRecord
<1>6. CatalogueOK'
  BY <1>2 DEF CatalogueOK
<1> QED
  BY <1>3, <1>4, <1>5, <1>6, StepKeeps

(* A step that changes nothing but the thread. *)
LEMMA PlainStepKeeps ==
    ASSUME IInv, NEW t \in Threads, NEW r \in ThreadRecord,
           thread' = [thread EXCEPT ![t] = r],
           PcOK(r), WorkOK(r, Known, OpenAt(t), Inodes),
           Is(t, "delete") => r.req = thread[t].req,
           UNCHANGED << cat, fsVars, writers >>, disturbed' \subseteq Threads
    PROVE  IInv'
<1>1. UNCHANGED << cat, tree, data, backup, jammed, writers >>
  BY DEF fsVars
<1>2. /\ cat' \in [Path -> SS \cup {NoServer}]
      /\ \A p \in Path : cat'[p] # NoServer => <<cat'[p], p>> \in Known
      /\ backup' \in [Path -> None .. File] /\ jammed' \subseteq SS
  BY <1>1 DEF IInv, TypeOK, CatalogueOK
<1> QED
  BY <1>1, <1>2, LightStepKeeps

-----------------------------------------------------------------------------
(* Steps of the naming server that touch only their thread. *)
LEMMA ThreadFacts ==
    ASSUME IInv, NEW t \in Threads
    PROVE  /\ thread[t] \in ThreadRecord /\ PcOK(thread[t])
           /\ WorkOK(thread[t], Known, OpenAt(t), Inodes)
BY DEF IInv, TypeOK, ThreadOK

LEMMA ResponsesTyped ==
    {OK, NotFound, AlreadyExists, InternalError, NoAnswer} = Responses
BY DEF Responses

(* An answer ends all that was at work. *)
Answered(r, resp) == [r EXCEPT !.pc = "answer", !.work = <<>>, !.resp = resp]

LEMMA Answering ==
    ASSUME NEW r \in ThreadRecord, PcOK(r), r.pc # "idle", NEW resp \in Responses,
           NEW known, NEW open, NEW inodes, WorkOK(r, known, open, inodes)
    PROVE  /\ Answered(r, resp) \in ThreadRecord /\ PcOK(Answered(r, resp))
           /\ WorkOK(Answered(r, resp), known, open, inodes)
           /\ Answered(r, resp).req = r.req
<1> DEFINE a == Answered(r, resp)
<1>1. a.pc = "answer" /\ a.work = <<>> /\ a.rows = r.rows /\ a.to = r.to /\ a.req = r.req
  BY DEF ThreadRecord, Answered
<1>2. a \in ThreadRecord
  <2>1. <<>> \in Seq(FrameRecord)
    OBVIOUS
  <2> QED BY <2>1 DEF ThreadRecord, Pcs, Answered
<1> HIDE DEF a
<1>3. PcOK(a)
  BY <1>1 DEF PcOK
<1>4. WorkOK(a, known, open, inodes)
  <2>1. Len(<<>>) = 0
    OBVIOUS
  <2> QED BY <1>1, <2>1 DEF WorkOK
<1> QED
  BY <1>1, <1>2, <1>3, <1>4 DEF a

LEMMA AnswerKeeps ==
    ASSUME IInv, NEW t \in Threads, ~ At(t, "idle"), NEW resp \in Responses, Answer(t, resp),
           UNCHANGED << cat, fsVars, writers, disturbed >>
    PROVE  IInv'
<1>1. PICK r : r = thread[t]
  OBVIOUS
<1>2. PICK r2 : r2 = Answered(r, resp)
  OBVIOUS
<1>3. thread' = [thread EXCEPT ![t] = r2]
  BY <1>1, <1>2 DEF Answer, Become, Answered
<1>4. disturbed' \subseteq Threads
  BY DEF IInv, TypeOK
<1>5. r \in ThreadRecord /\ PcOK(r) /\ WorkOK(r, Known, OpenAt(t), Inodes) /\ r.pc # "idle"
  BY <1>1, ThreadFacts DEF At
<1>6. r2 \in ThreadRecord /\ PcOK(r2) /\ WorkOK(r2, Known, OpenAt(t), Inodes)
      /\ r2.req = r.req
  BY <1>2, <1>5, Answering
<1> QED
  BY <1>1, <1>3, <1>4, <1>6, PlainStepKeeps

(* A thread that has copied and made nothing so far, and goes on to look   *)
(* up or to connect.                                                       *)
LEMMA EarlyKeeps ==
    ASSUME IInv, NEW t \in Threads, NEW r, thread' = [thread EXCEPT ![t] = r],
           r \in ThreadRecord, PcOK(r), r.work = <<>>, r.rows = <<>>,
           r.pc \in {"source", "target", "parent", "connect", "check", "primary", "done"},
           Is(t, "delete") => r.req = thread[t].req,
           UNCHANGED << cat, fsVars, writers >>, disturbed' \subseteq Threads
    PROVE  IInv'
<1>1. WorkOK(r, Known, OpenAt(t), Inodes)
  <2>1. Len(<<>>) = 0
    OBVIOUS
  <2> QED BY <2>1 DEF WorkOK
<1> QED
  BY <1>1, PlainStepKeeps

LEMMA AcceptKeeps ==
    ASSUME IInv, NEW t \in Threads, Accept(t)
    PROVE  IInv'
<1>1. thread[t] = IdleThread
  BY ThreadFacts DEF Accept, At, PcOK
<1>2. PICK q \in Requests : thread' = [thread EXCEPT ![t] =
         [IdleThread EXCEPT !.req = q,
             !.pc = IF q.op \in {"copy", "delete"} THEN "source" ELSE "target"]]
  BY <1>1 DEF Accept, Become
<1>3. PICK r : r = [IdleThread EXCEPT !.req = q,
             !.pc = IF q.op \in {"copy", "delete"} THEN "source" ELSE "target"]
  OBVIOUS
<1>4. q.op \in Ops
  BY RequestFacts
<1>5. /\ r.work = <<>> /\ r.rows = <<>> /\ r.req = q
      /\ r.pc = IF q.op \in {"copy", "delete"} THEN "source" ELSE "target"
  BY <1>3 DEF IdleThread
<1>6. r \in ThreadRecord
  <2>1. IdleThread \in ThreadRecord
    BY ThreadFacts, <1>1
  <2> QED BY <1>3, <2>1 DEF ThreadRecord, Pcs
<1>7. PcOK(r)
  BY <1>4, <1>5 DEF PcOK, Ops
<1>8. disturbed' \subseteq Threads
  BY DEF Accept, Rivals, IInv, TypeOK
<1>9. ~ Is(t, "delete")
  BY <1>1 DEF Is, IdleThread, NoRequest
<1>10. UNCHANGED << cat, fsVars, writers >>
  BY DEF Accept
<1> QED
  BY <1>2, <1>3, <1>5, <1>6, <1>7, <1>8, <1>9, <1>10, EarlyKeeps

LEMMA LookupSourceKeeps ==
    ASSUME IInv, NEW t \in Threads, LookupSource(t)
    PROVE  IInv'
<1>1. PICK r : r = thread[t]
  OBVIOUS
<1>2. r \in ThreadRecord /\ PcOK(r) /\ r.pc = "source"
  BY <1>1, ThreadFacts DEF LookupSource, At
<1>3. r.req \in Requests /\ r.work = <<>> /\ r.rows = <<>> /\ r.req.op \in {"copy", "delete"}
  BY <1>2 DEF PcOK
<1>4. cat[r.req.path] \in SS \cup {NoServer}
  BY <1>3, RequestFacts DEF IInv, TypeOK
<1>5. UNCHANGED << cat, fsVars, writers, disturbed >> /\ disturbed' \subseteq Threads
  BY DEF LookupSource, IInv, TypeOK
<1>6. CASE cat[r.req.path] = NoServer
  BY <1>1, <1>2, <1>5, <1>6, AnswerKeeps, ResponsesTyped DEF LookupSource, At
<1>7. CASE cat[r.req.path] # NoServer
  <2>1. PICK r2 : r2 = [r EXCEPT !.from = cat[r.req.path],
                                 !.pc = IF r.req.op = "copy" THEN "target" ELSE "connect"]
    OBVIOUS
  <2>2. thread' = [thread EXCEPT ![t] = r2]
    BY <1>1, <1>7, <2>1 DEF LookupSource, Become
  <2>3. r2 \in ThreadRecord
    BY <1>2, <1>4, <2>1 DEF ThreadRecord, Pcs
  <2>4. /\ r2.work = <<>> /\ r2.rows = <<>> /\ r2.req = r.req /\ r2.from \in SS
        /\ r2.pc = IF r.req.op = "copy" THEN "target" ELSE "connect"
    BY <1>2, <1>3, <1>4, <1>7, <2>1 DEF ThreadRecord
  <2>5. PcOK(r2)
    BY <1>3, <2>4 DEF PcOK
  <2> QED
    BY <1>1, <1>5, <2>2, <2>3, <2>4, <2>5, EarlyKeeps
<1> QED
  BY <1>6, <1>7

LEMMA LookupTargetKeeps ==
    ASSUME IInv, NEW t \in Threads, LookupTarget(t)
    PROVE  IInv'
<1>1. PICK r : r = thread[t]
  OBVIOUS
<1>2. r \in ThreadRecord /\ PcOK(r) /\ r.pc = "target"
  BY <1>1, ThreadFacts DEF LookupTarget, At
<1>3. UNCHANGED << cat, fsVars, writers, disturbed >> /\ disturbed' \subseteq Threads
  BY DEF LookupTarget, IInv, TypeOK
<1>4. CASE cat[Target(r.req)] # NoServer
  BY <1>1, <1>2, <1>3, <1>4, AnswerKeeps, ResponsesTyped DEF LookupTarget, At
<1>5. CASE ~ (cat[Target(r.req)] # NoServer)
  <2>1. PICK r2 : r2 = [r EXCEPT !.pc = "parent"]
    OBVIOUS
  <2>2. thread' = [thread EXCEPT ![t] = r2]
    BY <1>1, <1>5, <2>1 DEF LookupTarget, Go, Become
  <2>3. r2 \in ThreadRecord
    BY <1>2, <2>1 DEF ThreadRecord, Pcs
  <2>4. /\ r2.work = r.work /\ r2.rows = r.rows /\ r2.req = r.req /\ r2.from = r.from
        /\ r2.pc = "parent"
    BY <1>2, <2>1 DEF ThreadRecord
  <2>5. PcOK(r2) /\ r2.work = <<>> /\ r2.rows = <<>>
    BY <1>2, <2>4 DEF PcOK
  <2> QED
    BY <1>1, <1>3, <2>2, <2>3, <2>4, <2>5, EarlyKeeps
<1> QED
  BY <1>4, <1>5

(* The server of the parent, or any server for what has no parent. *)
LEMMA ServerChosen ==
    ASSUME IInv, NEW t \in Threads, At(t, "parent"), NEW s \in SS,
           Become(t, [thread[t] EXCEPT !.pc = "connect", !.to = s]),
           UNCHANGED << cat, fsVars, writers, disturbed >>
    PROVE  IInv'
<1>1. PICK r : r = thread[t]
  OBVIOUS
<1>2. r \in ThreadRecord /\ PcOK(r) /\ r.pc = "parent"
  BY <1>1, ThreadFacts DEF At
<1>3. PICK r2 : r2 = [r EXCEPT !.pc = "connect", !.to = s]
  OBVIOUS
<1>4. thread' = [thread EXCEPT ![t] = r2]
  BY <1>1, <1>3 DEF Become
<1>5. r2 \in ThreadRecord
  BY <1>2, <1>3 DEF ThreadRecord, Pcs
<1>6. /\ r2.work = r.work /\ r2.rows = r.rows /\ r2.req = r.req /\ r2.from = r.from
      /\ r2.pc = "connect" /\ r2.to = s
  BY <1>2, <1>3 DEF ThreadRecord
<1>7. PcOK(r2) /\ r2.work = <<>> /\ r2.rows = <<>>
  BY <1>2, <1>6 DEF PcOK
<1>8. disturbed' \subseteq Threads
  BY DEF IInv, TypeOK
<1> QED
  BY <1>1, <1>4, <1>5, <1>6, <1>7, <1>8, EarlyKeeps

LEMMA LookupParentKeeps ==
    ASSUME IInv, NEW t \in Threads, LookupParent(t)
    PROVE  IInv'
<1>1. PICK r : r = thread[t]
  OBVIOUS
<1>2. r \in ThreadRecord /\ PcOK(r) /\ r.pc = "parent"
  BY <1>1, ThreadFacts DEF LookupParent, At
<1>3. Front(Target(r.req)) \in Path
  <2>1. Target(r.req) \in Path
    BY <1>2, RequestFacts DEF PcOK
  <2>2. Len(Target(r.req)) > 1
    BY <1>1 DEF LookupParent
  <2> QED BY <2>1, <2>2, PathFacts
<1>4. cat[Front(Target(r.req))] \in SS \cup {NoServer}
  BY <1>3 DEF IInv, TypeOK
<1>5. At(t, "parent") /\ UNCHANGED << cat, fsVars, writers, disturbed >>
  BY DEF LookupParent
<1>6. CASE cat[Front(Target(r.req))] = NoServer
  BY <1>1, <1>2, <1>5, <1>6, AnswerKeeps, ResponsesTyped DEF LookupParent, At
<1>7. CASE cat[Front(Target(r.req))] # NoServer
  <2>1. PICK s \in SS : s = cat[Front(Target(r.req))]
    BY <1>4, <1>7
  <2>2. Become(t, [thread[t] EXCEPT !.pc = "connect", !.to = s])
    BY <1>1, <1>7, <2>1 DEF LookupParent
  <2> QED BY <1>5, <2>2, ServerChosen
<1> QED
  BY <1>6, <1>7

LEMMA PickServerKeeps ==
    ASSUME IInv, NEW t \in Threads, PickServer(t)
    PROVE  IInv'
<1>1. PICK s \in SS : Become(t, [thread[t] EXCEPT !.pc = "connect", !.to = s])
  BY DEF PickServer
<1>2. At(t, "parent") /\ UNCHANGED << cat, fsVars, writers, disturbed >>
  BY DEF PickServer
<1> QED
  BY <1>1, <1>2, ServerChosen

LEMMA ConnectKeeps ==
    ASSUME IInv, NEW t \in Threads, Connect(t)
    PROVE  IInv'
<1>1. PICK r : r = thread[t]
  OBVIOUS
<1>2. r \in ThreadRecord /\ PcOK(r) /\ r.pc = "connect"
  BY <1>1, ThreadFacts DEF Connect, At
<1>3. PICK r2 : r2 = [r EXCEPT !.pc = IF r.req.op = "copy" THEN "check" ELSE "primary"]
  OBVIOUS
<1>4. thread' = [thread EXCEPT ![t] = r2]
  BY <1>1, <1>3 DEF Connect, Go, Become
<1>5. r2 \in ThreadRecord
  BY <1>2, <1>3 DEF ThreadRecord, Pcs
<1>6. /\ r2.work = r.work /\ r2.rows = r.rows /\ r2.req = r.req /\ r2.from = r.from
      /\ r2.to = r.to /\ r2.pc = IF r.req.op = "copy" THEN "check" ELSE "primary"
  BY <1>2, <1>3 DEF ThreadRecord
<1>7. PcOK(r2) /\ r2.work = <<>> /\ r2.rows = <<>>
  BY <1>2, <1>6 DEF PcOK
<1>8. disturbed' \subseteq Threads /\ UNCHANGED << cat, fsVars, writers, disturbed >>
  BY DEF Connect, IInv, TypeOK
<1> QED
  BY <1>1, <1>4, <1>5, <1>6, <1>7, <1>8, EarlyKeeps

LEMMA ConnectFailsKeeps ==
    ASSUME IInv, NEW t \in Threads, ConnectFails(t)
    PROVE  IInv'
<1>1. ~ At(t, "idle")
  BY DEF ConnectFails, At
<1> QED
  BY <1>1, AnswerKeeps, ResponsesTyped DEF ConnectFails

LEMMA SendAnswerKeeps ==
    ASSUME IInv, NEW t \in Threads, SendAnswer(t)
    PROVE  IInv'
<1>1. PICK r : r = thread[t]
  OBVIOUS
<1>2. r \in ThreadRecord /\ PcOK(r) /\ r.pc = "answer" /\ WorkOK(r, Known, OpenAt(t), Inodes)
  BY <1>1, ThreadFacts DEF SendAnswer, At
<1>3. PICK r2 : r2 = [r EXCEPT !.pc = "done"]
  OBVIOUS
<1>4. thread' = [thread EXCEPT ![t] = r2]
  BY <1>1, <1>3 DEF SendAnswer, Go, Become
<1>5. r2 \in ThreadRecord
  BY <1>2, <1>3 DEF ThreadRecord, Pcs
<1>6. /\ r2.work = r.work /\ r2.rows = r.rows /\ r2.req = r.req /\ r2.to = r.to
      /\ r2.pc = "done"
  BY <1>2, <1>3 DEF ThreadRecord
<1>7. PcOK(r2)
  BY <1>2, <1>6 DEF PcOK
<1>8. WorkOK(r2, Known, OpenAt(t), Inodes)
  BY <1>2, <1>6 DEF WorkOK
<1>9. disturbed' \subseteq Threads /\ UNCHANGED << cat, fsVars, writers, disturbed >>
  BY DEF SendAnswer, IInv, TypeOK
<1> QED
  BY <1>1, <1>4, <1>5, <1>6, <1>7, <1>8, <1>9, PlainStepKeeps
-----------------------------------------------------------------------------
(* The stack of entries at work. *)
LEMMA FrameTyped ==
    ASSUME NEW c \in Seq(STRING), NEW p \in Seq(STRING)
    PROVE  Frame(c, p) \in FrameRecord
BY DEF Frame, FrameRecord, Acts, None

WithTop(r, f) == [r EXCEPT !.work = [@ EXCEPT ![1] = f]]
WithRow(r, p) == [r EXCEPT !.rows = Append(@, p)]
Pushed(r, g, f) == [r EXCEPT !.work = << g >> \o [@ EXCEPT ![1] = f]]

LEMMA TopFacts ==
    ASSUME IInv, NEW t \in Threads, At(t, "copy"), NEW r, r = thread[t]
    PROVE  /\ r \in ThreadRecord /\ PcOK(r) /\ WorkOK(r, Known, OpenAt(t), Inodes)
           /\ r.pc = "copy" /\ r.work # <<>> /\ Top(t) = r.work[1] /\ Top(t) \in FrameRecord
           /\ FrameOK(Top(t), r.to, Known, OpenAt(t), Inodes)
           /\ r.from \in SS /\ r.to \in SS /\ r.req \in Requests /\ r.req.op = "copy"
<1>1. /\ r \in ThreadRecord /\ PcOK(r) /\ WorkOK(r, Known, OpenAt(t), Inodes)
      /\ r.pc = "copy"
  BY ThreadFacts DEF At
<1>2. r.work # <<>> /\ r.work \in Seq(FrameRecord)
  BY <1>1 DEF WorkOK, ThreadRecord
<1>3. 1 \in 1 .. Len(r.work)
  BY <1>2
<1>4. Top(t) = r.work[1] /\ Top(t) \in FrameRecord
  BY <1>2, <1>3 DEF Top
<1>5. FrameOK(Top(t), r.to, Known, OpenAt(t), Inodes)
  BY <1>1, <1>3, <1>4 DEF WorkOK
<1>6. r.from \in SS /\ r.to \in SS /\ r.req \in Requests /\ r.req.op = "copy"
  BY <1>1 DEF PcOK
<1> QED
  BY <1>1, <1>2, <1>4, <1>5, <1>6

(* The entry at work changes. *)
LEMMA WithTopOK ==
    ASSUME NEW r \in ThreadRecord, PcOK(r), r.pc = "copy",
           NEW known, NEW open, NEW inodes, WorkOK(r, known, open, inodes),
           NEW f \in FrameRecord, FrameOK(f, r.to, known, open, inodes)
    PROVE  /\ WithTop(r, f) \in ThreadRecord /\ PcOK(WithTop(r, f))
           /\ WorkOK(WithTop(r, f), known, open, inodes)
           /\ WithTop(r, f).req = r.req
<1> DEFINE w == [r.work EXCEPT ![1] = f]
           a == WithTop(r, f)
<1>1. r.work \in Seq(FrameRecord) /\ r.work # <<>>
  BY DEF ThreadRecord, WorkOK
<1>2. 1 \in 1 .. Len(r.work) /\ Len(r.work) \in Nat
  BY <1>1
<1>3. /\ w \in Seq(FrameRecord) /\ Len(w) = Len(r.work)
      /\ \A k \in 1 .. Len(r.work) : w[k] = IF k = 1 THEN f ELSE r.work[k]
  BY <1>1, <1>2, ExceptSeq
<1>4. /\ a = [r EXCEPT !.work = w]
      /\ a.pc = r.pc /\ a.work = w /\ a.rows = r.rows /\ a.to = r.to /\ a.req = r.req
      /\ a.from = r.from
  BY DEF ThreadRecord, WithTop
<1> HIDE DEF w
<1>5. a \in ThreadRecord
  BY <1>3, <1>4 DEF ThreadRecord
<1> HIDE DEF a
<1>6. PcOK(a)
  BY <1>4 DEF PcOK
<1>7. WorkOK(a, known, open, inodes)
  <2>1. \A k \in 1 .. Len(w) : /\ FrameOK(w[k], r.to, known, open, inodes)
                               /\ k > 1 => w[k].act = "list"
    BY <1>3 DEF WorkOK
  <2>2. w # <<>>
    BY <1>2, <1>3
  <2>3. \A k \in 1 .. Len(r.rows) : <<r.to, r.rows[k]>> \in known
    BY DEF WorkOK
  <2> QED BY <1>4, <2>1, <2>2, <2>3 DEF WorkOK
<1> QED
  BY <1>4, <1>5, <1>6, <1>7 DEF a

(* An entry of the folder at work is begun. *)
LEMMA PushedOK ==
    ASSUME NEW r \in ThreadRecord, PcOK(r), r.pc = "copy",
           NEW known, NEW open, NEW inodes, WorkOK(r, known, open, inodes),
           NEW f \in FrameRecord, FrameOK(f, r.to, known, open, inodes), f.act = "list",
           NEW g \in FrameRecord, g.act = "stat"
    PROVE  /\ Pushed(r, g, f) \in ThreadRecord /\ PcOK(Pushed(r, g, f))
           /\ WorkOK(Pushed(r, g, f), known, open, inodes)
           /\ Pushed(r, g, f).req = r.req
<1> DEFINE w == [r.work EXCEPT ![1] = f]
           v == << g >> \o w
           a == Pushed(r, g, f)
<1>1. r.work \in Seq(FrameRecord) /\ r.work # <<>>
  BY DEF ThreadRecord, WorkOK
<1>2. 1 \in 1 .. Len(r.work) /\ Len(r.work) \in Nat
  BY <1>1
<1>3. /\ w \in Seq(FrameRecord) /\ Len(w) = Len(r.work)
      /\ \A k \in 1 .. Len(r.work) : w[k] = IF k = 1 THEN f ELSE r.work[k]
  BY <1>1, <1>2, ExceptSeq
<1>4. /\ a = [r EXCEPT !.work = v]
      /\ a.pc = r.pc /\ a.work = v /\ a.rows = r.rows /\ a.to = r.to /\ a.req = r.req
      /\ a.from = r.from
  BY DEF ThreadRecord, Pushed
<1> HIDE DEF w
<1>5. /\ v \in Seq(FrameRecord) /\ Len(v) = Len(w) + 1 /\ v[1] = g
      /\ \A k \in 2 .. Len(v) : v[k] = w[k - 1] /\ k - 1 \in 1 .. Len(w)
  <2>1. << g >> \in Seq(FrameRecord) /\ Len(<< g >>) = 1 /\ << g >>[1] = g
    OBVIOUS
  <2>2. /\ v \in Seq(FrameRecord) /\ Len(v) = 1 + Len(w)
        /\ \A i \in 1 .. 1 + Len(w) : v[i] = IF i <= 1 THEN << g >>[i] ELSE w[i - 1]
    BY <1>3, <2>1, ConcatProperties
  <2>3. Len(w) \in Nat
    BY <1>3
  <2> QED BY <2>1, <2>2, <2>3
<1> HIDE DEF v
<1>6. a \in ThreadRecord
  BY <1>4, <1>5 DEF ThreadRecord
<1> HIDE DEF a
<1>7. PcOK(a)
  BY <1>4 DEF PcOK
<1>8. WorkOK(a, known, open, inodes)
  <2>1. \A k \in 1 .. Len(w) : FrameOK(w[k], r.to, known, open, inodes) /\ w[k].act = "list"
    BY <1>3 DEF WorkOK
  <2>2. FrameOK(g, r.to, known, open, inodes)
    BY DEF FrameOK
  <2>3. \A k \in 1 .. Len(v) : /\ FrameOK(v[k], r.to, known, open, inodes)
                               /\ k > 1 => v[k].act = "list"
    <3> SUFFICES ASSUME NEW k \in 1 .. Len(v)
                 PROVE  /\ FrameOK(v[k], r.to, known, open, inodes)
                        /\ k > 1 => v[k].act = "list"
      OBVIOUS
    <3>1. CASE k = 1
      BY <1>5, <2>2, <3>1
    <3>2. CASE k > 1
      BY <1>5, <2>1, <3>2
    <3> QED BY <3>1, <3>2
  <2>4. v # <<>>
    BY <1>2, <1>3, <1>5
  <2>5. \A k \in 1 .. Len(r.rows) : <<r.to, r.rows[k]>> \in known
    BY DEF WorkOK
  <2> QED BY <1>4, <2>3, <2>4, <2>5 DEF WorkOK
<1> QED
  BY <1>4, <1>6, <1>7, <1>8 DEF a

(* The path of an entry that is there goes into the table. *)
LEMMA WithRowOK ==
    ASSUME NEW r \in ThreadRecord, PcOK(r), r.pc = "copy",
           NEW known, NEW open, NEW inodes, WorkOK(r, known, open, inodes),
           NEW p \in Path, <<r.to, p>> \in known
    PROVE  /\ WithRow(r, p) \in ThreadRecord /\ PcOK(WithRow(r, p))
           /\ WorkOK(WithRow(r, p), known, open, inodes)
           /\ WithRow(r, p).req = r.req /\ WithRow(r, p).pc = "copy"
<1> DEFINE rows == Append(r.rows, p)
           a == WithRow(r, p)
<1>1. r.rows \in Seq(Path)
  BY DEF ThreadRecord
<1>2. /\ rows \in Seq(Path) /\ Len(rows) = Len(r.rows) + 1 /\ Len(r.rows) \in Nat
      /\ \A k \in 1 .. Len(rows) : rows[k] = IF k <= Len(r.rows) THEN r.rows[k] ELSE p
  BY <1>1
<1>3. /\ a = [r EXCEPT !.rows = rows]
      /\ a.pc = r.pc /\ a.work = r.work /\ a.rows = rows /\ a.to = r.to /\ a.req = r.req
      /\ a.from = r.from
  BY DEF ThreadRecord, WithRow
<1> HIDE DEF rows
<1>4. a \in ThreadRecord
  BY <1>2, <1>3 DEF ThreadRecord
<1> HIDE DEF a
<1>5. PcOK(a)
  BY <1>3 DEF PcOK
<1>6. WorkOK(a, known, open, inodes)
  <2>1. \A k \in 1 .. Len(r.rows) : <<r.to, r.rows[k]>> \in known
    BY DEF WorkOK
  <2>2. \A k \in 1 .. Len(rows) : <<r.to, rows[k]>> \in known
    <3> SUFFICES ASSUME NEW k \in 1 .. Len(rows) PROVE <<r.to, rows[k]>> \in known
      OBVIOUS
    <3>1. CASE k <= Len(r.rows)
      BY <1>2, <2>1, <3>1
    <3>2. CASE ~ (k <= Len(r.rows))
      BY <1>2, <3>2
    <3> QED BY <3>1, <3>2
  <2> QED BY <1>3, <2>2 DEF WorkOK
<1> QED
  BY <1>3, <1>4, <1>5, <1>6 DEF a

(* copy_ returns: what waits below are folders, which need no WRITE        *)
(* handler.                                                                *)
LEMMA ReturnedOK ==
    ASSUME NEW r \in ThreadRecord, PcOK(r), r.pc = "copy",
           NEW known, NEW open, NEW inodes, WorkOK(r, known, open, inodes), NEW open2
    PROVE  /\ Returned(r) \in ThreadRecord /\ PcOK(Returned(r))
           /\ WorkOK(Returned(r), known, open2, inodes)
           /\ Returned(r).req = r.req
<1> DEFINE a == Returned(r)
<1>1. r.work \in Seq(FrameRecord) /\ r.work # <<>> /\ Len(r.work) \in Nat
  BY DEF ThreadRecord, WorkOK
<1>2. \A k \in 1 .. Len(r.rows) : <<r.to, r.rows[k]>> \in known
  BY DEF WorkOK
<1>3. CASE Len(r.work) > 1
  <2> DEFINE w == Tail(r.work)
  <2>1. /\ w \in Seq(FrameRecord) /\ Len(w) = Len(r.work) - 1
        /\ \A k \in 1 .. Len(w) : w[k] = r.work[k + 1] /\ k + 1 \in 2 .. Len(r.work)
    BY <1>1
  <2>2. /\ a = [r EXCEPT !.work = w]
        /\ a.pc = r.pc /\ a.work = w /\ a.rows = r.rows /\ a.to = r.to /\ a.req = r.req
        /\ a.from = r.from
    BY <1>3 DEF ThreadRecord, Returned
  <2> HIDE DEF w
  <2>3. a \in ThreadRecord
    BY <2>1, <2>2 DEF ThreadRecord
  <2> HIDE DEF a
  <2>4. PcOK(a)
    BY <2>2 DEF PcOK
  <2>5. \A k \in 2 .. Len(r.work) :
           FrameOK(r.work[k], r.to, known, open2, inodes) /\ r.work[k].act = "list"
    BY <1>1 DEF WorkOK, FrameOK
  <2>6. w # <<>>
    BY <1>1, <1>3, <2>1
  <2>7. WorkOK(a, known, open2, inodes)
    BY <1>2, <2>1, <2>2, <2>5, <2>6, SMTT(40) DEF WorkOK
  <2> QED BY <2>2, <2>3, <2>4, <2>7 DEF a
<1>4. CASE ~ (Len(r.work) > 1)
  <2>1. /\ a = [r EXCEPT !.pc = "table", !.work = <<>>, !.copied = TRUE]
        /\ a.pc = "table" /\ a.work = <<>> /\ a.rows = r.rows /\ a.to = r.to
        /\ a.req = r.req /\ a.from = r.from
    BY <1>4 DEF ThreadRecord, Returned
  <2>2. a \in ThreadRecord
    <3>1. <<>> \in Seq(FrameRecord)
      OBVIOUS
    <3> QED BY <2>1, <3>1 DEF ThreadRecord, Pcs
  <2> HIDE DEF a
  <2>3. PcOK(a)
    BY <2>1 DEF PcOK
  <2>4. WorkOK(a, known, open2, inodes)
    <3>1. Len(<<>>) = 0
      OBVIOUS
    <3> QED BY <1>2, <2>1, <3>1 DEF WorkOK
  <2> QED BY <2>1, <2>2, <2>3, <2>4 DEF a
<1> QED
  BY <1>3, <1>4
-----------------------------------------------------------------------------
(* copy_ and its handler: the steps that touch only their thread. *)
LEMMA NowKeeps ==
    ASSUME IInv, NEW t \in Threads, At(t, "copy"), NEW f \in FrameRecord,
           FrameOK(f, thread[t].to, Known, OpenAt(t), Inodes), Now(t, f),
           UNCHANGED << cat, fsVars, writers, disturbed >>
    PROVE  IInv'
<1>1. PICK r : r = thread[t]
  OBVIOUS
<1>2. PICK r2 : r2 = WithTop(r, f)
  OBVIOUS
<1>3. thread' = [thread EXCEPT ![t] = r2]
  BY <1>1, <1>2 DEF Now, Become, WithTop
<1>4. r \in ThreadRecord /\ PcOK(r) /\ r.pc = "copy" /\ WorkOK(r, Known, OpenAt(t), Inodes)
  BY <1>1, ThreadFacts DEF At
<1>5. r2 \in ThreadRecord /\ PcOK(r2) /\ WorkOK(r2, Known, OpenAt(t), Inodes)
      /\ r2.req = r.req
  BY <1>1, <1>2, <1>4, WithTopOK
<1>6. disturbed' \subseteq Threads
  BY DEF IInv, TypeOK
<1> QED
  BY <1>1, <1>3, <1>5, <1>6, PlainStepKeeps

LEMMA CopyFailsKeeps ==
    ASSUME IInv, NEW t \in Threads, At(t, "copy"), CopyFails(t),
           UNCHANGED << cat, fsVars, writers, disturbed >>
    PROVE  IInv'
<1>1. ~ At(t, "idle")
  BY DEF At
<1> QED
  BY <1>1, AnswerKeeps, ResponsesTyped DEF CopyFails

LEMMA CheckSourceKeeps ==
    ASSUME IInv, NEW t \in Threads, CheckSource(t)
    PROVE  IInv'
<1>1. PICK r : r = thread[t]
  OBVIOUS
<1>2. r \in ThreadRecord /\ PcOK(r) /\ r.pc = "check" /\ ~ At(t, "idle")
  BY <1>1, ThreadFacts DEF CheckSource, At
<1>3. UNCHANGED << cat, fsVars, writers, disturbed >> /\ disturbed' \subseteq Threads
  BY DEF CheckSource, IInv, TypeOK
<1>4. CASE ~ Exists(r.from, r.req.path)
  BY <1>1, <1>2, <1>3, <1>4, AnswerKeeps, ResponsesTyped DEF CheckSource
<1>5. CASE Exists(r.from, r.req.path)
  <2>1. PICK g : g = Frame(r.req.path, r.req.dest)
    OBVIOUS
  <2>2. PICK r2 : r2 = [r EXCEPT !.pc = "copy", !.work = << g >>]
    OBVIOUS
  <2>3. thread' = [thread EXCEPT ![t] = r2]
    BY <1>1, <1>5, <2>1, <2>2 DEF CheckSource, Become
  <2>4. r.req \in Requests /\ r.req.op = "copy" /\ r.from \in SS /\ r.to \in SS
    BY <1>2 DEF PcOK
  <2>5. r.req.path \in Seq(STRING) /\ r.req.dest \in Seq(STRING)
    BY <2>4, RequestFacts, PathFacts
  <2>6. g \in FrameRecord /\ g.act = "stat"
    BY <2>1, <2>5, FrameTyped DEF Frame
  <2>7. << g >> \in Seq(FrameRecord) /\ Len(<< g >>) = 1 /\ << g >>[1] = g /\ << g >> # <<>>
    BY <2>6
  <2>8. /\ r2.pc = "copy" /\ r2.work = << g >> /\ r2.rows = <<>> /\ r2.req = r.req
        /\ r2.from = r.from /\ r2.to = r.to
    BY <1>2, <2>2 DEF ThreadRecord, PcOK
  <2>9. r2 \in ThreadRecord
    BY <1>2, <2>2, <2>7 DEF ThreadRecord, Pcs
  <2>10. PcOK(r2)
    BY <2>4, <2>8 DEF PcOK
  <2>11. WorkOK(r2, Known, OpenAt(t), Inodes)
    <3>1. FrameOK(g, r.to, Known, OpenAt(t), Inodes)
      BY <2>6 DEF FrameOK
    <3>2. \A k \in 1 .. Len(r2.work) : r2.work[k] = g /\ ~ (k > 1)
      BY <2>7, <2>8
    <3>3. Len(r2.rows) = 0
      BY <2>8
    <3> QED BY <2>7, <2>8, <3>1, <3>2, <3>3 DEF WorkOK
  <2> QED
    BY <1>1, <1>3, <2>3, <2>8, <2>9, <2>10, <2>11, PlainStepKeeps
<1> QED
  BY <1>4, <1>5

LEMMA StatEntryKeeps ==
    ASSUME IInv, NEW t \in Threads, StatEntry(t)
    PROVE  IInv'
<1>1. At(t, "copy") /\ UNCHANGED << cat, fsVars, writers, disturbed >>
  BY DEF StatEntry, Doing
<1>2. PICK r : r = thread[t]
  OBVIOUS
<1>3. PICK f : f = Top(t)
  OBVIOUS
<1>4. /\ r \in ThreadRecord /\ PcOK(r) /\ WorkOK(r, Known, OpenAt(t), Inodes)
      /\ r.pc = "copy" /\ f \in FrameRecord
  BY <1>1, <1>2, <1>3, TopFacts
<1>5. CASE f.src = r.req.dest
  <2>1. PICK r2 : r2 = Returned(r)
    OBVIOUS
  <2>2. thread' = [thread EXCEPT ![t] = r2]
    BY <1>2, <1>3, <1>5, <2>1 DEF StatEntry, Become
  <2>3. r2 \in ThreadRecord /\ PcOK(r2) /\ WorkOK(r2, Known, OpenAt(t), Inodes)
        /\ r2.req = r.req
    BY <1>4, <2>1, ReturnedOK
  <2>4. disturbed' \subseteq Threads
    BY <1>1 DEF IInv, TypeOK
  <2> QED BY <1>1, <1>2, <2>2, <2>3, <2>4, PlainStepKeeps
<1>6. CASE f.src # r.req.dest /\ ~ Exists(r.from, f.src)
  BY <1>1, <1>2, <1>3, <1>6, CopyFailsKeeps DEF StatEntry
<1>7. CASE f.src # r.req.dest /\ Exists(r.from, f.src)
  <2>1. PICK g : g = [f EXCEPT !.act = "create", !.folder = tree[r.from][f.src] = Folder]
    OBVIOUS
  <2>2. Now(t, g)
    BY <1>2, <1>3, <1>7, <2>1 DEF StatEntry
  <2>3. g \in FrameRecord /\ g.act = "create"
    <3>1. (tree[r.from][f.src] = Folder) \in BOOLEAN
      OBVIOUS
    <3> QED BY <1>4, <2>1, <3>1 DEF FrameRecord, Acts
  <2>4. FrameOK(g, thread[t].to, Known, OpenAt(t), Inodes)
    BY <2>3 DEF FrameOK
  <2> QED BY <1>1, <2>2, <2>3, <2>4, NowKeeps
<1> QED
  BY <1>5, <1>6, <1>7

LEMMA NoConnectionKeeps ==
    ASSUME IInv, NEW t \in Threads, NoConnection(t)
    PROVE  IInv'
BY CopyFailsKeeps DEF NoConnection, Doing

LEMMA OpenFolderKeeps ==
    ASSUME IInv, NEW t \in Threads, OpenFolder(t)
    PROVE  IInv'
<1>1. At(t, "copy") /\ UNCHANGED << cat, fsVars, writers, disturbed >>
  BY DEF OpenFolder, Doing
<1>2. PICK r : r = thread[t]
  OBVIOUS
<1>3. PICK f : f = Top(t)
  OBVIOUS
<1>4. /\ f \in FrameRecord /\ f.act = "opendir"
      /\ FrameOK(f, r.to, Known, OpenAt(t), Inodes)
  BY <1>1, <1>2, <1>3, TopFacts DEF OpenFolder, Doing
<1>5. CASE tree[r.from][f.src] # Folder
  BY <1>1, <1>2, <1>3, <1>5, CopyFailsKeeps DEF OpenFolder
<1>6. CASE tree[r.from][f.src] = Folder
  <2>1. PICK g : g = [f EXCEPT !.act = "list", !.listed = Children(r.from, f.src)]
    OBVIOUS
  <2>2. Now(t, g)
    BY <1>2, <1>3, <1>6, <2>1 DEF OpenFolder
  <2>3. Children(r.from, f.src) \subseteq Path
    BY DEF Children
  <2>4. g \in FrameRecord /\ g.act = "list" /\ g.dst = f.dst
    BY <1>4, <2>1, <2>3 DEF FrameRecord, Acts
  <2>5. FrameOK(g, thread[t].to, Known, OpenAt(t), Inodes)
    BY <1>2, <1>4, <2>4 DEF FrameOK
  <2> QED BY <1>1, <2>2, <2>4, <2>5, NowKeeps
<1> QED
  BY <1>5, <1>6

LEMMA ReadEntryKeeps ==
    ASSUME IInv, NEW t \in Threads, ReadEntry(t)
    PROVE  IInv'
<1>1. At(t, "copy") /\ UNCHANGED << cat, fsVars, writers, disturbed >>
  BY DEF ReadEntry, Doing
<1>2. PICK r : r = thread[t]
  OBVIOUS
<1>3. PICK f : f = Top(t)
  OBVIOUS
<1>4. /\ r \in ThreadRecord /\ PcOK(r) /\ WorkOK(r, Known, OpenAt(t), Inodes)
      /\ r.pc = "copy" /\ f \in FrameRecord /\ f.act = "list"
      /\ FrameOK(f, r.to, Known, OpenAt(t), Inodes)
  BY <1>1, <1>2, <1>3, TopFacts DEF ReadEntry, Doing
<1>5. PICK c \in (f.listed \cup Children(r.from, f.src)) \ f.seen :
        thread' = [thread EXCEPT ![t] = [r EXCEPT !.work =
            << Frame(c, Append(f.dst, Last(c))) >>
               \o [@ EXCEPT ![1] = [f EXCEPT !.seen = @ \cup {c}]]]]
  BY <1>2, <1>3 DEF ReadEntry, Become
<1>6. c \in Path
  BY <1>4 DEF FrameRecord, Children
<1>7. PICK g : g = Frame(c, Append(f.dst, Last(c)))
  OBVIOUS
<1>8. PICK f2 : f2 = [f EXCEPT !.seen = @ \cup {c}]
  OBVIOUS
<1>9. g \in FrameRecord /\ g.act = "stat"
  <2>1. c \in Seq(STRING) /\ Last(c) \in STRING
    BY <1>6, PathFacts
  <2>2. Append(f.dst, Last(c)) \in Seq(STRING)
    BY <1>4, <2>1 DEF FrameRecord
  <2> QED BY <1>7, <2>1, <2>2, FrameTyped DEF Frame
<1>10. f2 \in FrameRecord /\ f2.act = "list" /\ f2.dst = f.dst
  BY <1>4, <1>6, <1>8 DEF FrameRecord
<1>11. FrameOK(f2, r.to, Known, OpenAt(t), Inodes)
  BY <1>4, <1>10 DEF FrameOK
<1>12. PICK r2 : r2 = Pushed(r, g, f2)
  OBVIOUS
<1>13. thread' = [thread EXCEPT ![t] = r2]
  BY <1>5, <1>7, <1>8, <1>12 DEF Pushed
<1>14. r2 \in ThreadRecord /\ PcOK(r2) /\ WorkOK(r2, Known, OpenAt(t), Inodes)
       /\ r2.req = r.req
  BY <1>4, <1>9, <1>10, <1>11, <1>12, PushedOK
<1>15. disturbed' \subseteq Threads
  BY <1>1 DEF IInv, TypeOK
<1> QED
  BY <1>1, <1>2, <1>13, <1>14, <1>15, PlainStepKeeps

(* What copy_ leaves when it has finished with an entry that it has made. *)
LEMMA FinishedOK ==
    ASSUME IInv, NEW t \in Threads, At(t, "copy"), Top(t).act \notin {"stat", "create"},
           NEW open2
    PROVE  /\ Finished(t) \in ThreadRecord /\ PcOK(Finished(t))
           /\ WorkOK(Finished(t), Known, open2, Inodes)
           /\ Finished(t).req = thread[t].req
<1>1. PICK r : r = thread[t]
  OBVIOUS
<1>2. PICK f : f = Top(t)
  OBVIOUS
<1>3. /\ r \in ThreadRecord /\ PcOK(r) /\ WorkOK(r, Known, OpenAt(t), Inodes)
      /\ r.pc = "copy" /\ f \in FrameRecord /\ FrameOK(f, r.to, Known, OpenAt(t), Inodes)
  BY <1>1, <1>2, TopFacts
<1>4. <<r.to, f.dst>> \in Known
  BY <1>2, <1>3 DEF FrameOK
<1>5. f.dst \in Path
  BY <1>4 DEF Known
<1>6. PICK r1 : r1 = WithRow(r, f.dst)
  OBVIOUS
<1>7. /\ r1 \in ThreadRecord /\ PcOK(r1) /\ WorkOK(r1, Known, OpenAt(t), Inodes)
      /\ r1.req = r.req /\ r1.pc = "copy"
  BY <1>3, <1>4, <1>5, <1>6, WithRowOK
<1>8. Finished(t) = Returned(r1)
  BY <1>1, <1>2, <1>6 DEF Finished, WithRow
<1>9. /\ Returned(r1) \in ThreadRecord /\ PcOK(Returned(r1))
      /\ WorkOK(Returned(r1), Known, open2, Inodes) /\ Returned(r1).req = r1.req
  BY <1>7, ReturnedOK
<1> QED
  BY <1>1, <1>7, <1>8, <1>9

LEMMA FolderCopiedKeeps ==
    ASSUME IInv, NEW t \in Threads, FolderCopied(t)
    PROVE  IInv'
<1>1. At(t, "copy") /\ UNCHANGED << cat, fsVars, writers, disturbed >>
      /\ Top(t).act = "list" /\ disturbed' \subseteq Threads
  BY DEF FolderCopied, Doing, IInv, TypeOK
<1>2. PICK r2 : r2 = Finished(t)
  OBVIOUS
<1>3. thread' = [thread EXCEPT ![t] = r2]
  BY <1>2 DEF FolderCopied, Become
<1>4. r2 \in ThreadRecord /\ PcOK(r2) /\ WorkOK(r2, Known, OpenAt(t), Inodes)
      /\ r2.req = thread[t].req
  BY <1>1, <1>2, FinishedOK
<1> QED
  BY <1>1, <1>3, <1>4, PlainStepKeeps

LEMMA ReceiveTableKeeps ==
    ASSUME IInv, NEW t \in Threads, ReceiveTable(t)
    PROVE  IInv'
<1>1. At(t, "table") /\ UNCHANGED << cat, fsVars, writers, disturbed >>
      /\ ~ At(t, "idle") /\ disturbed' \subseteq Threads
  BY DEF ReceiveTable, At, IInv, TypeOK
<1>2. Answer(t, InternalError) \/ \E pc \in {"rows", "waits"} : Go(t, pc)
  BY DEF ReceiveTable, TableOutcomes
<1>3. CASE Answer(t, InternalError)
  BY <1>1, <1>3, AnswerKeeps, ResponsesTyped
<1>4. ASSUME NEW pc \in {"rows", "waits"}, Go(t, pc)
      PROVE  IInv'
  <2>1. PICK r : r = thread[t]
    OBVIOUS
  <2>2. r \in ThreadRecord /\ PcOK(r) /\ WorkOK(r, Known, OpenAt(t), Inodes) /\ r.pc = "table"
    BY <1>1, <2>1, ThreadFacts DEF At
  <2>3. PICK r2 : r2 = [r EXCEPT !.pc = pc]
    OBVIOUS
  <2>4. thread' = [thread EXCEPT ![t] = r2]
    BY <1>4, <2>1, <2>3 DEF Go, Become
  <2>5. r2 \in ThreadRecord
    BY <2>2, <2>3 DEF ThreadRecord, Pcs
  <2>6. /\ r2.work = r.work /\ r2.rows = r.rows /\ r2.req = r.req /\ r2.to = r.to
        /\ r2.from = r.from /\ r2.pc = pc
    BY <2>2, <2>3 DEF ThreadRecord
  <2>7. PcOK(r2)
    BY <2>2, <2>6 DEF PcOK
  <2>8. WorkOK(r2, Known, OpenAt(t), Inodes)
    BY <2>2, <2>6 DEF WorkOK
  <2> QED
    BY <1>1, <2>1, <2>4, <2>5, <2>6, <2>7, <2>8, PlainStepKeeps
<1> QED
  BY <1>2, <1>3, <1>4

LEMMA RowsAddedKeeps ==
    ASSUME IInv, NEW t \in Threads, RowsAdded(t)
    PROVE  IInv'
<1>1. ~ At(t, "idle")
  BY DEF RowsAdded, At
<1> QED
  BY <1>1, AnswerKeeps, ResponsesTyped DEF RowsAdded
-----------------------------------------------------------------------------
(* Steps that change the catalogue, the backup tree or a master lock. *)

(* A thread that goes on, with what it has. *)
Moved(r, pc) == [r EXCEPT !.pc = pc]

LEMMA GoesOn ==
    ASSUME NEW r \in ThreadRecord, NEW pc \in Pcs,
           NEW known, NEW open, NEW inodes, WorkOK(r, known, open, inodes),
           pc # "copy",
           pc \in {"backup", "add"} /\ r.req.op # "delete" => <<r.to, r.req.path>> \in known
    PROVE  /\ Moved(r, pc) \in ThreadRecord /\ WorkOK(Moved(r, pc), known, open, inodes)
           /\ Moved(r, pc).pc = pc /\ Moved(r, pc).req = r.req /\ Moved(r, pc).from = r.from
           /\ Moved(r, pc).to = r.to /\ Moved(r, pc).work = r.work /\ Moved(r, pc).rows = r.rows
<1> DEFINE a == Moved(r, pc)
<1>1. /\ a.pc = pc /\ a.req = r.req /\ a.from = r.from /\ a.to = r.to
      /\ a.work = r.work /\ a.rows = r.rows /\ a \in ThreadRecord
  BY DEF ThreadRecord, Moved
<1> HIDE DEF a
<1>2. WorkOK(a, known, open, inodes)
  BY <1>1 DEF WorkOK
<1> QED
  BY <1>1, <1>2 DEF a

LEMMA AddRowKeeps ==
    ASSUME IInv, NEW t \in Threads, AddRow(t)
    PROVE  IInv'
<1>1. PICK r : r = thread[t]
  OBVIOUS
<1>2. /\ r \in ThreadRecord /\ PcOK(r) /\ WorkOK(r, Known, OpenAt(t), Inodes)
      /\ r.pc = "rows" /\ r.rows # <<>>
  BY <1>1, ThreadFacts DEF AddRow, At
<1>3. r.rows \in Seq(Path) /\ r.to \in SS
  BY <1>2 DEF ThreadRecord, PcOK
<1>4. PICK rows : rows = Tail(r.rows)
  OBVIOUS
<1>5. /\ rows \in Seq(Path) /\ Head(r.rows) = r.rows[1] /\ 1 \in 1 .. Len(r.rows)
      /\ \A k \in 1 .. Len(rows) : rows[k] = r.rows[k + 1] /\ k + 1 \in 1 .. Len(r.rows)
  BY <1>2, <1>3, <1>4
<1>6. PICK r2 : r2 = [r EXCEPT !.rows = rows]
  OBVIOUS
<1>7. thread' = [thread EXCEPT ![t] = r2]
  BY <1>1, <1>4, <1>6 DEF AddRow, Become
<1>8. /\ r2.pc = r.pc /\ r2.req = r.req /\ r2.from = r.from /\ r2.to = r.to
      /\ r2.work = r.work /\ r2.rows = rows /\ r2 \in ThreadRecord
  BY <1>2, <1>5, <1>6 DEF ThreadRecord
<1>9. PcOK(r2)
  BY <1>2, <1>8 DEF PcOK
<1>10. \A k \in 1 .. Len(r.rows) : <<r.to, r.rows[k]>> \in Known
  BY <1>2 DEF WorkOK
<1>11. WorkOK(r2, Known, OpenAt(t), Inodes)
  <2>1. \A k \in 1 .. Len(rows) : <<r.to, rows[k]>> \in Known
    BY <1>5, <1>10
  <2> QED BY <1>2, <1>8, <2>1 DEF WorkOK
<1>12. PICK p \in Path : p = Head(r.rows) /\ <<r.to, p>> \in Known
  BY <1>3, <1>5, <1>10
<1>13. cat' = [cat EXCEPT ![p] = r.to]
  BY <1>1, <1>12 DEF AddRow
<1>14. /\ cat' \in [Path -> SS \cup {NoServer}]
       /\ \A q \in Path : cat'[q] # NoServer => <<cat'[q], q>> \in Known
  BY <1>3, <1>12, <1>13 DEF IInv, TypeOK, CatalogueOK
<1>15. /\ UNCHANGED << tree, data, writers >> /\ backup' \in [Path -> None .. File]
       /\ jammed' \subseteq SS /\ disturbed' \subseteq Threads
  BY DEF AddRow, IInv, TypeOK, fsVars
<1> QED
  BY <1>1, <1>7, <1>8, <1>9, <1>11, <1>14, <1>15, LightStepKeeps

(* An answer, after a change that is none of the disks'. *)
LEMMA LightAnswerKeeps ==
    ASSUME IInv, NEW t \in Threads, ~ At(t, "idle"), NEW resp \in Responses, Answer(t, resp),
           UNCHANGED << tree, data, writers >>,
           cat' \in [Path -> SS \cup {NoServer}],
           \A p \in Path : cat'[p] # NoServer => <<cat'[p], p>> \in Known,
           backup' \in [Path -> None .. File], jammed' \subseteq SS,
           disturbed' \subseteq Threads
    PROVE  IInv'
<1>1. PICK r : r = thread[t]
  OBVIOUS
<1>2. PICK r2 : r2 = Answered(r, resp)
  OBVIOUS
<1>3. thread' = [thread EXCEPT ![t] = r2]
  BY <1>1, <1>2 DEF Answer, Become, Answered
<1>4. r \in ThreadRecord /\ PcOK(r) /\ WorkOK(r, Known, OpenAt(t), Inodes) /\ r.pc # "idle"
  BY <1>1, ThreadFacts DEF At
<1>5. r2 \in ThreadRecord /\ PcOK(r2) /\ WorkOK(r2, Known, OpenAt(t), Inodes)
      /\ r2.req = r.req
  BY <1>2, <1>4, Answering
<1> QED
  BY <1>1, <1>3, <1>5, LightStepKeeps

LEMMA AddCreatedKeeps ==
    ASSUME IInv, NEW t \in Threads, AddCreated(t)
    PROVE  IInv'
<1>1. PICK r : r = thread[t]
  OBVIOUS
<1>2. /\ r \in ThreadRecord /\ PcOK(r) /\ WorkOK(r, Known, OpenAt(t), Inodes)
      /\ r.pc = "add" /\ ~ At(t, "idle")
  BY <1>1, ThreadFacts DEF AddCreated, At
<1>3. PICK p \in Path : p = r.req.path /\ <<r.to, p>> \in Known
  BY <1>2, RequestFacts DEF PcOK, WorkOK
<1>4. r.to \in SS
  BY <1>2 DEF PcOK
<1>5. cat' = [cat EXCEPT ![p] = r.to]
  BY <1>1, <1>3 DEF AddCreated
<1>6. /\ cat' \in [Path -> SS \cup {NoServer}]
      /\ \A q \in Path : cat'[q] # NoServer => <<cat'[q], q>> \in Known
  BY <1>3, <1>4, <1>5 DEF IInv, TypeOK, CatalogueOK
<1>7. /\ UNCHANGED << tree, data, writers >> /\ backup' \in [Path -> None .. File]
      /\ jammed' \subseteq SS /\ disturbed' \subseteq Threads /\ Answer(t, OK)
  BY DEF AddCreated, IInv, TypeOK, fsVars
<1> QED
  BY <1>2, <1>6, <1>7, LightAnswerKeeps, ResponsesTyped

LEMMA ForgetKeeps ==
    ASSUME IInv, NEW t \in Threads, Forget(t)
    PROVE  IInv'
<1>1. PICK S : cat' = [q \in Path |-> IF q \in S THEN NoServer ELSE cat[q]]
  BY DEF Forget
<1>2. /\ cat' \in [Path -> SS \cup {NoServer}]
      /\ \A q \in Path : cat'[q] # NoServer => <<cat'[q], q>> \in Known
  BY <1>1 DEF IInv, TypeOK, CatalogueOK
<1>3. /\ UNCHANGED << tree, data, writers >> /\ backup' \in [Path -> None .. File]
      /\ jammed' \subseteq SS /\ disturbed' \subseteq Threads /\ Answer(t, OK)
      /\ ~ At(t, "idle")
  BY DEF Forget, IInv, TypeOK, fsVars, At
<1> QED
  BY <1>2, <1>3, LightAnswerKeeps, ResponsesTyped

LEMMA CreateBackupKeeps ==
    ASSUME IInv, NEW t \in Threads, CreateBackup(t)
    PROVE  IInv'
<1>1. PICK r : r = thread[t]
  OBVIOUS
<1>2. /\ r \in ThreadRecord /\ PcOK(r) /\ WorkOK(r, Known, OpenAt(t), Inodes)
      /\ r.pc = "backup" /\ ~ At(t, "idle") /\ r.req.op # "delete"
  BY <1>1, ThreadFacts DEF CreateBackup, At
<1>3. /\ cat' \in [Path -> SS \cup {NoServer}]
      /\ \A q \in Path : cat'[q] # NoServer => <<cat'[q], q>> \in Known
      /\ UNCHANGED << tree, data, writers >> /\ jammed' \subseteq SS
      /\ disturbed' \subseteq Threads
  BY DEF CreateBackup, IInv, TypeOK, CatalogueOK
<1>4. CASE CanCreate(backup, r.req.path, r.req.op = "mkdir")
  <2>1. backup' \in [Path -> None .. File]
    <3>1. Folder \in None .. File /\ File \in None .. File
      BY DEF Folder, File, None
    <3> QED BY <1>1, <1>4, <3>1 DEF CreateBackup, IInv, TypeOK
  <2>2. PICK r2 : r2 = Moved(r, "add")
    OBVIOUS
  <2>3. thread' = [thread EXCEPT ![t] = r2]
    BY <1>1, <1>4, <2>2 DEF CreateBackup, Go, Become, Moved
  <2>4. <<r.to, r.req.path>> \in Known /\ "add" \in Pcs
    BY <1>2 DEF WorkOK, Pcs
  <2>5. /\ r2 \in ThreadRecord /\ WorkOK(r2, Known, OpenAt(t), Inodes)
        /\ r2.pc = "add" /\ r2.req = r.req /\ r2.from = r.from /\ r2.to = r.to
    BY <1>2, <2>2, <2>4, GoesOn
  <2>6. PcOK(r2)
    BY <1>2, <2>5 DEF PcOK
  <2> QED BY <1>1, <1>3, <2>1, <2>3, <2>5, <2>6, LightStepKeeps
<1>5. CASE ~ CanCreate(backup, r.req.path, r.req.op = "mkdir")
  <2>1. backup' \in [Path -> None .. File] /\ Answer(t, InternalError)
    BY <1>1, <1>5 DEF CreateBackup, IInv, TypeOK
  <2> QED BY <1>2, <1>3, <2>1, LightAnswerKeeps, ResponsesTyped
<1> QED
  BY <1>4, <1>5

LEMMA DeleteBackupKeeps ==
    ASSUME IInv, NEW t \in Threads, DeleteBackup(t)
    PROVE  IInv'
<1>1. PICK r : r = thread[t]
  OBVIOUS
<1>2. /\ r \in ThreadRecord /\ PcOK(r) /\ WorkOK(r, Known, OpenAt(t), Inodes)
      /\ r.pc = "backup" /\ ~ At(t, "idle") /\ r.req.op = "delete"
  BY <1>1, ThreadFacts DEF DeleteBackup, At
<1>3. /\ cat' \in [Path -> SS \cup {NoServer}]
      /\ \A q \in Path : cat'[q] # NoServer => <<cat'[q], q>> \in Known
      /\ UNCHANGED << tree, data, writers >> /\ jammed' \subseteq SS
      /\ disturbed' \subseteq Threads
  BY DEF DeleteBackup, IInv, TypeOK, CatalogueOK
<1>4. CASE backup[r.req.path] # None
  <2>1. backup' \in [Path -> None .. File]
    <3>1. None \in None .. File
      BY DEF None, File
    <3>2. PICK S : backup' = Without(backup, S)
      BY <1>1, <1>4 DEF DeleteBackup
    <3> QED BY <3>1, <3>2 DEF Without, IInv, TypeOK
  <2>2. PICK r2 : r2 = Moved(r, "forget")
    OBVIOUS
  <2>3. thread' = [thread EXCEPT ![t] = r2]
    BY <1>1, <1>4, <2>2 DEF DeleteBackup, Go, Become, Moved
  <2>4. "forget" \in Pcs
    BY DEF Pcs
  <2>5. /\ r2 \in ThreadRecord /\ WorkOK(r2, Known, OpenAt(t), Inodes)
        /\ r2.pc = "forget" /\ r2.req = r.req /\ r2.from = r.from /\ r2.to = r.to
    BY <1>2, <2>2, <2>4, GoesOn
  <2>6. PcOK(r2)
    BY <1>2, <2>5 DEF PcOK
  <2> QED BY <1>1, <1>3, <2>1, <2>3, <2>5, <2>6, LightStepKeeps
<1>5. CASE backup[r.req.path] = None
  <2>1. backup' \in [Path -> None .. File] /\ Answer(t, InternalError)
    BY <1>1, <1>5 DEF DeleteBackup, IInv, TypeOK
  <2> QED BY <1>2, <1>3, <2>1, LightAnswerKeeps, ResponsesTyped
<1> QED
  BY <1>4, <1>5

(* The master lock of the source is kept when the file cannot be opened. *)
LEMMA OpenAtSourceKeeps ==
    ASSUME IInv, NEW t \in Threads, OpenAtSource(t)
    PROVE  IInv'
<1>1. PICK r : r = thread[t]
  OBVIOUS
<1>2. PICK f : f = Top(t)
  OBVIOUS
<1>3. At(t, "copy") /\ ~ At(t, "idle")
  BY DEF OpenAtSource, Doing, At
<1>4. /\ r.from \in SS /\ f \in FrameRecord /\ f.act = "open"
      /\ FrameOK(f, r.to, Known, OpenAt(t), Inodes)
  BY <1>1, <1>2, <1>3, TopFacts DEF OpenAtSource, Doing
<1>5. /\ cat' \in [Path -> SS \cup {NoServer}]
      /\ \A q \in Path : cat'[q] # NoServer => <<cat'[q], q>> \in Known
      /\ UNCHANGED << cat, tree, data, backup, writers, disturbed >>
      /\ backup' \in [Path -> None .. File] /\ disturbed' \subseteq Threads
  BY DEF OpenAtSource, IInv, TypeOK, CatalogueOK
<1>6. CASE Exists(r.from, f.src)
  <2>1. PICK g : g = [f EXCEPT !.act = "read", !.ino = tree[r.from][f.src]]
    OBVIOUS
  <2>2. Now(t, g) /\ UNCHANGED jammed
    BY <1>1, <1>2, <1>6, <2>1 DEF OpenAtSource
  <2>3. tree[r.from][f.src] \in Inodes /\ tree[r.from][f.src] \in Int
    <3>1. tree[r.from][f.src] \in {None, Folder} \cup DOMAIN data
      BY <1>4, <1>6 DEF Exists, IInv, TypeOK
    <3>2. DOMAIN data \subseteq Nat
      BY DEF IInv, TypeOK
    <3> QED BY <1>6, <3>1, <3>2 DEF Exists, Inodes, Folder, None
  <2>4. g \in FrameRecord /\ g.act = "read" /\ g.dst = f.dst /\ g.ino \in Inodes
    BY <1>4, <2>1, <2>3 DEF FrameRecord, Acts
  <2>5. FrameOK(g, thread[t].to, Known, OpenAt(t), Inodes)
    BY <1>1, <1>4, <2>4 DEF FrameOK
  <2>6. UNCHANGED << cat, fsVars, writers, disturbed >>
    BY <1>5, <2>2 DEF fsVars
  <2> QED BY <1>3, <2>2, <2>4, <2>5, <2>6, NowKeeps
<1>7. CASE ~ Exists(r.from, f.src)
  <2>1. jammed' = jammed \cup {r.from} /\ Answer(t, InternalError)
    BY <1>1, <1>2, <1>7 DEF OpenAtSource, CopyFails
  <2>2. jammed' \subseteq SS
    BY <1>4, <2>1 DEF IInv, TypeOK
  <2> QED BY <1>3, <1>5, <2>1, <2>2, LightAnswerKeeps, ResponsesTyped
<1> QED
  BY <1>6, <1>7
-----------------------------------------------------------------------------
(* Steps that change the disks. *)

LEMMA KnownStep ==
    ASSUME IInv, NEW t \in Threads, NEW r2, thread' = [thread EXCEPT ![t] = r2],
           r2.req = thread[t].req,
           \A s \in SS, p \in Path : tree[s][p] # None /\ tree'[s][p] = None => Gone(p)
    PROVE  Known \subseteq Known'
<1>1. DOMAIN thread = Threads
  BY DEF IInv, TypeOK
<1>2. \A u \in Threads : Is(u, "delete") => thread'[u].req = thread[u].req
  BY <1>1 DEF Is
<1> QED
  BY <1>2, KnownGrows

(* Making a folder or a file: what was there is there, and the data of a   *)
(* file have their entry.                                                  *)
LEMMA CreateEffect ==
    ASSUME IInv, NEW s \in SS, NEW p, NEW folder, CanCreate(tree[s], p, folder),
           Create(s, p, folder)
    PROVE  /\ p \in Path
           /\ tree' \in [SS -> [Path -> {None, Folder} \cup DOMAIN data']]
           /\ data' \in Seq(Seq(Chunk)) /\ DOMAIN data \subseteq DOMAIN data'
           /\ \A u \in SS, q \in Path : tree[u][q] # None => tree'[u][q] # None
           /\ tree'[s][p] # None
           /\ ~ folder => Inode(s, p) \in DOMAIN data'
<1>1. /\ tree \in [SS -> [Path -> {None, Folder} \cup DOMAIN data]]
      /\ data \in Seq(Seq(Chunk)) /\ p \in Path
  BY DEF IInv, TypeOK, CanCreate
<1>2. Len(data) \in Nat /\ DOMAIN data = 1 .. Len(data)
  BY <1>1
<1>3. CASE folder
  <2>1. tree' = [tree EXCEPT ![s][p] = Folder] /\ data' = data
    BY <1>3 DEF Create
  <2> QED BY <1>1, <1>3, <2>1, ServerFacts
<1>4. CASE ~ folder /\ Exists(s, p)
  <2>1. /\ tree' = [tree EXCEPT ![s][p] = tree[s][p]]
        /\ data' = [data EXCEPT ![tree[s][p]] = <<>>]
    BY <1>4 DEF Create, Truncate, Inode
  <2>2. tree[s][p] \in DOMAIN data
    BY <1>1, <1>4 DEF CanCreate, Exists
  <2>3. <<>> \in Seq(Chunk) /\ tree[s][p] \in 1 .. Len(data)
    BY <1>2, <2>2
  <2>4. data' \in Seq(Seq(Chunk)) /\ Len(data') = Len(data)
    BY <1>1, <2>1, <2>3, ExceptSeq
  <2>5. DOMAIN data' = DOMAIN data
    BY <1>2, <2>4
  <2>6. tree' = tree
    BY <1>1, <2>1
  <2> QED BY <1>1, <1>4, <2>2, <2>4, <2>5, <2>6 DEF Exists, Inode
<1>5. CASE ~ folder /\ ~ Exists(s, p)
  <2>1. PICK i : i = Len(data) + 1
    OBVIOUS
  <2>2. tree' = [tree EXCEPT ![s][p] = i] /\ data' = Append(data, <<>>)
    BY <1>5, <2>1 DEF Create, Truncate, Inode
  <2>3. <<>> \in Seq(Chunk)
    OBVIOUS
  <2>4. data' \in Seq(Seq(Chunk)) /\ Len(data') = i
    BY <1>1, <2>1, <2>2, <2>3
  <2>5. DOMAIN data' = 1 .. i /\ DOMAIN data \subseteq 1 .. i /\ i \in 1 .. i
    BY <1>2, <2>1, <2>4
  <2>6. i # None
    BY <1>2, <2>1 DEF None
  <2> QED BY <1>1, <1>5, <2>1, <2>2, <2>4, <2>5, <2>6 DEF Inode
<1> QED
  BY <1>3, <1>4, <1>5

(* Making the entry at work, or the path of a CREATE: the rest is as it    *)
(* was.                                                                    *)
LEMMA CreateKeeps ==
    ASSUME IInv, NEW t \in Threads, NEW r2 \in ThreadRecord,
           thread' = [thread EXCEPT ![t] = r2], PcOK(r2), r2.req = thread[t].req,
           WorkOK(r2, Known', OpenAt(t)', Inodes'),
           NEW s \in SS, NEW p, NEW folder, CanCreate(tree[s], p, folder), Create(s, p, folder),
           writers' \subseteq WriterRecord',
           \A u \in Threads \ {t} : OpenAt(u) \subseteq OpenAt(u)',
           UNCHANGED << cat, backup, jammed, disturbed >>
    PROVE  IInv'
<1>1. /\ tree' \in [SS -> [Path -> {None, Folder} \cup DOMAIN data']]
      /\ data' \in Seq(Seq(Chunk)) /\ DOMAIN data \subseteq DOMAIN data'
      /\ \A u \in SS, q \in Path : tree[u][q] # None => tree'[u][q] # None
  BY CreateEffect
<1>2. SharedTyped'
  BY <1>1 DEF SharedTyped, IInv, TypeOK
<1>3. Known \subseteq Known'
  BY <1>1, KnownStep
<1>4. CatalogueOK'
  BY <1>3 DEF IInv, CatalogueOK
<1> QED
  BY <1>1, <1>2, <1>4, StepKeeps

(* The WRITE handlers that there are stay well typed. *)
LEMMA WritersTyped ==
    ASSUME IInv, DOMAIN data \subseteq DOMAIN data'
    PROVE  writers \subseteq WriterRecord'
BY DEF IInv, TypeOK, WriterRecord

LEMMA CreatePrimaryKeeps ==
    ASSUME IInv, NEW t \in Threads, CreatePrimary(t)
    PROVE  IInv'
<1>1. PICK r : r = thread[t]
  OBVIOUS
<1>2. PICK p, folder : p = r.req.path /\ folder = (r.req.op = "mkdir")
  OBVIOUS
<1>3. /\ r \in ThreadRecord /\ PcOK(r) /\ WorkOK(r, Known, OpenAt(t), Inodes)
      /\ r.pc = "primary" /\ ~ At(t, "idle") /\ r.req.op # "delete"
  BY <1>1, ThreadFacts DEF CreatePrimary, At
<1>4. r.to \in SS
  BY <1>3 DEF PcOK
<1>5. UNCHANGED << cat, backup, jammed, writers, disturbed >>
  BY DEF CreatePrimary
<1>6. CASE CanCreate(tree[r.to], p, folder)
  <2>1. Create(r.to, p, folder) /\ Go(t, "backup")
    BY <1>1, <1>2, <1>6 DEF CreatePrimary
  <2>2. /\ p \in Path /\ DOMAIN data \subseteq DOMAIN data' /\ tree'[r.to][p] # None
        /\ \A u \in SS, q \in Path : tree[u][q] # None => tree'[u][q] # None
    BY <1>4, <1>6, <2>1, CreateEffect
  <2>3. PICK r2 : r2 = Moved(r, "backup")
    OBVIOUS
  <2>4. thread' = [thread EXCEPT ![t] = r2]
    BY <1>1, <2>1, <2>3 DEF Go, Become, Moved
  <2>5. r2.req = r.req
    BY <1>3, <2>3 DEF Moved, ThreadRecord
  <2>6. Known \subseteq Known'
    BY <1>1, <2>2, <2>4, <2>5, KnownStep
  <2>7. Inodes \subseteq Inodes' /\ \A u \in Threads : OpenAt(u)' = OpenAt(u)
    BY <1>5, <2>2 DEF Inodes, OpenAt
  <2>8. WorkOK(r, Known', OpenAt(t)', Inodes')
    BY <1>3, <2>6, <2>7, WorkMonotone
  <2>9. <<r.to, r.req.path>> \in Known' /\ "backup" \in Pcs
    BY <1>2, <1>4, <2>2 DEF Known, Pcs
  <2>10. /\ r2 \in ThreadRecord /\ WorkOK(r2, Known', OpenAt(t)', Inodes')
         /\ r2.pc = "backup" /\ r2.req = r.req /\ r2.from = r.from /\ r2.to = r.to
    BY <1>3, <2>3, <2>8, <2>9, GoesOn
  <2>11. PcOK(r2)
    BY <1>3, <2>10 DEF PcOK
  <2>12. writers' \subseteq WriterRecord'
    BY <1>5, <2>2, WritersTyped
  <2> QED BY <1>1, <1>4, <1>5, <1>6, <2>1, <2>4, <2>7, <2>10, <2>11, <2>12, CreateKeeps
<1>7. CASE ~ CanCreate(tree[r.to], p, folder)
  <2>1. Answer(t, InternalError) /\ UNCHANGED << cat, fsVars, writers, disturbed >>
    BY <1>1, <1>2, <1>7 DEF CreatePrimary, fsVars
  <2> QED BY <1>3, <2>1, AnswerKeeps, ResponsesTyped
<1> QED
  BY <1>6, <1>7

LEMMA CreateEntryKeeps ==
    ASSUME IInv, NEW t \in Threads, CreateEntry(t)
    PROVE  IInv'
<1>1. PICK r : r = thread[t]
  OBVIOUS
<1>2. PICK f : f = Top(t)
  OBVIOUS
<1>3. At(t, "copy") /\ UNCHANGED << cat, backup, jammed, writers, disturbed >>
  BY DEF CreateEntry, Doing
<1>4. /\ r \in ThreadRecord /\ PcOK(r) /\ WorkOK(r, Known, OpenAt(t), Inodes)
      /\ r.pc = "copy" /\ r.to \in SS /\ f \in FrameRecord
  BY <1>1, <1>2, <1>3, TopFacts
<1>5. CASE CanCreate(tree[r.to], f.dst, f.folder)
  <2>1. PICK g : g = [f EXCEPT !.act = IF f.folder THEN "opendir" ELSE "write"]
    OBVIOUS
  <2>2. Create(r.to, f.dst, f.folder) /\ Now(t, g)
    BY <1>1, <1>2, <1>5, <2>1 DEF CreateEntry
  <2>3. /\ f.dst \in Path /\ DOMAIN data \subseteq DOMAIN data' /\ tree'[r.to][f.dst] # None
        /\ \A u \in SS, q \in Path : tree[u][q] # None => tree'[u][q] # None
    BY <1>4, <1>5, <2>2, CreateEffect
  <2>4. PICK r2 : r2 = WithTop(r, g)
    OBVIOUS
  <2>5. thread' = [thread EXCEPT ![t] = r2]
    BY <1>1, <2>2, <2>4 DEF Now, Become, WithTop
  <2>6. r2.req = r.req
    BY <1>4, <2>4 DEF WithTop, ThreadRecord
  <2>7. Known \subseteq Known'
    BY <1>1, <2>3, <2>5, <2>6, KnownStep
  <2>8. Inodes \subseteq Inodes' /\ \A u \in Threads : OpenAt(u)' = OpenAt(u)
    BY <1>3, <2>3 DEF Inodes, OpenAt
  <2>9. WorkOK(r, Known', OpenAt(t)', Inodes')
    BY <1>4, <2>7, <2>8, WorkMonotone
  <2>10. g \in FrameRecord /\ g.act \in {"opendir", "write"} /\ g.dst = f.dst
    BY <1>4, <2>1 DEF FrameRecord, Acts
  <2>11. FrameOK(g, r.to, Known', OpenAt(t)', Inodes')
    <3>1. <<r.to, f.dst>> \in Known'
      BY <1>4, <2>3 DEF Known
    <3> QED BY <2>10, <3>1 DEF FrameOK
  <2>12. r2 \in ThreadRecord /\ PcOK(r2) /\ WorkOK(r2, Known', OpenAt(t)', Inodes')
    BY <1>4, <2>4, <2>9, <2>10, <2>11, WithTopOK
  <2>13. writers' \subseteq WriterRecord'
    BY <1>3, <2>3, WritersTyped
  <2> QED
    BY <1>1, <1>3, <1>4, <1>5, <2>2, <2>5, <2>6, <2>8, <2>12, <2>13, CreateKeeps
<1>6. CASE ~ CanCreate(tree[r.to], f.dst, f.folder)
  <2>1. CopyFails(t) /\ UNCHANGED << cat, fsVars, writers, disturbed >>
    BY <1>1, <1>2, <1>6 DEF CreateEntry, fsVars
  <2> QED BY <1>3, <2>1, CopyFailsKeeps
<1> QED
  BY <1>5, <1>6

LEMMA OpenAtDestinationKeeps ==
    ASSUME IInv, NEW t \in Threads, OpenAtDestination(t)
    PROVE  IInv'
<1>1. PICK r : r = thread[t]
  OBVIOUS
<1>2. PICK f : f = Top(t)
  OBVIOUS
<1>3. At(t, "copy") /\ UNCHANGED << cat, backup, disturbed >>
  BY DEF OpenAtDestination, Doing
<1>4. /\ r \in ThreadRecord /\ PcOK(r) /\ WorkOK(r, Known, OpenAt(t), Inodes)
      /\ r.pc = "copy" /\ r.to \in SS /\ f \in FrameRecord /\ f.act = "write"
      /\ FrameOK(f, r.to, Known, OpenAt(t), Inodes)
  BY <1>1, <1>2, <1>3, TopFacts DEF OpenAtDestination, Doing
<1>5. CASE CanOpen(r.to, f.dst)
  <2>1. PICK g : g = [f EXCEPT !.act = "open"]
    OBVIOUS
  <2>2. PICK w : w = [by |-> t, path |-> f.dst, ino |-> Inode(r.to, f.dst), pos |-> 0,
                      queue |-> <<>>, open |-> TRUE]
    OBVIOUS
  <2>3. /\ Truncate(r.to, f.dst) /\ Now(t, g) /\ UNCHANGED jammed
        /\ writers' = writers \cup {w}
    BY <1>1, <1>2, <1>5, <2>1, <2>2 DEF OpenAtDestination
  <2>4. CanCreate(tree[r.to], f.dst, FALSE) /\ Create(r.to, f.dst, FALSE)
    BY <1>5, <2>3 DEF CanOpen, Create
  <2>5. /\ f.dst \in Path /\ DOMAIN data \subseteq DOMAIN data'
        /\ Inode(r.to, f.dst) \in DOMAIN data'
        /\ \A u \in SS, q \in Path : tree[u][q] # None => tree'[u][q] # None
    BY <1>4, <2>4, CreateEffect
  <2>6. PICK r2 : r2 = WithTop(r, g)
    OBVIOUS
  <2>7. thread' = [thread EXCEPT ![t] = r2]
    BY <1>1, <2>3, <2>6 DEF Now, Become, WithTop
  <2>8. r2.req = r.req
    BY <1>4, <2>6 DEF WithTop, ThreadRecord
  <2>9. Known \subseteq Known'
    BY <1>1, <2>5, <2>7, <2>8, KnownStep
  <2>10. Inodes \subseteq Inodes'
    BY <2>5 DEF Inodes
  <2>11. w.by = t /\ w.path = f.dst /\ w.open
    BY <2>2
  <2>12. (\A u \in Threads : OpenAt(u) \subseteq OpenAt(u)') /\ f.dst \in OpenAt(t)'
    BY <2>3, <2>11 DEF OpenAt
  <2>13. WorkOK(r, Known', OpenAt(t)', Inodes')
    BY <1>4, <2>9, <2>10, <2>12, WorkMonotone
  <2>14. g \in FrameRecord /\ g.act = "open" /\ g.dst = f.dst
    BY <1>4, <2>1 DEF FrameRecord, Acts
  <2>15. FrameOK(g, r.to, Known', OpenAt(t)', Inodes')
    BY <1>4, <2>9, <2>12, <2>14 DEF FrameOK
  <2>16. r2 \in ThreadRecord /\ PcOK(r2) /\ WorkOK(r2, Known', OpenAt(t)', Inodes')
    BY <1>4, <2>6, <2>13, <2>14, <2>15, WithTopOK
  <2>17. writers' \subseteq WriterRecord'
    <3>1. <<>> \in Seq(Chunk)
      OBVIOUS
    <3>2. w \in WriterRecord'
      BY <2>2, <2>5, <3>1 DEF WriterRecord
    <3> QED BY <2>3, <2>5, <3>2, WritersTyped
  <2> QED
    BY <1>1, <1>3, <1>4, <2>3, <2>4, <2>7, <2>8, <2>12, <2>16, <2>17, CreateKeeps
<1>6. CASE ~ CanOpen(r.to, f.dst)
  <2>1. /\ jammed' = jammed \cup {r.to} /\ Go(t, "waits") /\ UNCHANGED << tree, data, writers >>
    BY <1>1, <1>2, <1>6 DEF OpenAtDestination
  <2>2. PICK r2 : r2 = Moved(r, "waits")
    OBVIOUS
  <2>3. thread' = [thread EXCEPT ![t] = r2]
    BY <1>1, <2>1, <2>2 DEF Go, Become, Moved
  <2>4. "waits" \in Pcs
    BY DEF Pcs
  <2>5. /\ r2 \in ThreadRecord /\ WorkOK(r2, Known, OpenAt(t), Inodes)
        /\ r2.pc = "waits" /\ r2.req = r.req /\ r2.from = r.from /\ r2.to = r.to
    BY <1>4, <2>2, <2>4, GoesOn
  <2>6. PcOK(r2)
    BY <1>4, <2>5 DEF PcOK
  <2>7. /\ cat' \in [Path -> SS \cup {NoServer}]
        /\ \A q \in Path : cat'[q] # NoServer => <<cat'[q], q>> \in Known
        /\ backup' \in [Path -> None .. File] /\ disturbed' \subseteq Threads
        /\ jammed' \subseteq SS
    BY <1>3, <1>4, <2>1 DEF IInv, TypeOK, CatalogueOK
  <2> QED BY <1>1, <2>1, <2>3, <2>5, <2>6, <2>7, LightStepKeeps
<1> QED
  BY <1>5, <1>6
-----------------------------------------------------------------------------
(* The stream to a WRITE handler, and the WRITE handlers themselves. *)

(* The WRITE handler of the entry at work. *)
LEMMA WriterFacts ==
    ASSUME IInv, NEW t \in Threads, At(t, "copy"), Top(t).act = "read"
    PROVE  /\ Writer(t) \in writers /\ Writer(t) \in WriterRecord
           /\ Writer(t).by = t /\ Writer(t).path = Top(t).dst
<1>1. PICK r : r = thread[t]
  OBVIOUS
<1>2. FrameOK(Top(t), r.to, Known, OpenAt(t), Inodes)
  BY <1>1, TopFacts
<1>3. Top(t).dst \in OpenAt(t)
  BY <1>2 DEF FrameOK
<1>4. \E w \in writers : w.by = t /\ w.path = Top(t).dst
  BY <1>3 DEF OpenAt
<1> QED
  BY <1>4 DEF Writer, IInv, TypeOK

(* A WRITE handler that changes. *)
LEMMA WriterChanges ==
    ASSUME IInv, NEW w \in writers, NEW w2 \in WriterRecord, w2.by = w.by, w2.path = w.path,
           writers' = (writers \ {w}) \cup {w2}, DOMAIN data' = DOMAIN data
    PROVE  /\ writers' \subseteq WriterRecord'
           /\ \A u \in Threads : u # w.by \/ w2.open = w.open => OpenAt(u) \subseteq OpenAt(u)'
<1>1. writers \subseteq WriterRecord /\ WriterRecord' = WriterRecord
  BY DEF IInv, TypeOK, WriterRecord
<1>2. ASSUME NEW u \in Threads, u # w.by \/ w2.open = w.open, NEW p \in OpenAt(u)
      PROVE  p \in OpenAt(u)'
  <2>1. PICK v \in writers : v.by = u /\ v.open /\ v.path = p
    BY DEF OpenAt
  <2>2. CASE v = w
    BY <1>2, <2>1, <2>2 DEF OpenAt
  <2>3. CASE v # w
    BY <2>1, <2>3 DEF OpenAt
  <2> QED BY <2>2, <2>3
<1> QED
  BY <1>1, <1>2

LEMMA ContentsTyped ==
    ASSUME IInv, NEW i \in Inodes
    PROVE  Contents(i) \in Seq(Chunk)
<1>1. <<>> \in Seq(Chunk)
  OBVIOUS
<1> QED
  BY <1>1 DEF Contents, Inodes, IInv, TypeOK

LEMMA SendChunkKeeps ==
    ASSUME IInv, NEW t \in Threads, SendChunk(t)
    PROVE  IInv'
<1>1. PICK r : r = thread[t]
  OBVIOUS
<1>2. PICK f : f = Top(t)
  OBVIOUS
<1>3. At(t, "copy") /\ f.act = "read" /\ UNCHANGED << cat, fsVars, disturbed >>
  BY <1>2 DEF SendChunk, Doing
<1>4. /\ r \in ThreadRecord /\ PcOK(r) /\ WorkOK(r, Known, OpenAt(t), Inodes)
      /\ r.pc = "copy" /\ f \in FrameRecord /\ FrameOK(f, r.to, Known, OpenAt(t), Inodes)
  BY <1>1, <1>2, <1>3, TopFacts
<1>5. PICK w : w = Writer(t)
  OBVIOUS
<1>6. w \in writers /\ w \in WriterRecord /\ w.by = t
  BY <1>2, <1>3, <1>5, WriterFacts
<1>7. PICK chunk : chunk = Contents(f.ino)[f.pos + 1]
  OBVIOUS
<1>8. PICK w2 : w2 = [w EXCEPT !.queue = Append(@, chunk)]
  OBVIOUS
<1>9. writers' = (writers \ {w}) \cup {w2}
  BY <1>2, <1>5, <1>7, <1>8 DEF SendChunk, Sent
<1>10. chunk \in Chunk
  <2>1. Contents(f.ino) \in Seq(Chunk)
    BY <1>3, <1>4, ContentsTyped DEF FrameOK
  <2>2. f.pos + 1 \in 1 .. Len(Contents(f.ino))
    BY <1>2, <1>4, <2>1 DEF SendChunk, FrameRecord
  <2> QED BY <1>7, <2>1, <2>2
<1>11. /\ w2 \in WriterRecord /\ w2.by = w.by /\ w2.path = w.path /\ w2.open = w.open
  <2>1. Append(w.queue, chunk) \in Seq(Chunk)
    BY <1>6, <1>10 DEF WriterRecord
  <2> QED BY <1>6, <1>8, <2>1 DEF WriterRecord
<1>12. UNCHANGED << tree, data, backup, jammed >>
  BY <1>3 DEF fsVars
<1>13. writers' \subseteq WriterRecord' /\ \A u \in Threads : OpenAt(u) \subseteq OpenAt(u)'
  BY <1>6, <1>9, <1>11, <1>12, WriterChanges
<1>14. PICK g : g = [f EXCEPT !.pos = @ + 1]
  OBVIOUS
<1>15. PICK r2 : r2 = WithTop(r, g)
  OBVIOUS
<1>16. thread' = [thread EXCEPT ![t] = r2]
  BY <1>1, <1>2, <1>14, <1>15 DEF SendChunk, Now, Become, WithTop
<1>17. r2.req = r.req
  BY <1>4, <1>15 DEF WithTop, ThreadRecord
<1>18. \A s \in SS, p \in Path : tree[s][p] # None /\ tree'[s][p] = None => Gone(p)
  BY <1>12
<1>19. Known \subseteq Known' /\ Inodes' = Inodes
  BY <1>1, <1>12, <1>16, <1>17, <1>18, KnownStep DEF Inodes
<1>20. g \in FrameRecord /\ g.act = "read" /\ g.dst = f.dst /\ g.ino = f.ino
  <2>1. f.pos + 1 \in Nat
    BY <1>4 DEF FrameRecord
  <2> QED BY <1>3, <1>4, <1>14, <2>1 DEF FrameRecord
<1>21. FrameOK(g, r.to, Known, OpenAt(t), Inodes)
  BY <1>3, <1>4, <1>20 DEF FrameOK
<1>22. r2 \in ThreadRecord /\ PcOK(r2) /\ WorkOK(r2, Known, OpenAt(t), Inodes)
  BY <1>4, <1>15, <1>20, <1>21, WithTopOK
<1>23. WorkOK(r2, Known', OpenAt(t)', Inodes')
  BY <1>13, <1>19, <1>22, WorkMonotone
<1>24. SharedTyped'
  BY <1>3, <1>12, <1>13 DEF SharedTyped, IInv, TypeOK
<1>25. CatalogueOK'
  BY <1>3, <1>19 DEF IInv, CatalogueOK
<1> QED
  BY <1>1, <1>12, <1>13, <1>16, <1>17, <1>18, <1>22, <1>23, <1>24, <1>25, StepKeeps

LEMMA FileCopiedKeeps ==
    ASSUME IInv, NEW t \in Threads, FileCopied(t)
    PROVE  IInv'
<1>1. At(t, "copy") /\ Top(t).act = "read" /\ UNCHANGED << cat, fsVars, disturbed >>
  BY DEF FileCopied, Doing
<1>2. PICK w : w = Writer(t)
  OBVIOUS
<1>3. w \in writers /\ w \in WriterRecord /\ w.by = t
  BY <1>1, <1>2, WriterFacts
<1>4. PICK w2 : w2 = [w EXCEPT !.open = FALSE]
  OBVIOUS
<1>5. writers' = (writers \ {w}) \cup {w2}
  BY <1>2, <1>4 DEF FileCopied, Sent
<1>6. w2 \in WriterRecord /\ w2.by = w.by /\ w2.path = w.path
  BY <1>3, <1>4 DEF WriterRecord
<1>7. UNCHANGED << tree, data, backup, jammed >>
  BY <1>1 DEF fsVars
<1>8. /\ writers' \subseteq WriterRecord'
      /\ \A u \in Threads \ {t} : OpenAt(u) \subseteq OpenAt(u)'
  BY <1>3, <1>5, <1>6, <1>7, WriterChanges
<1>9. PICK r2 : r2 = Finished(t)
  OBVIOUS
<1>10. thread' = [thread EXCEPT ![t] = r2]
  BY <1>9 DEF FileCopied, Become
<1>11. PICK open2 : open2 = OpenAt(t)'
  OBVIOUS
<1>12. r2 \in ThreadRecord /\ PcOK(r2) /\ WorkOK(r2, Known, open2, Inodes)
       /\ r2.req = thread[t].req
  BY <1>1, <1>9, FinishedOK
<1>13. \A s \in SS, p \in Path : tree[s][p] # None /\ tree'[s][p] = None => Gone(p)
  BY <1>7
<1>14. Known \subseteq Known' /\ Inodes' = Inodes
  BY <1>7, <1>10, <1>12, <1>13, KnownStep DEF Inodes
<1>15. WorkOK(r2, Known', OpenAt(t)', Inodes')
  BY <1>11, <1>12, <1>14, WorkMonotone
<1>16. SharedTyped'
  BY <1>1, <1>7, <1>8 DEF SharedTyped, IInv, TypeOK
<1>17. CatalogueOK'
  BY <1>1, <1>14 DEF IInv, CatalogueOK
<1> QED
  BY <1>7, <1>8, <1>10, <1>12, <1>13, <1>15, <1>16, <1>17, StepKeeps

(* A step of a WRITE handler changes no thread, and closes nothing. *)
LEMMA WriterStepKeeps ==
    ASSUME IInv, UNCHANGED << cat, tree, backup, jammed, thread, disturbed >>,
           data' \in Seq(Seq(Chunk)), DOMAIN data' = DOMAIN data,
           writers' \subseteq WriterRecord',
           \A u \in Threads : OpenAt(u) \subseteq OpenAt(u)'
    PROVE  IInv'
<1>1. Known \subseteq Known' /\ Inodes' = Inodes
  BY KnownGrows DEF Inodes
<1>2. TypeOK'
  BY DEF IInv, TypeOK, Is
<1>3. ASSUME NEW u \in Threads PROVE ThreadOK(u)'
  <2>1. PICK r : r = thread[u]
    OBVIOUS
  <2>2. PcOK(r) /\ WorkOK(r, Known, OpenAt(u), Inodes)
    BY <2>1 DEF IInv, ThreadOK
  <2>3. WorkOK(r, Known', OpenAt(u)', Inodes')
    BY <1>1, <2>2, WorkMonotone
  <2> QED BY <2>1, <2>2, <2>3 DEF ThreadOK
<1>4. CatalogueOK'
  BY <1>1 DEF IInv, CatalogueOK
<1> QED
  BY <1>2, <1>3, <1>4 DEF IInv

LEMMA OverwriteTyped ==
    ASSUME NEW content \in Seq(Chunk), NEW k \in Nat, NEW chunk \in Chunk
    PROVE  Overwrite(content, k, chunk) \in Seq(Chunk)
<1>1. PICK n \in Nat : n = IF Len(content) > k THEN Len(content) ELSE k + 1
  OBVIOUS
<1>2. Hole \in Chunk /\ \A j \in 1 .. Len(content) : content[j] \in Chunk
  BY DEF Hole, Chunk
<1>3. Overwrite(content, k, chunk) \in [1 .. n -> Chunk]
  BY <1>1, <1>2 DEF Overwrite
<1> QED
  BY <1>1, <1>3, FunctionIsSeq

LEMMA WriteChunkKeeps ==
    ASSUME IInv, NEW w \in writers, WriteChunk(w)
    PROVE  IInv'
<1>1. w \in WriterRecord /\ data \in Seq(Seq(Chunk))
  BY DEF IInv, TypeOK
<1>2. /\ w.ino \in DOMAIN data /\ w.pos \in Nat /\ w.queue \in Seq(Chunk) /\ w.queue # <<>>
  BY <1>1 DEF WriterRecord, WriteChunk
<1>3. Head(w.queue) \in Chunk /\ Tail(w.queue) \in Seq(Chunk)
  BY <1>2
<1>4. PICK new : new = Overwrite(data[w.ino], w.pos, Head(w.queue))
  OBVIOUS
<1>5. new \in Seq(Chunk)
  <2>1. PICK content \in Seq(Chunk), k \in Nat, chunk \in Chunk :
          content = data[w.ino] /\ k = w.pos /\ chunk = Head(w.queue)
    BY <1>1, <1>2, <1>3, SMTT(40)
  <2>2. new = Overwrite(content, k, chunk)
    BY <1>4, <2>1
  <2> QED BY <2>2, OverwriteTyped
<1>6. data' = [data EXCEPT ![w.ino] = new]
  BY <1>4 DEF WriteChunk
<1>7. data' \in Seq(Seq(Chunk)) /\ DOMAIN data' = DOMAIN data
  <2>1. w.ino \in 1 .. Len(data)
    BY <1>1, <1>2
  <2>2. data' \in Seq(Seq(Chunk))
    BY <1>1, <1>5, <1>6, <2>1, ExceptSeq
  <2> QED BY <1>6, <2>2
<1>8. PICK w2 : w2 = [w EXCEPT !.pos = @ + 1, !.queue = Tail(@)]
  OBVIOUS
<1>9. writers' = (writers \ {w}) \cup {w2}
  BY <1>8 DEF WriteChunk
<1>10. w2 \in WriterRecord /\ w2.by = w.by /\ w2.path = w.path /\ w2.open = w.open
  <2>1. PICK queue \in Seq(Chunk), pos \in Nat : queue = Tail(w.queue) /\ pos = w.pos + 1
    <3>1. w.pos + 1 \in Nat
      BY <1>2
    <3> QED BY <1>3, <3>1
  <2>2. w2 = [w EXCEPT !.pos = pos, !.queue = queue]
    BY <1>8, <2>1
  <2> QED BY <1>1, <2>2 DEF WriterRecord
<1>11. writers' \subseteq WriterRecord' /\ \A u \in Threads : OpenAt(u) \subseteq OpenAt(u)'
  BY <1>7, <1>9, <1>10, WriterChanges
<1> QED
  BY <1>7, <1>11, WriterStepKeeps DEF WriteChunk

LEMMA EndWriteKeeps ==
    ASSUME IInv, NEW w \in writers, EndWrite(w)
    PROVE  IInv'
<1>1. /\ UNCHANGED << cat, tree, data, backup, jammed, thread, disturbed >>
      /\ writers' = writers \ {w} /\ ~ w.open
  BY DEF EndWrite, fsVars
<1>2. data' \in Seq(Seq(Chunk)) /\ DOMAIN data' = DOMAIN data
  BY <1>1 DEF IInv, TypeOK
<1>3. writers' \subseteq WriterRecord'
  BY <1>1, WritersTyped
<1>4. \A u \in Threads : OpenAt(u) \subseteq OpenAt(u)'
  BY <1>1 DEF OpenAt
<1> QED
  BY <1>1, <1>2, <1>3, <1>4, WriterStepKeeps

-----------------------------------------------------------------------------
(* DELETE at the storage server: what it takes is what was asked for. *)
LEMMA DeletePrimaryKeeps ==
    ASSUME IInv, NEW t \in Threads, DeletePrimary(t)
    PROVE  IInv'
<1>1. PICK r : r = thread[t]
  OBVIOUS
<1>2. PICK s, p : s = r.from /\ p = r.req.path
  OBVIOUS
<1>3. /\ r \in ThreadRecord /\ PcOK(r) /\ WorkOK(r, Known, OpenAt(t), Inodes)
      /\ r.pc = "primary" /\ r.req.op = "delete"
  BY <1>1, ThreadFacts DEF DeletePrimary, At
<1>4. s \in SS
  BY <1>2, <1>3 DEF PcOK
<1>5. PICK gone \in SUBSET Below(s, p) :
        /\ tree' = [tree EXCEPT ![s] = Without(@, gone)]
        /\ data' = [i \in DOMAIN data |->
                       IF \E q \in gone : tree[s][q] = i THEN <<>> ELSE data[i]]
        /\ IF p \in gone THEN Go(t, "backup") ELSE Answer(t, InternalError)
  <2>1. PICK gone \in SUBSET Below(thread[t].from, thread[t].req.path) :
        /\ tree' = [tree EXCEPT ![thread[t].from] = Without(@, gone)]
        /\ data' = [i \in DOMAIN data |->
                       IF \E q \in gone : tree[thread[t].from][q] = i THEN <<>> ELSE data[i]]
        /\ IF thread[t].req.path \in gone THEN Go(t, "backup") ELSE Answer(t, InternalError)
    BY Zenon DEF DeletePrimary
  <2>2. s = thread[t].from /\ p = thread[t].req.path
    BY <1>1, <1>2
  <2>3. tree' = [tree EXCEPT ![s] = Without(@, gone)] /\ gone \in SUBSET Below(s, p)
    BY <2>1, <2>2
  <2>4. data' = [i \in DOMAIN data |->
                    IF \E q \in gone : tree[s][q] = i THEN <<>> ELSE data[i]]
    BY <2>1, <2>2
  <2>5. IF p \in gone THEN Go(t, "backup") ELSE Answer(t, InternalError)
    BY <2>1, <2>2
  <2> QED BY <2>3, <2>4, <2>5, Zenon
<1>6. UNCHANGED << cat, backup, jammed, writers, disturbed >>
  BY DEF DeletePrimary
<1>7. data' \in Seq(Seq(Chunk)) /\ DOMAIN data' = DOMAIN data
  <2>1. data \in Seq(Seq(Chunk)) /\ <<>> \in Seq(Chunk)
    BY DEF IInv, TypeOK
  <2>2. PICK n \in Nat : n = Len(data) /\ DOMAIN data = 1 .. n
    BY <2>1
  <2>3. \A i \in 1 .. n : data[i] \in Seq(Chunk)
    BY <2>1, <2>2
  <2>4. data' \in [1 .. n -> Seq(Chunk)]
    BY <1>5, <2>1, <2>2, <2>3
  <2> QED BY <2>2, <2>4, FunctionIsSeq
<1>8. tree' \in [SS -> [Path -> {None, Folder} \cup DOMAIN data']]
  BY <1>4, <1>5, <1>7 DEF Without, IInv, TypeOK
<1>9. \A u \in SS, q \in Path : tree[u][q] # None /\ tree'[u][q] = None => Gone(q)
  <2> SUFFICES ASSUME NEW u \in SS, NEW q \in Path, tree[u][q] # None, tree'[u][q] = None
               PROVE  Gone(q)
    OBVIOUS
  <2>1. q \in gone
    BY <1>4, <1>5 DEF Without, IInv, TypeOK
  <2>2. IsPrefix(p, q)
    BY <1>5, <2>1 DEF Below
  <2>3. Deletes(t, q)
    BY <1>1, <1>2, <1>3, <2>2 DEF Deletes, Is
  <2> QED BY <2>3 DEF Gone
<1>10. Inodes' = Inodes /\ \A u \in Threads : OpenAt(u)' = OpenAt(u)
  BY <1>6, <1>7 DEF Inodes, OpenAt
<1>11. PICK r2 : r2 = IF p \in gone THEN Moved(r, "backup") ELSE Answered(r, InternalError)
  OBVIOUS
<1>12. thread' = [thread EXCEPT ![t] = r2]
  BY <1>1, <1>5, <1>11 DEF Go, Answer, Become, Moved, Answered
<1>13. /\ r2 \in ThreadRecord /\ PcOK(r2) /\ WorkOK(r2, Known, OpenAt(t), Inodes)
       /\ r2.req = r.req
  <2>1. CASE p \in gone
    <3>1. "backup" \in Pcs
      BY DEF Pcs
    <3>2. r2 = Moved(r, "backup")
      BY <1>11, <2>1
    <3>3. /\ r2 \in ThreadRecord /\ WorkOK(r2, Known, OpenAt(t), Inodes)
          /\ r2.pc = "backup" /\ r2.req = r.req /\ r2.from = r.from /\ r2.to = r.to
      BY <1>3, <3>1, <3>2, GoesOn
    <3>4. PcOK(r2)
      BY <1>3, <3>3 DEF PcOK
    <3> QED BY <3>3, <3>4
  <2>2. CASE p \notin gone
    <3>1. r2 = Answered(r, InternalError) /\ InternalError \in Responses
      BY <1>11, <2>2, ResponsesTyped
    <3> QED BY <1>3, <3>1, Answering
  <2> QED BY <2>1, <2>2
<1>14. Known \subseteq Known'
  BY <1>1, <1>9, <1>12, <1>13, KnownStep
<1>15. WorkOK(r2, Known', OpenAt(t)', Inodes')
  BY <1>10, <1>13, <1>14, WorkMonotone
<1>16. SharedTyped'
  <2>1. writers' \subseteq WriterRecord'
    BY <1>6, <1>7, WritersTyped
  <2> QED BY <1>6, <1>7, <1>8, <2>1 DEF SharedTyped, IInv, TypeOK
<1>17. CatalogueOK'
  BY <1>6, <1>14 DEF IInv, CatalogueOK
<1> QED
  BY <1>1, <1>7, <1>9, <1>10, <1>12, <1>13, <1>15, <1>16, <1>17, StepKeeps

-----------------------------------------------------------------------------
(* The theorems. *)

LEMMA CopyStepKeeps ==
    ASSUME IInv, NEW t \in Threads, CopyStep(t)
    PROVE  IInv'
BY StatEntryKeeps, CreateEntryKeeps, NoConnectionKeeps, OpenFolderKeeps, ReadEntryKeeps,
   FolderCopiedKeeps, OpenAtDestinationKeeps, OpenAtSourceKeeps, SendChunkKeeps,
   FileCopiedKeeps DEF CopyStep

LEMMA ThreadStepKeeps ==
    ASSUME IInv, NEW t \in Threads, ThreadStep(t)
    PROVE  IInv'
BY LookupSourceKeeps, LookupTargetKeeps, LookupParentKeeps, PickServerKeeps, ConnectKeeps,
   ConnectFailsKeeps, CheckSourceKeeps, CopyStepKeeps, ReceiveTableKeeps, AddRowKeeps,
   RowsAddedKeeps, CreatePrimaryKeeps, CreateBackupKeeps, AddCreatedKeeps, DeletePrimaryKeeps,
   DeleteBackupKeeps, ForgetKeeps, SendAnswerKeeps DEF ThreadStep

LEMMA StutterKeeps ==
    ASSUME IInv, UNCHANGED vars
    PROVE  IInv'
<1>1. /\ UNCHANGED << cat, tree, backup, jammed, thread, disturbed >>
      /\ data' = data /\ writers' = writers
  BY DEF vars, fsVars
<1>2. data' \in Seq(Seq(Chunk)) /\ DOMAIN data' = DOMAIN data
  BY <1>1 DEF IInv, TypeOK
<1>3. writers' \subseteq WriterRecord' /\ \A u \in Threads : OpenAt(u) \subseteq OpenAt(u)'
  BY <1>1, <1>2, WritersTyped DEF OpenAt
<1> QED
  BY <1>1, <1>2, <1>3, WriterStepKeeps

LEMMA NextKeeps == IInv /\ [Next]_vars => IInv'
<1> SUFFICES ASSUME IInv, [Next]_vars PROVE IInv'
  OBVIOUS
<1>1. CASE \E t \in Threads : Accept(t) \/ ThreadStep(t)
  BY <1>1, AcceptKeeps, ThreadStepKeeps
<1>2. CASE \E w \in writers : WriteChunk(w) \/ EndWrite(w)
  BY <1>2, WriteChunkKeeps, EndWriteKeeps
<1>3. CASE UNCHANGED vars
  BY <1>3, StutterKeeps
<1> QED
  BY <1>1, <1>2, <1>3 DEF Next

(* In every state the servers that a copy is about to call have been       *)
(* looked up, and every inode that a tree or a WRITE handler refers to has *)
(* its data.                                                               *)
THEOREM TypeCorrect == Spec => []TypeOK
<1>1. IInv => TypeOK
  BY DEF IInv
<1> QED
  BY <1>1, InitOK, NextKeeps, PTL DEF Spec

(* What the catalogue names is on the disk of the server that it names,    *)
(* unless somebody has asked for its deletion: a row of the table of       *)
(* copied paths, added long after copy_ has made its entry, names nothing  *)
(* else (copy_request_handler.c:87).                                       *)
THEOREM ListedIsAlwaysThere == Spec => []ListedIsThere
<1>1. IInv => ListedIsThere
  <2> SUFFICES ASSUME IInv, NEW p \in Path, cat[p] # NoServer, ~ Exists(cat[p], p)
               PROVE  \E u \in Threads : Deletes(u, p)
    BY DEF ListedIsThere
  <2>1. <<cat[p], p>> \in Known
    BY DEF IInv, CatalogueOK
  <2> QED
    BY <2>1 DEF Known, Gone, Exists
<1> QED
  BY <1>1, InitOK, NextKeeps, PTL DEF Spec

-----------------------------------------------------------------------------
(* Prefixes. *)
LEMMA PrefixIs ==
    ASSUME NEW a \in Seq(STRING), NEW b \in Seq(STRING)
    PROVE  IsPrefix(a, b) <=> Len(a) <= Len(b) /\ \A i \in 1 .. Len(a) : a[i] = b[i]
<1>1. Len(a) \in Nat /\ Len(b) \in Nat
  OBVIOUS
<1>2. ASSUME Len(a) <= Len(b)
      PROVE  SubSeq(a, 1, Len(a)) = SubSeq(b, 1, Len(a)) <=> \A i \in 1 .. Len(a) : a[i] = b[i]
  <2>1. /\ SubSeq(a, 1, Len(a)) = a /\ a \in Seq(STRING)
        /\ SubSeq(b, 1, Len(a)) \in Seq(STRING) /\ Len(SubSeq(b, 1, Len(a))) = Len(a)
        /\ \A i \in 1 .. Len(a) : SubSeq(b, 1, Len(a))[i] = b[i]
    BY <1>1, <1>2, SubSeqFull
  <2> QED BY <2>1, SeqEqual
<1> QED
  BY <1>2 DEF IsPrefix

LEMMA PrefixOrder ==
    /\ \A a \in Seq(STRING) : IsPrefix(a, a)
    /\ \A a, b, c \in Seq(STRING) : IsPrefix(a, b) /\ IsPrefix(b, c) => IsPrefix(a, c)
    /\ \A a, b \in Seq(STRING) : IsPrefix(a, b) /\ IsPrefix(b, a) => a = b
<1>1. \A a \in Seq(STRING) : Len(a) \in Nat
  OBVIOUS
<1>2. ASSUME NEW a \in Seq(STRING) PROVE IsPrefix(a, a)
  BY <1>1, PrefixIs
<1>3. ASSUME NEW a \in Seq(STRING), NEW b \in Seq(STRING), NEW c \in Seq(STRING),
             IsPrefix(a, b), IsPrefix(b, c)
      PROVE  IsPrefix(a, c)
  <2>1. Len(a) \in Nat /\ Len(b) \in Nat /\ Len(c) \in Nat
    BY <1>1
  <2>2. /\ Len(a) <= Len(b) /\ \A i \in 1 .. Len(a) : a[i] = b[i]
        /\ Len(b) <= Len(c) /\ \A i \in 1 .. Len(b) : b[i] = c[i]
    BY <1>3, PrefixIs
  <2>3. Len(a) <= Len(c) /\ \A i \in 1 .. Len(a) : a[i] = c[i]
    BY <2>1, <2>2
  <2> QED BY <2>3, PrefixIs
<1>4. ASSUME NEW a \in Seq(STRING), NEW b \in Seq(STRING), IsPrefix(a, b), IsPrefix(b, a)
      PROVE  a = b
  <2>1. Len(a) \in Nat /\ Len(b) \in Nat
    BY <1>1
  <2>2. /\ Len(a) <= Len(b) /\ \A i \in 1 .. Len(a) : a[i] = b[i]
        /\ Len(b) <= Len(a)
    BY <1>4, PrefixIs
  <2> QED BY <2>1, <2>2, SeqEqual
<1> QED
  BY <1>2, <1>3, <1>4

(* Two prefixes of the same path are comparable. *)
LEMMA PrefixesCompare ==
    ASSUME NEW a \in Seq(STRING), NEW b \in Seq(STRING), NEW c \in Seq(STRING),
           IsPrefix(a, c), IsPrefix(b, c)
    PROVE  Comparable(a, b)
<1>1. Len(a) \in Nat /\ Len(b) \in Nat
  OBVIOUS
<1>2. /\ \A i \in 1 .. Len(a) : a[i] = c[i]
      /\ \A i \in 1 .. Len(b) : b[i] = c[i]
  BY PrefixIs
<1>3. CASE Len(a) <= Len(b)
  <2>1. \A i \in 1 .. Len(a) : a[i] = b[i]
    BY <1>1, <1>2, <1>3
  <2> QED BY <1>3, <2>1, PrefixIs DEF Comparable
<1>4. CASE Len(b) <= Len(a)
  <2>1. \A i \in 1 .. Len(b) : b[i] = a[i]
    BY <1>1, <1>2, <1>4
  <2> QED BY <1>4, <2>1, PrefixIs DEF Comparable
<1> QED
  BY <1>1, <1>3, <1>4

LEMMA PrefixAppend ==
    ASSUME NEW a \in Seq(STRING), NEW b \in Seq(STRING), NEW x \in STRING, IsPrefix(a, b)
    PROVE  IsPrefix(a, Append(b, x))
<1>1. Len(a) \in Nat /\ Len(b) \in Nat
  OBVIOUS
<1>2. PICK c : c = Append(b, x)
  OBVIOUS
<1>3. /\ c \in Seq(STRING) /\ Len(c) = Len(b) + 1
      /\ \A i \in 1 .. Len(b) : c[i] = b[i]
  BY <1>2, AppendProperties
<1>4. Len(a) <= Len(b) /\ \A i \in 1 .. Len(a) : a[i] = b[i]
  BY PrefixIs
<1>5. Len(a) <= Len(c) /\ \A i \in 1 .. Len(a) : a[i] = c[i]
  BY <1>1, <1>3, <1>4
<1> QED
  BY <1>2, <1>3, <1>5, PrefixIs

(* What is below p begins with the same name. *)
LEMMA PrefixFirst ==
    ASSUME NEW p \in Path, NEW q \in Path, Comparable(p, q)
    PROVE  p[1] = q[1]
<1>1. /\ p \in Seq(STRING) /\ q \in Seq(STRING)
      /\ Len(p) \in Nat \ {0} /\ Len(q) \in Nat \ {0}
  BY PathFacts
<1>2. CASE IsPrefix(p, q)
  <2>1. \A i \in 1 .. Len(p) : p[i] = q[i]
    BY <1>1, <1>2, PrefixIs
  <2> QED BY <1>1, <2>1
<1>3. CASE IsPrefix(q, p)
  <2>1. \A i \in 1 .. Len(q) : p[i] = q[i]
    BY <1>1, <1>3, PrefixIs
  <2> QED BY <1>1, <2>1
<1> QED
  BY <1>2, <1>3 DEF Comparable

(* The parent of p is the last of its prefixes. *)
LEMMA PrefixFront ==
    ASSUME NEW a \in Seq(STRING), NEW b \in Seq(STRING), IsPrefix(a, b), a # b
    PROVE  /\ Front(b) \in Seq(STRING) /\ IsPrefix(a, Front(b)) /\ Len(a) < Len(b)
<1>1. Len(a) \in Nat /\ Len(b) \in Nat
  OBVIOUS
<1>2. Len(a) <= Len(b) /\ \A i \in 1 .. Len(a) : a[i] = b[i]
  BY PrefixIs
<1>3. Len(a) # Len(b)
  BY <1>1, <1>2, SeqEqual
<1>4. Len(a) < Len(b)
  BY <1>1, <1>2, <1>3
<1>5. /\ Front(b) \in Seq(STRING) /\ Len(Front(b)) = Len(b) - 1
      /\ \A i \in 1 .. Len(b) - 1 : Front(b)[i] = b[i]
  <2>1. PICK n : n = Len(b) - 1
    OBVIOUS
  <2>2. n \in Nat /\ \A i \in 1 .. n : b[i] \in STRING
    BY <1>1, <1>4, <2>1
  <2>3. /\ SubSeq(b, 1, n) \in Seq(STRING) /\ Len(SubSeq(b, 1, n)) = n
        /\ \A i \in 1 .. n : SubSeq(b, 1, n)[i] = b[i]
    BY <2>2, SubSeqProperties
  <2> QED BY <2>1, <2>3 DEF Front
<1>6. Len(a) <= Len(Front(b)) /\ \A i \in 1 .. Len(a) : a[i] = Front(b)[i]
  BY <1>1, <1>2, <1>4, <1>5
<1> QED
  BY <1>4, <1>5, <1>6, PrefixIs

-----------------------------------------------------------------------------
(* More of the inductive invariant: who has company, what a copy has made, *)
(* what is listed, and the backup of a copy.                               *)

(* What exists is in folders. *)
Rooted ==
    \A s \in SS, p, q \in Path :
        Exists(s, q) /\ IsPrefix(p, q) /\ p # q => tree[s][p] = Folder

(* Of two threads with related paths one is disturbed; if it is only the   *)
(* one that had begun, that one had ended its work.                        *)
Linked(t, u) ==
    /\ t # u /\ ~ At(t, "idle") /\ ~ At(u, "idle")
    /\ Related(thread[t].req, thread[u].req)
Older == \A t, u \in Threads : Linked(t, u) => t \in disturbed \/ u \in disturbed
Alone == \A t, u \in Threads : Linked(t, u) /\ t \notin disturbed => ~ AtWork(u)

(* All that a copy makes is at or below its destination; what it began     *)
(* with, the source itself, is at the bottom of the stack.                 *)
WalkOK(r) ==
    /\ r.pc \notin {"copy", "waits"} => r.work = <<>>
    /\ r.req.op # "copy" => r.rows = <<>>
    /\ \A k \in 1 .. Len(r.work) : IsPrefix(r.req.dest, r.work[k].dst)
    /\ \A k \in 1 .. Len(r.rows) : IsPrefix(r.req.dest, r.rows[k])
    /\ r.work # <<>> =>
          r.work[Len(r.work)].src = r.req.path /\ r.work[Len(r.work)].dst = r.req.dest
Walks == \A t \in Threads : WalkOK(thread[t])

(* What exists at p, where nobody deletes, is listed; or the only one that *)
(* makes p is about to list it, or has not said OK.                        *)
NoDelete(p) == \A u \in Threads : Is(u, "delete") => thread[u].req.path[1] # p[1]
OnlyMaker(t, p) == \A u \in Threads : Makes(u, p) <=> u = t
Made(r, p) ==
    \/ \E k \in 1 .. Len(r.rows) : r.rows[k] = p
    \/ \E k \in 1 .. Len(r.work) :
          r.work[k].dst = p /\ r.work[k].act \notin {"stat", "create"}
    \/ r.pc \in {"backup", "add"} /\ p = r.req.path
Said(r, listed, s, p) ==
    /\ r.pc \notin {"parent", "connect", "check", "primary"}
    /\ r.pc \in {"source", "target"} => listed = s
    /\ r.pc \in {"copy", "table", "rows", "backup", "add"} =>
          s = r.to /\ (listed = s \/ Made(r, p))
    /\ r.pc \in {"answer", "done"} /\ r.resp = OK => listed = s
ListOK ==
    \A s \in SS, p \in Path : NoDelete(p) /\ Exists(s, p) =>
        /\ (\A t \in Threads : ~ Makes(t, p)) => cat[p] = s
        /\ \A t \in Threads : OnlyMaker(t, p) => Said(thread[t], cat[p], s, p)

(* A copy has no backup, and is listed when it is confirmed. *)
Quiet(p, T) == \A v \in Threads \ T : Elsewhere(v, p)
BackedUp(b, listed) == b # None => listed # NoServer
CopyOnly(r, b, listed) ==
    /\ r.pc \in {"source", "target"} => BackedUp(b, listed)
    /\ r.pc \in {"parent", "connect", "check", "copy", "table", "waits", "rows"} => b = None
    /\ r.pc \in {"table", "rows"} =>
          listed = r.to \/ \E k \in 1 .. Len(r.rows) : r.rows[k] = r.req.dest
    /\ r.pc \in {"answer", "done"} /\ r.resp = OK => b = None /\ listed = r.to
Refused(r) == r.pc # "forget" /\ r.resp # OK
BackupOK == \A p \in Path : Quiet(p, {}) => BackedUp(backup[p], cat[p])
CopyOK ==
    \A t \in Threads : LET p == thread[t].req.dest IN
        Is(t, "copy") /\ Quiet(p, {t}) => CopyOnly(thread[t], backup[p], cat[p])
RefusedOK ==
    \A t, u \in Threads : LET p == thread[t].req.dest IN
        /\ Is(t, "copy") /\ Confirmed(t)
        /\ Is(u, "delete") /\ thread[u].req.path = p /\ u \notin disturbed
        /\ Quiet(p, {t, u})
        => backup[p] = None /\ cat[p] = thread[t].to /\ Refused(thread[u])

TInv ==
    /\ IInv /\ Rooted /\ Older /\ Alone /\ Walks
    /\ ListOK /\ BackupOK /\ CopyOK /\ RefusedOK

-----------------------------------------------------------------------------
(* What a step of a thread that is at work must do. *)
Touches(t, p) == \E q \in Paths(thread[t].req) : Comparable(p, q)
StepOK(t, r) ==
    /\ thread[t].pc \notin {"idle", "done"} /\ thread' = [thread EXCEPT ![t] = r]
    /\ r.req = thread[t].req /\ r.pc # "idle"
    /\ disturbed' = disturbed
    /\ \A w \in writers' : w.by = t \/ \E v \in writers : v.by = w.by
    /\ Rooted' /\ WalkOK(r)
    /\ \A p \in Path : cat'[p] # cat[p] =>
          Makes(t, p) \/ (Is(t, "delete") /\ thread[t].req.path[1] = p[1])
    /\ \A p \in Path : backup'[p] # backup[p] => Touches(t, p)
    /\ \A s \in SS, p \in Path : tree'[s][p] # None =>
          Exists(s, p) \/ (Makes(t, p) /\ Said(r, cat'[p], s, p))
    /\ \A s \in SS, p \in Path :
          OnlyMaker(t, p) /\ NoDelete(p) /\ Exists(s, p) /\ Said(thread[t], cat[p], s, p) =>
             Said(r, cat'[p], s, p)
    /\ Is(t, "copy") => LET p == thread[t].req.dest IN
          CopyOnly(thread[t], backup[p], cat[p]) => CopyOnly(r, backup'[p], cat'[p])
    /\ Is(t, "delete") => LET p == thread[t].req.path IN
          backup[p] = None /\ Refused(thread[t]) =>
             Refused(r) /\ backup'[p] = None /\ cat'[p] = cat[p]

LEMMA MakesTouches ==
    ASSUME NEW t \in Threads, NEW p, Makes(t, p)
    PROVE  Touches(t, p) /\ ~ Is(t, "delete")
BY DEF Makes, Touches, Target, Paths, Comparable

(* The requests stay, and with them whose paths are related. *)
LEMMA RequestsStay ==
    ASSUME IInv, NEW t \in Threads, NEW r, StepOK(t, r)
    PROVE  /\ thread'[t] = r /\ \A u \in Threads \ {t} : thread'[u] = thread[u]
           /\ \A u \in Threads : /\ thread'[u].req = thread[u].req
                                 /\ (At(u, "idle"))' = At(u, "idle")
           /\ \A u \in Threads : \A p : Makes(u, p)' = Makes(u, p)
           /\ \A p : NoDelete(p)' = NoDelete(p)
           /\ \A u \in Threads : \A p : OnlyMaker(u, p)' = OnlyMaker(u, p)
           /\ \A u \in Threads : \A p : Elsewhere(u, p)' = Elsewhere(u, p)
           /\ \A p, T : Quiet(p, T)' = Quiet(p, T)
           /\ \A u, v \in Threads : Linked(u, v)' = Linked(u, v)
           /\ \A u \in Threads \ {t} : AtWork(u)' => AtWork(u)
           /\ AtWork(t)
<1>1. DOMAIN thread = Threads /\ \A u \in Threads : thread[u] \in ThreadRecord
  BY DEF IInv, TypeOK
<1>2. thread'[t] = r /\ \A u \in Threads \ {t} : thread'[u] = thread[u]
  BY <1>1 DEF StepOK
<1>3. \A u \in Threads : thread'[u].req = thread[u].req /\ (At(u, "idle"))' = At(u, "idle")
  BY <1>2 DEF StepOK, At
<1>4. \A u \in Threads : \A p : Makes(u, p)' = Makes(u, p)
  BY <1>3 DEF Makes, Is, At
<1>5. \A p : NoDelete(p)' = NoDelete(p)
  BY <1>3 DEF NoDelete, Is
<1>6. \A u \in Threads : \A p : OnlyMaker(u, p)' = OnlyMaker(u, p)
  BY <1>4 DEF OnlyMaker
<1>7. \A u \in Threads : \A p : Elsewhere(u, p)' = Elsewhere(u, p)
  BY <1>3 DEF Elsewhere, Is
<1>8. \A p, T : Quiet(p, T)' = Quiet(p, T)
  BY <1>7 DEF Quiet
<1>9. \A u, v \in Threads : Linked(u, v)' = Linked(u, v)
  BY <1>3 DEF Linked
<1>10. \A u \in Threads \ {t} : AtWork(u)' => AtWork(u)
  BY <1>2 DEF AtWork, StepOK
<1>11. AtWork(t)
  BY DEF AtWork, StepOK
<1> QED
  BY <1>2, <1>3, <1>4, <1>5, <1>6, <1>7, <1>8, <1>9, <1>10, <1>11

LEMMA StepKeepsRest ==
    ASSUME TInv, IInv', NEW t \in Threads, NEW r, StepOK(t, r)
    PROVE  TInv'
<1>1. IInv /\ Older /\ Alone /\ Walks /\ ListOK /\ BackupOK /\ CopyOK /\ RefusedOK
  BY DEF TInv
<1>2. /\ thread'[t] = r /\ \A u \in Threads \ {t} : thread'[u] = thread[u]
      /\ \A u \in Threads : thread'[u].req = thread[u].req
      /\ \A u \in Threads : \A p : Makes(u, p)' = Makes(u, p)
      /\ \A p : NoDelete(p)' = NoDelete(p)
      /\ \A u \in Threads : \A p : OnlyMaker(u, p)' = OnlyMaker(u, p)
      /\ \A p, T : Quiet(p, T)' = Quiet(p, T)
      /\ \A u, v \in Threads : Linked(u, v)' = Linked(u, v)
      /\ \A u \in Threads \ {t} : AtWork(u)' => AtWork(u)
      /\ AtWork(t)
  BY <1>1, RequestsStay
<1>3. /\ disturbed' = disturbed /\ Rooted' /\ WalkOK(r) /\ r.req = thread[t].req
      /\ thread[t].pc # "done" /\ ~ At(t, "idle")
  BY DEF StepOK, At
<1>4. Older'
  BY <1>1, <1>2, <1>3 DEF Older
<1>5. Alone'
  BY <1>1, <1>2, <1>3 DEF Alone
<1>6. Walks'
  BY <1>1, <1>2, <1>3 DEF Walks
<1>7. ASSUME NEW p \in Path, Elsewhere(t, p)
      PROVE  cat'[p] = cat[p] /\ backup'[p] = backup[p]
  <2>1. ~ Touches(t, p) /\ ~ (Is(t, "delete") /\ thread[t].req.path[1] = p[1])
    BY <1>3, <1>7 DEF Elsewhere, Touches
  <2> QED BY <2>1, MakesTouches DEF StepOK
<1>8. ListOK'
  <2> SUFFICES ASSUME NEW s \in SS, NEW p \in Path, NoDelete(p), tree'[s][p] # None
               PROVE  /\ (\A u \in Threads : ~ Makes(u, p)) => cat'[p] = s
                      /\ \A u \in Threads : OnlyMaker(u, p) => Said(thread'[u], cat'[p], s, p)
    BY <1>2 DEF ListOK, Exists
  <2>1. Exists(s, p) \/ (Makes(t, p) /\ Said(r, cat'[p], s, p))
    BY DEF StepOK
  <2>2. cat'[p] # cat[p] => Makes(t, p)
    BY DEF StepOK, NoDelete
  <2>3. ASSUME \A u \in Threads : ~ Makes(u, p)
        PROVE  cat'[p] = s
    BY <1>1, <2>1, <2>2, <2>3 DEF ListOK
  <2>4. ASSUME NEW u \in Threads, OnlyMaker(u, p)
        PROVE  Said(thread'[u], cat'[p], s, p)
    <3>1. CASE u = t /\ ~ Exists(s, p)
      BY <1>2, <2>1, <3>1
    <3>2. CASE u = t /\ Exists(s, p)
      <4>1. Said(thread[t], cat[p], s, p)
        BY <1>1, <2>4, <3>2 DEF ListOK
      <4>2. Said(r, cat'[p], s, p)
        BY <2>4, <3>2, <4>1 DEF StepOK
      <4> QED BY <1>2, <3>2, <4>2
    <3>3. CASE u # t
      <4>1. ~ Makes(t, p)
        BY <2>4, <3>3 DEF OnlyMaker
      <4> QED BY <1>1, <1>2, <2>1, <2>2, <2>4, <3>3, <4>1 DEF ListOK
    <3> QED BY <3>1, <3>2, <3>3
  <2> QED BY <2>3, <2>4
<1>9. BackupOK'
  <2> SUFFICES ASSUME NEW p \in Path, Quiet(p, {}) PROVE BackedUp(backup'[p], cat'[p])
    BY <1>2 DEF BackupOK, BackedUp
  <2> QED BY <1>1, <1>7 DEF BackupOK, Quiet
<1>10. ASSUME NEW u \in Threads, Is(u, "copy")
       PROVE  thread[u].req.dest \in Path
  <2>1. thread[u].req \in Requests
    BY <1>1, <1>10, ThreadFacts DEF Is, PcOK, IdleThread, NoRequest
  <2> QED BY <1>10, <2>1, RequestFacts DEF Is
<1>11. CopyOK'
  <2> SUFFICES ASSUME NEW u \in Threads, NEW p, p = thread[u].req.dest, Is(u, "copy"),
                      Quiet(p, {u})
               PROVE  CopyOnly(thread'[u], backup'[p], cat'[p])
    BY <1>2 DEF CopyOK, Is
  <2>1. CopyOnly(thread[u], backup[p], cat[p])
    BY <1>1 DEF CopyOK
  <2>2. CASE u = t
    BY <1>2, <2>1, <2>2 DEF StepOK
  <2>3. CASE u # t
    BY <1>2, <1>7, <1>10, <2>1, <2>3 DEF Quiet
  <2> QED BY <2>2, <2>3
<1>12. RefusedOK'
  <2> SUFFICES ASSUME NEW u \in Threads, NEW v \in Threads, NEW p, p = thread[u].req.dest,
                      Is(u, "copy"), Confirmed(u)', Is(v, "delete"), thread[v].req.path = p,
                      v \notin disturbed, Quiet(p, {u, v})
               PROVE  backup'[p] = None /\ cat'[p] = thread'[u].to /\ Refused(thread'[v])
    BY <1>2, <1>3 DEF RefusedOK, Is
  <2>1. p \in Path /\ u # v
    BY <1>10 DEF Is
  <2>2. u # t
    <3> SUFFICES ASSUME u = t PROVE FALSE
      OBVIOUS
    <3>1. ~ At(v, "idle")
      BY <1>1, ThreadFacts DEF At, Is, PcOK, IdleThread, NoRequest
    <3>2. Related(thread[v].req, thread[u].req)
      <4>1. p \in Paths(thread[v].req) /\ p \in Paths(thread[u].req)
        BY DEF Paths, Is
      <4>2. Comparable(p, p)
        BY <2>1, PathFacts, PrefixOrder DEF Comparable
      <4> QED BY <4>1, <4>2 DEF Related
    <3>3. Linked(v, u)
      BY <1>3, <2>1, <3>1, <3>2 DEF Linked
    <3> QED BY <1>1, <1>2, <3>3 DEF Alone
  <2>3. thread'[u] = thread[u] /\ Confirmed(u)
    BY <1>2, <2>2 DEF Confirmed, At
  <2>4. backup[p] = None /\ cat[p] = thread[u].to /\ Refused(thread[v])
    BY <1>1, <2>3 DEF RefusedOK
  <2>5. CASE v = t
    BY <1>2, <2>3, <2>4, <2>5 DEF StepOK
  <2>6. CASE v # t
    <3>1. Elsewhere(t, p)
      BY <2>2, <2>6 DEF Quiet
    <3> QED BY <1>2, <1>7, <2>1, <2>3, <2>4, <2>6, <3>1
  <2> QED BY <2>5, <2>6
<1> QED
  BY <1>3, <1>4, <1>5, <1>6, <1>8, <1>9, <1>11, <1>12 DEF TInv

-----------------------------------------------------------------------------
(* The initial state, a new request, and the WRITE handlers. *)
LEMMA RestInit == Init => TInv
<1> SUFFICES ASSUME Init PROVE TInv
  OBVIOUS
<1>1. IInv
  BY InitOK
<1>2. PICK W \in Worlds :
        /\ tree = W /\ cat = [p \in Path |-> Owner(W, p)]
        /\ backup = [p \in Path |-> IF Owner(W, p) = NoServer THEN None
                                     ELSE Kind(W[Owner(W, p)][p])]
  BY DEF Init
<1>3. /\ \A t \in Threads : thread[t] = IdleThread
      /\ \A t \in Threads : At(t, "idle") /\ thread[t].req.op = "none"
      /\ \A t \in Threads : thread[t].work = <<>> /\ thread[t].rows = <<>>
  BY DEF Init, IdleThread, NoRequest, At
<1>4. Rooted
  BY <1>2, WorldsAssumption DEF Rooted, Exists
<1>5. Older /\ Alone
  BY <1>3 DEF Older, Alone, Linked
<1>6. Walks
  <2>1. Len(<<>>) = 0
    OBVIOUS
  <2> QED BY <1>3, <2>1 DEF Walks, WalkOK
<1>7. ListOK
  <2>1. ASSUME NEW s \in SS, NEW p \in Path, Exists(s, p) PROVE cat[p] = s
    BY <1>2, <2>1, CopyingAssumption DEF Exists, Owner
  <2>2. \A t \in Threads, p \in Path : ~ Makes(t, p)
    BY <1>3 DEF Makes
  <2> QED BY <2>1, <2>2 DEF ListOK, OnlyMaker
<1>8. BackupOK
  BY <1>2 DEF BackupOK, BackedUp
<1>9. CopyOK /\ RefusedOK
  BY <1>3 DEF CopyOK, RefusedOK, Is
<1> QED
  BY <1>1, <1>4, <1>5, <1>6, <1>7, <1>8, <1>9 DEF TInv

LEMMA AcceptKeepsRest ==
    ASSUME TInv, IInv', NEW t \in Threads, Accept(t)
    PROVE  TInv'
<1>1. /\ IInv /\ Rooted /\ Older /\ Alone /\ Walks /\ ListOK /\ BackupOK /\ CopyOK /\ RefusedOK
      /\ At(t, "idle") /\ UNCHANGED << cat, tree, backup, writers >>
  BY DEF TInv, Accept, fsVars
<1>2. thread[t] = IdleThread /\ DOMAIN thread = Threads
  BY <1>1, ThreadFacts DEF At, PcOK, IInv, TypeOK
<1>3. PICK q \in Requests :
        /\ thread' = [thread EXCEPT ![t] = [IdleThread EXCEPT !.req = q,
             !.pc = IF q.op \in {"copy", "delete"} THEN "source" ELSE "target"]]
        /\ disturbed' = disturbed \cup Rivals(q)
                           \cup IF \E u \in Rivals(q) : AtWork(u) THEN {t} ELSE {}
  BY <1>2 DEF Accept, Become
<1>4. PICK r : r = [IdleThread EXCEPT !.req = q,
             !.pc = IF q.op \in {"copy", "delete"} THEN "source" ELSE "target"]
  OBVIOUS
<1>5. /\ r.work = <<>> /\ r.rows = <<>> /\ r.req = q /\ r.resp = NoAnswer
      /\ r.pc \in {"source", "target"}
  BY <1>4 DEF IdleThread
<1>6. thread'[t] = r /\ \A u \in Threads \ {t} : thread'[u] = thread[u]
  BY <1>2, <1>3, <1>4
<1>7. \A u \in Threads \ {t} : /\ (At(u, "idle"))' = At(u, "idle")
                               /\ AtWork(u)' = AtWork(u)
                               /\ \A p : Makes(u, p)' = Makes(u, p)
  BY <1>1, <1>6 DEF At, AtWork, Makes, Is
<1>8. \A u, v \in Threads \ {t} : Linked(u, v)' = Linked(u, v)
  BY <1>6, <1>7 DEF Linked
<1>9. \A u \in Threads \ {t} : Linked(t, u)' \/ Linked(u, t)' => u \in Rivals(q)
  <2>1. \A a, b : Related(a, b) => Related(b, a)
    BY DEF Related, Comparable
  <2> QED BY <1>5, <1>6, <1>7, <2>1 DEF Linked, Rivals
<1>10. Older'
  BY <1>1, <1>3, <1>8, <1>9 DEF Older, Linked
<1>11. Alone'
  <2> SUFFICES ASSUME NEW u \in Threads, NEW v \in Threads, Linked(u, v)', u \notin disturbed',
                      AtWork(v)'
               PROVE  FALSE
    BY DEF Alone
  <2>1. u # v
    BY DEF Linked
  <2>2. CASE v = t
    BY <1>3, <1>9, <2>1, <2>2
  <2>3. CASE u = t
    BY <1>3, <1>7, <1>9, <2>1, <2>3
  <2>4. CASE u # t /\ v # t
    BY <1>1, <1>3, <1>7, <1>8, <2>4 DEF Alone
  <2> QED BY <2>2, <2>3, <2>4
<1>12. Rooted' /\ Walks'
  <2>1. Len(<<>>) = 0
    OBVIOUS
  <2>2. WalkOK(r)
    BY <1>5, <2>1 DEF WalkOK
  <2>3. Walks'
    BY <1>1, <1>6, <2>2 DEF Walks
  <2> QED BY <1>1, <2>3 DEF Rooted, Exists
<1>13. \A p : ~ Makes(t, p)
  BY <1>1 DEF Makes
<1>14. ListOK'
  <2> SUFFICES ASSUME NEW s \in SS, NEW p \in Path, NoDelete(p)', Exists(s, p)
               PROVE  /\ (\A u \in Threads : ~ Makes(u, p)') => cat[p] = s
                      /\ \A u \in Threads : OnlyMaker(u, p)' => Said(thread'[u], cat[p], s, p)
    BY <1>1 DEF ListOK, Exists
  <2>1. NoDelete(p)
    <3>1. ~ Is(t, "delete")
      BY <1>2 DEF Is, IdleThread, NoRequest
    <3> QED BY <1>6, <3>1 DEF NoDelete, Is
  <2>2. (\A u \in Threads \ {t} : ~ Makes(u, p)) => cat[p] = s
    BY <1>1, <1>13, <2>1 DEF ListOK
  <2>3. ASSUME NEW u \in Threads, OnlyMaker(u, p)'
        PROVE  Said(thread'[u], cat[p], s, p)
    <3>1. CASE u = t
      <4>1. cat[p] = s
        BY <1>7, <2>2, <2>3, <3>1 DEF OnlyMaker
      <4>2. Said(r, cat[p], s, p)
        BY <1>5, <4>1 DEF Said
      <4> QED BY <1>6, <3>1, <4>2
    <3>2. CASE u # t
      <4>1. OnlyMaker(u, p)
        BY <1>7, <1>13, <2>3, <3>2 DEF OnlyMaker
      <4> QED BY <1>1, <1>6, <2>1, <3>2, <4>1 DEF ListOK
    <3> QED BY <3>1, <3>2
  <2> QED BY <1>7, <2>2, <2>3
<1>15. \A v \in Threads : \A p : Elsewhere(v, p)' => Elsewhere(v, p)
  BY <1>1, <1>6, <1>7 DEF Elsewhere, Is
<1>16. \A p, T : Quiet(p, T)' => Quiet(p, T) /\ Quiet(p, T \ {t})
  BY <1>1, <1>15 DEF Quiet, Elsewhere
<1>17. BackupOK'
  BY <1>1, <1>16 DEF BackupOK
<1>18. CopyOK'
  <2> SUFFICES ASSUME NEW u \in Threads, NEW p, p = thread'[u].req.dest, Is(u, "copy")',
                      Quiet(p, {u})'
               PROVE  CopyOnly(thread'[u], backup[p], cat[p])
    BY <1>1 DEF CopyOK
  <2>1. CASE u = t
    <3>1. p \in Path
      BY <1>5, <1>6, <2>1, RequestFacts DEF Is
    <3>2. Quiet(p, {})
      <4>1. {t} \ {t} = {}
        OBVIOUS
      <4> QED BY <1>16, <2>1, <4>1
    <3>3. BackedUp(backup[p], cat[p])
      BY <1>1, <3>1, <3>2 DEF BackupOK
    <3>4. CopyOnly(r, backup[p], cat[p])
      BY <1>5, <3>3 DEF CopyOnly
    <3> QED BY <1>6, <2>1, <3>4
  <2>2. CASE u # t
    BY <1>1, <1>6, <1>16, <2>2 DEF CopyOK, Is
  <2> QED BY <2>1, <2>2
<1>19. RefusedOK'
  <2> SUFFICES ASSUME NEW u \in Threads, NEW v \in Threads, NEW p, p = thread'[u].req.dest,
                      Is(u, "copy")', Confirmed(u)', Is(v, "delete")',
                      thread'[v].req.path = p, v \notin disturbed', Quiet(p, {u, v})'
               PROVE  backup[p] = None /\ cat[p] = thread'[u].to /\ Refused(thread'[v])
    BY <1>1 DEF RefusedOK
  <2>1. u # t
    BY <1>5, <1>6 DEF Confirmed, At
  <2>2. Is(u, "copy") /\ Confirmed(u) /\ p = thread[u].req.dest /\ thread'[u] = thread[u]
    BY <1>6, <2>1 DEF Confirmed, At, Is
  <2>3. CASE v = t
    <3>1. Quiet(p, {u})
      <4>1. {u, t} \ {t} = {u}
        BY <2>1
      <4> QED BY <1>16, <2>3, <4>1
    <3>2. CopyOnly(thread[u], backup[p], cat[p])
      BY <1>1, <2>2, <3>1 DEF CopyOK
    <3>3. backup[p] = None /\ cat[p] = thread[u].to
      BY <2>2, <3>2 DEF CopyOnly, Confirmed, At
    <3>4. Refused(r)
      BY <1>5 DEF Refused, OK, NoAnswer
    <3> QED BY <1>6, <2>2, <2>3, <3>3, <3>4
  <2>4. CASE v # t
    BY <1>1, <1>3, <1>6, <1>16, <2>2, <2>4 DEF RefusedOK, Is
  <2> QED BY <2>3, <2>4
<1> QED
  BY <1>10, <1>11, <1>12, <1>14, <1>17, <1>18, <1>19 DEF TInv

(* A step of a WRITE handler, or none. *)
LEMMA WriterKeepsRest ==
    ASSUME TInv, IInv', UNCHANGED << cat, tree, backup, thread, disturbed >>,
           \A w \in writers' : \E v \in writers : v.by = w.by
    PROVE  TInv'
<1>1. Rooted /\ Older /\ Alone /\ Walks /\ ListOK /\ BackupOK /\ CopyOK /\ RefusedOK
  BY DEF TInv
<1>2. /\ \A t, u \in Threads : Linked(t, u)' = Linked(t, u)
      /\ \A t \in Threads : \A p : /\ Makes(t, p)' = Makes(t, p)
                                   /\ OnlyMaker(t, p)' = OnlyMaker(t, p)
      /\ \A p : NoDelete(p)' = NoDelete(p)
      /\ \A p, T : Quiet(p, T)' = Quiet(p, T)
      /\ \A t \in Threads : Confirmed(t)' = Confirmed(t) /\ (Is(t, "copy"))' = Is(t, "copy")
                            /\ (Is(t, "delete"))' = Is(t, "delete")
      /\ \A s, p : Exists(s, p)' = Exists(s, p)
  BY DEF Linked, At, Makes, Is, OnlyMaker, NoDelete, Quiet, Elsewhere, Confirmed, Exists
<1>3. \A t \in Threads : AtWork(t)' => AtWork(t)
  BY DEF AtWork
<1>4. Rooted' /\ Older' /\ Alone' /\ Walks'
  BY <1>1, <1>2, <1>3 DEF Rooted, Older, Alone, Walks
<1>5. ListOK' /\ BackupOK'
  BY <1>1, <1>2 DEF ListOK, BackupOK
<1>6. CopyOK' /\ RefusedOK'
  BY <1>1, <1>2 DEF CopyOK, RefusedOK
<1> QED
  BY <1>4, <1>5, <1>6 DEF TInv

-----------------------------------------------------------------------------
(* The steps that change nothing but their thread, and those that fail. *)

LEMMA WalkMoved ==
    ASSUME NEW r, NEW r2, WalkOK(r), r2.work = r.work, r2.rows = r.rows, r2.req = r.req,
           r.pc \notin {"copy", "waits"} \/ r2.pc \in {"copy", "waits"}
    PROVE  WalkOK(r2)
BY DEF WalkOK

LEMMA WalkFacts ==
    ASSUME TInv, NEW t \in Threads
    PROVE  /\ thread[t] \in ThreadRecord /\ PcOK(thread[t]) /\ WalkOK(thread[t])
           /\ DOMAIN thread = Threads /\ Rooted
BY ThreadFacts DEF TInv, Walks, IInv, TypeOK

LEMMA QuietStepOK ==
    ASSUME TInv, NEW t \in Threads, thread[t].pc \notin {"idle", "done"}, NEW r,
           thread' = [thread EXCEPT ![t] = r], r.req = thread[t].req, r.pc # "idle",
           UNCHANGED << cat, tree, backup, disturbed >>,
           \A w \in writers' : w.by = t \/ \E v \in writers : v.by = w.by,
           WalkOK(r),
           \A s \in SS, p \in Path :
              OnlyMaker(t, p) /\ NoDelete(p) /\ Exists(s, p) /\ Said(thread[t], cat[p], s, p)
              => Said(r, cat[p], s, p),
           Is(t, "copy") => LET p == thread[t].req.dest IN
              CopyOnly(thread[t], backup[p], cat[p]) => CopyOnly(r, backup[p], cat[p]),
           Is(t, "delete") /\ Refused(thread[t]) => Refused(r)
    PROVE  StepOK(t, r)
<1>1. Rooted' /\ \A s \in SS, p \in Path : tree'[s][p] # None => Exists(s, p)
  BY DEF TInv, Rooted, Exists
<1> QED
  BY <1>1 DEF StepOK

LEMMA FailOK ==
    ASSUME TInv, NEW t \in Threads, thread[t].pc \notin {"idle", "done"},
           NEW resp \in Responses, resp # OK, Answer(t, resp),
           UNCHANGED << cat, backup, disturbed, writers >>, Rooted',
           \A s \in SS, p \in Path : tree'[s][p] # None => tree[s][p] # None
    PROVE  StepOK(t, Answered(thread[t], resp))
<1>1. PICK r, a : r = thread[t] /\ a = Answered(r, resp)
  OBVIOUS
<1>2. r \in ThreadRecord /\ WalkOK(r) /\ thread' = [thread EXCEPT ![t] = a]
  BY <1>1, WalkFacts DEF Answer, Become, Answered
<1>3. /\ a.pc = "answer" /\ a.work = <<>> /\ a.rows = r.rows /\ a.req = r.req /\ a.resp = resp
  BY <1>1, <1>2 DEF ThreadRecord, Answered
<1>4. WalkOK(a)
  <2>1. Len(<<>>) = 0
    OBVIOUS
  <2> QED BY <1>2, <1>3, <2>1 DEF WalkOK
<1>5. /\ \A c, s, p : Said(a, c, s, p)
      /\ \A b, c : CopyOnly(a, b, c)
      /\ Refused(a)
  BY <1>3 DEF Said, CopyOnly, Refused
<1> QED
  BY <1>1, <1>2, <1>3, <1>4, <1>5 DEF StepOK, Exists

(* A failure that leaves all that is shared but the locks. *)
LEMMA PlainFailOK ==
    ASSUME TInv, NEW t \in Threads, thread[t].pc \notin {"idle", "done"},
           NEW resp \in Responses, resp # OK, Answer(t, resp),
           UNCHANGED << cat, tree, backup, disturbed, writers >>
    PROVE  StepOK(t, Answered(thread[t], resp))
<1>1. Rooted'
  BY DEF TInv, Rooted, Exists
<1> QED
  BY <1>1, FailOK

LEMMA Failures ==
    /\ NotFound \in Responses /\ NotFound # OK
    /\ AlreadyExists \in Responses /\ AlreadyExists # OK
    /\ InternalError \in Responses /\ InternalError # OK
BY DEF Responses, NotFound, AlreadyExists, InternalError, OK

LEMMA LookupSourceOK ==
    ASSUME TInv, NEW t \in Threads, LookupSource(t)
    PROVE  \E r : StepOK(t, r)
<1>1. PICK r : r = thread[t]
  OBVIOUS
<1>2. r \in ThreadRecord /\ PcOK(r) /\ WalkOK(r) /\ r.pc = "source"
  BY <1>1, WalkFacts DEF LookupSource, At
<1>3. UNCHANGED << cat, tree, backup, disturbed, writers >>
  BY DEF LookupSource, fsVars
<1>4. CASE cat[r.req.path] = NoServer
  BY <1>1, <1>2, <1>3, <1>4, PlainFailOK, Failures DEF LookupSource
<1>5. CASE cat[r.req.path] # NoServer
  <2>1. PICK r2 : r2 = [r EXCEPT !.from = cat[r.req.path],
                                 !.pc = IF r.req.op = "copy" THEN "target" ELSE "connect"]
    OBVIOUS
  <2>2. thread' = [thread EXCEPT ![t] = r2]
    BY <1>1, <1>5, <2>1 DEF LookupSource, Become
  <2>3. /\ r2.work = r.work /\ r2.rows = r.rows /\ r2.req = r.req /\ r2.resp = r.resp
        /\ r2.pc = (IF r.req.op = "copy" THEN "target" ELSE "connect")
        /\ r.req.op \in {"copy", "delete"}
    BY <1>2, <2>1 DEF ThreadRecord, PcOK
  <2>4. WalkOK(r2)
    BY <1>2, <2>3, WalkMoved
  <2>5. ASSUME NEW p, OnlyMaker(t, p), NEW c, NEW s, Said(r, c, s, p)
        PROVE  Said(r2, c, s, p)
    <3>1. r2.pc = "target"
      BY <1>1, <2>3, <2>5 DEF OnlyMaker, Makes, Is
    <3> QED BY <1>2, <2>5, <3>1 DEF Said
  <2>6. Is(t, "copy") => \A b, c : CopyOnly(r, b, c) => CopyOnly(r2, b, c)
    BY <1>1, <1>2, <2>3 DEF CopyOnly, Is
  <2>7. Refused(r) => Refused(r2)
    BY <2>3 DEF Refused
  <2>8. StepOK(t, r2)
    BY <1>1, <1>2, <1>3, <2>2, <2>3, <2>4, <2>5, <2>6, <2>7, QuietStepOK
  <2> QED BY <2>8
<1> QED
  BY <1>4, <1>5

(* What exists below a target that is not listed would be listed: no other *)
(* thread could have made it.                                              *)
LEMMA NothingBelow ==
    ASSUME TInv, NEW t \in Threads, At(t, "target"), cat[Target(thread[t].req)] = NoServer,
           NEW s \in SS, NEW p \in Path, OnlyMaker(t, p), NoDelete(p), Exists(s, p)
    PROVE  FALSE
<1>1. PICK q : q = Target(thread[t].req)
  OBVIOUS
<1>2. thread[t].req \in Requests /\ IInv
  BY WalkFacts DEF At, PcOK, TInv
<1>3. q \in Path /\ IsPrefix(q, p)
  BY <1>1, <1>2, RequestFacts DEF OnlyMaker, Makes
<1>4. p \in Seq(STRING) /\ q \in Seq(STRING)
  BY <1>3, PathFacts
<1>5. Exists(s, q)
  <2>1. tree[s][q] = Folder \/ q = p
    BY <1>3 DEF TInv, Rooted
  <2> QED BY <1>3, <2>1, ServerFacts DEF Exists
<1>6. \A u \in Threads : Makes(u, q) => Makes(u, p)
  <2> SUFFICES ASSUME NEW u \in Threads, Makes(u, q) PROVE Makes(u, p)
    OBVIOUS
  <2>1. thread[u].req \in Requests
    BY WalkFacts DEF Makes, At, PcOK
  <2>2. Target(thread[u].req) \in Seq(STRING)
    BY <2>1, RequestFacts, PathFacts
  <2> QED BY <1>3, <1>4, <2>2, PrefixOrder DEF Makes
<1>7. Makes(t, q)
  BY <1>1, <1>4, PrefixOrder DEF OnlyMaker, Makes
<1>8. OnlyMaker(t, q)
  BY <1>6, <1>7 DEF OnlyMaker
<1>9. NoDelete(q)
  <2>1. p[1] = q[1]
    BY <1>3, PrefixFirst DEF Comparable
  <2> QED BY <2>1 DEF NoDelete
<1>10. Said(thread[t], cat[q], s, q)
  BY <1>3, <1>5, <1>8, <1>9 DEF TInv, ListOK
<1>11. cat[q] = s
  BY <1>10 DEF Said, At
<1> QED
  BY <1>1, <1>11, ServerFacts

LEMMA LookupTargetOK ==
    ASSUME TInv, NEW t \in Threads, LookupTarget(t)
    PROVE  \E r : StepOK(t, r)
<1>1. PICK r : r = thread[t]
  OBVIOUS
<1>2. r \in ThreadRecord /\ PcOK(r) /\ WalkOK(r) /\ r.pc = "target" /\ r.req.op # "delete"
  BY <1>1, WalkFacts DEF LookupTarget, At, PcOK
<1>3. UNCHANGED << cat, tree, backup, disturbed, writers >>
  BY DEF LookupTarget, fsVars
<1>4. CASE cat[Target(r.req)] # NoServer
  BY <1>1, <1>2, <1>3, <1>4, PlainFailOK, Failures DEF LookupTarget
<1>5. CASE cat[Target(r.req)] = NoServer
  <2>1. PICK r2 : r2 = Moved(r, "parent")
    OBVIOUS
  <2>2. thread' = [thread EXCEPT ![t] = r2]
    BY <1>1, <1>5, <2>1 DEF LookupTarget, Go, Become, Moved
  <2>3. r2.work = r.work /\ r2.rows = r.rows /\ r2.req = r.req /\ r2.pc = "parent"
    BY <1>2, <2>1 DEF ThreadRecord, Moved
  <2>4. WalkOK(r2)
    BY <1>2, <2>3, WalkMoved
  <2>5. \A s \in SS, p \in Path : ~ (OnlyMaker(t, p) /\ NoDelete(p) /\ Exists(s, p))
    BY <1>1, <1>2, <1>5, NothingBelow DEF At
  <2>6. Is(t, "copy") => LET p == r.req.dest IN
           CopyOnly(r, backup[p], cat[p]) => CopyOnly(r2, backup[p], cat[p])
    BY <1>1, <1>2, <1>5, <2>3 DEF CopyOnly, BackedUp, Target, Is
  <2>7. ~ Is(t, "delete")
    BY <1>1, <1>2 DEF Is
  <2>8. StepOK(t, r2)
    BY <1>1, <1>2, <1>3, <2>2, <2>3, <2>4, <2>5, <2>6, <2>7, QuietStepOK
  <2> QED BY <2>8
<1> QED
  BY <1>4, <1>5

(* From one state in which nothing has been made to the next. *)
Bare == {"parent", "connect", "check", "primary"}
LEMMA BareStepOK ==
    ASSUME TInv, NEW t \in Threads, thread[t].pc \in Bare, NEW r,
           thread' = [thread EXCEPT ![t] = r], r.req = thread[t].req,
           r.pc \in Bare \cup {"copy"}, r.resp = thread[t].resp,
           r.pc = "primary" => r.req.op # "copy", WalkOK(r),
           UNCHANGED << cat, tree, backup, disturbed, writers >>
    PROVE  StepOK(t, r)
<1>1. \A c, s, p : ~ Said(thread[t], c, s, p)
  BY DEF Said, Bare
<1>2. Is(t, "copy") => \A b, c : CopyOnly(thread[t], b, c) => CopyOnly(r, b, c)
  BY WalkFacts DEF CopyOnly, Bare, PcOK, Is
<1>3. Refused(thread[t]) => Refused(r)
  BY DEF Refused, Bare
<1>4. thread[t].pc \notin {"idle", "done"} /\ r.pc # "idle"
  BY DEF Bare
<1> QED
  BY <1>1, <1>2, <1>3, <1>4, QuietStepOK

LEMMA ServerChosenOK ==
    ASSUME TInv, NEW t \in Threads, At(t, "parent"), NEW s,
           Become(t, [thread[t] EXCEPT !.pc = "connect", !.to = s]),
           UNCHANGED << cat, fsVars, writers, disturbed >>
    PROVE  \E r : StepOK(t, r)
<1>1. PICK r, r2 : r = thread[t] /\ r2 = [r EXCEPT !.pc = "connect", !.to = s]
  OBVIOUS
<1>2. r \in ThreadRecord /\ WalkOK(r) /\ r.pc = "parent"
  BY <1>1, WalkFacts DEF At
<1>3. /\ r2.work = r.work /\ r2.rows = r.rows /\ r2.req = r.req /\ r2.pc = "connect"
      /\ r2.resp = r.resp
  BY <1>1, <1>2 DEF ThreadRecord
<1>4. WalkOK(r2)
  BY <1>2, <1>3, WalkMoved
<1>5. StepOK(t, r2)
  BY <1>1, <1>2, <1>3, <1>4, BareStepOK DEF Become, Bare, fsVars
<1> QED
  BY <1>5

LEMMA LookupParentOK ==
    ASSUME TInv, NEW t \in Threads, LookupParent(t)
    PROVE  \E r : StepOK(t, r)
<1>1. thread[t].pc = "parent" /\ UNCHANGED << cat, fsVars, writers, disturbed >>
  BY DEF LookupParent, At
<1>2. CASE cat[Front(Target(thread[t].req))] = NoServer
  BY <1>1, <1>2, PlainFailOK, Failures DEF LookupParent, fsVars
<1>3. CASE cat[Front(Target(thread[t].req))] # NoServer
  BY <1>1, <1>3, ServerChosenOK DEF LookupParent
<1> QED
  BY <1>2, <1>3

LEMMA PickServerOK ==
    ASSUME TInv, NEW t \in Threads, PickServer(t)
    PROVE  \E r : StepOK(t, r)
BY ServerChosenOK DEF PickServer

LEMMA ConnectOK ==
    ASSUME TInv, NEW t \in Threads, Connect(t)
    PROVE  \E r : StepOK(t, r)
<1>1. PICK r, pc : r = thread[t] /\ pc = (IF r.req.op = "copy" THEN "check" ELSE "primary")
  OBVIOUS
<1>2. PICK r2 : r2 = Moved(r, pc)
  OBVIOUS
<1>3. r \in ThreadRecord /\ WalkOK(r) /\ r.pc = "connect"
  BY <1>1, WalkFacts DEF Connect, At
<1>4. /\ r2.work = r.work /\ r2.rows = r.rows /\ r2.req = r.req /\ r2.pc = pc
      /\ r2.resp = r.resp
  BY <1>2, <1>3 DEF ThreadRecord, Moved
<1>5. WalkOK(r2)
  BY <1>3, <1>4, WalkMoved
<1>6. thread' = [thread EXCEPT ![t] = r2] /\ UNCHANGED << cat, fsVars, writers, disturbed >>
  BY <1>1, <1>2 DEF Connect, Go, Become, Moved
<1>7. StepOK(t, r2)
  BY <1>1, <1>3, <1>4, <1>5, <1>6, BareStepOK DEF Bare, fsVars
<1> QED
  BY <1>7

LEMMA ConnectFailsOK ==
    ASSUME TInv, NEW t \in Threads, ConnectFails(t)
    PROVE  \E r : StepOK(t, r)
<1>1. thread[t].pc \notin {"idle", "done"}
  BY DEF ConnectFails, At
<1> QED
  BY <1>1, PlainFailOK, Failures DEF ConnectFails, fsVars

LEMMA CheckSourceOK ==
    ASSUME TInv, NEW t \in Threads, CheckSource(t)
    PROVE  \E r : StepOK(t, r)
<1>1. PICK r : r = thread[t]
  OBVIOUS
<1>2. r \in ThreadRecord /\ PcOK(r) /\ WalkOK(r) /\ r.pc = "check"
  BY <1>1, WalkFacts DEF CheckSource, At
<1>3. UNCHANGED << cat, tree, backup, disturbed, writers >>
  BY DEF CheckSource, fsVars
<1>4. CASE ~ Exists(r.from, r.req.path)
  BY <1>1, <1>2, <1>3, <1>4, PlainFailOK, Failures DEF CheckSource
<1>5. CASE Exists(r.from, r.req.path)
  <2>1. PICK g : g = Frame(r.req.path, r.req.dest)
    OBVIOUS
  <2>2. PICK r2 : r2 = [r EXCEPT !.pc = "copy", !.work = << g >>]
    OBVIOUS
  <2>3. thread' = [thread EXCEPT ![t] = r2]
    BY <1>1, <1>5, <2>1, <2>2 DEF CheckSource, Become
  <2>4. /\ r2.pc = "copy" /\ r2.work = << g >> /\ r2.rows = r.rows /\ r2.req = r.req
        /\ r2.resp = r.resp
    BY <1>2, <2>2 DEF ThreadRecord
  <2>5. Len(<< g >>) = 1 /\ << g >>[1] = g
    OBVIOUS
  <2>6. g.src = r.req.path /\ g.dst = r.req.dest /\ IsPrefix(r.req.dest, r.req.dest)
    <3>1. r.req.dest \in Seq(STRING)
      BY <1>2, RequestFacts, PathFacts DEF PcOK
    <3> QED BY <2>1, <3>1, PrefixOrder DEF Frame
  <2>7. WalkOK(r2)
    <3>1. \A k \in 1 .. Len(r2.work) : r2.work[k] = g
      BY <2>4, <2>5
    <3> QED BY <1>2, <2>4, <2>5, <2>6, <3>1 DEF WalkOK
  <2>8. StepOK(t, r2)
    BY <1>1, <1>2, <1>3, <2>3, <2>4, <2>7, BareStepOK DEF Bare
  <2> QED BY <2>8
<1> QED
  BY <1>4, <1>5

LEMMA SendAnswerOK ==
    ASSUME TInv, NEW t \in Threads, SendAnswer(t)
    PROVE  \E r : StepOK(t, r)
<1>1. PICK r, r2 : r = thread[t] /\ r2 = Moved(r, "done")
  OBVIOUS
<1>2. r \in ThreadRecord /\ WalkOK(r) /\ r.pc = "answer"
  BY <1>1, WalkFacts DEF SendAnswer, At
<1>3. /\ r2.work = r.work /\ r2.rows = r.rows /\ r2.req = r.req /\ r2.pc = "done"
      /\ r2.resp = r.resp /\ r2.to = r.to
  BY <1>1, <1>2 DEF ThreadRecord, Moved
<1>4. WalkOK(r2)
  BY <1>2, <1>3, WalkMoved
<1>5. thread' = [thread EXCEPT ![t] = r2] /\ UNCHANGED << cat, fsVars, writers, disturbed >>
  BY <1>1 DEF SendAnswer, Go, Become, Moved
<1>6. /\ \A c, s, p : Said(r, c, s, p) => Said(r2, c, s, p)
      /\ \A b, c : CopyOnly(r, b, c) => CopyOnly(r2, b, c)
      /\ Refused(r) => Refused(r2)
  BY <1>2, <1>3 DEF Said, CopyOnly, Refused
<1>7. StepOK(t, r2)
  BY <1>1, <1>2, <1>3, <1>4, <1>5, <1>6, QuietStepOK DEF fsVars
<1> QED
  BY <1>7

LEMMA ReceiveTableOK ==
    ASSUME TInv, NEW t \in Threads, ReceiveTable(t)
    PROVE  \E r : StepOK(t, r)
<1>1. PICK r : r = thread[t]
  OBVIOUS
<1>2. /\ r \in ThreadRecord /\ WalkOK(r) /\ r.pc = "table" /\ r.req.op = "copy"
      /\ UNCHANGED << cat, fsVars, writers, disturbed >>
  BY <1>1, WalkFacts DEF ReceiveTable, At, PcOK
<1>3. Answer(t, InternalError) \/ \E pc \in {"rows", "waits"} : Go(t, pc)
  BY DEF ReceiveTable, TableOutcomes
<1>4. CASE Answer(t, InternalError)
  BY <1>1, <1>2, <1>4, PlainFailOK, Failures DEF fsVars
<1>5. ASSUME NEW pc \in {"rows", "waits"}, Go(t, pc)
      PROVE  \E r2 : StepOK(t, r2)
  <2>1. PICK r2 : r2 = Moved(r, pc)
    OBVIOUS
  <2>2. /\ r2.work = r.work /\ r2.rows = r.rows /\ r2.req = r.req /\ r2.pc = pc
        /\ r2.resp = r.resp /\ r2.to = r.to
    BY <1>2, <2>1 DEF ThreadRecord, Moved
  <2>3. WalkOK(r2)
    BY <1>2, <2>2, WalkMoved
  <2>4. thread' = [thread EXCEPT ![t] = r2]
    BY <1>1, <1>5, <2>1 DEF Go, Become, Moved
  <2>5. /\ \A c, s, p : Said(r, c, s, p) => Said(r2, c, s, p)
        /\ \A b, c : CopyOnly(r, b, c) => CopyOnly(r2, b, c)
    BY <1>2, <2>2 DEF Said, CopyOnly, Made
  <2>6. ~ Is(t, "delete")
    BY <1>1, <1>2 DEF Is
  <2>7. StepOK(t, r2)
    BY <1>1, <1>2, <2>2, <2>3, <2>4, <2>5, <2>6, QuietStepOK DEF fsVars
  <2> QED BY <2>7
<1> QED
  BY <1>3, <1>4, <1>5

-----------------------------------------------------------------------------
(* The steps that change the catalogue or the backup tree. *)

(* A step that leaves the trees. *)
LEMMA ListStepOK ==
    ASSUME TInv, NEW t \in Threads, thread[t].pc \notin {"idle", "done"}, NEW r,
           thread' = [thread EXCEPT ![t] = r], r.req = thread[t].req, r.pc # "idle",
           UNCHANGED << tree, disturbed, writers >>, WalkOK(r),
           \A p \in Path : cat'[p] # cat[p] =>
              Makes(t, p) \/ (Is(t, "delete") /\ thread[t].req.path[1] = p[1]),
           \A p \in Path : backup'[p] # backup[p] => Touches(t, p),
           \A s \in SS, p \in Path :
              Makes(t, p) /\ Said(thread[t], cat[p], s, p) => Said(r, cat'[p], s, p),
           Is(t, "copy") => LET p == thread[t].req.dest IN
              CopyOnly(thread[t], backup[p], cat[p]) => CopyOnly(r, backup'[p], cat'[p]),
           Is(t, "delete") => LET p == thread[t].req.path IN
              backup[p] = None /\ Refused(thread[t]) =>
                 Refused(r) /\ backup'[p] = None /\ cat'[p] = cat[p]
    PROVE  StepOK(t, r)
<1>1. Rooted' /\ \A s \in SS, p \in Path : tree'[s][p] # None => Exists(s, p)
  BY DEF TInv, Rooted, Exists
<1>2. \A p : OnlyMaker(t, p) => Makes(t, p)
  BY DEF OnlyMaker
<1> QED
  BY <1>1, <1>2 DEF StepOK

LEMMA AnswerFacts ==
    ASSUME TInv, NEW t \in Threads, NEW resp, Answer(t, resp), NEW r, r = thread[t]
    PROVE  \E a : /\ thread' = [thread EXCEPT ![t] = a] /\ a.pc = "answer" /\ a.resp = resp
                  /\ a.work = <<>> /\ a.rows = r.rows /\ a.req = r.req /\ a.to = r.to
                  /\ WalkOK(a)
<1>1. PICK a : a = Answered(r, resp)
  OBVIOUS
<1>2. r \in ThreadRecord /\ WalkOK(r) /\ thread' = [thread EXCEPT ![t] = a]
  BY <1>1, WalkFacts DEF Answer, Become, Answered
<1>3. /\ a.pc = "answer" /\ a.work = <<>> /\ a.rows = r.rows /\ a.req = r.req /\ a.resp = resp
      /\ a.to = r.to
  BY <1>1, <1>2 DEF ThreadRecord, Answered
<1>4. WalkOK(a)
  <2>1. Len(<<>>) = 0
    OBVIOUS
  <2> QED BY <1>2, <1>3, <2>1 DEF WalkOK
<1> QED
  BY <1>2, <1>3, <1>4

LEMMA AddRowOK ==
    ASSUME TInv, NEW t \in Threads, AddRow(t)
    PROVE  \E r : StepOK(t, r)
<1>1. PICK r : r = thread[t]
  OBVIOUS
<1>2. /\ r \in ThreadRecord /\ PcOK(r) /\ WalkOK(r) /\ r.pc = "rows" /\ r.rows # <<>>
      /\ r.req.op = "copy" /\ r.work = <<>>
  BY <1>1, WalkFacts DEF AddRow, At, PcOK, WalkOK
<1>3. PICK rows : rows = Tail(r.rows)
  OBVIOUS
<1>4. /\ Head(r.rows) = r.rows[1] /\ 1 \in 1 .. Len(r.rows) /\ Head(r.rows) \in Path
      /\ Len(rows) = Len(r.rows) - 1 /\ Len(r.rows) \in Nat
      /\ \A k \in 1 .. Len(rows) : rows[k] = r.rows[k + 1] /\ k + 1 \in 1 .. Len(r.rows)
  BY <1>2, <1>3 DEF ThreadRecord
<1>5. PICK r2 : r2 = [r EXCEPT !.rows = rows]
  OBVIOUS
<1>6. /\ thread' = [thread EXCEPT ![t] = r2] /\ cat' = [cat EXCEPT ![r.rows[1]] = r.to]
      /\ UNCHANGED << tree, backup, disturbed, writers >>
  BY <1>1, <1>3, <1>4, <1>5 DEF AddRow, Become, fsVars
<1>7. /\ r2.pc = "rows" /\ r2.req = r.req /\ r2.to = r.to /\ r2.work = r.work
      /\ r2.rows = rows
  BY <1>2, <1>5 DEF ThreadRecord
<1>8. WalkOK(r2)
  BY <1>2, <1>4, <1>7 DEF WalkOK
<1>9. \A p \in Path : cat'[p] = IF p = r.rows[1] THEN r.to ELSE cat[p]
  BY <1>6 DEF TInv, IInv, TypeOK
<1>10. Makes(t, r.rows[1]) /\ ~ Is(t, "delete")
  BY <1>1, <1>2, <1>4 DEF WalkOK, Makes, Target, Is, At
<1>11. \A p : (\E k \in 1 .. Len(r.rows) : r.rows[k] = p) =>
                 p = r.rows[1] \/ \E k \in 1 .. Len(rows) : rows[k] = p
  <2> SUFFICES ASSUME NEW k \in 1 .. Len(r.rows), k # 1
               PROVE  \E j \in 1 .. Len(rows) : rows[j] = r.rows[k]
    BY <1>4
  <2>1. k - 1 \in 1 .. Len(rows) /\ (k - 1) + 1 = k
    BY <1>4
  <2> QED BY <1>4, <2>1
<1>12. Len(r.work) = 0
  BY <1>2
<1>13. ASSUME NEW s \in SS, NEW p \in Path, Said(r, cat[p], s, p)
       PROVE  Said(r2, cat'[p], s, p)
  <2>1. s = r.to /\ (cat[p] = s \/ Made(r, p))
    BY <1>2, <1>13 DEF Said
  <2>2. Made(r, p) => \E k \in 1 .. Len(r.rows) : r.rows[k] = p
    BY <1>2, <1>12 DEF Made
  <2>3. cat'[p] = s \/ Made(r2, p)
    BY <1>7, <1>9, <1>11, <2>1, <2>2 DEF Made
  <2> QED BY <1>7, <2>1, <2>3 DEF Said
<1>14. r.req.dest \in Path
  BY <1>2, RequestFacts DEF PcOK
<1>15. ASSUME NEW p, p = r.req.dest, CopyOnly(r, backup[p], cat[p])
       PROVE  CopyOnly(r2, backup'[p], cat'[p])
  <2>1. backup[p] = None /\ (cat[p] = r.to \/ \E k \in 1 .. Len(r.rows) : r.rows[k] = p)
    BY <1>2, <1>15 DEF CopyOnly
  <2>2. cat'[p] = r.to \/ \E k \in 1 .. Len(rows) : rows[k] = p
    BY <1>9, <1>11, <1>14, <1>15, <2>1
  <2> QED BY <1>6, <1>7, <1>15, <2>1, <2>2 DEF CopyOnly
<1>16. StepOK(t, r2)
  BY <1>1, <1>2, <1>6, <1>7, <1>8, <1>9, <1>10, <1>13, <1>15, ListStepOK DEF Is
<1> QED
  BY <1>16

LEMMA RowsAddedOK ==
    ASSUME TInv, NEW t \in Threads, RowsAdded(t)
    PROVE  \E r : StepOK(t, r)
<1>1. PICK r : r = thread[t]
  OBVIOUS
<1>2. /\ r \in ThreadRecord /\ PcOK(r) /\ WalkOK(r) /\ r.pc = "rows" /\ r.rows = <<>>
      /\ r.req.op = "copy" /\ r.work = <<>>
      /\ Answer(t, OK) /\ UNCHANGED << cat, tree, backup, disturbed, writers >>
  BY <1>1, WalkFacts DEF RowsAdded, At, PcOK, WalkOK, fsVars
<1>3. PICK a : /\ thread' = [thread EXCEPT ![t] = a] /\ a.pc = "answer" /\ a.resp = OK
               /\ a.req = r.req /\ a.to = r.to /\ WalkOK(a)
  BY <1>1, <1>2, AnswerFacts
<1>4. Len(<<>>) = 0
  OBVIOUS
<1>5. \A p : ~ Made(r, p)
  BY <1>2, <1>4 DEF Made
<1>6. \A c, s, p : Said(r, c, s, p) => Said(a, c, s, p)
  BY <1>2, <1>3, <1>5 DEF Said
<1>7. \A b, c : CopyOnly(r, b, c) => CopyOnly(a, b, c)
  BY <1>2, <1>3, <1>4 DEF CopyOnly
<1>8. StepOK(t, a)
  BY <1>1, <1>2, <1>3, <1>6, <1>7, QuietStepOK DEF Is
<1> QED
  BY <1>8

LEMMA AddCreatedOK ==
    ASSUME TInv, NEW t \in Threads, AddCreated(t)
    PROVE  \E r : StepOK(t, r)
<1>1. PICK r : r = thread[t]
  OBVIOUS
<1>2. /\ r \in ThreadRecord /\ PcOK(r) /\ WalkOK(r) /\ r.pc = "add" /\ r.work = <<>>
      /\ r.req.op \notin {"copy", "delete"} /\ r.req.path \in Path
      /\ Answer(t, OK) /\ UNCHANGED << tree, backup, disturbed, writers >>
      /\ cat' = [cat EXCEPT ![r.req.path] = r.to]
  BY <1>1, WalkFacts, RequestFacts DEF AddCreated, At, PcOK, WalkOK, fsVars
<1>3. PICK a : /\ thread' = [thread EXCEPT ![t] = a] /\ a.pc = "answer" /\ a.resp = OK
               /\ a.req = r.req /\ a.to = r.to /\ WalkOK(a)
  BY <1>1, <1>2, AnswerFacts
<1>4. \A p \in Path : cat'[p] = IF p = r.req.path THEN r.to ELSE cat[p]
  BY <1>2 DEF TInv, IInv, TypeOK
<1>5. Makes(t, r.req.path) /\ ~ Is(t, "delete") /\ ~ Is(t, "copy")
  BY <1>1, <1>2, PathFacts, PrefixOrder DEF Makes, Target, Is, At
<1>6. \A s \in SS, p \in Path : Said(r, cat[p], s, p) => Said(a, cat'[p], s, p)
  <2>1. r.rows = <<>> /\ Len(<<>>) = 0
    BY <1>2 DEF WalkOK
  <2> QED BY <1>2, <1>3, <1>4, <2>1 DEF Said, Made
<1>7. StepOK(t, a)
  BY <1>1, <1>2, <1>3, <1>4, <1>5, <1>6, ListStepOK
<1> QED
  BY <1>7

LEMMA ForgetOK ==
    ASSUME TInv, NEW t \in Threads, Forget(t)
    PROVE  \E r : StepOK(t, r)
<1>1. PICK r : r = thread[t]
  OBVIOUS
<1>2. /\ r.pc = "forget" /\ r.req.op = "delete" /\ r.req.path \in Path
      /\ Answer(t, OK) /\ UNCHANGED << tree, backup, disturbed, writers >>
  BY <1>1, WalkFacts, RequestFacts DEF Forget, At, PcOK, fsVars
<1>3. PICK a : /\ thread' = [thread EXCEPT ![t] = a] /\ a.pc = "answer" /\ a.req = r.req
               /\ WalkOK(a)
  BY <1>1, <1>2, AnswerFacts
<1>4. PICK S \in Forgettable(r.req.path) :
         cat' = [q \in Path |-> IF q \in S THEN NoServer ELSE cat[q]]
  BY <1>1 DEF Forget
<1>5. \A q \in S : q \in Path /\ q[1] = r.req.path[1]
  BY <1>2, <1>4, PrefixFirst DEF Forgettable
<1>6. Is(t, "delete") /\ ~ Is(t, "copy") /\ \A p : ~ Makes(t, p)
  BY <1>1, <1>2 DEF Is, Makes
<1>7. ~ Refused(r)
  BY <1>2 DEF Refused
<1>8. StepOK(t, a)
  BY <1>1, <1>2, <1>3, <1>4, <1>5, <1>6, <1>7, ListStepOK
<1> QED
  BY <1>8

LEMMA CreateBackupOK ==
    ASSUME TInv, NEW t \in Threads, CreateBackup(t)
    PROVE  \E r : StepOK(t, r)
<1>1. PICK r : r = thread[t]
  OBVIOUS
<1>2. /\ r \in ThreadRecord /\ PcOK(r) /\ WalkOK(r) /\ r.pc = "backup"
      /\ r.req.op \notin {"copy", "delete"} /\ r.req.path \in Path
      /\ UNCHANGED << cat, tree, disturbed, writers >>
  BY <1>1, WalkFacts, RequestFacts DEF CreateBackup, At, PcOK
<1>3. ~ Is(t, "copy") /\ ~ Is(t, "delete")
  BY <1>1, <1>2 DEF Is
<1>4. CASE CanCreate(backup, r.req.path, r.req.op = "mkdir")
  <2>1. PICK r2 : r2 = Moved(r, "add")
    OBVIOUS
  <2>2. thread' = [thread EXCEPT ![t] = r2]
    BY <1>1, <1>4, <2>1 DEF CreateBackup, Go, Become, Moved
  <2>3. PICK x : backup' = [backup EXCEPT ![r.req.path] = x]
    BY <1>1, <1>4 DEF CreateBackup
  <2>4. Touches(t, r.req.path)
    <3>1. r.req.path \in Paths(r.req) /\ Comparable(r.req.path, r.req.path)
      BY <1>2, PathFacts, PrefixOrder DEF Paths, Comparable
    <3> QED BY <1>1, <3>1 DEF Touches
  <2>5. \A p \in Path : backup'[p] # backup[p] => Touches(t, p)
    BY <2>3, <2>4 DEF TInv, IInv, TypeOK
  <2>6. /\ r2.work = r.work /\ r2.rows = r.rows /\ r2.req = r.req /\ r2.pc = "add"
        /\ r2.to = r.to
    BY <1>2, <2>1 DEF ThreadRecord, Moved
  <2>7. WalkOK(r2)
    BY <1>2, <2>6, WalkMoved
  <2>8. \A c, s, p : Said(r, c, s, p) => Said(r2, c, s, p)
    BY <1>2, <2>6 DEF Said, Made
  <2>9. StepOK(t, r2)
    BY <1>1, <1>2, <1>3, <2>2, <2>5, <2>6, <2>7, <2>8, ListStepOK
  <2> QED BY <2>9
<1>5. CASE ~ CanCreate(backup, r.req.path, r.req.op = "mkdir")
  BY <1>1, <1>2, <1>5, PlainFailOK, Failures DEF CreateBackup
<1> QED
  BY <1>4, <1>5

LEMMA DeleteBackupOK ==
    ASSUME TInv, NEW t \in Threads, DeleteBackup(t)
    PROVE  \E r : StepOK(t, r)
<1>1. PICK r : r = thread[t]
  OBVIOUS
<1>2. /\ r \in ThreadRecord /\ PcOK(r) /\ WalkOK(r) /\ r.pc = "backup"
      /\ r.req.op = "delete" /\ r.req.path \in Path
      /\ UNCHANGED << cat, tree, disturbed, writers >>
  BY <1>1, WalkFacts, RequestFacts DEF DeleteBackup, At, PcOK
<1>3. CASE backup[r.req.path] = None
  BY <1>1, <1>2, <1>3, PlainFailOK, Failures DEF DeleteBackup
<1>4. CASE backup[r.req.path] # None
  <2>1. PICK r2 : r2 = Moved(r, "forget")
    OBVIOUS
  <2>2. /\ thread' = [thread EXCEPT ![t] = r2]
        /\ backup' = Without(backup, {q \in Path : IsPrefix(r.req.path, q)})
    BY <1>1, <1>4, <2>1 DEF DeleteBackup, Go, Become, Moved
  <2>3. \A p \in Path : backup'[p] # backup[p] => Touches(t, p)
    BY <1>1, <1>2, <2>2 DEF Without, Touches, Paths, Comparable
  <2>4. /\ r2.work = r.work /\ r2.rows = r.rows /\ r2.req = r.req /\ r2.pc = "forget"
    BY <1>2, <2>1 DEF ThreadRecord, Moved
  <2>5. WalkOK(r2)
    BY <1>2, <2>4, WalkMoved
  <2>6. Is(t, "delete") /\ ~ Is(t, "copy") /\ \A p : ~ Makes(t, p)
    BY <1>1, <1>2 DEF Is, Makes
  <2>7. StepOK(t, r2)
    BY <1>1, <1>2, <1>4, <2>2, <2>3, <2>4, <2>5, <2>6, ListStepOK
  <2> QED BY <2>7
<1> QED
  BY <1>3, <1>4

-----------------------------------------------------------------------------
(* The steps that change what exists. *)

(* Making an entry: one place changes, in a folder, and was no folder.     *)
LEMMA CreateTree ==
    ASSUME IInv, Rooted, NEW s \in SS, NEW p, NEW folder, CanCreate(tree[s], p, folder),
           Create(s, p, folder)
    PROVE  /\ p \in Path /\ tree[s][p] # Folder /\ tree'[s][p] # None
           /\ \A u \in SS, q \in Path : u # s \/ q # p => tree'[u][q] = tree[u][q]
           /\ Rooted'
<1>1. /\ tree \in [SS -> [Path -> {None, Folder} \cup DOMAIN data]] /\ p \in Path
      /\ tree[s][p] # Folder
  BY DEF IInv, TypeOK, CanCreate, None, Folder
<1>2. tree'[s][p] # None
  BY CreateEffect
<1>3. PICK i : tree' = [tree EXCEPT ![s][p] = i]
  BY DEF Create, Truncate
<1>4. \A u \in SS, q \in Path : u # s \/ q # p => tree'[u][q] = tree[u][q]
  BY <1>1, <1>3
<1>5. ASSUME NEW u \in SS, NEW a \in Path, NEW b \in Path, tree'[u][b] # None,
             IsPrefix(a, b), a # b
      PROVE  tree'[u][a] = Folder
  <2>1. CASE u = s /\ b = p
    <3>1. a \in Seq(STRING) /\ b \in Seq(STRING) /\ Len(a) \in Nat \ {0} /\ Len(b) \in Nat
      BY PathFacts
    <3>2. IsPrefix(a, Front(b)) /\ Len(b) > 1
      BY <1>5, <3>1, PrefixFront
    <3>3. Front(b) \in Path /\ tree[s][Front(b)] = Folder
      BY <2>1, <3>2, PathFacts DEF CanCreate
    <3>4. tree[s][a] = Folder
      BY <3>2, <3>3, ServerFacts DEF Rooted, Exists
    <3> QED BY <1>4, <1>5, <2>1, <3>4
  <2>2. CASE u # s \/ b # p
    <3>1. tree[u][a] = Folder
      BY <1>4, <1>5, <2>2 DEF Rooted, Exists
    <3> QED BY <1>1, <1>4, <3>1
  <2> QED BY <2>1, <2>2
<1>6. Rooted'
  BY <1>5 DEF Rooted, Exists
<1> QED
  BY <1>1, <1>2, <1>4, <1>6

(* A step that makes p on s, and what follows for the rest. *)
LEMMA MakeOK ==
    ASSUME TInv, NEW t \in Threads, thread[t].pc \notin {"idle", "done"}, NEW r,
           thread' = [thread EXCEPT ![t] = r], r.req = thread[t].req, r.pc # "idle",
           NEW s \in SS, NEW p, NEW folder, CanCreate(tree[s], p, folder), Create(s, p, folder),
           UNCHANGED << cat, backup, disturbed >>,
           \A w \in writers' : w.by = t \/ \E v \in writers : v.by = w.by,
           WalkOK(r), Makes(t, p), \A c : Said(r, c, s, p),
           \A c, u, q : OnlyMaker(t, q) /\ Said(thread[t], c, u, q) => Said(r, c, u, q),
           Is(t, "copy") => \A b, c : CopyOnly(thread[t], b, c) => CopyOnly(r, b, c)
    PROVE  StepOK(t, r)
<1>1. /\ Rooted' /\ \A u \in SS, q \in Path : u # s \/ q # p => tree'[u][q] = tree[u][q]
  BY CreateTree DEF TInv
<1>2. \A u \in SS, q \in Path : tree'[u][q] # None =>
         Exists(u, q) \/ (Makes(t, q) /\ Said(r, cat'[q], u, q))
  <2> SUFFICES ASSUME NEW u \in SS, NEW q \in Path, tree'[u][q] # None
               PROVE  Exists(u, q) \/ (Makes(t, q) /\ Said(r, cat'[q], u, q))
    OBVIOUS
  <2>1. CASE u = s /\ q = p
    BY <2>1
  <2>2. CASE u # s \/ q # p
    BY <1>1, <2>2 DEF Exists
  <2> QED BY <2>1, <2>2
<1>3. ~ Is(t, "delete")
  BY MakesTouches
<1> QED
  BY <1>1, <1>2, <1>3 DEF StepOK

LEMMA CreatePrimaryOK ==
    ASSUME TInv, NEW t \in Threads, CreatePrimary(t)
    PROVE  \E r : StepOK(t, r)
<1>1. PICK r, p, folder : r = thread[t] /\ p = r.req.path /\ folder = (r.req.op = "mkdir")
  OBVIOUS
<1>2. /\ r \in ThreadRecord /\ PcOK(r) /\ WalkOK(r) /\ r.pc = "primary"
      /\ r.req.op \notin {"copy", "delete"} /\ p \in Path /\ r.to \in SS
      /\ UNCHANGED << cat, backup, writers, disturbed >>
  BY <1>1, WalkFacts, RequestFacts DEF CreatePrimary, At, PcOK
<1>3. CASE CanCreate(tree[r.to], p, folder)
  <2>1. PICK r2 : r2 = Moved(r, "backup")
    OBVIOUS
  <2>2. Create(r.to, p, folder) /\ thread' = [thread EXCEPT ![t] = r2]
    BY <1>1, <1>3, <2>1 DEF CreatePrimary, Go, Become, Moved
  <2>3. /\ r2.work = r.work /\ r2.rows = r.rows /\ r2.req = r.req /\ r2.pc = "backup"
        /\ r2.to = r.to
    BY <1>2, <2>1 DEF ThreadRecord, Moved
  <2>4. WalkOK(r2)
    BY <1>2, <2>3, WalkMoved
  <2>5. Makes(t, p) /\ ~ Is(t, "copy")
    BY <1>1, <1>2, PathFacts, PrefixOrder DEF Makes, Target, Is, At
  <2>6. \A c : Said(r2, c, r.to, p)
    BY <1>1, <2>3 DEF Said, Made
  <2>7. \A c, u, q : ~ Said(r, c, u, q)
    BY <1>2 DEF Said
  <2>8. StepOK(t, r2)
    BY <1>1, <1>2, <1>3, <2>2, <2>3, <2>4, <2>5, <2>6, <2>7, MakeOK
  <2> QED BY <2>8
<1>4. CASE ~ CanCreate(tree[r.to], p, folder)
  BY <1>1, <1>2, <1>4, PlainFailOK, Failures DEF CreatePrimary
<1> QED
  BY <1>3, <1>4

(* What is deleted goes with all that is below it. *)
LEMMA DeleteTree ==
    ASSUME IInv, Rooted, NEW t \in Threads, DeletePrimary(t)
    PROVE  /\ \A s \in SS, p \in Path : tree'[s][p] # None => tree'[s][p] = tree[s][p]
           /\ Rooted'
<1>1. PICK s, p, gone :
         /\ s = thread[t].from /\ p = thread[t].req.path /\ gone \in SUBSET Below(s, p)
         /\ \A q \in gone : Below(s, q) \subseteq gone
         /\ tree' = [tree EXCEPT ![s] = Without(@, gone)]
  BY DEF DeletePrimary
<1>2. tree \in [SS -> [Path -> {None, Folder} \cup DOMAIN data]]
  BY DEF IInv, TypeOK
<1>3. \A u \in SS, q \in Path : tree'[u][q] = IF u = s /\ q \in gone THEN None ELSE tree[u][q]
  BY <1>1, <1>2 DEF Without
<1>4. Rooted'
  <2> SUFFICES ASSUME NEW u \in SS, NEW a \in Path, NEW b \in Path, tree'[u][b] # None,
                      IsPrefix(a, b), a # b
               PROVE  tree'[u][a] = Folder
    BY DEF Rooted, Exists
  <2>1. tree[u][b] # None /\ ~ (u = s /\ b \in gone)
    BY <1>3
  <2>2. tree[u][a] = Folder
    BY <2>1 DEF Rooted, Exists
  <2>3. ~ (u = s /\ a \in gone)
    BY <1>1, <2>1 DEF Below, Exists
  <2> QED BY <1>3, <2>2, <2>3
<1> QED
  BY <1>3, <1>4

LEMMA DeletePrimaryOK ==
    ASSUME TInv, NEW t \in Threads, DeletePrimary(t)
    PROVE  \E r : StepOK(t, r)
<1>1. PICK r : r = thread[t]
  OBVIOUS
<1>2. /\ r \in ThreadRecord /\ PcOK(r) /\ WalkOK(r) /\ r.pc = "primary"
      /\ r.req.op = "delete" /\ UNCHANGED << cat, backup, writers, disturbed >>
  BY <1>1, WalkFacts DEF DeletePrimary, At
<1>3. Rooted' /\ \A s \in SS, p \in Path : tree'[s][p] # None => tree[s][p] # None
  BY DeleteTree DEF TInv
<1>4. Go(t, "backup") \/ Answer(t, InternalError)
  BY DEF DeletePrimary
<1>5. CASE Answer(t, InternalError)
  BY <1>1, <1>2, <1>3, <1>5, FailOK, Failures
<1>6. CASE Go(t, "backup")
  <2>1. PICK r2 : r2 = Moved(r, "backup")
    OBVIOUS
  <2>2. thread' = [thread EXCEPT ![t] = r2]
    BY <1>1, <1>6, <2>1 DEF Go, Become, Moved
  <2>3. /\ r2.work = r.work /\ r2.rows = r.rows /\ r2.req = r.req /\ r2.pc = "backup"
        /\ r2.resp = r.resp
    BY <1>2, <2>1 DEF ThreadRecord, Moved
  <2>4. WalkOK(r2)
    BY <1>2, <2>3, WalkMoved
  <2>5. Is(t, "delete") /\ ~ Is(t, "copy") /\ \A p : ~ Makes(t, p) /\ ~ OnlyMaker(t, p)
    BY <1>1, <1>2 DEF Is, Makes, OnlyMaker
  <2>6. Refused(r) => Refused(r2)
    BY <2>3 DEF Refused
  <2>7. StepOK(t, r2)
    BY <1>1, <1>2, <1>3, <2>2, <2>3, <2>4, <2>5, <2>6 DEF StepOK, Exists
  <2> QED BY <2>7
<1> QED
  BY <1>4, <1>5, <1>6

-----------------------------------------------------------------------------
(* The steps of copy_. *)
LEMMA TopWalk ==
    ASSUME TInv, NEW t \in Threads, At(t, "copy"), NEW r, r = thread[t], NEW f, f = Top(t)
    PROVE  /\ r \in ThreadRecord /\ PcOK(r) /\ WalkOK(r) /\ r.pc = "copy" /\ r.work # <<>>
           /\ r.work \in Seq(FrameRecord) /\ Len(r.work) \in Nat /\ 1 \in 1 .. Len(r.work)
           /\ f = r.work[1] /\ f \in FrameRecord /\ IsPrefix(r.req.dest, f.dst)
           /\ r.req \in Requests /\ r.req.op = "copy" /\ r.to \in SS /\ r.from \in SS
           /\ r.req.dest \in Path /\ Is(t, "copy") /\ ~ Is(t, "delete")
<1>1. IInv
  BY DEF TInv
<1>2. /\ r \in ThreadRecord /\ PcOK(r) /\ r.pc = "copy" /\ r.work # <<>> /\ WalkOK(r)
      /\ f = r.work[1] /\ f \in FrameRecord /\ r.req \in Requests /\ r.req.op = "copy"
      /\ r.to \in SS /\ r.from \in SS
  BY <1>1, TopFacts, WalkFacts
<1>3. r.work \in Seq(FrameRecord) /\ Len(r.work) \in Nat /\ 1 \in 1 .. Len(r.work)
  BY <1>2 DEF ThreadRecord
<1>4. IsPrefix(r.req.dest, f.dst)
  BY <1>2, <1>3 DEF WalkOK
<1> QED
  BY <1>2, <1>3, <1>4, RequestFacts DEF Is

(* The entry at work changes, and what was made of it is still made. *)
LEMMA WithTopRest ==
    ASSUME NEW r \in ThreadRecord, r.pc = "copy", r.work # <<>>, WalkOK(r),
           NEW g \in FrameRecord, g.src = r.work[1].src, g.dst = r.work[1].dst,
           r.work[1].act \notin {"stat", "create"} => g.act \notin {"stat", "create"},
           NEW r2, r2 = WithTop(r, g)
    PROVE  /\ WalkOK(r2) /\ r2.req = r.req /\ r2.pc = "copy" /\ r2.to = r.to
           /\ g.act \notin {"stat", "create"} => Made(r2, g.dst)
           /\ \A c, s, p : Said(r, c, s, p) => Said(r2, c, s, p)
           /\ \A b, c : CopyOnly(r, b, c) => CopyOnly(r2, b, c)
<1> DEFINE w == [r.work EXCEPT ![1] = g]
<1>1. r.work \in Seq(FrameRecord) /\ Len(r.work) \in Nat /\ 1 \in 1 .. Len(r.work)
  BY DEF ThreadRecord
<1>2. /\ w \in Seq(FrameRecord) /\ Len(w) = Len(r.work)
      /\ \A k \in 1 .. Len(r.work) : w[k] = IF k = 1 THEN g ELSE r.work[k]
  BY <1>1, ExceptSeq
<1>3. /\ r2.pc = r.pc /\ r2.work = w /\ r2.rows = r.rows /\ r2.to = r.to /\ r2.req = r.req
  BY DEF ThreadRecord, WithTop
<1> HIDE DEF w
<1>4. \A k \in 1 .. Len(w) : /\ w[k].src = r.work[k].src /\ w[k].dst = r.work[k].dst
                             /\ r.work[k].act \notin {"stat", "create"} =>
                                   w[k].act \notin {"stat", "create"}
  BY <1>2
<1>5. Len(w) \in 1 .. Len(w) /\ w[1] = g
  BY <1>1, <1>2
<1>6. WalkOK(r2)
  BY <1>2, <1>3, <1>4, <1>5 DEF WalkOK
<1>7. \A p : Made(r, p) => Made(r2, p)
  BY <1>2, <1>3, <1>4 DEF Made
<1>8. g.act \notin {"stat", "create"} => Made(r2, g.dst)
  BY <1>1, <1>2, <1>3, <1>5 DEF Made
<1>9. \A c, s, p : Said(r, c, s, p) => Said(r2, c, s, p)
  BY <1>3, <1>7 DEF Said
<1>10. \A b, c : CopyOnly(r, b, c) => CopyOnly(r2, b, c)
  BY <1>3 DEF CopyOnly
<1> QED
  BY <1>3, <1>6, <1>8, <1>9, <1>10

LEMMA NowOK ==
    ASSUME TInv, NEW t \in Threads, At(t, "copy"), NEW g \in FrameRecord, Now(t, g),
           g.src = Top(t).src, g.dst = Top(t).dst,
           Top(t).act \notin {"stat", "create"} => g.act \notin {"stat", "create"},
           UNCHANGED << cat, tree, backup, disturbed >>,
           \A w \in writers' : w.by = t \/ \E v \in writers : v.by = w.by
    PROVE  \E r : StepOK(t, r)
<1>1. PICK r, f, r2 : r = thread[t] /\ f = Top(t) /\ r2 = WithTop(r, g)
  OBVIOUS
<1>2. /\ r \in ThreadRecord /\ WalkOK(r) /\ r.pc = "copy" /\ r.work # <<>> /\ f = r.work[1]
      /\ ~ Is(t, "delete")
  BY <1>1, TopWalk
<1>3. thread' = [thread EXCEPT ![t] = r2]
  BY <1>1 DEF Now, Become, WithTop
<1>4. /\ WalkOK(r2) /\ r2.req = r.req /\ r2.pc = "copy"
      /\ \A c, s, p : Said(r, c, s, p) => Said(r2, c, s, p)
      /\ \A b, c : CopyOnly(r, b, c) => CopyOnly(r2, b, c)
  BY <1>1, <1>2, WithTopRest
<1>5. StepOK(t, r2)
  BY <1>1, <1>2, <1>3, <1>4, QuietStepOK
<1> QED
  BY <1>5

LEMMA CopyFailsOK ==
    ASSUME TInv, NEW t \in Threads, At(t, "copy"), CopyFails(t),
           UNCHANGED << cat, tree, backup, writers, disturbed >>
    PROVE  \E r : StepOK(t, r)
BY PlainFailOK, Failures DEF CopyFails, At

(* copy_ returns: what the entry at work had made is in the table, and so  *)
(* is the destination, if this was the bottom of the stack.                *)
LEMMA ReturnedRest ==
    ASSUME NEW r \in ThreadRecord, r.pc = "copy", r.work # <<>>, WalkOK(r),
           r.req.op = "copy",
           r.work[1].act # "stat" => \E k \in 1 .. Len(r.rows) : r.rows[k] = r.work[1].dst,
           Len(r.work) = 1 => \E k \in 1 .. Len(r.rows) : r.rows[k] = r.req.dest,
           NEW a, a = Returned(r)
    PROVE  /\ WalkOK(a) /\ a.req = r.req /\ a.pc # "idle"
           /\ \A c, s, p : Said(r, c, s, p) => Said(a, c, s, p)
           /\ \A b, c : CopyOnly(r, b, c) => CopyOnly(a, b, c)
<1>1. r.work \in Seq(FrameRecord) /\ Len(r.work) \in Nat \ {0}
  BY DEF ThreadRecord
<1>2. CASE Len(r.work) > 1
  <2> DEFINE w == Tail(r.work)
  <2>1. /\ w \in Seq(FrameRecord) /\ Len(w) = Len(r.work) - 1
        /\ \A k \in 1 .. Len(w) : w[k] = r.work[k + 1] /\ k + 1 \in 2 .. Len(r.work)
    BY <1>1
  <2>2. /\ a.pc = "copy" /\ a.work = w /\ a.rows = r.rows /\ a.to = r.to /\ a.req = r.req
    BY <1>2 DEF ThreadRecord, Returned
  <2> HIDE DEF w
  <2>3. w[Len(w)] = r.work[Len(r.work)]
    BY <1>1, <1>2, <2>1
  <2>4. WalkOK(a)
    <3>1. \A k \in 1 .. Len(w) : IsPrefix(r.req.dest, w[k].dst)
      <4>1. \A k \in 2 .. Len(r.work) : k \in 1 .. Len(r.work)
        BY <1>1
      <4> QED BY <2>1, <4>1 DEF WalkOK
    <3>2. /\ r.work[Len(r.work)].src = r.req.path /\ r.work[Len(r.work)].dst = r.req.dest
          /\ \A k \in 1 .. Len(r.rows) : IsPrefix(r.req.dest, r.rows[k])
      BY DEF WalkOK
    <3> QED BY <2>2, <2>3, <3>1, <3>2 DEF WalkOK
  <2>5. \A k \in 2 .. Len(r.work) : k - 1 \in 1 .. Len(w) /\ w[k - 1] = r.work[k]
    BY <1>1, <2>1
  <2>6. \A p : Made(r, p) => Made(a, p)
    <3> SUFFICES ASSUME NEW p, Made(r, p) PROVE Made(a, p)
      OBVIOUS
    <3>1. CASE \E k \in 1 .. Len(r.rows) : r.rows[k] = p
      BY <2>2, <3>1 DEF Made
    <3>2. CASE \A k \in 1 .. Len(r.rows) : r.rows[k] # p
      <4>1. PICK k \in 1 .. Len(r.work) :
               r.work[k].dst = p /\ r.work[k].act \notin {"stat", "create"}
        BY <3>2 DEF Made
      <4>2. k # 1
        BY <3>2, <4>1
      <4>3. k - 1 \in 1 .. Len(w) /\ w[k - 1] = r.work[k]
        BY <1>1, <2>5, <4>2
      <4> QED BY <2>2, <4>1, <4>3 DEF Made
    <3> QED BY <3>1, <3>2
  <2>7. \A c, s, p : Said(r, c, s, p) => Said(a, c, s, p)
    BY <2>2, <2>6 DEF Said
  <2>8. \A b, c : CopyOnly(r, b, c) => CopyOnly(a, b, c)
    BY <2>2 DEF CopyOnly
  <2> QED BY <2>2, <2>4, <2>7, <2>8
<1>3. CASE Len(r.work) = 1
  <2>1. /\ a.pc = "table" /\ a.work = <<>> /\ a.rows = r.rows /\ a.to = r.to
        /\ a.req = r.req
    BY <1>3 DEF ThreadRecord, Returned
  <2>2. Len(<<>>) = 0
    OBVIOUS
  <2>3. WalkOK(a)
    BY <2>1, <2>2 DEF WalkOK
  <2>4. \A p : Made(r, p) => Made(a, p)
    BY <1>3, <2>1 DEF Made
  <2>5. \A c, s, p : Said(r, c, s, p) => Said(a, c, s, p)
    BY <2>1, <2>4 DEF Said
  <2>6. PICK k \in 1 .. Len(r.rows) : r.rows[k] = r.req.dest
    BY <1>3
  <2>7. \A b, c : CopyOnly(r, b, c) => b = None
    BY DEF CopyOnly
  <2>8. \A b, c : b = None => CopyOnly(a, b, c)
    BY <2>1, <2>6 DEF CopyOnly
  <2> QED BY <2>1, <2>3, <2>5, <2>7, <2>8
<1>4. Len(r.work) > 1 \/ Len(r.work) = 1
  <2>1. PICK n : n = Len(r.work)
    OBVIOUS
  <2>2. n \in Nat /\ n # 0 => (n > 1 \/ n = 1)
    OBVIOUS
  <2> QED BY <1>1, <2>1, <2>2
<1> QED
  BY <1>2, <1>3, <1>4

(* An entry is finished. *)
LEMMA FinishedRest ==
    ASSUME TInv, NEW t \in Threads, At(t, "copy"), Become(t, Finished(t)),
           Top(t).dst \in Path,
           UNCHANGED << cat, tree, backup, disturbed >>,
           \A w \in writers' : w.by = t \/ \E v \in writers : v.by = w.by
    PROVE  \E r : StepOK(t, r)
<1>1. PICK r, f, r1, a : /\ r = thread[t] /\ f = Top(t) /\ r1 = WithRow(r, f.dst)
                         /\ a = Returned(r1)
  OBVIOUS
<1>2. /\ r \in ThreadRecord /\ WalkOK(r) /\ r.pc = "copy" /\ r.work # <<>> /\ f = r.work[1]
      /\ ~ Is(t, "delete") /\ r.req.op = "copy" /\ IsPrefix(r.req.dest, f.dst)
  BY <1>1, TopWalk
<1>3. thread' = [thread EXCEPT ![t] = a]
  BY <1>1 DEF Become, Finished, WithRow
<1>4. PICK rows : rows = Append(r.rows, f.dst)
  OBVIOUS
<1>5. /\ rows \in Seq(Path) /\ Len(rows) = Len(r.rows) + 1 /\ Len(r.rows) \in Nat
      /\ \A k \in 1 .. Len(r.rows) : rows[k] = r.rows[k]
      /\ rows[Len(r.rows) + 1] = f.dst
  BY <1>1, <1>2, <1>4, AppendProperties DEF ThreadRecord
<1>6. /\ r1.pc = r.pc /\ r1.work = r.work /\ r1.rows = rows /\ r1.to = r.to
      /\ r1.req = r.req /\ r1 \in ThreadRecord
  BY <1>1, <1>2, <1>4, <1>5 DEF ThreadRecord, WithRow
<1>7. /\ \A k \in 1 .. Len(r.rows) : k \in 1 .. Len(rows)
      /\ Len(rows) \in 1 .. Len(rows) /\ rows[Len(rows)] = f.dst
      /\ \A k \in 1 .. Len(rows) : k \in 1 .. Len(r.rows) \/ k = Len(rows)
  BY <1>5
<1>8. WalkOK(r1)
  BY <1>2, <1>5, <1>6, <1>7 DEF WalkOK
<1>9. \A p : Made(r, p) => Made(r1, p)
  BY <1>5, <1>6, <1>7 DEF Made
<1>10. \A c, s, p : Said(r, c, s, p) => Said(r1, c, s, p)
  <2> SUFFICES ASSUME NEW c, NEW s, NEW p, Said(r, c, s, p) PROVE Said(r1, c, s, p)
    OBVIOUS
  <2>1. s = r.to /\ (c = s \/ Made(r, p))
    BY <1>2 DEF Said
  <2> QED BY <1>2, <1>6, <1>9, <2>1 DEF Said
<1>11. \A b, c : CopyOnly(r, b, c) => CopyOnly(r1, b, c)
  BY <1>2, <1>6 DEF CopyOnly
<1>12. Len(r1.work) = 1 => f.dst = r.req.dest
  BY <1>2, <1>6 DEF WalkOK
<1>13. /\ WalkOK(a) /\ a.req = r1.req /\ a.pc # "idle"
       /\ \A c, s, p : Said(r1, c, s, p) => Said(a, c, s, p)
       /\ \A b, c : CopyOnly(r1, b, c) => CopyOnly(a, b, c)
  BY <1>1, <1>2, <1>6, <1>7, <1>8, <1>12, ReturnedRest
<1>14. StepOK(t, a)
  BY <1>1, <1>2, <1>3, <1>6, <1>10, <1>11, <1>13, QuietStepOK
<1> QED
  BY <1>14

LEMMA StatEntryOK ==
    ASSUME TInv, NEW t \in Threads, StatEntry(t)
    PROVE  \E r : StepOK(t, r)
<1>1. /\ At(t, "copy") /\ Top(t).act = "stat"
      /\ UNCHANGED << cat, tree, backup, writers, disturbed >>
  BY DEF StatEntry, Doing, fsVars
<1>2. PICK r, f : r = thread[t] /\ f = Top(t)
  OBVIOUS
<1>3. /\ r \in ThreadRecord /\ WalkOK(r) /\ r.pc = "copy" /\ r.work # <<>> /\ f = r.work[1]
      /\ f \in FrameRecord /\ ~ Is(t, "delete") /\ r.req \in Requests /\ r.req.op = "copy"
      /\ Len(r.work) \in Nat
  BY <1>1, <1>2, TopWalk
<1>4. CASE f.src = r.req.dest
  <2>1. PICK a : a = Returned(r)
    OBVIOUS
  <2>2. thread' = [thread EXCEPT ![t] = a]
    BY <1>2, <1>4, <2>1 DEF StatEntry, Become
  <2>3. Len(r.work) # 1
    BY <1>3, <1>4, CopyingAssumption DEF WalkOK
  <2>4. /\ WalkOK(a) /\ a.req = r.req /\ a.pc # "idle"
        /\ \A c, s, p : Said(r, c, s, p) => Said(a, c, s, p)
        /\ \A b, c : CopyOnly(r, b, c) => CopyOnly(a, b, c)
    BY <1>1, <1>2, <1>3, <2>1, <2>3, ReturnedRest
  <2>5. StepOK(t, a)
    BY <1>1, <1>2, <1>3, <2>2, <2>4, QuietStepOK
  <2> QED BY <2>5
<1>5. CASE f.src # r.req.dest /\ ~ Exists(r.from, f.src)
  BY <1>1, <1>2, <1>5, CopyFailsOK DEF StatEntry
<1>6. CASE f.src # r.req.dest /\ Exists(r.from, f.src)
  <2>1. PICK g : g = [f EXCEPT !.act = "create", !.folder = tree[r.from][f.src] = Folder]
    OBVIOUS
  <2>2. Now(t, g)
    BY <1>2, <1>6, <2>1 DEF StatEntry
  <2>3. g \in FrameRecord /\ g.src = f.src /\ g.dst = f.dst
    <3>1. (tree[r.from][f.src] = Folder) \in BOOLEAN
      OBVIOUS
    <3> QED BY <1>3, <2>1, <3>1 DEF FrameRecord, Acts
  <2> QED BY <1>1, <1>2, <2>2, <2>3, NowOK
<1> QED
  BY <1>4, <1>5, <1>6

LEMMA CreateEntryOK ==
    ASSUME TInv, NEW t \in Threads, CreateEntry(t)
    PROVE  \E r : StepOK(t, r)
<1>1. PICK r, f : r = thread[t] /\ f = Top(t)
  OBVIOUS
<1>2. At(t, "copy") /\ UNCHANGED << cat, backup, writers, disturbed >>
  BY DEF CreateEntry, Doing
<1>3. /\ r \in ThreadRecord /\ WalkOK(r) /\ r.pc = "copy" /\ r.work # <<>> /\ f = r.work[1]
      /\ f \in FrameRecord /\ r.to \in SS /\ r.req.op = "copy"
      /\ IsPrefix(r.req.dest, f.dst)
  BY <1>1, <1>2, TopWalk
<1>4. CASE CanCreate(tree[r.to], f.dst, f.folder)
  <2>1. PICK g : g = [f EXCEPT !.act = IF f.folder THEN "opendir" ELSE "write"]
    OBVIOUS
  <2>2. PICK r2 : r2 = WithTop(r, g)
    OBVIOUS
  <2>3. Create(r.to, f.dst, f.folder) /\ thread' = [thread EXCEPT ![t] = r2]
    BY <1>1, <1>4, <2>1, <2>2 DEF CreateEntry, Now, Become, WithTop
  <2>4. g \in FrameRecord /\ g.act \notin {"stat", "create"} /\ g.src = f.src /\ g.dst = f.dst
    BY <1>3, <2>1 DEF FrameRecord, Acts
  <2>5. /\ WalkOK(r2) /\ r2.req = r.req /\ r2.pc = "copy" /\ r2.to = r.to /\ Made(r2, f.dst)
        /\ \A c, s, p : Said(r, c, s, p) => Said(r2, c, s, p)
        /\ \A b, c : CopyOnly(r, b, c) => CopyOnly(r2, b, c)
    BY <1>3, <2>2, <2>4, WithTopRest
  <2>6. Makes(t, f.dst)
    BY <1>1, <1>3 DEF Makes, Target, Is, At
  <2>7. \A c : Said(r2, c, r.to, f.dst)
    BY <2>5 DEF Said
  <2>8. StepOK(t, r2)
    BY <1>1, <1>2, <1>3, <1>4, <2>3, <2>5, <2>6, <2>7, MakeOK
  <2> QED BY <2>8
<1>5. CASE ~ CanCreate(tree[r.to], f.dst, f.folder)
  BY <1>1, <1>2, <1>5, CopyFailsOK DEF CreateEntry
<1> QED
  BY <1>4, <1>5

LEMMA OpenAtDestinationOK ==
    ASSUME TInv, NEW t \in Threads, OpenAtDestination(t)
    PROVE  \E r : StepOK(t, r)
<1>1. PICK r, f : r = thread[t] /\ f = Top(t)
  OBVIOUS
<1>2. At(t, "copy") /\ Top(t).act = "write" /\ UNCHANGED << cat, backup, disturbed >>
  BY DEF OpenAtDestination, Doing
<1>3. /\ r \in ThreadRecord /\ WalkOK(r) /\ r.pc = "copy" /\ r.work # <<>> /\ f = r.work[1]
      /\ f \in FrameRecord /\ r.to \in SS /\ r.req.op = "copy" /\ ~ Is(t, "delete")
      /\ IsPrefix(r.req.dest, f.dst)
  BY <1>1, <1>2, TopWalk
<1>4. CASE CanOpen(r.to, f.dst)
  <2>1. PICK g : g = [f EXCEPT !.act = "open"]
    OBVIOUS
  <2>2. PICK r2 : r2 = WithTop(r, g)
    OBVIOUS
  <2>3. PICK w : w = [by |-> t, path |-> f.dst, ino |-> Inode(r.to, f.dst), pos |-> 0,
                      queue |-> <<>>, open |-> TRUE]
    OBVIOUS
  <2>4. /\ CanCreate(tree[r.to], f.dst, FALSE) /\ Create(r.to, f.dst, FALSE)
        /\ thread' = [thread EXCEPT ![t] = r2] /\ writers' = writers \cup {w}
    BY <1>1, <1>4, <2>1, <2>2, <2>3
       DEF OpenAtDestination, Now, Become, WithTop, CanOpen, Create
  <2>5. g \in FrameRecord /\ g.act \notin {"stat", "create"} /\ g.src = f.src /\ g.dst = f.dst
    BY <1>3, <2>1 DEF FrameRecord, Acts
  <2>6. /\ WalkOK(r2) /\ r2.req = r.req /\ r2.pc = "copy" /\ r2.to = r.to /\ Made(r2, f.dst)
        /\ \A c, s, p : Said(r, c, s, p) => Said(r2, c, s, p)
        /\ \A b, c : CopyOnly(r, b, c) => CopyOnly(r2, b, c)
    BY <1>3, <2>2, <2>5, WithTopRest
  <2>7. Makes(t, f.dst)
    BY <1>1, <1>3 DEF Makes, Target, Is, At
  <2>8. \A c : Said(r2, c, r.to, f.dst)
    BY <2>6 DEF Said
  <2>9. \A v \in writers' : v.by = t \/ v \in writers
    BY <2>3, <2>4
  <2>10. StepOK(t, r2)
    BY <1>1, <1>2, <1>3, <2>4, <2>6, <2>7, <2>8, <2>9, MakeOK
  <2> QED BY <2>10
<1>5. CASE ~ CanOpen(r.to, f.dst)
  <2>1. PICK r2 : r2 = Moved(r, "waits")
    OBVIOUS
  <2>2. thread' = [thread EXCEPT ![t] = r2] /\ UNCHANGED << tree, writers >>
    BY <1>1, <1>5, <2>1 DEF OpenAtDestination, Go, Become, Moved
  <2>3. /\ r2.work = r.work /\ r2.rows = r.rows /\ r2.req = r.req /\ r2.pc = "waits"
    BY <1>3, <2>1 DEF ThreadRecord, Moved
  <2>4. WalkOK(r2)
    BY <1>3, <2>3, WalkMoved
  <2>5. /\ \A c, s, p : Said(r2, c, s, p)
        /\ \A b, c : CopyOnly(r, b, c) => CopyOnly(r2, b, c)
    BY <1>3, <2>3 DEF Said, CopyOnly
  <2>6. StepOK(t, r2)
    BY <1>1, <1>2, <1>3, <2>2, <2>3, <2>4, <2>5, QuietStepOK
  <2> QED BY <2>6
<1> QED
  BY <1>4, <1>5

LEMMA NoConnectionOK ==
    ASSUME TInv, NEW t \in Threads, NoConnection(t)
    PROVE  \E r : StepOK(t, r)
BY CopyFailsOK DEF NoConnection, Doing, fsVars

LEMMA OpenFolderOK ==
    ASSUME TInv, NEW t \in Threads, OpenFolder(t)
    PROVE  \E r : StepOK(t, r)
<1>1. /\ At(t, "copy") /\ Top(t).act = "opendir"
      /\ UNCHANGED << cat, tree, backup, writers, disturbed >>
  BY DEF OpenFolder, Doing, fsVars
<1>2. PICK r, f : r = thread[t] /\ f = Top(t)
  OBVIOUS
<1>3. f \in FrameRecord
  BY <1>1, <1>2, TopWalk
<1>4. CASE tree[r.from][f.src] # Folder
  BY <1>1, <1>2, <1>4, CopyFailsOK DEF OpenFolder
<1>5. CASE tree[r.from][f.src] = Folder
  <2>1. PICK g : g = [f EXCEPT !.act = "list", !.listed = Children(r.from, f.src)]
    OBVIOUS
  <2>2. Now(t, g)
    BY <1>2, <1>5, <2>1 DEF OpenFolder
  <2>3. Children(r.from, f.src) \subseteq Path
    BY DEF Children
  <2>4. g \in FrameRecord /\ g.act = "list" /\ g.src = f.src /\ g.dst = f.dst
    BY <1>3, <2>1, <2>3 DEF FrameRecord, Acts
  <2> QED BY <1>1, <1>2, <2>2, <2>4, NowOK
<1> QED
  BY <1>4, <1>5

(* The entry at work waits below what readdir has returned. *)
LEMMA PushedRest ==
    ASSUME NEW r \in ThreadRecord, r.pc = "copy", r.work # <<>>, WalkOK(r),
           NEW f \in FrameRecord, f.src = r.work[1].src, f.dst = r.work[1].dst,
           f.act \notin {"stat", "create"},
           NEW g \in FrameRecord, IsPrefix(r.req.dest, g.dst),
           NEW a, a = Pushed(r, g, f)
    PROVE  /\ WalkOK(a) /\ a.req = r.req /\ a.pc = "copy"
           /\ \A c, s, p : Said(r, c, s, p) => Said(a, c, s, p)
           /\ \A b, c : CopyOnly(r, b, c) => CopyOnly(a, b, c)
<1> DEFINE w == [r.work EXCEPT ![1] = f]
           v == << g >> \o w
<1>1. r.work \in Seq(FrameRecord) /\ Len(r.work) \in Nat /\ 1 \in 1 .. Len(r.work)
  BY DEF ThreadRecord
<1>2. /\ w \in Seq(FrameRecord) /\ Len(w) = Len(r.work)
      /\ \A k \in 1 .. Len(r.work) : w[k] = IF k = 1 THEN f ELSE r.work[k]
  BY <1>1, ExceptSeq
<1>3. /\ a.pc = r.pc /\ a.work = v /\ a.rows = r.rows /\ a.to = r.to /\ a.req = r.req
  BY DEF ThreadRecord, Pushed
<1> HIDE DEF w
<1>4. /\ v \in Seq(FrameRecord) /\ Len(v) = Len(w) + 1 /\ v[1] = g
      /\ \A k \in 2 .. Len(v) : v[k] = w[k - 1] /\ k - 1 \in 1 .. Len(w)
  <2>1. << g >> \in Seq(FrameRecord) /\ Len(<< g >>) = 1 /\ << g >>[1] = g
    OBVIOUS
  <2>2. /\ v \in Seq(FrameRecord) /\ Len(v) = 1 + Len(w)
        /\ \A i \in 1 .. 1 + Len(w) : v[i] = IF i <= 1 THEN << g >>[i] ELSE w[i - 1]
    BY <1>2, <2>1, ConcatProperties
  <2>3. Len(w) \in Nat
    BY <1>2
  <2> QED BY <2>1, <2>2, <2>3
<1> HIDE DEF v
<1>5. \A k \in 1 .. Len(w) : /\ w[k].src = r.work[k].src /\ w[k].dst = r.work[k].dst
                             /\ r.work[k].act \notin {"stat", "create"} =>
                                   w[k].act \notin {"stat", "create"}
  BY <1>2
<1>6. \A k \in 1 .. Len(w) : k + 1 \in 1 .. Len(v) /\ v[k + 1] = w[k]
  <2> SUFFICES ASSUME NEW k \in 1 .. Len(w) PROVE k + 1 \in 1 .. Len(v) /\ v[k + 1] = w[k]
    OBVIOUS
  <2>1. k + 1 \in 2 .. Len(v) /\ (k + 1) - 1 = k
    BY <1>1, <1>2, <1>4
  <2>2. v[k + 1] = w[(k + 1) - 1]
    BY <1>4, <2>1
  <2> QED BY <2>1, <2>2
<1>7. WalkOK(a)
  <2>1. \A k \in 1 .. Len(v) : IsPrefix(r.req.dest, v[k].dst)
    <3> SUFFICES ASSUME NEW k \in 1 .. Len(v) PROVE IsPrefix(r.req.dest, v[k].dst)
      OBVIOUS
    <3>1. CASE k = 1
      BY <1>4, <3>1
    <3>2. CASE k # 1
      <4>1. v[k] = w[k - 1] /\ k - 1 \in 1 .. Len(w)
        BY <1>4, <3>2
      <4>2. IsPrefix(r.req.dest, r.work[k - 1].dst)
        BY <1>2, <4>1 DEF WalkOK
      <4> QED BY <1>5, <4>1, <4>2
    <3> QED BY <3>1, <3>2
  <2>2. Len(w) \in 1 .. Len(w) /\ v[Len(v)] = w[Len(w)]
    BY <1>1, <1>2, <1>4, <1>6
  <2>3. v[Len(v)].src = r.req.path /\ v[Len(v)].dst = r.req.dest
    BY <1>2, <1>5, <2>2 DEF WalkOK
  <2>4. \A k \in 1 .. Len(r.rows) : IsPrefix(r.req.dest, r.rows[k])
    BY DEF WalkOK
  <2> QED BY <1>3, <2>1, <2>3, <2>4 DEF WalkOK
<1>8. \A p : Made(r, p) => Made(a, p)
  <2> SUFFICES ASSUME NEW p, Made(r, p) PROVE Made(a, p)
    OBVIOUS
  <2>1. CASE \E k \in 1 .. Len(r.rows) : r.rows[k] = p
    BY <1>3, <2>1 DEF Made
  <2>2. CASE \A k \in 1 .. Len(r.rows) : r.rows[k] # p
    <3>1. PICK k \in 1 .. Len(r.work) :
             r.work[k].dst = p /\ r.work[k].act \notin {"stat", "create"}
      BY <2>2 DEF Made
    <3>2. k \in 1 .. Len(w) /\ w[k].dst = p /\ w[k].act \notin {"stat", "create"}
      BY <1>2, <1>5, <3>1
    <3> QED BY <1>3, <1>6, <3>2 DEF Made
  <2> QED BY <2>1, <2>2
<1>9. \A c, s, p : Said(r, c, s, p) => Said(a, c, s, p)
  BY <1>3, <1>8 DEF Said
<1>10. \A b, c : CopyOnly(r, b, c) => CopyOnly(a, b, c)
  BY <1>3 DEF CopyOnly
<1> QED
  BY <1>3, <1>7, <1>9, <1>10

LEMMA ReadEntryOK ==
    ASSUME TInv, NEW t \in Threads, ReadEntry(t)
    PROVE  \E r : StepOK(t, r)
<1>1. /\ At(t, "copy") /\ UNCHANGED << cat, tree, backup, writers, disturbed >>
  BY DEF ReadEntry, Doing, fsVars
<1>2. PICK r, f : r = thread[t] /\ f = Top(t)
  OBVIOUS
<1>3. /\ r \in ThreadRecord /\ WalkOK(r) /\ r.pc = "copy" /\ r.work # <<>> /\ f = r.work[1]
      /\ f \in FrameRecord /\ f.act = "list" /\ IsPrefix(r.req.dest, f.dst) /\ r.req.dest \in Path
      /\ ~ Is(t, "delete")
  BY <1>1, <1>2, TopWalk DEF ReadEntry, Doing
<1>4. PICK c \in (f.listed \cup Children(r.from, f.src)) \ f.seen :
        thread' = [thread EXCEPT ![t] = [r EXCEPT !.work =
            << Frame(c, Append(f.dst, Last(c))) >>
               \o [@ EXCEPT ![1] = [f EXCEPT !.seen = @ \cup {c}]]]]
  BY <1>2 DEF ReadEntry, Become
<1>5. c \in Path
  BY <1>3 DEF FrameRecord, Children
<1>6. PICK d, g, f2 : /\ d = Append(f.dst, Last(c)) /\ g = Frame(c, d)
                      /\ f2 = [f EXCEPT !.seen = @ \cup {c}]
  OBVIOUS
<1>7. g \in FrameRecord /\ IsPrefix(r.req.dest, g.dst)
  <2>1. c \in Seq(STRING) /\ Last(c) \in STRING /\ r.req.dest \in Seq(STRING)
    BY <1>3, <1>5, PathFacts
  <2>2. f.dst \in Seq(STRING)
    BY <1>3 DEF FrameRecord
  <2>3. d \in Seq(STRING)
    BY <1>6, <2>1, <2>2
  <2>4. IsPrefix(r.req.dest, d)
    BY <1>3, <1>6, <2>1, <2>2, PrefixAppend
  <2>5. g.dst = d
    BY <1>6 DEF Frame
  <2> QED BY <1>6, <2>1, <2>3, <2>4, <2>5, FrameTyped
<1>8. f2 \in FrameRecord /\ f2.act = "list" /\ f2.dst = f.dst /\ f2.src = f.src
  BY <1>3, <1>5, <1>6 DEF FrameRecord
<1>9. PICK a : a = Pushed(r, g, f2)
  OBVIOUS
<1>10. thread' = [thread EXCEPT ![t] = a]
  BY <1>4, <1>6, <1>9 DEF Pushed
<1>11. /\ WalkOK(a) /\ a.req = r.req /\ a.pc = "copy"
       /\ \A k, s, p : Said(r, k, s, p) => Said(a, k, s, p)
       /\ \A b, k : CopyOnly(r, b, k) => CopyOnly(a, b, k)
  BY <1>3, <1>7, <1>8, <1>9, PushedRest
<1>12. StepOK(t, a)
  BY <1>1, <1>2, <1>3, <1>10, <1>11, QuietStepOK
<1> QED
  BY <1>12

LEMMA FinishedPlace ==
    ASSUME TInv, NEW t \in Threads, At(t, "copy"), Top(t).act \notin {"stat", "create"}
    PROVE  Top(t).dst \in Path
<1>1. FrameOK(Top(t), thread[t].to, Known, OpenAt(t), Inodes)
  BY TopFacts DEF TInv
<1> QED
  BY <1>1 DEF FrameOK, Known

LEMMA FolderCopiedOK ==
    ASSUME TInv, NEW t \in Threads, FolderCopied(t)
    PROVE  \E r : StepOK(t, r)
<1>1. /\ At(t, "copy") /\ Top(t).act = "list" /\ Become(t, Finished(t))
      /\ UNCHANGED << cat, tree, backup, writers, disturbed >>
  BY DEF FolderCopied, Doing, fsVars
<1> QED
  BY <1>1, FinishedPlace, FinishedRest

LEMMA SentWriters ==
    ASSUME TInv, NEW t \in Threads, At(t, "copy"), Top(t).act = "read",
           NEW w, w.by = t, Sent(t, w)
    PROVE  \A v \in writers' : v.by = t \/ \E u \in writers : u.by = v.by
BY DEF Sent

LEMMA FileCopiedOK ==
    ASSUME TInv, NEW t \in Threads, FileCopied(t)
    PROVE  \E r : StepOK(t, r)
<1>1. /\ At(t, "copy") /\ Top(t).act = "read" /\ Become(t, Finished(t))
      /\ UNCHANGED << cat, tree, backup, disturbed >>
  BY DEF FileCopied, Doing, fsVars
<1>2. PICK w : w = [Writer(t) EXCEPT !.open = FALSE]
  OBVIOUS
<1>3. w.by = t
  BY <1>1, <1>2, WriterFacts DEF TInv, WriterRecord
<1>4. Sent(t, w)
  BY <1>2 DEF FileCopied
<1>5. \A v \in writers' : v.by = t \/ \E u \in writers : u.by = v.by
  BY <1>1, <1>3, <1>4, SentWriters
<1> QED
  BY <1>1, <1>5, FinishedPlace, FinishedRest

LEMMA SendChunkOK ==
    ASSUME TInv, NEW t \in Threads, SendChunk(t)
    PROVE  \E r : StepOK(t, r)
<1>1. /\ At(t, "copy") /\ Top(t).act = "read"
      /\ UNCHANGED << cat, tree, backup, disturbed >>
  BY DEF SendChunk, Doing, fsVars
<1>2. PICK f, g, w : /\ f = Top(t) /\ g = [f EXCEPT !.pos = @ + 1]
                     /\ w = [Writer(t) EXCEPT !.queue = Append(@, Contents(f.ino)[f.pos + 1])]
  OBVIOUS
<1>3. w.by = t
  BY <1>1, <1>2, WriterFacts DEF TInv, WriterRecord
<1>4. Sent(t, w) /\ Now(t, g)
  BY <1>2 DEF SendChunk
<1>5. \A v \in writers' : v.by = t \/ \E u \in writers : u.by = v.by
  BY <1>1, <1>3, <1>4, SentWriters
<1>6. f \in FrameRecord
  BY <1>1, <1>2, TopWalk
<1>7. g \in FrameRecord /\ g.src = f.src /\ g.dst = f.dst /\ g.act = "read"
  <2>1. f.pos + 1 \in Nat
    BY <1>6 DEF FrameRecord
  <2> QED BY <1>1, <1>2, <1>6, <2>1 DEF FrameRecord
<1> QED
  BY <1>1, <1>2, <1>4, <1>5, <1>7, NowOK

LEMMA OpenAtSourceOK ==
    ASSUME TInv, NEW t \in Threads, OpenAtSource(t)
    PROVE  \E r : StepOK(t, r)
<1>1. /\ At(t, "copy") /\ Top(t).act = "open"
      /\ UNCHANGED << cat, tree, backup, writers, disturbed >>
  BY DEF OpenAtSource, Doing
<1>2. PICK r, f : r = thread[t] /\ f = Top(t)
  OBVIOUS
<1>3. f \in FrameRecord /\ r.from \in SS
  BY <1>1, <1>2, TopWalk
<1>4. CASE ~ Exists(r.from, f.src)
  BY <1>1, <1>2, <1>4, CopyFailsOK DEF OpenAtSource
<1>5. CASE Exists(r.from, f.src)
  <2>1. PICK g : g = [f EXCEPT !.act = "read", !.ino = tree[r.from][f.src]]
    OBVIOUS
  <2>2. Now(t, g)
    BY <1>2, <1>5, <2>1 DEF OpenAtSource
  <2>3. tree[r.from][f.src] \in Int
    <3>1. tree[r.from][f.src] \in {None, Folder} \cup DOMAIN data
      BY <1>3, <1>5 DEF Exists, TInv, IInv, TypeOK
    <3>2. DOMAIN data \subseteq Nat
      BY DEF TInv, IInv, TypeOK
    <3> QED BY <3>1, <3>2 DEF Folder, None
  <2>4. g \in FrameRecord /\ g.src = f.src /\ g.dst = f.dst /\ g.act = "read"
    BY <1>3, <2>1, <2>3 DEF FrameRecord, Acts
  <2> QED BY <1>1, <1>2, <2>2, <2>4, NowOK
<1> QED
  BY <1>4, <1>5

-----------------------------------------------------------------------------
LEMMA CopyStepOK ==
    ASSUME TInv, NEW t \in Threads, CopyStep(t)
    PROVE  \E r : StepOK(t, r)
BY StatEntryOK, CreateEntryOK, NoConnectionOK, OpenFolderOK, ReadEntryOK, FolderCopiedOK,
   OpenAtDestinationOK, OpenAtSourceOK, SendChunkOK, FileCopiedOK DEF CopyStep

LEMMA ThreadStepOK ==
    ASSUME TInv, NEW t \in Threads, ThreadStep(t)
    PROVE  \E r : StepOK(t, r)
BY LookupSourceOK, LookupTargetOK, LookupParentOK, PickServerOK, ConnectOK, ConnectFailsOK,
   CheckSourceOK, CopyStepOK, ReceiveTableOK, AddRowOK, RowsAddedOK, CreatePrimaryOK,
   CreateBackupOK, AddCreatedOK, DeletePrimaryOK, DeleteBackupOK, ForgetOK, SendAnswerOK
   DEF ThreadStep

LEMMA NextKeepsRest == TInv /\ [Next]_vars => TInv'
<1> SUFFICES ASSUME TInv, [Next]_vars PROVE TInv'
  OBVIOUS
<1>1. IInv'
  BY NextKeeps DEF TInv
<1>2. ASSUME NEW t \in Threads, Accept(t)
      PROVE  TInv'
  BY <1>1, <1>2, AcceptKeepsRest
<1>3. ASSUME NEW t \in Threads, ThreadStep(t)
      PROVE  TInv'
  <2>1. PICK r : StepOK(t, r)
    BY <1>3, ThreadStepOK
  <2> QED BY <1>1, <2>1, StepKeepsRest
<1>4. ASSUME NEW w \in writers, WriteChunk(w) \/ EndWrite(w)
      PROVE  TInv'
  <2>1. w \in WriterRecord
    BY DEF TInv, IInv, TypeOK
  <2>2. UNCHANGED << cat, tree, backup, thread, disturbed >>
    BY <1>4 DEF WriteChunk, EndWrite, fsVars
  <2>3. \A v \in writers' : \E u \in writers : u.by = v.by
    <3>1. CASE WriteChunk(w)
      <4>1. PICK x : x = [w EXCEPT !.pos = @ + 1, !.queue = Tail(@)]
        OBVIOUS
      <4>2. x.by = w.by
        BY <2>1, <4>1 DEF WriterRecord
      <4> QED BY <3>1, <4>1, <4>2 DEF WriteChunk
    <3>2. CASE EndWrite(w)
      BY <3>2 DEF EndWrite
    <3> QED BY <1>4, <3>1, <3>2
  <2> QED BY <1>1, <2>2, <2>3, WriterKeepsRest
<1>5. CASE UNCHANGED vars
  BY <1>1, <1>5, WriterKeepsRest DEF vars, fsVars
<1> QED
  BY <1>2, <1>3, <1>4, <1>5 DEF Next

(* Whoever makes p, where two do, has related paths. *)
LEMMA MakersLinked ==
    ASSUME TInv, NEW t \in Threads, NEW u \in Threads, t # u, NEW p \in Path,
           Makes(t, p), Makes(u, p)
    PROVE  Linked(t, u)
<1>1. PICK a, b : a = Target(thread[t].req) /\ b = Target(thread[u].req)
  OBVIOUS
<1>2. /\ IsPrefix(a, p) /\ IsPrefix(b, p) /\ ~ At(t, "idle") /\ ~ At(u, "idle")
  BY <1>1 DEF Makes
<1>3. thread[t].req \in Requests /\ thread[u].req \in Requests
  BY <1>2, WalkFacts DEF At, PcOK
<1>4. a \in Seq(STRING) /\ b \in Seq(STRING) /\ p \in Seq(STRING)
  BY <1>1, <1>3, RequestFacts, PathFacts
<1>5. Comparable(a, b)
  BY <1>2, <1>4, PrefixesCompare
<1>6. a \in Paths(thread[t].req) /\ b \in Paths(thread[u].req)
  BY <1>1 DEF Paths, Target
<1> QED
  BY <1>2, <1>5, <1>6 DEF Linked, Related

(* What is on a disk and not in the catalogue, where nobody deletes, is of *)
(* a COPY or a CREATE that was not answered OK or that had company: of     *)
(* what a confirmed copy has made every entry is listed (client_handler.c: *)
(* 171, copy_request_handler.c:87).                                        *)
THEOREM WhatIsThereIsListed == Spec => []ThereIsListed
<1>1. TInv => ThereIsListed
  <2> SUFFICES ASSUME TInv, NEW s \in SS, NEW p \in Path, Exists(s, p), cat[p] # s, NoDelete(p)
               PROVE  \E t \in Threads : Makes(t, p) /\ (~ Confirmed(t) \/ t \in disturbed)
    BY DEF ThereIsListed, NoDelete
  <2>1. PICK t \in Threads : Makes(t, p)
    BY DEF TInv, ListOK
  <2>2. CASE OnlyMaker(t, p)
    <3>1. Said(thread[t], cat[p], s, p)
      BY <2>2 DEF TInv, ListOK
    <3>2. ~ Confirmed(t)
      BY <3>1 DEF Said, Confirmed, At
    <3> QED BY <2>1, <3>2
  <2>3. CASE ~ OnlyMaker(t, p)
    <3>1. PICK u \in Threads : u # t /\ Makes(u, p)
      BY <2>1, <2>3 DEF OnlyMaker
    <3>2. Linked(t, u)
      BY <2>1, <3>1, MakersLinked
    <3>3. t \in disturbed \/ u \in disturbed
      BY <3>2 DEF TInv, Older
    <3> QED BY <2>1, <3>1, <3>3
  <2> QED BY <2>2, <2>3
<1> QED
  BY <1>1, RestInit, NextKeepsRest, PTL DEF Spec

(* A DELETE of a copy, with nobody else about, is refused, because a copy  *)
(* has no backup, and leaves the path of the copy in the catalogue         *)
(* (client_handler.c:333, nm_handler.c:37).                                *)
THEOREM DeletedCopyAlwaysStays == Spec => []DeletedCopyStays
<1>1. TInv => DeletedCopyStays
  <2> SUFFICES ASSUME TInv, NEW t \in Threads, NEW u \in Threads,
                      Is(t, "copy"), Confirmed(t), Is(u, "delete"),
                      thread[u].req.path = thread[t].req.dest, u \notin disturbed,
                      \A v \in Threads \ {t, u} : Elsewhere(v, thread[t].req.dest)
               PROVE  thread[u].resp # OK /\ cat[thread[t].req.dest] = thread[t].to
    BY DEF DeletedCopyStays
  <2>1. Quiet(thread[t].req.dest, {t, u})
    BY DEF Quiet
  <2>2. Refused(thread[u]) /\ cat[thread[t].req.dest] = thread[t].to
    BY <2>1 DEF TInv, RefusedOK
  <2> QED BY <2>2 DEF Refused
<1> QED
  BY <1>1, RestInit, NextKeepsRest, PTL DEF Spec

-----------------------------------------------------------------------------
(* The data: what a copy has to copy, what has arrived, and what is ahead. *)

(* No file has two names, and a WRITE handler writes to the file at its    *)
(* path or to one that is no longer anywhere.                              *)
OneFile ==
    \A s, u \in SS, p, q \in Path : tree[s][p] > Folder /\ tree[s][p] = tree[u][q] =>
        s = u /\ p = q
Early == {"idle", "source", "target", "parent", "connect", "check"}
StreamPlaces ==
    \A w \in writers :
        /\ Is(w.by, "copy") /\ thread[w.by].pc \notin Early
        /\ IsPrefix(thread[w.by].req.dest, w.path)
        /\ \A s \in SS, p \in Path : tree[s][p] = w.ino => p = w.path

(* An entry at work, by itself: it is below the source, its copy is at the *)
(* same place below the destination, it has seen its own entries only, the *)
(* one that is at work among them; and the copy itself is left out.        *)
Image(r, p) == r.req.dest \o SubSeq(p, Len(r.req.path) + 1, Len(p))
InCopy(r, p) == IsPrefix(r.req.path, r.req.dest) /\ IsPrefix(r.req.dest, p)
PlaceOK(r, f) ==
    /\ f.src \in Path /\ IsPrefix(r.req.path, f.src) /\ f.dst = Image(r, f.src)
    /\ \A c \in f.listed \cup f.seen : Front(c) = f.src
    /\ f.act # "list" => f.seen = {}
    /\ f.act # "read" => f.pos = 0
    /\ InCopy(r, f.src) => f.src = r.req.dest /\ f.act = "stat"
Local(r) ==
    /\ \A k \in 1 .. Len(r.work) :
          /\ PlaceOK(r, r.work[k])
          /\ \A j \in 1 .. k - 1 : \E c \in r.work[k].seen : IsPrefix(c, r.work[j].src)
    /\ r.copied => /\ r.pc \in {"table", "waits", "rows", "answer", "done"} /\ r.work = <<>>
                   /\ r.req \in Requests /\ r.req.op = "copy" /\ r.from \in SS /\ r.to \in SS
Locals == \A t \in Threads : Local(thread[t])

(* The rest is about a copy that nobody disturbs: r is its thread, S and D *)
(* are the trees of the source and of the destination, dat the data and W  *)
(* its WRITE handlers.                                                     *)
Src(r, S) == {p \in Path : IsPrefix(r.req.path, p) /\ S[p] # None /\ ~ InCopy(r, p)}
Pending(dat, w) == dat[w.ino] \o w.queue
StoredIn(dat, W, i) ==
    IF \E w \in W : w.ino = i THEN Pending(dat, CHOOSE w \in W : w.ino = i) ELSE dat[i]
ArrivedIn(r, S, D, dat, W, p) ==
    LET q == Image(r, p) IN
    /\ q \in Path
    /\ IF S[p] = Folder THEN D[q] = Folder
       ELSE D[q] > Folder /\ StoredIn(dat, W, D[q]) = dat[S[p]]

(* What an entry at work has still to do, with what is below it. *)
Covers(f, p) ==
    /\ IsPrefix(f.src, p)
    /\ f.act = "list" => p # f.src /\ \A c \in f.seen : ~ IsPrefix(c, p)
Ahead(r, p) == \E k \in 1 .. Len(r.work) : Covers(r.work[k], p)

EntryOK(r, S, D, dat, W, f) ==
    /\ f.act # "stat" => f.src \in Src(r, S)
    /\ f.act \notin {"stat", "create"} => f.dst \in Path
    /\ f.act = "create" => f.folder = (S[f.src] = Folder)
    /\ f.act \in {"opendir", "list"} => S[f.src] = Folder /\ D[f.dst] = Folder
    /\ f.act = "list" => \A c \in Path :
          Front(c) = f.src /\ S[c] # None => c \in f.listed \/ c = r.req.dest
    /\ f.act \in {"write", "open", "read"} => S[f.src] # Folder /\ D[f.dst] > Folder
    /\ f.act \in {"write", "open"} => StoredIn(dat, W, D[f.dst]) = <<>>
    /\ f.act = "read" =>
          /\ f.ino = S[f.src] /\ f.pos <= Len(dat[f.ino])
          /\ StoredIn(dat, W, D[f.dst]) = SubSeq(dat[f.ino], 1, f.pos)
StreamOK(r, S, D, dat, W, w) ==
    /\ Len(dat[w.ino]) = w.pos /\ D[w.path] = w.ino
    /\ \A v \in W : v.path = w.path => v = w
    /\ \E p \in Src(r, S) : /\ w.path = Image(r, p)
                            /\ Ahead(r, p) => /\ r.work[1].src = p
                                              /\ r.work[1].act \in {"open", "read"}
Started(r) ==
    \/ r.copied
    \/ r.pc = "copy" /\ r.work[Len(r.work)].act \notin {"stat", "create"}
CalmOK(r, S, D, dat, W) ==
    /\ \A k \in 1 .. Len(r.work) : EntryOK(r, S, D, dat, W, r.work[k])
    /\ \A p \in Src(r, S) : ArrivedIn(r, S, D, dat, W, p) \/ Ahead(r, p)
    /\ \A w \in W : StreamOK(r, S, D, dat, W, w)
    /\ Started(r) =>
          /\ r.from # r.to \/ ~ IsPrefix(r.req.dest, r.req.path)
          /\ \A q \in Path : IsPrefix(r.req.dest, q) /\ D[q] # None =>
                \E p \in Src(r, S) : q = Image(r, p)

Calm(t) == Is(t, "copy") /\ t \notin disturbed /\ (At(t, "copy") \/ thread[t].copied)
Calms ==
    \A t \in Threads : Calm(t) =>
        CalmOK(thread[t], tree[thread[t].from], tree[thread[t].to], data, Own(t))

(* What the proofs below use of the rest of the invariant. *)
Rooting(T) == \A p, q \in Path : T[q] # None /\ IsPrefix(p, q) /\ p # q => T[p] = Folder
Streams(dat) ==
    [by : Threads, path : Path, ino : DOMAIN dat, pos : Nat, queue : Seq(Chunk), open : BOOLEAN]
Setting(r, S, D, dat, W) ==
    /\ r \in ThreadRecord /\ r.req \in Requests /\ r.req.op = "copy" /\ Local(r)
    /\ r.pc = "copy" => /\ r.work # <<>>
                        /\ r.work[Len(r.work)].src = r.req.path
                        /\ r.work[Len(r.work)].dst = r.req.dest
    /\ \A k \in 2 .. Len(r.work) : r.work[k].act = "list"
    /\ S \in [Path -> {None, Folder} \cup DOMAIN dat] /\ Rooting(S)
    /\ D \in [Path -> {None, Folder} \cup DOMAIN dat] /\ Rooting(D)
    /\ dat \in Seq(Seq(Chunk)) /\ W \subseteq Streams(dat)
    /\ \A p, q \in Path : D[p] > Folder /\ D[p] = D[q] => p = q
    /\ \A p, q \in Path : S[p] > Folder /\ S[p] = D[q] => r.from = r.to /\ p = q
    /\ r.from = r.to => S = D
OneStream(D, W) ==
    \A w \in W : D[w.path] = w.ino /\ \A v \in W : v.path = w.path => v = w

WInv == TInv /\ OneFile /\ StreamPlaces /\ Locals /\ Calms

-----------------------------------------------------------------------------
(* Children, and where the copy of a path is. *)
LEMMA ChildFacts ==
    ASSUME NEW s \in Path, NEW c \in Path, Front(c) = s
    PROVE  /\ Len(c) = Len(s) + 1 /\ IsPrefix(s, c) /\ c # s /\ ~ IsPrefix(c, s)
           /\ c = Append(s, Last(c)) /\ Last(c) \in STRING
           /\ \A a \in Seq(STRING) : IsPrefix(a, c) /\ a # c => IsPrefix(a, s)
<1>1. /\ s \in Seq(STRING) /\ Len(s) \in Nat \ {0} /\ c \in Seq(STRING)
      /\ Len(c) \in Nat \ {0} /\ Last(c) \in STRING /\ Last(c) = c[Len(c)]
  BY PathFacts DEF Last
<1>2. PICK n : n = Len(c) - 1
  OBVIOUS
<1>3. n \in Nat /\ \A i \in 1 .. n : c[i] \in STRING
  BY <1>1, <1>2
<1>4. /\ SubSeq(c, 1, n) \in Seq(STRING) /\ Len(SubSeq(c, 1, n)) = n
      /\ \A i \in 1 .. n : SubSeq(c, 1, n)[i] = c[i]
  BY <1>3, SubSeqProperties
<1>5. Len(s) = n /\ \A i \in 1 .. n : s[i] = c[i]
  BY <1>2, <1>4 DEF Front
<1>6. Len(c) = Len(s) + 1 /\ IsPrefix(s, c) /\ c # s /\ ~ IsPrefix(c, s)
  BY <1>1, <1>2, <1>5, PrefixIs
<1>7. c = Append(s, Last(c))
  <2>1. PICK a : a = Append(s, Last(c))
    OBVIOUS
  <2>2. /\ a \in Seq(STRING) /\ Len(a) = Len(s) + 1
        /\ \A i \in 1 .. Len(s) : a[i] = s[i] /\ a[Len(s) + 1] = Last(c)
    BY <1>1, <2>1, AppendProperties
  <2>3. a[Len(s) + 1] = Last(c)
    BY <1>1, <2>1, AppendProperties
  <2>4. \A i \in 1 .. Len(c) : a[i] = c[i]
    BY <1>1, <1>2, <1>5, <1>6, <2>2, <2>3
  <2>5. a = c
    BY <1>1, <1>6, <2>2, <2>4, SeqEqual
  <2> QED BY <2>1, <2>5
<1>8. \A a \in Seq(STRING) : IsPrefix(a, c) /\ a # c => IsPrefix(a, s)
  BY <1>1, PrefixFront
<1> QED
  BY <1>1, <1>6, <1>7, <1>8

(* The way from a folder to what is below it. *)
LEMMA ChildTowards ==
    ASSUME NEW s \in Path, NEW p \in Path, IsPrefix(s, p), s # p
    PROVE  \E c \in Path : Front(c) = s /\ IsPrefix(c, p)
<1>1. /\ s \in Seq(STRING) /\ Len(s) \in Nat \ {0} /\ p \in Seq(STRING)
      /\ Len(p) \in Nat \ {0}
  BY PathFacts
<1>2. /\ Len(s) <= Len(p) /\ \A i \in 1 .. Len(s) : s[i] = p[i]
  BY <1>1, PrefixIs
<1>3. Len(s) # Len(p)
  BY <1>1, <1>2, SeqEqual
<1>4. PICK n, c : n = Len(s) + 1 /\ c = SubSeq(p, 1, n)
  OBVIOUS
<1>5. n \in 1 .. Len(p) /\ n - 1 = Len(s)
  BY <1>1, <1>2, <1>3, <1>4
<1>6. c \in Path
  BY <1>4, <1>5, CopyingAssumption
<1>7. /\ c \in Seq(STRING) /\ Len(c) = n
      /\ \A i \in 1 .. n : c[i] = p[i]
  <2>1. n \in Nat /\ \A i \in 1 .. n : p[i] \in STRING
    BY <1>1, <1>5
  <2> QED BY <1>4, <2>1, SubSeqProperties
<1>8. IsPrefix(c, p)
  BY <1>1, <1>5, <1>7, PrefixIs
<1>9. Front(c) = s
  <2>1. /\ SubSeq(c, 1, Len(s)) \in Seq(STRING) /\ Len(SubSeq(c, 1, Len(s))) = Len(s)
        /\ \A i \in 1 .. Len(s) : SubSeq(c, 1, Len(s))[i] = c[i]
    <3>1. \A i \in 1 .. Len(s) : c[i] \in STRING
      BY <1>1, <1>4, <1>7
    <3> QED BY <1>1, <3>1, SubSeqProperties
  <2>2. \A i \in 1 .. Len(s) : SubSeq(c, 1, Len(s))[i] = s[i]
    BY <1>1, <1>2, <1>4, <1>7, <2>1
  <2>3. SubSeq(c, 1, Len(s)) = s
    BY <1>1, <2>1, <2>2, SeqEqual
  <2> QED BY <1>5, <1>7, <2>3 DEF Front
<1> QED
  BY <1>6, <1>8, <1>9

LEMMA OneChildTowards ==
    ASSUME NEW s \in Path, NEW b \in Path, NEW c \in Path, NEW p \in Path,
           Front(b) = s, Front(c) = s, IsPrefix(b, p), IsPrefix(c, p)
    PROVE  b = c
<1>1. /\ b \in Seq(STRING) /\ c \in Seq(STRING) /\ p \in Seq(STRING)
      /\ Len(b) \in Nat /\ Len(c) = Len(b)
  BY PathFacts, ChildFacts
<1>2. /\ \A i \in 1 .. Len(b) : b[i] = p[i]
      /\ \A i \in 1 .. Len(c) : c[i] = p[i]
  BY <1>1, PrefixIs
<1> QED
  BY <1>1, <1>2, SeqEqual

(* The place of the copy. *)
LEMMA ImageIs ==
    ASSUME NEW r, r.req.path \in Path, r.req.dest \in Path, NEW p \in Path,
           IsPrefix(r.req.path, p)
    PROVE  /\ Image(r, p) \in Seq(STRING) /\ Image(r, p) # <<>>
           /\ Len(Image(r, p)) = Len(r.req.dest) + (Len(p) - Len(r.req.path))
           /\ \A i \in 1 .. Len(r.req.dest) : Image(r, p)[i] = r.req.dest[i]
           /\ \A i \in 1 .. Len(p) - Len(r.req.path) :
                 Image(r, p)[Len(r.req.dest) + i] = p[Len(r.req.path) + i]
           /\ IsPrefix(r.req.dest, Image(r, p))
<1>1. PICK a, d, m, n, l : /\ a = r.req.path /\ d = r.req.dest
                           /\ m = Len(a) /\ n = Len(p) /\ l = Len(d)
  OBVIOUS
<1>2. /\ a \in Seq(STRING) /\ d \in Seq(STRING) /\ p \in Seq(STRING)
      /\ m \in Nat \ {0} /\ n \in Nat \ {0} /\ l \in Nat \ {0}
  BY <1>1, PathFacts
<1>3. m <= n
  BY <1>1, <1>2, PrefixIs
<1>4. PICK t, k : t = SubSeq(p, m + 1, n) /\ k = n - m
  OBVIOUS
<1>5. /\ t \in Seq(STRING) /\ Len(t) = k /\ k \in Nat
      /\ \A i \in 1 .. k : t[i] = p[m + i]
  <2>1. CASE m = n
    BY <1>1, <1>2, <1>4, <2>1, SubSeqEmpty
  <2>2. CASE m < n
    <3>1. m + 1 \in 1 .. n + 1 /\ \A i \in m + 1 .. n : p[i] \in STRING
      BY <1>1, <1>2, <1>3
    <3>2. /\ t \in Seq(STRING) /\ Len(t) = (n - (m + 1)) + 1
          /\ \A i \in 1 .. (n - (m + 1)) + 1 : t[i] = p[(m + 1) + i - 1]
      BY <1>2, <1>4, <2>2, <3>1, SubSeqProperties
    <3>3. (n - (m + 1)) + 1 = k /\ k \in Nat
      BY <1>2, <1>3, <1>4
    <3>4. \A i \in 1 .. k : (m + 1) + i - 1 = m + i
      BY <1>2, <3>3
    <3> QED BY <3>2, <3>3, <3>4
  <2> QED BY <1>2, <1>3, <2>1, <2>2
<1>6. PICK q : q = d \o t
  OBVIOUS
<1>7. /\ q \in Seq(STRING) /\ Len(q) = l + k
      /\ \A i \in 1 .. l + k : q[i] = IF i <= l THEN d[i] ELSE t[i - l]
  <2>1. /\ d \o t \in Seq(STRING) /\ Len(d \o t) = Len(d) + Len(t)
        /\ \A i \in 1 .. Len(d) + Len(t) : (d \o t)[i] = IF i <= Len(d) THEN d[i] ELSE t[i - Len(d)]
    BY <1>2, <1>5, ConcatProperties
  <2> QED BY <1>1, <1>5, <1>6, <2>1
<1>8. /\ \A i \in 1 .. l : i \in 1 .. l + k /\ i <= l
      /\ \A i \in 1 .. k : l + i \in 1 .. l + k /\ ~ (l + i <= l) /\ (l + i) - l = i
  BY <1>2, <1>5
<1>9. /\ \A i \in 1 .. l : q[i] = d[i]
      /\ \A i \in 1 .. k : q[l + i] = p[m + i]
  BY <1>5, <1>7, <1>8
<1>10. l <= Len(q) /\ q # <<>>
  BY <1>2, <1>5, <1>7
<1>11. IsPrefix(d, q)
  BY <1>1, <1>2, <1>7, <1>9, <1>10, PrefixIs
<1>12. Image(r, p) = q
  BY <1>1, <1>4, <1>6 DEF Image
<1> QED
  BY <1>1, <1>4, <1>7, <1>9, <1>10, <1>11, <1>12

LEMMA ImageFacts ==
    ASSUME NEW r, r.req.path \in Path, r.req.dest \in Path
    PROVE  /\ Image(r, r.req.path) = r.req.dest
           /\ \A p, q \in Path :
                 (IsPrefix(r.req.path, p) /\ IsPrefix(r.req.path, q)
                  /\ Image(r, p) = Image(r, q)) => p = q
<1>1. PICK a, d, m, l : a = r.req.path /\ d = r.req.dest /\ m = Len(a) /\ l = Len(d)
  OBVIOUS
<1>2. a \in Seq(STRING) /\ d \in Seq(STRING) /\ m \in Nat \ {0} /\ l \in Nat \ {0}
  BY <1>1, PathFacts
<1>3. Image(r, a) = d
  <2>1. IsPrefix(a, a)
    BY <1>2, PrefixOrder
  <2>2. PICK q : q = Image(r, a)
    OBVIOUS
  <2>3. /\ q \in Seq(STRING) /\ Len(q) = l + (m - m)
        /\ \A i \in 1 .. l : q[i] = d[i]
    BY <1>1, <2>1, <2>2, ImageIs
  <2>4. Len(q) = l
    BY <1>2, <2>3
  <2>5. q = d
    BY <1>1, <1>2, <2>3, <2>4, SeqEqual
  <2> QED BY <2>2, <2>5
<1>4. ASSUME NEW p \in Path, NEW q \in Path, IsPrefix(a, p), IsPrefix(a, q),
             Image(r, p) = Image(r, q)
      PROVE  p = q
  <2>1. /\ p \in Seq(STRING) /\ q \in Seq(STRING) /\ Len(p) \in Nat /\ Len(q) \in Nat
    BY PathFacts
  <2>2. /\ m <= Len(p) /\ m <= Len(q)
        /\ \A i \in 1 .. m : a[i] = p[i] /\ a[i] = q[i]
    BY <1>1, <1>2, <1>4, <2>1, PrefixIs
  <2>3. PICK b : b = Image(r, p)
    OBVIOUS
  <2>4. /\ Len(b) = l + (Len(p) - m) /\ Len(b) = l + (Len(q) - m)
        /\ \A i \in 1 .. Len(p) - m : b[l + i] = p[m + i]
        /\ \A i \in 1 .. Len(q) - m : b[l + i] = q[m + i]
    <3>1. b = Image(r, q)
      BY <1>4, <2>3
    <3>2. /\ Len(b) = Len(d) + (Len(p) - Len(a))
          /\ \A i \in 1 .. Len(p) - Len(a) : b[Len(d) + i] = p[Len(a) + i]
      BY <1>1, <1>4, <2>3, ImageIs
    <3>3. /\ Len(b) = Len(d) + (Len(q) - Len(a))
          /\ \A i \in 1 .. Len(q) - Len(a) : b[Len(d) + i] = q[Len(a) + i]
      BY <1>1, <1>4, <3>1, ImageIs
    <3> QED BY <1>1, <3>2, <3>3
  <2>5. Len(p) = Len(q)
    BY <1>2, <2>1, <2>4
  <2>6. ASSUME NEW i \in 1 .. Len(p) PROVE p[i] = q[i]
    <3>1. CASE i <= m
      BY <1>2, <2>2, <3>1
    <3>2. CASE i > m
      <4>1. i - m \in 1 .. Len(p) - m /\ m + (i - m) = i
        BY <1>2, <2>1, <3>2
      <4>2. b[l + (i - m)] = p[m + (i - m)] /\ b[l + (i - m)] = q[m + (i - m)]
        BY <2>4, <2>5, <4>1
      <4> QED BY <4>1, <4>2
    <3> QED BY <1>2, <3>1, <3>2
  <2> QED BY <2>1, <2>5, <2>6, SeqEqual
<1>5. \A p, q \in Path : IsPrefix(a, p) /\ IsPrefix(a, q) /\ Image(r, p) = Image(r, q) => p = q
  BY <1>4
<1> QED
  BY <1>1, <1>3, <1>5

(* The copy of a child is a child of the copy. *)
LEMMA ImageOfChild ==
    ASSUME NEW r, r.req.path \in Path, r.req.dest \in Path, NEW s \in Path, NEW c \in Path,
           Front(c) = s, IsPrefix(r.req.path, s)
    PROVE  IsPrefix(r.req.path, c) /\ Image(r, c) = Append(Image(r, s), Last(c))
<1>1. PICK a, d, m, n, l : /\ a = r.req.path /\ d = r.req.dest
                           /\ m = Len(a) /\ n = Len(s) /\ l = Len(d)
  OBVIOUS
<1>2. /\ a \in Seq(STRING) /\ s \in Seq(STRING) /\ c \in Seq(STRING)
      /\ m \in Nat \ {0} /\ n \in Nat \ {0} /\ l \in Nat \ {0}
  BY <1>1, PathFacts
<1>3. Len(c) = n + 1 /\ IsPrefix(s, c) /\ c = Append(s, Last(c)) /\ Last(c) \in STRING
  BY <1>1, ChildFacts
<1>4. IsPrefix(a, c) /\ m <= n
  BY <1>1, <1>2, <1>3, PrefixOrder, PrefixIs
<1>5. PICK b, e, x : b = Image(r, s) /\ e = Image(r, c) /\ x = Append(b, Last(c))
  OBVIOUS
<1>6. /\ b \in Seq(STRING) /\ Len(b) = l + (n - m)
      /\ \A i \in 1 .. l : b[i] = d[i]
      /\ \A i \in 1 .. n - m : b[l + i] = s[m + i]
  BY <1>1, <1>5, ImageIs
<1>7. /\ e \in Seq(STRING) /\ Len(e) = l + ((n + 1) - m)
      /\ \A i \in 1 .. l : e[i] = d[i]
      /\ \A i \in 1 .. (n + 1) - m : e[l + i] = c[m + i]
  <2>1. IsPrefix(r.req.path, c)
    BY <1>1, <1>4
  <2>2. /\ e \in Seq(STRING) /\ Len(e) = Len(d) + (Len(c) - Len(a))
        /\ \A i \in 1 .. Len(d) : e[i] = d[i]
        /\ \A i \in 1 .. Len(c) - Len(a) : e[Len(d) + i] = c[Len(a) + i]
    BY <1>1, <1>5, <2>1, ImageIs
  <2> QED BY <1>1, <1>3, <2>2
<1>8. /\ x \in Seq(STRING) /\ Len(x) = Len(b) + 1
      /\ \A i \in 1 .. Len(b) : x[i] = b[i]
      /\ x[Len(b) + 1] = Last(c)
  BY <1>3, <1>5, <1>6, AppendProperties
<1>9. Len(e) = Len(x) /\ Len(x) = (l + (n - m)) + 1
  BY <1>2, <1>4, <1>6, <1>7, <1>8
<1>10. Last(c) = c[n + 1] /\ \A i \in 1 .. n : c[i] = s[i]
  BY <1>1, <1>2, <1>3, PrefixIs DEF Last
<1>11. ASSUME NEW i \in 1 .. Len(e) PROVE e[i] = x[i]
  <2>0. i \in 1 .. (l + (n - m)) + 1
    BY <1>9
  <2>1. CASE i <= l
    <3>1. i \in 1 .. l /\ i \in 1 .. Len(b)
      BY <1>2, <1>4, <1>6, <2>0, <2>1
    <3> QED BY <1>6, <1>7, <1>8, <3>1
  <2>2. CASE i > l /\ i <= l + (n - m)
    <3>1. PICK j : j = i - l
      OBVIOUS
    <3>2. /\ j \in 1 .. n - m /\ j \in 1 .. (n + 1) - m /\ l + j = i
          /\ i \in 1 .. Len(b) /\ m + j \in 1 .. n
      BY <1>2, <1>4, <1>6, <2>0, <2>2, <3>1
    <3>3. e[l + j] = c[m + j] /\ b[l + j] = s[m + j] /\ x[i] = b[i] /\ c[m + j] = s[m + j]
      BY <1>6, <1>7, <1>8, <1>10, <3>2
    <3> QED BY <3>2, <3>3
  <2>3. CASE i = (l + (n - m)) + 1
    <3>1. PICK j : j = (n + 1) - m
      OBVIOUS
    <3>2. j \in 1 .. (n + 1) - m /\ l + j = i /\ m + j = n + 1 /\ i = Len(b) + 1
      BY <1>2, <1>4, <1>6, <2>3, <3>1
    <3>3. e[l + j] = c[m + j]
      BY <1>7, <3>2
    <3> QED BY <1>8, <1>10, <3>2, <3>3
  <2>4. i <= l \/ (i > l /\ i <= l + (n - m)) \/ i = (l + (n - m)) + 1
    BY <1>2, <1>4, <2>0
  <2> QED BY <2>1, <2>2, <2>3, <2>4
<1>12. e = x
  BY <1>7, <1>8, <1>9, <1>11, SeqEqual
<1> QED
  BY <1>1, <1>4, <1>5, <1>12

-----------------------------------------------------------------------------
(* Facts about a copy that nobody disturbs. *)
LEMMA SettingFacts ==
    ASSUME NEW r, NEW S, NEW D, NEW dat, NEW W, Setting(r, S, D, dat, W)
    PROVE  /\ r.req.path \in Path /\ r.req.dest \in Path /\ r.req.dest # r.req.path
           /\ r.req.path \in Seq(STRING) /\ r.req.dest \in Seq(STRING)
           /\ r.work \in Seq(FrameRecord) /\ Len(r.work) \in Nat
           /\ \A k \in 1 .. Len(r.work) : r.work[k] \in FrameRecord /\ PlaceOK(r, r.work[k])
           /\ DOMAIN dat \subseteq Nat \ {0} /\ None \notin DOMAIN dat /\ Folder \notin DOMAIN dat
           /\ \A i \in DOMAIN dat : dat[i] \in Seq(Chunk)
           /\ \A p \in Path : /\ D[p] > Folder <=> D[p] \in DOMAIN dat
                              /\ S[p] > Folder <=> S[p] \in DOMAIN dat
                              /\ S[p] # None /\ S[p] # Folder <=> S[p] \in DOMAIN dat
<1>1. r.req.path \in Path /\ r.req.dest \in Path /\ r.req.dest # r.req.path
  BY CopyingAssumption DEF Setting
<1>2. r.req.path \in Seq(STRING) /\ r.req.dest \in Seq(STRING)
  BY <1>1, PathFacts
<1>3. r.work \in Seq(FrameRecord)
  BY DEF Setting, ThreadRecord
<1>4. Len(r.work) \in Nat /\ \A k \in 1 .. Len(r.work) : r.work[k] \in FrameRecord
  BY <1>3
<1>5. \A k \in 1 .. Len(r.work) : PlaceOK(r, r.work[k])
  BY DEF Setting, Local
<1>6. dat \in Seq(Seq(Chunk))
  BY DEF Setting
<1>7. DOMAIN dat = 1 .. Len(dat) /\ Len(dat) \in Nat /\ \A i \in DOMAIN dat : dat[i] \in Seq(Chunk)
  BY <1>6
<1>8. DOMAIN dat \subseteq Nat \ {0} /\ None \notin DOMAIN dat /\ Folder \notin DOMAIN dat
  BY <1>7 DEF None, Folder
<1>9. \A x \in {None, Folder} \cup DOMAIN dat :
         (x > Folder <=> x \in DOMAIN dat) /\ (x # None /\ x # Folder <=> x \in DOMAIN dat)
  BY <1>7, <1>8 DEF None, Folder
<1>10. \A p \in Path : /\ D[p] \in {None, Folder} \cup DOMAIN dat
                       /\ S[p] \in {None, Folder} \cup DOMAIN dat
  BY DEF Setting
<1> QED
  BY <1>1, <1>2, <1>3, <1>4, <1>5, <1>7, <1>8, <1>9, <1>10

(* Nothing but the request matters to these. *)
LEMMA SameRequest ==
    ASSUME NEW r, NEW r2, r2.req = r.req
    PROVE  /\ \A p : Image(r2, p) = Image(r, p) /\ InCopy(r2, p) = InCopy(r, p)
           /\ \A S : Src(r2, S) = Src(r, S)
           /\ \A S, D, dat, W, p : ArrivedIn(r2, S, D, dat, W, p) = ArrivedIn(r, S, D, dat, W, p)
           /\ \A S, D, dat, W, f : EntryOK(r2, S, D, dat, W, f) = EntryOK(r, S, D, dat, W, f)
           /\ \A f : PlaceOK(r2, f) = PlaceOK(r, f)
<1>1. \A p : Image(r2, p) = Image(r, p) /\ InCopy(r2, p) = InCopy(r, p)
  BY DEF Image, InCopy
<1>2. \A S : Src(r2, S) = Src(r, S)
  BY <1>1 DEF Src
<1>3. \A S, D, dat, W, p : ArrivedIn(r2, S, D, dat, W, p) = ArrivedIn(r, S, D, dat, W, p)
  BY <1>1 DEF ArrivedIn
<1>4. \A S, D, dat, W, f : EntryOK(r2, S, D, dat, W, f) = EntryOK(r, S, D, dat, W, f)
  BY <1>2 DEF EntryOK
<1>5. \A f : PlaceOK(r2, f) = PlaceOK(r, f)
  BY <1>1 DEF PlaceOK
<1> QED
  BY <1>1, <1>2, <1>3, <1>4, <1>5

(* The walk goes on, and no disk changes. *)
AtStream(r, p) == r.work[1].src = p /\ r.work[1].act \in {"open", "read"}
LEMMA StayCalm ==
    ASSUME NEW r, NEW S, NEW D, NEW dat, NEW W, CalmOK(r, S, D, dat, W),
           NEW r2, r2.req = r.req, r2.from = r.from, r2.to = r.to,
           \A k \in 1 .. Len(r2.work) : EntryOK(r, S, D, dat, W, r2.work[k]),
           \A p \in Src(r, S) : Ahead(r, p) /\ ~ ArrivedIn(r, S, D, dat, W, p) => Ahead(r2, p),
           \A p \in Src(r, S) : Ahead(r2, p) =>
              AtStream(r2, p) \/ (Ahead(r, p) /\ ~ AtStream(r, p)),
           Started(r2) => Started(r)
    PROVE  CalmOK(r2, S, D, dat, W)
<1>1. /\ Src(r2, S) = Src(r, S)
      /\ \A p : Image(r2, p) = Image(r, p)
      /\ \A p : ArrivedIn(r2, S, D, dat, W, p) = ArrivedIn(r, S, D, dat, W, p)
      /\ \A f : EntryOK(r2, S, D, dat, W, f) = EntryOK(r, S, D, dat, W, f)
  BY SameRequest
<1>2. \A k \in 1 .. Len(r2.work) : EntryOK(r2, S, D, dat, W, r2.work[k])
  BY <1>1
<1>3. \A p \in Src(r2, S) : ArrivedIn(r2, S, D, dat, W, p) \/ Ahead(r2, p)
  BY <1>1 DEF CalmOK
<1>4. ASSUME NEW w \in W PROVE StreamOK(r2, S, D, dat, W, w)
  <2>1. StreamOK(r, S, D, dat, W, w)
    BY DEF CalmOK
  <2>2. PICK p \in Src(r, S) : w.path = Image(r, p) /\ (Ahead(r, p) => AtStream(r, p))
    BY <2>1 DEF StreamOK, AtStream
  <2>3. Ahead(r2, p) => AtStream(r2, p)
    BY <2>2
  <2> QED BY <1>1, <2>1, <2>2, <2>3 DEF StreamOK, AtStream
<1>5. Started(r2) =>
          /\ r2.from # r2.to \/ ~ IsPrefix(r2.req.dest, r2.req.path)
          /\ \A q \in Path : IsPrefix(r2.req.dest, q) /\ D[q] # None =>
                \E p \in Src(r2, S) : q = Image(r2, p)
  BY <1>1 DEF CalmOK
<1> QED
  BY <1>2, <1>3, <1>4, <1>5 DEF CalmOK

(* What is stored in a file that a WRITE handler is at work on. *)
LEMMA StoredFacts ==
    ASSUME NEW r, NEW S, NEW D, NEW dat, NEW W, Setting(r, S, D, dat, W), OneStream(D, W)
    PROVE  /\ \A v, w \in W : v.ino = w.ino => v = w
           /\ \A w \in W : StoredIn(dat, W, w.ino) = Pending(dat, w)
           /\ \A i : (\A w \in W : w.ino # i) => StoredIn(dat, W, i) = dat[i]
<1>1. ASSUME NEW v \in W, NEW w \in W, v.ino = w.ino PROVE v = w
  <2>1. v.path \in Path /\ w.path \in Path /\ v.ino \in DOMAIN dat
    BY DEF Setting, Streams
  <2>2. D[v.path] = D[w.path] /\ D[v.path] > Folder
    BY <1>1, <2>1, SettingFacts DEF OneStream
  <2>3. v.path = w.path
    BY <2>1, <2>2 DEF Setting
  <2> QED BY <2>3 DEF OneStream
<1>2. ASSUME NEW w \in W PROVE StoredIn(dat, W, w.ino) = Pending(dat, w)
  <2>1. PICK v : v = CHOOSE u \in W : u.ino = w.ino
    OBVIOUS
  <2>2. v \in W /\ v.ino = w.ino
    BY <2>1
  <2>3. v = w
    BY <1>1, <2>2
  <2> QED BY <2>1, <2>3 DEF StoredIn
<1>3. \A i : (\A w \in W : w.ino # i) => StoredIn(dat, W, i) = dat[i]
  BY DEF StoredIn
<1> QED
  BY <1>1, <1>2, <1>3

LEMMA CalmStored ==
    ASSUME NEW r, NEW S, NEW D, NEW dat, NEW W, Setting(r, S, D, dat, W),
           CalmOK(r, S, D, dat, W)
    PROVE  /\ \A v, w \in W : v.ino = w.ino => v = w
           /\ \A w \in W : StoredIn(dat, W, w.ino) = Pending(dat, w)
           /\ \A i : (\A w \in W : w.ino # i) => StoredIn(dat, W, i) = dat[i]
<1>1. OneStream(D, W)
  BY DEF CalmOK, StreamOK, OneStream
<1> QED
  BY <1>1, StoredFacts

(* Frames that replace the one at the top. *)
LEMMA TopReplaced ==
    ASSUME NEW r, NEW r2, NEW S, NEW D, NEW dat, NEW W, Setting(r, S, D, dat, W),
           CalmOK(r, S, D, dat, W), r.pc = "copy", NEW g,
           r2.req = r.req, r2.from = r.from, r2.to = r.to, r2.pc = r.pc, r2.copied = r.copied,
           Len(r2.work) = Len(r.work),
           \A k \in 1 .. Len(r.work) : r2.work[k] = IF k = 1 THEN g ELSE r.work[k],
           g.src = r.work[1].src,
           EntryOK(r, S, D, dat, W, g),
           \A p \in Src(r, S) :
              Covers(r.work[1], p) => Covers(g, p) \/ ArrivedIn(r, S, D, dat, W, p),
           \A p : Covers(g, p) => Covers(r.work[1], p),
           r.work[1].act \in {"open", "read"} => g.act \in {"open", "read"},
           r.work[1].act \in {"stat", "create"} => g.act \in {"stat", "create"}
    PROVE  CalmOK(r2, S, D, dat, W)
<1>1. Len(r.work) \in Nat /\ r.work # <<>> /\ r.work \in Seq(FrameRecord)
  BY SettingFacts DEF Setting
<1>2. Len(r.work) \in 1 .. Len(r.work) /\ 1 \in 1 .. Len(r.work)
  BY <1>1
<1>3. r2.work[1] = g
  BY <1>2
<1>4. \A k \in 1 .. Len(r2.work) : EntryOK(r, S, D, dat, W, r2.work[k])
  BY DEF CalmOK
<1>5. ASSUME NEW p \in Src(r, S), Ahead(r, p), ~ ArrivedIn(r, S, D, dat, W, p)
      PROVE  Ahead(r2, p)
  <2>1. PICK k \in 1 .. Len(r.work) : Covers(r.work[k], p)
    BY <1>5 DEF Ahead
  <2>2. Covers(r2.work[k], p)
    BY <1>5, <2>1
  <2> QED BY <2>2 DEF Ahead
<1>6. ASSUME NEW p, Ahead(r2, p) PROVE Ahead(r, p)
  <2>1. PICK k \in 1 .. Len(r.work) : Covers(r2.work[k], p)
    BY <1>6 DEF Ahead
  <2>2. Covers(r.work[k], p)
    BY <2>1
  <2> QED BY <2>2 DEF Ahead
<1>7. \A p \in Src(r, S) : Ahead(r2, p) => AtStream(r2, p) \/ (Ahead(r, p) /\ ~ AtStream(r, p))
  BY <1>3, <1>6 DEF AtStream
<1>8. Started(r2) => Started(r)
  BY <1>2 DEF Started
<1> QED
  BY <1>4, <1>5, <1>7, <1>8, StayCalm

-----------------------------------------------------------------------------
(* Steps of the walk. *)
LEMMA WalkTop ==
    ASSUME NEW r, NEW S, NEW D, NEW dat, NEW W, Setting(r, S, D, dat, W),
           CalmOK(r, S, D, dat, W), r.pc = "copy", NEW f, f = r.work[1]
    PROVE  /\ Len(r.work) \in Nat /\ 1 \in 1 .. Len(r.work) /\ Len(r.work) \in 1 .. Len(r.work)
           /\ r.work # <<>> /\ r.work \in Seq(FrameRecord)
           /\ f \in FrameRecord /\ PlaceOK(r, f) /\ EntryOK(r, S, D, dat, W, f)
           /\ f.src \in Path /\ f.src \in Seq(STRING) /\ IsPrefix(r.req.path, f.src)
           /\ f.dst = Image(r, f.src) /\ f.seen \subseteq Path
           /\ \A k \in 2 .. Len(r.work) : r.work[k].act = "list"
<1>1. r.work # <<>> /\ r.work \in Seq(FrameRecord) /\ Len(r.work) \in Nat
  BY SettingFacts DEF Setting
<1>2. 1 \in 1 .. Len(r.work) /\ Len(r.work) \in 1 .. Len(r.work)
  BY <1>1
<1>3. f \in FrameRecord /\ PlaceOK(r, f)
  BY <1>2, SettingFacts
<1>4. EntryOK(r, S, D, dat, W, f)
  BY <1>2 DEF CalmOK
<1>5. /\ f.src \in Path /\ IsPrefix(r.req.path, f.src) /\ f.dst = Image(r, f.src)
      /\ f.seen \subseteq Path
  BY <1>3 DEF PlaceOK, FrameRecord
<1>6. \A k \in 2 .. Len(r.work) : r.work[k].act = "list"
  BY DEF Setting
<1> QED
  BY <1>1, <1>2, <1>3, <1>4, <1>5, <1>6, PathFacts

(* The folders that wait have what is at work in something they have seen. *)
LEMMA NotWaiting ==
    ASSUME NEW r, NEW S, NEW D, NEW dat, NEW W, Setting(r, S, D, dat, W),
           CalmOK(r, S, D, dat, W), r.pc = "copy", NEW k \in 2 .. Len(r.work)
    PROVE  ~ Covers(r.work[k], r.work[1].src)
<1>1. k \in 1 .. Len(r.work) /\ 1 \in 1 .. k - 1 /\ r.work[k].act = "list"
  BY WalkTop
<1>2. \E c \in r.work[k].seen : IsPrefix(c, r.work[1].src)
  BY <1>1 DEF Setting, Local
<1> QED
  BY <1>1, <1>2 DEF Covers

(* The entry at work leaves the stack. *)
Gone1(r, r2) ==
    IF Len(r.work) > 1
    THEN r2.work = Tail(r.work) /\ r2.pc = r.pc /\ r2.copied = r.copied
    ELSE r2.work = <<>>
LEMMA Popped ==
    ASSUME NEW r, NEW S, NEW D, NEW dat, NEW W, Setting(r, S, D, dat, W),
           CalmOK(r, S, D, dat, W), r.pc = "copy",
           NEW r2, r2.req = r.req, r2.from = r.from, r2.to = r.to, Gone1(r, r2),
           r.work[1].act \in {"stat", "create"} => Len(r.work) > 1,
           \A p \in Src(r, S) : Covers(r.work[1], p) => ArrivedIn(r, S, D, dat, W, p)
    PROVE  CalmOK(r2, S, D, dat, W)
<1>1. /\ Len(r.work) \in Nat /\ r.work # <<>> /\ r.work \in Seq(FrameRecord)
      /\ Len(r.work) \in 1 .. Len(r.work)
  BY WalkTop
<1>2. PICK n, m : n = Len(r.work) /\ m = Len(r2.work)
  OBVIOUS
<1>3. /\ m \in Nat /\ n = m + 1 /\ \A k \in 1 .. m : r2.work[k] = r.work[k + 1]
  <2>1. CASE n > 1
    <3>1. r2.work = Tail(r.work)
      BY <1>2, <2>1 DEF Gone1
    <3>2. /\ Len(Tail(r.work)) = n - 1
          /\ \A k \in 1 .. n - 1 : Tail(r.work)[k] = r.work[k + 1]
      BY <1>1, <1>2
    <3>3. m = n - 1 /\ n \in Nat
      BY <1>1, <1>2, <3>1, <3>2
    <3> QED BY <2>1, <3>1, <3>2, <3>3
  <2>2. CASE ~ (n > 1)
    <3>1. r2.work = <<>> /\ Len(<<>>) = 0
      BY <1>2, <2>2 DEF Gone1
    <3>2. n \in Nat /\ n \in 1 .. n
      BY <1>1, <1>2
    <3>3. n = 1
      BY <2>2, <3>2
    <3>4. m = 0
      BY <1>2, <3>1
    <3> QED BY <3>3, <3>4
  <2> QED BY <2>1, <2>2
<1>4. /\ \A k \in 1 .. m : k + 1 \in 2 .. n
      /\ \A j \in 2 .. n : j - 1 \in 1 .. m /\ (j - 1) + 1 = j
  BY <1>3
<1>9. \A k \in 1 .. Len(r2.work) : \E j \in 2 .. Len(r.work) : r2.work[k] = r.work[j]
  BY <1>2, <1>3, <1>4
<1>10. \A j \in 2 .. Len(r.work) : \E k \in 1 .. Len(r2.work) : r2.work[k] = r.work[j]
  <2> SUFFICES ASSUME NEW j \in 2 .. n PROVE \E k \in 1 .. m : r2.work[k] = r.work[j]
    BY <1>2
  <2>1. PICK k : k = j - 1
    OBVIOUS
  <2>2. k \in 1 .. m /\ k + 1 = j
    BY <1>4, <2>1
  <2> QED BY <1>3, <2>2
<1>5. \A k \in 1 .. Len(r2.work) : EntryOK(r, S, D, dat, W, r2.work[k])
  <2>1. \A j \in 2 .. Len(r.work) : j \in 1 .. Len(r.work)
    BY <1>1
  <2> QED BY <1>9, <2>1 DEF CalmOK
<1>6. ASSUME NEW p \in Src(r, S), Ahead(r, p), ~ ArrivedIn(r, S, D, dat, W, p)
      PROVE  Ahead(r2, p)
  <2>1. PICK k \in 1 .. Len(r.work) : Covers(r.work[k], p)
    BY <1>6 DEF Ahead
  <2>2. k \in 2 .. Len(r.work)
    BY <1>1, <1>6, <2>1
  <2> QED BY <1>10, <2>1, <2>2 DEF Ahead
<1>7. ASSUME NEW p \in Src(r, S), Ahead(r2, p)
      PROVE  Ahead(r, p) /\ ~ AtStream(r, p)
  <2>1. PICK k \in 1 .. Len(r2.work) : Covers(r2.work[k], p)
    BY <1>7 DEF Ahead
  <2>2. PICK j \in 2 .. Len(r.work) : Covers(r.work[j], p)
    BY <1>9, <2>1
  <2>3. p # r.work[1].src
    BY <2>2, NotWaiting
  <2>4. j \in 1 .. Len(r.work)
    BY <1>1
  <2> QED BY <2>2, <2>3, <2>4 DEF Ahead, AtStream
<1>8. ASSUME Started(r2) PROVE Started(r)
  <2>1. CASE n > 1
    <3>1. r2.pc = r.pc /\ r2.copied = r.copied
      BY <1>2, <2>1 DEF Gone1
    <3>2. m \in 1 .. m
      BY <1>3, <2>1
    <3>3. r2.work[m] = r.work[n]
      BY <1>3, <3>2
    <3> QED BY <1>2, <1>8, <3>1, <3>3 DEF Started
  <2>2. CASE n = 1
    <3>1. r.work[1].act \notin {"stat", "create"}
      BY <1>2, <2>2
    <3> QED BY <1>2, <2>2, <3>1 DEF Started
  <2> QED BY <1>3, <2>1, <2>2
<1> QED
  BY <1>5, <1>6, <1>7, <1>8, StayCalm

-----------------------------------------------------------------------------
LEMMA WithTopFields ==
    ASSUME NEW r \in ThreadRecord, r.work # <<>>, NEW g \in FrameRecord,
           NEW r2, r2 = WithTop(r, g)
    PROVE  /\ r2.req = r.req /\ r2.from = r.from /\ r2.to = r.to /\ r2.pc = r.pc
           /\ r2.copied = r.copied /\ r2.rows = r.rows /\ r2.resp = r.resp
           /\ r2.work \in Seq(FrameRecord) /\ Len(r2.work) = Len(r.work)
           /\ \A k \in 1 .. Len(r.work) : r2.work[k] = IF k = 1 THEN g ELSE r.work[k]
<1>1. r.work \in Seq(FrameRecord)
  BY DEF ThreadRecord
<1>2. 1 \in 1 .. Len(r.work)
  BY <1>1
<1>3. PICK w : w = [r.work EXCEPT ![1] = g]
  OBVIOUS
<1>4. /\ w \in Seq(FrameRecord) /\ Len(w) = Len(r.work)
      /\ \A k \in 1 .. Len(r.work) : w[k] = IF k = 1 THEN g ELSE r.work[k]
  BY <1>1, <1>2, <1>3, ExceptSeq
<1>5. r2 = [r EXCEPT !.work = w]
  BY <1>3 DEF WithTop
<1>6. /\ r2.req = r.req /\ r2.from = r.from /\ r2.to = r.to /\ r2.pc = r.pc /\ r2.work = w
      /\ r2.copied = r.copied /\ r2.rows = r.rows /\ r2.resp = r.resp
  BY <1>5 DEF ThreadRecord
<1> QED
  BY <1>4, <1>6

LEMMA TopCalm ==
    ASSUME NEW r, NEW S, NEW D, NEW dat, NEW W, Setting(r, S, D, dat, W),
           CalmOK(r, S, D, dat, W), r.pc = "copy", NEW g \in FrameRecord,
           g.src = r.work[1].src, EntryOK(r, S, D, dat, W, g),
           \A p \in Src(r, S) :
              Covers(r.work[1], p) => Covers(g, p) \/ ArrivedIn(r, S, D, dat, W, p),
           \A p : Covers(g, p) => Covers(r.work[1], p),
           r.work[1].act \in {"open", "read"} => g.act \in {"open", "read"},
           r.work[1].act \in {"stat", "create"} => g.act \in {"stat", "create"}
    PROVE  CalmOK(WithTop(r, g), S, D, dat, W)
<1>1. PICK r2 : r2 = WithTop(r, g)
  OBVIOUS
<1>2. r \in ThreadRecord /\ r.work # <<>>
  BY DEF Setting
<1>3. /\ r2.req = r.req /\ r2.from = r.from /\ r2.to = r.to /\ r2.pc = r.pc
      /\ r2.copied = r.copied /\ Len(r2.work) = Len(r.work)
      /\ \A k \in 1 .. Len(r.work) : r2.work[k] = IF k = 1 THEN g ELSE r.work[k]
  BY <1>1, <1>2, WithTopFields
<1>4. CalmOK(r2, S, D, dat, W)
  BY <1>3, TopReplaced
<1> QED
  BY <1>1, <1>4

LEMMA LeftOut ==
    ASSUME NEW r, NEW S, NEW D, NEW dat, NEW W, Setting(r, S, D, dat, W),
           CalmOK(r, S, D, dat, W), r.pc = "copy",
           r.work[1].act = "stat", r.work[1].src = r.req.dest,
           NEW r2, r2.req = r.req, r2.from = r.from, r2.to = r.to, Gone1(r, r2)
    PROVE  CalmOK(r2, S, D, dat, W)
<1>1. PICK f : f = r.work[1]
  OBVIOUS
<1>2. Len(r.work) \in Nat /\ 1 \in 1 .. Len(r.work) /\ IsPrefix(r.req.path, f.src)
  BY <1>1, WalkTop
<1>3. Len(r.work) > 1
  <2>1. r.req.dest # r.req.path /\ r.work[Len(r.work)].src = r.req.path
    BY SettingFacts DEF Setting
  <2>2. Len(r.work) # 1
    BY <2>1
  <2>3. PICK n : n = Len(r.work)
    OBVIOUS
  <2>4. n \in Nat /\ 1 \in 1 .. n /\ n # 1
    BY <1>2, <2>2, <2>3
  <2>5. n > 1
    BY <2>4
  <2> QED BY <2>3, <2>5
<1>4. \A p \in Src(r, S) : ~ Covers(f, p)
  BY <1>1, <1>2 DEF Src, InCopy, Covers
<1> QED
  BY <1>1, <1>2, <1>3, <1>4, Popped

LEMMA StatTaken ==
    ASSUME NEW r, NEW S, NEW D, NEW dat, NEW W, Setting(r, S, D, dat, W),
           CalmOK(r, S, D, dat, W), r.pc = "copy", NEW f, f = r.work[1],
           f.act = "stat", f.src # r.req.dest, S[f.src] # None,
           NEW g \in FrameRecord, g = [f EXCEPT !.act = "create", !.folder = (S[f.src] = Folder)]
    PROVE  CalmOK(WithTop(r, g), S, D, dat, W)
<1>1. /\ f \in FrameRecord /\ PlaceOK(r, f) /\ f.src \in Path /\ IsPrefix(r.req.path, f.src)
  BY WalkTop
<1>2. g.act = "create" /\ g.src = f.src /\ g.folder = (S[f.src] = Folder)
  BY <1>1 DEF FrameRecord
<1>3. f.src \in Src(r, S)
  BY <1>1 DEF Src, PlaceOK
<1>4. EntryOK(r, S, D, dat, W, g)
  BY <1>2, <1>3 DEF EntryOK
<1>5. \A p : Covers(g, p) <=> Covers(f, p)
  BY <1>2 DEF Covers
<1> QED
  BY <1>2, <1>4, <1>5, TopCalm

LEMMA FolderOpened ==
    ASSUME NEW r, NEW S, NEW D, NEW dat, NEW W, Setting(r, S, D, dat, W),
           CalmOK(r, S, D, dat, W), r.pc = "copy", NEW f, f = r.work[1], f.act = "opendir",
           NEW C, \A c \in Path : Front(c) = f.src /\ S[c] # None => c \in C,
           NEW g \in FrameRecord, g = [f EXCEPT !.act = "list", !.listed = C]
    PROVE  CalmOK(WithTop(r, g), S, D, dat, W)
<1>1. /\ f \in FrameRecord /\ PlaceOK(r, f) /\ EntryOK(r, S, D, dat, W, f)
      /\ f.dst = Image(r, f.src) /\ f.src \in Path
  BY WalkTop
<1>2. /\ g.act = "list" /\ g.src = f.src /\ g.dst = f.dst /\ g.listed = C /\ g.seen = f.seen
  BY <1>1 DEF FrameRecord
<1>3. /\ f.src \in Src(r, S) /\ f.dst \in Path /\ S[f.src] = Folder /\ D[f.dst] = Folder
      /\ f.seen = {}
  BY <1>1 DEF EntryOK, PlaceOK
<1>4. EntryOK(r, S, D, dat, W, g)
  BY <1>2, <1>3 DEF EntryOK
<1>5. ASSUME NEW p, Covers(f, p), p # f.src PROVE Covers(g, p)
  BY <1>2, <1>3, <1>5 DEF Covers
<1>6. ArrivedIn(r, S, D, dat, W, f.src)
  BY <1>1, <1>3 DEF ArrivedIn
<1>7. \A p : Covers(g, p) => Covers(f, p)
  BY <1>2 DEF Covers
<1> QED
  BY <1>2, <1>4, <1>5, <1>6, <1>7, TopCalm

LEMMA SourceOpened ==
    ASSUME NEW r, NEW S, NEW D, NEW dat, NEW W, Setting(r, S, D, dat, W),
           CalmOK(r, S, D, dat, W), r.pc = "copy", NEW f, f = r.work[1], f.act = "open",
           NEW g \in FrameRecord, g = [f EXCEPT !.act = "read", !.ino = S[f.src]]
    PROVE  CalmOK(WithTop(r, g), S, D, dat, W)
<1>1. /\ f \in FrameRecord /\ PlaceOK(r, f) /\ EntryOK(r, S, D, dat, W, f) /\ f.src \in Path
  BY WalkTop
<1>2. /\ g.act = "read" /\ g.src = f.src /\ g.dst = f.dst /\ g.ino = S[f.src] /\ g.pos = f.pos
  BY <1>1 DEF FrameRecord
<1>3. /\ f.src \in Src(r, S) /\ f.dst \in Path /\ S[f.src] # Folder /\ D[f.dst] > Folder
      /\ StoredIn(dat, W, D[f.dst]) = <<>> /\ f.pos = 0
  BY <1>1 DEF EntryOK, PlaceOK
<1>4. S[f.src] \in DOMAIN dat
  BY <1>1, <1>3, SettingFacts DEF Src
<1>5. dat[S[f.src]] \in Seq(Chunk) /\ Len(dat[S[f.src]]) \in Nat
  BY <1>4, SettingFacts
<1>6. SubSeq(dat[S[f.src]], 1, 0) = <<>>
  BY <1>5, SubSeqEmpty
<1>7. EntryOK(r, S, D, dat, W, g)
  <2>1. g.pos = 0 /\ g.pos <= Len(dat[g.ino])
    BY <1>2, <1>3, <1>5
  <2>2. StoredIn(dat, W, D[g.dst]) = SubSeq(dat[g.ino], 1, g.pos)
    BY <1>2, <1>3, <1>6, <2>1
  <2>3. g.src \in Src(r, S) /\ g.dst \in Path /\ S[g.src] # Folder /\ D[g.dst] > Folder
    BY <1>2, <1>3
  <2> QED BY <1>2, <2>1, <2>2, <2>3 DEF EntryOK
<1>8. \A p : Covers(g, p) <=> Covers(f, p)
  BY <1>2 DEF Covers
<1> QED
  BY <1>2, <1>7, <1>8, TopCalm

-----------------------------------------------------------------------------
LEMMA PushedFields ==
    ASSUME NEW r \in ThreadRecord, r.work # <<>>, NEW f \in FrameRecord, NEW g \in FrameRecord,
           NEW r2, r2 = Pushed(r, g, f)
    PROVE  /\ r2.req = r.req /\ r2.from = r.from /\ r2.to = r.to /\ r2.pc = r.pc
           /\ r2.copied = r.copied
           /\ r2.work \in Seq(FrameRecord)
           /\ Len(r.work) \in Nat \ {0} /\ Len(r2.work) = Len(r.work) + 1
           /\ r2.work[1] = g /\ r2.work[2] = f
           /\ \A k \in 2 .. Len(r.work) : r2.work[k + 1] = r.work[k]
<1>0. PICK n : n = Len(r.work)
  OBVIOUS
<1>1. r.work \in Seq(FrameRecord)
  BY DEF ThreadRecord
<1>2. 1 \in 1 .. n /\ n \in Nat \ {0}
  BY <1>0, <1>1
<1>3. PICK w : w = [r.work EXCEPT ![1] = f]
  OBVIOUS
<1>4. /\ w \in Seq(FrameRecord) /\ Len(w) = n
      /\ \A k \in 1 .. n : w[k] = IF k = 1 THEN f ELSE r.work[k]
  BY <1>0, <1>1, <1>2, <1>3, ExceptSeq
<1>5. PICK v : v = << g >> \o w
  OBVIOUS
<1>6. << g >> \in Seq(FrameRecord) /\ Len(<< g >>) = 1 /\ << g >>[1] = g
  OBVIOUS
<1>7. /\ v \in Seq(FrameRecord) /\ Len(v) = 1 + n
      /\ \A i \in 1 .. 1 + n : v[i] = IF i <= 1 THEN << g >>[i] ELSE w[i - 1]
  <2>1. /\ << g >> \o w \in Seq(FrameRecord) /\ Len(<< g >> \o w) = Len(<< g >>) + Len(w)
        /\ \A i \in 1 .. Len(<< g >>) + Len(w) :
              (<< g >> \o w)[i] = IF i <= Len(<< g >>) THEN << g >>[i] ELSE w[i - Len(<< g >>)]
    BY <1>4, <1>6, ConcatProperties
  <2> QED BY <1>4, <1>5, <1>6, <2>1
<1>8. Len(v) = n + 1 /\ v[1] = g /\ \A k \in 1 .. n : v[k + 1] = w[k]
  <2>1. 1 \in 1 .. 1 + n /\ 1 + n = n + 1
    BY <1>2
  <2>2. \A k \in 1 .. n : k + 1 \in 1 .. 1 + n /\ ~ (k + 1 <= 1) /\ (k + 1) - 1 = k
    BY <1>2
  <2> QED BY <1>6, <1>7, <2>1, <2>2
<1>9. r2 = [r EXCEPT !.work = v]
  BY <1>3, <1>5 DEF Pushed
<1>10. /\ r2.req = r.req /\ r2.from = r.from /\ r2.to = r.to /\ r2.pc = r.pc /\ r2.work = v
       /\ r2.copied = r.copied
  BY <1>9 DEF ThreadRecord
<1>11. v[2] = f /\ \A k \in 2 .. n : v[k + 1] = r.work[k]
  <2>1. v[2] = w[1]
    <3>1. PICK k : k = 1
      OBVIOUS
    <3>2. k \in 1 .. n /\ k + 1 = 2
      BY <1>2, <3>1
    <3>3. v[k + 1] = w[k]
      BY <1>8, <3>2
    <3> QED BY <3>1, <3>2, <3>3
  <2>2. w[1] = f
    BY <1>2, <1>4
  <2>3. \A k \in 2 .. n : k \in 1 .. n /\ k # 1
    BY <1>2
  <2> QED BY <1>4, <1>8, <2>1, <2>2, <2>3
<1> QED
  BY <1>0, <1>2, <1>7, <1>8, <1>10, <1>11

LEMMA EntryBegun ==
    ASSUME NEW r, NEW S, NEW D, NEW dat, NEW W, Setting(r, S, D, dat, W),
           CalmOK(r, S, D, dat, W), r.pc = "copy", NEW f, f = r.work[1], f.act = "list",
           NEW c \in Path, Front(c) = f.src, c \notin f.seen,
           NEW g \in FrameRecord, g.act = "stat", g.src = c,
           NEW h \in FrameRecord, h = [f EXCEPT !.seen = @ \cup {c}]
    PROVE  CalmOK(Pushed(r, g, h), S, D, dat, W)
<1>1. PICK r2, n : r2 = Pushed(r, g, h) /\ n = Len(r.work)
  OBVIOUS
<1>2. r \in ThreadRecord /\ r.work # <<>>
  BY DEF Setting
<1>3. /\ r2.req = r.req /\ r2.from = r.from /\ r2.to = r.to /\ r2.pc = r.pc
      /\ r2.copied = r.copied
      /\ n \in Nat \ {0} /\ Len(r2.work) = n + 1 /\ r2.work[1] = g /\ r2.work[2] = h
      /\ \A k \in 2 .. n : r2.work[k + 1] = r.work[k]
  <2>1. r \in ThreadRecord /\ r.work # <<>> /\ h \in FrameRecord /\ g \in FrameRecord
    BY <1>2
  <2>2. r2.req = r.req /\ r2.from = r.from /\ r2.to = r.to /\ r2.pc = r.pc
    BY <1>1, <2>1, PushedFields
  <2>3. r2.copied = r.copied
    BY <1>1, <2>1, PushedFields
  <2>4. n \in Nat \ {0} /\ Len(r2.work) = n + 1
    BY <1>1, <2>1, PushedFields
  <2>5. r2.work[1] = g /\ r2.work[2] = h
    BY <1>1, <2>1, PushedFields
  <2>6. \A k \in 2 .. n : r2.work[k + 1] = r.work[k]
    BY <1>1, <2>1, PushedFields
  <2> QED BY <2>2, <2>3, <2>4, <2>5, <2>6
<1>4. /\ f \in FrameRecord /\ PlaceOK(r, f) /\ EntryOK(r, S, D, dat, W, f) /\ f.src \in Path
      /\ f.seen \subseteq Path
  BY WalkTop
<1>5. /\ h.act = "list" /\ h.src = f.src /\ h.dst = f.dst /\ h.listed = f.listed
      /\ h.seen = f.seen \cup {c}
  BY <1>4 DEF FrameRecord
<1>6. EntryOK(r, S, D, dat, W, h)
  BY <1>4, <1>5 DEF EntryOK
<1>7. EntryOK(r, S, D, dat, W, g)
  BY DEF EntryOK
<1>8. \A k \in 1 .. n + 1 : k = 1 \/ k = 2 \/ (k - 1 \in 2 .. n /\ (k - 1) + 1 = k)
  BY <1>3
<1>9. /\ 1 \in 1 .. n + 1 /\ 2 \in 1 .. n + 1 /\ 1 \in 1 .. n
      /\ \A k \in 2 .. n : k \in 1 .. n /\ k + 1 \in 1 .. n + 1
      /\ \A k \in 1 .. n : k = 1 \/ k \in 2 .. n
  BY <1>3
<1>10. ASSUME NEW k \in 1 .. Len(r2.work) PROVE EntryOK(r, S, D, dat, W, r2.work[k])
  <2>1. CASE k = 1
    BY <1>3, <1>7, <2>1
  <2>2. CASE k = 2
    BY <1>3, <1>6, <2>2
  <2>3. CASE k # 1 /\ k # 2
    <3>1. PICK j : j = k - 1
      OBVIOUS
    <3>2. j \in 2 .. n /\ j + 1 = k
      BY <1>3, <1>8, <2>3, <3>1
    <3>3. r2.work[k] = r.work[j]
      BY <1>3, <3>2
    <3>4. EntryOK(r, S, D, dat, W, r.work[j])
      BY <1>1, <1>9, <3>2 DEF CalmOK
    <3> QED BY <3>3, <3>4
  <2> QED BY <2>1, <2>2, <2>3
<1>11. Covers(g, c)
  <2>1. IsPrefix(c, c)
    BY PathFacts, PrefixOrder
  <2> QED BY <2>1 DEF Covers
<1>12. \A p : Covers(f, p) => Covers(g, p) \/ Covers(h, p)
  BY <1>5 DEF Covers
<1>13. ASSUME NEW p \in Src(r, S), Ahead(r, p) PROVE Ahead(r2, p)
  <2>1. PICK k \in 1 .. n : Covers(r.work[k], p)
    BY <1>1, <1>13 DEF Ahead
  <2>2. CASE k = 1
    <3>1. Covers(g, p) \/ Covers(h, p)
      BY <1>12, <2>1, <2>2
    <3>2. 1 \in 1 .. Len(r2.work) /\ 2 \in 1 .. Len(r2.work)
      BY <1>3, <1>9
    <3>3. Covers(r2.work[1], p) \/ Covers(r2.work[2], p)
      BY <1>3, <3>1
    <3> QED BY <3>2, <3>3 DEF Ahead
  <2>3. CASE k # 1
    <3>1. r2.work[k + 1] = r.work[k] /\ k + 1 \in 1 .. Len(r2.work)
      BY <1>3, <1>9, <2>3
    <3> QED BY <2>1, <3>1 DEF Ahead
  <2> QED BY <2>2, <2>3
<1>14. ASSUME NEW p \in Path, Covers(g, p) \/ Covers(h, p) PROVE Covers(f, p)
  <2>1. CASE Covers(h, p)
    BY <1>5, <2>1 DEF Covers
  <2>2. CASE Covers(g, p)
    <3>1. IsPrefix(c, p)
      BY <2>2 DEF Covers
    <3>2. IsPrefix(f.src, p) /\ p # f.src
      <4>1. /\ f.src \in Seq(STRING) /\ c \in Seq(STRING) /\ p \in Seq(STRING)
            /\ IsPrefix(f.src, c) /\ ~ IsPrefix(c, f.src)
        BY <1>4, PathFacts, ChildFacts
      <4> QED BY <3>1, <4>1, PrefixOrder
    <3>3. CASE \A b \in f.seen : ~ IsPrefix(b, p)
      BY <3>2, <3>3 DEF Covers
    <3>4. CASE \E b \in f.seen : IsPrefix(b, p)
      <4>1. PICK b \in f.seen : IsPrefix(b, p)
        BY <3>4
      <4>2. b \in Path /\ Front(b) = f.src
        BY <1>4 DEF PlaceOK
      <4>3. b = c
        BY <1>4, <3>1, <4>1, <4>2, OneChildTowards
      <4> QED BY <4>1, <4>3
    <3> QED BY <3>3, <3>4
  <2> QED BY <1>14, <2>1, <2>2
<1>15. ASSUME NEW p \in Src(r, S), Ahead(r2, p) PROVE Ahead(r, p) /\ ~ AtStream(r, p)
  <2>1. p \in Path
    BY DEF Src
  <2>2. PICK k \in 1 .. n + 1 : Covers(r2.work[k], p)
    BY <1>3, <1>15 DEF Ahead
  <2>3. Ahead(r, p)
    <3>1. CASE k = 1 \/ k = 2
      <4>1. Covers(g, p) \/ Covers(h, p)
        BY <1>3, <2>2, <3>1
      <4>2. Covers(f, p)
        BY <1>14, <2>1, <4>1
      <4> QED BY <1>1, <1>9, <4>2 DEF Ahead
    <3>2. CASE k # 1 /\ k # 2
      <4>1. PICK j : j = k - 1
        OBVIOUS
      <4>2. j \in 2 .. n /\ j + 1 = k
        BY <1>8, <3>2, <4>1
      <4>3. r2.work[k] = r.work[j] /\ j \in 1 .. n
        BY <1>3, <1>9, <4>2
      <4> QED BY <1>1, <2>2, <4>3 DEF Ahead
    <3> QED BY <3>1, <3>2
  <2> QED BY <2>3 DEF AtStream
<1>16. ASSUME Started(r2) PROVE Started(r)
  <2>1. CASE n = 1
    <3>1. r.work[Len(r.work)].act \notin {"stat", "create"}
      BY <1>1, <2>1
    <3> QED BY <1>3, <1>16, <3>1 DEF Started
  <2>2. CASE n # 1
    <3>1. n \in 2 .. n
      BY <1>3, <2>2
    <3>2. r2.work[n + 1] = r.work[n]
      BY <1>3, <3>1
    <3>3. r2.work[Len(r2.work)] = r.work[Len(r.work)]
      BY <1>1, <1>3, <3>2
    <3> QED BY <1>3, <1>16, <3>3 DEF Started
  <2> QED BY <2>1, <2>2
<1>17. CalmOK(r2, S, D, dat, W)
  BY <1>3, <1>10, <1>13, <1>15, <1>16, StayCalm
<1> QED
  BY <1>1, <1>17

(* A folder of which all entries have been copied. *)
LEMMA FolderDone ==
    ASSUME NEW r, NEW S, NEW D, NEW dat, NEW W, Setting(r, S, D, dat, W),
           CalmOK(r, S, D, dat, W), r.pc = "copy", NEW f, f = r.work[1], f.act = "list",
           \A c \in f.listed : c \in Path /\ S[c] # None => c \in f.seen,
           NEW r2, r2.req = r.req, r2.from = r.from, r2.to = r.to, Gone1(r, r2)
    PROVE  CalmOK(r2, S, D, dat, W)
<1>1. /\ f \in FrameRecord /\ PlaceOK(r, f) /\ EntryOK(r, S, D, dat, W, f) /\ f.src \in Path
      /\ IsPrefix(r.req.path, f.src)
  BY WalkTop
<1>2. ASSUME NEW p \in Src(r, S), Covers(f, p) PROVE FALSE
  <2>1. /\ p \in Path /\ S[p] # None /\ ~ InCopy(r, p)
        /\ IsPrefix(f.src, p) /\ p # f.src /\ \A b \in f.seen : ~ IsPrefix(b, p)
    BY <1>2 DEF Src, Covers
  <2>2. PICK c \in Path : Front(c) = f.src /\ IsPrefix(c, p)
    BY <1>1, <2>1, ChildTowards
  <2>3. S[c] # None
    <3>1. CASE c = p
      BY <2>1, <3>1
    <3>2. CASE c # p
      <4>1. S[c] = Folder
        BY <2>1, <2>2, <3>2 DEF Setting, Rooting
      <4> QED BY <4>1 DEF Folder, None
    <3> QED BY <3>1, <3>2
  <2>4. c \in f.listed \/ c = r.req.dest
    BY <1>1, <2>2, <2>3 DEF EntryOK
  <2>5. CASE c \in f.listed
    BY <2>1, <2>2, <2>3, <2>5
  <2>6. CASE c = r.req.dest
    <3>1. /\ r.req.path \in Seq(STRING) /\ f.src \in Seq(STRING) /\ c \in Seq(STRING)
          /\ IsPrefix(f.src, c)
      BY <1>1, <2>2, SettingFacts, PathFacts, ChildFacts
    <3>2. IsPrefix(r.req.path, r.req.dest)
      BY <1>1, <2>6, <3>1, PrefixOrder
    <3> QED BY <2>1, <2>2, <2>6, <3>2 DEF InCopy
  <2> QED BY <2>4, <2>5, <2>6
<1> QED
  BY <1>2, Popped

-----------------------------------------------------------------------------
(* The copy stays where it is, whatever else changes on the disks. *)
SameCopy(r, S, D, dat, W, S2, D2, dat2, W2) ==
    /\ \A p \in Path : IsPrefix(r.req.path, p) => S2[p] = S[p]
    /\ \A q \in Path : IsPrefix(r.req.dest, q) => D2[q] = D[q]
    /\ \A p \in Src(r, S) : S[p] > Folder => dat2[S[p]] = dat[S[p]]
    /\ \A q \in Path : IsPrefix(r.req.dest, q) /\ D[q] > Folder =>
          StoredIn(dat2, W2, D[q]) = StoredIn(dat, W, D[q])
    /\ \A v \in W2 : \E w \in W :
          v.path = w.path /\ v.ino = w.ino /\ Len(dat2[v.ino]) = v.pos
    /\ \A v, w \in W2 : v.path = w.path => v = w
LEMMA Unmoved ==
    ASSUME NEW r, NEW S, NEW D, NEW dat, NEW W, Setting(r, S, D, dat, W),
           CalmOK(r, S, D, dat, W), NEW S2, NEW D2, NEW dat2, NEW W2,
           SameCopy(r, S, D, dat, W, S2, D2, dat2, W2)
    PROVE  CalmOK(r, S2, D2, dat2, W2)
<1> USE DEF SameCopy
<1>0. r.req.path \in Path /\ r.req.dest \in Path
  BY SettingFacts
<1>1. Src(r, S2) = Src(r, S) /\ \A p \in Src(r, S) : S2[p] = S[p]
  BY DEF Src
<1>2. \A p \in Src(r, S) : p \in Path /\ IsPrefix(r.req.dest, Image(r, p))
  BY <1>0, ImageIs DEF Src
<1>3. \A p \in Src(r, S) : S[p] # Folder => S[p] > Folder
  BY SettingFacts DEF Src
<1>4. ASSUME NEW p \in Src(r, S), ArrivedIn(r, S, D, dat, W, p)
      PROVE  ArrivedIn(r, S2, D2, dat2, W2, p)
  <2>1. PICK q : q = Image(r, p)
    OBVIOUS
  <2>2. /\ q \in Path /\ IsPrefix(r.req.dest, q) /\ S2[p] = S[p] /\ D2[q] = D[q]
        /\ IF S[p] = Folder THEN D[q] = Folder
           ELSE D[q] > Folder /\ StoredIn(dat, W, D[q]) = dat[S[p]]
    BY <1>1, <1>2, <1>4, <2>1 DEF ArrivedIn
  <2>3. S[p] # Folder => D2[q] > Folder /\ StoredIn(dat2, W2, D2[q]) = dat2[S[p]]
    BY <1>3, <2>2
  <2> QED BY <2>1, <2>2, <2>3 DEF ArrivedIn
<1>5. ASSUME NEW k \in 1 .. Len(r.work) PROVE EntryOK(r, S2, D2, dat2, W2, r.work[k])
  <2>1. PICK f : f = r.work[k]
    OBVIOUS
  <2>2. EntryOK(r, S, D, dat, W, f) /\ PlaceOK(r, f)
    BY <2>1, SettingFacts DEF CalmOK
  <2>3. f.src \in Path /\ IsPrefix(r.req.path, f.src) /\ f.dst = Image(r, f.src)
    BY <2>2 DEF PlaceOK
  <2>4. S2[f.src] = S[f.src] /\ IsPrefix(r.req.dest, f.dst)
    BY <1>0, <2>3, ImageIs
  <2>5. /\ f.act # "stat" => f.src \in Src(r, S2)
        /\ f.act \notin {"stat", "create"} => f.dst \in Path /\ D2[f.dst] = D[f.dst]
    BY <1>1, <2>2, <2>4 DEF EntryOK
  <2>6. f.act = "list" => \A c \in Path :
           Front(c) = f.src /\ S2[c] # None => c \in f.listed \/ c = r.req.dest
    <3> SUFFICES ASSUME f.act = "list", NEW c \in Path, Front(c) = f.src, S2[c] # None
                 PROVE  c \in f.listed \/ c = r.req.dest
      OBVIOUS
    <3>1. IsPrefix(r.req.path, c)
      BY <1>0, <2>3, ImageOfChild
    <3> QED BY <2>2, <3>1 DEF EntryOK
  <2>7. f.act \in {"write", "open", "read"} =>
           /\ S2[f.src] # Folder /\ D2[f.dst] > Folder
           /\ StoredIn(dat2, W2, D2[f.dst]) = StoredIn(dat, W, D[f.dst])
    BY <2>2, <2>4, <2>5 DEF EntryOK
  <2>8. f.act = "read" =>
           /\ f.ino = S2[f.src] /\ f.pos <= Len(dat2[f.ino])
           /\ StoredIn(dat2, W2, D2[f.dst]) = SubSeq(dat2[f.ino], 1, f.pos)
    <3> SUFFICES ASSUME f.act = "read"
                 PROVE  /\ f.ino = S2[f.src] /\ f.pos <= Len(dat2[f.ino])
                        /\ StoredIn(dat2, W2, D2[f.dst]) = SubSeq(dat2[f.ino], 1, f.pos)
      OBVIOUS
    <3>1. /\ f.ino = S[f.src] /\ f.pos <= Len(dat[f.ino]) /\ f.src \in Src(r, S)
          /\ S[f.src] # Folder
          /\ StoredIn(dat, W, D[f.dst]) = SubSeq(dat[f.ino], 1, f.pos)
      BY <2>2 DEF EntryOK
    <3>2. dat2[f.ino] = dat[f.ino]
      BY <1>3, <3>1
    <3> QED BY <2>4, <2>7, <3>1, <3>2
  <2>9. EntryOK(r, S2, D2, dat2, W2, f)
    BY <2>2, <2>4, <2>5, <2>6, <2>7, <2>8 DEF EntryOK
  <2> QED BY <2>1, <2>9
<1>6. ASSUME NEW v \in W2 PROVE StreamOK(r, S2, D2, dat2, W2, v)
  <2>1. PICK w \in W : v.path = w.path /\ v.ino = w.ino /\ Len(dat2[v.ino]) = v.pos
    OBVIOUS
  <2>2. StreamOK(r, S, D, dat, W, w)
    BY DEF CalmOK
  <2>3. PICK p \in Src(r, S) : /\ w.path = Image(r, p)
                               /\ Ahead(r, p) => /\ r.work[1].src = p
                                                 /\ r.work[1].act \in {"open", "read"}
    BY <2>2 DEF StreamOK
  <2>4. w.path \in Path
    BY DEF Setting, Streams
  <2>5. D2[v.path] = v.ino
    BY <1>2, <2>1, <2>2, <2>3, <2>4 DEF StreamOK
  <2> QED BY <1>1, <2>1, <2>3, <2>5 DEF StreamOK
<1>7. ASSUME Started(r)
      PROVE  /\ r.from # r.to \/ ~ IsPrefix(r.req.dest, r.req.path)
             /\ \A q \in Path : IsPrefix(r.req.dest, q) /\ D2[q] # None =>
                   \E p \in Src(r, S2) : q = Image(r, p)
  BY <1>1, <1>7 DEF CalmOK
<1>8. \A p \in Src(r, S2) : ArrivedIn(r, S2, D2, dat2, W2, p) \/ Ahead(r, p)
  BY <1>1, <1>4 DEF CalmOK
<1> QED
  BY <1>5, <1>6, <1>7, <1>8 DEF CalmOK

(* The source and the copy are apart. *)
LEMMA Apart ==
    ASSUME NEW r, r.req.path \in Path, r.req.dest \in Path, NEW S, NEW q \in Path,
           ~ IsPrefix(r.req.dest, r.req.path), IsPrefix(r.req.dest, q)
    PROVE  q \notin Src(r, S)
<1>1. r.req.path \in Seq(STRING) /\ r.req.dest \in Seq(STRING) /\ q \in Seq(STRING)
  BY PathFacts
<1> SUFFICES ASSUME q \in Src(r, S) PROVE FALSE
  OBVIOUS
<1>2. IsPrefix(r.req.path, q) /\ ~ InCopy(r, q)
  BY DEF Src
<1>3. Comparable(r.req.path, r.req.dest)
  BY <1>1, <1>2, PrefixesCompare
<1> QED
  BY <1>2, <1>3 DEF Comparable, InCopy

-----------------------------------------------------------------------------
(* The WRITE handlers of the copy. *)
LEMMA StoredOne ==
    ASSUME NEW dat, NEW W, \A a, b \in W : a.ino = b.ino => a = b
    PROVE  \A w \in W : StoredIn(dat, W, w.ino) = Pending(dat, w)
<1>1. ASSUME NEW w \in W PROVE StoredIn(dat, W, w.ino) = Pending(dat, w)
  <2>1. PICK v : v = CHOOSE u \in W : u.ino = w.ino
    OBVIOUS
  <2>2. v \in W /\ v.ino = w.ino
    BY <2>1
  <2>3. v = w
    BY <2>2
  <2> QED BY <2>1, <2>3 DEF StoredIn
<1> QED
  BY <1>1

LEMMA StreamFacts ==
    ASSUME NEW r, NEW S, NEW D, NEW dat, NEW W, Setting(r, S, D, dat, W),
           CalmOK(r, S, D, dat, W), NEW w \in W
    PROVE  /\ w.path \in Path /\ w.ino \in DOMAIN dat /\ D[w.path] = w.ino /\ w.ino > Folder
           /\ w.pos \in Nat /\ w.queue \in Seq(Chunk) /\ dat[w.ino] \in Seq(Chunk)
           /\ Len(dat[w.ino]) = w.pos /\ IsPrefix(r.req.dest, w.path)
<1>1. /\ w.path \in Path /\ w.ino \in DOMAIN dat /\ w.pos \in Nat /\ w.queue \in Seq(Chunk)
  BY DEF Setting, Streams
<1>2. StreamOK(r, S, D, dat, W, w)
  BY DEF CalmOK
<1>3. D[w.path] = w.ino /\ Len(dat[w.ino]) = w.pos /\ \E p \in Src(r, S) : w.path = Image(r, p)
  BY <1>2 DEF StreamOK
<1>4. w.ino > Folder /\ dat[w.ino] \in Seq(Chunk)
  BY <1>1, <1>3, SettingFacts
<1>5. IsPrefix(r.req.dest, w.path)
  BY <1>3, SettingFacts, ImageIs DEF Src
<1> QED
  BY <1>1, <1>3, <1>4, <1>5

(* No WRITE handler is at the entry at work, before it is begun. *)
LEMMA NoStreamYet ==
    ASSUME NEW r, NEW S, NEW D, NEW dat, NEW W, Setting(r, S, D, dat, W),
           CalmOK(r, S, D, dat, W), r.pc = "copy", r.work[1].src \in Src(r, S),
           r.work[1].act \notin {"open", "read", "list"}
    PROVE  /\ Ahead(r, r.work[1].src)
           /\ \A w \in W : w.path # r.work[1].dst
<1>1. PICK f : f = r.work[1]
  OBVIOUS
<1>2. /\ 1 \in 1 .. Len(r.work) /\ f.src \in Path /\ f.src \in Seq(STRING)
      /\ f.dst = Image(r, f.src)
  BY <1>1, WalkTop
<1>3. Ahead(r, f.src)
  <2>1. IsPrefix(f.src, f.src)
    BY <1>2, PrefixOrder
  <2>2. Covers(f, f.src)
    BY <1>1, <2>1 DEF Covers
  <2> QED BY <1>1, <1>2, <2>2 DEF Ahead
<1>4. ASSUME NEW w \in W, w.path = f.dst PROVE FALSE
  <2>1. StreamOK(r, S, D, dat, W, w)
    BY DEF CalmOK
  <2>2. PICK p \in Src(r, S) : w.path = Image(r, p) /\ (Ahead(r, p) =>
           r.work[1].act \in {"open", "read"})
    BY <2>1 DEF StreamOK
  <2>3. p = f.src
    BY <1>1, <1>2, <1>4, <2>2, SettingFacts, ImageFacts DEF Src
  <2> QED BY <1>3, <2>2, <2>3
<1> QED
  BY <1>1, <1>2, <1>3, <1>4

(* A copy that has WRITE handlers is begun, and apart from its source. *)
LEMMA StreamsBegun ==
    ASSUME NEW r, NEW S, NEW D, NEW dat, NEW W, Setting(r, S, D, dat, W),
           CalmOK(r, S, D, dat, W), r.pc = "copy" \/ r.copied, NEW w \in W
    PROVE  /\ Started(r)
           /\ \A p \in Src(r, S) : S[p] # w.ino
<1>1. Started(r)
  <2> SUFFICES ASSUME ~ Started(r) PROVE FALSE
    OBVIOUS
  <2>1. r.pc = "copy" /\ r.work[Len(r.work)].act \in {"stat", "create"}
    BY DEF Started
  <2>2. PICK n : n = Len(r.work)
    OBVIOUS
  <2>3. n \in Nat /\ 1 \in 1 .. n /\ \A k \in 2 .. n : r.work[k].act = "list"
    BY <2>1, <2>2, WalkTop
  <2>4. n = 1
    <3>1. n \notin 2 .. n
      BY <2>1, <2>2, <2>3
    <3> QED BY <2>3, <3>1
  <2>5. r.work[1].src = r.req.path /\ r.work[1].act \in {"stat", "create"}
    BY <2>1, <2>2, <2>4 DEF Setting
  <2>6. PICK p \in Src(r, S) : Ahead(r, p) => r.work[1].act \in {"open", "read"}
    BY DEF CalmOK, StreamOK
  <2>7. Covers(r.work[1], p)
    BY <2>5 DEF Covers, Src
  <2> QED BY <2>2, <2>3, <2>5, <2>6, <2>7 DEF Ahead
<1>2. ASSUME NEW p \in Src(r, S), S[p] = w.ino PROVE FALSE
  <2>1. w.path \in Path /\ D[w.path] = w.ino /\ w.ino > Folder /\ IsPrefix(r.req.dest, w.path)
    BY StreamFacts
  <2>2. r.from = r.to /\ p = w.path
    BY <1>2, <2>1 DEF Setting, Src
  <2>3. ~ IsPrefix(r.req.dest, r.req.path)
    BY <1>1, <2>2 DEF CalmOK
  <2> QED BY <2>1, <2>2, <2>3, SettingFacts, Apart
<1> QED
  BY <1>1, <1>2

(* One of the WRITE handlers changes. *)
OneChanged(dat, W, dat2, W2, w, v) ==
    /\ \A i \in DOMAIN dat : i # w.ino => dat2[i] = dat[i]
    /\ v.path = w.path /\ v.ino = w.ino
    /\ W2 = (W \ {w}) \cup {v} \/ W2 = W \ {w}
LEMMA StreamChanged ==
    ASSUME NEW r, NEW S, NEW D, NEW dat, NEW W, Setting(r, S, D, dat, W),
           CalmOK(r, S, D, dat, W), NEW w \in W, NEW dat2, NEW W2, NEW v,
           OneChanged(dat, W, dat2, W2, w, v)
    PROVE  /\ \A a, b \in W2 : a.ino = b.ino => a = b
           /\ \A a, b \in W2 : a.path = b.path => a = b
           /\ v \in W2 => StoredIn(dat2, W2, w.ino) = Pending(dat2, v)
           /\ W2 = W \ {w} => StoredIn(dat2, W2, w.ino) = dat2[w.ino]
           /\ \A i \in DOMAIN dat : i # w.ino => StoredIn(dat2, W2, i) = StoredIn(dat, W, i)
<1> USE DEF OneChanged
<1>1. /\ \A a, b \in W : a.ino = b.ino => a = b
      /\ \A a, b \in W : a.path = b.path => a = b
  BY CalmStored DEF CalmOK, StreamOK
<1>2. /\ \A a, b \in W2 : a.ino = b.ino => a = b
      /\ \A a, b \in W2 : a.path = b.path => a = b
  BY <1>1
<1>3. v \in W2 => StoredIn(dat2, W2, w.ino) = Pending(dat2, v)
  BY <1>2, StoredOne
<1>4. ASSUME W2 = W \ {w} PROVE StoredIn(dat2, W2, w.ino) = dat2[w.ino]
  <2>1. \A u \in W2 : u.ino # w.ino
    BY <1>1, <1>4
  <2> QED BY <2>1 DEF StoredIn
<1>5. ASSUME NEW i \in DOMAIN dat, i # w.ino
      PROVE  StoredIn(dat2, W2, i) = StoredIn(dat, W, i)
  <2>1. CASE \E u \in W : u.ino = i
    <3>1. PICK u \in W : u.ino = i
      BY <2>1
    <3>2. u \in W2
      BY <1>5, <3>1
    <3>3. Pending(dat2, u) = Pending(dat, u)
      BY <1>5, <3>1 DEF Pending
    <3>4. StoredIn(dat, W, u.ino) = Pending(dat, u)
      BY <1>1, StoredOne
    <3>5. StoredIn(dat2, W2, u.ino) = Pending(dat2, u)
      BY <1>2, <3>2, StoredOne
    <3> QED BY <3>1, <3>3, <3>4, <3>5
  <2>2. CASE \A u \in W : u.ino # i
    <3>1. \A u \in W2 : u.ino # i
      BY <1>5, <2>2
    <3>2. StoredIn(dat, W, i) = dat[i] /\ StoredIn(dat2, W2, i) = dat2[i]
      BY <2>2, <3>1 DEF StoredIn
    <3> QED BY <1>5, <3>2
  <2> QED BY <2>1, <2>2
<1> QED
  BY <1>2, <1>3, <1>4, <1>5

-----------------------------------------------------------------------------
(* A chunk goes from the queue to the end of the file. *)
LEMMA OverwriteAppends ==
    ASSUME NEW c \in Seq(Chunk), NEW x \in Chunk
    PROVE  Overwrite(c, Len(c), x) = Append(c, x)
<1>1. PICK k : k = Len(c)
  OBVIOUS
<1>2. k \in Nat /\ ~ (k > k) /\ c = [j \in 1 .. k |-> c[j]]
  BY <1>1
<1>3. PICK f : f = [j \in 1 .. k + 1 |-> IF j = k + 1 THEN x ELSE IF j <= k THEN c[j] ELSE Hole]
  OBVIOUS
<1>4. Overwrite(c, k, x) = f
  BY <1>1, <1>2, <1>3 DEF Overwrite
<1>5. f \in [1 .. k + 1 -> Chunk] /\ k + 1 \in Nat
  <2>1. \A j \in 1 .. k : c[j] \in Chunk
    BY <1>1
  <2>2. \A j \in 1 .. k + 1 : j = k + 1 \/ j \in 1 .. k
    BY <1>2
  <2>3. \A j \in 1 .. k + 1 :
           (IF j = k + 1 THEN x ELSE IF j <= k THEN c[j] ELSE Hole) \in Chunk
    BY <2>1, <2>2
  <2> QED BY <1>2, <1>3, <2>3
<1>6. f \in Seq(Chunk) /\ Len(f) = k + 1
  BY <1>5, FunctionIsSeq
<1>7. PICK a : a = Append(c, x)
  OBVIOUS
<1>8. /\ a \in Seq(Chunk) /\ Len(a) = k + 1 /\ a[k + 1] = x
      /\ \A j \in 1 .. k : a[j] = c[j]
  BY <1>1, <1>7, AppendProperties
<1>9. \A j \in 1 .. k + 1 : f[j] = a[j]
  <2>1. \A j \in 1 .. k + 1 : j = k + 1 \/ (j \in 1 .. k /\ j # k + 1 /\ j <= k)
    BY <1>2
  <2> QED BY <1>3, <1>8, <2>1
<1>10. f = a
  BY <1>6, <1>8, <1>9, SeqEqual
<1> QED
  BY <1>1, <1>4, <1>7, <1>10

LEMMA QueueMoves ==
    ASSUME NEW c \in Seq(Chunk), NEW q \in Seq(Chunk), q # <<>>
    PROVE  Append(c, Head(q)) \o Tail(q) = c \o q
<1>1. PICK m, n : m = Len(c) /\ n = Len(q)
  OBVIOUS
<1>2. m \in Nat /\ n \in Nat \ {0}
  BY <1>1
<1>3. /\ Tail(q) \in Seq(Chunk) /\ Len(Tail(q)) = n - 1 /\ Head(q) = q[1] /\ Head(q) \in Chunk
      /\ \A i \in 1 .. n - 1 : Tail(q)[i] = q[i + 1]
  BY <1>1
<1>4. PICK a, t : a = Append(c, Head(q)) /\ t = Tail(q)
  OBVIOUS
<1>5. /\ a \in Seq(Chunk) /\ Len(a) = m + 1 /\ a[m + 1] = q[1]
      /\ \A i \in 1 .. m : a[i] = c[i]
  BY <1>1, <1>3, <1>4, AppendProperties
<1>6. PICK x, y : x = a \o t /\ y = c \o q
  OBVIOUS
<1>7. /\ x \in Seq(Chunk) /\ Len(x) = (m + 1) + (n - 1)
      /\ \A i \in 1 .. (m + 1) + (n - 1) : x[i] = IF i <= m + 1 THEN a[i] ELSE t[i - (m + 1)]
  <2>1. /\ a \o t \in Seq(Chunk) /\ Len(a \o t) = Len(a) + Len(t)
        /\ \A i \in 1 .. Len(a) + Len(t) :
              (a \o t)[i] = IF i <= Len(a) THEN a[i] ELSE t[i - Len(a)]
    BY <1>3, <1>4, <1>5, ConcatProperties
  <2> QED BY <1>3, <1>4, <1>5, <1>6, <2>1
<1>8. /\ y \in Seq(Chunk) /\ Len(y) = m + n
      /\ \A i \in 1 .. m + n : y[i] = IF i <= m THEN c[i] ELSE q[i - m]
  <2>1. /\ c \o q \in Seq(Chunk) /\ Len(c \o q) = Len(c) + Len(q)
        /\ \A i \in 1 .. Len(c) + Len(q) :
              (c \o q)[i] = IF i <= Len(c) THEN c[i] ELSE q[i - Len(c)]
    BY ConcatProperties
  <2> QED BY <1>1, <1>6, <2>1
<1>9. (m + 1) + (n - 1) = m + n
  BY <1>2
<1>10. ASSUME NEW i \in 1 .. m + n PROVE x[i] = y[i]
  <2>1. CASE i <= m
    <3>1. i \in 1 .. m /\ i <= m + 1
      BY <1>2, <2>1
    <3> QED BY <1>5, <1>7, <1>8, <1>9, <2>1, <3>1
  <2>2. CASE i = m + 1
    <3>1. i <= m + 1 /\ ~ (i <= m) /\ i - m = 1
      BY <1>2, <2>2
    <3> QED BY <1>5, <1>7, <1>8, <1>9, <2>2, <3>1
  <2>3. CASE i > m + 1
    <3>1. PICK j : j = i - (m + 1)
      OBVIOUS
    <3>2. j \in 1 .. n - 1 /\ ~ (i <= m + 1) /\ ~ (i <= m) /\ i - m = j + 1
      BY <1>2, <2>3, <3>1
    <3>3. x[i] = t[j] /\ y[i] = q[j + 1]
      BY <1>7, <1>8, <1>9, <3>1, <3>2
    <3> QED BY <1>3, <1>4, <3>2, <3>3
  <2>4. i <= m \/ i = m + 1 \/ i > m + 1
    BY <1>2
  <2> QED BY <2>1, <2>2, <2>3, <2>4
<1>11. x = y
  BY <1>7, <1>8, <1>9, <1>10, SeqEqual
<1> QED
  BY <1>4, <1>6, <1>11

(* A WRITE handler of the copy goes on. *)
StreamOn(r, S, dat, W, dat2, W2, w, v) ==
    /\ OneChanged(dat, W, dat2, W2, w, v) /\ v \in W2
    /\ Pending(dat2, v) = Pending(dat, w) /\ Len(dat2[v.ino]) = v.pos
    /\ \A p \in Src(r, S) : S[p] # w.ino \/ dat2[w.ino] = dat[w.ino]
LEMMA StreamGoesOn ==
    ASSUME NEW r, NEW S, NEW D, NEW dat, NEW W, Setting(r, S, D, dat, W),
           CalmOK(r, S, D, dat, W), NEW w \in W, NEW dat2, NEW W2, NEW v,
           StreamOn(r, S, dat, W, dat2, W2, w, v)
    PROVE  CalmOK(r, S, D, dat2, W2)
<1>0. /\ OneChanged(dat, W, dat2, W2, w, v) /\ v \in W2
      /\ Pending(dat2, v) = Pending(dat, w) /\ Len(dat2[v.ino]) = v.pos
      /\ \A p \in Src(r, S) : S[p] # w.ino \/ dat2[w.ino] = dat[w.ino]
  BY DEF StreamOn
<1>1. /\ v.path = w.path /\ v.ino = w.ino /\ \A i \in DOMAIN dat : i # w.ino => dat2[i] = dat[i]
      /\ \A u \in W2 : u = v \/ (u \in W /\ u # w)
  BY <1>0 DEF OneChanged
<1>2. \A a, b \in W2 : a.path = b.path => a = b
  BY <1>0, StreamChanged
<1>3. StoredIn(dat2, W2, w.ino) = StoredIn(dat, W, w.ino)
  <2>1. StoredIn(dat2, W2, w.ino) = Pending(dat2, v)
    BY <1>0, StreamChanged
  <2>2. StoredIn(dat, W, w.ino) = Pending(dat, w)
    BY CalmStored
  <2> QED BY <1>0, <2>1, <2>2
<1>4. \A i \in DOMAIN dat : i # w.ino => StoredIn(dat2, W2, i) = StoredIn(dat, W, i)
  BY <1>0, StreamChanged
<1>5. \A i \in DOMAIN dat : StoredIn(dat2, W2, i) = StoredIn(dat, W, i)
  BY <1>3, <1>4
<1>6. \A q \in Path : IsPrefix(r.req.dest, q) /\ D[q] > Folder =>
         StoredIn(dat2, W2, D[q]) = StoredIn(dat, W, D[q])
  BY <1>5, SettingFacts
<1>7. \A p \in Src(r, S) : S[p] > Folder => dat2[S[p]] = dat[S[p]]
  <2>1. \A p \in Src(r, S) : S[p] > Folder => S[p] \in DOMAIN dat
    BY SettingFacts DEF Src
  <2> QED BY <1>0, <1>1, <2>1
<1>8. ASSUME NEW u \in W2
      PROVE  \E y \in W : u.path = y.path /\ u.ino = y.ino /\ Len(dat2[u.ino]) = u.pos
  <2>1. CASE u = v
    BY <1>0, <1>1, <2>1
  <2>2. CASE u # v
    <3>1. u \in W /\ u # w
      BY <1>1, <2>2
    <3>2. u.ino # w.ino
      BY <3>1, CalmStored
    <3>3. u.ino \in DOMAIN dat /\ Len(dat[u.ino]) = u.pos
      BY <3>1, StreamFacts
    <3> QED BY <1>1, <3>1, <3>2, <3>3
  <2> QED BY <2>1, <2>2
<1>9. SameCopy(r, S, D, dat, W, S, D, dat2, W2)
  BY <1>2, <1>6, <1>7, <1>8 DEF SameCopy
<1> QED
  BY <1>9, Unmoved

LEMMA ChunkStored ==
    ASSUME NEW r, NEW S, NEW D, NEW dat, NEW W, Setting(r, S, D, dat, W),
           CalmOK(r, S, D, dat, W), r.pc = "copy" \/ r.copied,
           NEW w \in W, w.queue # <<>>,
           NEW dat2, dat2 = [dat EXCEPT ![w.ino] = Overwrite(@, w.pos, Head(w.queue))],
           NEW W2, W2 = (W \ {w}) \cup {[w EXCEPT !.pos = @ + 1, !.queue = Tail(@)]}
    PROVE  CalmOK(r, S, D, dat2, W2)
<1>1. PICK v, c, x : /\ v = [w EXCEPT !.pos = @ + 1, !.queue = Tail(@)]
                     /\ c = dat[w.ino] /\ x = Head(w.queue)
  OBVIOUS
<1>2. /\ w.ino \in DOMAIN dat /\ w.pos \in Nat /\ w.queue \in Seq(Chunk) /\ c \in Seq(Chunk)
      /\ Len(c) = w.pos
  BY <1>1, StreamFacts
<1>3. x \in Chunk
  BY <1>1, <1>2
<1>4. v.path = w.path /\ v.ino = w.ino /\ v.pos = w.pos + 1 /\ v.queue = Tail(w.queue)
  BY <1>1 DEF Setting, Streams
<1>5. /\ dat2[w.ino] = Append(c, x) /\ \A i \in DOMAIN dat : i # w.ino => dat2[i] = dat[i]
  <2>1. Overwrite(c, w.pos, x) = Append(c, x)
    BY <1>2, <1>3, OverwriteAppends
  <2>2. dat2[w.ino] = Overwrite(c, w.pos, x)
    BY <1>1, <1>2
  <2> QED BY <2>1, <2>2
<1>6. OneChanged(dat, W, dat2, W2, w, v) /\ v \in W2
  BY <1>1, <1>4, <1>5 DEF OneChanged
<1>7. Pending(dat2, v) = Pending(dat, w)
  <2>1. Pending(dat2, v) = Append(c, x) \o Tail(w.queue)
    BY <1>4, <1>5 DEF Pending
  <2>2. Pending(dat, w) = c \o w.queue
    BY <1>1 DEF Pending
  <2>3. Append(c, Head(w.queue)) \o Tail(w.queue) = c \o w.queue
    BY <1>2, QueueMoves
  <2> QED BY <1>1, <2>1, <2>2, <2>3
<1>8. Len(dat2[v.ino]) = v.pos
  <2>1. Len(Append(c, x)) = Len(c) + 1
    BY <1>2, <1>3, AppendProperties
  <2> QED BY <1>2, <1>4, <1>5, <2>1
<1>9. \A p \in Src(r, S) : S[p] # w.ino \/ dat2[w.ino] = dat[w.ino]
  BY StreamsBegun
<1> QED
  <2>1. StreamOn(r, S, dat, W, dat2, W2, w, v)
    BY <1>6, <1>7, <1>8, <1>9 DEF StreamOn
  <2> QED BY <2>1, StreamGoesOn

LEMMA StreamClosed ==
    ASSUME NEW r, NEW S, NEW D, NEW dat, NEW W, Setting(r, S, D, dat, W),
           CalmOK(r, S, D, dat, W), NEW w \in W,
           NEW W2, W2 = (W \ {w}) \cup {[w EXCEPT !.open = FALSE]}
    PROVE  CalmOK(r, S, D, dat, W2)
<1>1. PICK v : v = [w EXCEPT !.open = FALSE]
  OBVIOUS
<1>2. v.path = w.path /\ v.ino = w.ino /\ v.pos = w.pos /\ v.queue = w.queue
  BY <1>1 DEF Setting, Streams
<1>3. OneChanged(dat, W, dat, W2, w, v) /\ v \in W2
  BY <1>1, <1>2 DEF OneChanged
<1>4. Pending(dat, v) = Pending(dat, w) /\ Len(dat[v.ino]) = v.pos
  BY <1>2, StreamFacts DEF Pending
<1> QED
  <2>1. StreamOn(r, S, dat, W, dat, W2, w, v)
    BY <1>3, <1>4 DEF StreamOn
  <2> QED BY <2>1, StreamGoesOn

LEMMA StreamEnded ==
    ASSUME NEW r, NEW S, NEW D, NEW dat, NEW W, Setting(r, S, D, dat, W),
           CalmOK(r, S, D, dat, W), NEW w \in W, w.queue = <<>>, NEW W2, W2 = W \ {w}
    PROVE  CalmOK(r, S, D, dat, W2)
<1>1. w.ino \in DOMAIN dat /\ dat[w.ino] \in Seq(Chunk)
  BY StreamFacts
<1>2. OneChanged(dat, W, dat, W2, w, w)
  BY DEF OneChanged
<1>3. \A a, b \in W2 : a.path = b.path => a = b
  BY <1>2, StreamChanged
<1>4. StoredIn(dat, W2, w.ino) = dat[w.ino]
  BY <1>2, StreamChanged
<1>5. \A i \in DOMAIN dat : i # w.ino => StoredIn(dat, W2, i) = StoredIn(dat, W, i)
  BY <1>2, StreamChanged
<1>6. StoredIn(dat, W, w.ino) = Pending(dat, w)
  BY CalmStored
<1>7. Pending(dat, w) = dat[w.ino]
  <2>1. dat[w.ino] \o <<>> = dat[w.ino]
    BY <1>1
  <2> QED BY <2>1 DEF Pending
<1>8. \A i \in DOMAIN dat : StoredIn(dat, W2, i) = StoredIn(dat, W, i)
  BY <1>4, <1>5, <1>6, <1>7
<1>9. \A q \in Path : IsPrefix(r.req.dest, q) /\ D[q] > Folder =>
         StoredIn(dat, W2, D[q]) = StoredIn(dat, W, D[q])
  BY <1>8, SettingFacts
<1>10. \A u \in W2 : \E y \in W : u.path = y.path /\ u.ino = y.ino /\ Len(dat[u.ino]) = u.pos
  <2>1. \A u \in W2 : u \in W /\ Len(dat[u.ino]) = u.pos
    BY StreamFacts
  <2> QED BY <2>1
<1>11. SameCopy(r, S, D, dat, W, S, D, dat, W2)
  BY <1>3, <1>9, <1>10 DEF SameCopy
<1> QED
  BY <1>11, Unmoved

-----------------------------------------------------------------------------
(* The entry at work changes together with the disks or the WRITE handlers. *)
TopMove(r, S, D, dat, W, f, g, S2, D2, dat2, W2) ==
    /\ f.src \in Src(r, S) /\ Src(r, S2) = Src(r, S)
    /\ g.src = f.src /\ f.act # "list" /\ g.act # "list"
    /\ EntryOK(r, S2, D2, dat2, W2, g)
    /\ \A k \in 2 .. Len(r.work) : EntryOK(r, S2, D2, dat2, W2, r.work[k])
    /\ \A p \in Src(r, S) : p # f.src /\ ArrivedIn(r, S, D, dat, W, p) =>
          ArrivedIn(r, S2, D2, dat2, W2, p)
    /\ \A v \in W2 : /\ Len(dat2[v.ino]) = v.pos /\ D2[v.path] = v.ino
                     /\ v.path = f.dst \/ \E w \in W : w.path = v.path
                     /\ v.path = f.dst => g.act \in {"open", "read"}
    /\ \A v, u \in W2 : u.path = v.path => u = v
    /\ r.from # r.to \/ ~ IsPrefix(r.req.dest, r.req.path)
    /\ \A q \in Path : IsPrefix(r.req.dest, q) /\ D2[q] # None =>
          \E p \in Src(r, S) : q = Image(r, p)
LEMMA TopMoved ==
    ASSUME NEW r, NEW S, NEW D, NEW dat, NEW W, Setting(r, S, D, dat, W),
           CalmOK(r, S, D, dat, W), r.pc = "copy", NEW f, f = r.work[1],
           NEW g \in FrameRecord, NEW S2, NEW D2, NEW dat2, NEW W2,
           TopMove(r, S, D, dat, W, f, g, S2, D2, dat2, W2)
    PROVE  CalmOK(WithTop(r, g), S2, D2, dat2, W2)
<1>1. /\ f.src \in Src(r, S) /\ Src(r, S2) = Src(r, S)
      /\ g.src = f.src /\ f.act # "list" /\ g.act # "list"
      /\ EntryOK(r, S2, D2, dat2, W2, g)
      /\ \A k \in 2 .. Len(r.work) : EntryOK(r, S2, D2, dat2, W2, r.work[k])
      /\ \A p \in Src(r, S) : p # f.src /\ ArrivedIn(r, S, D, dat, W, p) =>
            ArrivedIn(r, S2, D2, dat2, W2, p)
      /\ \A v \in W2 : /\ Len(dat2[v.ino]) = v.pos /\ D2[v.path] = v.ino
                       /\ v.path = f.dst \/ \E w \in W : w.path = v.path
                       /\ v.path = f.dst => g.act \in {"open", "read"}
      /\ \A v, u \in W2 : u.path = v.path => u = v
      /\ r.from # r.to \/ ~ IsPrefix(r.req.dest, r.req.path)
      /\ \A q \in Path : IsPrefix(r.req.dest, q) /\ D2[q] # None =>
            \E p \in Src(r, S) : q = Image(r, p)
  BY DEF TopMove
<1>2. PICK a, n : a = WithTop(r, g) /\ n = Len(r.work)
  OBVIOUS
<1>3. /\ r \in ThreadRecord /\ r.work # <<>> /\ n \in Nat /\ 1 \in 1 .. n
      /\ f.src \in Path /\ f.src \in Seq(STRING) /\ f.dst = Image(r, f.src)
  BY <1>2, WalkTop DEF Setting
<1>4. /\ a.req = r.req /\ a.from = r.from /\ a.to = r.to /\ Len(a.work) = n
      /\ \A k \in 1 .. n : a.work[k] = IF k = 1 THEN g ELSE r.work[k]
  BY <1>2, <1>3, WithTopFields
<1>5. a.work[1] = g /\ \A k \in 2 .. n : k \in 1 .. n /\ a.work[k] = r.work[k]
  BY <1>3, <1>4
<1>6. \A k \in 1 .. n : k = 1 \/ k \in 2 .. n
  BY <1>3
<1>7. /\ Src(a, S2) = Src(r, S)
      /\ \A p : Image(a, p) = Image(r, p)
      /\ \A p : ArrivedIn(a, S2, D2, dat2, W2, p) = ArrivedIn(r, S2, D2, dat2, W2, p)
      /\ \A h : EntryOK(a, S2, D2, dat2, W2, h) = EntryOK(r, S2, D2, dat2, W2, h)
  BY <1>1, <1>4, SameRequest
<1>8. ASSUME NEW k \in 1 .. Len(a.work) PROVE EntryOK(a, S2, D2, dat2, W2, a.work[k])
  <2>1. CASE k = 1
    BY <1>1, <1>5, <1>7, <2>1
  <2>2. CASE k # 1
    <3>1. k \in 2 .. n /\ a.work[k] = r.work[k]
      BY <1>4, <1>5, <1>6, <2>2
    <3>2. EntryOK(r, S2, D2, dat2, W2, r.work[k])
      BY <1>1, <1>2, <3>1
    <3>3. EntryOK(a, S2, D2, dat2, W2, r.work[k])
      BY <1>7, <3>2
    <3> QED BY <3>1, <3>3
  <2> QED BY <2>1, <2>2
<1>9. \A p : Covers(g, p) <=> Covers(f, p)
  BY <1>1 DEF Covers
<1>10. \A k \in 1 .. n : \A p : Covers(a.work[k], p) <=> Covers(r.work[k], p)
  BY <1>5, <1>6, <1>9
<1>11. \A p : Ahead(a, p) <=> Ahead(r, p)
  BY <1>2, <1>4, <1>10 DEF Ahead
<1>12. Ahead(r, f.src)
  <2>1. IsPrefix(f.src, f.src)
    BY <1>3, PrefixOrder
  <2>2. Covers(f, f.src)
    BY <1>1, <2>1 DEF Covers
  <2> QED BY <1>2, <1>3, <2>2 DEF Ahead
<1>13. ASSUME NEW p \in Src(a, S2)
       PROVE  ArrivedIn(a, S2, D2, dat2, W2, p) \/ Ahead(a, p)
  <2>1. p \in Src(r, S)
    BY <1>7
  <2>2. ArrivedIn(r, S, D, dat, W, p) \/ Ahead(r, p)
    BY <2>1 DEF CalmOK
  <2> QED BY <1>1, <1>7, <1>11, <1>12, <2>1, <2>2
<1>14. ASSUME NEW v \in W2 PROVE StreamOK(a, S2, D2, dat2, W2, v)
  <2>1. \E p \in Src(r, S) : /\ v.path = Image(r, p)
                             /\ Ahead(r, p) => f.src = p /\ g.act \in {"open", "read"}
    <3>1. CASE v.path = f.dst
      BY <1>1, <1>3, <3>1
    <3>2. CASE v.path # f.dst
      <4>1. PICK w \in W : w.path = v.path
        BY <1>1, <3>2
      <4>2. StreamOK(r, S, D, dat, W, w)
        BY DEF CalmOK
      <4>3. PICK p \in Src(r, S) : w.path = Image(r, p) /\ (Ahead(r, p) => r.work[1].src = p)
        BY <4>2 DEF StreamOK
      <4>4. p # f.src
        BY <1>3, <3>2, <4>1, <4>3
      <4> QED BY <4>1, <4>3, <4>4
    <3> QED BY <3>1, <3>2
  <2> QED BY <1>1, <1>5, <1>7, <1>11, <2>1 DEF StreamOK
<1>15. Started(a) =>
          /\ a.from # a.to \/ ~ IsPrefix(a.req.dest, a.req.path)
          /\ \A q \in Path : IsPrefix(a.req.dest, q) /\ D2[q] # None =>
                \E p \in Src(a, S2) : q = Image(a, p)
  BY <1>1, <1>4, <1>7
<1>16. CalmOK(a, S2, D2, dat2, W2)
  BY <1>8, <1>13, <1>14, <1>15 DEF CalmOK
<1> QED
  BY <1>2, <1>16

(* The folders that wait do not depend on the data. *)
LEMMA WaitingOK ==
    ASSUME NEW r, NEW S, NEW D, NEW dat, NEW W, Setting(r, S, D, dat, W),
           CalmOK(r, S, D, dat, W), NEW dat2, NEW W2
    PROVE  \A k \in 2 .. Len(r.work) : EntryOK(r, S, D, dat2, W2, r.work[k])
<1> SUFFICES ASSUME NEW k \in 2 .. Len(r.work)
             PROVE  EntryOK(r, S, D, dat2, W2, r.work[k])
  OBVIOUS
<1>1. Len(r.work) \in Nat
  BY SettingFacts
<1>2. k \in 1 .. Len(r.work)
  BY <1>1
<1>3. EntryOK(r, S, D, dat, W, r.work[k]) /\ r.work[k].act = "list"
  BY <1>2 DEF CalmOK, Setting
<1> QED
  BY <1>3 DEF EntryOK

-----------------------------------------------------------------------------
(* WRITE at the destination: the file has been made and is empty. *)
LEMMA NewStream ==
    ASSUME NEW r, NEW S, NEW D, NEW dat, NEW W, Setting(r, S, D, dat, W),
           CalmOK(r, S, D, dat, W), r.pc = "copy", NEW f, f = r.work[1], f.act = "write"
    PROVE  /\ D[f.dst] \in DOMAIN dat /\ dat[D[f.dst]] = <<>>
           /\ \A v \in W : v.path # f.dst /\ v.ino # D[f.dst]
<1>1. /\ PlaceOK(r, f) /\ EntryOK(r, S, D, dat, W, f)
  BY WalkTop
<1>2. /\ f.src \in Src(r, S) /\ f.dst \in Path /\ S[f.src] # Folder /\ D[f.dst] > Folder
      /\ StoredIn(dat, W, D[f.dst]) = <<>>
  BY <1>1 DEF EntryOK
<1>3. \A v \in W : v.path # f.dst
  BY <1>2, NoStreamYet
<1>4. D[f.dst] \in DOMAIN dat
  BY <1>2, SettingFacts
<1>5. \A v \in W : v.ino # D[f.dst]
  <2>1. \A v \in W : v.path \in Path /\ D[v.path] = v.ino /\ v.ino > Folder
    BY StreamFacts
  <2> QED BY <1>2, <1>3, <2>1 DEF Setting
<1>6. dat[D[f.dst]] = <<>>
  BY <1>2, <1>5 DEF StoredIn
<1> QED
  BY <1>3, <1>4, <1>5, <1>6

LEMMA StreamBegun ==
    ASSUME NEW r, NEW S, NEW D, NEW dat, NEW W, Setting(r, S, D, dat, W),
           CalmOK(r, S, D, dat, W), r.pc = "copy", NEW f, f = r.work[1], f.act = "write",
           NEW g \in FrameRecord, g = [f EXCEPT !.act = "open"],
           NEW w, w.path = f.dst, w.ino = D[f.dst], w.pos = 0, w.queue = <<>>,
           NEW W2, W2 = W \cup {w}
    PROVE  CalmOK(WithTop(r, g), S, D, dat, W2)
<1>1. /\ f \in FrameRecord /\ PlaceOK(r, f) /\ EntryOK(r, S, D, dat, W, f) /\ f.src \in Path
      /\ f.dst = Image(r, f.src) /\ Len(r.work) \in Nat /\ Len(r.work) \in 1 .. Len(r.work)
      /\ \A k \in 2 .. Len(r.work) : r.work[k].act = "list"
  BY WalkTop
<1>2. /\ f.src \in Src(r, S) /\ f.dst \in Path /\ S[f.src] # Folder /\ D[f.dst] > Folder
      /\ StoredIn(dat, W, D[f.dst]) = <<>>
  BY <1>1 DEF EntryOK
<1>3. \A v \in W : v.path # f.dst
  BY NewStream
<1>4. PICK i : i = D[f.dst]
  OBVIOUS
<1>5. i \in DOMAIN dat /\ dat[i] = <<>>
  BY <1>4, NewStream
<1>6. \A v \in W : v.ino # i
  BY <1>4, NewStream
<1>7. dat[i] = <<>>
  BY <1>5
<1>8. \A a, b \in W2 : a.ino = b.ino => a = b
  <2>1. \A a, b \in W : a.ino = b.ino => a = b
    BY CalmStored
  <2> QED BY <1>4, <1>6, <2>1
<1>9. StoredIn(dat, W2, i) = <<>>
  <2>1. StoredIn(dat, W2, w.ino) = Pending(dat, w)
    BY <1>8, StoredOne
  <2>2. Pending(dat, w) = <<>>
    <3>1. <<>> \o <<>> = <<>>
      OBVIOUS
    <3> QED BY <1>4, <1>7, <3>1 DEF Pending
  <2> QED BY <1>4, <2>1, <2>2
<1>10. ASSUME NEW j, j # i PROVE StoredIn(dat, W2, j) = StoredIn(dat, W, j)
  <2>1. CASE \E u \in W : u.ino = j
    <3>1. PICK u \in W : u.ino = j
      BY <2>1
    <3>2. StoredIn(dat, W, u.ino) = Pending(dat, u)
      BY CalmStored
    <3>3. StoredIn(dat, W2, u.ino) = Pending(dat, u)
      BY <1>8, StoredOne
    <3> QED BY <3>1, <3>2, <3>3
  <2>2. CASE \A u \in W : u.ino # j
    <3>1. \A u \in W2 : u.ino # j
      BY <1>4, <1>10, <2>2
    <3> QED BY <2>2, <3>1 DEF StoredIn
  <2> QED BY <2>1, <2>2
<1>11. g.act = "open" /\ g.src = f.src /\ g.dst = f.dst
  BY <1>1 DEF FrameRecord
<1>12. EntryOK(r, S, D, dat, W2, g)
  BY <1>2, <1>4, <1>9, <1>11 DEF EntryOK
<1>13. ASSUME NEW p \in Src(r, S), p # f.src, ArrivedIn(r, S, D, dat, W, p)
       PROVE  ArrivedIn(r, S, D, dat, W2, p)
  <2>1. PICK q : q = Image(r, p)
    OBVIOUS
  <2>2. q \in Path /\ q # f.dst
    BY <1>1, <1>2, <1>13, <2>1, SettingFacts, ImageFacts DEF ArrivedIn, Src
  <2>3. D[q] > Folder => D[q] # i
    BY <1>2, <1>4, <2>2 DEF Setting
  <2>4. D[q] > Folder => StoredIn(dat, W2, D[q]) = StoredIn(dat, W, D[q])
    BY <1>10, <2>3
  <2> QED BY <1>13, <2>1, <2>4 DEF ArrivedIn
<1>14. ASSUME NEW v \in W2
       PROVE  /\ Len(dat[v.ino]) = v.pos /\ D[v.path] = v.ino
              /\ v.path = f.dst \/ \E u \in W : u.path = v.path
              /\ v.path = f.dst => g.act \in {"open", "read"}
  <2>1. CASE v = w
    <3>1. Len(<<>>) = 0
      OBVIOUS
    <3> QED BY <1>4, <1>7, <1>11, <2>1, <3>1
  <2>2. CASE v \in W
    BY <1>11, <2>2, StreamFacts
  <2> QED BY <2>1, <2>2
<1>15. \A a, b \in W2 : b.path = a.path => b = a
  <2>1. \A a, b \in W : a.path = b.path => a = b
    BY DEF CalmOK, StreamOK
  <2> QED BY <1>3, <2>1
<1>16. Started(r)
  <2>1. PICK n : n = Len(r.work)
    OBVIOUS
  <2>0. n \in Nat /\ n \in 1 .. n
    BY <1>1, <2>1
  <2>2. n = 1 \/ n \in 2 .. n
    BY <2>0
  <2>3. r.work[n].act \in {"write", "list"}
    BY <1>1, <2>1, <2>2
  <2> QED BY <2>1, <2>3 DEF Started
<1>17. \A k \in 2 .. Len(r.work) : EntryOK(r, S, D, dat, W2, r.work[k])
  BY WaitingOK
<1>18. /\ r.from # r.to \/ ~ IsPrefix(r.req.dest, r.req.path)
       /\ \A q \in Path : IsPrefix(r.req.dest, q) /\ D[q] # None =>
             \E p \in Src(r, S) : q = Image(r, p)
  BY <1>16 DEF CalmOK
<1>19. TopMove(r, S, D, dat, W, f, g, S, D, dat, W2)
  BY <1>2, <1>11, <1>12, <1>13, <1>14, <1>15, <1>17, <1>18 DEF TopMove
<1>20. CalmOK(WithTop(r, g), S, D, dat, W2)
  BY <1>19, TopMoved
<1> QED
  BY <1>4, <1>5, <1>7, <1>20

-----------------------------------------------------------------------------
(* The contents of a file go to its WRITE handler. *)
LEMMA AppendToQueue ==
    ASSUME NEW c \in Seq(Chunk), NEW q \in Seq(Chunk), NEW x \in Chunk
    PROVE  c \o Append(q, x) = Append(c \o q, x)
<1>1. PICK m, n, a, y : m = Len(c) /\ n = Len(q) /\ a = Append(q, x) /\ y = c \o q
  OBVIOUS
<1>2. m \in Nat /\ n \in Nat
  BY <1>1
<1>3. /\ a \in Seq(Chunk) /\ Len(a) = n + 1 /\ a[n + 1] = x
      /\ \A i \in 1 .. n : a[i] = q[i]
  BY <1>1, AppendProperties
<1>4. /\ y \in Seq(Chunk) /\ Len(y) = m + n
      /\ \A i \in 1 .. m + n : y[i] = IF i <= m THEN c[i] ELSE q[i - m]
  <2>1. /\ c \o q \in Seq(Chunk) /\ Len(c \o q) = Len(c) + Len(q)
        /\ \A i \in 1 .. Len(c) + Len(q) :
              (c \o q)[i] = IF i <= Len(c) THEN c[i] ELSE q[i - Len(c)]
    BY ConcatProperties
  <2> QED BY <1>1, <2>1
<1>5. PICK z, b : z = Append(y, x) /\ b = c \o a
  OBVIOUS
<1>6. /\ z \in Seq(Chunk) /\ Len(z) = (m + n) + 1 /\ z[(m + n) + 1] = x
      /\ \A i \in 1 .. m + n : z[i] = y[i]
  BY <1>4, <1>5, AppendProperties
<1>7. /\ b \in Seq(Chunk) /\ Len(b) = m + (n + 1)
      /\ \A i \in 1 .. m + (n + 1) : b[i] = IF i <= m THEN c[i] ELSE a[i - m]
  <2>1. /\ c \o a \in Seq(Chunk) /\ Len(c \o a) = Len(c) + Len(a)
        /\ \A i \in 1 .. Len(c) + Len(a) :
              (c \o a)[i] = IF i <= Len(c) THEN c[i] ELSE a[i - Len(c)]
    BY <1>3, ConcatProperties
  <2> QED BY <1>1, <1>3, <1>5, <2>1
<1>8. m + (n + 1) = (m + n) + 1
  BY <1>2
<1>9. ASSUME NEW i \in 1 .. (m + n) + 1 PROVE b[i] = z[i]
  <2>1. CASE i <= m
    <3>1. i \in 1 .. m + n
      BY <1>2, <2>1
    <3> QED BY <1>4, <1>6, <1>7, <1>8, <2>1, <3>1
  <2>2. CASE i > m /\ i <= m + n
    <3>1. i \in 1 .. m + n /\ ~ (i <= m) /\ i - m \in 1 .. n
      BY <1>2, <2>2
    <3> QED BY <1>3, <1>4, <1>6, <1>7, <1>8, <3>1
  <2>3. CASE i = (m + n) + 1
    <3>1. ~ (i <= m) /\ i - m = n + 1
      BY <1>2, <2>3
    <3> QED BY <1>3, <1>6, <1>7, <1>8, <2>3, <3>1
  <2>4. i <= m \/ (i > m /\ i <= m + n) \/ i = (m + n) + 1
    BY <1>2
  <2> QED BY <2>1, <2>2, <2>3, <2>4
<1>10. b = z
  BY <1>6, <1>7, <1>8, <1>9, SeqEqual
<1> QED
  BY <1>1, <1>5, <1>10

LEMMA OneMore ==
    ASSUME NEW s \in Seq(Chunk), NEW n \in Nat, n < Len(s)
    PROVE  Append(SubSeq(s, 1, n), s[n + 1]) = SubSeq(s, 1, n + 1)
<1>1. PICK a, b : a = SubSeq(s, 1, n) /\ b = SubSeq(s, 1, n + 1)
  OBVIOUS
<1>2. n + 1 \in 1 .. Len(s) /\ n + 1 \in Nat
  OBVIOUS
<1>3. /\ a \in Seq(Chunk) /\ Len(a) = n
      /\ \A i \in 1 .. n : a[i] = s[i]
  <2>1. \A i \in 1 .. n : s[i] \in Chunk
    BY <1>2
  <2> QED BY <1>1, <2>1, SubSeqProperties
<1>4. /\ b \in Seq(Chunk) /\ Len(b) = n + 1
      /\ \A i \in 1 .. n + 1 : b[i] = s[i]
  <2>1. \A i \in 1 .. n + 1 : s[i] \in Chunk
    BY <1>2
  <2> QED BY <1>1, <1>2, <2>1, SubSeqProperties
<1>5. PICK c : c = Append(a, s[n + 1])
  OBVIOUS
<1>6. /\ c \in Seq(Chunk) /\ Len(c) = n + 1 /\ c[n + 1] = s[n + 1]
      /\ \A i \in 1 .. n : c[i] = a[i]
  BY <1>2, <1>3, <1>5, AppendProperties
<1>7. \A i \in 1 .. n + 1 : c[i] = b[i]
  <2>1. \A i \in 1 .. n + 1 : i \in 1 .. n \/ i = n + 1
    OBVIOUS
  <2> QED BY <1>3, <1>4, <1>6, <2>1
<1>8. c = b
  BY <1>4, <1>6, <1>7, SeqEqual
<1> QED
  BY <1>1, <1>5, <1>8

LEMMA FileDone ==
    ASSUME NEW r, NEW S, NEW D, NEW dat, NEW W, Setting(r, S, D, dat, W),
           CalmOK(r, S, D, dat, W), r.pc = "copy", NEW f, f = r.work[1], f.act = "read",
           ~ (f.pos < Len(dat[f.ino])), NEW w \in W,
           NEW W2, W2 = (W \ {w}) \cup {[w EXCEPT !.open = FALSE]},
           NEW r2, r2.req = r.req, r2.from = r.from, r2.to = r.to, Gone1(r, r2)
    PROVE  CalmOK(r2, S, D, dat, W2)
<1>1. CalmOK(r, S, D, dat, W2)
  BY StreamClosed
<1>2. Setting(r, S, D, dat, W2)
  <2>1. [w EXCEPT !.open = FALSE] \in Streams(dat)
    BY DEF Setting, Streams
  <2>2. W2 \subseteq Streams(dat)
    BY <2>1 DEF Setting
  <2> QED BY <2>2 DEF Setting
<1>3. /\ f \in FrameRecord /\ EntryOK(r, S, D, dat, W2, f) /\ f.src \in Path
      /\ f.dst = Image(r, f.src)
  BY <1>1, <1>2, WalkTop
<1>4. /\ f.src \in Src(r, S) /\ f.dst \in Path /\ S[f.src] # Folder /\ D[f.dst] > Folder
      /\ f.ino = S[f.src] /\ f.pos <= Len(dat[f.ino])
      /\ StoredIn(dat, W2, D[f.dst]) = SubSeq(dat[f.ino], 1, f.pos)
  BY <1>3 DEF EntryOK
<1>5. f.ino \in DOMAIN dat /\ dat[f.ino] \in Seq(Chunk) /\ f.pos \in Nat
  BY <1>2, <1>3, <1>4, SettingFacts DEF Src, FrameRecord
<1>6. StoredIn(dat, W2, D[f.dst]) = dat[S[f.src]]
  <2>1. PICK s, n : s = dat[f.ino] /\ n = Len(s)
    OBVIOUS
  <2>2. s \in Seq(Chunk) /\ n \in Nat /\ f.pos = n
    BY <1>4, <1>5, <2>1
  <2>3. SubSeq(s, 1, n) = s
    BY <2>1, <2>2, SubSeqFull
  <2> QED BY <1>4, <2>1, <2>2, <2>3
<1>7. ArrivedIn(r, S, D, dat, W2, f.src)
  BY <1>3, <1>4, <1>6 DEF ArrivedIn
<1>8. \A p \in Src(r, S) : Covers(f, p) => p = f.src
  BY <1>3, <1>4 DEF Covers, Src, Setting, Rooting
<1> QED
  BY <1>1, <1>2, <1>7, <1>8, Popped

LEMMA Underway ==
    ASSUME NEW r, NEW S, NEW D, NEW dat, NEW W, Setting(r, S, D, dat, W),
           CalmOK(r, S, D, dat, W), r.pc = "copy", r.work[1].act \notin {"stat", "create"}
    PROVE  Started(r)
<1>1. PICK n : n = Len(r.work)
  OBVIOUS
<1>2. n \in Nat /\ n \in 1 .. n /\ \A k \in 2 .. n : r.work[k].act = "list"
  BY <1>1, WalkTop
<1>3. n = 1 \/ n \in 2 .. n
  BY <1>2
<1>4. r.work[n].act \notin {"stat", "create"}
  BY <1>2, <1>3
<1> QED
  BY <1>1, <1>4 DEF Started

LEMMA SourceFile ==
    ASSUME NEW r, NEW S, NEW D, NEW dat, NEW W, Setting(r, S, D, dat, W),
           NEW p \in Src(r, S), S[p] # Folder
    PROVE  S[p] \in DOMAIN dat /\ dat[S[p]] \in Seq(Chunk)
<1>1. p \in Path /\ S[p] # None
  BY DEF Src
<1> QED
  BY <1>1, SettingFacts

LEMMA OneImage ==
    ASSUME NEW r, NEW S, NEW D, NEW dat, NEW W, Setting(r, S, D, dat, W),
           NEW p \in Src(r, S), NEW q \in Src(r, S), p # q
    PROVE  Image(r, p) # Image(r, q)
<1>1. /\ p \in Path /\ q \in Path /\ IsPrefix(r.req.path, p) /\ IsPrefix(r.req.path, q)
      /\ r.req.path \in Path /\ r.req.dest \in Path
  BY SettingFacts DEF Src
<1> QED
  BY <1>1, ImageFacts

LEMMA ChunkSent ==
    ASSUME NEW r, NEW S, NEW D, NEW dat, NEW W, Setting(r, S, D, dat, W),
           CalmOK(r, S, D, dat, W), r.pc = "copy", NEW f, f = r.work[1], f.act = "read",
           f.pos < Len(dat[f.ino]), NEW w \in W, w.path = f.dst,
           NEW W2, W2 = (W \ {w}) \cup {[w EXCEPT !.queue = Append(@, dat[f.ino][f.pos + 1])]},
           NEW g \in FrameRecord, g = [f EXCEPT !.pos = @ + 1]
    PROVE  CalmOK(WithTop(r, g), S, D, dat, W2)
<1>1. /\ f \in FrameRecord /\ EntryOK(r, S, D, dat, W, f) /\ f.src \in Path
      /\ f.dst = Image(r, f.src)
  BY WalkTop
<1>2. PICK s, x : s = dat[f.ino] /\ x = dat[f.ino][f.pos + 1]
  OBVIOUS
<1>3. /\ f.src \in Src(r, S) /\ f.dst \in Path /\ S[f.src] # Folder /\ D[f.dst] > Folder
      /\ f.ino = S[f.src] /\ f.pos <= Len(s)
      /\ StoredIn(dat, W, D[f.dst]) = SubSeq(s, 1, f.pos)
  BY <1>1, <1>2 DEF EntryOK
<1>4. f.ino \in DOMAIN dat /\ s \in Seq(Chunk) /\ f.pos \in Nat
  <2>1. f.ino \in DOMAIN dat
    BY <1>1, <1>3, SourceFile
  <2>2. s \in Seq(Chunk)
    BY <1>2, <2>1, SettingFacts
  <2>3. f.pos \in Nat
    BY <1>1 DEF FrameRecord
  <2> QED BY <2>1, <2>2, <2>3
<1>5. f.pos + 1 \in 1 .. Len(s) /\ x \in Chunk /\ x = s[f.pos + 1]
  BY <1>2, <1>4
<1>6. PICK v : v = [w EXCEPT !.queue = Append(@, x)]
  OBVIOUS
<1>7. /\ v.path = w.path /\ v.ino = w.ino /\ v.pos = w.pos /\ v.queue = Append(w.queue, x)
      /\ W2 = (W \ {w}) \cup {v} /\ v \in W2
  BY <1>2, <1>6 DEF Setting, Streams
<1>8. /\ w.ino = D[f.dst] /\ w.queue \in Seq(Chunk) /\ dat[w.ino] \in Seq(Chunk)
      /\ Len(dat[w.ino]) = w.pos
  BY StreamFacts
<1>9. OneChanged(dat, W, dat, W2, w, v)
  BY <1>7 DEF OneChanged
<1>10. g.act = "read" /\ g.src = f.src /\ g.dst = f.dst /\ g.ino = f.ino /\ g.pos = f.pos + 1
  BY <1>1 DEF FrameRecord
<1>11. StoredIn(dat, W2, D[f.dst]) = SubSeq(s, 1, f.pos + 1)
  <2>1. StoredIn(dat, W2, w.ino) = Pending(dat, v)
    BY <1>7, <1>9, StreamChanged
  <2>2. Pending(dat, v) = Append(Pending(dat, w), x)
    <3>1. dat[w.ino] \o Append(w.queue, x) = Append(dat[w.ino] \o w.queue, x)
      BY <1>5, <1>8, AppendToQueue
    <3> QED BY <1>7, <3>1 DEF Pending
  <2>3. Pending(dat, w) = SubSeq(s, 1, f.pos)
    <3>1. StoredIn(dat, W, w.ino) = Pending(dat, w)
      BY CalmStored
    <3> QED BY <1>3, <1>8, <3>1
  <2>4. Append(SubSeq(s, 1, f.pos), s[f.pos + 1]) = SubSeq(s, 1, f.pos + 1)
    BY <1>2, <1>4, OneMore
  <2> QED BY <1>5, <1>8, <2>1, <2>2, <2>3, <2>4
<1>12. EntryOK(r, S, D, dat, W2, g)
  <2>1. g.pos <= Len(dat[g.ino])
    BY <1>2, <1>4, <1>10
  <2>2. StoredIn(dat, W2, D[g.dst]) = SubSeq(dat[g.ino], 1, g.pos)
    BY <1>2, <1>10, <1>11
  <2> QED BY <1>3, <1>10, <2>1, <2>2 DEF EntryOK
<1>13. ASSUME NEW p \in Src(r, S), p # f.src, ArrivedIn(r, S, D, dat, W, p)
       PROVE  ArrivedIn(r, S, D, dat, W2, p)
  <2>1. PICK q : q = Image(r, p)
    OBVIOUS
  <2>2. q \in Path /\ q # f.dst
    <3>1. Image(r, p) # Image(r, f.src)
      BY <1>3, <1>13, OneImage
    <3> QED BY <1>1, <1>13, <2>1, <3>1 DEF ArrivedIn
  <2>3. D[q] > Folder => D[q] # w.ino /\ D[q] \in DOMAIN dat
    <3>1. D[q] > Folder <=> D[q] \in DOMAIN dat
      BY <2>2, SettingFacts
    <3>2. D[q] > Folder => D[q] # D[f.dst]
      BY <1>3, <2>2 DEF Setting
    <3> QED BY <1>8, <3>1, <3>2
  <2>4. D[q] > Folder => StoredIn(dat, W2, D[q]) = StoredIn(dat, W, D[q])
    BY <1>9, <2>3, StreamChanged
  <2> QED BY <1>13, <2>1, <2>4 DEF ArrivedIn
<1>14. ASSUME NEW u \in W2
       PROVE  /\ Len(dat[u.ino]) = u.pos /\ D[u.path] = u.ino
              /\ u.path = f.dst \/ \E y \in W : y.path = u.path
              /\ u.path = f.dst => g.act \in {"open", "read"}
  <2>1. CASE u = v
    BY <1>7, <1>8, <1>10, <2>1
  <2>2. CASE u # v
    BY <1>7, <1>10, <2>2, StreamFacts
  <2> QED BY <2>1, <2>2
<1>15. \A a, b \in W2 : b.path = a.path => b = a
  BY <1>9, StreamChanged
<1>16. Started(r)
  BY Underway
<1>17. \A k \in 2 .. Len(r.work) : EntryOK(r, S, D, dat, W2, r.work[k])
  BY WaitingOK
<1>18. /\ r.from # r.to \/ ~ IsPrefix(r.req.dest, r.req.path)
       /\ \A q \in Path : IsPrefix(r.req.dest, q) /\ D[q] # None =>
             \E p \in Src(r, S) : q = Image(r, p)
  BY <1>16 DEF CalmOK
<1>19. TopMove(r, S, D, dat, W, f, g, S, D, dat, W2)
  BY <1>3, <1>10, <1>12, <1>13, <1>14, <1>15, <1>17, <1>18 DEF TopMove
<1> QED
  BY <1>19, TopMoved

-----------------------------------------------------------------------------
(* CREATE at the destination. *)
NewPlace(r, S, D, dat, f, i, S2, D2, dat2) ==
    /\ CanCreate(D, f.dst, f.folder)
    /\ IF f.folder THEN i = Folder ELSE i > Folder
    /\ \A p \in Path : D2[p] = IF p = f.dst THEN i ELSE D[p]
    /\ S2 = IF r.from = r.to THEN D2 ELSE S
    /\ i > Folder => dat2[i] = <<>> /\ (i \in DOMAIN dat => D[f.dst] = i)
    /\ \A j \in DOMAIN dat : j # i => dat2[j] = dat[j]
NewCopy(r, S, D, f, S2, D2) ==
    /\ f.src \in Src(r, S) /\ f.dst \in Path /\ f.dst = Image(r, f.src)
    /\ IsPrefix(r.req.dest, f.dst) /\ D[f.dst] # Folder
    /\ f.folder = (S[f.src] = Folder)
    /\ r.from # r.to \/ ~ IsPrefix(r.req.dest, r.req.path)
    /\ \A q \in Path : IsPrefix(r.req.dest, q) /\ D2[q] # None =>
          \E p \in Src(r, S) : q = Image(r, p)
    /\ Src(r, S2) = Src(r, S) /\ \A p \in Src(r, S) : S2[p] = S[p]
LEMMA NewPlaceFacts ==
    ASSUME NEW r, NEW S, NEW D, NEW dat, NEW W, Setting(r, S, D, dat, W),
           CalmOK(r, S, D, dat, W), r.pc = "copy", NEW f, f = r.work[1], f.act = "create",
           NEW i, NEW S2, NEW D2, NEW dat2, NewPlace(r, S, D, dat, f, i, S2, D2, dat2)
    PROVE  NewCopy(r, S, D, f, S2, D2)
<1>1. /\ f \in FrameRecord /\ EntryOK(r, S, D, dat, W, f) /\ f.src \in Path
      /\ f.dst = Image(r, f.src) /\ IsPrefix(r.req.path, f.src)
      /\ r.req.path \in Path /\ r.req.dest \in Path /\ r.req.dest # r.req.path
  BY WalkTop, SettingFacts
<1>2. /\ f.src \in Src(r, S) /\ f.dst \in Path /\ IsPrefix(r.req.dest, f.dst)
      /\ f.folder = (S[f.src] = Folder)
  BY <1>1, ImageIs DEF EntryOK, NewPlace, CanCreate
<1>3. D[f.dst] # Folder
  BY DEF NewPlace, CanCreate, None, Folder
<1>4. ASSUME Started(r)
      PROVE  /\ r.from # r.to \/ ~ IsPrefix(r.req.dest, r.req.path)
             /\ \A q \in Path : IsPrefix(r.req.dest, q) /\ D2[q] # None =>
                   \E p \in Src(r, S) : q = Image(r, p)
  <2>1. /\ r.from # r.to \/ ~ IsPrefix(r.req.dest, r.req.path)
        /\ \A q \in Path : IsPrefix(r.req.dest, q) /\ D[q] # None =>
              \E p \in Src(r, S) : q = Image(r, p)
    BY <1>4 DEF CalmOK
  <2>2. \A q \in Path : q = f.dst \/ D2[q] = D[q]
    BY DEF NewPlace
  <2>3. \A q \in Path : IsPrefix(r.req.dest, q) /\ D2[q] # None =>
           \E p \in Src(r, S) : q = Image(r, p)
    BY <1>1, <1>2, <2>1, <2>2
  <2> QED BY <2>1, <2>3
<1>5. ASSUME ~ Started(r)
      PROVE  /\ r.from # r.to \/ ~ IsPrefix(r.req.dest, r.req.path)
             /\ \A q \in Path : IsPrefix(r.req.dest, q) /\ D2[q] # None =>
                   \E p \in Src(r, S) : q = Image(r, p)
  <2>1. PICK n : n = Len(r.work)
    OBVIOUS
  <2>2. n \in Nat /\ n \in 1 .. n /\ \A k \in 2 .. n : r.work[k].act = "list"
    BY <2>1, WalkTop
  <2>3. n = 1
    <3>1. r.work[n].act \in {"stat", "create"}
      BY <1>5, <2>1 DEF Started
    <3>2. n \notin 2 .. n
      BY <2>2, <3>1
    <3> QED BY <2>2, <3>2
  <2>4. f.src = r.req.path /\ f.dst = r.req.dest
    BY <2>1, <2>3 DEF Setting
  <2>5. r.from = r.to => ~ IsPrefix(r.req.dest, r.req.path)
    <3> SUFFICES ASSUME r.from = r.to, IsPrefix(r.req.dest, r.req.path) PROVE FALSE
      OBVIOUS
    <3>1. D[r.req.path] # None
      BY <1>2, <2>4 DEF Src, Setting
    <3> QED BY <1>1, <1>3, <2>4, <3>1 DEF Setting, Rooting
  <2>6. \A q \in Path : IsPrefix(r.req.dest, q) /\ D2[q] # None => q = f.dst
    <3> SUFFICES ASSUME NEW q \in Path, IsPrefix(r.req.dest, q), D2[q] # None, q # f.dst
                 PROVE  FALSE
      OBVIOUS
    <3>1. D[q] # None
      BY DEF NewPlace
    <3> QED BY <1>1, <1>3, <2>4, <3>1 DEF Setting, Rooting
  <2>7. \A q \in Path : IsPrefix(r.req.dest, q) /\ D2[q] # None =>
           \E p \in Src(r, S) : q = Image(r, p)
    BY <1>1, <1>2, <2>6
  <2> QED BY <2>5, <2>7
<1>6. /\ r.from # r.to \/ ~ IsPrefix(r.req.dest, r.req.path)
      /\ \A q \in Path : IsPrefix(r.req.dest, q) /\ D2[q] # None =>
            \E p \in Src(r, S) : q = Image(r, p)
  BY <1>4, <1>5
<1>7. Src(r, S2) = Src(r, S) /\ \A p \in Src(r, S) : S2[p] = S[p]
  <2>1. CASE r.from # r.to
    BY <2>1 DEF NewPlace
  <2>2. CASE r.from = r.to
    <3>1. f.dst \notin Src(r, S) /\ f.dst \notin Src(r, S2)
      BY <1>1, <1>2, <1>6, <2>2, Apart
    <3>2. \A p \in Path : p # f.dst => S2[p] = S[p]
      BY <2>2 DEF NewPlace, Setting
    <3> QED BY <3>1, <3>2 DEF Src
  <2> QED BY <2>1, <2>2
<1> QED
  BY <1>1, <1>2, <1>3, <1>6, <1>7 DEF NewCopy

LEMMA WaitingStay ==
    ASSUME NEW r, NEW S, NEW D, NEW dat, NEW W, Setting(r, S, D, dat, W),
           CalmOK(r, S, D, dat, W), r.pc = "copy", NEW f, f = r.work[1], f.act = "create",
           NEW i, NEW S2, NEW D2, NEW dat2, NewPlace(r, S, D, dat, f, i, S2, D2, dat2),
           NEW k \in 2 .. Len(r.work)
    PROVE  EntryOK(r, S2, D2, dat2, W, r.work[k])
<1>1. /\ f.src \in Src(r, S) /\ f.dst \in Path /\ f.dst = Image(r, f.src)
      /\ IsPrefix(r.req.dest, f.dst) /\ D[f.dst] # Folder
      /\ r.from # r.to \/ ~ IsPrefix(r.req.dest, r.req.path)
      /\ Src(r, S2) = Src(r, S) /\ \A p \in Src(r, S) : S2[p] = S[p]
  <2>1. NewCopy(r, S, D, f, S2, D2)
    BY NewPlaceFacts
  <2> QED BY <2>1 DEF NewCopy
<1>2. PICK h : h = r.work[k]
  OBVIOUS
<1>3. Len(r.work) \in Nat /\ h.act = "list"
  BY <1>2, SettingFacts DEF Setting
<1>4. k \in 1 .. Len(r.work)
  BY <1>3
<1>5. EntryOK(r, S, D, dat, W, h)
  BY <1>2, <1>4 DEF CalmOK
<1>6. /\ h.src \in Src(r, S) /\ h.dst \in Path /\ S[h.src] = Folder /\ D[h.dst] = Folder
      /\ \A c \in Path : Front(c) = h.src /\ S[c] # None => c \in h.listed \/ c = r.req.dest
  BY <1>3, <1>5 DEF EntryOK
<1>7. D2[h.dst] = Folder /\ S2[h.src] = Folder
  BY <1>1, <1>6 DEF NewPlace
<1>8. ASSUME NEW c \in Path, Front(c) = h.src, S2[c] # None
      PROVE  c \in h.listed \/ c = r.req.dest
  <2>1. CASE S[c] # None
    BY <1>6, <1>8, <2>1
  <2>2. CASE S[c] = None /\ c # r.req.dest
    <3>1. r.from = r.to /\ c = f.dst
      BY <1>8, <2>2 DEF NewPlace, Setting
    <3>2. /\ r.req.dest \in Path /\ r.req.path \in Path /\ r.req.dest \in Seq(STRING)
          /\ h.src \in Path
      BY <1>6, SettingFacts DEF Src
    <3>3. IsPrefix(r.req.dest, h.src)
      BY <1>1, <1>8, <2>2, <3>1, <3>2, ChildFacts
    <3> QED BY <1>1, <1>6, <3>1, <3>2, <3>3, Apart
  <2> QED BY <2>1, <2>2
<1>9. EntryOK(r, S2, D2, dat2, W, h)
  BY <1>1, <1>3, <1>6, <1>7, <1>8 DEF EntryOK
<1> QED
  BY <1>2, <1>9

LEMMA EntryMade ==
    ASSUME NEW r, NEW S, NEW D, NEW dat, NEW W, Setting(r, S, D, dat, W),
           CalmOK(r, S, D, dat, W), r.pc = "copy", NEW f, f = r.work[1], f.act = "create",
           NEW i, NEW S2, NEW D2, NEW dat2, NewPlace(r, S, D, dat, f, i, S2, D2, dat2),
           NEW g \in FrameRecord,
           g = [f EXCEPT !.act = IF f.folder THEN "opendir" ELSE "write"]
    PROVE  CalmOK(WithTop(r, g), S2, D2, dat2, W)
<1>1. /\ f.src \in Src(r, S) /\ f.dst \in Path /\ f.dst = Image(r, f.src)
      /\ IsPrefix(r.req.dest, f.dst) /\ D[f.dst] # Folder
      /\ f.folder = (S[f.src] = Folder)
      /\ r.from # r.to \/ ~ IsPrefix(r.req.dest, r.req.path)
      /\ \A q \in Path : IsPrefix(r.req.dest, q) /\ D2[q] # None =>
            \E p \in Src(r, S) : q = Image(r, p)
      /\ Src(r, S2) = Src(r, S) /\ \A p \in Src(r, S) : S2[p] = S[p]
  <2>1. NewCopy(r, S, D, f, S2, D2)
    BY NewPlaceFacts
  <2> QED BY <2>1 DEF NewCopy
<1>2. /\ IF f.folder THEN i = Folder ELSE i > Folder
      /\ D2[f.dst] = i /\ \A p \in Path : p # f.dst => D2[p] = D[p]
      /\ i > Folder => dat2[i] = <<>> /\ (i \in DOMAIN dat => D[f.dst] = i)
      /\ \A j \in DOMAIN dat : j # i => dat2[j] = dat[j]
  BY <1>1 DEF NewPlace
<1>3. \A w \in W : w.path # f.dst
  BY <1>1, NoStreamYet
<1>4. \A w \in W : /\ w.path \in Path /\ w.ino \in DOMAIN dat /\ D[w.path] = w.ino
                   /\ w.ino > Folder /\ Len(dat[w.ino]) = w.pos
  BY StreamFacts
<1>5. i \in DOMAIN dat => i > Folder /\ D[f.dst] = i
  <2>1. Folder \notin DOMAIN dat
    BY SettingFacts
  <2> QED BY <1>2, <2>1
<1>6. \A w \in W : w.ino # i
  BY <1>1, <1>3, <1>4, <1>5 DEF Setting
<1>7. \A p \in Path : p # f.dst /\ D[p] > Folder => D[p] # i /\ D[p] \in DOMAIN dat
  <2>1. \A p \in Path : p # f.dst /\ D[p] > Folder => D[p] # D[f.dst]
    BY <1>1 DEF Setting
  <2>2. \A p \in Path : D[p] > Folder <=> D[p] \in DOMAIN dat
    BY SettingFacts
  <2> QED BY <1>5, <2>1, <2>2
<1>8. ASSUME NEW p \in Src(r, S), S[p] # Folder PROVE dat2[S[p]] = dat[S[p]]
  <2>1. S[p] \in DOMAIN dat
    BY <1>8, SourceFile
  <2>2. S[p] # i
    <3> SUFFICES ASSUME S[p] = i PROVE FALSE
      OBVIOUS
    <3>1. p \in Path /\ S[p] > Folder /\ S[p] = D[f.dst]
      BY <1>5, <2>1 DEF Src
    <3>2. r.from = r.to /\ p = f.dst
      BY <1>1, <3>1 DEF Setting
    <3> QED BY <1>1, <3>2, SettingFacts, Apart
  <2> QED BY <1>2, <2>1, <2>2
<1>9. ASSUME NEW j \in DOMAIN dat, j # i PROVE StoredIn(dat2, W, j) = StoredIn(dat, W, j)
  <2>1. CASE \E u \in W : u.ino = j
    <3>1. PICK u \in W : u.ino = j
      BY <2>1
    <3>2. \A a, b \in W : a.ino = b.ino => a = b
      BY CalmStored
    <3>3. StoredIn(dat, W, u.ino) = Pending(dat, u) /\ StoredIn(dat2, W, u.ino) = Pending(dat2, u)
      BY <3>2, StoredOne
    <3>4. Pending(dat2, u) = Pending(dat, u)
      BY <1>2, <1>9, <3>1 DEF Pending
    <3> QED BY <3>1, <3>3, <3>4
  <2>2. CASE \A u \in W : u.ino # j
    BY <1>2, <1>9, <2>2 DEF StoredIn
  <2> QED BY <2>1, <2>2
<1>10. f \in FrameRecord
  BY WalkTop
<1>11. /\ g.act = (IF f.folder THEN "opendir" ELSE "write")
       /\ g.src = f.src /\ g.dst = f.dst
  BY <1>10 DEF FrameRecord
<1>12. EntryOK(r, S2, D2, dat2, W, g)
  <2>1. CASE f.folder
    <3>1. S2[g.src] = Folder /\ D2[g.dst] = Folder
      BY <1>1, <1>2, <1>11, <2>1
    <3> QED BY <1>1, <1>11, <2>1, <3>1 DEF EntryOK
  <2>2. CASE ~ f.folder
    <3>1. S2[g.src] # Folder /\ D2[g.dst] > Folder /\ D2[g.dst] = i
      BY <1>1, <1>2, <1>11, <2>2
    <3>2. StoredIn(dat2, W, i) = <<>>
      BY <1>2, <1>6, <2>2 DEF StoredIn
    <3> QED BY <1>1, <1>11, <2>2, <3>1, <3>2 DEF EntryOK
  <2> QED BY <2>1, <2>2
<1>13. ASSUME NEW p \in Src(r, S), p # f.src, ArrivedIn(r, S, D, dat, W, p)
       PROVE  ArrivedIn(r, S2, D2, dat2, W, p)
  <2>1. PICK q : q = Image(r, p)
    OBVIOUS
  <2>2. Image(r, p) # Image(r, f.src)
    BY <1>1, <1>13, OneImage
  <2>3. /\ q \in Path /\ q # f.dst
        /\ IF S[p] = Folder THEN D[q] = Folder
           ELSE D[q] > Folder /\ StoredIn(dat, W, D[q]) = dat[S[p]]
    BY <1>1, <1>13, <2>1, <2>2 DEF ArrivedIn
  <2>4. D2[q] = D[q] /\ S2[p] = S[p]
    BY <1>1, <1>2, <2>3
  <2>5. S[p] # Folder => StoredIn(dat2, W, D[q]) = dat2[S[p]]
    BY <1>7, <1>8, <1>9, <2>3
  <2> QED BY <2>1, <2>3, <2>4, <2>5 DEF ArrivedIn
<1>14. ASSUME NEW v \in W
       PROVE  /\ Len(dat2[v.ino]) = v.pos /\ D2[v.path] = v.ino
              /\ v.path = f.dst \/ \E w \in W : w.path = v.path
              /\ v.path = f.dst => g.act \in {"open", "read"}
  BY <1>2, <1>3, <1>4, <1>6
<1>15. \A a, b \in W : b.path = a.path => b = a
  BY DEF CalmOK, StreamOK
<1>16. \A k \in 2 .. Len(r.work) : EntryOK(r, S2, D2, dat2, W, r.work[k])
  BY WaitingStay
<1>17. TopMove(r, S, D, dat, W, f, g, S2, D2, dat2, W)
  BY <1>1, <1>11, <1>12, <1>13, <1>14, <1>15, <1>16 DEF TopMove
<1> QED
  BY <1>17, TopMoved

-----------------------------------------------------------------------------
(* The copies of a state, one by one. *)
LEMMA CalmFacts ==
    ASSUME WInv, NEW t \in Threads, Calm(t), NEW r, r = thread[t]
    PROVE  /\ r \in ThreadRecord /\ r.req \in Requests /\ r.req.op = "copy" /\ Local(r)
           /\ r.from \in SS /\ r.to \in SS /\ r.pc \notin Early
<1>1. r \in ThreadRecord /\ Local(r) /\ PcOK(r)
  BY WalkFacts DEF WInv, Locals
<1>2. r.pc = "copy" \/ r.copied
  BY DEF Calm, At
<1>3. r.pc = "copy" => r.req \in Requests /\ r.req.op = "copy" /\ r.from \in SS /\ r.to \in SS
  BY <1>1 DEF PcOK
<1>4. r.copied => /\ r.pc \notin Early /\ r.req \in Requests /\ r.req.op = "copy"
                  /\ r.from \in SS /\ r.to \in SS
  BY <1>1 DEF Local, Early
<1> QED
  BY <1>1, <1>2, <1>3, <1>4 DEF Early

LEMMA SettingHolds ==
    ASSUME WInv, NEW t \in Threads, Calm(t), NEW r, r = thread[t]
    PROVE  Setting(r, tree[r.from], tree[r.to], data, Own(t))
<1>1. /\ r \in ThreadRecord /\ r.req \in Requests /\ r.req.op = "copy" /\ Local(r)
      /\ r.from \in SS /\ r.to \in SS
  BY CalmFacts
<1>2. WalkOK(r) /\ WorkOK(r, Known, OpenAt(t), Inodes) /\ Rooted /\ TypeOK
  BY ThreadFacts, WalkFacts DEF WInv, TInv, IInv
<1>3. r.pc = "copy" => /\ r.work # <<>>
                       /\ r.work[Len(r.work)].src = r.req.path
                       /\ r.work[Len(r.work)].dst = r.req.dest
  BY <1>2 DEF WalkOK, WorkOK
<1>4. \A k \in 2 .. Len(r.work) : r.work[k].act = "list"
  <2>1. PICK n : n = Len(r.work)
    OBVIOUS
  <2>2. n \in Nat
    BY <1>1, <2>1 DEF ThreadRecord
  <2>3. \A k \in 2 .. n : k \in 1 .. n /\ k > 1
    BY <2>2
  <2> QED BY <1>2, <2>1, <2>3 DEF WorkOK
<1>5. /\ tree \in [SS -> [Path -> {None, Folder} \cup DOMAIN data]]
      /\ data \in Seq(Seq(Chunk)) /\ writers \subseteq WriterRecord
  BY <1>2 DEF TypeOK
<1>6. \A s \in SS : /\ tree[s] \in [Path -> {None, Folder} \cup DOMAIN data]
                    /\ Rooting(tree[s])
  BY <1>2, <1>5 DEF Rooted, Rooting, Exists
<1>7. Own(t) \subseteq Streams(data)
  BY <1>5 DEF Own, Streams, WriterRecord
<1>8. OneFile
  BY DEF WInv
<1>9. \A p, q \in Path : tree[r.to][p] > Folder /\ tree[r.to][p] = tree[r.to][q] => p = q
  BY <1>1, <1>8 DEF OneFile
<1>10. \A p, q \in Path : tree[r.from][p] > Folder /\ tree[r.from][p] = tree[r.to][q] =>
          r.from = r.to /\ p = q
  BY <1>1, <1>8 DEF OneFile
<1> QED
  BY <1>1, <1>3, <1>4, <1>5, <1>6, <1>7, <1>9, <1>10 DEF Setting

(* What a step of t leaves alone: all that is not below its own paths, and *)
(* the WRITE handlers of others.                                           *)
Under(t, p) == \E q \in Paths(thread[t].req) : IsPrefix(q, p)
Disks(t) ==
    /\ \A s \in SS, p \in Path : ~ Under(t, p) => tree'[s][p] = tree[s][p]
    /\ \A s \in SS, p \in Path : ~ Under(t, p) /\ tree[s][p] > Folder =>
          data'[tree[s][p]] = data[tree[s][p]]
    /\ \A u \in Threads \ {t} : Own(u)' = Own(u)
LEMMA OthersCalm ==
    ASSUME WInv, NEW t \in Threads, AtWork(t), Disks(t),
           NEW u \in Threads \ {t}, Calm(u), NEW r, r = thread[u]
    PROVE  CalmOK(r, tree'[r.from], tree'[r.to], data', Own(u)')
<1>1. /\ r.req \in Requests /\ r.req.op = "copy" /\ r.from \in SS /\ r.to \in SS
      /\ r.pc \notin Early /\ u \notin disturbed
  BY CalmFacts DEF Calm
<1>2. PICK S, D, W : S = tree[r.from] /\ D = tree[r.to] /\ W = Own(u)
  OBVIOUS
<1>3. Setting(r, S, D, data, W) /\ CalmOK(r, S, D, data, W)
  BY <1>2, SettingHolds DEF WInv, Calms
<1>4. thread[t].pc # "idle"
  <2>1. CASE \E w \in writers : w.by = t
    BY <2>1 DEF WInv, StreamPlaces, Early
  <2> QED BY <2>1 DEF AtWork
<1>5. ~ Related(r.req, thread[t].req)
  <2>1. ~ Linked(u, t)
    BY <1>1 DEF WInv, TInv, Alone
  <2> QED BY <1>1, <1>4, <2>1 DEF Linked, At, Early
<1>6. r.req.path \in Path /\ r.req.dest \in Path /\ Paths(r.req) = {r.req.path, r.req.dest}
  BY <1>1, <1>3, SettingFacts DEF Paths
<1>7. \A q \in Paths(thread[t].req) : q \in Path
  <2>1. PcOK(thread[t])
    BY WalkFacts DEF WInv
  <2>2. thread[t].req \in Requests
    BY <1>4, <2>1 DEF PcOK
  <2> QED BY <2>2, RequestFacts DEF Paths
<1>8. ASSUME NEW p \in Path, IsPrefix(r.req.path, p) \/ IsPrefix(r.req.dest, p)
      PROVE  ~ Under(t, p)
  <2> SUFFICES ASSUME NEW q \in Paths(thread[t].req), IsPrefix(q, p) PROVE FALSE
    BY DEF Under
  <2>1. PICK a \in Paths(r.req) : IsPrefix(a, p)
    BY <1>6, <1>8
  <2>2. a \in Seq(STRING) /\ p \in Seq(STRING) /\ q \in Seq(STRING)
    BY <1>6, <1>7, <2>1, PathFacts
  <2>3. Comparable(a, q)
    BY <2>1, <2>2, PrefixesCompare
  <2> QED BY <1>5, <2>3 DEF Related
<1>9. PICK S2, D2 : S2 = tree'[r.from] /\ D2 = tree'[r.to]
  OBVIOUS
<1>10. /\ \A p \in Path : IsPrefix(r.req.path, p) =>
             S2[p] = S[p] /\ (S[p] > Folder => data'[S[p]] = data[S[p]])
       /\ \A q \in Path : IsPrefix(r.req.dest, q) =>
             D2[q] = D[q] /\ (D[q] > Folder => data'[D[q]] = data[D[q]])
  BY <1>1, <1>2, <1>8, <1>9 DEF Disks
<1>11. Own(u)' = W
  BY <1>2 DEF Disks
<1>12. ASSUME NEW w \in W
       PROVE  Pending(data', w) = Pending(data, w) /\ Len(data'[w.ino]) = w.pos
  <2>1. /\ w.path \in Path /\ D[w.path] = w.ino /\ w.ino > Folder
        /\ Len(data[w.ino]) = w.pos /\ IsPrefix(r.req.dest, w.path)
    BY <1>3, StreamFacts
  <2>2. data'[w.ino] = data[w.ino]
    BY <1>10, <2>1
  <2> QED BY <2>1, <2>2 DEF Pending
<1>13. ASSUME NEW q \in Path, IsPrefix(r.req.dest, q), D[q] > Folder
       PROVE  StoredIn(data', W, D[q]) = StoredIn(data, W, D[q])
  <2>1. CASE \E w \in W : w.ino = D[q]
    <3>1. PICK w \in W : w.ino = D[q]
      BY <2>1
    <3>2. \A a, b \in W : a.ino = b.ino => a = b
      BY <1>3, CalmStored
    <3>3. StoredIn(data, W, w.ino) = Pending(data, w) /\ StoredIn(data', W, w.ino) = Pending(data', w)
      BY <3>2, StoredOne
    <3> QED BY <1>12, <3>1, <3>3
  <2>2. CASE \A w \in W : w.ino # D[q]
    BY <1>10, <1>13, <2>2 DEF StoredIn
  <2> QED BY <2>1, <2>2
<1>14. \A a, b \in W : a.path = b.path => a = b
  BY <1>3 DEF CalmOK, StreamOK
<1>15. SameCopy(r, S, D, data, W, S2, D2, data', W)
  BY <1>10, <1>12, <1>13, <1>14 DEF SameCopy, Src
<1>16. CalmOK(r, S2, D2, data', W)
  BY <1>3, <1>15, Unmoved
<1> QED
  BY <1>9, <1>11, <1>16

(* What a step of t must do, and that it keeps the invariant. *)
Goes(t) ==
    /\ Disks(t) /\ OneFile' /\ StreamPlaces' /\ Local(thread'[t])
    /\ Calm(t)' => LET r == thread'[t] IN
          CalmOK(r, tree'[r.from], tree'[r.to], data', Own(t)')
LEMMA StepKeepsCopies ==
    ASSUME WInv, TInv', NEW t \in Threads, AtWork(t), Goes(t), disturbed' = disturbed,
           \A u \in Threads \ {t} : thread'[u] = thread[u]
    PROVE  WInv'
<1>1. Locals'
  BY DEF Locals, Goes, WInv
<1>2. ASSUME NEW u \in Threads, Calm(u)'
      PROVE  CalmOK(thread'[u], tree'[thread'[u].from], tree'[thread'[u].to], data', Own(u)')
  <2>1. CASE u = t
    BY <1>2, <2>1 DEF Goes
  <2>2. CASE u # t
    <3>1. thread'[u] = thread[u] /\ Calm(u)
      BY <1>2, <2>2 DEF Calm, Is, At
    <3>2. Disks(t)
      BY DEF Goes
    <3> QED BY <2>2, <3>1, <3>2, OthersCalm
  <2> QED BY <2>1, <2>2
<1>3. Calms'
  BY <1>2 DEF Calms
<1> QED
  BY <1>1, <1>3 DEF WInv, Goes

-----------------------------------------------------------------------------
(* Steps that change no disk and no WRITE handler. *)
LEMMA StreamsStay ==
    ASSUME WInv, NEW t \in Threads, NEW r, thread' = [thread EXCEPT ![t] = r],
           r.req = thread[t].req, r.pc \in Early => thread[t].pc \in Early,
           NEW w, w.by \in Threads,
           Is(w.by, "copy"), thread[w.by].pc \notin Early,
           IsPrefix(thread[w.by].req.dest, w.path)
    PROVE  /\ Is(w.by, "copy")' /\ thread'[w.by].pc \notin Early
           /\ IsPrefix(thread'[w.by].req.dest, w.path)
<1>1. DOMAIN thread = Threads
  BY WalkFacts DEF WInv
<1>2. thread'[t] = r /\ \A u \in Threads \ {t} : thread'[u] = thread[u]
  BY <1>1
<1> QED
  BY <1>2 DEF Is

LEMMA QuietGoes ==
    ASSUME WInv, NEW t \in Threads, NEW r, thread' = [thread EXCEPT ![t] = r],
           r.req = thread[t].req, r.pc \in Early => thread[t].pc \in Early,
           tree' = tree, data' = data, writers' = writers, disturbed' = disturbed, Local(r),
           Is(t, "copy") /\ t \notin disturbed /\ (r.pc = "copy" \/ r.copied) =>
              CalmOK(r, tree[r.from], tree[r.to], data, Own(t))
    PROVE  Goes(t)
<1>1. DOMAIN thread = Threads /\ writers \subseteq WriterRecord
  BY WalkFacts DEF WInv, TInv, IInv, TypeOK
<1>2. thread'[t] = r
  BY <1>1
<1>3. \A u \in Threads : Own(u)' = Own(u)
  BY DEF Own
<1>4. Disks(t)
  BY <1>3 DEF Disks
<1>5. OneFile'
  BY DEF WInv, OneFile
<1>6. StreamPlaces'
  <2> SUFFICES ASSUME NEW w \in writers'
               PROVE  /\ Is(w.by, "copy")' /\ thread'[w.by].pc \notin Early
                      /\ IsPrefix(thread'[w.by].req.dest, w.path)
                      /\ \A s \in SS, p \in Path : tree'[s][p] = w.ino => p = w.path
    BY DEF StreamPlaces
  <2>1. /\ Is(w.by, "copy") /\ thread[w.by].pc \notin Early
        /\ IsPrefix(thread[w.by].req.dest, w.path)
        /\ \A s \in SS, p \in Path : tree[s][p] = w.ino => p = w.path
    BY DEF WInv, StreamPlaces
  <2>2. w.by \in Threads
    BY <1>1 DEF WriterRecord
  <2> QED BY <2>1, <2>2, StreamsStay
<1>7. Calm(t)' => CalmOK(r, tree[r.from], tree[r.to], data, Own(t))
  BY <1>2 DEF Calm, Is, At
<1>8. Calm(t)' => CalmOK(r, tree'[r.from], tree'[r.to], data', Own(t)')
  BY <1>3, <1>7
<1> QED
  BY <1>2, <1>4, <1>5, <1>6, <1>8 DEF Goes

(* What a copied thread does next, and what others do. *)
LEMMA PlainGoes ==
    ASSUME WInv, NEW t \in Threads, NEW r, NEW r2, r = thread[t],
           thread' = [thread EXCEPT ![t] = r2],
           tree' = tree, data' = data, writers' = writers, disturbed' = disturbed,
           r2.req = r.req, r2.copied = r.copied, r2.work = <<>> \/ r2.work = r.work,
           r2.pc # "copy", r2.pc \in Early => r.pc \in Early,
           r.copied => /\ r2.from = r.from /\ r2.to = r.to
                       /\ r2.pc \in {"table", "waits", "rows", "answer", "done"}
    PROVE  Goes(t)
<1>1. Local(r)
  BY DEF WInv, Locals
<1>2. Len(<<>>) = 0
  OBVIOUS
<1>3. r2.work = <<>> => Len(r2.work) = 0 /\ 1 .. Len(r2.work) = {}
  BY <1>2
<1>4. Local(r2)
  <2>1. r.copied => /\ r2.pc \in {"table", "waits", "rows", "answer", "done"} /\ r2.work = <<>>
                    /\ r2.req \in Requests /\ r2.req.op = "copy" /\ r2.from \in SS /\ r2.to \in SS
    BY <1>1 DEF Local
  <2>2. CASE r2.work = <<>>
    BY <1>3, <2>1, <2>2 DEF Local
  <2>3. CASE r2.work = r.work
    <3>1. \A p : Image(r2, p) = Image(r, p) /\ InCopy(r2, p) = InCopy(r, p)
      BY SameRequest
    <3>2. \A f : PlaceOK(r, f) => PlaceOK(r2, f)
      BY <3>1 DEF PlaceOK
    <3> QED BY <1>1, <2>1, <2>3, <3>2 DEF Local
  <2> QED BY <2>2, <2>3
<1>5. ASSUME Is(t, "copy"), t \notin disturbed, r2.pc = "copy" \/ r2.copied
      PROVE  CalmOK(r2, tree[r2.from], tree[r2.to], data, Own(t))
  <2>1. r.copied /\ Calm(t)
    BY <1>5 DEF Calm
  <2>2. PICK S, D, W : S = tree[r.from] /\ D = tree[r.to] /\ W = Own(t)
    OBVIOUS
  <2>3. CalmOK(r, S, D, data, W)
    BY <2>1, <2>2 DEF WInv, Calms
  <2>4. r2.work = <<>> /\ 1 .. Len(r2.work) = {} /\ r.work = <<>> /\ 1 .. Len(r.work) = {}
    BY <1>1, <1>2, <2>1 DEF Local
  <2>5. \A p : ~ Ahead(r2, p) /\ ~ Ahead(r, p)
    BY <2>4 DEF Ahead
  <2>6. CalmOK(r2, S, D, data, W)
    BY <2>1, <2>3, <2>4, <2>5, StayCalm DEF Started
  <2> QED BY <2>1, <2>2, <2>6
<1> QED
  BY <1>4, <1>5, QuietGoes

LEMMA AnswerGoes ==
    ASSUME WInv, NEW t \in Threads, NEW resp, Answer(t, resp),
           tree' = tree, data' = data, writers' = writers, disturbed' = disturbed
    PROVE  Goes(t)
<1>1. PICK r, a : r = thread[t] /\ a = Answered(r, resp)
  OBVIOUS
<1>2. r \in ThreadRecord /\ thread' = [thread EXCEPT ![t] = a]
  BY <1>1, WalkFacts DEF WInv, Answer, Become, Answered
<1>3. /\ a.req = r.req /\ a.copied = r.copied /\ a.work = <<>> /\ a.pc = "answer"
      /\ a.from = r.from /\ a.to = r.to
  BY <1>1, <1>2 DEF ThreadRecord, Answered
<1> QED
  BY <1>1, <1>2, <1>3, PlainGoes DEF Early

LEMMA GoGoes ==
    ASSUME WInv, NEW t \in Threads, NEW pc, Go(t, pc), pc # "copy",
           pc \in Early => thread[t].pc \in Early,
           pc \in {"waits", "rows", "done"} \/ ~ thread[t].copied,
           tree' = tree, data' = data, writers' = writers, disturbed' = disturbed
    PROVE  Goes(t)
<1>1. PICK r, a : r = thread[t] /\ a = [r EXCEPT !.pc = pc]
  OBVIOUS
<1>2. r \in ThreadRecord /\ thread' = [thread EXCEPT ![t] = a]
  BY <1>1, WalkFacts DEF WInv, Go, Become
<1>3. /\ a.req = r.req /\ a.copied = r.copied /\ a.work = r.work /\ a.pc = pc
      /\ a.from = r.from /\ a.to = r.to
  BY <1>1, <1>2 DEF ThreadRecord
<1>4. /\ a.pc # "copy" /\ (a.pc \in Early => r.pc \in Early)
      /\ r.copied => a.pc \in {"table", "waits", "rows", "answer", "done"}
  BY <1>1, <1>3
<1>5. thread' = [thread EXCEPT ![t] = a] /\ r = thread[t]
  BY <1>1, <1>2
<1> HIDE DEF Go, Become
<1> QED
  BY <1>3, <1>4, <1>5, PlainGoes

(* Nothing has been copied yet, or never will be. *)
LEMMA NotCopied ==
    ASSUME WInv, NEW t \in Threads,
           thread[t].pc \notin {"table", "waits", "rows", "answer", "done"}
    PROVE  ~ thread[t].copied
BY DEF WInv, Locals, Local

-----------------------------------------------------------------------------
LEMMA LookupSourceGoes ==
    ASSUME WInv, NEW t \in Threads, LookupSource(t)
    PROVE  Goes(t)
<1>1. PICK r : r = thread[t]
  OBVIOUS
<1>2. /\ tree' = tree /\ data' = data /\ writers' = writers /\ disturbed' = disturbed
      /\ r.pc = "source" /\ r \in ThreadRecord /\ ~ r.copied
  BY <1>1, NotCopied, WalkFacts DEF LookupSource, fsVars, At, WInv
<1>3. CASE cat[r.req.path] = NoServer
  BY <1>1, <1>2, <1>3, AnswerGoes DEF LookupSource
<1>4. CASE cat[r.req.path] # NoServer
  <2>1. PICK a : a = [r EXCEPT !.from = cat[r.req.path],
                               !.pc = IF r.req.op = "copy" THEN "target" ELSE "connect"]
    OBVIOUS
  <2>2. thread' = [thread EXCEPT ![t] = a]
    BY <1>1, <1>4, <2>1 DEF LookupSource, Become
  <2>3. /\ a.req = r.req /\ a.copied = r.copied /\ a.work = r.work
        /\ a.pc \in {"target", "connect"}
    BY <1>2, <2>1 DEF ThreadRecord
  <2> QED BY <1>1, <1>2, <2>2, <2>3, PlainGoes DEF Early
<1> QED
  BY <1>3, <1>4

LEMMA LookupTargetGoes ==
    ASSUME WInv, NEW t \in Threads, LookupTarget(t)
    PROVE  Goes(t)
<1>1. /\ tree' = tree /\ data' = data /\ writers' = writers /\ disturbed' = disturbed
      /\ thread[t].pc = "target" /\ ~ thread[t].copied
  BY NotCopied DEF LookupTarget, fsVars, At
<1> QED
  BY <1>1, AnswerGoes, GoGoes DEF LookupTarget, Early

LEMMA ServerGoes ==
    ASSUME WInv, NEW t \in Threads, At(t, "parent"), NEW s,
           Become(t, [thread[t] EXCEPT !.pc = "connect", !.to = s]),
           UNCHANGED << cat, fsVars, writers, disturbed >>
    PROVE  Goes(t)
<1>1. PICK r, a : r = thread[t] /\ a = [r EXCEPT !.pc = "connect", !.to = s]
  OBVIOUS
<1>2. /\ tree' = tree /\ data' = data /\ writers' = writers /\ disturbed' = disturbed
      /\ r.pc = "parent" /\ r \in ThreadRecord /\ ~ r.copied
      /\ thread' = [thread EXCEPT ![t] = a]
  BY <1>1, NotCopied, WalkFacts DEF fsVars, At, WInv, Become
<1>3. a.req = r.req /\ a.copied = r.copied /\ a.work = r.work /\ a.pc = "connect"
  BY <1>1, <1>2 DEF ThreadRecord
<1> QED
  BY <1>1, <1>2, <1>3, PlainGoes DEF Early

LEMMA LookupParentGoes ==
    ASSUME WInv, NEW t \in Threads, LookupParent(t)
    PROVE  Goes(t)
<1>1. At(t, "parent") /\ UNCHANGED << cat, fsVars, writers, disturbed >>
  BY DEF LookupParent
<1>2. tree' = tree /\ data' = data /\ writers' = writers /\ disturbed' = disturbed
  BY <1>1 DEF fsVars
<1>3. CASE Answer(t, NotFound)
  BY <1>2, <1>3, AnswerGoes
<1>4. CASE ~ Answer(t, NotFound)
  <2>1. \E s : Become(t, [thread[t] EXCEPT !.pc = "connect", !.to = s])
    BY <1>4 DEF LookupParent
  <2> QED BY <1>1, <2>1, ServerGoes
<1> QED
  BY <1>3, <1>4

LEMMA PickServerGoes ==
    ASSUME WInv, NEW t \in Threads, PickServer(t)
    PROVE  Goes(t)
<1>1. At(t, "parent") /\ UNCHANGED << cat, fsVars, writers, disturbed >>
  BY DEF PickServer
<1>2. \E s : Become(t, [thread[t] EXCEPT !.pc = "connect", !.to = s])
  BY DEF PickServer
<1> QED
  BY <1>1, <1>2, ServerGoes

LEMMA ConnectGoes ==
    ASSUME WInv, NEW t \in Threads, Connect(t)
    PROVE  Goes(t)
<1>1. /\ tree' = tree /\ data' = data /\ writers' = writers /\ disturbed' = disturbed
      /\ thread[t].pc = "connect" /\ ~ thread[t].copied
  BY NotCopied DEF Connect, fsVars, At
<1>2. PICK pc \in {"check", "primary"} : Go(t, pc)
  BY DEF Connect
<1> QED
  BY <1>1, <1>2, GoGoes DEF Early

LEMMA ConnectFailsGoes ==
    ASSUME WInv, NEW t \in Threads, ConnectFails(t)
    PROVE  Goes(t)
BY AnswerGoes DEF ConnectFails, fsVars

LEMMA SendAnswerGoes ==
    ASSUME WInv, NEW t \in Threads, SendAnswer(t)
    PROVE  Goes(t)
BY GoGoes DEF SendAnswer, fsVars, Early

LEMMA ReceiveTableGoes ==
    ASSUME WInv, NEW t \in Threads, ReceiveTable(t)
    PROVE  Goes(t)
<1>1. tree' = tree /\ data' = data /\ writers' = writers /\ disturbed' = disturbed
  BY DEF ReceiveTable, fsVars
<1>2. Go(t, "rows") \/ Answer(t, InternalError) \/ Go(t, "waits")
  BY DEF ReceiveTable, TableOutcomes
<1> QED
  BY <1>1, <1>2, AnswerGoes, GoGoes DEF Early

LEMMA AddRowGoes ==
    ASSUME WInv, NEW t \in Threads, AddRow(t)
    PROVE  Goes(t)
<1>1. PICK r, a : r = thread[t] /\ a = [r EXCEPT !.rows = Tail(@)]
  OBVIOUS
<1>2. /\ tree' = tree /\ data' = data /\ writers' = writers /\ disturbed' = disturbed
      /\ r.pc = "rows" /\ r \in ThreadRecord /\ thread' = [thread EXCEPT ![t] = a]
  BY <1>1, WalkFacts DEF AddRow, fsVars, At, WInv, Become
<1>3. /\ a.req = r.req /\ a.copied = r.copied /\ a.work = r.work /\ a.pc = r.pc
      /\ a.from = r.from /\ a.to = r.to
  BY <1>1, <1>2 DEF ThreadRecord
<1>4. a.pc = "rows" /\ a.pc # "copy" /\ a.pc \notin Early
  BY <1>2, <1>3 DEF Early
<1>5. r.copied => /\ a.from = r.from /\ a.to = r.to
                  /\ a.pc \in {"table", "waits", "rows", "answer", "done"}
  BY <1>3, <1>4
<1>6. r = thread[t] /\ thread' = [thread EXCEPT ![t] = a]
  BY <1>1, <1>2
<1> QED
  BY <1>2, <1>3, <1>4, <1>5, <1>6, PlainGoes

LEMMA RowsAddedGoes ==
    ASSUME WInv, NEW t \in Threads, RowsAdded(t)
    PROVE  Goes(t)
BY AnswerGoes DEF RowsAdded, fsVars

LEMMA AddCreatedGoes ==
    ASSUME WInv, NEW t \in Threads, AddCreated(t)
    PROVE  Goes(t)
BY AnswerGoes DEF AddCreated, fsVars

LEMMA ForgetGoes ==
    ASSUME WInv, NEW t \in Threads, Forget(t)
    PROVE  Goes(t)
BY AnswerGoes DEF Forget, fsVars

LEMMA CreateBackupGoes ==
    ASSUME WInv, NEW t \in Threads, CreateBackup(t)
    PROVE  Goes(t)
<1>1. /\ tree' = tree /\ data' = data /\ writers' = writers /\ disturbed' = disturbed
      /\ thread[t].pc = "backup" /\ ~ thread[t].copied
  BY NotCopied DEF CreateBackup, At
<1>2. Go(t, "add") \/ Answer(t, InternalError)
  BY DEF CreateBackup
<1> QED
  BY <1>1, <1>2, AnswerGoes, GoGoes DEF Early

LEMMA DeleteBackupGoes ==
    ASSUME WInv, NEW t \in Threads, DeleteBackup(t)
    PROVE  Goes(t)
<1>1. /\ tree' = tree /\ data' = data /\ writers' = writers /\ disturbed' = disturbed
      /\ thread[t].pc = "backup" /\ ~ thread[t].copied
  BY NotCopied DEF DeleteBackup, At
<1>2. Go(t, "forget") \/ Answer(t, InternalError)
  BY DEF DeleteBackup
<1> QED
  BY <1>1, <1>2, AnswerGoes, GoGoes DEF Early

-----------------------------------------------------------------------------
(* The entries at work, one by one. *)
LEMMA LocalTop ==
    ASSUME NEW r \in ThreadRecord, r.work # <<>>, r.pc = "copy", Local(r),
           NEW g \in FrameRecord, g.src = r.work[1].src, PlaceOK(r, g),
           NEW a, a = WithTop(r, g)
    PROVE  Local(a) /\ ~ a.copied /\ a.pc = "copy" /\ a.from = r.from /\ a.to = r.to
           /\ a.req = r.req
<1>1. /\ a.req = r.req /\ a.from = r.from /\ a.to = r.to /\ a.pc = r.pc
      /\ a.copied = r.copied /\ Len(a.work) = Len(r.work)
      /\ \A k \in 1 .. Len(r.work) : a.work[k] = IF k = 1 THEN g ELSE r.work[k]
  BY WithTopFields
<1>2. ~ r.copied
  BY DEF Local
<1>3. \A f : PlaceOK(a, f) = PlaceOK(r, f)
  BY <1>1, SameRequest
<1>4. \A k \in 1 .. Len(a.work) : PlaceOK(a, a.work[k])
  BY <1>1, <1>3 DEF Local
<1>5. ASSUME NEW k \in 1 .. Len(a.work), NEW j \in 1 .. k - 1
      PROVE  \E c \in a.work[k].seen : IsPrefix(c, a.work[j].src)
  <2>1. PICK n : n = Len(r.work)
    OBVIOUS
  <2>2. n \in Nat
    BY <2>1 DEF ThreadRecord
  <2>3. k \in 1 .. n /\ k # 1 /\ j \in 1 .. n
    BY <1>1, <2>1, <2>2
  <2>4. a.work[k] = r.work[k] /\ a.work[j].src = r.work[j].src
    BY <1>1, <2>1, <2>3
  <2>5. \E c \in r.work[k].seen : IsPrefix(c, r.work[j].src)
    BY <2>1, <2>3 DEF Local
  <2> QED BY <2>4, <2>5
<1> QED
  BY <1>1, <1>2, <1>4, <1>5 DEF Local

LEMMA LocalPop ==
    ASSUME NEW r \in ThreadRecord, r.work # <<>>, r.pc = "copy", Local(r),
           r.req \in Requests, r.req.op = "copy", r.from \in SS, r.to \in SS,
           NEW b, b.req = r.req, b.from = r.from, b.to = r.to, Gone1(r, b),
           IF Len(r.work) > 1 THEN TRUE ELSE b.pc = "table"
    PROVE  Local(b)
<1>1. PICK n, m : n = Len(r.work) /\ m = Len(b.work)
  OBVIOUS
<1>2. n \in Nat \ {0} /\ r.work \in Seq(FrameRecord) /\ ~ r.copied
  BY <1>1 DEF ThreadRecord, Local
<1>3. \A f : PlaceOK(b, f) = PlaceOK(r, f)
  BY SameRequest
<1>4. CASE n > 1
  <2>1. b.work = Tail(r.work) /\ b.pc = "copy" /\ ~ b.copied
    BY <1>1, <1>2, <1>4 DEF Gone1
  <2>2. Len(Tail(r.work)) = n - 1 /\ \A k \in 1 .. n - 1 : Tail(r.work)[k] = r.work[k + 1]
    BY <1>1, <1>2
  <2>3. m = n - 1 /\ \A k \in 1 .. m : b.work[k] = r.work[k + 1]
    BY <1>1, <2>1, <2>2
  <2>4. \A k \in 1 .. m : k + 1 \in 1 .. n
    BY <1>2, <2>3
  <2>5. \A k \in 1 .. m : PlaceOK(b, b.work[k])
    BY <1>1, <1>3, <2>3, <2>4 DEF Local
  <2>6. ASSUME NEW k \in 1 .. m, NEW j \in 1 .. k - 1
        PROVE  \E c \in b.work[k].seen : IsPrefix(c, b.work[j].src)
    <3>1. k + 1 \in 1 .. n /\ j + 1 \in 1 .. (k + 1) - 1 /\ j \in 1 .. m
      BY <1>2, <2>3
    <3>2. \E c \in r.work[k + 1].seen : IsPrefix(c, r.work[j + 1].src)
      BY <1>1, <3>1 DEF Local
    <3> QED BY <2>3, <3>1, <3>2
  <2> QED BY <1>1, <2>1, <2>5, <2>6 DEF Local
<1>5. CASE ~ (n > 1)
  <2>1. b.work = <<>> /\ b.pc = "table"
    BY <1>1, <1>5 DEF Gone1
  <2>2. Len(<<>>) = 0
    OBVIOUS
  <2>3. 1 .. Len(b.work) = {}
    BY <2>1, <2>2
  <2> QED BY <2>1, <2>3 DEF Local
<1> QED
  BY <1>4, <1>5

LEMMA LocalPush ==
    ASSUME NEW r \in ThreadRecord, r.work # <<>>, r.pc = "copy", Local(r),
           NEW f, f = r.work[1], f \in FrameRecord, NEW c \in Path, Front(c) = f.src,
           NEW g \in FrameRecord, g.src = c, PlaceOK(r, g),
           NEW h \in FrameRecord, h = [f EXCEPT !.seen = @ \cup {c}], PlaceOK(r, h),
           NEW a, a = Pushed(r, g, h)
    PROVE  Local(a) /\ ~ a.copied /\ a.pc = "copy" /\ a.from = r.from /\ a.to = r.to
           /\ a.req = r.req
<1>0. PICK n : n = Len(r.work)
  OBVIOUS
<1>1. /\ a.req = r.req /\ a.from = r.from /\ a.to = r.to /\ a.pc = r.pc /\ a.copied = r.copied
      /\ n \in Nat \ {0} /\ Len(a.work) = n + 1 /\ a.work[1] = g /\ a.work[2] = h
      /\ \A k \in 2 .. n : a.work[k + 1] = r.work[k]
  <2>1. a.req = r.req /\ a.from = r.from /\ a.to = r.to /\ a.pc = r.pc /\ a.copied = r.copied
    BY PushedFields
  <2>2. n \in Nat \ {0} /\ Len(a.work) = n + 1
    BY <1>0, PushedFields
  <2>3. a.work[1] = g /\ a.work[2] = h
    BY PushedFields
  <2>4. \A k \in 2 .. n : a.work[k + 1] = r.work[k]
    BY <1>0, PushedFields
  <2> QED BY <2>1, <2>2, <2>3, <2>4
<1>1a. n \in Nat \ {0}
  BY <1>1
<1>2. ~ r.copied
  BY DEF Local
<1>3. \A x : PlaceOK(a, x) = PlaceOK(r, x)
  BY <1>1, SameRequest
<1>4. h.src = f.src /\ c \in h.seen /\ f.src \in Path
  <2>1. PlaceOK(r, f)
    <3>1. 1 \in 1 .. n
      BY <1>1
    <3> QED BY <1>0, <3>1 DEF Local
  <2> QED BY <2>1 DEF FrameRecord, PlaceOK
<1>5. \A k \in 1 .. n + 1 : k = 1 \/ k = 2 \/ (k - 1 \in 2 .. n /\ (k - 1) + 1 = k)
  BY <1>1a
<1>6. ASSUME NEW k \in 1 .. n + 1 PROVE PlaceOK(a, a.work[k])
  <2>1. CASE k = 1
    BY <1>1, <1>3, <2>1
  <2>2. CASE k = 2
    BY <1>1, <1>3, <2>2
  <2>3. CASE k # 1 /\ k # 2
    <3>1. PICK j : j = k - 1
      OBVIOUS
    <3>2. j \in 2 .. n /\ j + 1 = k
      BY <1>5, <2>3, <3>1
    <3>3. j \in 1 .. n /\ a.work[k] = r.work[j]
      <4>1. j \in 1 .. n
        BY <1>1a, <3>2
      <4>2. a.work[j + 1] = r.work[j]
        BY <1>1, <3>2
      <4> QED BY <3>2, <4>1, <4>2
    <3>4. PlaceOK(r, r.work[j])
      BY <1>0, <3>3 DEF Local
    <3> QED BY <1>3, <3>3, <3>4
  <2> QED BY <2>1, <2>2, <2>3
<1>7. IsPrefix(c, c) /\ IsPrefix(f.src, c)
      /\ \A b \in Path : IsPrefix(b, f.src) => IsPrefix(b, c)
  <2>1. /\ c \in Seq(STRING) /\ f.src \in Seq(STRING) /\ IsPrefix(f.src, c)
        /\ \A b \in Path : b \in Seq(STRING)
    BY <1>4, PathFacts, ChildFacts
  <2> QED BY <2>1, PrefixOrder
<1>8. ASSUME NEW k \in 1 .. n + 1, NEW j \in 1 .. k - 1
      PROVE  \E b \in a.work[k].seen : IsPrefix(b, a.work[j].src)
  <2>1. CASE k = 1
    BY <1>1, <2>1
  <2>2. CASE k = 2
    <3>1. j = 1
      BY <2>2
    <3> QED BY <1>1, <1>4, <1>7, <2>2, <3>1
  <2>3. CASE k # 1 /\ k # 2
    <3>1. PICK i : i = k - 1
      OBVIOUS
    <3>2. i \in 2 .. n /\ i + 1 = k /\ i \in 1 .. n /\ 1 \in 1 .. i - 1
      <4>1. i \in 2 .. n /\ i + 1 = k
        BY <1>5, <2>3, <3>1
      <4>2. i \in 1 .. n /\ 1 \in 1 .. i - 1
        BY <1>1a, <4>1
      <4> QED BY <4>1, <4>2
    <3>3. a.work[k] = r.work[i] /\ r.work[i] \in FrameRecord
      <4>1. a.work[i + 1] = r.work[i]
        BY <1>1, <3>2
      <4>2. r.work[i] \in FrameRecord
        BY <1>0, <3>2 DEF ThreadRecord
      <4> QED BY <3>2, <4>1, <4>2
    <3>4. \A l \in 1 .. i - 1 : \E b \in r.work[i].seen : IsPrefix(b, r.work[l].src)
      BY <1>0, <3>2 DEF Local
    <3>5. CASE j = 1
      <4>1. PICK b \in r.work[i].seen : IsPrefix(b, f.src)
        BY <3>2, <3>4
      <4>2. b \in Path
        BY <3>3 DEF FrameRecord
      <4> QED BY <1>1, <1>7, <3>3, <3>5, <4>1, <4>2
    <3>6. CASE j = 2
      <4>1. \E b \in r.work[i].seen : IsPrefix(b, f.src)
        BY <3>2, <3>4
      <4> QED BY <1>1, <1>4, <3>3, <3>6, <4>1
    <3>7. CASE j # 1 /\ j # 2
      <4>1. PICK l : l = j - 1
        OBVIOUS
      <4>2. l \in 2 .. n /\ l + 1 = j /\ l \in 1 .. i - 1
        <5>1. i \in Nat /\ i \in 2 .. n /\ j \in 1 .. i
          BY <1>1a, <3>1, <3>2
        <5>2. j \in 3 .. i
          BY <5>1, <3>7
        <5>3. l + 1 = j /\ l \in 1 .. i - 1 /\ l \in 2 .. n
          BY <1>1a, <5>1, <5>2, <4>1
        <5> QED BY <5>3
      <4>3. a.work[j] = r.work[l]
        <5>1. a.work[l + 1] = r.work[l]
          BY <1>1, <4>2
        <5> QED BY <4>2, <5>1
      <4>4. \E b \in r.work[i].seen : IsPrefix(b, r.work[l].src)
        BY <3>4, <4>2
      <4> QED BY <3>3, <4>3, <4>4
    <3> QED BY <3>5, <3>6, <3>7
  <2> QED BY <2>1, <2>2, <2>3
<1> QED
  BY <1>1, <1>2, <1>6, <1>8 DEF Local

-----------------------------------------------------------------------------
(* What is made: i is now at p of s, an empty file or a folder. *)
NewAt(s, p, i, folder) ==
    /\ p \in Path /\ CanCreate(tree[s], p, folder)
    /\ IF folder THEN i = Folder ELSE i > Folder
    /\ tree'[s][p] = i
    /\ \A u \in SS, q \in Path : u # s \/ q # p => tree'[u][q] = tree[u][q]
    /\ \A u \in SS \ {s} : tree'[u] = tree[u]
    /\ i > Folder => data'[i] = <<>> /\ (i \in DOMAIN data => tree[s][p] = i)
    /\ \A j \in DOMAIN data : j # i => data'[j] = data[j]

LEMMA InodeFacts ==
    ASSUME IInv
    PROVE  /\ tree \in [SS -> [Path -> {None, Folder} \cup DOMAIN data]]
           /\ data \in Seq(Seq(Chunk)) /\ Len(data) \in Nat /\ DOMAIN data = 1 .. Len(data)
           /\ \A j \in DOMAIN data : j > Folder
           /\ \A s \in SS, p \in Path : tree[s][p] > Folder <=> tree[s][p] \in DOMAIN data
           /\ \A w \in writers : /\ w.by \in Threads /\ w.path \in Path
                                 /\ w.ino \in DOMAIN data /\ w.ino > Folder
<1>1. /\ tree \in [SS -> [Path -> {None, Folder} \cup DOMAIN data]]
      /\ data \in Seq(Seq(Chunk)) /\ writers \subseteq WriterRecord
  BY DEF IInv, TypeOK
<1>2. Len(data) \in Nat /\ DOMAIN data = 1 .. Len(data)
  BY <1>1
<1>3. \A j \in DOMAIN data : j > Folder
  BY <1>2 DEF Folder
<1>4. ~ (None > Folder) /\ ~ (Folder > Folder)
  BY DEF None, Folder
<1>5. \A s \in SS, p \in Path : tree[s][p] > Folder <=> tree[s][p] \in DOMAIN data
  <2> SUFFICES ASSUME NEW s \in SS, NEW p \in Path
               PROVE  tree[s][p] > Folder <=> tree[s][p] \in DOMAIN data
    OBVIOUS
  <2>1. tree[s][p] \in {None, Folder} \cup DOMAIN data
    BY <1>1
  <2> QED BY <1>3, <1>4, <2>1
<1>6. \A w \in writers : w.by \in Threads /\ w.path \in Path /\ w.ino \in DOMAIN data
  BY <1>1 DEF WriterRecord
<1> QED
  BY <1>1, <1>2, <1>3, <1>5, <1>6

LEMMA NewAtHolds ==
    ASSUME IInv, NEW s \in SS, NEW p, NEW folder, CanCreate(tree[s], p, folder),
           Create(s, p, folder), NEW i, i = IF folder THEN Folder ELSE Inode(s, p)
    PROVE  NewAt(s, p, i, folder)
<1>1. /\ tree \in [SS -> [Path -> {None, Folder} \cup DOMAIN data]]
      /\ data \in Seq(Seq(Chunk)) /\ Len(data) \in Nat /\ DOMAIN data = 1 .. Len(data)
      /\ \A j \in DOMAIN data : j > Folder
      /\ p \in Path
  BY InodeFacts DEF CanCreate
<1>2. CASE folder
  <2>1. tree' = [tree EXCEPT ![s][p] = Folder] /\ data' = data /\ i = Folder
    BY <1>2 DEF Create
  <2>2. ~ (Folder > Folder)
    BY DEF Folder
  <2>3. /\ tree'[s][p] = i
        /\ \A u \in SS, q \in Path : u # s \/ q # p => tree'[u][q] = tree[u][q]
        /\ \A u \in SS \ {s} : tree'[u] = tree[u]
    BY <1>1, <2>1
  <2> QED BY <1>1, <1>2, <2>1, <2>2, <2>3 DEF NewAt
<1>3. CASE ~ folder
  <2>1. tree' = [tree EXCEPT ![s][p] = i]
    BY <1>3 DEF Create, Truncate
  <2>2. /\ tree'[s][p] = i
        /\ \A u \in SS, q \in Path : u # s \/ q # p => tree'[u][q] = tree[u][q]
        /\ \A u \in SS \ {s} : tree'[u] = tree[u]
    BY <1>1, <2>1
  <2>3. CASE Exists(s, p)
    <3>1. i = tree[s][p] /\ data' = [data EXCEPT ![i] = <<>>]
      BY <1>3, <2>3 DEF Create, Truncate, Inode
    <3>2. i \in DOMAIN data
      BY <1>1, <1>3, <2>3, <3>1 DEF CanCreate, Exists
    <3>3. data'[i] = <<>> /\ \A j \in DOMAIN data : j # i => data'[j] = data[j]
      BY <3>1, <3>2
    <3> QED BY <1>1, <1>3, <2>2, <3>1, <3>2, <3>3 DEF NewAt
  <2>4. CASE ~ Exists(s, p)
    <3>1. i = Len(data) + 1 /\ data' = Append(data, <<>>)
      BY <1>3, <2>4 DEF Create, Truncate, Inode
    <3>2. i \notin DOMAIN data /\ i > Folder
      BY <1>1, <3>1 DEF Folder
    <3>3. <<>> \in Seq(Chunk)
      OBVIOUS
    <3>4. data'[i] = <<>> /\ \A j \in DOMAIN data : data'[j] = data[j]
      BY <1>1, <3>1, <3>3, AppendProperties
    <3> QED BY <1>1, <1>3, <2>2, <3>2, <3>4 DEF NewAt
  <2> QED BY <2>3, <2>4
<1> QED
  BY <1>2, <1>3

LEMMA NewKeepsFiles ==
    ASSUME WInv, NEW s \in SS, NEW p, NEW i, NEW folder, NewAt(s, p, i, folder)
    PROVE  /\ OneFile'
           /\ \A w \in writers : \A u \in SS, q \in Path : tree'[u][q] = w.ino => q = w.path
<1>1. IInv /\ OneFile /\ StreamPlaces /\ p \in Path
  BY DEF WInv, TInv, NewAt
<1>2. \A u \in SS, q \in Path : tree[u][q] > Folder <=> tree[u][q] \in DOMAIN data
  BY <1>1, InodeFacts
<1>3. /\ tree'[s][p] = i
      /\ \A u \in SS, q \in Path : u # s \/ q # p => tree'[u][q] = tree[u][q]
      /\ i > Folder /\ i \in DOMAIN data => tree[s][p] = i
  BY DEF NewAt
<1>4. ASSUME NEW u \in SS, NEW q \in Path, u # s \/ q # p, tree'[u][q] > Folder
      PROVE  tree'[u][q] # i
  <2> SUFFICES ASSUME tree'[u][q] = i PROVE FALSE
    OBVIOUS
  <2>1. tree[u][q] = i /\ i > Folder
    BY <1>3, <1>4
  <2>2. tree[s][p] = i
    BY <1>2, <1>3, <2>1
  <2> QED BY <1>1, <1>4, <2>1, <2>2 DEF OneFile
<1>5. OneFile'
  <2> SUFFICES ASSUME NEW u \in SS, NEW v \in SS, NEW a \in Path, NEW b \in Path,
                      tree'[u][a] > Folder, tree'[u][a] = tree'[v][b]
               PROVE  u = v /\ a = b
    BY DEF OneFile
  <2>1. CASE u = s /\ a = p
    BY <1>3, <1>4, <2>1
  <2>2. CASE v = s /\ b = p
    BY <1>3, <1>4, <2>2
  <2>3. CASE (u # s \/ a # p) /\ (v # s \/ b # p)
    <3>1. tree[u][a] > Folder /\ tree[u][a] = tree[v][b]
      BY <1>3, <2>3
    <3> QED BY <1>1, <3>1 DEF OneFile
  <2> QED BY <2>1, <2>2, <2>3
<1>6. ASSUME NEW w \in writers, NEW u \in SS, NEW q \in Path, tree'[u][q] = w.ino
      PROVE  q = w.path
  <2>1. w.ino \in DOMAIN data /\ w.ino > Folder
    BY <1>1, InodeFacts
  <2>2. CASE u = s /\ q = p
    <3>1. tree[s][p] = w.ino
      BY <1>3, <1>6, <2>1, <2>2
    <3> QED BY <1>1, <2>2, <3>1 DEF StreamPlaces
  <2>3. CASE u # s \/ q # p
    <3>1. tree[u][q] = w.ino
      BY <1>3, <1>6, <2>3
    <3> QED BY <1>1, <3>1 DEF StreamPlaces
  <2> QED BY <2>2, <2>3
<1> QED
  BY <1>5, <1>6

LEMMA NewDisks ==
    ASSUME WInv, NEW t \in Threads, NEW s \in SS, NEW p, NEW i, NEW folder,
           NewAt(s, p, i, folder), Under(t, p),
           \A u \in Threads \ {t} : Own(u)' = Own(u)
    PROVE  Disks(t)
<1>1. IInv /\ OneFile /\ p \in Path
  BY DEF WInv, TInv, NewAt
<1>2. \A u \in SS, q \in Path : tree[u][q] > Folder <=> tree[u][q] \in DOMAIN data
  BY <1>1, InodeFacts
<1>3. /\ \A u \in SS, q \in Path : u # s \/ q # p => tree'[u][q] = tree[u][q]
      /\ i > Folder /\ i \in DOMAIN data => tree[s][p] = i
      /\ \A j \in DOMAIN data : j # i => data'[j] = data[j]
  BY DEF NewAt
<1>4. \A u \in SS, q \in Path : ~ Under(t, q) => tree'[u][q] = tree[u][q]
  BY <1>3
<1>5. ASSUME NEW u \in SS, NEW q \in Path, ~ Under(t, q), tree[u][q] > Folder
      PROVE  data'[tree[u][q]] = data[tree[u][q]]
  <2>1. tree[u][q] \in DOMAIN data /\ q # p
    BY <1>2, <1>5
  <2>2. tree[u][q] # i
    <3> SUFFICES ASSUME tree[u][q] = i PROVE FALSE
      OBVIOUS
    <3>1. tree[s][p] = i
      BY <1>3, <1>5, <2>1
    <3> QED BY <1>1, <1>5, <2>1, <3>1 DEF OneFile
  <2> QED BY <1>3, <2>1, <2>2
<1> QED
  BY <1>4, <1>5 DEF Disks

-----------------------------------------------------------------------------
(* CREATE and DELETE of the naming server on the primary tree. *)
LEMMA OtherGoes ==
    ASSUME WInv, NEW t \in Threads, ~ Is(t, "copy"), NEW r, r = thread[t], NEW r2,
           thread' = [thread EXCEPT ![t] = r2], r2.req = r.req, r2.copied = r.copied,
           r2.work = <<>>, writers' = writers, Disks(t), OneFile',
           \A w \in writers : \A s \in SS, p \in Path : tree'[s][p] = w.ino => p = w.path
    PROVE  Goes(t)
<1>1. DOMAIN thread = Threads /\ \A w \in writers : w.by \in Threads
  BY WalkFacts, InodeFacts DEF WInv, TInv
<1>2. thread'[t] = r2 /\ \A u \in Threads \ {t} : thread'[u] = thread[u]
  BY <1>1
<1>3. ~ r2.copied
  BY DEF WInv, Locals, Local, Is
<1>4. Len(<<>>) = 0
  OBVIOUS
<1>5. 1 .. Len(r2.work) = {}
  BY <1>4
<1>6. Local(r2)
  BY <1>3, <1>5 DEF Local
<1>7. ~ Calm(t)'
  BY <1>2 DEF Calm, Is
<1>8. StreamPlaces'
  <2> SUFFICES ASSUME NEW w \in writers
               PROVE  /\ Is(w.by, "copy")' /\ thread'[w.by].pc \notin Early
                      /\ IsPrefix(thread'[w.by].req.dest, w.path)
                      /\ \A s \in SS, p \in Path : tree'[s][p] = w.ino => p = w.path
    BY DEF StreamPlaces
  <2>1. /\ Is(w.by, "copy") /\ thread[w.by].pc \notin Early
        /\ IsPrefix(thread[w.by].req.dest, w.path)
    BY DEF WInv, StreamPlaces
  <2>2. thread'[w.by] = thread[w.by]
    BY <1>1, <1>2, <2>1
  <2> QED BY <2>1, <2>2 DEF Is
<1> QED
  BY <1>2, <1>6, <1>7, <1>8 DEF Goes

LEMMA PrimaryFacts ==
    ASSUME WInv, NEW t \in Threads, At(t, "primary"), NEW r, r = thread[t]
    PROVE  /\ r \in ThreadRecord /\ ~ Is(t, "copy") /\ r.req \in Requests /\ r.req.path \in Path
           /\ r.req.op # "delete" => r.to \in SS
           /\ r.req.op = "delete" => r.from \in SS
           /\ Paths(r.req) = {r.req.path} /\ Under(t, r.req.path) /\ r.work = <<>>
<1>1. r \in ThreadRecord /\ PcOK(r) /\ WalkOK(r)
  BY WalkFacts DEF WInv
<1>2. /\ ~ Is(t, "copy") /\ r.req \in Requests
      /\ r.req.op # "delete" => r.to \in SS
      /\ r.req.op = "delete" => r.from \in SS
  BY <1>1 DEF At, PcOK, Is
<1>3. r.req.path \in Path
  BY <1>2, RequestFacts
<1>4. Paths(r.req) = {r.req.path}
  BY <1>2 DEF Paths, Is
<1>5. IsPrefix(r.req.path, r.req.path)
  BY <1>3, PathFacts, PrefixOrder
<1>6. r.work = <<>>
  BY <1>1 DEF WalkOK, At
<1> QED
  BY <1>1, <1>2, <1>3, <1>4, <1>5, <1>6 DEF Under

LEMMA CreatePrimaryGoes ==
    ASSUME WInv, NEW t \in Threads, CreatePrimary(t)
    PROVE  Goes(t)
<1>1. PICK r, p, folder : r = thread[t] /\ p = r.req.path /\ folder = (r.req.op = "mkdir")
  OBVIOUS
<1>2. At(t, "primary") /\ r.req.op # "delete" /\ writers' = writers /\ disturbed' = disturbed
  BY <1>1 DEF CreatePrimary
<1>3. r \in ThreadRecord /\ ~ Is(t, "copy") /\ r.to \in SS /\ Under(t, p) /\ r.work = <<>>
  BY <1>1, <1>2, PrimaryFacts
<1>4. CASE CanCreate(tree[r.to], p, folder)
  <2>1. PICK r2 : r2 = Moved(r, "backup")
    OBVIOUS
  <2>2. Create(r.to, p, folder) /\ thread' = [thread EXCEPT ![t] = r2]
    BY <1>1, <1>4, <2>1 DEF CreatePrimary, Go, Become, Moved
  <2>3. r2.work = <<>> /\ r2.req = r.req /\ r2.copied = r.copied
    BY <1>3, <2>1 DEF ThreadRecord, Moved
  <2>4. PICK i : i = IF folder THEN Folder ELSE Inode(r.to, p)
    OBVIOUS
  <2>5. NewAt(r.to, p, i, folder)
    BY <1>3, <1>4, <2>2, <2>4, NewAtHolds DEF WInv, TInv
  <2>6. \A u \in Threads : Own(u)' = Own(u)
    BY <1>2 DEF Own
  <2>7. Disks(t)
    BY <1>3, <2>5, <2>6, NewDisks
  <2>8. /\ OneFile'
        /\ \A w \in writers : \A u \in SS, q \in Path : tree'[u][q] = w.ino => q = w.path
    BY <1>3, <2>5, NewKeepsFiles
  <2> QED BY <1>1, <1>2, <1>3, <2>2, <2>3, <2>7, <2>8, OtherGoes
<1>5. CASE ~ CanCreate(tree[r.to], p, folder)
  BY <1>1, <1>2, <1>5, AnswerGoes DEF CreatePrimary
<1> QED
  BY <1>4, <1>5

LEMMA DeleteDisks ==
    ASSUME WInv, NEW t \in Threads, DeletePrimary(t), writers' = writers
    PROVE  /\ Disks(t) /\ OneFile'
           /\ \A w \in writers : \A s \in SS, p \in Path : tree'[s][p] = w.ino => p = w.path
<1>0. PICK r, s, p : r = thread[t] /\ s = r.from /\ p = r.req.path
  OBVIOUS
<1>1. PICK gone \in SUBSET Below(s, p) :
         /\ r = thread[t] /\ p = r.req.path
         /\ tree' = [tree EXCEPT ![s] = Without(@, gone)]
         /\ data' = [i \in DOMAIN data |->
                        IF \E q \in gone : tree[s][q] = i THEN <<>> ELSE data[i]]
  <2>1. PICK gone \in SUBSET Below(thread[t].from, thread[t].req.path) :
           /\ tree' = [tree EXCEPT ![thread[t].from] = Without(@, gone)]
           /\ data' = [i \in DOMAIN data |->
                          IF \E q \in gone : tree[thread[t].from][q] = i THEN <<>>
                          ELSE data[i]]
    BY Zenon DEF DeletePrimary
  <2>2. s = thread[t].from /\ p = thread[t].req.path
    BY <1>0
  <2>3. tree' = [tree EXCEPT ![s] = Without(@, gone)] /\ gone \in SUBSET Below(s, p)
    BY <2>1, <2>2
  <2>4. data' = [i \in DOMAIN data |->
                    IF \E q \in gone : tree[s][q] = i THEN <<>> ELSE data[i]]
    BY <2>1, <2>2
  <2> QED BY <1>0, <2>3, <2>4, Zenon
<1>2. At(t, "primary") /\ r.req.op = "delete"
  BY <1>1 DEF DeletePrimary
<1>3. s \in SS /\ p \in Path /\ Paths(r.req) = {p}
  BY <1>0, <1>2, PrimaryFacts
<1>5. /\ tree \in [SS -> [Path -> {None, Folder} \cup DOMAIN data]]
      /\ \A u \in SS, q \in Path : tree[u][q] > Folder <=> tree[u][q] \in DOMAIN data
      /\ \A w \in writers : w.ino > Folder
  BY InodeFacts DEF WInv, TInv
<1>6. \A u \in SS, q \in Path : tree'[u][q] = IF u = s /\ q \in gone THEN None ELSE tree[u][q]
  BY <1>3, <1>1, <1>5 DEF Without
<1>7. \A q \in gone : Under(t, q) /\ q \in Path
  BY <1>1, <1>3 DEF Under, Below
<1>8. OneFile /\ StreamPlaces
  BY DEF WInv
<1>9. ASSUME NEW u \in SS, NEW q \in Path, ~ Under(t, q), tree[u][q] > Folder
      PROVE  data'[tree[u][q]] = data[tree[u][q]]
  <2>1. tree[u][q] \in DOMAIN data
    BY <1>5, <1>9
  <2>2. \A g \in gone : tree[s][g] # tree[u][q]
    BY <1>3, <1>7, <1>8, <1>9 DEF OneFile
  <2> QED BY <1>1, <2>1, <2>2
<1>10. \A u \in Threads : Own(u)' = Own(u)
  BY DEF Own
<1>11. Disks(t)
  BY <1>6, <1>7, <1>9, <1>10 DEF Disks
<1>12. \A u \in SS, q \in Path : tree'[u][q] > Folder => tree'[u][q] = tree[u][q]
  BY <1>6, ServerFacts
<1>13. OneFile'
  BY <1>8, <1>12 DEF OneFile
<1>14. \A w \in writers : \A u \in SS, q \in Path : tree'[u][q] = w.ino => q = w.path
  BY <1>5, <1>8, <1>12 DEF StreamPlaces
<1> QED
  BY <1>11, <1>13, <1>14

LEMMA DeletePrimaryGoes ==
    ASSUME WInv, NEW t \in Threads, DeletePrimary(t)
    PROVE  Goes(t)
<1>1. PICK r : r = thread[t]
  OBVIOUS
<1>2. /\ At(t, "primary") /\ writers' = writers
      /\ Go(t, "backup") \/ Answer(t, InternalError)
  BY DEF DeletePrimary
<1>3. r \in ThreadRecord /\ ~ Is(t, "copy") /\ r.work = <<>>
  BY <1>1, <1>2, PrimaryFacts
<1>4. PICK r2 : /\ thread' = [thread EXCEPT ![t] = r2]
                /\ r2 = Moved(r, "backup") \/ r2 = Answered(r, InternalError)
  BY <1>1, <1>2 DEF Go, Answer, Become, Moved, Answered
<1>5. r2.work = <<>> /\ r2.req = r.req /\ r2.copied = r.copied
  BY <1>3, <1>4 DEF ThreadRecord, Moved, Answered
<1>6. /\ Disks(t) /\ OneFile'
      /\ \A w \in writers : \A s \in SS, p \in Path : tree'[s][p] = w.ino => p = w.path
  BY <1>2, DeleteDisks
<1> QED
  BY <1>1, <1>2, <1>3, <1>4, <1>5, <1>6, OtherGoes

-----------------------------------------------------------------------------
(* The steps of copy_ that change no disk and no WRITE handler. *)
LEMMA CalmHere ==
    ASSUME WInv, NEW t \in Threads, Calm(t), NEW r, r = thread[t],
           NEW S, S = tree[r.from], NEW D, D = tree[r.to], NEW W, W = Own(t)
    PROVE  Setting(r, S, D, data, W) /\ CalmOK(r, S, D, data, W)
BY SettingHolds DEF WInv, Calms

LEMMA CheckSourceGoes ==
    ASSUME WInv, NEW t \in Threads, CheckSource(t)
    PROVE  Goes(t)
<1>1. PICK r : r = thread[t]
  OBVIOUS
<1>2. /\ tree' = tree /\ data' = data /\ writers' = writers /\ disturbed' = disturbed
      /\ r.pc = "check" /\ r \in ThreadRecord /\ PcOK(r) /\ ~ r.copied
  BY <1>1, NotCopied, WalkFacts DEF CheckSource, fsVars, At, WInv
<1>3. CASE ~ Exists(r.from, r.req.path)
  BY <1>1, <1>2, <1>3, AnswerGoes DEF CheckSource
<1>4. CASE Exists(r.from, r.req.path)
  <2>1. PICK g, a : /\ g = Frame(r.req.path, r.req.dest)
                    /\ a = [r EXCEPT !.pc = "copy", !.work = << g >>]
    OBVIOUS
  <2>2. thread' = [thread EXCEPT ![t] = a]
    BY <1>1, <1>4, <2>1 DEF CheckSource, Become
  <2>3. /\ a.req = r.req /\ a.pc = "copy" /\ a.work = << g >> /\ a.from = r.from
        /\ a.to = r.to /\ a.copied = r.copied
    BY <1>2, <2>1 DEF ThreadRecord
  <2>4. /\ r.req \in Requests /\ r.req.op = "copy"
        /\ r.req.path \in Path /\ r.req.dest \in Path /\ r.req.dest # r.req.path
    BY <1>2, CopyingAssumption DEF PcOK
  <2>5. /\ g.act = "stat" /\ g.src = r.req.path /\ g.dst = r.req.dest
        /\ g.listed = {} /\ g.seen = {} /\ g.pos = 0
    BY <2>1 DEF Frame
  <2>6. Len(<< g >>) = 1 /\ << g >>[1] = g
    OBVIOUS
  <2>7. Len(a.work) = 1 /\ \A k \in 1 .. Len(a.work) : k = 1 /\ a.work[k] = g
    BY <2>3, <2>6
  <2>8. r.req.path \in Seq(STRING) /\ r.req.dest \in Seq(STRING)
    BY <2>4, PathFacts
  <2>9. PlaceOK(a, g)
    <3>1. Image(r, r.req.path) = r.req.dest /\ Image(a, r.req.path) = Image(r, r.req.path)
      BY <2>3, <2>4, ImageFacts, SameRequest
    <3>2. IsPrefix(r.req.path, r.req.path)
      BY <2>8, PrefixOrder
    <3>3. ~ InCopy(a, r.req.path)
      BY <2>3, <2>4, <2>8, PrefixOrder DEF InCopy
    <3> QED BY <2>3, <2>4, <2>5, <3>1, <3>2, <3>3 DEF PlaceOK
  <2>10. \A k \in 1 .. Len(a.work) : 1 .. k - 1 = {}
    BY <2>7
  <2>11. Local(a)
    BY <1>2, <2>3, <2>7, <2>9, <2>10 DEF Local
  <2>12. Own(t) = {}
    BY <1>1, <1>2 DEF WInv, StreamPlaces, Own, Early
  <2>13. CalmOK(a, tree[a.from], tree[a.to], data, Own(t))
    <3>1. PICK S, D : S = tree[a.from] /\ D = tree[a.to]
      OBVIOUS
    <3>2. EntryOK(a, S, D, data, {}, g)
      BY <2>5 DEF EntryOK
    <3>3. \A p : IsPrefix(a.req.path, p) => Covers(g, p)
      BY <2>3, <2>5 DEF Covers
    <3>4. \A p \in Src(a, S) : Ahead(a, p)
      BY <2>7, <3>3 DEF Src, Ahead
    <3>5. ~ Started(a)
      BY <1>2, <2>3, <2>5, <2>7 DEF Started
    <3>6. CalmOK(a, S, D, data, {})
      BY <2>7, <3>2, <3>4, <3>5 DEF CalmOK
    <3> QED BY <2>12, <3>1, <3>6
  <2> QED BY <1>1, <1>2, <2>2, <2>3, <2>11, <2>13, QuietGoes DEF Early
<1> QED
  BY <1>3, <1>4

LEMMA CopyTop ==
    ASSUME WInv, NEW t \in Threads, At(t, "copy"), NEW r, r = thread[t], NEW f, f = Top(t)
    PROVE  /\ r \in ThreadRecord /\ r.pc = "copy" /\ r.work # <<>> /\ Local(r) /\ ~ r.copied
           /\ f = r.work[1] /\ f \in FrameRecord /\ PlaceOK(r, f)
           /\ r.req \in Requests /\ r.req.op = "copy" /\ r.from \in SS /\ r.to \in SS
           /\ r.req.path \in Path /\ r.req.dest \in Path /\ r.req.dest # r.req.path
           /\ Is(t, "copy") /\ Paths(r.req) = {r.req.path, r.req.dest}
<1>1. /\ r \in ThreadRecord /\ r.pc = "copy" /\ r.work # <<>> /\ 1 \in 1 .. Len(r.work)
      /\ f = r.work[1] /\ f \in FrameRecord
      /\ r.req \in Requests /\ r.req.op = "copy" /\ r.from \in SS /\ r.to \in SS
      /\ Is(t, "copy")
  BY TopWalk DEF WInv
<1>2. Local(r)
  BY DEF WInv, Locals
<1>3. ~ r.copied /\ PlaceOK(r, f)
  BY <1>1, <1>2 DEF Local
<1>4. r.req.path \in Path /\ r.req.dest \in Path /\ r.req.dest # r.req.path
  BY <1>1, CopyingAssumption
<1> QED
  BY <1>1, <1>2, <1>3, <1>4 DEF Paths

LEMMA NowGoes ==
    ASSUME WInv, NEW t \in Threads, At(t, "copy"), NEW r, r = thread[t], NEW f, f = Top(t),
           NEW g \in FrameRecord, g.src = f.src, PlaceOK(r, g), Now(t, g),
           tree' = tree, data' = data, writers' = writers, disturbed' = disturbed,
           Calm(t) => CalmOK(WithTop(r, g), tree[r.from], tree[r.to], data, Own(t))
    PROVE  Goes(t)
<1>1. r \in ThreadRecord /\ r.pc = "copy" /\ r.work # <<>> /\ Local(r) /\ f = r.work[1]
  BY CopyTop
<1>2. PICK a : a = WithTop(r, g)
  OBVIOUS
<1>3. Local(a) /\ ~ a.copied /\ a.pc = "copy" /\ a.from = r.from /\ a.to = r.to /\ a.req = r.req
  BY <1>1, <1>2, LocalTop
<1>4. thread' = [thread EXCEPT ![t] = a]
  BY <1>2 DEF Now, Become, WithTop
<1>5. Is(t, "copy") /\ t \notin disturbed => CalmOK(a, tree[a.from], tree[a.to], data, Own(t))
  BY <1>2, <1>3 DEF Calm
<1> QED
  BY <1>1, <1>3, <1>4, <1>5, QuietGoes DEF Early

(* The entry at work is done with. *)
LEMMA GoneGoes ==
    ASSUME WInv, NEW t \in Threads, At(t, "copy"), NEW r, r = thread[t],
           NEW b, Become(t, b), b.req = r.req, b.from = r.from, b.to = r.to, Gone1(r, b),
           IF Len(r.work) > 1 THEN TRUE ELSE b.pc = "table",
           tree' = tree, data' = data, writers' = writers, disturbed' = disturbed,
           Calm(t) => CalmOK(b, tree[r.from], tree[r.to], data, Own(t))
    PROVE  Goes(t)
<1>1. /\ r \in ThreadRecord /\ r.pc = "copy" /\ r.work # <<>> /\ Local(r)
      /\ r.req \in Requests /\ r.req.op = "copy" /\ r.from \in SS /\ r.to \in SS
  BY CopyTop
<1>2. Local(b)
  BY <1>1, LocalPop
<1>3. b.pc \in {"copy", "table"}
  BY <1>1 DEF Gone1
<1>4. thread' = [thread EXCEPT ![t] = b]
  BY DEF Become
<1>5. Is(t, "copy") /\ t \notin disturbed => CalmOK(b, tree[b.from], tree[b.to], data, Own(t))
  BY DEF Calm
<1> QED
  BY <1>1, <1>2, <1>3, <1>4, <1>5, QuietGoes DEF Early

-----------------------------------------------------------------------------
LEMMA ReturnedIs ==
    ASSUME NEW r \in ThreadRecord, NEW rows, NEW q, q = [r EXCEPT !.rows = rows],
           NEW b, b = Returned(q)
    PROVE  /\ b.req = r.req /\ b.from = r.from /\ b.to = r.to /\ Gone1(r, b)
           /\ IF Len(r.work) > 1 THEN TRUE ELSE b.pc = "table"
<1>1. /\ q.work = r.work /\ q.pc = r.pc /\ q.copied = r.copied /\ q.req = r.req
      /\ q.from = r.from /\ q.to = r.to
  BY DEF ThreadRecord
<1>2. CASE Len(r.work) > 1
  <2>1. b = [q EXCEPT !.work = Tail(r.work)]
    BY <1>1, <1>2 DEF Returned
  <2>2. /\ b.work = Tail(r.work) /\ b.pc = r.pc /\ b.copied = r.copied /\ b.req = r.req
        /\ b.from = r.from /\ b.to = r.to
    BY <1>1, <2>1 DEF ThreadRecord
  <2> QED BY <1>2, <2>2 DEF Gone1
<1>3. CASE ~ (Len(r.work) > 1)
  <2>1. b = [q EXCEPT !.pc = "table", !.work = <<>>, !.copied = TRUE]
    BY <1>1, <1>3 DEF Returned
  <2>2. b.work = <<>> /\ b.pc = "table" /\ b.req = r.req /\ b.from = r.from /\ b.to = r.to
    BY <1>1, <2>1 DEF ThreadRecord
  <2> QED BY <1>3, <2>2 DEF Gone1
<1> QED
  BY <1>2, <1>3

LEMMA FinishedIs ==
    ASSUME NEW t \in Threads, NEW r \in ThreadRecord, r = thread[t], NEW b, b = Finished(t)
    PROVE  /\ b.req = r.req /\ b.from = r.from /\ b.to = r.to /\ Gone1(r, b)
           /\ IF Len(r.work) > 1 THEN TRUE ELSE b.pc = "table"
<1>0. PICK rows : rows = Append(r.rows, Top(t).dst)
  OBVIOUS
<1>1. PICK q : q = [r EXCEPT !.rows = rows]
  OBVIOUS
<1>2. b = Returned(q)
  BY <1>0, <1>1 DEF Finished
<1> QED
  BY <1>1, <1>2, ReturnedIs

LEMMA StatEntryGoes ==
    ASSUME WInv, NEW t \in Threads, StatEntry(t)
    PROVE  Goes(t)
<1>1. PICK r, f : r = thread[t] /\ f = Top(t)
  OBVIOUS
<1>2. /\ At(t, "copy") /\ f.act = "stat"
      /\ tree' = tree /\ data' = data /\ writers' = writers /\ disturbed' = disturbed
  BY <1>1 DEF StatEntry, Doing, fsVars
<1>3. /\ r \in ThreadRecord /\ r.pc = "copy" /\ f = r.work[1] /\ f \in FrameRecord
      /\ PlaceOK(r, f) /\ r.from \in SS
  BY <1>1, <1>2, CopyTop
<1>4. CASE f.src = r.req.dest
  <2>1. PICK b, q : b = Returned(r) /\ q = [r EXCEPT !.rows = r.rows]
    OBVIOUS
  <2>2. Become(t, b)
    BY <1>1, <1>4, <2>1 DEF StatEntry
  <2>3. q = r
    BY <1>3, <2>1 DEF ThreadRecord
  <2>4. /\ b.req = r.req /\ b.from = r.from /\ b.to = r.to /\ Gone1(r, b)
        /\ IF Len(r.work) > 1 THEN TRUE ELSE b.pc = "table"
    BY <1>3, <2>1, <2>3, ReturnedIs
  <2>5. ASSUME Calm(t) PROVE CalmOK(b, tree[r.from], tree[r.to], data, Own(t))
    <3>1. PICK S, D, W : S = tree[r.from] /\ D = tree[r.to] /\ W = Own(t)
      OBVIOUS
    <3>2. Setting(r, S, D, data, W) /\ CalmOK(r, S, D, data, W)
      BY <1>1, <2>5, <3>1, CalmHere
    <3>3. CalmOK(b, S, D, data, W)
      BY <1>2, <1>3, <1>4, <2>4, <3>2, LeftOut
    <3> QED BY <3>1, <3>3
  <2> QED BY <1>1, <1>2, <2>2, <2>4, <2>5, GoneGoes
<1>5. CASE f.src # r.req.dest /\ ~ Exists(r.from, f.src)
  BY <1>1, <1>2, <1>5, AnswerGoes DEF StatEntry, CopyFails
<1>6. CASE f.src # r.req.dest /\ Exists(r.from, f.src)
  <2>1. PICK g : g = [f EXCEPT !.act = "create", !.folder = tree[r.from][f.src] = Folder]
    OBVIOUS
  <2>2. Now(t, g)
    BY <1>1, <1>6, <2>1 DEF StatEntry
  <2>3. /\ g \in FrameRecord /\ g.src = f.src /\ g.dst = f.dst /\ g.act = "create"
        /\ g.listed = f.listed /\ g.seen = f.seen /\ g.pos = f.pos
    BY <1>3, <2>1 DEF FrameRecord, Acts
  <2>4. PlaceOK(r, g)
    BY <1>2, <1>3, <1>6, <2>3 DEF PlaceOK
  <2>5. ASSUME Calm(t) PROVE CalmOK(WithTop(r, g), tree[r.from], tree[r.to], data, Own(t))
    <3>1. PICK S, D, W : S = tree[r.from] /\ D = tree[r.to] /\ W = Own(t)
      OBVIOUS
    <3>2. Setting(r, S, D, data, W) /\ CalmOK(r, S, D, data, W)
      BY <1>1, <2>5, <3>1, CalmHere
    <3>3. S[f.src] # None
      BY <1>6, <3>1 DEF Exists
    <3>4. CalmOK(WithTop(r, g), S, D, data, W)
      BY <1>2, <1>3, <1>6, <2>1, <2>3, <3>1, <3>2, <3>3, StatTaken
    <3> QED BY <3>1, <3>4
  <2> QED BY <1>1, <1>2, <2>2, <2>3, <2>4, <2>5, NowGoes
<1> QED
  BY <1>4, <1>5, <1>6

LEMMA NoConnectionGoes ==
    ASSUME WInv, NEW t \in Threads, NoConnection(t)
    PROVE  Goes(t)
BY AnswerGoes DEF NoConnection, CopyFails, fsVars

LEMMA OpenFolderGoes ==
    ASSUME WInv, NEW t \in Threads, OpenFolder(t)
    PROVE  Goes(t)
<1>1. PICK r, f : r = thread[t] /\ f = Top(t)
  OBVIOUS
<1>2. /\ At(t, "copy") /\ f.act = "opendir"
      /\ tree' = tree /\ data' = data /\ writers' = writers /\ disturbed' = disturbed
  BY <1>1 DEF OpenFolder, Doing, fsVars
<1>3. /\ r \in ThreadRecord /\ r.pc = "copy" /\ f = r.work[1] /\ f \in FrameRecord
      /\ PlaceOK(r, f) /\ r.from \in SS
  BY <1>1, <1>2, CopyTop
<1>4. CASE tree[r.from][f.src] # Folder
  BY <1>1, <1>2, <1>4, AnswerGoes DEF OpenFolder, CopyFails
<1>5. CASE tree[r.from][f.src] = Folder
  <2>1. PICK C, g : C = Children(r.from, f.src) /\ g = [f EXCEPT !.act = "list", !.listed = C]
    OBVIOUS
  <2>2. Now(t, g)
    BY <1>1, <1>5, <2>1 DEF OpenFolder
  <2>3. C \subseteq Path /\ \A c \in C : Front(c) = f.src
    BY <2>1 DEF Children
  <2>4. /\ g \in FrameRecord /\ g.src = f.src /\ g.dst = f.dst /\ g.act = "list"
        /\ g.listed = C /\ g.seen = f.seen /\ g.pos = f.pos
    BY <1>3, <2>1, <2>3 DEF FrameRecord, Acts
  <2>5. PlaceOK(r, g)
    BY <1>2, <1>3, <2>3, <2>4 DEF PlaceOK
  <2>6. ASSUME Calm(t) PROVE CalmOK(WithTop(r, g), tree[r.from], tree[r.to], data, Own(t))
    <3>1. PICK S, D, W : S = tree[r.from] /\ D = tree[r.to] /\ W = Own(t)
      OBVIOUS
    <3>2. Setting(r, S, D, data, W) /\ CalmOK(r, S, D, data, W)
      BY <1>1, <2>6, <3>1, CalmHere
    <3>3. \A c \in Path : Front(c) = f.src /\ S[c] # None => c \in C
      BY <2>1, <3>1 DEF Children, Exists
    <3>4. CalmOK(WithTop(r, g), S, D, data, W)
      BY <1>2, <1>3, <2>1, <2>4, <3>2, <3>3, FolderOpened
    <3> QED BY <3>1, <3>4
  <2> QED BY <1>1, <1>2, <2>2, <2>4, <2>5, <2>6, NowGoes
<1> QED
  BY <1>4, <1>5

LEMMA FolderCopiedGoes ==
    ASSUME WInv, NEW t \in Threads, FolderCopied(t)
    PROVE  Goes(t)
<1>1. PICK r, f : r = thread[t] /\ f = Top(t)
  OBVIOUS
<1>2. /\ At(t, "copy") /\ f.act = "list" /\ f.listed \cap Children(r.from, f.src) \subseteq f.seen
      /\ tree' = tree /\ data' = data /\ writers' = writers /\ disturbed' = disturbed
  BY <1>1 DEF FolderCopied, Doing, fsVars
<1>3. /\ r \in ThreadRecord /\ r.pc = "copy" /\ f = r.work[1] /\ f \in FrameRecord
      /\ PlaceOK(r, f) /\ r.from \in SS
  BY <1>1, <1>2, CopyTop
<1>4. PICK b : b = Finished(t)
  OBVIOUS
<1>5. Become(t, b)
  BY <1>4 DEF FolderCopied
<1>6. /\ b.req = r.req /\ b.from = r.from /\ b.to = r.to /\ Gone1(r, b)
      /\ IF Len(r.work) > 1 THEN TRUE ELSE b.pc = "table"
  BY <1>1, <1>3, <1>4, FinishedIs
<1>7. ASSUME Calm(t) PROVE CalmOK(b, tree[r.from], tree[r.to], data, Own(t))
  <2>1. PICK S, D, W : S = tree[r.from] /\ D = tree[r.to] /\ W = Own(t)
    OBVIOUS
  <2>2. Setting(r, S, D, data, W) /\ CalmOK(r, S, D, data, W)
    BY <1>1, <1>7, <2>1, CalmHere
  <2>3. \A c \in f.listed : c \in Path /\ S[c] # None => c \in f.seen
    BY <1>2, <1>3, <2>1 DEF Children, Exists, PlaceOK
  <2>4. CalmOK(b, S, D, data, W)
    BY <1>2, <1>3, <1>6, <2>2, <2>3, FolderDone
  <2> QED BY <2>1, <2>4
<1> QED
  BY <1>1, <1>2, <1>5, <1>6, <1>7, GoneGoes

LEMMA OpenAtSourceGoes ==
    ASSUME WInv, NEW t \in Threads, OpenAtSource(t)
    PROVE  Goes(t)
<1>1. PICK r, f : r = thread[t] /\ f = Top(t)
  OBVIOUS
<1>2. /\ At(t, "copy") /\ f.act = "open"
      /\ tree' = tree /\ data' = data /\ writers' = writers /\ disturbed' = disturbed
  BY <1>1 DEF OpenAtSource, Doing
<1>3. /\ r \in ThreadRecord /\ r.pc = "copy" /\ f = r.work[1] /\ f \in FrameRecord
      /\ PlaceOK(r, f) /\ r.from \in SS
  BY <1>1, <1>2, CopyTop
<1>4. CASE ~ Exists(r.from, f.src)
  BY <1>1, <1>2, <1>4, AnswerGoes DEF OpenAtSource, CopyFails
<1>5. CASE Exists(r.from, f.src)
  <2>1. PICK g : g = [f EXCEPT !.act = "read", !.ino = tree[r.from][f.src]]
    OBVIOUS
  <2>2. Now(t, g)
    BY <1>1, <1>5, <2>1 DEF OpenAtSource
  <2>3. tree[r.from][f.src] \in Int
    <3>1. tree[r.from][f.src] \in {None, Folder} \cup DOMAIN data
      BY <1>3, <1>5 DEF Exists, WInv, TInv, IInv, TypeOK
    <3>2. DOMAIN data \subseteq Nat
      BY DEF WInv, TInv, IInv, TypeOK
    <3> QED BY <3>1, <3>2 DEF Folder, None
  <2>4. /\ g \in FrameRecord /\ g.src = f.src /\ g.dst = f.dst /\ g.act = "read"
        /\ g.listed = f.listed /\ g.seen = f.seen /\ g.pos = f.pos
    BY <1>3, <2>1, <2>3 DEF FrameRecord, Acts
  <2>5. PlaceOK(r, g)
    BY <1>2, <1>3, <2>4 DEF PlaceOK
  <2>6. ASSUME Calm(t) PROVE CalmOK(WithTop(r, g), tree[r.from], tree[r.to], data, Own(t))
    <3>1. PICK S, D, W : S = tree[r.from] /\ D = tree[r.to] /\ W = Own(t)
      OBVIOUS
    <3>2. Setting(r, S, D, data, W) /\ CalmOK(r, S, D, data, W)
      BY <1>1, <2>6, <3>1, CalmHere
    <3>3. g = [f EXCEPT !.act = "read", !.ino = S[f.src]]
      BY <2>1, <3>1
    <3>4. CalmOK(WithTop(r, g), S, D, data, W)
      BY <1>2, <1>3, <2>4, <3>2, <3>3, SourceOpened
    <3> QED BY <3>1, <3>4
  <2> QED BY <1>1, <1>2, <2>2, <2>4, <2>5, <2>6, NowGoes
<1> QED
  BY <1>4, <1>5

-----------------------------------------------------------------------------
LEMMA ReadEntryGoes ==
    ASSUME WInv, NEW t \in Threads, ReadEntry(t)
    PROVE  Goes(t)
<1>1. PICK r, f : r = thread[t] /\ f = Top(t)
  OBVIOUS
<1>2. /\ At(t, "copy") /\ f.act = "list"
      /\ tree' = tree /\ data' = data /\ writers' = writers /\ disturbed' = disturbed
  BY <1>1 DEF ReadEntry, Doing, fsVars
<1>3. /\ r \in ThreadRecord /\ r.pc = "copy" /\ r.work # <<>> /\ f = r.work[1]
      /\ f \in FrameRecord /\ PlaceOK(r, f) /\ r.from \in SS /\ Local(r)
      /\ r.req.path \in Path /\ r.req.dest \in Path
  BY <1>1, <1>2, CopyTop
<1>4. PICK c : /\ c \in (f.listed \cup Children(r.from, f.src)) \ f.seen
               /\ Become(t, [r EXCEPT !.work =
                     << Frame(c, Append(f.dst, Last(c))) >>
                        \o [@ EXCEPT ![1] = [f EXCEPT !.seen = @ \cup {c}]]])
  BY <1>1 DEF ReadEntry
<1>5. PICK g, h, a : /\ g = Frame(c, Append(f.dst, Last(c)))
                     /\ h = [f EXCEPT !.seen = @ \cup {c}] /\ a = Pushed(r, g, h)
  OBVIOUS
<1>6. thread' = [thread EXCEPT ![t] = a]
  BY <1>4, <1>5 DEF Become, Pushed
<1>7. c \in Path /\ Front(c) = f.src /\ c \notin f.seen /\ f.src \in Path
  BY <1>3, <1>4 DEF FrameRecord, PlaceOK, Children
<1>8. /\ g.act = "stat" /\ g.src = c /\ g.dst = Append(f.dst, Last(c))
      /\ g.listed = {} /\ g.seen = {} /\ g.pos = 0
  BY <1>5 DEF Frame
<1>9. /\ h \in FrameRecord /\ h.src = f.src /\ h.dst = f.dst /\ h.act = "list"
      /\ h.listed = f.listed /\ h.seen = f.seen \cup {c} /\ h.pos = f.pos
  BY <1>2, <1>3, <1>5, <1>7 DEF FrameRecord
<1>10. PlaceOK(r, h)
  BY <1>2, <1>3, <1>7, <1>9 DEF PlaceOK
<1>11. IsPrefix(r.req.path, c) /\ Image(r, c) = Append(f.dst, Last(c))
  BY <1>3, <1>7, ImageOfChild DEF PlaceOK
<1>12. g \in FrameRecord
  <2>1. Image(r, c) \in Seq(STRING) /\ c \in Seq(STRING)
    BY <1>3, <1>7, <1>11, ImageIs, PathFacts
  <2> QED BY <1>5, <1>11, <2>1, FrameTyped
<1>13. InCopy(r, c) => c = r.req.dest
  <2> SUFFICES ASSUME IsPrefix(r.req.path, r.req.dest), IsPrefix(r.req.dest, c), c # r.req.dest
               PROVE  FALSE
    BY DEF InCopy
  <2>1. r.req.dest \in Seq(STRING)
    BY <1>3, PathFacts
  <2>2. IsPrefix(r.req.dest, f.src)
    BY <1>7, <2>1, ChildFacts
  <2>3. InCopy(r, f.src)
    BY <2>2 DEF InCopy
  <2> QED BY <1>2, <1>3, <2>3 DEF PlaceOK
<1>14. PlaceOK(r, g)
  BY <1>7, <1>8, <1>11, <1>13 DEF PlaceOK
<1>15. /\ Local(a) /\ ~ a.copied /\ a.pc = "copy" /\ a.from = r.from /\ a.to = r.to
       /\ a.req = r.req
  BY <1>3, <1>5, <1>7, <1>8, <1>9, <1>10, <1>12, <1>14, LocalPush
<1>16. ASSUME Is(t, "copy"), t \notin disturbed
       PROVE  CalmOK(a, tree[a.from], tree[a.to], data, Own(t))
  <2>1. PICK S, D, W : S = tree[r.from] /\ D = tree[r.to] /\ W = Own(t)
    OBVIOUS
  <2>2. Calm(t)
    BY <1>2, <1>16 DEF Calm
  <2>3. Setting(r, S, D, data, W) /\ CalmOK(r, S, D, data, W)
    BY <1>1, <2>1, <2>2, CalmHere
  <2>4. CalmOK(Pushed(r, g, h), S, D, data, W)
    BY <1>2, <1>3, <1>5, <1>7, <1>8, <1>9, <1>12, <2>3, EntryBegun
  <2> QED BY <1>5, <1>15, <2>1, <2>4
<1> QED
  BY <1>1, <1>2, <1>6, <1>15, <1>16, QuietGoes DEF Early

(* A step that makes something at f.dst, on the server of the destination. *)
LEMMA MadeGoes ==
    ASSUME WInv, NEW t \in Threads, At(t, "copy"), NEW r, r = thread[t], NEW f, f = Top(t),
           NEW g \in FrameRecord, g.src = f.src, PlaceOK(r, g), Now(t, g),
           NEW i, NEW folder, NewAt(r.to, f.dst, i, folder),
           \A w \in writers' : w \in writers \/ (w.by = t /\ w.path = f.dst /\ w.ino = i /\ i > Folder),
           \A u \in Threads \ {t} : Own(u)' = Own(u), disturbed' = disturbed,
           Calm(t) => CalmOK(WithTop(r, g), tree'[r.from], tree'[r.to], data', Own(t)')
    PROVE  Goes(t)
<1>1. /\ r \in ThreadRecord /\ r.pc = "copy" /\ r.work # <<>> /\ Local(r) /\ f = r.work[1]
      /\ r.to \in SS /\ Is(t, "copy") /\ r.req.path \in Path /\ r.req.dest \in Path
      /\ Paths(r.req) = {r.req.path, r.req.dest} /\ PlaceOK(r, f)
  BY CopyTop
<1>2. PICK a : a = WithTop(r, g)
  OBVIOUS
<1>3. Local(a) /\ ~ a.copied /\ a.pc = "copy" /\ a.from = r.from /\ a.to = r.to /\ a.req = r.req
  BY <1>1, <1>2, LocalTop
<1>4. thread' = [thread EXCEPT ![t] = a] /\ DOMAIN thread = Threads
  BY <1>2, WalkFacts DEF Now, Become, WithTop, WInv
<1>5. thread'[t] = a
  BY <1>4
<1>6. IsPrefix(r.req.dest, f.dst) /\ f.dst \in Path
  BY <1>1, ImageIs DEF PlaceOK, NewAt
<1>7. Under(t, f.dst)
  BY <1>1, <1>6 DEF Under
<1>8. Disks(t)
  BY <1>1, <1>7, NewDisks
<1>9. /\ OneFile'
      /\ \A w \in writers : \A u \in SS, q \in Path : tree'[u][q] = w.ino => q = w.path
  BY <1>1, NewKeepsFiles
<1>10. StreamPlaces'
  <2> SUFFICES ASSUME NEW w \in writers'
               PROVE  /\ Is(w.by, "copy")' /\ thread'[w.by].pc \notin Early
                      /\ IsPrefix(thread'[w.by].req.dest, w.path)
                      /\ \A s \in SS, p \in Path : tree'[s][p] = w.ino => p = w.path
    BY DEF StreamPlaces
  <2>1. CASE w \in writers
    <3>1. /\ Is(w.by, "copy") /\ thread[w.by].pc \notin Early
          /\ IsPrefix(thread[w.by].req.dest, w.path) /\ w.by \in Threads
      BY <2>1, InodeFacts DEF WInv, TInv, StreamPlaces
    <3>2. /\ Is(w.by, "copy")' /\ thread'[w.by].pc \notin Early
          /\ IsPrefix(thread'[w.by].req.dest, w.path)
      BY <1>1, <1>3, <1>4, <3>1, StreamsStay
    <3> QED BY <1>9, <2>1, <3>2
  <2>2. CASE w.by = t /\ w.path = f.dst /\ w.ino = i /\ i > Folder
    <3>1. Is(t, "copy")' /\ thread'[t].pc \notin Early /\ IsPrefix(thread'[t].req.dest, f.dst)
      BY <1>1, <1>3, <1>5, <1>6 DEF Is, Early
    <3>2. ASSUME NEW s \in SS, NEW p \in Path, tree'[s][p] = i PROVE p = f.dst
      <4>1. tree'[r.to][f.dst] = i
        BY DEF NewAt
      <4> QED BY <1>1, <1>6, <1>9, <2>2, <3>2, <4>1 DEF OneFile
    <3> QED BY <2>2, <3>1, <3>2
  <2> QED BY <2>1, <2>2
<1>11. Calm(t)' => CalmOK(a, tree'[a.from], tree'[a.to], data', Own(t)')
  <2>1. Calm(t)' => Calm(t)
    BY <1>1 DEF Calm
  <2> QED BY <1>2, <1>3, <2>1
<1> QED
  BY <1>3, <1>5, <1>8, <1>9, <1>10, <1>11 DEF Goes

(* The same, as the lemmas about copies have it. *)
LEMMA NewForCopy ==
    ASSUME WInv, NEW t \in Threads, At(t, "copy"), NEW r, r = thread[t], NEW f, f = Top(t),
           NEW i, NewAt(r.to, f.dst, i, f.folder),
           NEW S, S = tree[r.from], NEW D, D = tree[r.to],
           NEW S2, S2 = tree'[r.from], NEW D2, D2 = tree'[r.to]
    PROVE  NewPlace(r, S, D, data, f, i, S2, D2, data')
<1>1. r.from \in SS /\ r.to \in SS
  BY CopyTop
<1>2. /\ f.dst \in Path /\ CanCreate(D, f.dst, f.folder)
      /\ IF f.folder THEN i = Folder ELSE i > Folder
      /\ i > Folder => data'[i] = <<>> /\ (i \in DOMAIN data => D[f.dst] = i)
      /\ \A j \in DOMAIN data : j # i => data'[j] = data[j]
      /\ tree'[r.to][f.dst] = i
      /\ \A u \in SS, q \in Path : u # r.to \/ q # f.dst => tree'[u][q] = tree[u][q]
      /\ \A u \in SS \ {r.to} : tree'[u] = tree[u]
  BY DEF NewAt
<1>3. \A p \in Path : D2[p] = IF p = f.dst THEN i ELSE D[p]
  BY <1>1, <1>2
<1>4. S2 = IF r.from = r.to THEN D2 ELSE S
  BY <1>1, <1>2
<1> QED
  BY <1>2, <1>3, <1>4 DEF NewPlace

-----------------------------------------------------------------------------
LEMMA CreateEntryGoes ==
    ASSUME WInv, NEW t \in Threads, CreateEntry(t)
    PROVE  Goes(t)
<1>1. PICK r, f : r = thread[t] /\ f = Top(t)
  OBVIOUS
<1>2. At(t, "copy") /\ f.act = "create" /\ writers' = writers /\ disturbed' = disturbed
  BY <1>1 DEF CreateEntry, Doing
<1>3. /\ r \in ThreadRecord /\ r.pc = "copy" /\ f = r.work[1] /\ f \in FrameRecord
      /\ PlaceOK(r, f) /\ r.to \in SS
  BY <1>1, <1>2, CopyTop
<1>4. CASE ~ CanCreate(tree[r.to], f.dst, f.folder)
  BY <1>1, <1>2, <1>4, AnswerGoes DEF CreateEntry, CopyFails
<1>5. CASE CanCreate(tree[r.to], f.dst, f.folder)
  <2>1. PICK g, i : /\ g = [f EXCEPT !.act = IF f.folder THEN "opendir" ELSE "write"]
                    /\ i = IF f.folder THEN Folder ELSE Inode(r.to, f.dst)
    OBVIOUS
  <2>2. Now(t, g) /\ Create(r.to, f.dst, f.folder)
    BY <1>1, <1>5, <2>1 DEF CreateEntry
  <2>3. /\ g \in FrameRecord /\ g.src = f.src /\ g.dst = f.dst /\ g.act \in {"opendir", "write"}
        /\ g.listed = f.listed /\ g.seen = f.seen /\ g.pos = f.pos
    BY <1>3, <2>1 DEF FrameRecord, Acts
  <2>4. PlaceOK(r, g)
    BY <1>2, <1>3, <2>3 DEF PlaceOK
  <2>5. NewAt(r.to, f.dst, i, f.folder)
    BY <1>3, <1>5, <2>1, <2>2, NewAtHolds DEF WInv, TInv
  <2>6. \A u \in Threads : Own(u)' = Own(u)
    BY <1>2 DEF Own
  <2>7. ASSUME Calm(t) PROVE CalmOK(WithTop(r, g), tree'[r.from], tree'[r.to], data', Own(t)')
    <3>1. PICK S, D, W, S2, D2 : /\ S = tree[r.from] /\ D = tree[r.to] /\ W = Own(t)
                                 /\ S2 = tree'[r.from] /\ D2 = tree'[r.to]
      OBVIOUS
    <3>2. Setting(r, S, D, data, W) /\ CalmOK(r, S, D, data, W)
      BY <1>1, <2>7, <3>1, CalmHere
    <3>3. NewPlace(r, S, D, data, f, i, S2, D2, data')
      BY <1>1, <1>2, <2>5, <3>1, NewForCopy
    <3>4. CalmOK(WithTop(r, g), S2, D2, data', W)
      BY <1>2, <1>3, <2>1, <2>3, <3>2, <3>3, EntryMade
    <3> QED BY <2>6, <3>1, <3>4
  <2>8. \A w \in writers' : w \in writers
    BY <1>2
  <2> QED BY <1>1, <1>2, <2>2, <2>3, <2>4, <2>5, <2>6, <2>7, <2>8, MadeGoes
<1> QED
  BY <1>4, <1>5

LEMMA OpenAtDestinationGoes ==
    ASSUME WInv, NEW t \in Threads, OpenAtDestination(t)
    PROVE  Goes(t)
<1>1. PICK r, f : r = thread[t] /\ f = Top(t)
  OBVIOUS
<1>2. At(t, "copy") /\ f.act = "write" /\ disturbed' = disturbed
  BY <1>1 DEF OpenAtDestination, Doing
<1>3. /\ r \in ThreadRecord /\ r.pc = "copy" /\ f = r.work[1] /\ f \in FrameRecord
      /\ PlaceOK(r, f) /\ r.from \in SS /\ r.to \in SS
  BY <1>1, <1>2, CopyTop
<1>4. CASE ~ CanOpen(r.to, f.dst)
  <2>1. Go(t, "waits") /\ tree' = tree /\ data' = data /\ writers' = writers
    BY <1>1, <1>4 DEF OpenAtDestination
  <2> QED BY <1>2, <2>1, GoGoes DEF Early
<1>5. CASE CanOpen(r.to, f.dst)
  <2>1. PICK g, i, folder :
           g = [f EXCEPT !.act = "open"] /\ i = Inode(r.to, f.dst) /\ folder = FALSE
    OBVIOUS
  <2>2. PICK w : w = [by |-> t, path |-> f.dst, ino |-> i, pos |-> 0, queue |-> <<>>, open |-> TRUE]
    OBVIOUS
  <2>3. Now(t, g) /\ Truncate(r.to, f.dst) /\ writers' = writers \cup {w}
    BY <1>1, <1>5, <2>1, <2>2 DEF OpenAtDestination
  <2>4. /\ w.by = t /\ w.path = f.dst /\ w.ino = i /\ w.pos = 0 /\ w.queue = <<>>
    BY <2>2
  <2>5. /\ g \in FrameRecord /\ g.src = f.src /\ g.dst = f.dst /\ g.act = "open"
        /\ g.listed = f.listed /\ g.seen = f.seen /\ g.pos = f.pos
    BY <1>3, <2>1 DEF FrameRecord, Acts
  <2>6. PlaceOK(r, g)
    BY <1>2, <1>3, <2>5 DEF PlaceOK
  <2>7. CanCreate(tree[r.to], f.dst, folder) /\ Create(r.to, f.dst, folder)
    BY <1>5, <2>1, <2>3 DEF CanOpen, Create
  <2>8. NewAt(r.to, f.dst, i, folder)
    <3>1. i = IF folder THEN Folder ELSE Inode(r.to, f.dst)
      BY <2>1
    <3> QED BY <1>3, <2>7, <3>1, NewAtHolds DEF WInv, TInv
  <2>9. i > Folder
    BY <2>1, <2>8 DEF NewAt
  <2>10. /\ \A u \in Threads \ {t} : Own(u)' = Own(u)
         /\ Own(t)' = Own(t) \cup {w}
    BY <2>3, <2>4 DEF Own
  <2>11. ASSUME Calm(t) PROVE CalmOK(WithTop(r, g), tree'[r.from], tree'[r.to], data', Own(t)')
    <3>1. PICK S, D, W, W2 : /\ S = tree[r.from] /\ D = tree[r.to] /\ W = Own(t)
                             /\ W2 = W \cup {w}
      OBVIOUS
    <3>2. Setting(r, S, D, data, W) /\ CalmOK(r, S, D, data, W)
      BY <1>1, <2>11, <3>1, CalmHere
    <3>3. EntryOK(r, S, D, data, W, f)
      BY <1>3, <3>2, WalkTop
    <3>4. D[f.dst] > Folder /\ f.dst \in Path
      BY <1>2, <3>3, ServerFacts DEF EntryOK
    <3>5. Exists(r.to, f.dst)
      BY <3>1, <3>4, ServerFacts DEF Exists
    <3>6. i = D[f.dst]
      BY <2>1, <3>1, <3>5 DEF Inode
    <3>7. D[f.dst] \in DOMAIN data /\ data[D[f.dst]] = <<>>
      BY <1>2, <1>3, <3>2, NewStream
    <3>8. CalmOK(WithTop(r, g), S, D, data, W2)
      BY <1>2, <1>3, <2>1, <2>4, <2>5, <3>1, <3>2, <3>6, StreamBegun
    <3>9. tree' = tree /\ data' = data
      <4>1. /\ tree \in [SS -> [Path -> {None, Folder} \cup DOMAIN data]]
            /\ data \in Seq(Seq(Chunk)) /\ DOMAIN data = 1 .. Len(data)
        BY InodeFacts DEF WInv, TInv
      <4>2. /\ tree' = [tree EXCEPT ![r.to][f.dst] = i]
            /\ data' = [data EXCEPT ![i] = <<>>]
        BY <2>1, <2>3, <3>1, <3>5, <3>6 DEF Truncate
      <4>3. tree[r.to][f.dst] = i
        BY <3>1, <3>6
      <4>4. tree' = tree
        BY <1>3, <3>4, <4>1, <4>2, <4>3
      <4>5. data' = data
        BY <3>6, <3>7, <4>1, <4>2
      <4> QED BY <4>4, <4>5
    <3> QED BY <2>10, <3>1, <3>8, <3>9
  <2>12. \A v \in writers' : v \in writers \/ (v.by = t /\ v.path = f.dst /\ v.ino = i /\ i > Folder)
    BY <2>3, <2>4, <2>9
  <2>13. Now(t, g)
    BY <2>3
  <2>14. \A u \in Threads \ {t} : Own(u)' = Own(u)
    BY <2>10
  <2> HIDE DEF Truncate, Now
  <2> QED BY <1>1, <1>2, <2>5, <2>6, <2>8, <2>11, <2>12, <2>13, <2>14, MadeGoes
<1> QED
  BY <1>4, <1>5

-----------------------------------------------------------------------------
(* The stream of the entry at work. *)
LEMMA SentGoes ==
    ASSUME WInv, NEW t \in Threads, At(t, "copy"), NEW r, r = thread[t],
           NEW w \in writers, w.by = t, NEW v, v.by = t, v.path = w.path, v.ino = w.ino,
           writers' = (writers \ {w}) \cup {v},
           tree' = tree, data' = data, disturbed' = disturbed,
           NEW a, thread' = [thread EXCEPT ![t] = a], a.req = r.req, a.pc \notin Early, Local(a),
           Calm(t) => CalmOK(a, tree[a.from], tree[a.to], data, (Own(t) \ {w}) \cup {v})
    PROVE  Goes(t)
<1>1. /\ DOMAIN thread = Threads /\ \A u \in writers : u.by \in Threads
  BY WalkFacts, InodeFacts DEF WInv, TInv
<1>2. thread'[t] = a
  BY <1>1
<1>3. \A u \in Threads \ {t} : Own(u)' = Own(u)
  BY DEF Own
<1>4. Own(t)' = (Own(t) \ {w}) \cup {v}
  BY DEF Own
<1>5. Disks(t)
  BY <1>3 DEF Disks
<1>6. OneFile'
  BY DEF WInv, OneFile
<1>7. ASSUME NEW x \in writers
      PROVE  /\ Is(x.by, "copy")' /\ thread'[x.by].pc \notin Early
             /\ IsPrefix(thread'[x.by].req.dest, x.path)
             /\ \A s \in SS, p \in Path : tree'[s][p] = x.ino => p = x.path
  <2>1. /\ Is(x.by, "copy") /\ thread[x.by].pc \notin Early
        /\ IsPrefix(thread[x.by].req.dest, x.path)
        /\ \A s \in SS, p \in Path : tree[s][p] = x.ino => p = x.path
    BY DEF WInv, StreamPlaces
  <2>2. x.by \in Threads
    BY <1>1
  <2> QED BY <2>1, <2>2, StreamsStay
<1>8. StreamPlaces'
  <2> SUFFICES ASSUME NEW x \in writers'
               PROVE  /\ Is(x.by, "copy")' /\ thread'[x.by].pc \notin Early
                      /\ IsPrefix(thread'[x.by].req.dest, x.path)
                      /\ \A s \in SS, p \in Path : tree'[s][p] = x.ino => p = x.path
    BY DEF StreamPlaces
  <2>1. x \in writers \/ x = v
    OBVIOUS
  <2>2. CASE x = v
    <3>1. /\ Is(w.by, "copy")' /\ thread'[w.by].pc \notin Early
          /\ IsPrefix(thread'[w.by].req.dest, w.path)
          /\ \A s \in SS, p \in Path : tree'[s][p] = w.ino => p = w.path
      BY <1>7
    <3> QED BY <2>2, <3>1
  <2> QED BY <1>7, <2>1, <2>2
<1>9. Calm(t)' => CalmOK(a, tree'[a.from], tree'[a.to], data', Own(t)')
  <2>1. Is(t, "copy")' => Is(t, "copy")
    BY <1>2 DEF Is
  <2>2. Calm(t)' => Calm(t)
    BY <2>1 DEF Calm
  <2> QED BY <1>4, <2>2
<1> QED
  BY <1>2, <1>5, <1>6, <1>8, <1>9 DEF Goes

(* What is read is the file at the source. *)
LEMMA CalmContents ==
    ASSUME WInv, NEW t \in Threads, At(t, "copy"), Calm(t), NEW r, r = thread[t],
           NEW f, f = Top(t), f.act = "read"
    PROVE  Contents(f.ino) = data[f.ino] /\ Len(data[f.ino]) \in Nat
<1>1. PICK S, D, W : S = tree[r.from] /\ D = tree[r.to] /\ W = Own(t)
  OBVIOUS
<1>2. Setting(r, S, D, data, W) /\ CalmOK(r, S, D, data, W)
  BY <1>1, CalmHere
<1>3. r.pc = "copy" /\ f = r.work[1]
  BY CopyTop
<1>4. EntryOK(r, S, D, data, W, f)
  BY <1>2, <1>3, WalkTop
<1>5. f.src \in Src(r, S) /\ S[f.src] # Folder /\ f.ino = S[f.src]
  BY <1>4 DEF EntryOK
<1>6. S[f.src] \in DOMAIN data /\ data[S[f.src]] \in Seq(Chunk)
  BY <1>2, <1>5, SourceFile
<1>7. Len(data[f.ino]) \in Nat
  BY <1>5, <1>6
<1> QED
  BY <1>5, <1>7 DEF Contents

LEMMA SendChunkGoes ==
    ASSUME WInv, NEW t \in Threads, SendChunk(t)
    PROVE  Goes(t)
<1>1. PICK r, f, w : r = thread[t] /\ f = Top(t) /\ w = Writer(t)
  OBVIOUS
<1>2. /\ At(t, "copy") /\ f.act = "read" /\ f.pos < Len(Contents(f.ino))
      /\ tree' = tree /\ data' = data /\ disturbed' = disturbed
  BY <1>1 DEF SendChunk, Doing, fsVars
<1>3. /\ r \in ThreadRecord /\ r.pc = "copy" /\ r.work # <<>> /\ f = r.work[1]
      /\ f \in FrameRecord /\ PlaceOK(r, f) /\ Local(r)
  BY <1>1, <1>2, CopyTop
<1>4. w \in writers /\ w \in WriterRecord /\ w.by = t /\ w.path = f.dst
  BY <1>1, <1>2, WriterFacts DEF WInv, TInv
<1>5. PICK x : x = Contents(f.ino)[f.pos + 1]
  OBVIOUS
<1>6. PICK v : v = [w EXCEPT !.queue = Append(@, x)]
  OBVIOUS
<1>7. v.by = t /\ v.path = w.path /\ v.ino = w.ino
  BY <1>4, <1>6 DEF WriterRecord
<1>0. PICK g : g = [f EXCEPT !.pos = @ + 1]
  OBVIOUS
<1>8. PICK a : a = WithTop(r, g)
  OBVIOUS
<1>9. writers' = (writers \ {w}) \cup {v}
  BY <1>1, <1>5, <1>6 DEF SendChunk, Sent
<1>10. thread' = [thread EXCEPT ![t] = a]
  BY <1>0, <1>1, <1>8 DEF SendChunk, Now, Become, WithTop
<1>11. /\ g \in FrameRecord /\ g.src = f.src /\ g.dst = f.dst /\ g.act = "read"
       /\ g.listed = f.listed /\ g.seen = f.seen
  <2>1. f.pos + 1 \in Nat
    BY <1>3 DEF FrameRecord
  <2> QED BY <1>0, <1>2, <1>3, <2>1 DEF FrameRecord
<1>12. PlaceOK(r, g)
  BY <1>2, <1>3, <1>11 DEF PlaceOK
<1>13. Local(a) /\ a.pc = "copy" /\ a.from = r.from /\ a.to = r.to /\ a.req = r.req
  BY <1>3, <1>8, <1>11, <1>12, LocalTop
<1>14. ASSUME Calm(t)
       PROVE  CalmOK(a, tree[a.from], tree[a.to], data, (Own(t) \ {w}) \cup {v})
  <2>1. PICK S, D, W, W2 : /\ S = tree[r.from] /\ D = tree[r.to] /\ W = Own(t)
                           /\ W2 = (W \ {w}) \cup {v}
    OBVIOUS
  <2>2. Setting(r, S, D, data, W) /\ CalmOK(r, S, D, data, W)
    BY <1>1, <1>14, <2>1, CalmHere
  <2>3. Contents(f.ino) = data[f.ino]
    BY <1>1, <1>2, <1>14, CalmContents
  <2>4. f.pos < Len(data[f.ino]) /\ v = [w EXCEPT !.queue = Append(@, data[f.ino][f.pos + 1])]
    BY <1>2, <1>5, <1>6, <2>3
  <2>5. w \in W
    BY <1>4, <2>1 DEF Own
  <2>6. W2 = (W \ {w}) \cup {[w EXCEPT !.queue = Append(@, data[f.ino][f.pos + 1])]}
    BY <2>1, <2>4
  <2>7. CalmOK(WithTop(r, g), S, D, data, W2)
    BY <1>0, <1>2, <1>3, <1>4, <1>11, <2>2, <2>4, <2>5, <2>6, ChunkSent
  <2> QED BY <1>8, <1>13, <2>1, <2>7
<1> QED
  BY <1>1, <1>2, <1>4, <1>7, <1>9, <1>10, <1>13, <1>14, SentGoes DEF Early

LEMMA FileCopiedGoes ==
    ASSUME WInv, NEW t \in Threads, FileCopied(t)
    PROVE  Goes(t)
<1>1. PICK r, f, w : r = thread[t] /\ f = Top(t) /\ w = Writer(t)
  OBVIOUS
<1>2. /\ At(t, "copy") /\ f.act = "read" /\ f.pos >= Len(Contents(f.ino))
      /\ tree' = tree /\ data' = data /\ disturbed' = disturbed
  BY <1>1 DEF FileCopied, Doing, fsVars
<1>3. /\ r \in ThreadRecord /\ r.pc = "copy" /\ r.work # <<>> /\ f = r.work[1]
      /\ f \in FrameRecord /\ PlaceOK(r, f) /\ Local(r)
      /\ r.req \in Requests /\ r.req.op = "copy" /\ r.from \in SS /\ r.to \in SS
  BY <1>1, <1>2, CopyTop
<1>4. w \in writers /\ w \in WriterRecord /\ w.by = t /\ w.path = f.dst
  BY <1>1, <1>2, WriterFacts DEF WInv, TInv
<1>5. PICK v : v = [w EXCEPT !.open = FALSE]
  OBVIOUS
<1>6. v.by = t /\ v.path = w.path /\ v.ino = w.ino
  BY <1>4, <1>5 DEF WriterRecord
<1>7. PICK b : b = Finished(t)
  OBVIOUS
<1>8. writers' = (writers \ {w}) \cup {v} /\ thread' = [thread EXCEPT ![t] = b]
  BY <1>1, <1>5, <1>7 DEF FileCopied, Sent, Become
<1>9. /\ b.req = r.req /\ b.from = r.from /\ b.to = r.to /\ Gone1(r, b)
      /\ IF Len(r.work) > 1 THEN TRUE ELSE b.pc = "table"
  BY <1>1, <1>3, <1>7, FinishedIs
<1>10. Local(b)
  BY <1>3, <1>9, LocalPop
<1>11. b.pc \notin Early
  BY <1>3, <1>9 DEF Gone1, Early
<1>12. ASSUME Calm(t)
       PROVE  CalmOK(b, tree[b.from], tree[b.to], data, (Own(t) \ {w}) \cup {v})
  <2>1. PICK S, D, W, W2 : /\ S = tree[r.from] /\ D = tree[r.to] /\ W = Own(t)
                           /\ W2 = (W \ {w}) \cup {v}
    OBVIOUS
  <2>2. Setting(r, S, D, data, W) /\ CalmOK(r, S, D, data, W)
    BY <1>1, <1>12, <2>1, CalmHere
  <2>3. Contents(f.ino) = data[f.ino] /\ Len(data[f.ino]) \in Nat
    BY <1>1, <1>2, <1>12, CalmContents
  <2>4. ~ (f.pos < Len(data[f.ino]))
    BY <1>2, <1>3, <2>3 DEF FrameRecord
  <2>5. w \in W
    BY <1>4, <2>1 DEF Own
  <2>6. W2 = (W \ {w}) \cup {[w EXCEPT !.open = FALSE]}
    BY <1>5, <2>1
  <2>7. CalmOK(b, S, D, data, W2)
    BY <1>2, <1>3, <1>9, <2>2, <2>4, <2>5, <2>6, FileDone
  <2> QED BY <1>9, <2>1, <2>7
<1> QED
  BY <1>1, <1>2, <1>4, <1>6, <1>8, <1>9, <1>10, <1>11, <1>12, SentGoes

-----------------------------------------------------------------------------
LEMMA ThreadStepGoes ==
    ASSUME WInv, NEW t \in Threads, ThreadStep(t)
    PROVE  Goes(t)
<1>1. CASE CopyStep(t)
  BY <1>1, StatEntryGoes, CreateEntryGoes, NoConnectionGoes, OpenFolderGoes, ReadEntryGoes,
     FolderCopiedGoes, OpenAtDestinationGoes, OpenAtSourceGoes, SendChunkGoes, FileCopiedGoes
     DEF CopyStep
<1>2. CASE ~ CopyStep(t)
  BY <1>2, LookupSourceGoes, LookupTargetGoes, LookupParentGoes, PickServerGoes, ConnectGoes,
     ConnectFailsGoes, CheckSourceGoes, ReceiveTableGoes, AddRowGoes, RowsAddedGoes,
     CreatePrimaryGoes, CreateBackupGoes, AddCreatedGoes, DeletePrimaryGoes, DeleteBackupGoes,
     ForgetGoes, SendAnswerGoes
     DEF ThreadStep
<1> QED
  BY <1>1, <1>2

(* The WRITE handlers: a chunk goes from the queue to the file. *)
LEMMA WriterGoes ==
    ASSUME WInv, NEW w \in writers, NEW t, t = w.by, thread' = thread, tree' = tree,
           disturbed' = disturbed,
           \A i \in DOMAIN data : i # w.ino => data'[i] = data[i],
           \A v \in writers' : \E u \in writers : v.by = u.by /\ v.path = u.path /\ v.ino = u.ino,
           \A u \in Threads \ {t} : Own(u)' = Own(u),
           Calm(t) => LET r == thread[t] IN
              CalmOK(r, tree[r.from], tree[r.to], data', Own(t)')
    PROVE  t \in Threads /\ AtWork(t) /\ Goes(t)
<1>1. /\ t \in Threads /\ w.ino \in DOMAIN data
      /\ \A s \in SS, p \in Path : tree[s][p] > Folder <=> tree[s][p] \in DOMAIN data
  BY InodeFacts DEF WInv, TInv
<1>2. AtWork(t)
  BY DEF AtWork
<1>3. /\ Is(t, "copy") /\ IsPrefix(thread[t].req.dest, w.path)
      /\ \A s \in SS, p \in Path : tree[s][p] = w.ino => p = w.path
  BY DEF WInv, StreamPlaces
<1>4. Under(t, w.path)
  BY <1>3 DEF Under, Paths, Is
<1>5. Disks(t)
  BY <1>1, <1>3, <1>4 DEF Disks
<1>6. OneFile'
  BY DEF WInv, OneFile
<1>7. StreamPlaces'
  <2> SUFFICES ASSUME NEW v \in writers'
               PROVE  /\ Is(v.by, "copy")' /\ thread'[v.by].pc \notin Early
                      /\ IsPrefix(thread'[v.by].req.dest, v.path)
                      /\ \A s \in SS, p \in Path : tree'[s][p] = v.ino => p = v.path
    BY DEF StreamPlaces
  <2>1. PICK u \in writers : v.by = u.by /\ v.path = u.path /\ v.ino = u.ino
    OBVIOUS
  <2>2. /\ Is(u.by, "copy") /\ thread[u.by].pc \notin Early
        /\ IsPrefix(thread[u.by].req.dest, u.path)
        /\ \A s \in SS, p \in Path : tree[s][p] = u.ino => p = u.path
    BY DEF WInv, StreamPlaces
  <2> QED BY <2>1, <2>2 DEF Is
<1>8. Local(thread'[t])
  BY <1>1 DEF WInv, Locals
<1>9. Calm(t)' => LET r == thread'[t] IN
         CalmOK(r, tree'[r.from], tree'[r.to], data', Own(t)')
  BY DEF Calm, Is, At
<1> QED
  BY <1>1, <1>2, <1>5, <1>6, <1>7, <1>8, <1>9 DEF Goes

LEMMA WriteChunkGoes ==
    ASSUME WInv, NEW w \in writers, WriteChunk(w)
    PROVE  w.by \in Threads /\ AtWork(w.by) /\ Goes(w.by)
<1>1. PICK t : t = w.by
  OBVIOUS
<1>2. PICK v : v = [w EXCEPT !.pos = @ + 1, !.queue = Tail(@)]
  OBVIOUS
<1>3. /\ w.queue # <<>> /\ thread' = thread /\ tree' = tree /\ disturbed' = disturbed
      /\ writers' = (writers \ {w}) \cup {v}
      /\ data' = [data EXCEPT ![w.ino] = Overwrite(@, w.pos, Head(w.queue))]
  BY <1>2 DEF WriteChunk
<1>4. w \in WriterRecord /\ t \in Threads
  BY <1>1, InodeFacts DEF WInv, TInv, IInv, TypeOK
<1>5. v.by = w.by /\ v.path = w.path /\ v.ino = w.ino
  BY <1>2, <1>4 DEF WriterRecord
<1>6. \A i \in DOMAIN data : i # w.ino => data'[i] = data[i]
  BY <1>3
<1>7. \A x \in writers' : \E u \in writers : x.by = u.by /\ x.path = u.path /\ x.ino = u.ino
  BY <1>3, <1>5
<1>8. \A u \in Threads \ {t} : Own(u)' = Own(u)
  BY <1>1, <1>3, <1>5 DEF Own
<1>9. Own(t)' = (Own(t) \ {w}) \cup {v}
  BY <1>1, <1>3, <1>5 DEF Own
<1>10. ASSUME Calm(t)
       PROVE  LET r == thread[t] IN CalmOK(r, tree[r.from], tree[r.to], data', Own(t)')
  <2>1. PICK r : r = thread[t]
    OBVIOUS
  <2>2. PICK S, D, W, W2 : S = tree[r.from] /\ D = tree[r.to] /\ W = Own(t) /\ W2 = Own(t)'
    OBVIOUS
  <2>3. Setting(r, S, D, data, W) /\ CalmOK(r, S, D, data, W)
    BY <1>4, <1>10, <2>1, <2>2, CalmHere
  <2>4. r.pc = "copy" \/ r.copied
    BY <1>10, <2>1 DEF Calm, At
  <2>5. w \in W
    BY <1>1, <2>2 DEF Own
  <2>6. W2 = (W \ {w}) \cup {[w EXCEPT !.pos = @ + 1, !.queue = Tail(@)]}
    BY <1>2, <1>9, <2>2
  <2>7. CalmOK(r, S, D, data', W2)
    BY <1>3, <2>3, <2>4, <2>5, <2>6, ChunkStored
  <2> QED BY <2>1, <2>2, <2>7
<1> QED
  BY <1>1, <1>3, <1>6, <1>7, <1>8, <1>10, WriterGoes

LEMMA EndWriteGoes ==
    ASSUME WInv, NEW w \in writers, EndWrite(w)
    PROVE  w.by \in Threads /\ AtWork(w.by) /\ Goes(w.by)
<1>1. PICK t : t = w.by
  OBVIOUS
<1>2. /\ w.queue = <<>> /\ thread' = thread /\ tree' = tree /\ disturbed' = disturbed
      /\ writers' = writers \ {w} /\ data' = data
  BY DEF EndWrite, fsVars
<1>3. t \in Threads
  BY <1>1, InodeFacts DEF WInv, TInv
<1>4. \A u \in Threads \ {t} : Own(u)' = Own(u)
  BY <1>1, <1>2 DEF Own
<1>5. Own(t)' = Own(t) \ {w}
  BY <1>2 DEF Own
<1>6. ASSUME Calm(t)
      PROVE  LET r == thread[t] IN CalmOK(r, tree[r.from], tree[r.to], data', Own(t)')
  <2>1. PICK r : r = thread[t]
    OBVIOUS
  <2>2. PICK S, D, W, W2 : S = tree[r.from] /\ D = tree[r.to] /\ W = Own(t) /\ W2 = Own(t)'
    OBVIOUS
  <2>3. Setting(r, S, D, data, W) /\ CalmOK(r, S, D, data, W)
    BY <1>3, <1>6, <2>1, <2>2, CalmHere
  <2>4. w \in W
    BY <1>1, <2>2 DEF Own
  <2>5. W2 = W \ {w}
    BY <1>5, <2>2
  <2>6. CalmOK(r, S, D, data, W2)
    BY <1>2, <2>3, <2>4, <2>5, StreamEnded
  <2> QED BY <1>2, <2>1, <2>2, <2>6
<1>7. \A v \in writers' : \E u \in writers : v.by = u.by /\ v.path = u.path /\ v.ino = u.ino
  BY <1>2
<1>8. \A i \in DOMAIN data : i # w.ino => data'[i] = data[i]
  BY <1>2
<1> QED
  BY <1>1, <1>2, <1>4, <1>6, <1>7, <1>8, WriterGoes

-----------------------------------------------------------------------------
(* A request arrives: its thread has copied nothing, and the others are    *)
(* as they were, or disturbed.                                             *)
LEMMA AcceptKeepsCopies ==
    ASSUME WInv, TInv', NEW t \in Threads, Accept(t)
    PROVE  WInv'
<1>1. PICK q \in Requests :
        thread' = [thread EXCEPT ![t] = [thread[t] EXCEPT !.req = q,
                      !.pc = IF q.op \in {"copy", "delete"} THEN "source" ELSE "target"]]
  BY DEF Accept, Become
<1>2. /\ thread[t].pc = "idle" /\ tree' = tree /\ data' = data /\ writers' = writers
      /\ disturbed \subseteq disturbed'
  BY DEF Accept, fsVars, At
<1>3. thread[t] = IdleThread /\ DOMAIN thread = Threads
  BY <1>2, WalkFacts DEF WInv, PcOK
<1>4. PICK a : a = [IdleThread EXCEPT !.req = q,
                      !.pc = IF q.op \in {"copy", "delete"} THEN "source" ELSE "target"]
  OBVIOUS
<1>5. thread'[t] = a /\ \A u \in Threads \ {t} : thread'[u] = thread[u]
  BY <1>1, <1>3, <1>4
<1>6. a.work = <<>> /\ ~ a.copied /\ a.pc \in {"source", "target"}
  BY <1>4 DEF IdleThread
<1>7. Local(a)
  <2>1. Len(<<>>) = 0
    OBVIOUS
  <2>2. 1 .. Len(a.work) = {}
    BY <1>6, <2>1
  <2> QED BY <1>6, <2>2 DEF Local
<1>8. Locals'
  BY <1>5, <1>7 DEF Locals, WInv
<1>9. OneFile'
  BY <1>2 DEF WInv, OneFile
<1>10. StreamPlaces'
  <2> SUFFICES ASSUME NEW w \in writers
               PROVE  /\ Is(w.by, "copy")' /\ thread'[w.by].pc \notin Early
                      /\ IsPrefix(thread'[w.by].req.dest, w.path)
                      /\ \A s \in SS, p \in Path : tree'[s][p] = w.ino => p = w.path
    BY <1>2 DEF StreamPlaces
  <2>1. /\ Is(w.by, "copy") /\ thread[w.by].pc \notin Early
        /\ IsPrefix(thread[w.by].req.dest, w.path)
        /\ \A s \in SS, p \in Path : tree[s][p] = w.ino => p = w.path
    BY DEF WInv, StreamPlaces
  <2>2. w.by \in Threads /\ w.by # t
    BY <1>2, <2>1, InodeFacts DEF WInv, TInv, Early
  <2> QED BY <1>2, <1>5, <2>1, <2>2 DEF Is
<1>11. ASSUME NEW u \in Threads, Calm(u)'
       PROVE  CalmOK(thread'[u], tree'[thread'[u].from], tree'[thread'[u].to], data', Own(u)')
  <2>1. u # t
    BY <1>5, <1>6, <1>11 DEF Calm, At
  <2>2. thread'[u] = thread[u] /\ Calm(u) /\ Own(u)' = Own(u)
    BY <1>2, <1>5, <1>11, <2>1 DEF Calm, Is, At, Own
  <2>3. CalmOK(thread[u], tree[thread[u].from], tree[thread[u].to], data, Own(u))
    BY <2>2 DEF WInv, Calms
  <2> QED BY <1>2, <2>2, <2>3
<1>12. Calms'
  BY <1>11 DEF Calms
<1> QED
  BY <1>8, <1>9, <1>10, <1>12 DEF WInv

LEMMA StutterKeepsCopies ==
    ASSUME WInv, TInv', UNCHANGED vars
    PROVE  WInv'
<1>1. thread' = thread /\ tree' = tree /\ data' = data /\ writers' = writers /\ disturbed' = disturbed
  BY DEF vars, fsVars
<1>2. OneFile' /\ StreamPlaces' /\ Locals'
  BY <1>1 DEF WInv, OneFile, StreamPlaces, Locals, Is
<1>3. \A t \in Threads : Calm(t)' = Calm(t) /\ Own(t)' = Own(t)
  BY <1>1 DEF Calm, Is, At, Own
<1>4. Calms'
  BY <1>1, <1>3 DEF WInv, Calms
<1> QED
  BY <1>2, <1>4 DEF WInv

LEMMA NextKeepsCopies == WInv /\ [Next]_vars => WInv'
<1> SUFFICES ASSUME WInv, [Next]_vars PROVE WInv'
  OBVIOUS
<1>1. TInv'
  BY NextKeepsRest DEF WInv
<1>2. ASSUME NEW t \in Threads, Accept(t) PROVE WInv'
  BY <1>1, <1>2, AcceptKeepsCopies
<1>3. ASSUME NEW t \in Threads, ThreadStep(t) PROVE WInv'
  <2>1. PICK r : StepOK(t, r)
    BY <1>3, ThreadStepOK DEF WInv
  <2>2. AtWork(t) /\ (\A u \in Threads \ {t} : thread'[u] = thread[u]) /\ disturbed' = disturbed
    BY <2>1, RequestsStay DEF WInv, TInv, StepOK
  <2>3. Goes(t)
    BY <1>3, ThreadStepGoes
  <2> QED BY <1>1, <2>2, <2>3, StepKeepsCopies
<1>4. ASSUME NEW w \in writers, WriteChunk(w) \/ EndWrite(w) PROVE WInv'
  <2>1. w.by \in Threads /\ AtWork(w.by) /\ Goes(w.by)
    BY <1>4, WriteChunkGoes, EndWriteGoes
  <2>2. thread' = thread /\ disturbed' = disturbed
    BY <1>4 DEF WriteChunk, EndWrite
  <2> QED BY <1>1, <2>1, <2>2, StepKeepsCopies
<1>5. CASE UNCHANGED vars
  BY <1>1, <1>5, StutterKeepsCopies
<1> QED
  BY <1>2, <1>3, <1>4, <1>5 DEF Next

LEMMA CopiesInit == Init => WInv
<1> SUFFICES ASSUME Init PROVE WInv
  OBVIOUS
<1>1. TInv
  BY RestInit
<1>2. PICK W \in Worlds : tree = W
  BY DEF Init
<1>3. thread = [t \in Threads |-> IdleThread] /\ writers = {}
  BY DEF Init
<1>4. OneFile
  BY <1>2, WorldsAssumption DEF OneFile
<1>5. StreamPlaces
  BY <1>3 DEF StreamPlaces
<1>6. IdleThread.work = <<>> /\ ~ IdleThread.copied /\ IdleThread.pc = "idle"
  BY DEF IdleThread
<1>7. Local(IdleThread)
  <2>1. Len(<<>>) = 0
    OBVIOUS
  <2>2. 1 .. Len(IdleThread.work) = {}
    BY <1>6, <2>1
  <2> QED BY <1>6, <2>2 DEF Local
<1>8. Locals /\ Calms
  BY <1>3, <1>6, <1>7 DEF Locals, Calms, Calm, At
<1> QED
  BY <1>1, <1>4, <1>5, <1>8 DEF WInv

(* What the properties say of a copy that nobody disturbs. *)
LEMMA CopySets ==
    ASSUME WInv, NEW t \in Threads, Calm(t), NEW r, r = thread[t]
    PROVE  /\ Sources(t) = Src(r, tree[r.from])
           /\ \A p : Dest(t, p) = Image(r, p)
           /\ \A i : Stored(t, i) = StoredIn(data, Own(t), i)
<1>1. \A p : Dest(t, p) = Image(r, p)
  BY DEF Dest, Image
<1>2. \A i : Stored(t, i) = StoredIn(data, Own(t), i)
  BY DEF Stored, StoredIn, Pending
<1>3. Sources(t) = Src(r, tree[r.from])
  BY DEF Sources, Src, Below, Exists, InCopy
<1> QED
  BY <1>1, <1>2, <1>3

(* When copy_ has returned 0 and nobody has been near, every entry of the  *)
(* source has arrived: the folders and files are made, and the data of     *)
(* each file are in it or with a WRITE handler that is still at work       *)
(* (client_handler.c:171 to :271).                                         *)
THEOREM CopyIsAlwaysWhole == Spec => []CopyIsWhole
<1>1. WInv => CopyIsWhole
  <2> SUFFICES ASSUME WInv, NEW t \in Threads, thread[t].copied, t \notin disturbed,
                      NEW p \in Sources(t)
               PROVE  Arrived(t, p)
    BY DEF CopyIsWhole
  <2>1. PICK r, S, D : r = thread[t] /\ S = tree[r.from] /\ D = tree[r.to]
    OBVIOUS
  <2>2. r.work = <<>> /\ r.req.op = "copy" /\ Calm(t)
    BY <2>1 DEF WInv, Locals, Local, Calm, Is
  <2>3. CalmOK(r, S, D, data, Own(t))
    BY <2>1, <2>2, CalmHere
  <2>4. p \in Src(r, S)
    BY <2>1, <2>2, CopySets
  <2>5. ~ Ahead(r, p)
    <3>1. Len(<<>>) = 0
      OBVIOUS
    <3> QED BY <2>2, <3>1 DEF Ahead
  <2>6. ArrivedIn(r, S, D, data, Own(t), p)
    BY <2>3, <2>4, <2>5 DEF CalmOK
  <2>7. PICK q : q = Image(r, p)
    OBVIOUS
  <2>8. Dest(t, p) = q /\ Stored(t, D[q]) = StoredIn(data, Own(t), D[q])
    BY <2>1, <2>2, <2>7, CopySets
  <2>9. /\ q \in Path
        /\ IF S[p] = Folder THEN D[q] = Folder
           ELSE D[q] > Folder /\ Stored(t, D[q]) = data[S[p]]
    BY <2>6, <2>7, <2>8 DEF ArrivedIn
  <2> QED BY <2>1, <2>8, <2>9 DEF Arrived
<1> QED
  BY <1>1, CopiesInit, NextKeepsCopies, PTL DEF Spec

(* Nothing but the source arrives: a folder that is copied into itself     *)
(* does not contain the copy (client_handler.c:164).                       *)
THEOREM NothingElseArrives == Spec => []NothingButTheSource
<1>1. WInv => NothingButTheSource
  <2> SUFFICES ASSUME WInv, NEW t \in Threads, Begun(t), t \notin disturbed,
                      NEW q \in Below(thread[t].to, thread[t].req.dest)
               PROVE  \E p \in Sources(t) : q = Dest(t, p)
    BY DEF NothingButTheSource
  <2>1. PICK r, S, D : r = thread[t] /\ S = tree[r.from] /\ D = tree[r.to]
    OBVIOUS
  <2>2. Calm(t)
    <3>1. CASE r.copied
      BY <2>1, <3>1 DEF WInv, Locals, Local, Calm, Is
    <3>2. CASE At(t, "copy")
      BY <2>1, <3>2, CopyTop DEF Calm
    <3> QED BY <2>1, <3>1, <3>2 DEF Begun
  <2>3. CalmOK(r, S, D, data, Own(t))
    BY <2>1, <2>2, CalmHere
  <2>4. Started(r)
    BY <2>1 DEF Begun, Started, At, Last
  <2>5. q \in Path /\ IsPrefix(r.req.dest, q) /\ D[q] # None
    BY <2>1 DEF Below, Exists
  <2>6. PICK p \in Src(r, S) : q = Image(r, p)
    BY <2>3, <2>4, <2>5 DEF CalmOK
  <2> QED BY <2>1, <2>2, <2>6, CopySets
<1> QED
  BY <1>1, CopiesInit, NextKeepsCopies, PTL DEF Spec
=============================================================================
