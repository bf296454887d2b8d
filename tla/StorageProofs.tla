--------------------------- MODULE StorageProofs ---------------------------
(***************************************************************************)
(* Proved for any number of threads, any paths, trees and requests: a      *)
(* delete removes the very file it has opened and leaves nothing behind;   *)
(* the master lock is lost only where MayLeak says; a stream that nobody   *)
(* disturbs is whole; the backup tree has the shape of the primary one.    *)
(*                                                                         *)
(* The first half is about IInv, action by action.  The second half is     *)
(* about StoreInv.  It replaces the actions by what they make of the       *)
(* record of their thread (Moves: a dozen kinds of move instead of the     *)
(* twenty-three actions), shows for each part of StoreInv that a move keeps*)
(* it, and ends in the theorems.                                           *)
(***************************************************************************)
EXTENDS StorageServer, SequenceTheorems, WellFoundedInduction, TLAPS

(* Opening a file with "w" keeps files and trees well typed, changes the   *)
(* place of the file only, and leaves a file there.                        *)
LEMMA TruncateFacts ==
    ASSUME TypeOK, NEW r \in Roots, NEW p \in Path, CanOpen(r, p), Truncate(r, p)
    PROVE  /\ data' \in [Roots -> Seq(Seq(Authors))]
           /\ DOMAIN tree' = Roots
           /\ \A s \in Roots :
                /\ tree'[s] \in [Path -> None .. Len(data'[s])]
                /\ \A a, b \in Path :
                     tree'[s][a] = tree'[s][b] /\ tree'[s][a] > Folder => a = b
           /\ tree'[r][p] = Inode(r, p) /\ Inode(r, p) > Folder
           /\ \A s \in Roots, a \in Path : tree[s][a] > Folder => tree'[s][a] = tree[s][a]
           /\ \A s \in Roots : Len(data'[s]) >= Len(data[s])
<1> DEFINE n == Len(data[r])
           i == Inode(r, p)
           d == IF Exists(r, p) THEN [data[r] EXCEPT ![tree[r][p]] = <<>>]
                ELSE Append(data[r], <<>>)
<1>1. data[r] \in Seq(Seq(Authors)) /\ n \in Nat
  BY DEF TypeOK
<1>2. tree[r] \in [Path -> None .. n] /\ tree[r][p] \in None .. n /\ tree[r][p] # Folder
  BY DEF TypeOK, CanOpen
<1>3. <<>> \in Seq(Authors)
  OBVIOUS
<1>4. d \in Seq(Seq(Authors)) /\ Len(d) \in Nat /\ n <= Len(d) /\ i \in 1 .. Len(d)
  <2>1. CASE Exists(r, p)
    <3>1. tree[r][p] \in 1 .. n
      BY <1>1, <1>2, <2>1 DEF Exists, None, Folder
    <3>2. d = [data[r] EXCEPT ![tree[r][p]] = <<>>]
      BY <2>1
    <3>3. d \in Seq(Seq(Authors)) /\ Len(d) = n
      BY <1>1, <1>3, <3>1, <3>2
    <3>4. QED
      BY <1>1, <2>1, <3>1, <3>3 DEF Inode
  <2>2. CASE ~ Exists(r, p)
    BY <1>1, <1>3, <2>2 DEF Inode
  <2>3. QED
    BY <2>1, <2>2
<1>5. data' = [data EXCEPT ![r] = d] /\ tree' = [tree EXCEPT ![r][p] = i]
  BY DEF Truncate
<1>6. data' \in [Roots -> Seq(Seq(Authors))] /\ DOMAIN tree' = Roots
  BY <1>4, <1>5 DEF TypeOK
<1>7. data'[r] = d /\ tree'[r] = [tree[r] EXCEPT ![p] = i]
  BY <1>5 DEF TypeOK
<1>8. \A s \in Roots \ {r} : data'[s] = data[s] /\ tree'[s] = tree[s]
  BY <1>5 DEF TypeOK
<1>9. i \in None .. Len(d) /\ i > Folder
  BY <1>4 DEF None, Folder
<1>10. \A a \in Path : a # p => tree[r][a] # i
  <2>1. CASE Exists(r, p)
    BY <2>1, <1>9 DEF Inode, TypeOK
  <2>2. CASE ~ Exists(r, p)
    BY <2>2, <1>1 DEF Inode, TypeOK, None
  <2>3. QED
    BY <2>1, <2>2
<1> HIDE DEF d, i, n
<1>11. ASSUME NEW s \in Roots
       PROVE  /\ tree'[s] \in [Path -> None .. Len(data'[s])]
              /\ \A a, b \in Path :
                   tree'[s][a] = tree'[s][b] /\ tree'[s][a] > Folder => a = b
  <2>1. CASE s # r
    BY <1>8, <2>1 DEF TypeOK
  <2>2. CASE s = r
    <3>1. \A a \in Path : tree'[r][a] = IF a = p THEN i ELSE tree[r][a]
      BY <1>7, <1>2
    <3>2. tree'[r] \in [Path -> None .. Len(d)]
      BY <1>1, <1>2, <1>4, <1>7, <1>9 DEF None
    <3>3. QED
      BY <2>2, <3>1, <3>2, <1>7, <1>10 DEF TypeOK
  <2>3. QED
    BY <2>1, <2>2
<1>12. tree'[r][p] = i
  BY <1>7, <1>2
<1>13. ASSUME NEW s \in Roots, NEW a \in Path, tree[s][a] > Folder
       PROVE  tree'[s][a] = tree[s][a]
  <2>1. CASE s # r \/ a # p
    BY <1>2, <1>7, <1>8, <2>1
  <2>2. CASE s = r /\ a = p
    BY <1>12, <1>13, <2>2 DEF i, Inode, Exists, None, Folder
  <2>3. QED
    BY <2>1, <2>2
<1>14. \A s \in Roots : Len(data'[s]) >= Len(data[s])
  <2>1. Len(data'[r]) >= Len(data[r])
    BY <1>4, <1>7 DEF n
  <2>2. \A s \in Roots \ {r} : Len(data'[s]) = Len(data[s]) /\ Len(data[s]) \in Nat
    BY <1>8 DEF TypeOK
  <2>3. QED
    BY <2>1, <2>2
<1>15. QED
  BY <1>6, <1>9, <1>11, <1>12, <1>13, <1>14 DEF i

-----------------------------------------------------------------------------
(* The stack of a delete.                                                  *)

(* New frames have their type.                                             *)
LEMMA FrameType ==
    ASSUME NEW act \in Acts, NEW p \in Path
    PROVE  /\ Frame(act, p) \in FrameRecord
           /\ Frame(act, p).act = act /\ Frame(act, p).path = p
BY DEF Frame, FrameRecord, None

(* Taking the top frame off a stack, or putting one or two in its place,   *)
(* leaves a stack in which only folders wait below the top.                *)
LEMMA StackFacts ==
    ASSUME NEW w \in Seq(FrameRecord), w # <<>>,
           \A k \in 2 .. Len(w) : w[k].act = "list",
           NEW f \in FrameRecord, NEW g \in FrameRecord, g.act = "list"
    PROVE  /\ Head(w) \in FrameRecord
           /\ Tail(w) \in Seq(FrameRecord)
           /\ \A k \in 1 .. Len(Tail(w)) : Tail(w)[k].act = "list"
           /\ << f >> \o Tail(w) \in Seq(FrameRecord)
           /\ << f >> \o Tail(w) # <<>> /\ Head(<< f >> \o Tail(w)) = f
           /\ \A k \in 2 .. Len(<< f >> \o Tail(w)) : (<< f >> \o Tail(w))[k].act = "list"
           /\ << f, g >> \o Tail(w) \in Seq(FrameRecord)
           /\ << f, g >> \o Tail(w) # <<>> /\ Head(<< f, g >> \o Tail(w)) = f
           /\ \A k \in 2 .. Len(<< f, g >> \o Tail(w)) :
                 (<< f, g >> \o Tail(w))[k].act = "list"
<1>1. /\ Len(w) \in Nat \ {0} /\ Head(w) \in FrameRecord
      /\ Tail(w) \in Seq(FrameRecord) /\ Len(Tail(w)) = Len(w) - 1
      /\ \A k \in 1 .. Len(Tail(w)) : Tail(w)[k] = w[k + 1]
  BY HeadTailProperties, EmptySeq
<1>2. \A k \in 1 .. Len(Tail(w)) : Tail(w)[k].act = "list"
  BY <1>1
<1>3. << f >> \in Seq(FrameRecord) /\ << f, g >> \in Seq(FrameRecord)
      /\ Len(<< f >>) = 1 /\ Len(<< f, g >>) = 2
  OBVIOUS
<1> DEFINE a == << f >> \o Tail(w)
           b == << f, g >> \o Tail(w)
<1>4. /\ a \in Seq(FrameRecord) /\ Len(a) = 1 + Len(Tail(w))
      /\ \A k \in 1 .. Len(a) : a[k] = IF k <= 1 THEN f ELSE Tail(w)[k - 1]
  BY <1>1, <1>3, ConcatProperties
<1>5. /\ b \in Seq(FrameRecord) /\ Len(b) = 2 + Len(Tail(w))
      /\ \A k \in 1 .. Len(b) : b[k] = IF k = 1 THEN f ELSE IF k = 2 THEN g ELSE Tail(w)[k - 2]
  BY <1>1, <1>3, ConcatProperties
<1> HIDE DEF a, b
<1>6. a # <<>> /\ Head(a) = f /\ \A k \in 2 .. Len(a) : a[k].act = "list"
  BY <1>1, <1>2, <1>4
<1>7. b # <<>> /\ Head(b) = f /\ \A k \in 2 .. Len(b) : b[k].act = "list"
  BY <1>1, <1>2, <1>5
<1>8. QED
  BY <1>1, <1>2, <1>4, <1>5, <1>6, <1>7 DEF a, b

-----------------------------------------------------------------------------
(* A step of thread t.                                                     *)

FsTyped ==
    /\ data \in [Roots -> Seq(Seq(Authors))]
    /\ DOMAIN tree = Roots
    /\ \A r \in Roots :
        /\ tree[r] \in [Path -> None .. Len(data[r])]
        /\ \A p, q \in Path : tree[r][p] = tree[r][q] /\ tree[r][p] > Folder => p = q

HistTyped ==
    raced \subseteq Threads /\ alone \subseteq Threads /\ made \in [Threads -> SUBSET Path]

RecordRemoves(q) == q.pc = "delete" /\ Head(q.work).act = "remove"
RecordHolds(q) ==
    \/ q.pc = "open"
    \/ q.pc = "delete" /\ Head(q.work).act \in {"open", "remove"}

(* The lock has one holder at most.                                        *)
LEMMA OneHolder ==
    ASSUME IInv, NEW t \in Threads
    PROVE  /\ Holds(t) => \A u \in Threads \ {t} : ~ Holds(u)
           /\ master = Nobody => \A u \in Threads : ~ Holds(u)
BY StorageAssumption DEF IInv

(* What a step of thread t has to keep for the invariant to be kept: the   *)
(* types, its own record, the lock while it or another thread holds it, and*)
(* the file that another thread is removing.                               *)
LEMMA ThreadUpdate ==
    ASSUME IInv, NEW t \in Threads, NEW q \in ThreadRecord, ThreadOK(q),
           Become(t, q), FsTyped', HistTyped',
           data' = data \/ Len(data'["primary"]) >= Len(data["primary"]),
           FileOpen(q) \/ q.ino \in Folder .. Len(data'["primary"]),
           master' \in Threads \cup {Nobody},
           \A u \in Threads \ {t} : Holds(u) => master' = u,
           RecordHolds(q) => master' = t,
           \A u \in Threads \ {t} : Doing(u, "remove") =>
               tree'[thread[u].root][Top(u).path] = tree[thread[u].root][Top(u).path],
           RecordRemoves(q) => /\ Head(q.work).ino > Folder
                               /\ tree'[q.root][Head(q.work).path] = Head(q.work).ino
    PROVE  IInv'
<1>1. thread' = [thread EXCEPT ![t] = q] /\ thread \in [Threads -> ThreadRecord]
  BY DEF Become, IInv, TypeOK
<1>2. thread'[t] = q /\ \A u \in Threads \ {t} : thread'[u] = thread[u]
  BY <1>1
<1>3. TypeOK'
  BY <1>1 DEF TypeOK, FsTyped, HistTyped
<1>4. \A u \in Threads : ThreadOK(thread'[u])
  BY <1>2 DEF IInv
<1>5. \A u \in Threads : Holds(u)' => master' = u
  BY <1>2 DEF Holds, Doing, Top, RecordHolds
<1>6. \A u \in Threads : Doing(u, "remove")' => Top(u)'.ino > Folder
  BY <1>2 DEF IInv, Doing, Top, RecordRemoves
<1>7. DeleteRemovesWhatItOpened'
  BY <1>2 DEF IInv, DeleteRemovesWhatItOpened, Doing, Top, RecordRemoves
<1>8. data["primary"] \in Seq(Seq(Authors)) /\ data'["primary"] \in Seq(Seq(Authors))
  BY DEF IInv, TypeOK, FsTyped, Roots
<1>9. \A u \in Threads : FileOpen(thread[u])'
  BY <1>2, <1>8 DEF IInv, FileOpen, Folder
<1>10. QED
  BY <1>3, <1>4, <1>5, <1>6, <1>7, <1>9 DEF IInv

(* A step that changes no file and no tree, and the lock only to take it   *)
(* when it is free or to give up one's own.                                *)
LEMMA QuietUpdate ==
    ASSUME IInv, NEW t \in Threads, NEW q \in ThreadRecord, ThreadOK(q),
           Become(t, q), UNCHANGED fsVars, HistTyped',
           \/ master' = master /\ (RecordHolds(q) => Holds(t))
           \/ master = Nobody /\ master' = t
           \/ Holds(t) /\ master' = Nobody /\ ~ RecordHolds(q),
           ~ RecordRemoves(q), FileOpen(q)
    PROVE  IInv'
<1>1. FsTyped'
  BY DEF IInv, TypeOK, FsTyped, fsVars
<1>2. tree' = tree
  BY DEF fsVars
<1>3. master' \in Threads \cup {Nobody}
  BY DEF IInv, TypeOK
<1>4. \A u \in Threads \ {t} : Holds(u) => master' = u
  BY OneHolder DEF IInv
<1>5. RecordHolds(q) => master' = t
  BY DEF IInv
<1>6. QED
  BY <1>1, <1>2, <1>3, <1>4, <1>5, ThreadUpdate DEF fsVars

-----------------------------------------------------------------------------
(* The records the actions leave behind.                                   *)

(* A thread that deletes has a stack of the shape StackFacts asks for.     *)
LEMMA DeletingStack ==
    ASSUME IInv, NEW t \in Threads, thread[t].pc = "delete"
    PROVE  /\ thread[t].work \in Seq(FrameRecord) /\ thread[t].work # <<>>
           /\ \A k \in 2 .. Len(thread[t].work) : thread[t].work[k].act = "list"
           /\ Top(t) \in FrameRecord
<1>1. thread[t] \in ThreadRecord /\ ThreadOK(thread[t])
  BY DEF IInv, TypeOK
<1>2. /\ thread[t].work \in Seq(FrameRecord) /\ thread[t].work # <<>>
      /\ \A k \in 2 .. Len(thread[t].work) : thread[t].work[k].act = "list"
  BY <1>1 DEF ThreadOK, ThreadRecord
<1>3. Head(thread[t].work) \in FrameRecord
  BY <1>2, HeadTailProperties
<1>4. QED
  BY <1>2, <1>3 DEF Top

(* An answered thread holds nothing.                                       *)
LEMMA AnswerRecord ==
    ASSUME IInv, NEW t \in Threads, thread[t].pc # "idle", NEW resp \in Responses
    PROVE  LET q == [thread[t] EXCEPT !.pc = "done", !.work = <<>>, !.resp = resp]
           IN  q \in ThreadRecord /\ ThreadOK(q) /\ ~ RecordHolds(q) /\ ~ RecordRemoves(q) /\ FileOpen(q)
<1> DEFINE q == [thread[t] EXCEPT !.pc = "done", !.work = <<>>, !.resp = resp]
<1>1. thread[t] \in ThreadRecord /\ ThreadOK(thread[t])
  BY DEF IInv, TypeOK
<1>2. q \in ThreadRecord
  <2>1. <<>> \in Seq(FrameRecord) /\ "done" \in Pcs
    BY DEF Pcs
  <2>2. QED
    BY <1>1, <2>1 DEF ThreadRecord
<1>3. q.pc = "done" /\ q.work = <<>> /\ q.req = thread[t].req
  BY <1>1 DEF ThreadRecord
<1> HIDE DEF q
<1>4. ThreadOK(q) /\ ~ RecordHolds(q) /\ ~ RecordRemoves(q) /\ FileOpen(q)
  BY <1>1, <1>3 DEF ThreadOK, RecordHolds, RecordRemoves, FileOpen
<1>5. QED
  BY <1>2, <1>4 DEF q

(* So does a thread that goes on with the backup tree.                     *)
LEMMA SucceededRecord ==
    ASSUME IInv, NEW t \in Threads, thread[t].pc \in {"create", "delete"}
    PROVE  /\ Succeeded(t) \in ThreadRecord /\ ThreadOK(Succeeded(t))
           /\ ~ RecordHolds(Succeeded(t)) /\ ~ RecordRemoves(Succeeded(t)) /\ FileOpen(Succeeded(t))
<1>1. /\ thread[t] \in ThreadRecord /\ ThreadOK(thread[t])
      /\ thread[t].req \in Requests
      /\ thread[t].pc = "delete" <=> thread[t].req.op = "delete"
  BY DEF IInv, TypeOK, ThreadOK
<1>2. CASE thread[t].req.port = "nm" /\ thread[t].root = "primary"
  <2> DEFINE w == IF thread[t].req.op = "delete"
                  THEN << Frame("stat", thread[t].req.path) >> ELSE <<>>
             q == [thread[t] EXCEPT !.root = "backup", !.work = w]
  <2>1. Succeeded(t) = q
    BY <1>2 DEF Succeeded
  <2>2. thread[t].req.path \in Path
    BY <1>1, StorageAssumption
  <2>3. /\ Frame("stat", thread[t].req.path) \in FrameRecord
        /\ Frame("stat", thread[t].req.path).act = "stat"
    BY <2>2, FrameType DEF Acts
  <2>4. /\ w \in Seq(FrameRecord) /\ Len(w) \in 0 .. 1
        /\ w # <<>> <=> thread[t].req.op = "delete"
        /\ w # <<>> => Head(w).act = "stat"
    BY <2>3
  <2> HIDE DEF w
  <2>5. /\ q \in ThreadRecord /\ q.pc = thread[t].pc /\ q.work = w
        /\ q.req = thread[t].req
    BY <1>1, <2>4 DEF ThreadRecord, Roots
  <2> HIDE DEF q
  <2>6. ThreadOK(q)
    BY <1>1, <2>4, <2>5 DEF ThreadOK
  <2>7. ~ RecordHolds(q) /\ ~ RecordRemoves(q) /\ FileOpen(q)
    BY <1>1, <2>4, <2>5 DEF RecordHolds, RecordRemoves, FileOpen
  <2>8. QED
    BY <2>1, <2>5, <2>6, <2>7
<1>3. CASE ~ (thread[t].req.port = "nm" /\ thread[t].root = "primary")
  BY <1>3, AnswerRecord DEF Succeeded, Responses
<1>4. QED
  BY <1>2, <1>3

(* So does a thread whose delete of one entry has returned 0.              *)
LEMMA DeletedRecord ==
    ASSUME IInv, NEW t \in Threads, thread[t].pc = "delete"
    PROVE  /\ Deleted(t) \in ThreadRecord /\ ThreadOK(Deleted(t))
           /\ ~ RecordHolds(Deleted(t)) /\ ~ RecordRemoves(Deleted(t)) /\ FileOpen(Deleted(t))
<1>1. CASE Len(thread[t].work) > 1
  <2> DEFINE w == Tail(thread[t].work)
             q == [thread[t] EXCEPT !.work = w]
  <2>1. thread[t] \in ThreadRecord /\ ThreadOK(thread[t])
    BY DEF IInv, TypeOK
  <2>2. /\ w \in Seq(FrameRecord)
        /\ \A k \in 1 .. Len(w) : w[k].act = "list"
        /\ Len(w) = Len(thread[t].work) - 1 /\ Len(thread[t].work) \in Nat
        /\ w[1] = Head(w)
    BY <1>1, DeletingStack, StackFacts, HeadTailProperties
  <2> HIDE DEF w
  <2>3. w # <<>> /\ Head(w).act = "list"
    BY <1>1, <2>2
  <2>4. /\ q \in ThreadRecord /\ q.pc = "delete" /\ q.work = w
        /\ q.req = thread[t].req
    BY <2>1, <2>2 DEF ThreadRecord
  <2>5. Deleted(t) = q
    BY <1>1 DEF Deleted, w
  <2> HIDE DEF q
  <2>6. ThreadOK(q) /\ ~ RecordHolds(q) /\ ~ RecordRemoves(q) /\ FileOpen(q)
    BY <2>1, <2>2, <2>3, <2>4 DEF ThreadOK, RecordHolds, RecordRemoves, FileOpen
  <2>7. QED
    BY <2>4, <2>5, <2>6
<1>2. CASE ~ (Len(thread[t].work) > 1)
  BY <1>2, SucceededRecord DEF Deleted
<1>3. QED
  BY <1>1, <1>2

(* A new frame for the entry at work: what the thread holds then is in it. *)
LEMMA NowRecord ==
    ASSUME IInv, NEW t \in Threads, thread[t].pc = "delete", NEW f \in FrameRecord
    PROVE  LET q == [thread[t] EXCEPT !.work = << f >> \o Tail(@)]
           IN  /\ q \in ThreadRecord /\ ThreadOK(q) /\ q.root = thread[t].root
               /\ Head(q.work) = f
               /\ RecordHolds(q) <=> f.act \in {"open", "remove"}
               /\ RecordRemoves(q) <=> f.act = "remove"
               /\ FileOpen(q)
<1> DEFINE w == << f >> \o Tail(thread[t].work)
           q == [thread[t] EXCEPT !.work = w]
<1>1. thread[t] \in ThreadRecord /\ ThreadOK(thread[t])
  BY DEF IInv, TypeOK
<1>2. PICK g \in FrameRecord : g.act = "list"
  <2>1. [act |-> "list", path |-> Top(t).path, listed |-> {}, seen |-> {}, ino |-> 0]
        \in FrameRecord
    BY DeletingStack DEF FrameRecord, Acts
  <2>2. QED
    BY <2>1
<1>3. /\ w \in Seq(FrameRecord) /\ w # <<>> /\ Head(w) = f
      /\ \A k \in 2 .. Len(w) : w[k].act = "list"
  BY <1>2, DeletingStack, StackFacts
<1> HIDE DEF w
<1>4. /\ q \in ThreadRecord /\ q.pc = "delete" /\ q.work = w
      /\ q.req = thread[t].req /\ q.root = thread[t].root
  BY <1>1, <1>3 DEF ThreadRecord
<1>5. q = [thread[t] EXCEPT !.work = << f >> \o Tail(@)]
  BY DEF w
<1> HIDE DEF q
<1>6. ThreadOK(q)
  BY <1>1, <1>3, <1>4 DEF ThreadOK
<1>7. QED
  BY <1>3, <1>4, <1>5, <1>6 DEF RecordHolds, RecordRemoves, FileOpen

-----------------------------------------------------------------------------
(* The actions. *)

(* Nothing but the thread changes. *)
LEMMA QuietFacts ==
    ASSUME IInv, NEW t \in Threads
    PROVE  /\ thread[t] \in ThreadRecord /\ ThreadOK(thread[t])
           /\ HistTyped /\ FsTyped
           /\ UNCHANGED histVars => HistTyped'
           /\ UNCHANGED fsVars => FsTyped'
BY DEF IInv, TypeOK, HistTyped, FsTyped, histVars, fsVars

(* A request is received. *)
LEMMA AcceptKeeps ==
    ASSUME IInv, NEW t \in Threads, Accept(t)
    PROVE  IInv'
<1>1. PICK e \in Requests :
        LET first == CASE e.op \in {"create", "mkdir"} -> "create"
                       [] e.op = "delete" -> "delete"
                       [] e.op = "read" -> "exists"
                       [] e.op = "write" -> "lock"
        IN  /\ Become(t, [thread[t] EXCEPT !.pc = first, !.req = e,
                             !.work = IF e.op = "delete"
                                      THEN << Frame("stat", e.path) >> ELSE @])
            /\ raced' \subseteq Threads
  BY DEF Accept, IInv, TypeOK
<1> DEFINE first == CASE e.op \in {"create", "mkdir"} -> "create"
                      [] e.op = "delete" -> "delete"
                      [] e.op = "read" -> "exists"
                      [] e.op = "write" -> "lock"
           w == IF e.op = "delete" THEN << Frame("stat", e.path) >> ELSE thread[t].work
           q == [thread[t] EXCEPT !.pc = first, !.req = e, !.work = w]
<1>2. Become(t, q)
  BY <1>1
<1>3. thread[t].pc = "idle" /\ thread[t].work = <<>> /\ thread[t] \in ThreadRecord
  BY DEF IInv, TypeOK, ThreadOK, Accept
<1>4. e.path \in Path /\ e.op \in Ops
  BY StorageAssumption
<1>5. /\ first \in Pcs /\ first \notin {"idle", "open", "stream"}
      /\ first = "delete" <=> e.op = "delete"
      /\ first = "create" => e.op \in {"create", "mkdir"}
  BY <1>4 DEF Ops, Pcs
<1>6. Frame("stat", e.path) \in FrameRecord /\ Frame("stat", e.path).act = "stat"
  BY <1>4, FrameType DEF Acts
<1>7. /\ w \in Seq(FrameRecord) /\ Len(w) \in 0 .. 1
      /\ w # <<>> <=> e.op = "delete"
      /\ w # <<>> => Head(w).act = "stat"
  BY <1>3, <1>6
<1> HIDE DEF w, first
<1>8. q \in ThreadRecord /\ q.pc = first /\ q.req = e /\ q.work = w
  BY <1>3, <1>5, <1>7 DEF ThreadRecord
<1> HIDE DEF q
<1>9. ThreadOK(q) /\ ~ RecordHolds(q) /\ ~ RecordRemoves(q) /\ FileOpen(q)
  BY <1>5, <1>7, <1>8 DEF ThreadOK, RecordHolds, RecordRemoves, FileOpen
<1>10. HistTyped' /\ UNCHANGED fsVars /\ master' = master
  BY <1>1, QuietFacts DEF Accept, HistTyped
<1>11. QED
  BY <1>2, <1>8, <1>9, <1>10, QuietUpdate

(* An answer, with nothing else changed; a lock that is held stays held.   *)
LEMMA AnswerKeeps ==
    ASSUME IInv, NEW t \in Threads, thread[t].pc # "idle", NEW resp \in Responses,
           Answer(t, resp), UNCHANGED << fsVars, master, histVars >>
    PROVE  IInv'
BY AnswerRecord, QuietFacts, QuietUpdate DEF Answer

(* A create in one of the two trees: it takes no lock, but what it does is *)
(* no harm to a delete that has a file open.                               *)
LEMMA CreateKeeps ==
    ASSUME IInv, NEW t \in Threads, CreateFile(t) \/ CreateFolder(t) \/ CreateFails(t)
    PROVE  IInv'
<1>1. /\ thread[t].pc = "create" /\ ~ Holds(t)
      /\ thread[t].root \in Roots /\ thread[t].req.path \in Path
  BY QuietFacts, StorageAssumption
     DEF CreateFile, CreateFolder, CreateFails, ThreadOK, ThreadRecord, Holds, Doing
<1> DEFINE r == thread[t].root
           p == thread[t].req.path
<1>2. /\ Succeeded(t) \in ThreadRecord /\ ThreadOK(Succeeded(t))
      /\ ~ RecordHolds(Succeeded(t)) /\ ~ RecordRemoves(Succeeded(t)) /\ FileOpen(Succeeded(t))
  BY <1>1, SucceededRecord
<1>3. \A u \in Threads : Doing(u, "remove") =>
         /\ tree[thread[u].root][Top(u).path] > Folder
         /\ thread[u].root \in Roots /\ Top(u).path \in Path
  BY QuietFacts, DeletingStack
     DEF IInv, DeleteRemovesWhatItOpened, Doing, ThreadRecord, FrameRecord
<1>4. \A u \in Threads \ {t} : Holds(u) => master = u
  BY DEF IInv
<1>5. CASE CreateFile(t)
  <2>1. CanOpen(r, p) /\ Truncate(r, p) /\ Become(t, Succeeded(t)) /\ master' = master
    BY <1>5 DEF CreateFile, CanCreate
  <2>2. /\ FsTyped' /\ Len(data'["primary"]) >= Len(data["primary"])
        /\ \A s \in Roots, a \in Path : tree[s][a] > Folder => tree'[s][a] = tree[s][a]
    BY <1>1, <2>1, TruncateFacts DEF IInv, FsTyped, Roots
  <2>3. HistTyped'
    BY <1>1, <1>5, QuietFacts DEF CreateFile, Disturb, Make, HistTyped
  <2>4. \A u \in Threads \ {t} : Doing(u, "remove") =>
           tree'[thread[u].root][Top(u).path] = tree[thread[u].root][Top(u).path]
    BY <1>3, <2>2
  <2>5. master' \in Threads \cup {Nobody}
    BY <2>1 DEF IInv, TypeOK
  <2>6. QED
    BY <1>2, <1>4, <2>1, <2>2, <2>3, <2>4, <2>5, ThreadUpdate
<1>6. CASE CreateFolder(t)
  <2>1. /\ tree[r][p] = None /\ tree' = [tree EXCEPT ![r][p] = Folder]
        /\ data' = data /\ Become(t, Succeeded(t)) /\ master' = master
    BY <1>6, <1>1, QuietFacts DEF CreateFolder, CanCreate, Exists, ThreadOK
  <2>2. FsTyped'
    BY <1>1, <2>1, QuietFacts, SMTT(40) DEF FsTyped, None, Folder
  <2>3. \A s \in Roots, a \in Path : tree[s][a] > Folder => tree'[s][a] = tree[s][a]
    BY <1>1, <2>1, QuietFacts DEF FsTyped, None, Folder
  <2>4. HistTyped'
    BY <1>1, <1>6, QuietFacts DEF CreateFolder, Make, HistTyped
  <2>5. QED
    BY <1>2, <1>3, <1>4, <2>1, <2>2, <2>3, <2>4, ThreadUpdate DEF IInv, TypeOK
<1>7. CASE CreateFails(t)
  BY <1>1, <1>7, AnswerKeeps DEF CreateFails, Responses
<1>8. QED
  BY <1>5, <1>6, <1>7

(* What is at a path that another thread is about to remove is a file.     *)
LEMMA RemovingIsFile ==
    ASSUME IInv, NEW u \in Threads, Doing(u, "remove")
    PROVE  /\ tree[thread[u].root][Top(u).path] > Folder
           /\ thread[u].root \in Roots /\ Top(u).path \in Path
BY QuietFacts, DeletingStack
   DEF IInv, DeleteRemovesWhatItOpened, Doing, ThreadRecord, FrameRecord

(* A new frame that neither opens nor removes. *)
LEMMA NowKeeps ==
    ASSUME IInv, NEW t \in Threads, thread[t].pc = "delete",
           NEW f \in FrameRecord, f.act \notin {"open", "remove"}, Now(t, f),
           UNCHANGED << fsVars, master, histVars >>
    PROVE  IInv'
BY NowRecord, QuietFacts, QuietUpdate DEF Now

(* The steps of a delete that only look at the tree. *)
LEMMA LookKeeps ==
    ASSUME IInv, NEW t \in Threads, StatEntry(t) \/ OpenFolder(t)
    PROVE  IInv'
<1>1. /\ thread[t].pc = "delete" /\ thread[t].root \in Roots
      /\ Top(t) \in FrameRecord /\ Top(t).path \in Path
  BY DeletingStack, QuietFacts
     DEF StatEntry, OpenFolder, Doing, ThreadRecord, FrameRecord
<1>2. UNCHANGED << fsVars, master, histVars >>
  BY DEF StatEntry, OpenFolder
<1>3. CASE Answer(t, InternalError)
  BY <1>1, <1>2, <1>3, AnswerKeeps DEF Responses
<1>4. CASE Now(t, Frame("opendir", Top(t).path)) \/ Now(t, Frame("lock", Top(t).path))
  BY <1>1, <1>2, <1>4, NowKeeps, FrameType DEF Acts
<1>5. CASE Now(t, [Frame("list", Top(t).path) EXCEPT !.listed =
                      Children(thread[t].root, Top(t).path)])
  <2> DEFINE f == [Frame("list", Top(t).path) EXCEPT !.listed =
                      Children(thread[t].root, Top(t).path)]
  <2>1. f \in FrameRecord /\ f.act = "list"
    BY <1>1 DEF Frame, FrameRecord, Acts, Children, None
  <2>2. QED
    BY <1>1, <1>2, <1>5, <2>1, NowKeeps
<1>6. QED
  BY <1>3, <1>4, <1>5 DEF StatEntry, OpenFolder

(* readdir puts the entry on top of its folder. *)
LEMMA ReadEntryKeeps ==
    ASSUME IInv, NEW t \in Threads, ReadEntry(t)
    PROVE  IInv'
<1>1. /\ thread[t].pc = "delete" /\ Top(t) \in FrameRecord /\ Top(t).act = "list"
      /\ thread[t] \in ThreadRecord /\ ThreadOK(thread[t])
  BY DeletingStack, QuietFacts DEF ReadEntry, Doing
<1>2. PICK c \in Top(t).listed \cup Children(thread[t].root, Top(t).path) :
        Become(t, [thread[t] EXCEPT !.work =
            << Frame("stat", c), [Top(t) EXCEPT !.seen = @ \cup {c}] >> \o Tail(@)])
  BY DEF ReadEntry
<1> DEFINE g == [Top(t) EXCEPT !.seen = @ \cup {c}]
           w == << Frame("stat", c), g >> \o Tail(thread[t].work)
           q == [thread[t] EXCEPT !.work = w]
<1>3. Become(t, q)
  BY <1>2
<1>4. c \in Path
  BY <1>1 DEF FrameRecord, Children
<1>5. /\ Frame("stat", c) \in FrameRecord /\ Frame("stat", c).act = "stat"
  BY <1>4, FrameType DEF Acts
<1>6. g \in FrameRecord /\ g.act = "list"
  BY <1>1, <1>4 DEF FrameRecord
<1> HIDE DEF g
<1>7. /\ w \in Seq(FrameRecord) /\ w # <<>> /\ Head(w).act = "stat"
      /\ \A k \in 2 .. Len(w) : w[k].act = "list"
  BY <1>1, <1>5, <1>6, DeletingStack, StackFacts
<1> HIDE DEF w
<1>8. /\ q \in ThreadRecord /\ q.pc = "delete" /\ q.work = w /\ q.req = thread[t].req
  BY <1>1, <1>7 DEF ThreadRecord
<1> HIDE DEF q
<1>9. ThreadOK(q) /\ ~ RecordHolds(q) /\ ~ RecordRemoves(q) /\ FileOpen(q)
  BY <1>1, <1>7, <1>8 DEF ThreadOK, RecordHolds, RecordRemoves, FileOpen
<1>10. UNCHANGED << fsVars, master, histVars >>
  BY DEF ReadEntry
<1>11. QED
  BY <1>3, <1>8, <1>9, <1>10, QuietFacts, QuietUpdate

(* rmdir takes away a folder, never a file. *)
LEMMA RemoveFolderKeeps ==
    ASSUME IInv, NEW t \in Threads, RemoveFolder(t)
    PROVE  IInv'
<1> DEFINE r == thread[t].root
           p == Top(t).path
<1>1. /\ thread[t].pc = "delete" /\ r \in Roots /\ p \in Path
      /\ ~ Holds(t)
  BY DeletingStack, QuietFacts
     DEF RemoveFolder, Doing, ThreadRecord, FrameRecord, Holds
<1>2. data' = data /\ master' = master /\ UNCHANGED histVars
  BY DEF RemoveFolder
<1>3. CASE tree' = tree /\ Answer(t, InternalError)
  BY <1>1, <1>2, <1>3, AnswerKeeps DEF Responses, fsVars
<1>4. CASE /\ tree[r][p] = Folder /\ tree' = [tree EXCEPT ![r][p] = None]
           /\ Become(t, Deleted(t))
  <2>1. FsTyped'
    BY <1>1, <1>2, <1>4, QuietFacts DEF FsTyped, None, Folder
  <2>2. \A s \in Roots, a \in Path : tree[s][a] > Folder => tree'[s][a] = tree[s][a]
    BY <1>1, <1>4, QuietFacts DEF FsTyped, None, Folder
  <2>3. /\ Deleted(t) \in ThreadRecord /\ ThreadOK(Deleted(t))
        /\ ~ RecordHolds(Deleted(t)) /\ ~ RecordRemoves(Deleted(t)) /\ FileOpen(Deleted(t))
    BY <1>1, DeletedRecord
  <2>4. \A u \in Threads \ {t} : Holds(u) => master' = u
    BY <1>2 DEF IInv
  <2>5. \A u \in Threads \ {t} : Doing(u, "remove") =>
           tree'[thread[u].root][Top(u).path] = tree[thread[u].root][Top(u).path]
    BY <2>2, RemovingIsFile
  <2>6. HistTyped' /\ master' \in Threads \cup {Nobody}
    BY <1>2, QuietFacts DEF IInv, TypeOK
  <2>7. QED
    BY <1>2, <1>4, <2>1, <2>3, <2>4, <2>5, <2>6, ThreadUpdate
<1>5. QED
  BY <1>3, <1>4 DEF RemoveFolder

(* The lock is taken for a delete, given up when there is nothing to       *)
(* delete, or lost.                                                        *)
LEMMA DeleteLockKeeps ==
    ASSUME IInv, NEW t \in Threads,
           LockToDelete(t) \/ NothingToDelete(t) \/ BackupDeleteLeaks(t)
    PROVE  IInv'
<1>1. thread[t].pc = "delete" /\ Top(t) \in FrameRecord
  BY DeletingStack DEF LockToDelete, NothingToDelete, BackupDeleteLeaks, Doing
<1>2. UNCHANGED fsVars /\ UNCHANGED histVars
  BY DEF LockToDelete, NothingToDelete, BackupDeleteLeaks
<1>3. CASE LockToDelete(t)
  <2> DEFINE f == [Top(t) EXCEPT !.act = "open"]
  <2>1. f \in FrameRecord /\ f.act = "open"
    BY <1>1 DEF FrameRecord, Acts
  <2> HIDE DEF f
  <2>2. Now(t, f) /\ master = Nobody /\ master' = t
    BY <1>3 DEF LockToDelete, f
  <2>3. QED
    BY <1>1, <1>2, <2>1, <2>2, NowRecord, QuietFacts, QuietUpdate DEF Now
<1>4. CASE NothingToDelete(t)
  <2>1. Holds(t) /\ master' = Nobody /\ Become(t, Deleted(t))
    BY <1>4 DEF NothingToDelete, Holds
  <2>2. QED
    BY <1>1, <1>2, <2>1, DeletedRecord, QuietFacts, QuietUpdate
<1>5. CASE BackupDeleteLeaks(t)
  BY <1>1, <1>5, AnswerKeeps DEF BackupDeleteLeaks, Responses
<1>6. QED
  BY <1>3, <1>4, <1>5

(* fopen "w" of the file to be deleted: the thread holds the lock, so that *)
(* no other one is between its open and its remove.                        *)
LEMMA OpenToDeleteKeeps ==
    ASSUME IInv, NEW t \in Threads, OpenToDelete(t)
    PROVE  IInv'
<1> DEFINE r == thread[t].root
           p == Top(t).path
           f == [Top(t) EXCEPT !.act = "remove", !.ino = Inode(r, p)]
<1>1. /\ thread[t].pc = "delete" /\ r \in Roots /\ p \in Path
      /\ Top(t) \in FrameRecord /\ Holds(t) /\ master = t
  BY DeletingStack, QuietFacts
     DEF OpenToDelete, Doing, ThreadRecord, FrameRecord, Holds, IInv
<1>2. CanOpen(r, p) /\ Truncate(r, p) /\ Now(t, f) /\ master' = master
  BY DEF OpenToDelete
<1>3. /\ FsTyped' /\ tree'[r][p] = Inode(r, p) /\ Inode(r, p) > Folder
      /\ Len(data'["primary"]) >= Len(data["primary"])
  BY <1>1, <1>2, TruncateFacts DEF IInv, FsTyped, Roots
<1>4. Inode(r, p) \in Int
  BY <1>1, QuietFacts DEF Inode, FsTyped, None
<1>5. /\ f \in FrameRecord /\ f.act = "remove" /\ f.ino = Inode(r, p) /\ f.path = p
  BY <1>1, <1>4 DEF FrameRecord, Acts
<1> DEFINE q == [thread[t] EXCEPT !.work = << f >> \o Tail(@)]
<1>6. Become(t, q)
  BY <1>2 DEF Now
<1> HIDE DEF f
<1>7. /\ q \in ThreadRecord /\ ThreadOK(q) /\ q.root = r /\ Head(q.work) = f
      /\ FileOpen(q)
  BY <1>1, <1>5, NowRecord
<1>8. HistTyped'
  BY QuietFacts DEF OpenToDelete, Disturb, HistTyped
<1>9. \A u \in Threads \ {t} : ~ Holds(u) /\ ~ Doing(u, "remove")
  BY <1>1, OneHolder DEF Holds
<1> HIDE DEF q
<1>10. QED
  BY <1>1, <1>2, <1>3, <1>5, <1>6, <1>7, <1>8, <1>9, ThreadUpdate

(* remove, and the release of the lock. *)
LEMMA RemoveFileKeeps ==
    ASSUME IInv, NEW t \in Threads, RemoveFile(t)
    PROVE  IInv'
<1> DEFINE r == thread[t].root
           p == Top(t).path
<1>1. /\ thread[t].pc = "delete" /\ r \in Roots /\ p \in Path /\ Holds(t)
  BY DeletingStack, QuietFacts
     DEF RemoveFile, Doing, ThreadRecord, FrameRecord, Holds
<1>2. /\ tree' = [tree EXCEPT ![r][p] = None] /\ data' = data
      /\ master' = Nobody /\ Become(t, Deleted(t)) /\ UNCHANGED histVars
  BY DEF RemoveFile
<1>3. FsTyped'
  BY <1>1, <1>2, QuietFacts DEF FsTyped, None, Folder
<1>4. \A u \in Threads \ {t} : ~ Holds(u) /\ ~ Doing(u, "remove")
  BY <1>1, OneHolder DEF Holds
<1>5. /\ Deleted(t) \in ThreadRecord /\ ThreadOK(Deleted(t))
      /\ ~ RecordHolds(Deleted(t)) /\ ~ RecordRemoves(Deleted(t)) /\ FileOpen(Deleted(t))
  BY <1>1, DeletedRecord
<1>6. HistTyped'
  BY <1>2, QuietFacts
<1>7. QED
  BY <1>2, <1>3, <1>4, <1>5, <1>6, ThreadUpdate

(* READ and WRITE, but for fopen "w" and the data. *)
LEMMA ReadKeeps ==
    ASSUME IInv, NEW t \in Threads,
           \/ CheckExists(t) \/ LockToOpen(t) \/ OpenToRead(t) \/ ReadLeaks(t)
           \/ WriteLeaks(t) \/ ReadChunk(t) \/ EndRead(t) \/ EndWrite(t)
    PROVE  IInv'
<1>1. thread[t] \in ThreadRecord /\ ThreadOK(thread[t])
  BY QuietFacts
<1>2. UNCHANGED fsVars /\ HistTyped'
  BY QuietFacts DEF CheckExists, LockToOpen, OpenToRead, ReadLeaks, WriteLeaks,
     ReadChunk, EndRead, EndWrite, HistTyped, histVars
<1>3. ASSUME UNCHANGED << fsVars, master, histVars >>, thread[t].pc # "idle",
             NEW resp \in Responses, Answer(t, resp)
      PROVE  IInv'
  BY <1>3, AnswerKeeps
<1>4. CASE ReadLeaks(t) \/ WriteLeaks(t) \/ EndRead(t) \/ EndWrite(t)
  <2>1. thread[t].resp \in Responses
    BY <1>1 DEF ThreadRecord
  <2>2. PICK resp \in Responses : Answer(t, resp)
    BY <1>4, <2>1 DEF ReadLeaks, WriteLeaks, EndRead, EndWrite, Responses
  <2>3. UNCHANGED << fsVars, master, histVars >> /\ thread[t].pc # "idle"
    BY <1>4 DEF ReadLeaks, WriteLeaks, EndRead, EndWrite
  <2>4. QED
    BY <2>2, <2>3, AnswerKeeps
<1>5. CASE CheckExists(t)
  <2>1. CASE Answer(t, NotFound)
    BY <1>5, <2>1, <1>3 DEF CheckExists, Responses
  <2> DEFINE q == [thread[t] EXCEPT !.pc = "lock", !.resp = OkStartStream]
  <2>2. CASE Become(t, q)
    <3>1. thread[t].pc = "exists" /\ master' = master
      BY <1>5 DEF CheckExists
    <3>2. q \in ThreadRecord /\ q.pc = "lock" /\ q.req = thread[t].req /\ q.work = thread[t].work
      BY <1>1 DEF ThreadRecord, Pcs, Responses
    <3> HIDE DEF q
    <3>3. ThreadOK(q) /\ ~ RecordHolds(q) /\ ~ RecordRemoves(q) /\ FileOpen(q)
      BY <1>1, <3>1, <3>2 DEF ThreadOK, RecordHolds, RecordRemoves, FileOpen
    <3>4. QED
      BY <1>2, <2>2, <3>1, <3>2, <3>3, QuietUpdate
  <2>3. QED
    BY <1>5, <2>1, <2>2 DEF CheckExists
<1>6. CASE LockToOpen(t)
  <2> DEFINE q == [thread[t] EXCEPT !.pc = "open"]
  <2>1. thread[t].pc = "lock" /\ Become(t, q) /\ master = Nobody /\ master' = t
    BY <1>6 DEF LockToOpen
  <2>2. q \in ThreadRecord /\ q.pc = "open" /\ q.req = thread[t].req /\ q.work = thread[t].work
    BY <1>1 DEF ThreadRecord, Pcs
  <2> HIDE DEF q
  <2>3. ThreadOK(q) /\ ~ RecordRemoves(q) /\ FileOpen(q)
    BY <1>1, <2>1, <2>2 DEF ThreadOK, RecordRemoves, FileOpen
  <2>4. QED
    BY <1>2, <2>1, <2>2, <2>3, QuietUpdate
<1>7. CASE OpenToRead(t)
  <2> DEFINE i == tree["primary"][thread[t].req.path]
             q == [thread[t] EXCEPT !.pc = "stream", !.ino = i]
  <2>1. thread[t].pc = "open" /\ Become(t, q) /\ master' = Nobody
    BY <1>7 DEF OpenToRead
  <2>2. i \in Folder .. Len(data["primary"]) /\ i \in Int
    <3>1. thread[t].req.path \in Path /\ i # None
      BY <1>1, <1>7, <2>1, StorageAssumption DEF OpenToRead, ThreadOK
    <3> HIDE DEF i
    <3>2. i \in None .. Len(data["primary"]) /\ Len(data["primary"]) \in Nat
      BY <3>1, QuietFacts, SMTT(40) DEF FsTyped, Roots, i
    <3>3. QED
      BY <3>1, <3>2 DEF None, Folder
  <2> HIDE DEF i
  <2>3. /\ q \in ThreadRecord /\ q.pc = "stream" /\ q.req = thread[t].req
        /\ q.work = thread[t].work /\ q.ino = i
    BY <1>1, <2>2 DEF ThreadRecord, Pcs, Folder
  <2> HIDE DEF q
  <2>4. ThreadOK(q) /\ ~ RecordHolds(q) /\ ~ RecordRemoves(q) /\ FileOpen(q) /\ Holds(t)
    BY <1>1, <2>1, <2>2, <2>3 DEF ThreadOK, RecordHolds, RecordRemoves, FileOpen, Holds
  <2>5. QED
    BY <1>2, <2>1, <2>3, <2>4, QuietUpdate
<1>8. CASE ReadChunk(t)
  <2> DEFINE r == thread[t]
             c == data["primary"][r.ino][r.pos + 1]
             n == r.pos + 1
             g == Append(r.got, c)
             q == [r EXCEPT !.pos = n, !.got = g]
  <2>1. /\ r.pc = "stream" /\ Become(t, q) /\ master' = master
        /\ r.ino > Folder /\ r.pos < Len(data["primary"][r.ino])
    BY <1>8 DEF ReadChunk
  <2>2. r.ino \in 1 .. Len(data["primary"])
    BY <1>1, <2>1 DEF IInv, FileOpen, Folder
  <2>3. data["primary"][r.ino] \in Seq(Authors)
    BY <2>2 DEF IInv, TypeOK, Roots
  <2>4. r.pos \in Nat /\ r.got \in Seq(Authors)
    BY <1>1 DEF ThreadRecord
  <2>5. c \in Authors
    BY <2>1, <2>3, <2>4, ElementOfSeq
  <2>6. n \in Nat /\ g \in Seq(Authors)
    BY <2>4, <2>5
  <2> HIDE DEF c, n, g
  <2>7. /\ q \in ThreadRecord /\ q.pc = "stream" /\ q.req = r.req
        /\ q.work = r.work /\ q.ino = r.ino
    BY <1>1, <2>1, <2>6 DEF ThreadRecord
  <2> HIDE DEF q
  <2>8. ThreadOK(q) /\ ~ RecordHolds(q) /\ ~ RecordRemoves(q) /\ FileOpen(q)
    BY <1>1, <2>1, <2>2, <2>7 DEF ThreadOK, RecordHolds, RecordRemoves, FileOpen, Folder
  <2>9. QED
    BY <1>2, <2>1, <2>7, <2>8, QuietUpdate
<1>9. QED
  BY <1>4, <1>5, <1>6, <1>7, <1>8

(* fopen "w" of a WRITE, under the lock. *)
LEMMA OpenToWriteKeeps ==
    ASSUME IInv, NEW t \in Threads, OpenToWrite(t)
    PROVE  IInv'
<1> DEFINE p == thread[t].req.path
           i == Inode("primary", p)
           q == [thread[t] EXCEPT !.pc = "stream", !.ino = i, !.resp = OkStartStream]
<1>1. /\ thread[t] \in ThreadRecord /\ ThreadOK(thread[t]) /\ thread[t].pc = "open"
      /\ p \in Path /\ "primary" \in Roots
  BY QuietFacts, StorageAssumption DEF OpenToWrite, ThreadOK, Roots
<1>2. /\ CanOpen("primary", p) /\ Truncate("primary", p)
      /\ master' = Nobody /\ Become(t, q)
  BY DEF OpenToWrite
<1>3. /\ FsTyped' /\ Len(data'["primary"]) >= Len(data["primary"])
      /\ tree'["primary"][p] = i /\ i > Folder
  BY <1>1, <1>2, TruncateFacts DEF IInv, FsTyped
<1>4. i \in Folder .. Len(data'["primary"]) /\ i \in Int
  BY <1>1, <1>3 DEF FsTyped, None, Folder
<1>5. HistTyped'
  BY <1>1, QuietFacts DEF OpenToWrite, Make, HistTyped
<1> HIDE DEF i
<1>6. /\ q \in ThreadRecord /\ q.pc = "stream" /\ q.req = thread[t].req
      /\ q.work = thread[t].work /\ q.ino = i
  BY <1>1, <1>4 DEF ThreadRecord, Pcs, Responses, Folder
<1> HIDE DEF q
<1>7. ThreadOK(q) /\ ~ RecordHolds(q) /\ ~ RecordRemoves(q)
  BY <1>1, <1>6 DEF ThreadOK, RecordHolds, RecordRemoves
<1>8. \A u \in Threads \ {t} : ~ Holds(u) /\ ~ Doing(u, "remove")
  BY <1>1, OneHolder DEF Holds
<1>9. QED
  BY <1>2, <1>3, <1>4, <1>5, <1>6, <1>7, <1>8, ThreadUpdate

(* What is written keeps the file a sequence of chunks.                    *)
LEMMA OverwriteType ==
    ASSUME NEW content \in Seq(Authors), NEW k \in Nat, NEW t \in Threads
    PROVE  Overwrite(content, k, t) \in Seq(Authors)
<1> DEFINE n == IF Len(content) > k THEN Len(content) ELSE k + 1
           at(j) == IF j = k + 1 THEN t ELSE IF j <= Len(content) THEN content[j] ELSE Hole
<1>1. n \in Nat
  OBVIOUS
<1>2. \A j \in 1 .. n : at(j) \in Authors
  BY ElementOfSeq DEF Authors
<1>3. Overwrite(content, k, t) = [j \in 1 .. n |-> at(j)]
  BY DEF Overwrite
<1> HIDE DEF n, at
<1>4. [j \in 1 .. n |-> at(j)] \in Seq(Authors)
  BY <1>1, <1>2, IsASeq
<1>5. QED
  BY <1>3, <1>4

(* A chunk reaches the file. *)
LEMMA WriteChunkKeeps ==
    ASSUME IInv, NEW t \in Threads, WriteChunk(t)
    PROVE  IInv'
<1> DEFINE r == thread[t]
           c == Overwrite(data["primary"][r.ino], r.pos, t)
           d == [data["primary"] EXCEPT ![r.ino] = c]
           n == r.pos + 1
           q == [r EXCEPT !.pos = n, !.resp = OK]
<1>1. /\ r \in ThreadRecord /\ ThreadOK(r) /\ r.pc = "stream" /\ r.pos \in Nat
  BY QuietFacts DEF WriteChunk, ThreadRecord
<1>2. /\ data' = [data EXCEPT !["primary"] = d] /\ tree' = tree
      /\ master' = master /\ UNCHANGED histVars /\ Become(t, q)
  BY DEF WriteChunk
<1>3. data["primary"] \in Seq(Seq(Authors)) /\ data \in [Roots -> Seq(Seq(Authors))]
  BY DEF IInv, TypeOK, Roots
<1>4. r.ino \in Folder .. Len(data["primary"])
  BY <1>1 DEF IInv, FileOpen
<1>5. d \in Seq(Seq(Authors)) /\ Len(d) = Len(data["primary"])
  <2>1. CASE r.ino \in 1 .. Len(data["primary"])
    <3>1. data["primary"][r.ino] \in Seq(Authors)
      BY <1>3, <2>1
    <3>2. c \in Seq(Authors)
      BY <1>1, <3>1, OverwriteType
    <3> HIDE DEF c
    <3>3. QED
      BY <1>3, <2>1, <3>2
  <2>2. CASE r.ino = Folder
    <3>1. r.ino \notin DOMAIN data["primary"]
      BY <1>3, <2>2 DEF Folder
    <3> HIDE DEF c
    <3>2. d = data["primary"]
      BY <1>3, <3>1
    <3>3. QED
      BY <1>3, <3>2
  <2>3. QED
    BY <1>3, <1>4, <2>1, <2>2 DEF Folder
<1> HIDE DEF c, d
<1>6. /\ data' \in [Roots -> Seq(Seq(Authors))]
      /\ \A s \in Roots : Len(data'[s]) = Len(data[s])
  BY <1>2, <1>3, <1>5
<1>7. FsTyped'
  BY <1>2, <1>6, QuietFacts DEF FsTyped
<1>8. n \in Nat
  BY <1>1
<1> HIDE DEF n
<1>9. /\ q \in ThreadRecord /\ q.pc = "stream" /\ q.req = r.req
      /\ q.work = r.work /\ q.ino = r.ino
  BY <1>1, <1>8 DEF ThreadRecord, Responses
<1> HIDE DEF q
<1>10. ThreadOK(q) /\ ~ RecordHolds(q) /\ ~ RecordRemoves(q) /\ FileOpen(q)
  BY <1>1, <1>4, <1>9 DEF ThreadOK, RecordHolds, RecordRemoves, FileOpen
<1>11. Len(data'["primary"]) >= Len(data["primary"])
  BY <1>3, <1>6 DEF Roots
<1>12. \A u \in Threads : Holds(u) => master' = u
  BY <1>2 DEF IInv
<1>13. HistTyped' /\ master' \in Threads \cup {Nobody}
  BY <1>2, QuietFacts DEF IInv, TypeOK
<1>14. QED
  BY <1>2, <1>7, <1>9, <1>10, <1>11, <1>12, <1>13, ThreadUpdate

-----------------------------------------------------------------------------
(* The theorems. *)

(* Every step keeps the invariant. *)
LEMMA NextKeeps ==
    ASSUME IInv, [Next]_vars
    PROVE  IInv'
<1>1. CASE Next
  <2>1. PICK t \in Threads : Accept(t) \/ ServerStep(t) \/ StreamStep(t)
    BY <1>1 DEF Next
  <2>2. CASE Accept(t)
    BY <2>2, AcceptKeeps
  <2>3. CASE ServerStep(t)
    BY <2>3, CreateKeeps, LookKeeps, ReadEntryKeeps, RemoveFolderKeeps,
       DeleteLockKeeps, OpenToDeleteKeeps, RemoveFileKeeps, ReadKeeps,
       OpenToWriteKeeps DEF ServerStep
  <2>4. CASE StreamStep(t)
    BY <2>4, ReadKeeps, WriteChunkKeeps DEF StreamStep
  <2>5. QED
    BY <2>1, <2>2, <2>3, <2>4
<1>2. CASE UNCHANGED vars
  BY <1>2 DEF vars, fsVars, histVars, IInv, TypeOK, ThreadOK, Holds, Doing, Top,
     FileOpen, DeleteRemovesWhatItOpened
<1>3. QED
  BY <1>1, <1>2

(* The server starts in a state of the invariant. *)
LEMMA InitIInv == Init => IInv
<1> SUFFICES ASSUME Init PROVE IInv
  OBVIOUS
<1>1. PICK T \in Trees : tree = [r \in Roots |-> T]
  BY DEF Init
<1>2. /\ Files(T) \in Nat /\ T \in [Path -> None .. Files(T)]
      /\ \A p, q \in Path : T[p] = T[q] /\ T[p] > Folder => p = q
  BY TreesAssumption
<1> DEFINE n == Files(T)
           d == [i \in 1 .. n |-> <<Before>>]
<1>3. data = [r \in Roots |-> d]
  BY <1>1 DEF Init
<1> HIDE DEF n
<1>4. d \in Seq(Seq(Authors)) /\ Len(d) = n
  <2>1. <<Before>> \in Seq(Authors) /\ n \in Nat
    BY <1>2 DEF Authors, n
  <2>2. QED
    BY <2>1, IsASeq
<1> HIDE DEF d
<1>5. FsTyped
  BY <1>1, <1>2, <1>3, <1>4 DEF FsTyped, n
<1>6. HistTyped /\ master \in Threads \cup {Nobody}
  BY DEF Init, HistTyped
<1>7. IdleThread \in ThreadRecord
  <2>1. NoRequest \in Requests \cup {NoRequest}
    OBVIOUS
  <2>2. <<>> \in Seq(FrameRecord) /\ <<>> \in Seq(Authors)
    OBVIOUS
  <2>3. QED
    BY <2>1, <2>2 DEF IdleThread, ThreadRecord, Pcs, Roots, Responses, None
<1>8. thread = [t \in Threads |-> IdleThread]
  BY DEF Init
<1>9. IdleThread.pc = "idle" /\ IdleThread.work = <<>>
  BY DEF IdleThread
<1>10. TypeOK
  BY <1>5, <1>6, <1>7, <1>8 DEF TypeOK, FsTyped, HistTyped
<1>11. \A t \in Threads : thread[t].pc = "idle" /\ thread[t].work = <<>>
  BY <1>8, <1>9
<1>12. QED
  BY <1>10, <1>11 DEF IInv, ThreadOK, FileOpen, Holds, Doing, DeleteRemovesWhatItOpened

(* The inductive invariant holds in every reachable state.                 *)
THEOREM Inductive == Spec => []IInv
<1>1. Init => IInv
  BY InitIInv
<1>2. IInv /\ [Next]_vars => IInv'
  BY NextKeeps
<1>3. QED
  BY <1>1, <1>2, PTL DEF Spec

(* Threads, trees and files stay well typed, and no file ever has two      *)
(* names (create.c, delete.c and client_handler.c make no links).          *)
THEOREM TypeCorrect == Spec => []TypeOK
<1>1. IInv => TypeOK
  BY DEF IInv
<1>2. QED
  BY <1>1, Inductive, PTL

(* A delete removes the file it has opened and truncated, whatever the     *)
(* other threads do (delete.c:106-122).                                    *)
THEOREM DeleteRemovesItsFile == Spec => []DeleteRemovesWhatItOpened
<1>1. IInv => DeleteRemovesWhatItOpened
  BY DEF IInv
<1>2. QED
  BY <1>1, Inductive, PTL

(* One path is a prefix of another when it has its first names. *)
LEMMA PrefixAt ==
    ASSUME NEW S, NEW p \in Seq(S), NEW q \in Seq(S)
    PROVE  IsPrefix(p, q) <=> Len(p) <= Len(q) /\ \A i \in 1 .. Len(p) : p[i] = q[i]
<1>1. Len(p) \in Nat /\ Len(q) \in Nat
  OBVIOUS
<1>2. CASE Len(p) <= Len(q)
  <2> DEFINE a == SubSeq(p, 1, Len(p))
             b == SubSeq(q, 1, Len(p))
  <2>1. /\ a \in Seq(S) /\ Len(a) = Len(p) /\ \A i \in 1 .. Len(p) : a[i] = p[i]
        /\ b \in Seq(S) /\ Len(b) = Len(p) /\ \A i \in 1 .. Len(p) : b[i] = q[i]
    BY <1>1, <1>2
  <2> HIDE DEF a, b
  <2>2. a = b <=> \A i \in 1 .. Len(p) : p[i] = q[i]
    <3>1. a = b => \A i \in 1 .. Len(p) : p[i] = q[i]
      BY <2>1
    <3>2. ASSUME \A i \in 1 .. Len(p) : p[i] = q[i] PROVE a = b
      BY <2>1, <3>2, SeqEqual
    <3>3. QED
      BY <3>1, <3>2
  <2>3. QED
    BY <1>2, <2>2 DEF IsPrefix, a, b
<1>3. CASE ~ (Len(p) <= Len(q))
  BY <1>3 DEF IsPrefix
<1>4. QED
  BY <1>2, <1>3

(* Prefixes are ordered; two prefixes of one path are related; a path that *)
(* lies strictly below another has its folder there or below.              *)
LEMMA PrefixFacts ==
    ASSUME NEW S, NEW p \in Seq(S), NEW q \in Seq(S), NEW s \in Seq(S)
    PROVE  /\ IsPrefix(p, p)
           /\ IsPrefix(p, q) /\ IsPrefix(q, s) => IsPrefix(p, s)
           /\ IsPrefix(p, s) /\ IsPrefix(q, s) => Related(p, q)
           /\ p # <<>> => IsPrefix(Front(p), p)
           /\ IsPrefix(p, q) /\ p # q => /\ Len(p) < Len(q)
                                         /\ IsPrefix(p, Front(q))
                                         /\ Front(q) \in Seq(S)
                                         /\ Len(Front(q)) = Len(q) - 1
<1>1. /\ IsPrefix(p, q) <=> Len(p) <= Len(q) /\ \A i \in 1 .. Len(p) : p[i] = q[i]
      /\ IsPrefix(q, p) <=> Len(q) <= Len(p) /\ \A i \in 1 .. Len(q) : q[i] = p[i]
      /\ IsPrefix(q, s) <=> Len(q) <= Len(s) /\ \A i \in 1 .. Len(q) : q[i] = s[i]
      /\ IsPrefix(p, s) <=> Len(p) <= Len(s) /\ \A i \in 1 .. Len(p) : p[i] = s[i]
      /\ IsPrefix(p, p) <=> Len(p) <= Len(p) /\ \A i \in 1 .. Len(p) : p[i] = p[i]
  BY PrefixAt
<1>2. Len(p) \in Nat /\ Len(q) \in Nat /\ Len(s) \in Nat
  OBVIOUS
<1>3. IsPrefix(p, q) /\ IsPrefix(q, s) => IsPrefix(p, s)
  BY <1>1, <1>2
<1>4. IsPrefix(p, s) /\ IsPrefix(q, s) => Related(p, q)
  BY <1>1, <1>2 DEF Related
<1>5. ASSUME NEW x \in Seq(S), x # <<>>
      PROVE  /\ Front(x) \in Seq(S) /\ Len(Front(x)) = Len(x) - 1 /\ Len(x) \in Nat \ {0}
             /\ \A i \in 1 .. Len(x) - 1 : Front(x)[i] = x[i]
  <2>1. Len(x) \in Nat \ {0}
    BY <1>5, EmptySeq
  <2>2. Front(x) = SubSeq(x, 1, Len(x) - 1)
    BY DEF Front
  <2> DEFINE n == Len(x) - 1
             f == SubSeq(x, 1, n)
  <2>3. n \in 0 .. Len(x)
    BY <2>1
  <2> HIDE DEF n
  <2>4. f \in Seq(S) /\ Len(f) = n /\ \A i \in 1 .. n : f[i] = x[i]
    BY <1>5, <2>3
  <2>5. QED
    BY <2>1, <2>2, <2>4 DEF n
<1>6. p # <<>> => IsPrefix(Front(p), p)
  <2> SUFFICES ASSUME p # <<>> PROVE IsPrefix(Front(p), p)
    OBVIOUS
  <2> DEFINE f == Front(p)
  <2>1. f \in Seq(S) /\ Len(f) = Len(p) - 1 /\ \A i \in 1 .. Len(p) - 1 : f[i] = p[i]
    BY <1>5
  <2> HIDE DEF f
  <2>2. IsPrefix(f, p) <=> Len(f) <= Len(p) /\ \A i \in 1 .. Len(f) : f[i] = p[i]
    BY <2>1, PrefixAt
  <2>3. QED
    BY <1>2, <2>1, <2>2 DEF f
<1>7. ASSUME IsPrefix(p, q), p # q
      PROVE  /\ Len(p) < Len(q) /\ IsPrefix(p, Front(q))
             /\ Front(q) \in Seq(S) /\ Len(Front(q)) = Len(q) - 1
  <2>1. Len(p) < Len(q)
    BY <1>1, <1>2, <1>7, SeqEqual
  <2>2. q # <<>>
    BY <1>2, <2>1
  <2> DEFINE f == Front(q)
  <2>3. f \in Seq(S) /\ Len(f) = Len(q) - 1 /\ \A i \in 1 .. Len(q) - 1 : f[i] = q[i]
    BY <1>5, <2>2
  <2> HIDE DEF f
  <2>4. IsPrefix(p, f) <=> Len(p) <= Len(f) /\ \A i \in 1 .. Len(p) : p[i] = f[i]
    BY <2>3, PrefixAt
  <2>5. QED
    BY <1>1, <1>2, <1>7, <2>1, <2>3, <2>4 DEF f
<1>8. IsPrefix(p, p)
  BY <1>1, <1>2
<1>9. QED
  BY <1>3, <1>4, <1>6, <1>7, <1>8

(* A non-empty set of naturals has a least element. *)
LEMMA LeastNat ==
    ASSUME NEW T \in SUBSET Nat, T # {}
    PROVE  \E m \in T : \A k \in T : m <= k
<1> DEFINE R == OpToRel(<, Nat)
<1>1. \A x, y \in Nat : <<y, x>> \in R <=> y < x
  BY DEF OpToRel
<1> HIDE DEF R
<1>2. IsWellFoundedOn(R, Nat)
  BY NatLessThanWellFounded DEF R
<1>3. \E x \in T : \A y \in T : ~ (<<y, x>> \in R)
  BY <1>2, WFMin
<1>4. PICK m \in T : \A y \in T : ~ (<<y, m>> \in R)
  BY <1>3
<1>5. \A y \in T : ~ (y < m)
  BY <1>1, <1>4
<1>6. QED
  BY <1>5

(* In a tree whose entries are all in folders, nothing is below a place    *)
(* that is no folder, or a folder without children: a shortest path below  *)
(* it would be a child.                                                    *)
LEMMA NothingBelow ==
    ASSUME WellRooted, NEW r \in Roots, NEW p \in Path,
           tree[r][p] # Folder \/ Children(r, p) = {},
           NEW q \in Path, IsStrictPrefix(p, q)
    PROVE  ~ Exists(r, q)
<1> SUFFICES ASSUME Exists(r, q) PROVE FALSE
  OBVIOUS
<1> DEFINE B == {x \in Path : IsPrefix(p, x) /\ p # x /\ Exists(r, x)}
           L == {Len(x) : x \in B}
<1>1. q \in B
  BY DEF IsStrictPrefix
<1>2. \A x \in Path : x \in Seq(STRING) /\ x # <<>> /\ Len(x) \in Nat \ {0}
  BY StorageAssumption, EmptySeq
<1>3. L \in SUBSET Nat /\ L # {}
  BY <1>1, <1>2
<1> HIDE DEF L
<1>4. PICK m \in L : \A k \in L : m <= k
  BY <1>3, LeastNat
<1>5. PICK x \in B : \A y \in B : Len(x) <= Len(y)
  BY <1>4 DEF L
<1> DEFINE f == Front(x)
<1>6. /\ x \in Path /\ IsPrefix(p, x) /\ p # x /\ Exists(r, x) /\ f = Front(x)
      /\ Len(p) < Len(x) /\ IsPrefix(p, f) /\ Len(f) = Len(x) - 1
      /\ Len(x) > 1 /\ f \in Path
  <2>1. x \in Path /\ IsPrefix(p, x) /\ p # x /\ Exists(r, x)
    BY <1>5
  <2>2. Len(p) < Len(x) /\ IsPrefix(p, f) /\ Len(f) = Len(x) - 1
    BY <2>1, <1>2, PrefixFacts
  <2>3. Len(x) > 1
    BY <1>2, <2>1, <2>2
  <2>4. f \in Path
    BY <2>1, <2>3, StorageAssumption
  <2>5. QED
    BY <2>1, <2>2, <2>3, <2>4
<1> HIDE DEF f
<1>7. tree[r][f] = Folder
  BY <1>6 DEF WellRooted, HasParent
<1>8. CASE f = p
  <2>1. x \in Children(r, p)
    BY <1>6, <1>8 DEF Children
  <2>2. QED
    BY <1>7, <1>8, <2>1
<1>9. CASE f # p
  <2>1. f \in B
    BY <1>6, <1>7, <1>9 DEF Exists, None, Folder
  <2>2. QED
    BY <1>2, <1>5, <1>6, <2>1
<1>10. QED
  BY <1>8, <1>9

-----------------------------------------------------------------------------
(* What a step makes of the record r of its thread: q.                     *)

(* A thread that goes on keeps its request and what it has open.           *)
Kept(r, q) == q.req = r.req /\ q.ino = r.ino /\ q.pos = r.pos /\ q.got = r.got
GoesOn(r, q) == Kept(r, q) /\ q.pc = r.pc /\ q.root = r.root /\ q.resp = r.resp

Ended(r, q, resp) ==
    Kept(r, q) /\ q.pc = "done" /\ q.work = <<>> /\ q.root = r.root /\ q.resp = resp

(* One tree is done, the other is next or the request has succeeded.       *)
Passed(r, q) ==
    IF r.req.port = "nm" /\ r.root = "primary"
    THEN /\ Kept(r, q) /\ q.pc = r.pc /\ q.root = "backup" /\ q.resp = r.resp
         /\ q.work = IF r.req.op = "delete" THEN << Frame("stat", r.req.path) >> ELSE <<>>
    ELSE Ended(r, q, OK)

(* One entry is done, the folder above is next or the tree is done.        *)
Popped(r, q) ==
    IF Len(r.work) > 1 THEN GoesOn(r, q) /\ q.work = Tail(r.work) ELSE Passed(r, q)

Topped(r, q, f) == GoesOn(r, q) /\ q.work = << f >> \o Tail(r.work)

AtWork(r, act) == r.pc = "delete" /\ Head(r.work).act = act

Receives(t, r, q) ==
    /\ r.pc = "idle" /\ UNCHANGED << fsVars, master, alone, made >>
    /\ q.req \in Requests /\ q.root = r.root /\ q.resp = r.resp
    /\ q.ino = r.ino /\ q.pos = r.pos /\ q.got = r.got
    /\ q.pc \in {"create", "delete", "exists", "lock"}
    /\ q.pc = "delete" <=> q.req.op = "delete"
    /\ q.pc = "delete" => q.work = << Frame("stat", q.req.path) >>
    /\ q.pc \in {"exists", "lock"} => q.req.op \in {"read", "write"}
    /\ q.pc = "lock" => q.req.op = "write"
    /\ raced \subseteq raced'
    /\ \A u \in Threads :
        /\ Active(u) /\ Related(thread[u].req.path, q.req.path)
        /\ "delete" \in {q.req.op, thread[u].req.op}
        => t \in raced' /\ u \in raced'

Creates(r, q) ==
    /\ r.pc = "create" /\ Passed(r, q) /\ Make(r.req.path) /\ UNCHANGED << master, raced >>
    /\ \/ /\ r.req.op = "create" /\ CanOpen(r.root, r.req.path)
          /\ Truncate(r.root, r.req.path)
       \/ /\ r.req.op = "mkdir" /\ ~ Exists(r.root, r.req.path) /\ HasParent(r.root, r.req.path)
          /\ tree' = [tree EXCEPT ![r.root][r.req.path] = Folder]

Fails(r, q) ==
    /\ r.pc = "create" \/ AtWork(r, "stat") \/ AtWork(r, "opendir") \/ AtWork(r, "list")
    /\ Ended(r, q, InternalError) /\ UNCHANGED << fsVars, master, histVars >>

Looks(r, q) ==
    /\ AtWork(r, "stat") \/ AtWork(r, "opendir")
    /\ \E f \in FrameRecord :
        /\ Topped(r, q, f) /\ f.path = Head(r.work).path
        /\ f.act \in {"opendir", "list", "lock"}
        /\ f.act = "lock" => tree[r.root][f.path] > Folder
        /\ \A c \in f.listed : Front(c) = f.path
    /\ UNCHANGED << fsVars, master, histVars >>

Enters(r, q) ==
    /\ AtWork(r, "list") /\ GoesOn(r, q)
    /\ \E c \in Path, g \in FrameRecord :
        /\ c \in Head(r.work).listed \/ Front(c) = Head(r.work).path
        /\ g.path = Head(r.work).path /\ g.listed = Head(r.work).listed /\ g.act = "list"
        /\ q.work = << Frame("stat", c), g >> \o Tail(r.work)
    /\ UNCHANGED << fsVars, master, histVars >>

Empties(r, q) ==
    /\ AtWork(r, "list") /\ Popped(r, q)
    /\ tree[r.root][Head(r.work).path] = Folder /\ Children(r.root, Head(r.work).path) = {}
    /\ tree' = [tree EXCEPT ![r.root][Head(r.work).path] = None]
    /\ UNCHANGED << data, master, histVars >>

Locks(t, r, q) ==
    /\ master = Nobody /\ master' = t /\ UNCHANGED << fsVars, histVars >>
    /\ \/ /\ AtWork(r, "lock")
          /\ \E f \in FrameRecord : /\ Topped(r, q, f) /\ f.act = "open"
                                    /\ f.path = Head(r.work).path
                                    /\ f.listed = Head(r.work).listed
       \/ r.pc = "lock" /\ Kept(r, q) /\ q.pc = "open" /\ q.root = r.root

Opens(r, q) ==
    /\ AtWork(r, "open") /\ CanOpen(r.root, Head(r.work).path)
    /\ Truncate(r.root, Head(r.work).path)
    /\ \E f \in FrameRecord : /\ Topped(r, q, f) /\ f.act = "remove"
                              /\ f.path = Head(r.work).path
                              /\ f.listed = Head(r.work).listed
    /\ UNCHANGED << master, raced, made >>

Misses(r, q) ==
    /\ AtWork(r, "open") /\ ~ CanOpen(r.root, Head(r.work).path)
    /\ ~ (r.root = "backup" /\ Len(r.work) = 1)
    /\ master' = Nobody /\ Popped(r, q) /\ UNCHANGED << fsVars, histVars >>

Leaks(r, q) ==
    /\ \/ /\ AtWork(r, "open") /\ ~ CanOpen(r.root, Head(r.work).path)
          /\ Ended(r, q, InternalError)
       \/ /\ r.pc = "open" /\ r.req.op = "read" /\ ~ Exists("primary", r.req.path)
          /\ Ended(r, q, InternalError)
       \/ r.pc = "open" /\ r.req.op = "write" /\ Ended(r, q, NoAnswer)
    /\ UNCHANGED << fsVars, master, histVars >>

Removes(r, q) ==
    /\ AtWork(r, "remove") /\ Popped(r, q) /\ master' = Nobody
    /\ tree' = [tree EXCEPT ![r.root][Head(r.work).path] = None]
    /\ UNCHANGED << data, histVars >>

Checks(r, q) ==
    /\ r.pc = "exists"
    /\ \/ /\ Exists("primary", r.req.path)
          /\ Kept(r, q) /\ q.pc = "lock" /\ q.root = r.root
       \/ Ended(r, q, NotFound)
    /\ UNCHANGED << fsVars, master, histVars >>

StartsRead(r, q) ==
    /\ r.pc = "open" /\ r.req.op = "read" /\ q.pc = "stream" /\ q.req = r.req /\ q.root = r.root
    /\ master' = Nobody /\ UNCHANGED << fsVars, raced, made >>

StartsWrite(r, q) ==
    /\ r.pc = "open" /\ r.req.op = "write" /\ q.pc = "stream" /\ q.req = r.req /\ q.root = r.root
    /\ CanOpen("primary", r.req.path) /\ Truncate("primary", r.req.path)
    /\ Make(r.req.path) /\ master' = Nobody /\ raced' = raced

Streams(r, q) ==
    /\ r.pc = "stream" /\ q.pc \in {"stream", "done"} /\ q.req = r.req /\ q.root = r.root
    /\ UNCHANGED << tree, master, histVars >>

Moves(t, r, q) ==
    \/ Receives(t, r, q) \/ Creates(r, q) \/ Fails(r, q)
    \/ Looks(r, q) \/ Enters(r, q) \/ Empties(r, q) \/ Locks(t, r, q)
    \/ Opens(r, q) \/ Misses(r, q) \/ Leaks(r, q) \/ Removes(r, q)
    \/ Checks(r, q) \/ StartsRead(r, q) \/ StartsWrite(r, q) \/ Streams(r, q)

(* An answer. *)
LEMMA AnswerEnds ==
    ASSUME IInv, NEW t \in Threads, NEW resp, Answer(t, resp)
    PROVE  Ended(thread[t], thread'[t], resp)
<1>1. PICK r : r = thread[t]
  OBVIOUS
<1> DEFINE w == <<>>
<1>2. /\ r \in ThreadRecord
      /\ thread' = [thread EXCEPT ![t] = [r EXCEPT !.pc = "done", !.work = w, !.resp = resp]]
  BY <1>1 DEF IInv, TypeOK, Answer, Become
<1> DEFINE q == [r EXCEPT !.pc = "done", !.work = w, !.resp = resp]
<1>3. thread'[t] = q
  BY <1>2 DEF IInv, TypeOK
<1> HIDE DEF w
<1>4. Kept(r, q) /\ q.pc = "done" /\ q.work = w /\ q.root = r.root /\ q.resp = resp
  BY <1>2 DEF Kept, ThreadRecord
<1> HIDE DEF q
<1>5. QED
  BY <1>1, <1>3, <1>4 DEF Ended, w

(* A tree that is done. *)
LEMMA SucceededPasses ==
    ASSUME IInv, NEW t \in Threads, thread[t].pc \in {"create", "delete"}
    PROVE  Passed(thread[t], Succeeded(t))
<1>1. PICK r : r = thread[t]
  OBVIOUS
<1>2. r \in ThreadRecord /\ (r.pc = "delete" <=> r.req.op = "delete") 
  BY <1>1, QuietFacts DEF ThreadOK
<1>3. CASE r.req.port = "nm" /\ r.root = "primary"
  <2> DEFINE w == IF r.req.op = "delete" THEN << Frame("stat", r.req.path) >> ELSE <<>>
  <2>1. Succeeded(t) = [r EXCEPT !.root = "backup", !.work = w]
    BY <1>1, <1>3 DEF Succeeded
  <2> HIDE DEF w
  <2>2. QED
    BY <1>1, <1>2, <1>3, <2>1 DEF Passed, Kept, ThreadRecord, w
<1>4. CASE ~ (r.req.port = "nm" /\ r.root = "primary")
  <2>1. Succeeded(t) = [r EXCEPT !.pc = "done", !.work = <<>>, !.resp = OK]
    BY <1>1, <1>4 DEF Succeeded
  <2>2. QED
    BY <1>1, <1>2, <1>4, <2>1 DEF Passed, Ended, Kept, ThreadRecord
<1>5. QED
  BY <1>3, <1>4

(* An entry that is done. *)
LEMMA DeletedPops ==
    ASSUME IInv, NEW t \in Threads, thread[t].pc = "delete"
    PROVE  Popped(thread[t], Deleted(t))
<1>1. PICK r : r = thread[t]
  OBVIOUS
<1>2. r \in ThreadRecord
  BY <1>1, QuietFacts
<1>3. CASE Len(r.work) > 1
  <2> DEFINE w == Tail(r.work)
  <2>1. Deleted(t) = [r EXCEPT !.work = w]
    BY <1>1, <1>3 DEF Deleted
  <2> HIDE DEF w
  <2>2. GoesOn(r, Deleted(t)) /\ Deleted(t).work = w
    BY <1>2, <2>1 DEF GoesOn, Kept, ThreadRecord
  <2>3. QED
    BY <1>1, <1>3, <2>2 DEF Popped, w
<1>4. CASE ~ (Len(r.work) > 1)
  BY <1>1, <1>4, SucceededPasses DEF Popped, Deleted
<1>5. QED
  BY <1>3, <1>4

(* A new top frame. *)
LEMMA NowTops ==
    ASSUME IInv, NEW t \in Threads, NEW f, Now(t, f)
    PROVE  Topped(thread[t], thread'[t], f)
<1>1. PICK r : r = thread[t]
  OBVIOUS
<1> DEFINE w == << f >> \o Tail(r.work)
<1>2. r \in ThreadRecord /\ thread' = [thread EXCEPT ![t] = [r EXCEPT !.work = w]]
  BY <1>1 DEF IInv, TypeOK, Now, Become
<1> HIDE DEF w
<1>3. thread'[t] = [r EXCEPT !.work = w]
  BY <1>2 DEF IInv, TypeOK
<1>4. GoesOn(r, thread'[t]) /\ thread'[t].work = w
  BY <1>2, <1>3 DEF GoesOn, Kept, ThreadRecord
<1>5. QED
  BY <1>1, <1>4 DEF Topped, w

(* Become changes one record. *)
LEMMA OthersStay ==
    ASSUME IInv, NEW t \in Threads, NEW q, Become(t, q)
    PROVE  thread'[t] = q /\ \A u \in Threads \ {t} : thread'[u] = thread[u]
BY DEF IInv, TypeOK, Become

(* The first step of a thread: its request. *)
LEMMA ReceivesMoves ==
    ASSUME IInv, NEW t \in Threads, Accept(t)
    PROVE  Receives(t, thread[t], thread'[t])
<1>1. PICK r : r = thread[t]
  OBVIOUS
<1>2. r \in ThreadRecord /\ ThreadOK(r) /\ r.pc = "idle"
  BY <1>1, QuietFacts DEF Accept
<1>3. PICK e \in Requests :
        LET first == CASE e.op \in {"create", "mkdir"} -> "create"
                       [] e.op = "delete" -> "delete"
                       [] e.op = "read" -> "exists"
                       [] e.op = "write" -> "lock"
            rivals == {u \in Threads :
                         /\ Active(u)
                         /\ Related(thread[u].req.path, e.path)
                         /\ "delete" \in {e.op, thread[u].req.op}}
        IN  /\ Become(t, [r EXCEPT !.pc = first, !.req = e,
                             !.work = IF e.op = "delete"
                                      THEN << Frame("stat", e.path) >> ELSE @])
            /\ raced' = IF rivals = {} THEN raced ELSE raced \cup rivals \cup {t}
  BY <1>1 DEF Accept
<1> DEFINE first == CASE e.op \in {"create", "mkdir"} -> "create"
                      [] e.op = "delete" -> "delete"
                      [] e.op = "read" -> "exists"
                      [] e.op = "write" -> "lock"
           rivals == {u \in Threads :
                        /\ Active(u)
                        /\ Related(thread[u].req.path, e.path)
                        /\ "delete" \in {e.op, thread[u].req.op}}
           w == IF e.op = "delete" THEN << Frame("stat", e.path) >> ELSE r.work
           q == [r EXCEPT !.pc = first, !.req = e, !.work = w]
<1>4. Become(t, q) /\ raced' = IF rivals = {} THEN raced ELSE raced \cup rivals \cup {t}
  BY <1>3
<1>5. e.op \in Ops
  BY StorageAssumption
<1>6. /\ first \in {"create", "delete", "exists", "lock"}
      /\ first = "delete" <=> e.op = "delete"
      /\ first \in {"exists", "lock"} => e.op \in {"read", "write"}
      /\ first = "lock" => e.op = "write"
  BY <1>5 DEF Ops
<1>7. e.op = "delete" => w = << Frame("stat", e.path) >>
  OBVIOUS
<1> HIDE DEF first, w
<1>8. /\ q.pc = first /\ q.req = e /\ q.work = w /\ q.root = r.root /\ q.resp = r.resp
      /\ q.ino = r.ino /\ q.pos = r.pos /\ q.got = r.got
  BY <1>2 DEF ThreadRecord
<1> HIDE DEF q
<1>9. thread'[t] = q
  BY <1>4, OthersStay
<1>10. UNCHANGED << fsVars, master, alone, made >>
  BY DEF Accept
<1>11. raced \subseteq raced'
  BY <1>4
<1>12. \A u \in Threads :
         /\ Active(u) /\ Related(thread[u].req.path, q.req.path)
         /\ "delete" \in {q.req.op, thread[u].req.op}
         => t \in raced' /\ u \in raced'
  <2> SUFFICES ASSUME NEW u \in Threads, Active(u),
                      Related(thread[u].req.path, q.req.path),
                      "delete" \in {q.req.op, thread[u].req.op}
               PROVE  t \in raced' /\ u \in raced'
    OBVIOUS
  <2>1. u \in rivals
    BY <1>8
  <2>2. raced' = raced \cup rivals \cup {t}
    BY <1>4, <2>1
  <2> QED
    BY <2>1, <2>2
<1>13. QED
  BY <1>1, <1>2, <1>6, <1>7, <1>8, <1>9, <1>10, <1>11, <1>12 DEF Receives

(* The steps of create_file and create_folder. *)
LEMMA CreatesMoves ==
    ASSUME IInv, NEW t \in Threads, CreateFile(t) \/ CreateFolder(t) \/ CreateFails(t)
    PROVE  Creates(thread[t], thread'[t]) \/ Fails(thread[t], thread'[t])
<1>1. thread[t].pc = "create" /\ thread[t].req.op \in {"create", "mkdir"}
  BY QuietFacts DEF CreateFile, CreateFolder, CreateFails, ThreadOK
<1>2. CASE CreateFails(t)
  BY <1>1, <1>2, AnswerEnds DEF CreateFails, Fails
<1>3. CASE CreateFile(t) \/ CreateFolder(t)
  <2>1. Become(t, Succeeded(t))
    BY <1>3 DEF CreateFile, CreateFolder
  <2>2. thread'[t] = Succeeded(t)
    BY <2>1, OthersStay
  <2>3. Passed(thread[t], thread'[t])
    BY <1>1, <2>2, SucceededPasses
  <2>4. QED
    BY <1>1, <1>3, <2>3 DEF CreateFile, CreateFolder, Creates, CanCreate
<1>4. QED
  BY <1>2, <1>3

(* stat and opendir of a delete. *)
LEMMA LooksMoves ==
    ASSUME IInv, NEW t \in Threads, StatEntry(t) \/ OpenFolder(t)
    PROVE  Looks(thread[t], thread'[t]) \/ Fails(thread[t], thread'[t])
<1>1. /\ thread[t].pc = "delete" /\ thread[t].root \in Roots
      /\ Top(t) \in FrameRecord /\ Top(t).path \in Path
      /\ AtWork(thread[t], "stat") \/ AtWork(thread[t], "opendir")
  BY DeletingStack, QuietFacts
     DEF StatEntry, OpenFolder, Doing, ThreadRecord, FrameRecord, AtWork, Top
<1>2. UNCHANGED << fsVars, master, histVars >>
  BY DEF StatEntry, OpenFolder
<1>3. CASE Answer(t, InternalError)
  BY <1>1, <1>2, <1>3, AnswerEnds DEF Fails
<1>4. ASSUME NEW f \in FrameRecord, Now(t, f), f.path = Top(t).path,
             f.act \in {"opendir", "list", "lock"},
             f.act = "lock" => tree[thread[t].root][f.path] > Folder,
             \A c \in f.listed : Front(c) = f.path
      PROVE  Looks(thread[t], thread'[t])
  BY <1>1, <1>2, <1>4, NowTops DEF Looks, Top
<1>5. ASSUME NEW a \in {"opendir", "lock"}, Now(t, Frame(a, Top(t).path)),
             a = "lock" => tree[thread[t].root][Top(t).path] > Folder
      PROVE  Looks(thread[t], thread'[t])
  <2> DEFINE f == Frame(a, Top(t).path)
  <2>1. f \in FrameRecord /\ f.act = a /\ f.path = Top(t).path /\ f.listed = {}
    BY <1>1, FrameType DEF Acts, Frame
  <2> HIDE DEF f
  <2>2. Now(t, f)
    BY <1>5 DEF f
  <2>3. QED
    BY <1>4, <1>5, <2>1, <2>2
<1>6. CASE Now(t, [Frame("list", Top(t).path) EXCEPT !.listed =
                      Children(thread[t].root, Top(t).path)])
  <2> DEFINE f == [Frame("list", Top(t).path) EXCEPT !.listed =
                      Children(thread[t].root, Top(t).path)]
  <2>1. /\ f \in FrameRecord /\ f.act = "list" /\ f.path = Top(t).path
        /\ f.listed = Children(thread[t].root, Top(t).path)
    BY <1>1 DEF Frame, FrameRecord, Acts, Children, None
  <2> HIDE DEF f
  <2>2. Now(t, f)
    BY <1>6 DEF f
  <2>3. \A c \in f.listed : Front(c) = f.path
    BY <2>1 DEF Children
  <2>4. QED
    BY <1>4, <2>1, <2>2, <2>3
<1>7. QED
  <2>1. CASE StatEntry(t)
    BY <1>3, <1>5, <2>1 DEF StatEntry
  <2>2. CASE OpenFolder(t)
    BY <1>3, <1>6, <2>2 DEF OpenFolder
  <2>3. QED
    BY <2>1, <2>2

(* readdir of a delete. *)
LEMMA EntersMoves ==
    ASSUME IInv, NEW t \in Threads, ReadEntry(t)
    PROVE  Enters(thread[t], thread'[t])
<1>1. PICK r, f0 : r = thread[t] /\ f0 = Top(t)
  OBVIOUS
<1>2. /\ r.pc = "delete" /\ f0 \in FrameRecord /\ f0.act = "list" /\ f0 = Head(r.work)
      /\ r \in ThreadRecord
  BY <1>1, DeletingStack, QuietFacts DEF ReadEntry, Doing, Top
<1>3. PICK c \in f0.listed \cup Children(r.root, f0.path) :
        Become(t, [r EXCEPT !.work =
            << Frame("stat", c), [f0 EXCEPT !.seen = @ \cup {c}] >> \o Tail(@)])
  BY <1>1 DEF ReadEntry
<1> DEFINE g == [f0 EXCEPT !.seen = @ \cup {c}]
           w == << Frame("stat", c), g >> \o Tail(r.work)
           q == [r EXCEPT !.work = w]
<1>4. Become(t, q)
  BY <1>3
<1>5. c \in Path /\ (c \in f0.listed \/ Front(c) = f0.path)
  BY <1>2, <1>3 DEF FrameRecord, Children
<1>6. g \in FrameRecord /\ g.act = "list" /\ g.path = f0.path /\ g.listed = f0.listed
  BY <1>2, <1>5 DEF FrameRecord
<1> HIDE DEF g
<1>7. w = << Frame("stat", c), g >> \o Tail(r.work)
  OBVIOUS
<1> HIDE DEF w
<1>8. GoesOn(r, q) /\ q.work = w
  BY <1>2 DEF GoesOn, Kept, ThreadRecord
<1> HIDE DEF q
<1>9. thread'[t] = q
  BY <1>4, OthersStay
<1>10. UNCHANGED << fsVars, master, histVars >>
  BY DEF ReadEntry
<1>11. QED
  BY <1>1, <1>2, <1>5, <1>6, <1>7, <1>8, <1>9, <1>10 DEF Enters, AtWork

(* rmdir of a delete. *)
LEMMA EmptiesMoves ==
    ASSUME IInv, NEW t \in Threads, RemoveFolder(t)
    PROVE  Empties(thread[t], thread'[t]) \/ Fails(thread[t], thread'[t])
<1>1. thread[t].pc = "delete" /\ AtWork(thread[t], "list")
  BY DEF RemoveFolder, Doing, Top, AtWork
<1>2. data' = data /\ master' = master /\ UNCHANGED histVars
  BY DEF RemoveFolder
<1>3. CASE tree' = tree /\ Answer(t, InternalError)
  BY <1>1, <1>2, <1>3, AnswerEnds DEF Fails, fsVars
<1>4. CASE /\ tree[thread[t].root][Top(t).path] = Folder
           /\ Children(thread[t].root, Top(t).path) = {}
           /\ tree' = [tree EXCEPT ![thread[t].root][Top(t).path] = None]
           /\ Become(t, Deleted(t))
  BY <1>1, <1>2, <1>4, OthersStay, DeletedPops DEF Empties, Top
<1>5. QED
  BY <1>3, <1>4 DEF RemoveFolder

(* The steps of a delete from its lock to its remove. *)
LEMMA DeleteLockMoves ==
    ASSUME IInv, NEW t \in Threads,
           \/ LockToDelete(t) \/ OpenToDelete(t) \/ NothingToDelete(t)
           \/ BackupDeleteLeaks(t) \/ RemoveFile(t)
    PROVE  \/ Locks(t, thread[t], thread'[t]) \/ Opens(thread[t], thread'[t])
           \/ Misses(thread[t], thread'[t]) \/ Leaks(thread[t], thread'[t])
           \/ Removes(thread[t], thread'[t])
<1>1. thread[t].pc = "delete" /\ Top(t) \in FrameRecord /\ Top(t) = Head(thread[t].work)
  BY DeletingStack
     DEF LockToDelete, OpenToDelete, NothingToDelete, BackupDeleteLeaks, RemoveFile, Doing, Top
<1>2. CASE LockToDelete(t)
  <2> DEFINE f == [Top(t) EXCEPT !.act = "open"]
  <2>1. f \in FrameRecord /\ f.act = "open" /\ f.path = Top(t).path /\ f.listed = Top(t).listed
    BY <1>1 DEF FrameRecord, Acts
  <2> HIDE DEF f
  <2>2. Now(t, f) /\ Doing(t, "lock") /\ master = Nobody /\ master' = t /\ UNCHANGED << fsVars, histVars >>
    BY <1>2 DEF LockToDelete, f
  <2>3. QED
    BY <1>1, <2>1, <2>2, NowTops DEF Locks, Doing, AtWork
<1>3. CASE OpenToDelete(t)
  <2> DEFINE i == Inode(thread[t].root, Top(t).path)
             f == [Top(t) EXCEPT !.act = "remove", !.ino = i]
  <2>1. thread[t].root \in Roots /\ Top(t).path \in Path
    BY <1>1, QuietFacts DEF ThreadRecord, FrameRecord
  <2>2. i \in Int
    BY <2>1, QuietFacts DEF Inode, FsTyped, None
  <2> HIDE DEF i
  <2>3. f \in FrameRecord /\ f.act = "remove" /\ f.path = Top(t).path /\ f.listed = Top(t).listed
    BY <1>1, <2>2 DEF FrameRecord, Acts
  <2> HIDE DEF f
  <2>4. /\ Now(t, f) /\ Doing(t, "open") /\ CanOpen(thread[t].root, Top(t).path)
        /\ Truncate(thread[t].root, Top(t).path) /\ UNCHANGED << master, raced, made >>
    BY <1>3 DEF OpenToDelete, f, i
  <2>5. QED
    BY <1>1, <2>3, <2>4, NowTops DEF Opens, Doing, AtWork
<1>4. CASE NothingToDelete(t)
  BY <1>1, <1>4, OthersStay, DeletedPops DEF NothingToDelete, Misses, Doing, AtWork
<1>5. CASE BackupDeleteLeaks(t)
  BY <1>1, <1>5, AnswerEnds DEF BackupDeleteLeaks, Leaks, Doing, AtWork
<1>6. CASE RemoveFile(t)
  BY <1>1, <1>6, OthersStay, DeletedPops DEF RemoveFile, Removes, Doing, AtWork
<1>7. QED
  BY <1>2, <1>3, <1>4, <1>5, <1>6

(* The steps of a READ or a WRITE until it streams. *)
LEMMA ReadMoves ==
    ASSUME IInv, NEW t \in Threads,
           \/ CheckExists(t) \/ LockToOpen(t) \/ OpenToRead(t) \/ ReadLeaks(t)
           \/ OpenToWrite(t) \/ WriteLeaks(t)
    PROVE  \/ Checks(thread[t], thread'[t]) \/ Locks(t, thread[t], thread'[t])
           \/ StartsRead(thread[t], thread'[t]) \/ Leaks(thread[t], thread'[t])
           \/ StartsWrite(thread[t], thread'[t])
<1>1. PICK r : r = thread[t]
  OBVIOUS
<1>2. r \in ThreadRecord
  BY <1>1, QuietFacts
<1>3. CASE CheckExists(t)
  <2> DEFINE q == [r EXCEPT !.pc = "lock", !.resp = OkStartStream]
  <2>1. Kept(r, q) /\ q.pc = "lock" /\ q.root = r.root
    BY <1>2 DEF Kept, ThreadRecord
  <2> HIDE DEF q
  <2>2. /\ r.pc = "exists" /\ UNCHANGED << fsVars, master, histVars >>
        /\ (Exists("primary", r.req.path) /\ Become(t, q)) \/ Answer(t, NotFound)
    BY <1>1, <1>3 DEF CheckExists, q
  <2>3. QED
    BY <1>1, <2>1, <2>2, OthersStay, AnswerEnds DEF Checks
<1>4. CASE LockToOpen(t)
  <2> DEFINE q == [r EXCEPT !.pc = "open"]
  <2>1. Kept(r, q) /\ q.pc = "open" /\ q.root = r.root
    BY <1>2 DEF Kept, ThreadRecord
  <2> HIDE DEF q
  <2>2. /\ r.pc = "lock" /\ master = Nobody /\ master' = t /\ Become(t, q)
        /\ UNCHANGED << fsVars, histVars >>
    BY <1>1, <1>4 DEF LockToOpen, q
  <2>3. QED
    BY <1>1, <2>1, <2>2, OthersStay DEF Locks
<1>5. CASE OpenToRead(t)
  <2> DEFINE i == tree["primary"][r.req.path]
             q == [r EXCEPT !.pc = "stream", !.ino = i]
  <2> HIDE DEF i
  <2>1. q.pc = "stream" /\ q.req = r.req /\ q.root = r.root
    BY <1>2 DEF ThreadRecord
  <2> HIDE DEF q
  <2>2. /\ r.pc = "open" /\ r.req.op = "read" /\ master' = Nobody /\ Become(t, q)
        /\ UNCHANGED << fsVars, raced, made >>
    BY <1>1, <1>5 DEF OpenToRead, q, i
  <2>3. QED
    BY <1>1, <2>1, <2>2, OthersStay DEF StartsRead
<1>6. CASE ReadLeaks(t) \/ WriteLeaks(t)
  BY <1>6, AnswerEnds DEF ReadLeaks, WriteLeaks, Leaks
<1>7. CASE OpenToWrite(t)
  <2> DEFINE i == Inode("primary", r.req.path)
             q == [r EXCEPT !.pc = "stream", !.ino = i, !.resp = OkStartStream]
  <2> HIDE DEF i
  <2>1. q.pc = "stream" /\ q.req = r.req /\ q.root = r.root
    BY <1>2 DEF ThreadRecord
  <2> HIDE DEF q
  <2>2. /\ r.pc = "open" /\ r.req.op = "write" /\ master' = Nobody /\ Become(t, q)
        /\ CanOpen("primary", r.req.path) /\ Truncate("primary", r.req.path)
        /\ Make(r.req.path) /\ raced' = raced
    BY <1>1, <1>7 DEF OpenToWrite, q, i
  <2>3. QED
    BY <1>1, <2>1, <2>2, OthersStay DEF StartsWrite
<1>8. QED
  BY <1>3, <1>4, <1>5, <1>6, <1>7

(* The chunks of a stream, and its end. *)
LEMMA StreamsMoves ==
    ASSUME IInv, NEW t \in Threads, StreamStep(t)
    PROVE  Streams(thread[t], thread'[t])
<1>1. PICK r : r = thread[t]
  OBVIOUS
<1>2. r \in ThreadRecord
  BY <1>1, QuietFacts
<1>3. r.pc = "stream" /\ UNCHANGED << tree, master, histVars >>
  BY <1>1 DEF StreamStep, ReadChunk, EndRead, WriteChunk, EndWrite, fsVars
<1>4. CASE EndRead(t) \/ EndWrite(t)
  <2>1. PICK resp : Answer(t, resp)
    BY <1>4 DEF EndRead, EndWrite
  <2>2. QED
    BY <1>1, <1>3, <2>1, AnswerEnds DEF Streams, Ended, Kept
<1>5. CASE ReadChunk(t)
  <2> DEFINE n == r.pos + 1
             g == Append(r.got, data["primary"][r.ino][r.pos + 1])
             q == [r EXCEPT !.pos = n, !.got = g]
  <2>1. Become(t, q)
    BY <1>1, <1>5 DEF ReadChunk
  <2> HIDE DEF n, g
  <2>2. q.pc = r.pc /\ q.req = r.req /\ q.root = r.root
    BY <1>2 DEF ThreadRecord
  <2> HIDE DEF q
  <2>3. QED
    BY <1>1, <1>3, <2>1, <2>2, OthersStay DEF Streams
<1>6. CASE WriteChunk(t)
  <2> DEFINE n == r.pos + 1
             q == [r EXCEPT !.pos = n, !.resp = OK]
  <2>1. Become(t, q)
    BY <1>1, <1>6 DEF WriteChunk
  <2> HIDE DEF n
  <2>2. q.pc = r.pc /\ q.req = r.req /\ q.root = r.root
    BY <1>2 DEF ThreadRecord
  <2> HIDE DEF q
  <2>3. QED
    BY <1>1, <1>3, <2>1, <2>2, OthersStay DEF Streams
<1>7. QED
  BY <1>4, <1>5, <1>6 DEF StreamStep

(* Every step of a thread is a move of its record, and leaves the others'. *)
LEMMA StepMoves ==
    ASSUME IInv, NEW t \in Threads, Accept(t) \/ ServerStep(t) \/ StreamStep(t)
    PROVE  /\ Moves(t, thread[t], thread'[t])
           /\ \A u \in Threads \ {t} : thread'[u] = thread[u]
<1>1. \E q : Become(t, q)
  BY DEF Accept, ServerStep, StreamStep, CreateFile, CreateFolder, CreateFails,
     StatEntry, OpenFolder, ReadEntry, RemoveFolder, LockToDelete, OpenToDelete,
     NothingToDelete, BackupDeleteLeaks, RemoveFile, CheckExists, LockToOpen,
     OpenToRead, ReadLeaks, OpenToWrite, WriteLeaks, ReadChunk, EndRead,
     WriteChunk, EndWrite, Answer, Now
<1>2. \A u \in Threads \ {t} : thread'[u] = thread[u]
  BY <1>1, OthersStay
<1> SUFFICES Moves(t, thread[t], thread'[t])
  BY <1>2
<1>3. CASE Accept(t)
  BY <1>3, ReceivesMoves DEF Moves
<1>4. CASE ServerStep(t)
  <2>1. CASE CreateFile(t) \/ CreateFolder(t) \/ CreateFails(t)
    BY <2>1, CreatesMoves DEF Moves
  <2>2. CASE StatEntry(t) \/ OpenFolder(t)
    BY <2>2, LooksMoves DEF Moves
  <2>3. CASE ReadEntry(t)
    BY <2>3, EntersMoves DEF Moves
  <2>4. CASE RemoveFolder(t)
    BY <2>4, EmptiesMoves DEF Moves
  <2>5. CASE \/ LockToDelete(t) \/ OpenToDelete(t) \/ NothingToDelete(t)
             \/ BackupDeleteLeaks(t) \/ RemoveFile(t)
    BY <2>5, DeleteLockMoves DEF Moves
  <2>6. CASE \/ CheckExists(t) \/ LockToOpen(t) \/ OpenToRead(t) \/ ReadLeaks(t)
             \/ OpenToWrite(t) \/ WriteLeaks(t)
    BY <2>6, ReadMoves DEF Moves
  <2>7. QED
    BY <1>4, <2>1, <2>2, <2>3, <2>4, <2>5, <2>6 DEF ServerStep
<1>5. CASE StreamStep(t)
  BY <1>5, StreamsMoves DEF Moves
<1>6. QED
  BY <1>3, <1>4, <1>5

-----------------------------------------------------------------------------
(* What a move makes of the trees.                                         *)

Changes(s, p) ==
    \A x \in Roots, a \in Path : x # s \/ a # p => tree'[x][a] = tree[x][a]

(* A place may get a file, if it has a folder to be in and holds none, a   *)
(* folder, if it held nothing, or nothing, if it held a file or an empty   *)
(* folder.                                                                 *)
Fits(s, p) ==
    \/ /\ HasParent(s, p) /\ tree[s][p] # Folder /\ tree'[s][p] > Folder
       /\ tree[s][p] > Folder => tree'[s][p] = tree[s][p]
    \/ HasParent(s, p) /\ tree[s][p] = None /\ tree'[s][p] = Folder
    \/ tree'[s][p] = None /\ (tree[s][p] > Folder \/ Children(s, p) = {})

(* Creates and writes are remembered in made; a delete changes the entry   *)
(* at work.                                                                *)
ChangedBy(r, q, s, p) ==
    \/ /\ r.pc = "create" /\ s = r.root /\ p = r.req.path /\ Make(p)
       /\ Passed(r, q) /\ tree'[s][p] # None
       /\ r.req.op = "mkdir" => tree[s][p] = None /\ tree'[s][p] = Folder
       /\ r.req.op = "create" => tree'[s][p] > Folder
    \/ /\ r.pc = "open" /\ r.req.op = "write" /\ Make(p) /\ tree'[s][p] > Folder
    \/ /\ s = r.root /\ p = Head(r.work).path /\ made' = made
       /\ AtWork(r, "open") /\ q.pc = "delete" /\ AtWork(q, "remove") /\ q.root = s
       /\ Head(q.work).path = p /\ tree'[s][p] > Folder
    \/ /\ s = r.root /\ p = Head(r.work).path /\ made' = made
       /\ AtWork(r, "remove") \/ AtWork(r, "list")
       /\ Popped(r, q) /\ tree'[s][p] = None

(* One place of one tree is set. *)
LEMMA PlaceSet ==
    ASSUME TypeOK, NEW s \in Roots, NEW p \in Path, NEW v,
           tree' = [tree EXCEPT ![s][p] = v]
    PROVE  tree'[s][p] = v /\ Changes(s, p)
<1>1. DOMAIN tree = Roots /\ \A x \in Roots : DOMAIN tree[x] = Path
  BY DEF TypeOK
<1>2. tree'[s] = [tree[s] EXCEPT ![p] = v] /\ \A x \in Roots \ {s} : tree'[x] = tree[x]
  BY <1>1
<1>3. tree'[s][p] = v /\ \A a \in Path \ {p} : tree'[s][a] = tree[s][a]
  BY <1>1, <1>2
<1>4. QED
  BY <1>2, <1>3 DEF Changes

(* fopen "w" leaves a file in a folder. *)
LEMMA TruncatePlaces ==
    ASSUME TypeOK, NEW s \in Roots, NEW p \in Path, CanOpen(s, p), Truncate(s, p)
    PROVE  /\ Changes(s, p) /\ HasParent(s, p) /\ tree[s][p] # Folder /\ tree'[s][p] > Folder
           /\ tree[s][p] > Folder => tree'[s][p] = tree[s][p]
<1>1. Changes(s, p)
  BY PlaceSet DEF Truncate
<1>2. QED
  BY <1>1, TruncateFacts DEF CanOpen

(* The paths at work. *)
LEMMA AtWorkPath ==
    ASSUME IInv, NEW t \in Threads
    PROVE  LET r == thread[t] IN
           /\ r.root \in Roots
           /\ r.pc # "idle" => r.req \in Requests /\ r.req.path \in Path
           /\ r.pc = "delete" => /\ r.work \in Seq(FrameRecord) /\ r.work # <<>>
                                 /\ Head(r.work) \in FrameRecord /\ Head(r.work).path \in Path
                                 /\ Len(r.work) \in Nat \ {0}
                                 /\ \A k \in 2 .. Len(r.work) : r.work[k].act = "list"
                                 /\ Head(r.work) = r.work[1]
                                 /\ r.req.op = "delete"
<1>1. thread[t] \in ThreadRecord /\ ThreadOK(thread[t])
  BY QuietFacts
<1>2. ASSUME thread[t].pc = "delete"
      PROVE  /\ thread[t].work \in Seq(FrameRecord) /\ thread[t].work # <<>>
             /\ \A k \in 2 .. Len(thread[t].work) : thread[t].work[k].act = "list"
             /\ Head(thread[t].work) \in FrameRecord /\ Head(thread[t].work).path \in Path
             /\ Len(thread[t].work) \in Nat \ {0}
  BY <1>2, DeletingStack, EmptySeq DEF Top, FrameRecord
<1>3. QED
  BY <1>1, <1>2, StorageAssumption DEF ThreadRecord, ThreadOK

(* A move leaves the trees alone or changes one place.                     *)
LEMMA TreeMoves ==
    ASSUME IInv, NEW t \in Threads, NEW r, r = thread[t], NEW q, Moves(t, r, q)
    PROVE  \/ tree' = tree
           \/ \E s \in Roots, p \in Path : Changes(s, p) /\ Fits(s, p) /\ ChangedBy(r, q, s, p)
<1>1. TypeOK
  BY DEF IInv
<1>2. /\ r.root \in Roots
      /\ r.pc # "idle" => r.req \in Requests /\ r.req.path \in Path
      /\ r.pc = "delete" => Head(r.work).path \in Path
  BY AtWorkPath
<1>3. CASE Creates(r, q)
  <2> DEFINE s == r.root
             p == r.req.path
  <2>1. s \in Roots /\ p \in Path /\ r.pc = "create" /\ Make(p) /\ Passed(r, q)
    BY <1>2, <1>3 DEF Creates
  <2>2. CASE r.req.op = "create" /\ CanOpen(s, p) /\ Truncate(s, p)
    <3>1. /\ Changes(s, p) /\ HasParent(s, p) /\ tree[s][p] # Folder /\ tree'[s][p] > Folder
          /\ tree[s][p] > Folder => tree'[s][p] = tree[s][p]
      BY <1>1, <2>1, <2>2, TruncatePlaces
    <3>2. Fits(s, p)
      BY <3>1 DEF Fits
    <3>3. ChangedBy(r, q, s, p)
      BY <2>1, <2>2, <3>1, SMTT(40) DEF ChangedBy, None, Folder
    <3>4. QED
      BY <2>1, <3>1, <3>2, <3>3
  <2>3. CASE /\ r.req.op = "mkdir" /\ ~ Exists(s, p) /\ HasParent(s, p)
             /\ tree' = [tree EXCEPT ![s][p] = Folder]
    <3>1. Changes(s, p) /\ tree'[s][p] = Folder
      BY <1>1, <2>1, <2>3, PlaceSet, ZenonT(40)
    <3>2. Fits(s, p)
      BY <2>3, <3>1 DEF Fits, Exists
    <3>3. ChangedBy(r, q, s, p)
      BY <2>1, <2>3, <3>1, SMTT(40) DEF ChangedBy, None, Folder, Exists
    <3>4. QED
      BY <2>1, <3>1, <3>2, <3>3
  <2>4. QED
    BY <1>3, <2>2, <2>3 DEF Creates
<1>4. CASE StartsWrite(r, q)
  <2> DEFINE p == r.req.path
  <2>1. /\ "primary" \in Roots /\ p \in Path /\ r.pc = "open" /\ r.req.op = "write" /\ Make(p)
        /\ CanOpen("primary", p) /\ Truncate("primary", p)
    BY <1>2, <1>4 DEF StartsWrite, Roots
  <2>2. /\ Changes("primary", p) /\ HasParent("primary", p) /\ tree["primary"][p] # Folder
        /\ tree'["primary"][p] > Folder
        /\ tree["primary"][p] > Folder => tree'["primary"][p] = tree["primary"][p]
    BY <1>1, <2>1, TruncatePlaces
  <2>3. Fits("primary", p) /\ ChangedBy(r, q, "primary", p)
    BY <2>1, <2>2 DEF Fits, ChangedBy
  <2>4. QED
    BY <2>1, <2>2, <2>3
<1>5. CASE Opens(r, q)
  <2> DEFINE s == r.root
             p == Head(r.work).path
  <2>1. /\ s \in Roots /\ p \in Path /\ AtWork(r, "open") /\ r.pc = "delete"
        /\ CanOpen(s, p) /\ Truncate(s, p) /\ made' = made
    BY <1>2, <1>5 DEF Opens, AtWork
  <2>2. /\ Changes(s, p) /\ HasParent(s, p) /\ tree[s][p] # Folder /\ tree'[s][p] > Folder
        /\ tree[s][p] > Folder => tree'[s][p] = tree[s][p]
    BY <1>1, <2>1, TruncatePlaces
  <2>3. PICK f \in FrameRecord : Topped(r, q, f) /\ f.act = "remove" /\ f.path = p
    BY <1>5 DEF Opens
  <2>4. Tail(r.work) \in Seq(FrameRecord)
    BY <2>1, AtWorkPath, HeadTailProperties
  <2>5. Head(q.work) = f
    BY <2>3, <2>4 DEF Topped
  <2>6. ChangedBy(r, q, s, p)
    BY <2>1, <2>2, <2>3, <2>5 DEF ChangedBy, Topped, GoesOn, AtWork
  <2>7. Fits(s, p)
    BY <2>2 DEF Fits
  <2>8. QED
    BY <2>1, <2>2, <2>6, <2>7
<1>6. CASE Empties(r, q) \/ Removes(r, q)
  <2> DEFINE s == r.root
             p == Head(r.work).path
  <2>1. /\ s \in Roots /\ p \in Path /\ (AtWork(r, "remove") \/ AtWork(r, "list"))
        /\ Popped(r, q) /\ made' = made /\ tree' = [tree EXCEPT ![s][p] = None]
    BY <1>2, <1>6 DEF Empties, Removes, AtWork, histVars
  <2>2. Changes(s, p) /\ tree'[s][p] = None
    <3>1. s \in Roots /\ p \in Path /\ tree' = [tree EXCEPT ![s][p] = None]
      BY <2>1
    <3> HIDE DEF s, p
    <3>2. QED
      BY <1>1, <3>1, PlaceSet
  <2>3. CASE Empties(r, q)
    BY <2>1, <2>2, <2>3 DEF Empties, Fits, ChangedBy
  <2>4. CASE Removes(r, q)
    <3>1. tree[s][p] > Folder
      BY <2>4, RemovingIsFile DEF Removes, AtWork, Doing, Top
    <3>2. QED
      BY <2>1, <2>2, <3>1 DEF Fits, ChangedBy
  <2>5. QED
    BY <1>6, <2>3, <2>4
<1>7. CASE ~ (\/ Creates(r, q) \/ StartsWrite(r, q) \/ Opens(r, q) \/ Empties(r, q) \/ Removes(r, q))
  BY <1>7 DEF Moves, Receives, Fails, Looks, Enters, Locks, Misses, Leaks, Checks, StartsRead,
     Streams, fsVars
<1>8. QED
  BY <1>3, <1>4, <1>5, <1>6, <1>7

(* What exists stays in a folder.                                          *)
LEMMA WellRootedStays ==
    ASSUME IInv, WellRooted, NEW t \in Threads, NEW r, r = thread[t], NEW q, Moves(t, r, q)
    PROVE  WellRooted'
<1>1. CASE tree' = tree
  BY <1>1 DEF WellRooted, Exists, HasParent
<1>2. ASSUME NEW s \in Roots, NEW p \in Path, Changes(s, p), Fits(s, p)
      PROVE  WellRooted'
  <2> SUFFICES ASSUME NEW x \in Roots, NEW a \in Path, tree'[x][a] # None, Len(a) > 1
               PROVE  tree'[x][Front(a)] = Folder
    BY DEF WellRooted, Exists, HasParent
  <2> DEFINE f == Front(a)
  <2>1. f \in Path
    BY StorageAssumption
  <2>2. f # a
    <3>1. a \in Seq(STRING)
      BY StorageAssumption
    <3>2. Len(Front(a)) = Len(a) - 1 /\ Len(a) \in Nat
      BY <3>1 DEF Front
    <3>3. QED
      BY <3>2
  <2>3. CASE x # s
    <3>1. tree[x][a] # None
      BY <1>2, <2>3 DEF Changes
    <3>2. tree[x][f] = Folder
      BY <3>1 DEF WellRooted, Exists, HasParent
    <3>3. QED
      BY <1>2, <2>1, <2>3, <3>2 DEF Changes
  <2>4. CASE x = s /\ a = p
    <3>1. HasParent(s, p)
      BY <1>2, <2>4 DEF Fits
    <3>2. tree[s][f] = Folder
      BY <2>4, <3>1 DEF HasParent
    <3>3. QED
      BY <1>2, <2>1, <2>2, <2>4, <3>2 DEF Changes
  <2>5. CASE x = s /\ a # p
    <3>1. tree[s][a] # None
      BY <1>2, <2>5 DEF Changes
    <3>2. tree[s][f] = Folder /\ a \in Children(s, f)
      BY <3>1 DEF WellRooted, Exists, HasParent, Children
    <3>3. f # p
      BY <1>2, <3>2 DEF Fits, None, Folder
    <3>4. QED
      BY <1>2, <2>1, <2>5, <3>2, <3>3 DEF Changes
  <2>6. QED
    BY <2>3, <2>4, <2>5
<1>3. QED
  BY <1>1, <1>2, TreeMoves

(* But for the receipt of its request a thread keeps it, and races do not  *)
(* come about.                                                             *)
LEMMA BasicMoves ==
    ASSUME IInv, NEW t \in Threads, NEW r, r = thread[t], NEW q, Moves(t, r, q)
    PROVE  \/ Receives(t, r, q)
           \/ /\ r.pc \notin {"idle", "done"} /\ q.pc # "idle" /\ q.req = r.req /\ raced' = raced
              /\ q.root = r.root \/ (q.root = "backup" /\ q.pc = r.pc)
<1>1. \A resp : Ended(r, q, resp) => q.pc # "idle" /\ q.req = r.req /\ q.root = r.root
  BY DEF Ended, Kept
<1>2. GoesOn(r, q) => q.pc = r.pc /\ q.req = r.req /\ q.root = r.root
  BY DEF GoesOn, Kept
<1>3. Passed(r, q) => /\ q.pc \in {r.pc, "done"} /\ q.req = r.req
                      /\ q.root = r.root \/ (q.root = "backup" /\ q.pc = r.pc)
  BY DEF Passed, Ended, Kept
<1>4. Popped(r, q) => /\ q.pc \in {r.pc, "done"} /\ q.req = r.req
                      /\ q.root = r.root \/ (q.root = "backup" /\ q.pc = r.pc)
  BY <1>2, <1>3 DEF Popped
<1>5. CASE Creates(r, q) \/ Fails(r, q)
  BY <1>1, <1>3, <1>5 DEF Creates, Fails, AtWork, histVars
<1>6. CASE Looks(r, q) \/ Enters(r, q) \/ Empties(r, q)
  BY <1>2, <1>4, <1>6 DEF Looks, Enters, Empties, Topped, AtWork, histVars
<1>7. CASE Locks(t, r, q) \/ Opens(r, q)
  BY <1>2, <1>7 DEF Locks, Opens, Topped, AtWork, Kept, histVars
<1>8. CASE Misses(r, q) \/ Leaks(r, q) \/ Removes(r, q)
  BY <1>1, <1>4, <1>8 DEF Misses, Leaks, Removes, AtWork, histVars
<1>9. CASE Checks(r, q) \/ StartsRead(r, q) \/ StartsWrite(r, q) \/ Streams(r, q)
  BY <1>1, <1>9 DEF Checks, StartsRead, StartsWrite, Streams, Kept, histVars
<1>10. QED
  BY <1>5, <1>6, <1>7, <1>8, <1>9 DEF Moves

(* Related threads at work stay known to have raced.                       *)
LEMMA RivalsRacedStays ==
    ASSUME IInv, RivalsRaced, NEW t \in Threads, NEW r, r = thread[t], NEW q, q = thread'[t],
           Moves(t, r, q), \A u \in Threads \ {t} : thread'[u] = thread[u]
    PROVE  RivalsRaced'
<1>1. raced \subseteq raced'
  BY BasicMoves DEF Receives
<1> SUFFICES ASSUME NEW u \in Threads, NEW v \in Threads, u # v, Active(u)', Active(v)',
                    Related(thread'[u].req.path, thread'[v].req.path),
                    "delete" \in {thread'[u].req.op, thread'[v].req.op}
             PROVE  u \in raced'
  BY DEF RivalsRaced
<1>2. Related(thread'[v].req.path, thread'[u].req.path)
  BY DEF Related
<1>3. CASE u # t /\ v # t
  BY <1>1, <1>3 DEF RivalsRaced, Active
<1>4. CASE u = t \/ v = t
  <2>1. PICK w \in Threads : w # t /\ {u, v} = {t, w}
    BY <1>4
  <2>2. /\ thread'[w] = thread[w] /\ Active(w) /\ Related(q.req.path, thread[w].req.path)
        /\ Related(thread[w].req.path, q.req.path)
        /\ "delete" \in {q.req.op, thread[w].req.op}
        /\ "delete" \in {thread[w].req.op, q.req.op}
    BY <1>2, <2>1 DEF Active
  <2>3. CASE Receives(t, r, q)
    BY <2>1, <2>2, <2>3 DEF Receives
  <2>4. CASE r.pc \notin {"idle", "done"} /\ q.req = r.req /\ raced' = raced
    <3>1. Active(t)
      BY <2>4 DEF Active
    <3>2. t \in raced /\ w \in raced
      BY <2>1, <2>2, <2>4, <3>1 DEF RivalsRaced
    <3>3. QED
      BY <2>1, <2>4, <3>2
  <2>5. QED
    BY <2>3, <2>4, BasicMoves
<1>5. QED
  BY <1>3, <1>4

(* The stages of a thread. *)
LEMMA StageStays ==
    ASSUME IInv, NEW t \in Threads, NEW r, r = thread[t], NEW q, Moves(t, r, q), StageOK(r)
    PROVE  StageOK(q)
<1> DEFINE Late == {"exists", "lock", "open", "stream"}
<1>1. \A resp : Ended(r, q, resp) => StageOK(q)
  BY DEF Ended, StageOK
<1>2. Kept(r, q) /\ q.pc = r.pc /\ r.pc \notin {"idle", "stream", "done"} => StageOK(q)
  BY DEF Kept, StageOK
<1>3. Passed(r, q) /\ r.pc \in {"create", "delete"} => StageOK(q)
  BY <1>1, <1>2 DEF Passed
<1>4. Popped(r, q) /\ r.pc = "delete" => StageOK(q)
  BY <1>2, <1>3 DEF Popped, GoesOn
<1>5. CASE Receives(t, r, q)
  BY <1>5 DEF Receives, StageOK
<1>6. CASE Creates(r, q) \/ Fails(r, q)
  BY <1>1, <1>3, <1>6 DEF Creates, Fails
<1>7. CASE Looks(r, q) \/ Enters(r, q) \/ Empties(r, q)
  BY <1>2, <1>4, <1>7 DEF Looks, Enters, Empties, Topped, AtWork, GoesOn
<1>8. CASE Locks(t, r, q) \/ Opens(r, q)
  <2>1. CASE r.pc = "delete"
    BY <1>2, <1>8, <2>1 DEF Locks, Opens, Topped, AtWork, GoesOn
  <2>2. CASE r.pc = "lock" /\ Kept(r, q) /\ q.pc = "open"
    BY <2>2 DEF StageOK, Kept
  <2>3. QED
    BY <1>8, <2>1, <2>2 DEF Locks, Opens, AtWork
<1>9. CASE Misses(r, q) \/ Leaks(r, q) \/ Removes(r, q)
  BY <1>1, <1>4, <1>9 DEF Misses, Leaks, Removes, AtWork
<1>10. CASE Checks(r, q)
  BY <1>1, <1>10 DEF Checks, StageOK, Kept
<1>11. CASE StartsRead(r, q) \/ StartsWrite(r, q) \/ Streams(r, q)
  BY <1>11 DEF StartsRead, StartsWrite, Streams, StageOK
<1>12. QED
  BY <1>5, <1>6, <1>7, <1>8, <1>9, <1>10, <1>11 DEF Moves

-----------------------------------------------------------------------------
(* The stack of a delete stays below its path.                             *)

StackBelow(w, p) ==
    /\ w[Len(w)].path = p
    /\ \A k \in 1 .. Len(w) :
        IsPrefix(p, w[k].path) /\ \A c \in w[k].listed : Front(c) = w[k].path

(* Taking the top frame off the stack, or replacing it, keeps it there. *)
LEMMA StackStays ==
    ASSUME NEW w \in Seq(FrameRecord), NEW p \in Path, w # <<>>, StackBelow(w, p),
           NEW f \in FrameRecord, NEW g \in FrameRecord
    PROVE  /\ Len(w) > 1 => StackBelow(Tail(w), p)
           /\ f.path = w[1].path /\ (\A c \in f.listed : Front(c) = f.path)
              => StackBelow(<< f >> \o Tail(w), p)
           /\ /\ g.path = w[1].path /\ g.listed = w[1].listed
              /\ f.listed = {} /\ f.path # <<>> /\ Front(f.path) = g.path
              => StackBelow(<< f, g >> \o Tail(w), p)
<1>1. /\ Len(w) \in Nat \ {0} /\ Tail(w) \in Seq(FrameRecord) /\ Len(Tail(w)) = Len(w) - 1
      /\ \A k \in 1 .. Len(Tail(w)) : Tail(w)[k] = w[k + 1]
  BY HeadTailProperties, EmptySeq
<1>2. << f >> \in Seq(FrameRecord) /\ << f, g >> \in Seq(FrameRecord)
      /\ Len(<< f >>) = 1 /\ Len(<< f, g >>) = 2
  OBVIOUS
<1> DEFINE z == Tail(w)
           a == << f >> \o z
           b == << f, g >> \o z
<1>3. /\ a \in Seq(FrameRecord) /\ Len(a) = Len(w)
      /\ \A k \in 1 .. Len(a) : a[k] = IF k = 1 THEN f ELSE w[k]
  <2>1. /\ a \in Seq(FrameRecord) /\ Len(a) = 1 + Len(z)
        /\ \A k \in 1 .. Len(a) : a[k] = IF k <= 1 THEN << f >>[k] ELSE z[k - 1]
    BY <1>1, <1>2, ConcatProperties
  <2> HIDE DEF a, z
  <2>2. QED
    BY <1>1, <2>1 DEF z
<1>4. /\ b \in Seq(FrameRecord) /\ Len(b) = Len(w) + 1
      /\ \A k \in 1 .. Len(b) : b[k] = IF k = 1 THEN f ELSE IF k = 2 THEN g ELSE w[k - 1]
  <2>1. /\ b \in Seq(FrameRecord) /\ Len(b) = 2 + Len(z)
        /\ \A k \in 1 .. Len(b) : b[k] = IF k <= 2 THEN << f, g >>[k] ELSE z[k - 2]
    BY <1>1, <1>2, ConcatProperties
  <2> HIDE DEF b, z
  <2>2. QED
    BY <1>1, <2>1 DEF z
<1> HIDE DEF a, b, z
<1>5. /\ w[Len(w)].path = p
      /\ \A k \in 1 .. Len(w) : /\ IsPrefix(p, w[k].path)
                                /\ \A c \in w[k].listed : Front(c) = w[k].path
  BY DEF StackBelow
<1>6. Len(w) > 1 => StackBelow(z, p)
  BY <1>1, <1>5 DEF StackBelow, z
<1>7. ASSUME f.path = w[1].path, \A c \in f.listed : Front(c) = f.path
      PROVE  StackBelow(a, p)
  BY <1>1, <1>3, <1>5, <1>7 DEF StackBelow
<1>8. ASSUME g.path = w[1].path, g.listed = w[1].listed,
             f.listed = {}, f.path # <<>>, Front(f.path) = g.path
      PROVE  StackBelow(b, p)
  <2>1. IsPrefix(p, g.path)
    BY <1>1, <1>5, <1>8
  <2>2. IsPrefix(p, f.path)
    <3>1. p \in Seq(STRING) /\ f.path \in Seq(STRING) /\ g.path \in Seq(STRING)
      BY StorageAssumption DEF FrameRecord
    <3>2. IsPrefix(g.path, f.path)
      BY <1>8, <3>1, PrefixFacts
    <3>3. QED
      BY <2>1, <3>1, <3>2, PrefixFacts
  <2>3. \A k \in 1 .. Len(b) : /\ IsPrefix(p, b[k].path)
                               /\ \A c \in b[k].listed : Front(c) = b[k].path
    <3> SUFFICES ASSUME NEW k \in 1 .. Len(b)
                 PROVE  /\ IsPrefix(p, b[k].path)
                        /\ \A c \in b[k].listed : Front(c) = b[k].path
      OBVIOUS
    <3>1. CASE k = 1
      BY <1>4, <1>8, <2>2, <3>1
    <3>2. CASE k = 2
      <4>1. b[k] = g /\ 1 \in 1 .. Len(w)
        BY <1>1, <1>4, <3>2
      <4>2. QED
        BY <1>5, <1>8, <2>1, <4>1
    <3>3. CASE k > 2
      <4>1. b[k] = w[k - 1] /\ k - 1 \in 1 .. Len(w)
        BY <1>1, <1>4, <3>3
      <4>2. QED
        BY <1>5, <4>1
    <3>4. QED
      BY <3>1, <3>2, <3>3
  <2>4. b[Len(b)].path = p
    BY <1>1, <1>4, <1>5, <1>8
  <2>5. QED
    BY <2>3, <2>4 DEF StackBelow
<1>9. QED
  BY <1>6, <1>7, <1>8 DEF a, b, z

(* So does the first frame of all. *)
LEMMA FirstStackBelow ==
    ASSUME NEW p \in Path
    PROVE  StackBelow(<< Frame("stat", p) >>, p)
<1> DEFINE f == Frame("stat", p)
<1>1. f.path = p /\ f.listed = {}
  BY DEF Frame
<1> HIDE DEF f
<1>2. IsPrefix(p, p)
  BY StorageAssumption, PrefixFacts
<1>3. StackBelow(<< f >>, p)
  BY <1>1, <1>2 DEF StackBelow
<1>4. QED
  BY <1>3 DEF f

(* Every move keeps the stack of its thread below the path. *)
LEMMA BelowItsPathStays ==
    ASSUME IInv, NEW t \in Threads, NEW r, r = thread[t], NEW q, Moves(t, r, q),
           BelowItsPath(r)
    PROVE  BelowItsPath(q)
<1> SUFFICES ASSUME q.pc = "delete" PROVE StackBelow(q.work, q.req.path)
  BY DEF BelowItsPath, StackBelow, Last
<1>1. /\ r.pc # "idle" => r.req \in Requests /\ r.req.path \in Path
      /\ r.pc = "delete" => /\ r.work \in Seq(FrameRecord) /\ r.work # <<>>
                            /\ Head(r.work) \in FrameRecord /\ Head(r.work) = r.work[1]
                            /\ r.req.op = "delete"
                            /\ Len(r.work) \in Nat \ {0}
  BY AtWorkPath
<1>2. r.pc = "delete" => StackBelow(r.work, r.req.path)
  BY DEF BelowItsPath, StackBelow, Last
<1>3. CASE Receives(t, r, q)
  <2>1. q.req.path \in Path
    BY <1>3, StorageAssumption DEF Receives
  <2>2. QED
    BY <1>3, <2>1, FirstStackBelow DEF Receives
<1>4. ASSUME r.pc = "delete", Passed(r, q)
      PROVE  StackBelow(q.work, q.req.path)
  BY <1>1, <1>4, FirstStackBelow DEF Passed, Ended, Kept
<1>5. ASSUME r.pc = "delete", Popped(r, q)
      PROVE  StackBelow(q.work, q.req.path)
  BY <1>1, <1>2, <1>4, <1>5, StackStays DEF Popped, GoesOn, Kept
<1>6. ASSUME r.pc = "delete", NEW f \in FrameRecord, Topped(r, q, f),
             f.path = Head(r.work).path, \A c \in f.listed : Front(c) = f.path
      PROVE  StackBelow(q.work, q.req.path)
  BY <1>1, <1>2, <1>6, StackStays DEF Topped, GoesOn, Kept
<1>7. CASE Looks(r, q)
  BY <1>6, <1>7 DEF Looks, AtWork
<1>8. CASE Locks(t, r, q) \/ Opens(r, q)
  <2>1. r.pc = "delete"
    BY <1>8 DEF Locks, Opens, AtWork, Kept
  <2>2. PICK f \in FrameRecord : /\ Topped(r, q, f) /\ f.path = Head(r.work).path
                                 /\ f.listed = Head(r.work).listed
    BY <1>8, <2>1 DEF Locks, Opens
  <2>3. \A c \in f.listed : Front(c) = f.path
    BY <1>1, <1>2, <2>1, <2>2 DEF StackBelow
  <2>4. QED
    BY <1>6, <2>1, <2>2, <2>3
<1>9. CASE Enters(r, q)
  <2>1. r.pc = "delete" /\ GoesOn(r, q)
    BY <1>9 DEF Enters, AtWork
  <2>2. PICK c \in Path, g \in FrameRecord :
          /\ c \in Head(r.work).listed \/ Front(c) = Head(r.work).path
          /\ g.path = Head(r.work).path /\ g.listed = Head(r.work).listed /\ g.act = "list"
          /\ q.work = << Frame("stat", c), g >> \o Tail(r.work)
    BY <1>9 DEF Enters
  <2>3. Front(c) = g.path
    BY <1>1, <1>2, <2>1, <2>2, SMTT(40) DEF StackBelow
  <2>4. c # <<>>
    BY StorageAssumption
  <2> DEFINE f == Frame("stat", c)
  <2>5. f \in FrameRecord /\ f.path = c /\ f.listed = {}
    BY FrameType DEF Frame, Acts
  <2> HIDE DEF f
  <2>6. StackBelow(<< f, g >> \o Tail(r.work), r.req.path)
    BY <1>1, <1>2, <2>1, <2>2, <2>3, <2>4, <2>5, StackStays
  <2>7. QED
    BY <2>1, <2>2, <2>6 DEF GoesOn, Kept, f
<1>10. CASE Empties(r, q) \/ Misses(r, q) \/ Removes(r, q)
  BY <1>5, <1>10 DEF Empties, Misses, Removes, AtWork
<1>11. CASE Creates(r, q)
  BY <1>11 DEF Creates, Passed, Ended
<1>12. CASE Fails(r, q) \/ Leaks(r, q) \/ Checks(r, q) \/ StartsRead(r, q) \/ StartsWrite(r, q) \/ Streams(r, q)
  BY <1>12 DEF Fails, Leaks, Checks, StartsRead, StartsWrite, Streams, Ended
<1>13. QED
  BY <1>3, <1>7, <1>8, <1>9, <1>10, <1>11, <1>12 DEF Moves

(* The entry at work lies at the path of the request or below it.          *)
LEMMA TopBelow ==
    ASSUME IInv, NEW t \in Threads, BelowItsPath(thread[t]), thread[t].pc = "delete"
    PROVE  /\ IsPrefix(thread[t].req.path, Head(thread[t].work).path)
           /\ ~ (Len(thread[t].work) > 1) =>
                 Head(thread[t].work).path = thread[t].req.path
BY AtWorkPath DEF BelowItsPath, Last

(* A delete that comes below the path of another request at work has raced *)
(* with it.                                                                *)
LEMMA MeetingRaced ==
    ASSUME IInv, RivalsRaced, NEW t \in Threads, BelowItsPath(thread[t]),
           thread[t].pc = "delete", NEW u \in Threads \ {t}, Active(u),
           IsPrefix(thread[u].req.path, Head(thread[t].work).path)
    PROVE  u \in raced
<1> DEFINE p == Head(thread[t].work).path
           a == thread[t].req.path
           b == thread[u].req.path
<1>1. p \in Path /\ a \in Path /\ b \in Path /\ thread[t].req.op = "delete" /\ Active(t)
  BY AtWorkPath DEF Active
<1>2. IsPrefix(a, p) /\ IsPrefix(b, p)
  BY TopBelow
<1>3. p \in Seq(STRING) /\ a \in Seq(STRING) /\ b \in Seq(STRING)
  BY <1>1, StorageAssumption
<1> HIDE DEF p
<1>4. Related(b, a)
  BY <1>2, <1>3, PrefixFacts
<1>5. QED
  BY <1>1, <1>4 DEF RivalsRaced

(* Only what is taken away is missed.                                      *)
LEMMA TakenAway ==
    ASSUME IInv, RivalsRaced, NEW t \in Threads, NEW r, r = thread[t], NEW q, Moves(t, r, q),
           BelowItsPath(r), NEW u \in Threads \ {t}, Active(u),
           NEW s \in Roots, NEW p \in Path, IsPrefix(thread[u].req.path, p), u \notin raced
    PROVE  /\ tree[s][p] # None => tree'[s][p] # None
           /\ tree[s][p] > Folder => tree'[s][p] > Folder
<1>1. CASE tree' = tree
  BY <1>1
<1>2. ASSUME NEW x \in Roots, NEW a \in Path, Changes(x, a), Fits(x, a), ChangedBy(r, q, x, a),
             x = s, a = p, tree'[x][a] = None
      PROVE  FALSE
  <2>1. p = Head(r.work).path /\ r.pc = "delete"
    BY <1>2 DEF ChangedBy, AtWork, None, Folder
  <2>2. QED
    BY <2>1, MeetingRaced
<1>3. ASSUME NEW x \in Roots, NEW a \in Path, Changes(x, a), Fits(x, a), ChangedBy(r, q, x, a)
      PROVE  /\ tree[s][p] # None => tree'[s][p] # None
             /\ tree[s][p] > Folder => tree'[s][p] > Folder
  <2>1. CASE x # s \/ a # p
    BY <1>3, <2>1 DEF Changes
  <2>2. CASE x = s /\ a = p
    <3>1. tree'[s][p] # None
      BY <1>2, <1>3, <2>2
    <3>2. tree[s][p] > Folder => tree'[s][p] > Folder
      BY <1>3, <2>2, <3>1 DEF Fits, None, Folder
    <3>3. QED
      BY <3>1, <3>2
  <2>3. QED
    BY <2>1, <2>2
<1>4. QED
  BY <1>1, <1>3, TreeMoves

(* What is on top after an entry is done. *)
LEMMA NextTop ==
    ASSUME IInv, NEW t \in Threads, NEW r, r = thread[t], r.pc = "delete", NEW q,
           Popped(r, q), q.pc = "delete"
    PROVE  Head(q.work).act \in {"list", "stat"}
<1>1. /\ r.work \in Seq(FrameRecord) /\ r.work # <<>> /\ Len(r.work) \in Nat
      /\ \A k \in 2 .. Len(r.work) : r.work[k].act = "list"
      /\ r.req.op = "delete"
  BY AtWorkPath
<1>2. CASE Len(r.work) > 1
  <2> DEFINE z == Tail(r.work)
  <2>1. /\ z \in Seq(FrameRecord) /\ Len(z) = Len(r.work) - 1
        /\ \A k \in 1 .. Len(z) : z[k] = r.work[k + 1]
    BY <1>1, HeadTailProperties
  <2>2. q.work = z
    BY <1>2 DEF Popped
  <2> HIDE DEF z
  <2>3. Head(z) = r.work[2] /\ 2 \in 2 .. Len(r.work)
    BY <1>1, <1>2, <2>1
  <2>4. QED
    BY <1>1, <2>2, <2>3
<1>3. CASE ~ (Len(r.work) > 1)
  <2>1. q.work = << Frame("stat", r.req.path) >>
    BY <1>1, <1>3 DEF Popped, Passed, Ended
  <2>2. QED
    BY <2>1 DEF Frame
<1>4. QED
  BY <1>2, <1>3

(* The top frame after a move. *)
LEMMA NewTop ==
    ASSUME IInv, NEW t \in Threads, NEW r, r = thread[t], NEW q, r.pc = "delete",
           NEW f, Topped(r, q, f)
    PROVE  Head(q.work) = f /\ q.root = r.root /\ q.pc = "delete" /\ q.req = r.req
<1>1. Tail(r.work) \in Seq(FrameRecord)
  BY AtWorkPath, HeadTailProperties
<1>2. QED
  BY <1>1 DEF Topped, GoesOn, Kept

(* The moves after which a delete is about to lock or to open a file.      *)
LEMMA BeforeOpen ==
    ASSUME IInv, NEW t \in Threads, NEW r, r = thread[t], NEW q, Moves(t, r, q),
           AtWork(q, "lock") \/ AtWork(q, "open")
    PROVE  /\ q.root = r.root /\ r.pc = "delete" /\ q.req = r.req
           /\ Head(q.work).path = Head(r.work).path
           /\ UNCHANGED << fsVars, histVars >>
           /\ \/ tree[r.root][Head(q.work).path] > Folder
              \/ AtWork(r, "lock")
<1>1. ~ Receives(t, r, q)
  BY DEF Receives, AtWork, Frame
<1>2. ~ Popped(r, q) \/ r.pc # "delete"
  BY NextTop DEF AtWork
<1>3. CASE Looks(r, q)
  <2>1. PICK f \in FrameRecord :
          /\ Topped(r, q, f) /\ f.path = Head(r.work).path
          /\ f.act \in {"opendir", "list", "lock"}
          /\ f.act = "lock" => tree[r.root][f.path] > Folder
    BY <1>3 DEF Looks
  <2>2. r.pc = "delete"
    BY <1>3 DEF Looks, AtWork
  <2>3. Head(q.work) = f /\ q.root = r.root /\ q.req = r.req
    <3>1. Topped(r, q, f)
      BY <2>1
    <3>2. QED
      BY <2>2, <3>1, NewTop
  <2>4. UNCHANGED << fsVars, histVars >>
    BY <1>3 DEF Looks
  <2>5. QED
    BY <2>1, <2>2, <2>3, <2>4 DEF AtWork
<1>4. CASE Locks(t, r, q)
  <2>1. AtWork(r, "lock")
    BY <1>4 DEF Locks, AtWork
  <2>2. PICK f \in FrameRecord : Topped(r, q, f) /\ f.path = Head(r.work).path
    BY <1>4, <2>1 DEF Locks, AtWork
  <2>3. r.pc = "delete"
    BY <2>1 DEF AtWork
  <2>5. Head(q.work) = f /\ q.root = r.root /\ q.req = r.req
    BY <2>2, <2>3, NewTop
  <2>4. UNCHANGED << fsVars, histVars >>
    BY <1>4 DEF Locks
  <2>6. QED
    BY <2>1, <2>2, <2>3, <2>4, <2>5
<1>5. ~ Opens(r, q)
  <2> SUFFICES ASSUME Opens(r, q) PROVE FALSE
    OBVIOUS
  <2>1. PICK f \in FrameRecord : Topped(r, q, f) /\ f.act = "remove"
    BY DEF Opens
  <2>2. r.pc = "delete"
    BY DEF Opens, AtWork
  <2>3. QED
    BY <2>1, <2>2, NewTop, SMTT(40) DEF AtWork
<1>6. ~ Enters(r, q)
  <2> SUFFICES ASSUME Enters(r, q) PROVE FALSE
    OBVIOUS
  <2>1. PICK c \in Path, g \in FrameRecord : q.work = << Frame("stat", c), g >> \o Tail(r.work)
    BY DEF Enters
  <2>2. r.pc = "delete"
    BY DEF Enters, AtWork
  <2> DEFINE f == Frame("stat", c)
             z == Tail(r.work)
  <2>3. z \in Seq(FrameRecord) /\ f \in FrameRecord /\ f.act = "stat"
    BY <2>2, AtWorkPath, HeadTailProperties, FrameType DEF Acts
  <2> HIDE DEF f, z
  <2>4. Head(<< f, g >> \o z) = f
    BY <2>3
  <2>5. QED
    BY <2>1, <2>3, <2>4 DEF AtWork, f, z
<1>7. ~ Creates(r, q)
  BY DEF Creates, Passed, Ended, AtWork
<1>8. ~ Fails(r, q) /\ ~ Leaks(r, q)
  BY DEF Fails, Leaks, Ended, AtWork
<1>9. ~ Empties(r, q) /\ ~ Misses(r, q) /\ ~ Removes(r, q)
  BY <1>2 DEF Empties, Misses, Removes, AtWork
<1>10. ~ Checks(r, q) /\ ~ StartsRead(r, q) /\ ~ StartsWrite(r, q) /\ ~ Streams(r, q)
  BY DEF Checks, StartsRead, StartsWrite, Streams, Ended, AtWork
<1>11. QED
  BY <1>1, <1>3, <1>4, <1>5, <1>6, <1>7, <1>8, <1>9, <1>10 DEF Moves

(* The same for a READ. *)
LEMMA BeforeRead ==
    ASSUME IInv, NEW t \in Threads, NEW r, r = thread[t], NEW q, Moves(t, r, q),
           q.pc \in {"lock", "open"}, q.req.op = "read"
    PROVE  /\ q.req = r.req /\ UNCHANGED << fsVars, histVars >>
           /\ r.pc = "lock" \/ (r.pc = "exists" /\ Exists("primary", r.req.path))
<1>1. \A resp : ~ Ended(r, q, resp)
  BY DEF Ended
<1>2. ~ Passed(r, q) \/ r.pc \notin {"create", "delete"}
  BY <1>1 DEF Passed
<1>3. ~ Popped(r, q) \/ r.pc # "delete"
  BY <1>2 DEF Popped, GoesOn
<1>4. ~ GoesOn(r, q) \/ r.pc # "delete"
  BY DEF GoesOn
<1>5. ~ Receives(t, r, q)
  BY DEF Receives
<1>6. ~ Creates(r, q) /\ ~ Fails(r, q) /\ ~ Leaks(r, q)
  BY <1>1, <1>2 DEF Creates, Fails, Leaks
<1>7. ~ Looks(r, q) /\ ~ Enters(r, q) /\ ~ Opens(r, q)
  BY <1>4 DEF Looks, Enters, Opens, Topped, AtWork
<1>8. ~ Empties(r, q) /\ ~ Misses(r, q) /\ ~ Removes(r, q)
  BY <1>3 DEF Empties, Misses, Removes, AtWork
<1>9. ~ StartsRead(r, q) /\ ~ StartsWrite(r, q) /\ ~ Streams(r, q)
  BY DEF StartsRead, StartsWrite, Streams
<1>10. Locks(t, r, q) \/ Checks(r, q)
  BY <1>5, <1>6, <1>7, <1>8, <1>9 DEF Moves
<1>11. QED
  BY <1>1, <1>4, <1>10 DEF Locks, Checks, Topped, AtWork, Kept

(* A step keeps what a thread saw, but for the one that has raced. *)
LEMMA StillThereStays ==
    ASSUME IInv, IInv', RivalsRaced, NEW t \in Threads, NEW r, r = thread[t], NEW q, q = thread'[t],
           Moves(t, r, q), \A u \in Threads \ {t} : thread'[u] = thread[u],
           BelowItsPath(r), NEW u \in Threads, StillThere(u), BelowItsPath(thread[u])
    PROVE  StillThere(u)'
<1> SUFFICES ASSUME u \notin raced'
             PROVE  /\ thread'[u].pc \in {"lock", "open"} /\ thread'[u].req.op = "read" =>
                          tree'["primary"][thread'[u].req.path] # None
                    /\ AtWork(thread'[u], "lock") \/ AtWork(thread'[u], "open") =>
                          tree'[thread'[u].root][Head(thread'[u].work).path] > Folder
  BY DEF StillThere, Exists, Doing, Top, AtWork
<1>1. u \notin raced
  BY BasicMoves DEF Receives
<1>2. /\ thread[u].pc \in {"lock", "open"} /\ thread[u].req.op = "read" =>
           tree["primary"][thread[u].req.path] # None
      /\ AtWork(thread[u], "lock") \/ AtWork(thread[u], "open") =>
           tree[thread[u].root][Head(thread[u].work).path] > Folder
  BY <1>1 DEF StillThere, Exists, Doing, Top, AtWork
<1>3. CASE u # t
  <2>1. thread'[u] = thread[u]
    BY <1>3
  <2>2. ASSUME thread[u].pc \in {"lock", "open"}, thread[u].req.op = "read"
        PROVE  tree'["primary"][thread[u].req.path] # None
    <3>1. Active(u) /\ thread[u].req.path \in Path /\ "primary" \in Roots
      BY <2>2, AtWorkPath DEF Active, Roots
    <3>2. IsPrefix(thread[u].req.path, thread[u].req.path)
      BY <3>1, StorageAssumption, PrefixFacts
    <3>3. QED
      BY <1>1, <1>2, <1>3, <2>2, <3>1, <3>2, TakenAway
  <2>3. ASSUME AtWork(thread[u], "lock") \/ AtWork(thread[u], "open")
        PROVE  tree'[thread[u].root][Head(thread[u].work).path] > Folder
    <3>1. /\ Active(u) /\ thread[u].root \in Roots /\ Head(thread[u].work).path \in Path
          /\ thread[u].pc = "delete"
      BY <2>3, AtWorkPath DEF Active, AtWork
    <3>2. IsPrefix(thread[u].req.path, Head(thread[u].work).path)
      BY <3>1, TopBelow
    <3>3. QED
      BY <1>1, <1>2, <1>3, <2>3, <3>1, <3>2, TakenAway
  <2>4. QED
    BY <2>1, <2>2, <2>3
<1>4. CASE u = t
  <2>1. ASSUME q.pc \in {"lock", "open"}, q.req.op = "read"
        PROVE  tree'["primary"][q.req.path] # None
    BY <1>2, <1>4, <2>1, BeforeRead DEF fsVars, Exists
  <2>2. ASSUME AtWork(q, "lock") \/ AtWork(q, "open")
        PROVE  tree'[q.root][Head(q.work).path] > Folder
    BY <1>2, <1>4, <2>2, BeforeOpen DEF fsVars
  <2>3. QED
    BY <1>4, <2>1, <2>2
<1>5. QED
  BY <1>3, <1>4

(* The lock stays with a thread that uses it or may keep it.               *)
LEMMA OwnedStays ==
    ASSUME IInv, IInv', WellRooted, Owned, NEW t \in Threads, NEW r, r = thread[t],
           NEW q, q = thread'[t], Moves(t, r, q),
           \A u \in Threads \ {t} : thread'[u] = thread[u], StillThere(t)
    PROVE  Owned'
<1>1. raced \subseteq raced'
  BY BasicMoves DEF Receives
<1>7. ASSUME NEW f, r.pc = "delete", Topped(r, q, f)
      PROVE  Head(q.work) = f /\ q.pc = "delete"
  BY <1>7, NewTop
<1> SUFFICES ASSUME NEW m, m = master', m # Nobody
             PROVE  \/ RecordHolds(thread'[m])
                    \/ /\ thread'[m].pc = "done"
                       /\ \/ thread'[m].req.op = "write"
                          \/ thread'[m].req.op \in {"read", "delete"} /\ m \in raced'
  BY DEF Owned, Holds, Doing, Top, RecordHolds, MayLeak
<1>2. m \in Threads
  BY DEF IInv, TypeOK
<1>3. CASE Locks(t, r, q)
  <2>1. m = t
    BY <1>3 DEF Locks
  <2>2. CASE AtWork(r, "lock")
    <3>1. PICK f \in FrameRecord : Topped(r, q, f) /\ f.act = "open"
      BY <1>3, <2>2 DEF Locks, AtWork
    <3>2. Head(q.work) = f /\ q.pc = "delete"
      BY <2>2, <3>1, <1>7 DEF AtWork
    <3>3. QED
      BY <2>1, <3>1, <3>2 DEF RecordHolds
  <2>3. CASE q.pc = "open"
    BY <2>1, <2>3 DEF RecordHolds
  <2>4. QED
    BY <1>3, <2>2, <2>3 DEF Locks
<1>4. CASE master' = master
  <2>1. \/ RecordHolds(thread[m])
        \/ /\ thread[m].pc = "done"
           /\ \/ thread[m].req.op = "write"
              \/ thread[m].req.op \in {"read", "delete"} /\ m \in raced
    BY <1>4 DEF Owned, Holds, Doing, Top, RecordHolds, MayLeak
  <2>2. CASE m # t
    BY <1>1, <1>2, <2>1, <2>2
  <2>3. CASE m = t
    <3>1. RecordHolds(r)
      BY <2>1, <2>3, BasicMoves DEF Receives
    <3>2. r.pc = "open" \/ AtWork(r, "open") \/ AtWork(r, "remove")
      BY <3>1 DEF RecordHolds, AtWork
    <3>3. CASE Opens(r, q)
      <4>1. PICK f \in FrameRecord : Topped(r, q, f) /\ f.act = "remove"
        BY <3>3 DEF Opens
      <4>2. r.pc = "delete"
        BY <3>3 DEF Opens, AtWork
      <4>3. Head(q.work) = f /\ q.pc = "delete"
        BY <4>1, <4>2, <1>7
      <4>4. QED
        BY <2>3, <4>1, <4>3 DEF RecordHolds
    <3>4. CASE Leaks(r, q)
      <4>1. q.pc = "done" /\ q.req = r.req /\ raced' = raced
        BY <3>4 DEF Leaks, Ended, Kept, histVars
      <4>2. CASE AtWork(r, "open") /\ ~ CanOpen(r.root, Head(r.work).path)
        <5> DEFINE p == Head(r.work).path
        <5>1. p \in Path /\ r.root \in Roots /\ r.req.op = "delete"
          BY <4>2, AtWorkPath DEF AtWork
        <5>2. t \notin raced => tree[r.root][p] > Folder
          BY <4>2 DEF StillThere, Doing, Top, AtWork
        <5>3. tree[r.root][p] > Folder => CanOpen(r.root, p)
          BY <5>1 DEF WellRooted, CanOpen, Exists, None, Folder
        <5>4. QED
          BY <2>3, <4>1, <4>2, <5>1, <5>2, <5>3
      <4>3. CASE r.pc = "open" /\ r.req.op = "read" /\ ~ Exists("primary", r.req.path)
        <5>1. t \in raced
          BY <4>3 DEF StillThere
        <5>2. QED
          BY <2>3, <4>1, <4>3, <5>1
      <4>4. CASE r.pc = "open" /\ r.req.op = "write"
        BY <2>3, <4>1, <4>4
      <4>5. QED
        BY <3>4, <4>2, <4>3, <4>4 DEF Leaks
    <3>5. ~ (Receives(t, r, q) \/ Creates(r, q) \/ Fails(r, q) \/ Looks(r, q) \/ Enters(r, q)
             \/ Empties(r, q) \/ Checks(r, q) \/ Streams(r, q))
      BY <3>2 DEF Receives, Creates, Fails, Looks, Enters, Empties, Checks, Streams, AtWork
    <3>6. ~ (Misses(r, q) \/ Removes(r, q) \/ StartsRead(r, q) \/ StartsWrite(r, q))
      BY DEF Misses, Removes, StartsRead, StartsWrite
    <3>7. QED
      BY <1>3, <3>3, <3>4, <3>5, <3>6 DEF Moves
  <2>4. QED
    BY <2>2, <2>3
<1>5. CASE ~ (Locks(t, r, q)) /\ master' # master
  <2>1. master' = Nobody
    BY <1>5 DEF Moves, Receives, Creates, Fails, Looks, Enters, Empties, Opens, Misses, Leaks,
       Removes, Checks, StartsRead, StartsWrite, Streams
  <2>2. QED
    BY <2>1
<1>6. QED
  BY <1>3, <1>4, <1>5

(* What a delete knows to have been made it does not forget. *)
LEMMA MadeGrows ==
    ASSUME IInv, NEW t \in Threads, NEW r, NEW q, Moves(t, r, q), NEW u \in Threads
    PROVE  made[u] \subseteq made'[u]
<1>1. \A p : Make(p) => made[u] \subseteq made'[u]
  BY DEF Make
<1>2. made' = made \/ \E p : Make(p)
  BY DEF Moves, Receives, Creates, Fails, Looks, Enters, Empties, Locks, Opens, Misses, Leaks,
     Removes, Checks, StartsRead, StartsWrite, Streams, histVars
<1>3. QED
  BY <1>1, <1>2

(* What is left of a deleted tree stays so. *)
LEMMA LeftOverStays ==
    ASSUME IInv, NEW t \in Threads, NEW r, r = thread[t], NEW q, q = thread'[t],
           Moves(t, r, q), \A v \in Threads \ {t} : thread'[v] = thread[v],
           NEW u \in Threads, thread[u].req.op = "delete", NEW p \in Path, LeftOver(u, p)
    PROVE  LeftOver(u, p)'
<1> SUFFICES ASSUME tree'["primary"][p] # None, p \notin made'[u]
             PROVE  \E v \in Threads : /\ AtWork(thread'[v], "remove")
                                       /\ thread'[v].root = "primary"
                                       /\ Head(thread'[v].work).path = p
  BY DEF LeftOver, BeingRemoved, Exists, Doing, Top, AtWork
<1>1. p \notin made[u]
  BY MadeGrows
<1>2. ~ \E a : Make(a) /\ a = p
  <2>1. Make(p) => p \in made'[u]
    BY DEF Make
  <2>2. QED
    BY <2>1
<1>3. CASE tree["primary"][p] # None
  <2>1. PICK v \in Threads : /\ AtWork(thread[v], "remove") /\ thread[v].root = "primary"
                             /\ Head(thread[v].work).path = p
    BY <1>1, <1>3 DEF LeftOver, BeingRemoved, Exists, Doing, Top, AtWork
  <2>2. CASE v # t
    BY <2>1, <2>2
  <2>3. CASE v = t
    <3>1. AtWork(r, "remove") /\ r.root = "primary" /\ Head(r.work).path = p
      BY <2>1, <2>3
    <3>2. Removes(r, q)
      BY <3>1 DEF AtWork, Moves, Receives, Creates, Fails, Looks, Enters, Empties, Locks, Opens,
         Misses, Leaks, Checks, StartsRead, StartsWrite, Streams
    <3>3. tree'["primary"][p] = None
      <4>1. TypeOK /\ "primary" \in Roots /\ tree' = [tree EXCEPT !["primary"][p] = None]
        BY <3>1, <3>2 DEF Removes, IInv, Roots
      <4>2. DOMAIN tree = Roots /\ DOMAIN tree["primary"] = Path
        BY <4>1 DEF TypeOK
      <4>3. tree'["primary"] = [tree["primary"] EXCEPT ![p] = None]
        BY <4>1, <4>2
      <4>4. QED
        BY <4>2, <4>3
    <3>4. QED
      BY <3>3
  <2>4. QED
    BY <2>2, <2>3
<1>4. CASE tree["primary"][p] = None
  <2>1. PICK s \in Roots, a \in Path : Changes(s, a) /\ Fits(s, a) /\ ChangedBy(r, q, s, a)
    BY <1>4, TreeMoves
  <2>2. s = "primary" /\ a = p
    BY <1>4, <2>1 DEF Changes, Roots
  <2>3. AtWork(q, "remove") /\ q.root = "primary" /\ Head(q.work).path = p
    BY <1>2, <2>1, <2>2 DEF ChangedBy
  <2>4. QED
    BY <2>3
<1>5. QED
  BY <1>3, <1>4

(* A delete that is about to open a file knows what was made below it.     *)
LEMMA SawFileStays ==
    ASSUME IInv, WellRooted, NEW t \in Threads, NEW r, r = thread[t], NEW q, q = thread'[t],
           Moves(t, r, q), \A v \in Threads \ {t} : thread'[v] = thread[v],
           NEW u \in Threads, SawFile(u)
    PROVE  SawFile(u)'
<1> DEFINE a == Head(thread'[u].work).path
<1> SUFFICES ASSUME thread'[u].root = "primary",
                    AtWork(thread'[u], "lock") \/ AtWork(thread'[u], "open")
             PROVE  /\ \A p \in Path : IsStrictPrefix(a, p) => LeftOver(u, p)'
                    /\ tree'["primary"][a] = Folder => a \in made'[u]
  BY DEF SawFile, Doing, Top, AtWork
<1>1. /\ thread[u].root = "primary" /\ thread[u].pc = "delete"
      /\ Head(thread[u].work).path = a
      /\ \/ AtWork(thread[u], "lock") \/ AtWork(thread[u], "open")
         \/ u = t /\ tree["primary"][a] > Folder
  <2>1. CASE u # t
    BY <2>1 DEF AtWork
  <2>2. CASE u = t
    <3>1. AtWork(q, "lock") \/ AtWork(q, "open")
      BY <2>2
    <3>2. /\ q.root = r.root /\ r.pc = "delete" /\ Head(q.work).path = Head(r.work).path
          /\ tree[r.root][Head(q.work).path] > Folder \/ AtWork(r, "lock")
      BY <3>1, BeforeOpen
    <3>3. QED
      BY <2>2, <3>2
  <2>3. QED
    BY <2>1, <2>2
<1>2. a \in Path /\ thread[u].req.op = "delete" /\ "primary" \in Roots
  BY <1>1, AtWorkPath DEF Roots
<1>3. /\ \A p \in Path : IsStrictPrefix(a, p) => LeftOver(u, p)
      /\ tree["primary"][a] = Folder => a \in made[u]
  <2>1. CASE AtWork(thread[u], "lock") \/ AtWork(thread[u], "open")
    BY <1>1, <2>1 DEF SawFile, Doing, Top, AtWork
  <2>2. CASE tree["primary"][a] > Folder
    <3>1. tree["primary"][a] # Folder
      BY <2>2 DEF Folder
    <3> HIDE DEF a
    <3>2. \A p \in Path : IsStrictPrefix(a, p) => ~ Exists("primary", p)
      BY <1>2, <3>1, NothingBelow
    <3>3. QED
      BY <3>1, <3>2 DEF LeftOver
  <2>3. QED
    BY <1>1, <2>1, <2>2
<1> HIDE DEF a
<1>4. \A p \in Path : IsStrictPrefix(a, p) => LeftOver(u, p)'
  BY <1>2, <1>3, LeftOverStays
<1>5. ASSUME tree'["primary"][a] = Folder
      PROVE  a \in made'[u]
  <2>1. CASE tree["primary"][a] = Folder
    BY <1>3, <2>1, MadeGrows
  <2>2. CASE tree["primary"][a] # Folder
    <3>1. PICK s \in Roots, p \in Path : Changes(s, p) /\ Fits(s, p) /\ ChangedBy(r, q, s, p)
      BY <1>5, <2>2, TreeMoves
    <3>2. s = "primary" /\ p = a
      BY <1>2, <1>5, <2>2, <3>1 DEF Changes, Roots
    <3>3. Make(a)
      BY <1>5, <3>1, <3>2 DEF ChangedBy, Folder, None
    <3>4. QED
      BY <1>2, <3>3 DEF Make
  <2>3. QED
    BY <2>1, <2>2
<1>6. QED
  BY <1>4, <1>5

(* A tree is done: nothing is left at the path of the delete or below, or  *)
(* what was found there in the place of the file was made since.           *)
LEMMA TreeDone ==
    ASSUME IInv, WellRooted, NEW t \in Threads, NEW r, r = thread[t], NEW q, q = thread'[t],
           Moves(t, r, q), BelowItsPath(r), r.pc = "delete", ~ (Len(r.work) > 1),
           Empties(r, q) \/ Removes(r, q) \/ (Misses(r, q) /\ ~ HasParent(r.root, r.req.path))
    PROVE  \A p \in Path : IsPrefix(r.req.path, p) => tree'[r.root][p] = None
<1> DEFINE s == r.root
           a == Head(r.work).path
<1>1. s \in Roots /\ a \in Path /\ a = r.req.path /\ TypeOK
  BY AtWorkPath, TopBelow DEF IInv
<1>2. tree'[s][a] = None /\ \A p \in Path \ {a} : tree'[s][p] = tree[s][p]
  <2>1. CASE Empties(r, q) \/ Removes(r, q)
    <3>1. s \in Roots /\ a \in Path /\ TypeOK /\ tree' = [tree EXCEPT ![s][a] = None]
      BY <1>1, <2>1 DEF Empties, Removes
    <3> HIDE DEF s, a
    <3>2. tree'[s][a] = None /\ Changes(s, a)
      BY <3>1, PlaceSet
    <3>3. QED
      BY <1>1, <3>2 DEF Changes
  <2>2. CASE Misses(r, q) /\ ~ HasParent(s, r.req.path)
    BY <1>1, <2>2 DEF Misses, WellRooted, Exists, fsVars
  <2>3. QED
    BY <2>1, <2>2
<1>3. tree[s][a] # Folder \/ Children(s, a) = {}
  <2>1. CASE Empties(r, q)
    BY <2>1 DEF Empties
  <2>2. CASE Removes(r, q)
    <3>1. tree[s][a] > Folder
      BY <2>2, RemovingIsFile DEF Removes, AtWork, Doing, Top
    <3>2. QED
      BY <3>1 DEF Folder
  <2>3. CASE Misses(r, q) /\ ~ HasParent(s, r.req.path)
    BY <1>1, <2>3 DEF WellRooted, Exists, None, Folder
  <2>4. QED
    BY <2>1, <2>2, <2>3
<1> HIDE DEF s, a
<1>4. \A p \in Path : IsStrictPrefix(a, p) => tree[s][p] = None
  BY <1>1, <1>3, NothingBelow DEF Exists
<1>5. \A p \in Path : IsPrefix(a, p) => tree'[s][p] = None
  BY <1>2, <1>4 DEF IsStrictPrefix
<1>6. QED
  BY <1>1, <1>5 DEF s

(* The moves by which a delete leaves a tree behind. *)
LEMMA LeavesBy ==
    ASSUME IInv, NEW t \in Threads, NEW r, r = thread[t], NEW q, Moves(t, r, q), StageOK(r),
           q.req.op = "delete", q.root = "backup" \/ (q.pc = "done" /\ q.resp = OK)
    PROVE  /\ q.req = r.req /\ r.req.op = "delete"
           /\ r.root \in Roots
           /\ r.root = "primary" \/ (q.pc = "done" /\ q.resp = OK) =>
                /\ Empties(r, q) \/ Misses(r, q) \/ Removes(r, q)
                /\ r.pc = "delete" /\ ~ (Len(r.work) > 1)
<1>1. r.root \in Roots /\ thread[t] \in ThreadRecord /\ ThreadOK(r)
  BY AtWorkPath, QuietFacts
<1>2. ~ Receives(t, r, q)
  BY DEF Receives, StageOK, IdleThread
<1>3. q.req = r.req
  BY <1>2, BasicMoves
<1> SUFFICES ASSUME r.root = "primary" \/ (q.pc = "done" /\ q.resp = OK)
             PROVE  /\ Empties(r, q) \/ Misses(r, q) \/ Removes(r, q)
                    /\ r.pc = "delete" /\ ~ (Len(r.work) > 1)
  BY <1>1, <1>3
<1>4. \A resp : Ended(r, q, resp) => resp = OK
  <2>1. \A resp : Ended(r, q, resp) => q.root = r.root /\ q.resp = resp
    BY DEF Ended, Kept
  <2>2. QED
    BY <2>1
<1>5. ~ Fails(r, q) /\ ~ Leaks(r, q)
  BY <1>4 DEF Fails, Leaks, OK, InternalError, NoAnswer
<1>6. ~ GoesOn(r, q) \/ r.pc # "delete"
  BY DEF GoesOn
<1>7. ~ Looks(r, q) /\ ~ Enters(r, q) /\ ~ Opens(r, q)
  BY <1>6 DEF Looks, Enters, Opens, Topped, AtWork
<1>8. ~ Checks(r, q) /\ ~ Locks(t, r, q) 
  BY <1>4, <1>6 DEF Checks, Locks, Topped, AtWork, OK, NotFound
<1>9. ~ StartsRead(r, q) /\ ~ StartsWrite(r, q) /\ ~ Streams(r, q)
  BY <1>3 DEF StartsRead, StartsWrite, Streams, StageOK
<1>10. ~ Creates(r, q)
  BY <1>1, <1>3 DEF Creates, ThreadOK
<1>11. Empties(r, q) \/ Misses(r, q) \/ Removes(r, q)
  BY <1>2, <1>5, <1>7, <1>8, <1>9, <1>10 DEF Moves
<1>12. r.pc = "delete" /\ Popped(r, q)
  BY <1>11 DEF Empties, Misses, Removes, AtWork
<1>13. ~ (Len(r.work) > 1)
  BY <1>6, <1>12 DEF Popped
<1>14. QED
  BY <1>11, <1>12, <1>13

(* A delete that has left the primary tree leaves nothing behind later. *)
LEMMA LeftPrimaryStays ==
    ASSUME IInv, WellRooted, NEW t \in Threads, NEW r, r = thread[t], NEW q, q = thread'[t],
           Moves(t, r, q), \A v \in Threads \ {t} : thread'[v] = thread[v],
           BelowItsPath(r), StageOK(r), SawFile(t), NEW u \in Threads, LeftPrimary(u)
    PROVE  LeftPrimary(u)'
<1> SUFFICES ASSUME thread'[u].req.op = "delete",
                    thread'[u].root = "backup" \/ (thread'[u].pc = "done" /\ thread'[u].resp = OK),
                    NEW p \in Path, IsPrefix(thread'[u].req.path, p)
             PROVE  LeftOver(u, p)'
  BY DEF LeftPrimary
<1>1. CASE u # t
  <2>1. thread[u].req.op = "delete" /\ LeftOver(u, p)
    BY <1>1 DEF LeftPrimary
  <2>2. QED
    BY <2>1, LeftOverStays
<1>2. CASE u = t
  <2>1. /\ q.req = r.req /\ r.req.op = "delete"
        /\ \/ r.root = "backup"
           \/ /\ Empties(r, q) \/ Misses(r, q) \/ Removes(r, q)
              /\ r.root = "primary" /\ r.pc = "delete" /\ ~ (Len(r.work) > 1)
    BY <1>2, LeavesBy DEF Roots
  <2>2. CASE r.root = "backup"
    <3>1. LeftOver(u, p)
      BY <1>2, <2>1, <2>2 DEF LeftPrimary
    <3>2. QED
      BY <1>2, <2>1, <3>1, LeftOverStays
  <2>3. CASE /\ Empties(r, q) \/ Removes(r, q) \/ (Misses(r, q) /\ ~ HasParent(r.root, r.req.path))
             /\ r.root = "primary" /\ r.pc = "delete" /\ ~ (Len(r.work) > 1)
    <3>1. tree'["primary"][p] = None
      BY <1>2, <2>1, <2>3, TreeDone
    <3>2. QED
      BY <3>1 DEF LeftOver, Exists
  <2>4. CASE /\ Misses(r, q) /\ HasParent(r.root, r.req.path)
             /\ r.root = "primary" /\ r.pc = "delete" /\ ~ (Len(r.work) > 1)
    <3>1. Head(r.work).path = r.req.path
      BY <2>4, TopBelow
    <3>2. tree["primary"][r.req.path] = Folder
      BY <2>4, <3>1 DEF Misses, CanOpen
    <3>3. /\ \A a \in Path : IsStrictPrefix(r.req.path, a) => LeftOver(t, a)
          /\ r.req.path \in made[t]
      BY <2>4, <3>1, <3>2 DEF SawFile, Misses, AtWork, Doing, Top
    <3>4. LeftOver(t, p)
      BY <1>2, <2>1, <3>3 DEF IsStrictPrefix, LeftOver
    <3>5. QED
      BY <1>2, <2>1, <3>4, LeftOverStays
  <2>5. QED
    BY <2>1, <2>2, <2>3, <2>4
<1>3. QED
  BY <1>1, <1>2

(* What has drifted apart is not held against the server again.            *)
LEMMA DriftedStays ==
    ASSUME IInv, NEW t \in Threads, NEW r, r = thread[t], NEW q, q = thread'[t],
           Moves(t, r, q), \A v \in Threads \ {t} : thread'[v] = thread[v], StageOK(r), Drifted
    PROVE  Drifted'
<1>1. PICK u \in Threads :
        \/ u \in raced
        \/ thread[u].req.port = "client" /\ thread[u].req.op # "read"
        \/ thread[u].req.port = "nm" /\ thread[u].pc = "done" /\ thread[u].resp # OK
  BY DEF Drifted
<1>2. raced \subseteq raced'
  BY BasicMoves DEF Receives
<1>3. CASE u # t
  BY <1>1, <1>2, <1>3 DEF Drifted
<1>4. CASE u = t
  <2>1. CASE Receives(t, r, q)
    <3>1. r.req.port = "none"
      BY <2>1 DEF Receives, StageOK, IdleThread, NoRequest
    <3>2. u \in raced
      BY <1>1, <1>4, <3>1
    <3>3. QED
      BY <1>2, <3>2 DEF Drifted
  <2>2. CASE r.pc # "done" /\ q.req = r.req
    <3>1. u \in raced \/ (q.req.port = "client" /\ q.req.op # "read")
      BY <1>1, <1>4, <2>2
    <3>2. QED
      BY <1>2, <1>4, <3>1 DEF Drifted
  <2>3. QED
    BY <2>1, <2>2, BasicMoves
<1>5. QED
  BY <1>3, <1>4

(* What has not drifted apart: requests of the naming server only change   *)
(* the trees, none failed, and none raced.                                 *)
LEMMA NotDrifted ==
    ASSUME IInv, NEW t \in Threads, NEW r, r = thread[t], NEW q, q = thread'[t],
           Moves(t, r, q), \A v \in Threads \ {t} : thread'[v] = thread[v], ~ Drifted'
    PROVE  /\ \A u \in Threads : u \notin raced
           /\ r.pc # "idle" => /\ q.req = r.req
                               /\ r.req.port = "nm" \/ r.req.op = "read"
                               /\ r.req.op # "write"
                               /\ q.pc = "done" => r.req.op = "read" \/ q.resp = OK
<1>1. /\ \A u \in Threads : u \notin raced'
      /\ q.req.port = "client" => q.req.op = "read"
      /\ q.req.port = "nm" /\ q.pc = "done" => q.resp = OK
  BY DEF Drifted
<1>2. raced \subseteq raced'
  BY BasicMoves DEF Receives
<1>3. ASSUME r.pc # "idle"
      PROVE  /\ q.req = r.req /\ r.req.port \in {"nm", "client"}
             /\ r.req.op \in {"read", "write"} => r.req.port = "client"
  <2>1. q.req = r.req
    BY <1>3, BasicMoves DEF Receives
  <2>2. r.req \in Requests
    BY <1>3, AtWorkPath
  <2>3. QED
    BY <2>1, <2>2, StorageAssumption
<1>4. QED
  BY <1>1, <1>2, <1>3

ShapeOf(kind) == IF kind > Folder THEN 1 ELSE kind

(* What a request has done to the primary tree, it has when it goes on     *)
(* with the backup tree; nobody changes it then.                           *)
LEMMA PrimaryDoneStays ==
    ASSUME IInv, IInv', WellRooted, RivalsRaced, NEW t \in Threads, NEW r, r = thread[t],
           NEW q, q = thread'[t], Moves(t, r, q),
           \A v \in Threads \ {t} : thread'[v] = thread[v],
           BelowItsPath(r), StageOK(r), StillThere(t), ~ Drifted',
           NEW u \in Threads, PrimaryDone(u)
    PROVE  PrimaryDone(u)'
<1> SUFFICES ASSUME thread'[u].root = "backup"
             PROVE  /\ thread'[u].pc = "create" =>
                         ShapeOf(tree'["primary"][thread'[u].req.path]) =
                             IF thread'[u].req.op = "mkdir" THEN Folder ELSE 1
                    /\ thread'[u].pc = "delete" =>
                         \A p \in Path : IsPrefix(thread'[u].req.path, p) =>
                             tree'["primary"][p] = None
  BY DEF PrimaryDone, Exists, Shape, ShapeOf
<1>1. /\ \A v \in Threads : v \notin raced
      /\ r.pc # "idle" => /\ q.req = r.req
                          /\ r.req.port = "nm" \/ r.req.op = "read"
                          /\ r.req.op # "write"
  BY NotDrifted
<1>2. "primary" \in Roots /\ "backup" \in Roots
  BY DEF Roots
<1>3. CASE u # t
  <2>1. thread'[u] = thread[u] /\ thread[u].root = "backup"
    BY <1>3
  <2> DEFINE x == thread[u]
  <2>2. ASSUME x.pc = "create"
        PROVE  ShapeOf(tree'["primary"][x.req.path]) = IF x.req.op = "mkdir" THEN Folder ELSE 1
    <3> DEFINE p == x.req.path
    <3>1. /\ Shape("primary", p) = IF x.req.op = "mkdir" THEN Folder ELSE 1
          /\ p \in Path /\ Active(u)
      BY <2>1, <2>2, AtWorkPath DEF PrimaryDone, Active
    <3>2. IsPrefix(x.req.path, p)
      BY <3>1, StorageAssumption, PrefixFacts
    <3> HIDE DEF p
    <3>3. /\ tree["primary"][p] # None => tree'["primary"][p] # None
          /\ tree["primary"][p] > Folder => tree'["primary"][p] > Folder
      BY <1>1, <1>2, <1>3, <3>1, <3>2, TakenAway
    <3>4. CASE tree["primary"][p] > Folder
      BY <3>1, <3>3, <3>4 DEF ShapeOf, Shape, p
    <3>5. CASE ~ (tree["primary"][p] > Folder)
      <4>1. tree["primary"][p] = Folder
        BY <3>1, <3>5 DEF ShapeOf, Shape, Folder
      <4>2. tree'["primary"][p] = Folder
        <5> SUFFICES ASSUME tree'["primary"][p] # Folder PROVE FALSE
          OBVIOUS
        <5>1. PICK s \in Roots, a \in Path : Changes(s, a) /\ Fits(s, a)
          BY <4>1, TreeMoves
        <5>2. s = "primary" /\ a = p
          BY <1>2, <3>1, <4>1, <5>1 DEF Changes
        <5>3. tree'["primary"][p] = None
          BY <4>1, <5>1, <5>2 DEF Fits, Folder, None
        <5>4. QED
          BY <3>3, <4>1, <5>3 DEF Folder, None
      <4>3. QED
        BY <3>1, <3>5, <4>1, <4>2 DEF ShapeOf, Shape, p
    <3>6. QED
      BY <3>4, <3>5
  <2>3. ASSUME x.pc = "delete", NEW p \in Path, IsPrefix(x.req.path, p)
        PROVE  tree'["primary"][p] = None
    <3>1. tree["primary"][p] = None /\ Active(u) /\ x.req.op = "delete" /\ x.req.path \in Path
      BY <2>1, <2>3, AtWorkPath DEF PrimaryDone, Exists, Active
    <3> SUFFICES ASSUME tree'["primary"][p] # None PROVE FALSE
      OBVIOUS
    <3>2. PICK s \in Roots, a \in Path : Changes(s, a) /\ Fits(s, a) /\ ChangedBy(r, q, s, a)
      BY <3>1, TreeMoves
    <3>3. s = "primary" /\ a = p
      BY <1>2, <3>1, <3>2 DEF Changes
    <3>4. CASE r.pc = "create" /\ p = r.req.path
      <4>1. Active(t)
        BY <3>4 DEF Active
      <4>2. Related(x.req.path, r.req.path)
        BY <2>3, <3>4 DEF Related
      <4>3. u \in raced
        BY <1>3, <3>1, <4>1, <4>2 DEF RivalsRaced
      <4>4. QED
        BY <1>1, <4>3
    <3>5. CASE AtWork(r, "open") /\ p = Head(r.work).path
      BY <1>1, <1>3, <2>3, <3>1, <3>5, MeetingRaced DEF AtWork
    <3>6. QED
      BY <1>1, <3>2, <3>3, <3>4, <3>5 DEF ChangedBy
  <2>4. QED
    BY <2>1, <2>2, <2>3
<1>4. CASE u = t
  <2>1. ~ Receives(t, r, q)
    BY <1>4 DEF Receives, StageOK, IdleThread
  <2>2. q.req = r.req /\ r.pc \notin {"idle", "done"}
    BY <2>1, BasicMoves
  <2>3. ASSUME q.pc = "create"
        PROVE  ShapeOf(tree'["primary"][q.req.path]) = IF q.req.op = "mkdir" THEN Folder ELSE 1
    <3>1. \A resp : ~ Ended(r, q, resp)
      BY <2>3 DEF Ended
    <3>2. ~ GoesOn(r, q) \/ r.pc # "delete"
      BY <2>3 DEF GoesOn
    <3>3. ~ Popped(r, q) \/ r.pc # "delete"
      BY <2>3, <3>1, <3>2 DEF Popped, Passed
    <3>4. Creates(r, q)
      BY <2>1, <2>3, <3>1, <3>2, <3>3 DEF Moves, Fails, Looks, Enters, Empties, Locks, Opens,
         Misses, Leaks, Removes, Checks, StartsRead, StartsWrite, Streams, Topped, AtWork
    <3>5. r.root = "primary" /\ r.pc = "create" /\ r.req.path \in Path
      BY <3>1, <3>4, AtWorkPath DEF Creates, Passed
    <3>6. CASE r.req.op = "create" /\ CanOpen(r.root, r.req.path) /\ Truncate(r.root, r.req.path)
      <4>1. tree'["primary"][r.req.path] > Folder
        BY <1>2, <3>5, <3>6, TruncatePlaces DEF IInv
      <4>2. QED
        BY <2>2, <3>6, <4>1 DEF ShapeOf, Shape
    <3>7. CASE r.req.op = "mkdir" /\ tree' = [tree EXCEPT ![r.root][r.req.path] = Folder]
      <4>1. tree'["primary"][r.req.path] = Folder
        BY <1>2, <3>5, <3>7 DEF IInv, TypeOK
      <4>2. QED
        BY <2>2, <3>7, <4>1 DEF ShapeOf, Shape, Folder
    <3>8. QED
      BY <3>4, <3>6, <3>7 DEF Creates
  <2>4. ASSUME q.pc = "delete", NEW p \in Path, IsPrefix(q.req.path, p)
        PROVE  tree'["primary"][p] = None
    <3>1. q.req.op = "delete"
      BY <1>4, <2>4 DEF IInv, ThreadOK
    <3>2. CASE r.root = "backup"
      <4>1. r.pc = "delete"
        BY <2>2, <2>4, <3>1, <3>2, BasicMoves, AtWorkPath, QuietFacts DEF Moves, Receives, Creates,
           Fails, Looks, Enters, Empties, Locks, Opens, Misses, Leaks, Removes, Checks, StartsRead,
           StartsWrite, Streams, AtWork, Ended, Kept, Passed
      <4>2. tree["primary"][p] = None
        BY <1>4, <2>2, <2>4, <3>2, <4>1 DEF PrimaryDone, Exists
      <4>3. tree'["primary"][p] = tree["primary"][p]
        <5> SUFFICES ASSUME tree'["primary"][p] # tree["primary"][p] PROVE FALSE
          OBVIOUS
        <5>1. PICK s \in Roots, a \in Path : Changes(s, a) /\ ChangedBy(r, q, s, a)
          BY TreeMoves
        <5>2. s = "primary"
          BY <1>2, <5>1 DEF Changes
        <5>3. QED
          BY <3>2, <4>1, <5>1, <5>2 DEF ChangedBy
      <4>4. QED
        BY <4>2, <4>3
    <3>3. CASE r.root # "backup"
      <4>1. /\ Empties(r, q) \/ Misses(r, q) \/ Removes(r, q)
            /\ r.root = "primary" /\ r.pc = "delete" /\ ~ (Len(r.work) > 1)
        BY <1>4, <3>1, <3>3, LeavesBy DEF Roots
      <4>2. Misses(r, q) => ~ HasParent(r.root, r.req.path)
        <5> SUFFICES ASSUME Misses(r, q), HasParent(r.root, r.req.path) PROVE FALSE
          OBVIOUS
        <5>1. Head(r.work).path = r.req.path
          BY <4>1, TopBelow
        <5>2. tree["primary"][r.req.path] > Folder
          BY <1>1, <4>1, <5>1 DEF StillThere, Misses, AtWork, Doing, Top
        <5>3. QED
          BY <4>1, <5>1, <5>2 DEF Misses, CanOpen, Folder
      <4>3. QED
        BY <2>2, <2>4, <4>1, <4>2, TreeDone
    <3>4. QED
      BY <3>2, <3>3
  <2>5. QED
    BY <1>4, <2>3, <2>4
<1>5. QED
  BY <1>3, <1>4

PendingBy(r, p) ==
    \/ r.pc \notin {"idle", "done"} /\ r.req.op = "delete" /\ IsPrefix(r.req.path, p)
    \/ r.pc = "create" /\ r.root = "backup" /\ r.req.path = p

(* Where the two trees differ some request has still to do with the place. *)
LEMMA MirrorStays ==
    ASSUME IInv, IInv', WellRooted, NEW t \in Threads, NEW r, r = thread[t],
           NEW q, q = thread'[t], Moves(t, r, q),
           \A v \in Threads \ {t} : thread'[v] = thread[v],
           BelowItsPath(r), StageOK(r), PrimaryDone(t), ~ Drifted',
           NEW p \in Path, Shape("primary", p) = Shape("backup", p) \/ Pending(p)
    PROVE  (Shape("primary", p) = Shape("backup", p) \/ Pending(p))'
<1> SUFFICES ASSUME \A u \in Threads : ~ PendingBy(thread'[u], p)
             PROVE  ShapeOf(tree'["primary"][p]) = ShapeOf(tree'["backup"][p])
  BY DEF Pending, PendingBy, Active, Shape, ShapeOf
<1>1. r.pc # "idle" => /\ q.req = r.req
                       /\ r.req.port = "nm" \/ r.req.op = "read"
                       /\ r.req.op # "write"
                       /\ q.pc = "done" => r.req.op = "read" \/ q.resp = OK
  BY NotDrifted
<1>2. "primary" \in Roots /\ "backup" \in Roots /\ ~ PendingBy(q, p)
  BY DEF Roots
<1>3. r.pc # "idle" => q.pc # "idle"
  BY BasicMoves DEF Receives
<1>4. CASE r.pc \notin {"idle", "done"} /\ r.req.op = "delete" /\ IsPrefix(r.req.path, p)
  <2>1. q.pc = "done" /\ q.req = r.req /\ q.resp = OK /\ r.req.port = "nm"
    BY <1>1, <1>2, <1>3, <1>4 DEF PendingBy
  <2>2. /\ Empties(r, q) \/ Misses(r, q) \/ Removes(r, q)
        /\ r.root \in Roots /\ r.pc = "delete" /\ ~ (Len(r.work) > 1)
    BY <1>4, <2>1, LeavesBy
  <2>3. Passed(r, q)
    BY <2>2 DEF Empties, Misses, Removes, Popped
  <2>4. r.root = "backup"
    BY <2>1, <2>2, <2>3 DEF Passed, Roots
  <2>5. Len(r.work) = 1
    <3>1. Len(r.work) \in Nat \ {0}
      BY <2>2, AtWorkPath
    <3>2. ~ (Len(r.work) > 1)
      BY <2>2
    <3>3. \A n \in Nat \ {0} : ~ (n > 1) => n = 1
      OBVIOUS
    <3>4. QED
      BY <3>1, <3>2, <3>3, Zenon
  <2>6. Empties(r, q) \/ Removes(r, q)
    BY <2>2, <2>4, <2>5 DEF Misses
  <2>7. tree'["backup"][p] = None
    BY <1>4, <2>2, <2>4, <2>6, TreeDone
  <2>8. tree["primary"][p] = None
    BY <1>4, <2>2, <2>4 DEF PrimaryDone, Exists
  <2>9. tree'["primary"][p] = tree["primary"][p]
    <3> SUFFICES ASSUME tree'["primary"][p] # tree["primary"][p] PROVE FALSE
      OBVIOUS
    <3>1. PICK s \in Roots, a \in Path : Changes(s, a) /\ ChangedBy(r, q, s, a)
      BY TreeMoves
    <3>2. s = "primary"
      BY <1>2, <3>1 DEF Changes
    <3>3. QED
      BY <2>2, <2>4, <3>1, <3>2 DEF ChangedBy
  <2>10. QED
    BY <2>7, <2>8, <2>9
<1>5. CASE r.pc = "create" /\ r.root = "backup" /\ r.req.path = p
  <2>1. r.req.op \in {"create", "mkdir"}
    BY <1>5, QuietFacts DEF ThreadOK
  <2>2. Creates(r, q)
    <3>1. ~ Fails(r, q)
      BY <1>1, <1>5, <2>1 DEF Fails, Ended, OK, InternalError
    <3>2. QED
      BY <1>5, <3>1 DEF Moves, Receives, Looks, Enters, Empties, Locks, Opens, Misses, Leaks,
         Removes, Checks, StartsRead, StartsWrite, Streams, AtWork
  <2>3. ShapeOf(tree["primary"][p]) = IF r.req.op = "mkdir" THEN Folder ELSE 1
    BY <1>5 DEF PrimaryDone, Shape, ShapeOf
  <2>4. CASE r.req.op = "create" /\ CanOpen(r.root, r.req.path) /\ Truncate(r.root, r.req.path)
    <3>1. Changes("backup", p) /\ tree'["backup"][p] > Folder
      BY <1>2, <1>5, <2>4, TruncatePlaces DEF IInv
    <3>2. tree'["primary"][p] = tree["primary"][p]
      BY <1>2, <3>1 DEF Changes
    <3>3. QED
      BY <2>3, <2>4, <3>1, <3>2 DEF ShapeOf
  <2>5. CASE r.req.op = "mkdir" /\ tree' = [tree EXCEPT ![r.root][r.req.path] = Folder]
    <3>1. tree'["backup"][p] = Folder /\ tree'["primary"][p] = tree["primary"][p]
      BY <1>2, <1>5, <2>5 DEF IInv, TypeOK
    <3>2. QED
      BY <2>3, <2>5, <3>1 DEF ShapeOf, Folder
  <2>6. QED
    BY <2>2, <2>4, <2>5 DEF Creates
<1>6. CASE ~ PendingBy(r, p)
  <2>1. \A u \in Threads : ~ PendingBy(thread[u], p)
    BY <1>6
  <2>2. ShapeOf(tree["primary"][p]) = ShapeOf(tree["backup"][p])
    BY <2>1 DEF Pending, PendingBy, Active, Shape, ShapeOf
  <2>3. ASSUME NEW x \in Roots, tree'[x][p] # tree[x][p]
        PROVE  FALSE
    <3>1. PICK s \in Roots, a \in Path : Changes(s, a) /\ ChangedBy(r, q, s, a)
      BY <2>3, TreeMoves
    <3>2. a = p
      BY <2>3, <3>1 DEF Changes
    <3>3. CASE r.pc = "create" /\ s = r.root /\ p = r.req.path /\ Passed(r, q)
      <4>1. r.req.op \in {"create", "mkdir"} /\ r.req.port = "nm" /\ q.req = r.req
        BY <1>1, <3>3, QuietFacts DEF ThreadOK
      <4>2. s = "primary"
        BY <1>6, <3>3 DEF PendingBy, Roots
      <4>3. PendingBy(q, p)
        BY <3>3, <4>1, <4>2 DEF Passed, Kept, PendingBy
      <4>4. QED
        BY <1>2, <4>3
    <3>4. CASE r.pc = "delete" /\ p = Head(r.work).path
      <4>1. IsPrefix(r.req.path, p) /\ r.req.op = "delete"
        BY <3>4, TopBelow, AtWorkPath
      <4>2. QED
        BY <1>6, <3>4, <4>1 DEF PendingBy
    <3>5. QED
      BY <1>1, <3>1, <3>2, <3>3, <3>4 DEF ChangedBy, AtWork
  <2>4. QED
    BY <1>2, <2>2, <2>3
<1>7. QED
  BY <1>4, <1>5, <1>6 DEF PendingBy

-----------------------------------------------------------------------------
(* A thread that is alone in the file it has open.                         *)

WritesTo(r, i) == r.ino = i /\ r.pc = "stream" /\ r.req.op = "write"

(* What AloneInFile says of the record r of thread t and the files d.      *)
AloneRecord(t, r, d) ==
    /\ r.pc \in {"stream", "done"} /\ r.req.op \in {"read", "write"}
    /\ r.ino \in 1 .. Len(d)
    /\ r.req.op = "write" => d[r.ino] = [j \in 1 .. r.pos |-> t]
    /\ r.req.op = "read" => IsPrefix(r.got, d[r.ino]) /\ Len(r.got) = r.pos
    /\ r.req.op = "read" /\ r.pc = "done" => r.got = d[r.ino]

(* AloneInFile is about the record, the files and the other threads. *)
LEMMA AloneSplits ==
    ASSUME NEW t \in Threads
    PROVE  AloneInFile(t) <=>
              /\ AloneRecord(t, thread[t], data["primary"])
              /\ \A u \in Threads \ {t} : ~ WritesTo(thread[u], thread[t].ino)
<1>1. Writing(thread[t].ino) \subseteq {t} <=>
          \A u \in Threads \ {t} : ~ WritesTo(thread[u], thread[t].ino)
  BY DEF Writing, Holders, WritesTo
<1> DEFINE W == Writing(thread[t].ino) \subseteq {t}
           N == \A u \in Threads \ {t} : ~ WritesTo(thread[u], thread[t].ino)
<1>2. AloneInFile(t) <=> AloneRecord(t, thread[t], data["primary"]) /\ W
  BY DEF AloneInFile, AloneRecord
<1>3. W <=> N
  BY <1>1
<1> HIDE DEF W, N
<1>4. AloneInFile(t) <=> AloneRecord(t, thread[t], data["primary"]) /\ N
  BY <1>2, <1>3
<1>5. QED
  BY <1>4 DEF N

(* The same of the state after a step.                                     *)
LEMMA AloneNext ==
    ASSUME NEW t \in Threads, NEW q, q = thread'[t], AloneRecord(t, q, data'["primary"]),
           \A u \in Threads \ {t} : ~ WritesTo(thread'[u], q.ino)
    PROVE  AloneInFile(t)'
BY DEF AloneInFile, AloneRecord, Writing, Holders, WritesTo

(* fopen "w" empties one file.                                             *)
LEMMA TruncateEmpties ==
    ASSUME TypeOK, NEW s \in Roots, NEW p \in Path, CanOpen(s, p), Truncate(s, p)
    PROVE  /\ Len(data'["primary"]) >= Len(data["primary"])
           /\ s # "primary" => data'["primary"] = data["primary"]
           /\ data'[s][Inode(s, p)] = <<>> /\ Inode(s, p) \in 1 .. Len(data'[s])
           /\ \A j \in 1 .. Len(data[s]) :
                j # Inode(s, p) => data'[s][j] = data[s][j]
<1>1. /\ data[s] \in Seq(Seq(Authors)) /\ data \in [Roots -> Seq(Seq(Authors))]
      /\ "primary" \in Roots
  BY DEF TypeOK, Roots
<1>2. Len(data'["primary"]) >= Len(data["primary"])
  BY <1>1, TruncateFacts
<1> DEFINE n == Len(data[s])
           i == Inode(s, p)
           d == IF Exists(s, p) THEN [data[s] EXCEPT ![tree[s][p]] = <<>>]
                ELSE Append(data[s], <<>>)
<1>3. data' = [data EXCEPT ![s] = d]
  BY DEF Truncate
<1>4. d[i] = <<>> /\ i \in 1 .. Len(d) /\ \A j \in 1 .. n : j # i => d[j] = data[s][j]
  <2>1. CASE Exists(s, p)
    <3>1. i = tree[s][p] /\ i \in 1 .. n
      BY <1>1, <2>1 DEF Inode, TypeOK, CanOpen, Exists, None, Folder
    <3>2. d = [data[s] EXCEPT ![i] = <<>>]
      BY <2>1, <3>1
    <3> HIDE DEF d, i
    <3>3. QED
      BY <1>1, <3>1, <3>2
  <2>2. CASE ~ Exists(s, p)
    <3>1. i = n + 1 /\ d = Append(data[s], <<>>)
      BY <2>2 DEF Inode
    <3> HIDE DEF d, i
    <3>2. QED
      BY <1>1, <3>1, AppendProperties
  <2>3. QED
    BY <2>1, <2>2
<1> HIDE DEF d, i, n
<1>5. data'[s] = d /\ \A x \in Roots \ {s} : data'[x] = data[x]
  BY <1>1, <1>3
<1>6. QED
  BY <1>1, <1>2, <1>4, <1>5 DEF i, n

(* A thread stays alone in its file when another one leaves the file as it *)
(* is and does not begin to write to it.                                   *)
LEMMA OthersAlone ==
    ASSUME IInv, IInv', NEW t \in Threads, NEW u \in Threads \ {t},
           \A v \in Threads \ {t} : thread'[v] = thread[v],
           AloneInFile(u), NEW q, q = thread'[t], ~ WritesTo(q, thread[u].ino),
           Len(data'["primary"]) >= Len(data["primary"]),
           data'["primary"][thread[u].ino] = data["primary"][thread[u].ino]
    PROVE  AloneInFile(u)'
<1>1. PICK r : r = thread[u]
  OBVIOUS
<1>2. r = thread'[u]
  BY <1>1
<1>3. PICK d, e : d = data["primary"] /\ e = data'["primary"]
  OBVIOUS
<1>4. d \in Seq(Seq(Authors)) /\ e \in Seq(Seq(Authors)) /\ Len(d) \in Nat /\ Len(e) \in Nat
  BY <1>3 DEF IInv, TypeOK, Roots
<1>5. AloneRecord(u, r, d) /\ \A v \in Threads \ {u} : ~ WritesTo(thread[v], r.ino)
  BY <1>1, <1>3, AloneSplits
<1>6. \A v \in Threads \ {u} : ~ WritesTo(thread'[v], r.ino)
  BY <1>1, <1>5
<1>7. e[r.ino] = d[r.ino] /\ Len(e) >= Len(d)
  BY <1>1, <1>3
<1>8. AloneRecord(u, r, e)
  BY <1>4, <1>5, <1>7 DEF AloneRecord
<1>9. QED
  BY <1>2, <1>3, <1>6, <1>8, AloneNext

(* The empty sequence is a prefix of every one.                            *)
LEMMA EmptyPrefix ==
    ASSUME NEW c \in Seq(Authors)
    PROVE  IsPrefix(<<>>, c)
<1>1. ASSUME NEW e \in Seq(Authors), Len(e) = 0
      PROVE  IsPrefix(e, c)
  <2>1. Len(c) \in Nat
    OBVIOUS
  <2>2. IsPrefix(e, c) <=> Len(e) <= Len(c) /\ \A j \in 1 .. Len(e) : e[j] = c[j]
    BY PrefixAt
  <2>3. QED
    BY <1>1, <2>1, <2>2
<1>2. <<>> \in Seq(Authors) /\ Len(<<>>) = 0
  OBVIOUS
<1>3. QED
  BY <1>1, <1>2

(* The steps of a thread that has no file open and opens none.             *)
LEMMA AloneQuiet ==
    ASSUME IInv, IInv', NEW t \in Threads, NEW r, r = thread[t], NEW q, q = thread'[t],
           Moves(t, r, q), \A v \in Threads \ {t} : thread'[v] = thread[v],
           r.pc \notin {"stream", "done"}, q.pc # "stream",
           \/ data' = data /\ alone' = alone
           \/ \E s \in Roots, p \in Path : CanOpen(s, p) /\ Truncate(s, p) /\ Disturb(s, p),
           \A u \in alone : AloneInFile(u),
           NEW u \in alone'
    PROVE  AloneInFile(u)'
<1>1. u \in alone /\ u \in Threads
  BY DEF Disturb, IInv, TypeOK
<1>2. u # t
  BY <1>1 DEF AloneInFile
<1>3. AloneInFile(u)
  BY <1>1
<1>4. ~ WritesTo(q, thread[u].ino)
  BY DEF WritesTo
<1>5. thread[u].ino \in 1 .. Len(data["primary"]) /\ data["primary"] \in Seq(Seq(Authors))
  BY <1>3 DEF AloneInFile, IInv, TypeOK, Roots
<1>6. CASE data' = data
  BY <1>1, <1>2, <1>3, <1>4, <1>5, <1>6, OthersAlone
<1>7. CASE \E s \in Roots, p \in Path : CanOpen(s, p) /\ Truncate(s, p) /\ Disturb(s, p)
  <2>1. PICK s \in Roots, p \in Path : CanOpen(s, p) /\ Truncate(s, p) /\ Disturb(s, p)
    BY <1>7
  <2>2. s = "primary" => thread[u].ino # Inode(s, p)
    BY <1>1, <2>1 DEF Disturb, Holders
  <2>3. /\ Len(data'["primary"]) >= Len(data["primary"])
        /\ data'["primary"][thread[u].ino] = data["primary"][thread[u].ino]
    BY <1>5, <2>1, <2>2, TruncateEmpties DEF IInv
  <2>4. QED
    BY <1>1, <1>2, <1>3, <1>4, <2>3, OthersAlone
<1>8. QED
  BY <1>6, <1>7

(* fopen "r" of a READ. *)
LEMMA AloneReader ==
    ASSUME IInv, IInv', NEW t \in Threads, StageOK(thread[t]), OpenToRead(t),
           \A u \in alone : AloneInFile(u), NEW u \in alone'
    PROVE  AloneInFile(u)'
<1>1. PICK r : r = thread[t]
  OBVIOUS
<1>2. PICK i : i = tree["primary"][r.req.path]
  OBVIOUS
<1> DEFINE q == [r EXCEPT !.pc = "stream", !.ino = i]
<1>3. /\ r.pc = "open" /\ r.req.op = "read" /\ Become(t, q) /\ data' = data
      /\ alone' = IF i > Folder /\ Writing(i) = {} THEN alone \cup {t} ELSE alone
  BY <1>1, <1>2 DEF OpenToRead, fsVars
<1>4. r \in ThreadRecord /\ r.pos = 0 /\ r.got = <<>>
  BY <1>1, <1>3, QuietFacts DEF StageOK
<1>5. q.pc = "stream" /\ q.req = r.req /\ q.ino = i /\ q.pos = 0 /\ q.got = <<>>
  BY <1>4 DEF ThreadRecord
<1> HIDE DEF q
<1>6. thread'[t] = q /\ \A v \in Threads \ {t} : thread'[v] = thread[v]
  BY <1>3, OthersStay
<1>7. data["primary"] \in Seq(Seq(Authors)) /\ u \in Threads
  BY DEF IInv, TypeOK, Roots
<1>8. CASE u # t
  <2>1. u \in alone
    BY <1>3, <1>8
  <2>2. AloneInFile(u) /\ ~ WritesTo(q, thread[u].ino)
    BY <1>3, <1>5, <2>1 DEF WritesTo
  <2>3. QED
    BY <1>3, <1>6, <1>7, <1>8, <2>2, OthersAlone
<1>9. CASE u = t
  <2>1. t \notin alone
    BY <1>1, <1>3 DEF AloneInFile
  <2>2. i > Folder /\ Writing(i) = {}
    BY <1>3, <1>9, <2>1
  <2>3. r.req.path \in Path /\ "primary" \in Roots
    BY <1>1, <1>3, AtWorkPath DEF Roots
  <2>4. i \in 1 .. Len(data["primary"])
    BY <1>2, <1>7, <2>2, <2>3 DEF IInv, TypeOK, None, Folder
  <2>5. data["primary"][i] \in Seq(Authors)
    BY <1>7, <2>4
  <2>6. IsPrefix(<<>>, data["primary"][i])
    BY <2>5, EmptyPrefix
  <2>7. AloneRecord(t, q, data'["primary"])
    BY <1>3, <1>5, <2>4, <2>6 DEF AloneRecord
  <2>8. \A v \in Threads \ {t} : ~ WritesTo(thread'[v], q.ino)
    BY <1>5, <1>6, <2>2 DEF Writing, Holders, WritesTo
  <2>9. QED
    BY <1>6, <1>9, <2>7, <2>8, AloneNext
<1>10. QED
  BY <1>8, <1>9

(* fopen "w" of a WRITE. *)
LEMMA AloneWriter ==
    ASSUME IInv, IInv', NEW t \in Threads, StageOK(thread[t]), OpenToWrite(t),
           \A u \in alone : AloneInFile(u), NEW u \in alone'
    PROVE  AloneInFile(u)'
<1>1. PICK r : r = thread[t]
  OBVIOUS
<1>2. PICK p, i : p = r.req.path /\ i = Inode("primary", p)
  OBVIOUS
<1> DEFINE q == [r EXCEPT !.pc = "stream", !.ino = i, !.resp = OkStartStream]
<1>3. /\ r.pc = "open" /\ r.req.op = "write" /\ Become(t, q)
      /\ CanOpen("primary", p) /\ Truncate("primary", p)
      /\ alone' = (alone \ Holders(i)) \cup (IF Writing(i) = {} THEN {t} ELSE {})
  BY <1>1, <1>2 DEF OpenToWrite
<1>4. r \in ThreadRecord /\ r.pos = 0 /\ r.got = <<>>
  BY <1>1, <1>3, QuietFacts DEF StageOK
<1>5. q.pc = "stream" /\ q.req = r.req /\ q.ino = i /\ q.pos = 0
  BY <1>4 DEF ThreadRecord
<1> HIDE DEF q
<1>6. thread'[t] = q /\ \A v \in Threads \ {t} : thread'[v] = thread[v]
  BY <1>3, OthersStay
<1>7. /\ Len(data'["primary"]) >= Len(data["primary"])
      /\ data'["primary"][i] = <<>> /\ i \in 1 .. Len(data'["primary"])
      /\ \A j \in 1 .. Len(data["primary"]) : j # i => data'["primary"][j] = data["primary"][j]
  <2>1. p \in Path /\ "primary" \in Roots
    BY <1>1, <1>2, <1>3, AtWorkPath DEF Roots
  <2>2. QED
    BY <1>2, <1>3, <2>1, TruncateEmpties DEF IInv
<1>8. u \in Threads
  BY DEF IInv, TypeOK
<1>9. CASE u # t
  <2>1. u \in alone /\ thread[u].ino # i
    BY <1>3, <1>8, <1>9 DEF Holders
  <2>2. AloneInFile(u) /\ ~ WritesTo(q, thread[u].ino)
    BY <1>5, <2>1 DEF WritesTo
  <2>3. thread[u].ino \in 1 .. Len(data["primary"])
    BY <2>2 DEF AloneInFile
  <2>4. data'["primary"][thread[u].ino] = data["primary"][thread[u].ino]
    BY <1>7, <2>1, <2>3
  <2>5. QED
    BY <1>6, <1>7, <1>8, <1>9, <2>2, <2>4, OthersAlone
<1>10. CASE u = t
  <2>1. t \notin alone
    BY <1>1, <1>3 DEF AloneInFile
  <2>2. Writing(i) = {}
    BY <1>3, <1>10, <2>1
  <2>3. [j \in 1 .. 0 |-> t] = <<>>
    OBVIOUS
  <2>4. AloneRecord(t, q, data'["primary"])
    BY <1>3, <1>5, <1>7, <2>3 DEF AloneRecord
  <2>5. \A v \in Threads \ {t} : ~ WritesTo(thread'[v], q.ino)
    BY <1>5, <1>6, <2>2 DEF Writing, Holders, WritesTo
  <2>6. QED
    BY <1>6, <1>10, <2>4, <2>5, AloneNext
<1>11. QED
  BY <1>9, <1>10

(* What a reader has sent, with one chunk more, or at the end of the file. *)
LEMMA PrefixGrows ==
    ASSUME NEW g \in Seq(Authors), NEW c \in Seq(Authors), IsPrefix(g, c)
    PROVE  /\ Len(g) < Len(c) => /\ IsPrefix(Append(g, c[Len(g) + 1]), c)
                                 /\ Len(Append(g, c[Len(g) + 1])) = Len(g) + 1
           /\ Len(g) >= Len(c) => g = c
<1>1. Len(g) \in Nat /\ Len(c) \in Nat
  OBVIOUS
<1>2. Len(g) <= Len(c) /\ \A j \in 1 .. Len(g) : g[j] = c[j]
  BY PrefixAt
<1>3. ASSUME Len(g) < Len(c)
      PROVE  /\ IsPrefix(Append(g, c[Len(g) + 1]), c)
             /\ Len(Append(g, c[Len(g) + 1])) = Len(g) + 1
  <2> DEFINE x == c[Len(g) + 1]
             h == Append(g, x)
  <2>1. x \in Authors
    BY <1>1, <1>3, ElementOfSeq
  <2> HIDE DEF x
  <2>2. /\ h \in Seq(Authors) /\ Len(h) = Len(g) + 1 /\ h[Len(g) + 1] = x
        /\ \A j \in 1 .. Len(g) : h[j] = g[j]
    BY <2>1, AppendProperties
  <2> HIDE DEF h
  <2>3. \A j \in 1 .. Len(h) : h[j] = c[j]
    BY <1>1, <1>2, <2>2 DEF x
  <2>4. IsPrefix(h, c)
    BY <1>1, <1>3, <2>2, <2>3, PrefixAt
  <2>5. QED
    BY <2>2, <2>4 DEF h, x
<1>4. Len(g) >= Len(c) => g = c
  BY <1>1, <1>2, SeqEqual
<1>5. QED
  BY <1>3, <1>4

(* One chunk more of one's own. *)
LEMMA OverwriteAppends ==
    ASSUME NEW t, NEW k \in Nat
    PROVE  Overwrite([j \in 1 .. k |-> t], k, t) = [j \in 1 .. k + 1 |-> t]
<1> DEFINE c == [j \in 1 .. k |-> t]
<1>1. Len(c) = k /\ \A j \in 1 .. k : c[j] = t
  BY IsASeq
<1> HIDE DEF c
<1>2. Overwrite(c, k, t) =
        [j \in 1 .. k + 1 |-> IF j = k + 1 THEN t ELSE IF j <= k THEN c[j] ELSE Hole]
  BY <1>1 DEF Overwrite
<1>3. \A j \in 1 .. k + 1 : (IF j = k + 1 THEN t ELSE IF j <= k THEN c[j] ELSE Hole) = t
  BY <1>1
<1>4. QED
  BY <1>2, <1>3 DEF c

(* The chunks of a stream, and its end. *)
LEMMA AloneStreams ==
    ASSUME IInv, IInv', NEW t \in Threads, StreamStep(t),
           \A u \in alone : AloneInFile(u), NEW u \in alone'
    PROVE  AloneInFile(u)'
<1>1. PICK r : r = thread[t]
  OBVIOUS
<1>2. PICK q : q = thread'[t]
  OBVIOUS
<1>3. /\ r \in ThreadRecord /\ q \in ThreadRecord /\ r.pc = "stream"
      /\ r.req.op \in {"read", "write"}
      /\ u \in Threads /\ alone' = alone /\ AloneInFile(u)
  BY <1>1, <1>2, QuietFacts
     DEF StreamStep, ReadChunk, EndRead, WriteChunk, EndWrite, IInv, TypeOK, histVars
<1>4. data["primary"] \in Seq(Seq(Authors)) /\ data \in [Roots -> Seq(Seq(Authors))]
  BY DEF IInv, TypeOK, Roots
<1>5. \A v \in Threads \ {t} : thread'[v] = thread[v]
  BY StepMoves
<1>6. /\ q.ino = r.ino /\ q.req = r.req /\ q.pc \in {"stream", "done"}
      /\ Len(data'["primary"]) = Len(data["primary"])
      /\ \A j \in 1 .. Len(data["primary"]) :
            j # r.ino \/ r.req.op = "read" => data'["primary"][j] = data["primary"][j]
      /\ AloneInFile(t) => AloneRecord(t, q, data'["primary"])
  <2>1. CASE ReadChunk(t)
    <3> DEFINE n == r.pos + 1
               g == Append(r.got, data["primary"][r.ino][r.pos + 1])
               w == [r EXCEPT !.pos = n, !.got = g]
    <3>1. Become(t, w) /\ data' = data /\ r.req.op = "read" /\ r.pos < Len(data["primary"][r.ino])
      BY <1>1, <2>1 DEF ReadChunk, fsVars
    <3> HIDE DEF n, g
    <3>2. w.ino = r.ino /\ w.req = r.req /\ w.pc = r.pc /\ w.pos = n /\ w.got = g
      BY <1>3 DEF ThreadRecord
    <3> HIDE DEF w
    <3>3. q = w
      BY <1>2, <3>1, OthersStay
    <3>4. ASSUME AloneInFile(t) PROVE AloneRecord(t, q, data'["primary"])
      <4>1. AloneRecord(t, r, data["primary"])
        BY <1>1, <3>4, AloneSplits
      <4>2. PICK c : c = data["primary"][r.ino]
        OBVIOUS
      <4>3. c \in Seq(Authors) /\ r.got \in Seq(Authors)
        BY <1>3, <1>4, <4>1, <4>2 DEF AloneRecord, ThreadRecord
      <4>4. IsPrefix(r.got, c) /\ Len(r.got) = r.pos /\ r.pos < Len(c)
        BY <3>1, <4>1, <4>2 DEF AloneRecord
      <4>5. IsPrefix(g, c) /\ Len(g) = n
        BY <4>2, <4>3, <4>4, PrefixGrows DEF n, g
      <4>6. QED
        BY <1>3, <3>1, <3>2, <3>3, <4>1, <4>2, <4>5 DEF AloneRecord
    <3>5. QED
      BY <1>3, <3>1, <3>2, <3>3, <3>4
  <2>2. CASE EndRead(t)
    <3>1. /\ Kept(r, q) /\ q.pc = "done" /\ data' = data /\ r.req.op = "read"
          /\ r.ino > Folder => r.pos >= Len(data["primary"][r.ino])
      BY <1>1, <1>2, <2>2, AnswerEnds DEF EndRead, fsVars, Ended
    <3>2. ASSUME AloneInFile(t) PROVE AloneRecord(t, q, data'["primary"])
      <4>1. AloneRecord(t, r, data["primary"])
        BY <1>1, <3>2, AloneSplits
      <4>2. PICK c : c = data["primary"][r.ino]
        OBVIOUS
      <4>3. c \in Seq(Authors) /\ r.got \in Seq(Authors) /\ r.ino > Folder
        BY <1>3, <1>4, <4>1, <4>2, SMTT(40) DEF AloneRecord, ThreadRecord, Folder
      <4>4. r.got = c
        BY <3>1, <4>1, <4>2, <4>3, PrefixGrows DEF AloneRecord
      <4>5. QED
        BY <3>1, <4>1, <4>2, <4>4 DEF AloneRecord, Kept
    <3>3. QED
      BY <3>1, <3>2 DEF Kept
  <2>3. CASE WriteChunk(t)
    <3> DEFINE n == r.pos + 1
               c == Overwrite(data["primary"][r.ino], r.pos, t)
               w == [r EXCEPT !.pos = n, !.resp = OK]
    <3>1. Become(t, w) /\ data' = [data EXCEPT !["primary"][r.ino] = c] /\ r.req.op = "write"
      BY <1>1, <2>3 DEF WriteChunk
    <3> HIDE DEF n, c
    <3>2. w.ino = r.ino /\ w.req = r.req /\ w.pc = r.pc /\ w.pos = n
      BY <1>3 DEF ThreadRecord
    <3> HIDE DEF w
    <3>3. q = w
      BY <1>2, <3>1, OthersStay
    <3>4. data'["primary"] = [data["primary"] EXCEPT ![r.ino] = c]
      BY <1>4, <3>1 DEF Roots
    <3>5. /\ Len(data'["primary"]) = Len(data["primary"])
          /\ \A j \in 1 .. Len(data["primary"]) :
                j # r.ino => data'["primary"][j] = data["primary"][j]
          /\ r.ino \in 1 .. Len(data["primary"]) => data'["primary"][r.ino] = c
      BY <1>4, <3>4
    <3>6. ASSUME AloneInFile(t) PROVE AloneRecord(t, q, data'["primary"])
      <4>1. AloneRecord(t, r, data["primary"])
        BY <1>1, <3>6, AloneSplits
      <4>2. r.pos \in Nat
        BY <1>3 DEF ThreadRecord
      <4>3. c = [j \in 1 .. n |-> t]
        BY <3>1, <4>1, <4>2, OverwriteAppends DEF AloneRecord, c, n
      <4>4. QED
        BY <1>3, <3>1, <3>2, <3>3, <3>5, <4>1, <4>3 DEF AloneRecord
    <3>7. QED
      BY <1>3, <3>1, <3>2, <3>3, <3>5, <3>6
  <2>4. CASE EndWrite(t)
    <3>1. Kept(r, q) /\ q.pc = "done" /\ data' = data /\ r.req.op = "write"
      BY <1>1, <1>2, <2>4, AnswerEnds DEF EndWrite, fsVars, Ended
    <3>2. ASSUME AloneInFile(t) PROVE AloneRecord(t, q, data'["primary"])
      <4>1. AloneRecord(t, r, data["primary"])
        BY <1>1, <3>2, AloneSplits
      <4>2. QED
        BY <3>1, <4>1 DEF AloneRecord, Kept
    <3>3. QED
      BY <3>1, <3>2 DEF Kept
  <2>5. QED
    BY <2>1, <2>2, <2>3, <2>4 DEF StreamStep
<1>7. CASE u = t
  <2>1. \A v \in Threads \ {t} : ~ WritesTo(thread'[v], q.ino)
    BY <1>1, <1>3, <1>5, <1>6, <1>7, AloneSplits
  <2>2. QED
    BY <1>2, <1>3, <1>6, <1>7, <2>1, AloneNext
<1>8. CASE u # t
  <2>1. /\ AloneRecord(u, thread[u], data["primary"])
        /\ ~ WritesTo(r, thread[u].ino)
    BY <1>1, <1>3, <1>8, AloneSplits
  <2>2. thread[u].ino \in 1 .. Len(data["primary"])
    BY <2>1 DEF AloneRecord
  <2>3. r.ino # thread[u].ino \/ r.req.op = "read"
    BY <1>3, <2>1 DEF WritesTo
  <2>4. data'["primary"][thread[u].ino] = data["primary"][thread[u].ino]
    BY <1>6, <2>2, <2>3
  <2>5. ~ WritesTo(q, thread[u].ino)
    BY <1>6, <2>3 DEF WritesTo
  <2>6. Len(data'["primary"]) >= Len(data["primary"])
    BY <1>4, <1>6
  <2>7. QED
    BY <1>2, <1>3, <1>5, <1>8, <2>4, <2>5, <2>6, OthersAlone
<1>9. QED
  BY <1>7, <1>8

(* Only a thread that has the lock begins to stream.                       *)
LEMMA NoNewStream ==
    ASSUME NEW t, NEW r, NEW q, Moves(t, r, q), r.pc \notin {"open", "stream"}
    PROVE  q.pc # "stream"
<1>1. \A resp : Ended(r, q, resp) => q.pc # "stream"
  BY DEF Ended
<1>2. GoesOn(r, q) => q.pc # "stream"
  BY DEF GoesOn
<1>3. Passed(r, q) => q.pc # "stream"
  BY <1>1 DEF Passed
<1>4. Popped(r, q) => q.pc # "stream"
  BY <1>2, <1>3 DEF Popped
<1>5. QED
  BY <1>1, <1>2, <1>3, <1>4 DEF Moves, Receives, Creates, Fails, Looks, Enters, Empties, Locks,
     Opens, Misses, Leaks, Removes, Checks, StartsRead, StartsWrite, Streams, Topped

(* No step disturbs a thread that is alone in its file and stays so.       *)
LEMMA AloneStays ==
    ASSUME IInv, IInv', NEW t \in Threads, StageOK(thread[t]),
           Accept(t) \/ ServerStep(t) \/ StreamStep(t),
           \A u \in alone : AloneInFile(u), NEW u \in alone'
    PROVE  AloneInFile(u)'
<1>1. CASE OpenToRead(t)
  BY <1>1, AloneReader
<1>2. CASE OpenToWrite(t)
  BY <1>2, AloneWriter
<1>3. CASE StreamStep(t)
  BY <1>3, AloneStreams
<1>4. CASE ~ (OpenToRead(t) \/ OpenToWrite(t) \/ StreamStep(t))
  <2>1. PICK r, q : r = thread[t] /\ q = thread'[t]
    OBVIOUS
  <2>2. Moves(t, r, q) /\ \A v \in Threads \ {t} : thread'[v] = thread[v]
    BY <2>1, StepMoves
  <2>3. CASE \/ Accept(t) \/ CreateFolder(t) \/ CreateFails(t)
             \/ StatEntry(t) \/ OpenFolder(t) \/ ReadEntry(t) \/ RemoveFolder(t)
             \/ LockToDelete(t) \/ NothingToDelete(t)
             \/ BackupDeleteLeaks(t) \/ RemoveFile(t)
             \/ CheckExists(t) \/ LockToOpen(t) \/ ReadLeaks(t) \/ WriteLeaks(t)
    <3>1. data' = data /\ alone' = alone /\ r.pc \notin {"stream", "done"}
      BY <2>1, <2>3 DEF Accept, CreateFolder, CreateFails, StatEntry, OpenFolder, ReadEntry,
         RemoveFolder, LockToDelete, NothingToDelete, BackupDeleteLeaks, RemoveFile,
         CheckExists, LockToOpen, ReadLeaks, WriteLeaks, Doing, fsVars, histVars
    <3>2. q.pc # "stream"
      <4>1. r.pc = "open" => q.pc = "done"
        BY <2>1, <2>3, AnswerEnds DEF Accept, CreateFolder, CreateFails, StatEntry, OpenFolder,
           ReadEntry, RemoveFolder, LockToDelete, NothingToDelete, BackupDeleteLeaks, RemoveFile,
           CheckExists, LockToOpen, ReadLeaks, WriteLeaks, Doing, Ended
      <4>2. QED
        BY <2>2, <3>1, <4>1, NoNewStream
    <3>3. QED
      BY <2>1, <2>2, <3>1, <3>2, AloneQuiet
  <2>4. CASE CreateFile(t) \/ OpenToDelete(t)
    <3>1. r.pc \in {"create", "delete"}
      BY <2>1, <2>4 DEF CreateFile, OpenToDelete, Doing
    <3>2. \E s \in Roots, p \in Path : CanOpen(s, p) /\ Truncate(s, p) /\ Disturb(s, p)
      <4>1. CASE CreateFile(t)
        <5>1. r.root \in Roots /\ r.req.path \in Path
          BY <2>1, <3>1, AtWorkPath
        <5>2. QED
          BY <2>1, <4>1, <5>1 DEF CreateFile, CanCreate
      <4>2. CASE OpenToDelete(t)
        <5>1. r.root \in Roots /\ Top(t).path \in Path
          BY <2>1, <4>2, AtWorkPath DEF OpenToDelete, Doing, Top
        <5>2. QED
          BY <2>1, <4>2, <5>1 DEF OpenToDelete
      <4>3. QED
        BY <2>4, <4>1, <4>2
    <3>3. q.pc # "stream"
      BY <2>2, <3>1, NoNewStream
    <3>4. QED
      BY <2>1, <2>2, <3>1, <3>2, <3>3, AloneQuiet
  <2>5. QED
    BY <1>4, <2>3, <2>4 DEF ServerStep
<1>5. QED
  BY <1>1, <1>2, <1>3, <1>4

-----------------------------------------------------------------------------
(* A stream that has its file no longer to itself has a rival.             *)

(* What a step may make of what is open: a request that is known is kept,  *)
(* and a file is opened once, at the stream.                               *)
LEMMA OpenMoves ==
    ASSUME IInv, NEW t \in Threads, StageOK(thread[t]),
           Accept(t) \/ ServerStep(t) \/ StreamStep(t)
    PROVE  LET r == thread[t]
               q == thread'[t]
           IN  /\ r.pc # "idle" => q.req = r.req
               /\ \/ q.ino = r.ino
                  \/ r.pc = "open" /\ r.ino = None /\ (OpenToRead(t) \/ OpenToWrite(t))
<1>1. PICK r, q : r = thread[t] /\ q = thread'[t]
  OBVIOUS
<1>2. Moves(t, r, q) /\ r \in ThreadRecord
  BY <1>1, StepMoves, QuietFacts
<1>3. r.pc # "idle" => q.req = r.req
  BY <1>1, <1>2, BasicMoves DEF Receives
<1>4. CASE OpenToRead(t) \/ OpenToWrite(t)
  BY <1>1, <1>3, <1>4 DEF OpenToRead, OpenToWrite, StageOK
<1>5. CASE StreamStep(t)
  <2>1. CASE EndRead(t) \/ EndWrite(t)
    <3>1. PICK resp : Answer(t, resp)
      BY <2>1 DEF EndRead, EndWrite
    <3> QED BY <1>1, <1>3, <3>1, AnswerEnds DEF Ended, Kept
  <2>2. CASE ReadChunk(t) \/ WriteChunk(t)
    <3> DEFINE n == r.pos + 1
               g == Append(r.got, data["primary"][r.ino][r.pos + 1])
               a == [r EXCEPT !.pos = n, !.got = g]
               b == [r EXCEPT !.pos = n, !.resp = OK]
    <3>1. Become(t, a) \/ Become(t, b)
      BY <1>1, <2>2 DEF ReadChunk, WriteChunk
    <3> HIDE DEF n, g
    <3>2. a.ino = r.ino /\ b.ino = r.ino
      BY <1>2 DEF ThreadRecord
    <3> HIDE DEF a, b
    <3>3. q = a \/ q = b
      BY <1>1, <3>1, OthersStay
    <3> QED BY <1>1, <1>3, <3>2, <3>3
  <2> QED BY <1>5, <2>1, <2>2 DEF StreamStep
<1>6. CASE ~ (OpenToRead(t) \/ OpenToWrite(t) \/ StreamStep(t))
  <2>1. ~ StartsRead(r, q) /\ ~ StartsWrite(r, q)
    <3> SUFFICES ASSUME r.pc = "open", q.pc = "stream" PROVE FALSE
      BY DEF StartsRead, StartsWrite
    <3>1. ReadLeaks(t) \/ WriteLeaks(t)
      BY <1>1, <1>6 DEF Accept, ServerStep, CreateFile, CreateFolder, CreateFails,
         StatEntry, OpenFolder, ReadEntry, RemoveFolder, LockToDelete, OpenToDelete,
         NothingToDelete, BackupDeleteLeaks, RemoveFile, CheckExists, LockToOpen, Doing
    <3> QED BY <1>1, <3>1, AnswerEnds DEF ReadLeaks, WriteLeaks, Ended
  <2>2. Streams(r, q) => FALSE
    <3> SUFFICES ASSUME r.pc = "stream" PROVE FALSE
      BY DEF Streams
    <3> QED BY <1>1, <1>6 DEF Accept, ServerStep, CreateFile, CreateFolder, CreateFails,
         StatEntry, OpenFolder, ReadEntry, RemoveFolder, LockToDelete, OpenToDelete,
         NothingToDelete, BackupDeleteLeaks, RemoveFile, CheckExists, LockToOpen, Doing,
         ReadLeaks, WriteLeaks
  <2>3. Receives(t, r, q) \/ Kept(r, q)
    <3>1. \A resp : Ended(r, q, resp) => Kept(r, q)
      BY DEF Ended
    <3>2. GoesOn(r, q) => Kept(r, q)
      BY DEF GoesOn
    <3>3. Passed(r, q) => Kept(r, q)
      BY <3>1 DEF Passed
    <3>4. Popped(r, q) => Kept(r, q)
      BY <3>2, <3>3 DEF Popped
    <3> QED BY <1>2, <2>1, <2>2, <3>1, <3>2, <3>3, <3>4 DEF Moves, Creates, Fails, Looks,
         Enters, Empties, Locks, Opens, Misses, Leaks, Removes, Checks, Topped
  <2> QED BY <1>1, <1>3, <2>3 DEF Receives, Kept
<1> QED
  BY <1>4, <1>5, <1>6

(* A place of the primary tree keeps what it holds, gets a folder, nothing *)
(* or a file that is new, and no file goes.                                *)
LEMMA PlaceMoves ==
    ASSUME IInv, IInv', NEW t \in Threads, Accept(t) \/ ServerStep(t) \/ StreamStep(t)
    PROVE  /\ Len(data'["primary"]) >= Len(data["primary"])
           /\ \A p \in Path : tree'["primary"][p] \in
                {tree["primary"][p], None, Folder, Len(data["primary"]) + 1}
<1>1. /\ "primary" \in Roots /\ TypeOK
      /\ data["primary"] \in Seq(Seq(Authors)) /\ Len(data["primary"]) \in Nat
  BY DEF IInv, TypeOK, Roots
<1>2. ASSUME NEW s \in Roots, NEW p \in Path, CanOpen(s, p), Truncate(s, p)
      PROVE  /\ Len(data'["primary"]) >= Len(data["primary"])
             /\ \A a \in Path : tree'["primary"][a] \in
                  {tree["primary"][a], None, Folder, Len(data["primary"]) + 1}
  <2>1. Len(data'["primary"]) >= Len(data["primary"])
    BY <1>1, <1>2, TruncateEmpties
  <2>2. tree' = [tree EXCEPT ![s][p] = Inode(s, p)]
    BY <1>2 DEF Truncate
  <2>3. tree'[s][p] = Inode(s, p) /\ Changes(s, p)
    BY <1>1, <2>2, PlaceSet
  <2>4. Inode(s, p) \in {tree[s][p], Len(data[s]) + 1}
    BY DEF Inode
  <2> QED BY <1>1, <2>1, <2>3, <2>4 DEF Changes
<1>3. ASSUME NEW s \in Roots, NEW p \in Path, NEW v \in {None, Folder},
             tree' = [tree EXCEPT ![s][p] = v]
      PROVE  \A a \in Path : tree'["primary"][a] \in
                {tree["primary"][a], None, Folder, Len(data["primary"]) + 1}
  <2>1. tree'[s][p] = v /\ Changes(s, p)
    BY <1>1, <1>3, PlaceSet
  <2> QED BY <1>1, <2>1 DEF Changes
<1>4. PICK r : r = thread[t]
  OBVIOUS
<1>5. CASE CreateFile(t)
  <2>1. r.root \in Roots /\ r.req.path \in Path
    BY <1>4, <1>5, AtWorkPath DEF CreateFile
  <2> QED BY <1>2, <1>4, <1>5, <2>1 DEF CreateFile, CanCreate
<1>6. CASE OpenToDelete(t)
  <2>1. r.root \in Roots /\ Top(t).path \in Path
    BY <1>4, <1>6, AtWorkPath DEF OpenToDelete, Doing, Top
  <2> QED BY <1>2, <1>4, <1>6, <2>1 DEF OpenToDelete
<1>7. CASE OpenToWrite(t)
  <2>1. r.req.path \in Path
    BY <1>4, <1>7, AtWorkPath DEF OpenToWrite
  <2> QED BY <1>1, <1>2, <1>4, <1>7, <2>1 DEF OpenToWrite
<1>8. CASE CreateFolder(t)
  <2>1. r.root \in Roots /\ r.req.path \in Path
    BY <1>4, <1>8, AtWorkPath DEF CreateFolder
  <2>2. tree' = [tree EXCEPT ![r.root][r.req.path] = Folder] /\ data' = data
    BY <1>4, <1>8 DEF CreateFolder
  <2> QED BY <1>1, <1>3, <2>1, <2>2
<1>9. CASE RemoveFolder(t) \/ RemoveFile(t)
  <2>1. r.root \in Roots /\ Top(t).path \in Path
    BY <1>4, <1>9, AtWorkPath DEF RemoveFolder, RemoveFile, Doing, Top
  <2>2. data' = data /\ (tree' = tree \/ tree' = [tree EXCEPT ![r.root][Top(t).path] = None])
    BY <1>4, <1>9 DEF RemoveFolder, RemoveFile
  <2> QED BY <1>1, <1>3, <2>1, <2>2
<1>10. CASE WriteChunk(t)
  <2>1. tree' = tree /\ \E c : data' = [data EXCEPT !["primary"][r.ino] = c]
    BY <1>4, <1>10 DEF WriteChunk
  <2>2. Len(data'["primary"]) = Len(data["primary"])
    BY <1>1, <2>1 DEF IInv, TypeOK
  <2> QED BY <1>1, <2>1, <2>2
<1>11. CASE \/ Accept(t) \/ CreateFails(t) \/ StatEntry(t) \/ OpenFolder(t) \/ ReadEntry(t)
            \/ LockToDelete(t) \/ NothingToDelete(t) \/ BackupDeleteLeaks(t)
            \/ CheckExists(t) \/ LockToOpen(t) \/ OpenToRead(t) \/ ReadLeaks(t)
            \/ WriteLeaks(t) \/ ReadChunk(t) \/ EndRead(t) \/ EndWrite(t)
  <2>1. tree' = tree /\ data' = data
    BY <1>11 DEF Accept, CreateFails, StatEntry, OpenFolder, ReadEntry, LockToDelete,
       NothingToDelete, BackupDeleteLeaks, CheckExists, LockToOpen, OpenToRead, ReadLeaks,
       WriteLeaks, ReadChunk, EndRead, EndWrite, fsVars
  <2> QED BY <1>1, <2>1
<1> QED
  BY <1>5, <1>6, <1>7, <1>8, <1>9, <1>10, <1>11 DEF ServerStep, StreamStep

(* fopen finds or makes a file at the path of its thread and nowhere else. *)
LEMMA OpenedHereStays ==
    ASSUME IInv, IInv', \A u \in Threads : StageOK(thread[u]) /\ OpenedHere(u),
           NEW t \in Threads, Accept(t) \/ ServerStep(t) \/ StreamStep(t),
           NEW u \in Threads
    PROVE  OpenedHere(u)'
<1>1. /\ Len(data'["primary"]) >= Len(data["primary"])
      /\ \A p \in Path : tree'["primary"][p] \in
            {tree["primary"][p], None, Folder, Len(data["primary"]) + 1}
  BY PlaceMoves
<1>2. /\ data["primary"] \in Seq(Seq(Authors)) /\ Len(data["primary"]) \in Nat
      /\ data'["primary"] \in Seq(Seq(Authors)) /\ Len(data'["primary"]) \in Nat
      /\ "primary" \in Roots
  BY DEF IInv, TypeOK, Roots
<1>3. \A v \in Threads \ {t} : thread'[v] = thread[v]
  BY StepMoves
<1>4. CASE thread'[u].ino = thread[u].ino /\ thread'[u].req = thread[u].req
  <2> SUFFICES ASSUME Streamer(u)
               PROVE  /\ thread[u].ino \in 1 .. Len(data'["primary"])
                      /\ \A p \in Path : tree'["primary"][p] = thread[u].ino
                            => p = thread[u].req.path
    BY <1>4 DEF OpenedHere, Streamer
  <2>1. /\ thread[u].ino \in 1 .. Len(data["primary"])
        /\ \A p \in Path : tree["primary"][p] = thread[u].ino => p = thread[u].req.path
    BY DEF OpenedHere
  <2>2. PICK i, n : i = thread[u].ino /\ n = Len(data["primary"])
    OBVIOUS
  <2>3. i \in 1 .. n /\ n \in Nat /\ i \in 1 .. Len(data'["primary"])
    BY <1>1, <1>2, <2>1, <2>2
  <2>4. i \notin {None, Folder, n + 1}
    BY <2>3 DEF None, Folder
  <2>5. \A p \in Path : tree'["primary"][p] = i => tree["primary"][p] = i
    BY <1>1, <2>2, <2>4
  <2> QED BY <2>1, <2>2, <2>3, <2>5
<1>5. CASE u = t /\ thread'[u].req # thread[u].req
  <2>1. thread[t].pc = "idle" /\ thread'[t].ino = thread[t].ino
    BY <1>5, OpenMoves
  <2>2. thread'[t].ino = None
    BY <2>1 DEF StageOK
  <2> QED BY <1>5, <2>2 DEF OpenedHere, Streamer, None, Folder
<1>6. CASE u = t /\ thread'[u].req = thread[u].req /\ thread'[u].ino # thread[u].ino
  <2>1. PICK p \in Path : p = thread[t].req.path
    <3>1. thread[t].pc = "open"
      BY <1>6, OpenMoves
    <3> QED BY <3>1, AtWorkPath
  <2>2. tree'["primary"][p] = thread'[t].ino
    <3>1. CASE OpenToRead(t)
      <4>1. thread' = [thread EXCEPT ![t] = [@ EXCEPT !.pc = "stream",
                                                 !.ino = tree["primary"][p]]]
        BY <2>1, <3>1 DEF OpenToRead, Become
      <4>2. tree' = tree
        BY <3>1 DEF OpenToRead, fsVars
      <4> QED BY <4>1, <4>2, QuietFacts DEF ThreadRecord, IInv, TypeOK
    <3>2. CASE OpenToWrite(t)
      <4>1. thread' = [thread EXCEPT ![t] = [@ EXCEPT !.pc = "stream",
                                   !.ino = Inode("primary", p), !.resp = OkStartStream]]
        BY <2>1, <3>2 DEF OpenToWrite, Become
      <4>2. tree' = [tree EXCEPT !["primary"][p] = Inode("primary", p)]
        BY <2>1, <3>2 DEF OpenToWrite, Truncate
      <4>3. tree'["primary"][p] = Inode("primary", p)
        BY <1>2, <4>2, PlaceSet DEF IInv
      <4> QED BY <4>1, <4>3, QuietFacts DEF ThreadRecord, IInv, TypeOK
    <3> QED BY <1>6, <3>1, <3>2, OpenMoves
  <2>3. /\ tree'["primary"] \in [Path -> None .. Len(data'["primary"])]
        /\ \A a, b \in Path : tree'["primary"][a] = tree'["primary"][b]
                              /\ tree'["primary"][a] > Folder => a = b
    BY <1>2 DEF IInv, TypeOK
  <2> SUFFICES ASSUME thread'[t].ino > Folder
               PROVE  /\ thread'[t].ino \in 1 .. Len(data'["primary"])
                      /\ \A a \in Path : tree'["primary"][a] = thread'[t].ino => a = p
    BY <1>6, <2>1 DEF OpenedHere, Streamer
  <2> QED BY <1>2, <2>1, <2>2, <2>3 DEF None, Folder
<1> QED
  BY <1>3, <1>4, <1>5, <1>6

(* Who loses a file to somebody, or shares it, has a rival; and a rival    *)
(* remains one.                                                            *)
LEMMA RivalStays ==
    ASSUME IInv, \A u \in Threads : StageOK(thread[u]),
           NEW t \in Threads, Accept(t) \/ ServerStep(t) \/ StreamStep(t),
           NEW u \in Threads, Streamer(u), HasRival(u),
           thread'[u].ino = thread[u].ino, thread'[u].req = thread[u].req
    PROVE  HasRival(u)'
<1>1. PICK w \in Threads \ {u} :
        \/ thread[w].req.op = "write" /\ thread[w].ino = thread[u].ino
        \/ /\ thread[w].req.op \in {"create", "delete"}
           /\ IsPrefix(thread[w].req.path, thread[u].req.path)
  BY DEF HasRival
<1>2. thread[w].pc # "idle"
  BY <1>1 DEF StageOK, IdleThread, NoRequest
<1>3. thread'[w].req = thread[w].req
  BY <1>2, StepMoves, OpenMoves
<1>4. thread[w].ino = thread[u].ino => thread'[w].ino = thread[w].ino
  <2>1. CASE w # t
    BY <2>1, StepMoves
  <2>2. CASE w = t
    BY <2>2, OpenMoves DEF Streamer, None, Folder
  <2> QED BY <2>1, <2>2
<1> QED
  BY <1>1, <1>3, <1>4 DEF HasRival

LEMMA ContestedStays ==
    ASSUME IInv, IInv', Contested,
           \A u \in Threads : StageOK(thread[u]) /\ OpenedHere(u) /\ BelowItsPath(thread[u]),
           \A u \in alone : AloneInFile(u),
           NEW t \in Threads, Accept(t) \/ ServerStep(t) \/ StreamStep(t)
    PROVE  Contested'
<1> SUFFICES ASSUME NEW u \in Threads, u \notin alone', Streamer(u)'
             PROVE  HasRival(u)'
  BY DEF Contested
<1>1. /\ Moves(t, thread[t], thread'[t])
      /\ \A v \in Threads \ {t} : thread'[v] = thread[v]
  BY StepMoves
<1>2. alone \in SUBSET Threads /\ \A v \in Threads : thread[v] \in ThreadRecord
  BY QuietFacts DEF IInv, TypeOK
<1>3. CASE OpenToRead(t) /\ u = t
  <2>1. PICK i : i = tree["primary"][thread[t].req.path]
    OBVIOUS
  <2>2. /\ thread[t].pc = "open" /\ thread[t].req.op = "read"
        /\ thread'[t] = [thread[t] EXCEPT !.pc = "stream", !.ino = i]
        /\ alone' = IF i > Folder /\ Writing(i) = {} THEN alone \cup {t} ELSE alone
    BY <1>3, <2>1, OthersStay DEF OpenToRead
  <2>3. thread'[t].ino = i
    BY <1>2, <2>2 DEF ThreadRecord
  <2>4. PICK w \in Writing(i) : TRUE
    BY <1>3, <2>2, <2>3 DEF Streamer
  <2>5. w \in Threads \ {t} /\ thread[w].ino = i /\ thread[w].req.op = "write"
    BY <2>2, <2>4 DEF Writing, Holders
  <2> QED BY <1>1, <1>3, <2>3, <2>5 DEF HasRival
<1>4. CASE OpenToWrite(t)
  <2>1. PICK i : i = Inode("primary", thread[t].req.path)
    OBVIOUS
  <2>2. /\ thread[t].pc = "open" /\ thread[t].req.op = "write"
        /\ thread'[t] = [thread[t] EXCEPT !.pc = "stream", !.ino = i, !.resp = OkStartStream]
        /\ alone' = (alone \ Holders(i)) \cup (IF Writing(i) = {} THEN {t} ELSE {})
    BY <1>4, <2>1, OthersStay DEF OpenToWrite
  <2>3. thread'[t].ino = i /\ thread'[t].req = thread[t].req
    BY <1>2, <2>2 DEF ThreadRecord
  <2>4. CASE u = t
    <3>1. PICK w \in Writing(i) : TRUE
      BY <2>2, <2>4
    <3>2. w \in Threads \ {t} /\ thread[w].ino = i /\ thread[w].req.op = "write"
      BY <2>2, <3>1 DEF Writing, Holders
    <3> QED BY <1>1, <2>3, <2>4, <3>2 DEF HasRival
  <2>5. CASE u # t /\ u \in Holders(i)
    BY <1>1, <2>2, <2>3, <2>5 DEF HasRival, Holders
  <2>6. CASE u # t /\ u \notin Holders(i)
    <3>1. u \notin alone /\ thread'[u] = thread[u]
      BY <1>1, <2>2, <2>6
    <3>2. Streamer(u) /\ HasRival(u)
      BY <3>1 DEF Contested, Streamer
    <3> QED BY <3>1, <3>2, RivalStays
  <2> QED BY <2>4, <2>5, <2>6
<1>5. CASE ~ (OpenToRead(t) /\ u = t) /\ ~ OpenToWrite(t)
  <2>1. thread'[u].ino = thread[u].ino
    BY <1>1, <1>5, OpenMoves
  <2>2. thread[u].pc # "idle"
    BY <2>1 DEF Streamer, StageOK, None, Folder
  <2>3. thread'[u].req = thread[u].req
    BY <1>1, <2>2, OpenMoves
  <2>4. Streamer(u)
    BY <2>1, <2>3 DEF Streamer
  <2>5. CASE u \notin alone
    BY <2>1, <2>3, <2>4, <2>5, RivalStays DEF Contested
  <2>6. CASE u \in alone
    <3>1. thread[u].pc \in {"stream", "done"}
      BY <2>6 DEF AloneInFile
    <3>2. CASE CreateFile(t)
      <4>1. /\ thread[t].pc = "create" /\ thread[t].req.op = "create"
            /\ Disturb(thread[t].root, thread[t].req.path)
        BY <3>2 DEF CreateFile
      <4>2. thread[t].root = "primary"
            /\ thread[u].ino = Inode("primary", thread[t].req.path)
        BY <2>6, <4>1 DEF Disturb, Holders
      <4>3. thread[t].req.path \in Path
        BY <4>1, AtWorkPath
      <4>4. thread[t].req.path = thread[u].req.path
        BY <2>4, <4>2, <4>3 DEF OpenedHere, Inode
      <4>5. thread[u].req.path \in Seq(STRING)
        BY <4>3, <4>4, StorageAssumption
      <4>6. IsPrefix(thread[t].req.path, thread[u].req.path)
        BY <4>4, <4>5 DEF IsPrefix
      <4>7. t # u /\ thread'[t].req = thread[t].req
        BY <3>1, <4>1, OpenMoves
      <4> QED BY <2>3, <4>1, <4>6, <4>7 DEF HasRival
    <3>3. CASE OpenToDelete(t)
      <4>1. /\ thread[t].pc = "delete" /\ Disturb(thread[t].root, Top(t).path)
        BY <3>3 DEF OpenToDelete, Doing
      <4>2. thread[t].root = "primary" /\ thread[u].ino = Inode("primary", Top(t).path)
        BY <2>6, <4>1 DEF Disturb, Holders
      <4>3. /\ Top(t).path \in Path /\ thread[t].req.op = "delete"
            /\ Top(t) = thread[t].work[1] /\ Len(thread[t].work) \in Nat \ {0}
        BY <4>1, AtWorkPath DEF Top
      <4>4. Top(t).path = thread[u].req.path
        BY <2>4, <4>2, <4>3 DEF OpenedHere, Inode
      <4>5. IsPrefix(thread[t].req.path, thread[u].req.path)
        BY <4>1, <4>3, <4>4 DEF BelowItsPath
      <4>6. t # u /\ thread'[t].req = thread[t].req
        BY <3>1, <4>1, OpenMoves
      <4> QED BY <2>3, <4>3, <4>5, <4>6 DEF HasRival
    <3>4. CASE ~ (CreateFile(t) \/ OpenToDelete(t))
      <4>1. alone \subseteq alone'
        BY <1>5, <3>4 DEF Accept, ServerStep, StreamStep, CreateFolder, CreateFails,
           StatEntry, OpenFolder, ReadEntry, RemoveFolder, LockToDelete, NothingToDelete,
           BackupDeleteLeaks, RemoveFile, CheckExists, LockToOpen, OpenToRead, ReadLeaks,
           WriteLeaks, ReadChunk, EndRead, WriteChunk, EndWrite, histVars
      <4> QED BY <2>6, <4>1
    <3> QED BY <3>2, <3>3, <3>4
  <2> QED BY <2>5, <2>6
<1> QED
  BY <1>3, <1>4, <1>5

-----------------------------------------------------------------------------
(* The whole invariant. *)

(* A step of a thread keeps every part of it. *)
LEMMA StoreStepKeeps ==
    ASSUME StoreInv, NEW t \in Threads, Accept(t) \/ ServerStep(t) \/ StreamStep(t)
    PROVE  StoreInv'
<1>1. IInv /\ IInv'
  BY NextKeeps DEF StoreInv, Next
<1>2. PICK r, q : r = thread[t] /\ q = thread'[t]
  OBVIOUS
<1>3. Moves(t, r, q) /\ \A v \in Threads \ {t} : thread'[v] = thread[v]
  BY <1>1, <1>2, StepMoves
<1>4. /\ WellRooted /\ RivalsRaced /\ Owned /\ MirrorBacked
      /\ BelowItsPath(r) /\ StillThere(t) /\ StageOK(r) /\ SawFile(t)
      /\ \A u \in Threads : /\ BelowItsPath(thread[u]) /\ StillThere(u) /\ StageOK(thread[u])
                            /\ SawFile(u) /\ LeftPrimary(u)
      /\ \A u \in alone : AloneInFile(u)
      /\ Contested /\ \A u \in Threads : OpenedHere(u)
  BY <1>2 DEF StoreInv
<1>5. WellRooted'
  BY <1>1, <1>2, <1>3, <1>4, WellRootedStays
<1>6. RivalsRaced'
  BY <1>1, <1>2, <1>3, <1>4, RivalsRacedStays
<1>7. Owned'
  BY <1>1, <1>2, <1>3, <1>4, OwnedStays
<1>8. MirrorBacked'
  <2>1. CASE Drifted
    BY <1>1, <1>2, <1>3, <1>4, <2>1, DriftedStays DEF MirrorBacked
  <2>2. CASE Drifted'
    BY <2>2 DEF MirrorBacked
  <2>3. CASE ~ Drifted /\ ~ Drifted'
    <3>1. /\ \A p \in Path : Shape("primary", p) = Shape("backup", p) \/ Pending(p)
          /\ \A u \in Threads : PrimaryDone(u)
      BY <1>4, <2>3 DEF MirrorBacked
    <3>2. ASSUME NEW p \in Path
          PROVE  (Shape("primary", p) = Shape("backup", p) \/ Pending(p))'
      BY <1>1, <1>2, <1>3, <1>4, <2>3, <3>1, MirrorStays
    <3>3. ASSUME NEW u \in Threads
          PROVE  PrimaryDone(u)'
      BY <1>1, <1>2, <1>3, <1>4, <2>3, <3>1, PrimaryDoneStays
    <3>4. QED
      BY <3>2, <3>3 DEF MirrorBacked
  <2>4. QED
    BY <2>1, <2>2, <2>3
<1>9. ASSUME NEW u \in Threads
      PROVE  BelowItsPath(thread'[u]) /\ StageOK(thread'[u])
  <2>1. BelowItsPath(q) /\ StageOK(q)
    BY <1>1, <1>2, <1>3, <1>4, BelowItsPathStays, StageStays
  <2>2. QED
    BY <1>2, <1>3, <1>4, <2>1
<1>10. ASSUME NEW u \in Threads
       PROVE  StillThere(u)'
  BY <1>1, <1>2, <1>3, <1>4, StillThereStays
<1>11. ASSUME NEW u \in Threads
       PROVE  SawFile(u)'
  BY <1>1, <1>2, <1>3, <1>4, SawFileStays
<1>12. ASSUME NEW u \in Threads
       PROVE  LeftPrimary(u)'
  BY <1>1, <1>2, <1>3, <1>4, LeftPrimaryStays
<1>13. ASSUME NEW u \in alone'
       PROVE  AloneInFile(u)'
  BY <1>1, <1>2, <1>4, AloneStays
<1>14. Contested'
  BY <1>1, <1>4, ContestedStays
<1>15. ASSUME NEW u \in Threads
       PROVE  OpenedHere(u)'
  BY <1>1, <1>4, OpenedHereStays
<1>16. QED
  BY <1>1, <1>5, <1>6, <1>7, <1>8, <1>9, <1>10, <1>11, <1>12, <1>13, <1>14, <1>15
     DEF StoreInv, BelowItsPath, StageOK

(* The server starts in a state of it. *)
LEMMA InitStoreInv == Init => StoreInv
<1> SUFFICES ASSUME Init PROVE StoreInv
  OBVIOUS
<1>1. IInv
  BY InitIInv
<1>2. PICK T \in Trees : tree = [r \in Roots |-> T]
  BY DEF Init
<1>3. \A r \in Roots : tree[r] = T
  BY <1>2
<1>4. WellRooted
  BY <1>3, TreesAssumption DEF WellRooted, Exists, HasParent
<1>5. \A p \in Path : Shape("primary", p) = Shape("backup", p)
  BY <1>3 DEF Shape, Roots
<1>6. ASSUME NEW t \in Threads
      PROVE  /\ thread[t] = IdleThread /\ thread[t].pc = "idle" /\ thread[t].root = "primary"
             /\ thread[t].req.op = "none" /\ thread[t].resp = NoAnswer
             /\ thread[t].ino = None /\ thread[t].pos = 0 /\ thread[t].got = <<>>
  BY DEF Init, IdleThread, NoRequest
<1>7. ASSUME NEW t \in Threads
      PROVE  /\ BelowItsPath(thread[t]) /\ StillThere(t) /\ StageOK(thread[t])
             /\ SawFile(t) /\ LeftPrimary(t) /\ PrimaryDone(t)
  <2>1. BelowItsPath(thread[t]) /\ StageOK(thread[t])
    BY <1>6 DEF BelowItsPath, StageOK
  <2>2. StillThere(t) /\ SawFile(t)
    BY <1>6 DEF StillThere, SawFile, Doing
  <2>3. LeftPrimary(t) /\ PrimaryDone(t)
    BY <1>6 DEF LeftPrimary, PrimaryDone
  <2>4. QED
    BY <2>1, <2>2, <2>3
<1>8. RivalsRaced /\ Owned /\ alone = {}
  BY <1>6 DEF RivalsRaced, Active, Owned, Init
<1>9. MirrorBacked
  BY <1>5, <1>7 DEF MirrorBacked
<1>10. Contested /\ \A t \in Threads : OpenedHere(t)
  BY <1>6 DEF Contested, OpenedHere, Streamer
<1>11. QED
  BY <1>1, <1>4, <1>7, <1>8, <1>9, <1>10 DEF StoreInv

(* A stuttering step keeps it, too. *)
LEMMA StoreStutters ==
    ASSUME StoreInv, UNCHANGED vars
    PROVE  StoreInv'
<1>1. IInv'
  BY NextKeeps DEF StoreInv
<1>2. UNCHANGED << tree, data, master, thread, raced, alone, made >>
  BY DEF vars, fsVars, histVars
<1>3. WellRooted' /\ RivalsRaced' /\ Owned'
  BY <1>2 DEF StoreInv, WellRooted, Exists, HasParent, RivalsRaced, Active, Owned, Holds, Doing,
     Top, MayLeak
<1>4. MirrorBacked'
  BY <1>2, ZenonT(40) DEF StoreInv, MirrorBacked, Drifted, Shape, Pending, Active, PrimaryDone, Exists
<1>5. \A t \in Threads : /\ BelowItsPath(thread[t])' /\ StillThere(t)' /\ StageOK(thread[t])'
  BY <1>2 DEF StoreInv, BelowItsPath, StillThere, StageOK, Doing, Top, Exists
<1>6. \A t \in Threads : SawFile(t)' /\ LeftPrimary(t)'
  BY <1>2 DEF StoreInv, SawFile, LeftPrimary, LeftOver, BeingRemoved, Exists, Doing, Top
<1>7. \A t \in alone' : AloneInFile(t)'
  BY <1>2 DEF StoreInv, AloneInFile, Writing, Holders
<1>8. Contested' /\ \A t \in Threads : OpenedHere(t)'
  BY <1>2 DEF StoreInv, Contested, OpenedHere, Streamer, HasRival
<1>9. QED
  BY <1>1, <1>3, <1>4, <1>5, <1>6, <1>7, <1>8 DEF StoreInv

(* The whole invariant holds in every reachable state: the trees are well  *)
(* rooted, the master lock is held only from an acquire to an open or by a *)
(* thread that has lost it, a delete that has left a tree has emptied it,  *)
(* and the backup tree lags by the requests at work only (nm_handler.c,    *)
(* delete.c, client_handler.c).                                            *)
THEOREM StoreInductive == Spec => []StoreInv
<1>1. Init => StoreInv
  BY InitStoreInv
<1>2. StoreInv /\ [Next]_vars => StoreInv'
  BY StoreStepKeeps, StoreStutters DEF Next
<1>3. QED
  BY <1>1, <1>2, PTL DEF Spec

(* The master lock is lost for good only by a WRITE that cannot open its   *)
(* path, or by a READ or a DELETE that a related delete has run along with *)
(* (client_handler.c, delete.c).                                           *)
THEOREM LeakAlwaysNeedsRace == Spec => []LeakNeedsRace
<1>1. StoreInv => LeakNeedsRace
  <2> SUFFICES ASSUME StoreInv, Leaked PROVE MayLeak(master)
    BY DEF LeakNeedsRace
  <2>1. master \in Threads /\ thread[master].pc = "done"
    BY DEF Leaked, StoreInv, IInv, TypeOK
  <2>2. ~ Holds(master)
    BY <2>1 DEF Holds, Doing
  <2>3. QED
    BY <2>2 DEF Leaked, StoreInv, Owned
<1>2. QED
  BY <1>1, StoreInductive, PTL

(* What a DELETE that was answered OK has deleted is gone from the primary *)
(* tree, but for what was made since it began and what another delete has  *)
(* opened and is about to remove (delete.c).                               *)
THEOREM DeletedStaysGone == Spec => []DeletedIsGone
<1>1. StoreInv => DeletedIsGone
  <2> SUFFICES ASSUME StoreInv, NEW t \in Threads, thread[t].pc = "done",
                      thread[t].req.op = "delete", thread[t].resp = OK,
                      NEW p \in Path \ made[t], IsPrefix(thread[t].req.path, p),
                      Exists("primary", p)
               PROVE  \E u \in Threads : Doing(u, "remove") /\ Top(u).path = p
    BY DEF DeletedIsGone
  <2>1. LeftOver(t, p)
    BY DEF StoreInv, LeftPrimary
  <2>2. QED
    BY <2>1 DEF LeftOver, BeingRemoved
<1>2. QED
  BY <1>1, StoreInductive, PTL

(* A WRITE that has its file to itself finds in it all it has written and  *)
(* nothing else, a READ of such a file sends it whole and in order, and    *)
(* every stream that has not its file to itself has a rival: a WRITE of    *)
(* the same file or a CREATE or DELETE of its path (client_handler.c).     *)
THEOREM AlwaysUndisturbed == Spec => []Undisturbed
<1>1. StoreInv => Undisturbed
  BY DEF StoreInv, Undisturbed, AloneInFile
<1>2. QED
  BY <1>1, StoreInductive, PTL

(* The backup tree has the shape of the primary tree whenever the server   *)
(* is at rest, as long as only the naming server has changed anything,     *)
(* every change was answered OK and no delete met a related request        *)
(* (nm_handler.c, create.c, delete.c).                                     *)
THEOREM MirrorAlwaysKept == Spec => []MirrorKept
<1>1. StoreInv => MirrorKept
  <2> SUFFICES ASSUME StoreInv,
                      \A t \in Threads :
                        /\ ~ Active(t) /\ t \notin raced
                        /\ thread[t].req.port = "nm" => thread[t].resp = OK
                        /\ thread[t].req.port = "client" => thread[t].req.op = "read",
                      NEW p \in Path
               PROVE  Shape("primary", p) = Shape("backup", p)
    BY DEF MirrorKept
  <2>1. ~ Drifted
    BY DEF Drifted
  <2>2. ~ Pending(p)
    BY DEF Pending, Active
  <2>3. QED
    BY <2>1, <2>2 DEF StoreInv, MirrorBacked
<1>2. QED
  BY <1>1, StoreInductive, PTL
=============================================================================
