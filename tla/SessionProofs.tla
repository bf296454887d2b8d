---------------------------- MODULE SessionProofs ----------------------------
(***************************************************************************)
(* Proofs about ClientSession, for any commands, bounds and chunk size:    *)
(* the two directions of the connection keep the invariant of Framing      *)
(* whatever client and handler do, and the client talks to the socket that *)
(* it has connected.                                                       *)
(*                                                                         *)
(* The second half writes down what the programs rely on: the script that  *)
(* each of the two keeps to, what it knows of the other, and SessionInv,   *)
(* the conjunction of all that, with the steps that keep the scripts.      *)
(* AgreementProofs shows that the rest of SessionInv is kept, too.         *)
(***************************************************************************)
EXTENDS ClientSession, WellFoundedInduction, SequenceTheorems, TLAPS

(* The proofs about Framing, for either direction.                         *)
UpProofs == INSTANCE FramingProofs
    WITH ch <- up, Items <- Traffic, MaxItems <- MaxChunks + 4
DownProofs == INSTANCE FramingProofs
    WITH ch <- down, Items <- Traffic, MaxItems <- MaxChunks + 4

-----------------------------------------------------------------------------
(* What is sent is well formed. *)

(* A message built from a type and a payload that its length field can     *)
(* measure is well formed.                                                 *)
LEMMA MessageWellFormed ==
    ASSUME NEW type \in Byte, NEW payload \in Seq(Byte), Len(payload) < 256 * 256
    PROVE  WellFormed(Message(type, payload))
<1> DEFINE n == Len(payload)
<1>1. n \in Nat
  OBVIOUS
<1>2. PICK lo \in Byte, hi \in Byte :
         lo = n % 256 /\ hi = n \div 256 /\ n = lo + 256 * hi
  <2> HIDE DEF n
  <2>1. \A x \in Nat : x < 256 * 256 => x \div 256 \in 0 .. 255
    OBVIOUS
  <2>2. \A x \in Nat : x % 256 \in 0 .. 255 /\ x = (x % 256) + 256 * (x \div 256)
    OBVIOUS
  <2>3. n < 256 * 256
    BY DEF n
  <2>4. n \div 256 \in Byte
    BY <1>1, <2>1, <2>3, Zenon DEF Byte
  <2>5. n % 256 \in Byte /\ n = (n % 256) + 256 * (n \div 256)
    BY <1>1, <2>2, ZenonT(60) DEF Byte
  <2>6. QED
    BY <2>4, <2>5, ZenonT(60)
<1> DEFINE h == << type, lo, hi >>
           c == h \o payload
<1> HIDE DEF n
<1>3. h \in Seq(Byte) /\ Len(h) = 3 /\ h[2] = lo /\ h[3] = hi
  OBVIOUS
<1>4. Message(type, payload) = [kind |-> "message", bytes |-> c]
  BY <1>2 DEF Message, n
<1> HIDE DEF h
<1>5. /\ c \in Seq(Byte) /\ Len(c) = Len(h) + Len(payload)
      /\ \A k \in 1 .. Len(h) + Len(payload) :
            c[k] = IF k <= Len(h) THEN h[k] ELSE payload[k - Len(h)]
  BY <1>3, ConcatProperties
<1> HIDE DEF c
<1>6. c[2] = lo /\ c[3] = hi /\ Len(c) = 3 + (lo + 256 * hi)
  <2>1. Len(c) = 3 + n /\ c[2] = h[2] /\ c[3] = h[3]
    BY <1>3, <1>5 DEF n
  <2>2. QED
    BY <1>2, <1>3, <2>1
<1>7. Len(c) >= 3
  BY <1>6 DEF Byte
<1>8. QED
  BY <1>4, <1>5, <1>6, <1>7 DEF WellFormed, ItemRecord, HEADER, SizeOf

LEMMA BareWellFormed ==
    ASSUME NEW bytes \in Seq(Byte), Len(bytes) > 0
    PROVE  WellFormed(Bare(bytes))
BY DEF WellFormed, ItemRecord, Bare

LEMMA TrafficWellFormed == \A i \in Traffic : WellFormed(i)
<1>1. {0, 1, 2, 8, 48, 49, 50, 65, 66, 70, 71, 72} \subseteq Byte
  BY DEF Byte
<1>2. ASSUME NEW a \in Byte
      PROVE  WellFormed(Bare(<< a >>))
  <2> DEFINE p == << a >>
  <2>1. p \in Seq(Byte) /\ Len(p) > 0
    OBVIOUS
  <2> HIDE DEF p
  <2>2. WellFormed(Bare(p))
    BY <2>1, BareWellFormed
  <2>3. QED
    BY <2>2 DEF p
<1>3. ASSUME NEW a \in Byte, NEW b \in Byte
      PROVE  WellFormed(Bare(<< a, b >>))
  <2> DEFINE p == << a, b >>
  <2>1. p \in Seq(Byte) /\ Len(p) > 0
    OBVIOUS
  <2> HIDE DEF p
  <2>2. WellFormed(Bare(p))
    BY <2>1, BareWellFormed
  <2>3. QED
    BY <2>2 DEF p
<1>4. ASSUME NEW a \in Byte, NEW b \in Byte, NEW c \in Byte
      PROVE  WellFormed(Bare(<< a, b, c >>))
  <2> DEFINE p == << a, b, c >>
  <2>1. p \in Seq(Byte) /\ Len(p) > 0
    OBVIOUS
  <2> HIDE DEF p
  <2>2. WellFormed(Bare(p))
    BY <2>1, BareWellFormed
  <2>3. QED
    BY <2>2 DEF p
<1>5. ASSUME NEW t \in Byte, NEW a \in Byte
      PROVE  WellFormed(Message(t, << a >>))
  <2> DEFINE p == << a >>
  <2>1. p \in Seq(Byte) /\ Len(p) < 256 * 256
    OBVIOUS
  <2> HIDE DEF p
  <2>2. WellFormed(Message(t, p))
    BY <2>1, MessageWellFormed
  <2>3. QED
    BY <2>2 DEF p
<1>6. ASSUME NEW t \in Byte, NEW a \in Byte, NEW b \in Byte
      PROVE  WellFormed(Message(t, << a, b >>))
  <2> DEFINE p == << a, b >>
  <2>1. p \in Seq(Byte) /\ Len(p) < 256 * 256
    OBVIOUS
  <2> HIDE DEF p
  <2>2. WellFormed(Message(t, p))
    BY <2>1, MessageWellFormed
  <2>3. QED
    BY <2>2 DEF p
<1>7. ASSUME NEW op \in Ops PROVE WellFormed(Request(op))
  <2>1. Opcode[op] \in Byte
    BY DEF Ops, Opcode, Byte
  <2>2. QED
    BY <1>1, <1>6, <2>1 DEF Request, MESSAGE_TYPE_REQUEST
<1>8. ASSUME NEW code \in Codes PROVE WellFormed(Response(code))
  <2>1. code \in Byte
    BY DEF Codes, Byte, NOT_FOUND, INTERNAL_ERROR, INVALID_REQUEST, INVALID_REQUEST_CONTENT,
           ALREADY_EXISTS, OK, REDIRECT, OK_START_STREAM
  <2>2. QED
    BY <1>2, <2>1 DEF Response
<1>9. WellFormed(Address) /\ WellFormed(Stat) /\ WellFormed(Rows)
  BY <1>1, <1>3, <1>4 DEF Address, Stat, Rows
<1>10. WellFormed(Stream(Line)) /\ WellFormed(StreamEnd)
  BY <1>1, <1>5, <1>6
     DEF Stream, StreamEnd, Line, MESSAGE_TYPE_STREAM, MESSAGE_TYPE_STREAM_END
<1>11. ASSUME NEW chunk \in Chunks
       PROVE  WellFormed(Stream(chunk))
  BY <1>1, <1>5, <1>6 DEF Stream, Chunks, MESSAGE_TYPE_STREAM
<1>12. QED
  BY <1>7, <1>8, <1>9, <1>10, <1>11 DEF Traffic

LEMMA InTraffic ==
    /\ \A op \in Ops : Request(op) \in Traffic
    /\ \A code \in Codes : Response(code) \in Traffic
    /\ Address \in Traffic /\ Stat \in Traffic /\ Rows \in Traffic
    /\ Stream(Line) \in Traffic /\ StreamEnd \in Traffic
    /\ \A chunk \in Chunks : Stream(chunk) \in Traffic
BY DEF Traffic

-----------------------------------------------------------------------------
(* What the processes do to the direction from the client to the server. *)
UpMoves ==
    \/ UNCHANGED up \/ Up!Send \/ Up!Close \/ Up!Recv \/ Up!Reopen
    \/ \E i \in Traffic : Up!Start(i)
    \/ Up!AskMessage

LEMMA UpFramingHolds == UpProofs!FramingAssumption
<1>1. \A i : UpProofs!WellFormed(i) <=> WellFormed(i)
  BY DEF UpProofs!WellFormed, WellFormed, UpProofs!ItemRecord, ItemRecord, UpProofs!Byte, Byte,
         UpProofs!HEADER, HEADER, UpProofs!SizeOf, SizeOf
<1>2. QED
  BY <1>1, TrafficWellFormed, SessionAssumption DEF UpProofs!FramingAssumption

(* The operators of the two instances are the same. *)
LEMMA UpSends == Up!Send => UpProofs!Send
BY DEF Up!Send, UpProofs!Send, Up!Sending, UpProofs!Sending,
       Up!Put, UpProofs!Put, Up!Field, UpProofs!Field,
       Up!AtMost, UpProofs!AtMost, Up!Count, UpProofs!Count,
       Up!HEADER, UpProofs!HEADER

LEMMA UpStarts == \A i : Up!Start(i) => UpProofs!Start(i)
BY DEF Up!Start, UpProofs!Start, Up!Sending, UpProofs!Sending,
       Up!Put, UpProofs!Put, Up!Count, UpProofs!Count

LEMMA UpAsks == \A pc, n : Up!Ask(pc, n) => UpProofs!Ask(pc, n)
BY DEF Up!Ask, UpProofs!Ask

LEMMA UpClosesAndReopens == (Up!Close => UpProofs!Close) /\ (Up!Reopen => UpProofs!Reopen)
BY DEF Up!Close, UpProofs!Close, Up!Reopen, UpProofs!Reopen, Up!New, UpProofs!New

LEMMA UpReceives == Up!Recv => UpProofs!Recv
BY DEF Up!Recv, UpProofs!Recv, Up!RecvBare, UpProofs!RecvBare,
       Up!RecvType, UpProofs!RecvType, Up!RecvSize, UpProofs!RecvSize,
       Up!RecvData, UpProofs!RecvData, Up!RecvEof, UpProofs!RecvEof,
       Up!Ended, UpProofs!Ended, Up!Taken, UpProofs!Taken, Up!Receive, UpProofs!Receive, Up!Arrived, UpProofs!Arrived,
       Up!Bytes, UpProofs!Bytes, Up!Mixed, UpProofs!Mixed, Up!Short, UpProofs!Short, Up!Agrees, UpProofs!Agrees,
       Up!AtMost, UpProofs!AtMost, Up!Bare, UpProofs!Bare, Up!HEADER, UpProofs!HEADER, Up!SizeOf, UpProofs!SizeOf

LEMMA UpKeeps ==
    ASSUME UpProofs!IInv, UpMoves
    PROVE  UpProofs!IInv'
<1>1. CASE UNCHANGED up
  BY <1>1, UpFramingHolds, UpProofs!StutterPreserves
<1>2. CASE Up!Send
  BY <1>2, UpSends, UpFramingHolds, UpProofs!SendPreserves
<1>3. CASE Up!Close
  BY <1>3, UpClosesAndReopens, UpFramingHolds, UpProofs!ClosePreserves
<1>4. CASE Up!Reopen
  BY <1>4, UpClosesAndReopens, UpFramingHolds, UpProofs!ReopenPreserves
<1>5. CASE Up!Recv
  <2>1. UpProofs!Recv
    BY <1>5, UpReceives
  <2>2. QED
    BY <2>1, UpFramingHolds, UpProofs!RecvBarePreserves, UpProofs!RecvTypePreserves,
       UpProofs!RecvSizePreserves, UpProofs!RecvDataPreserves, UpProofs!RecvEofPreserves
       DEF UpProofs!Recv
<1>6. ASSUME NEW i \in Traffic, Up!Start(i)
      PROVE  UpProofs!IInv'
  <2>1. UpProofs!Start(i) /\ UpProofs!WellFormed(i)
    BY <1>6, UpStarts, UpFramingHolds DEF UpProofs!FramingAssumption
  <2>2. QED
    BY <2>1, UpFramingHolds, UpProofs!StartPreserves
<1>7. ASSUME NEW pc \in {"bare", "type"}, NEW n \in Nat, Up!Ask(pc, n)
      PROVE  UpProofs!IInv'
  <2>1. UpProofs!Ask(pc, n)
    BY <1>7, UpAsks
  <2>2. QED
    BY <2>1, UpFramingHolds, UpProofs!AskPreserves
<1>8. CASE Up!AskMessage
  BY <1>7, <1>8 DEF Up!AskMessage
<1>9. ASSUME NEW n \in Nat, Up!AskBare(n)
      PROVE  UpProofs!IInv'
  BY <1>7, <1>9 DEF Up!AskBare
<1>10. QED
  BY <1>1, <1>2, <1>3, <1>4, <1>5, <1>6, <1>8, <1>9 DEF UpMoves

LEMMA UpHolds ==
    ASSUME UpProofs!IInv
    PROVE  Up!ReceivedAsSent /\ Up!SpinsOnCutItems
<1>1. UpProofs!ReceivedAsSent /\ UpProofs!SpinsOnCutItems
  BY UpFramingHolds, UpProofs!WaitsWithinItem DEF UpProofs!IInv
<1>2. UpProofs!ReceivedAsSent => Up!ReceivedAsSent
  BY DEF Up!ReceivedAsSent, UpProofs!ReceivedAsSent
<1>3. UpProofs!SpinsOnCutItems => Up!SpinsOnCutItems
  BY DEF Up!SpinsOnCutItems, UpProofs!SpinsOnCutItems, Up!Spins, UpProofs!Spins,
         Up!Ended, UpProofs!Ended, Up!Sending, UpProofs!Sending, Up!Put, UpProofs!Put, Up!Count, UpProofs!Count
<1>4. QED
  BY <1>1, <1>2, <1>3

-----------------------------------------------------------------------------
(* What they do to the direction from the server to the client. *)
DownMoves ==
    \/ UNCHANGED down \/ Down!Send \/ Down!Close \/ Down!Recv \/ Down!Reopen
    \/ \E i \in Traffic : Down!Start(i)
    \/ Down!AskMessage \/ \E n \in Nat : Down!AskBare(n)

LEMMA DownFramingHolds == DownProofs!FramingAssumption
<1>1. \A i : DownProofs!WellFormed(i) <=> WellFormed(i)
  BY DEF DownProofs!WellFormed, WellFormed, DownProofs!ItemRecord, ItemRecord, DownProofs!Byte, Byte,
         DownProofs!HEADER, HEADER, DownProofs!SizeOf, SizeOf
<1>2. QED
  BY <1>1, TrafficWellFormed, SessionAssumption DEF DownProofs!FramingAssumption

(* The operators of the two instances are the same. *)
LEMMA DownSends == Down!Send => DownProofs!Send
BY DEF Down!Send, DownProofs!Send, Down!Sending, DownProofs!Sending,
       Down!Put, DownProofs!Put, Down!Field, DownProofs!Field,
       Down!AtMost, DownProofs!AtMost, Down!Count, DownProofs!Count,
       Down!HEADER, DownProofs!HEADER

LEMMA DownStarts == \A i : Down!Start(i) => DownProofs!Start(i)
BY DEF Down!Start, DownProofs!Start, Down!Sending, DownProofs!Sending,
       Down!Put, DownProofs!Put, Down!Count, DownProofs!Count

LEMMA DownAsks == \A pc, n : Down!Ask(pc, n) => DownProofs!Ask(pc, n)
BY DEF Down!Ask, DownProofs!Ask

LEMMA DownClosesAndReopens == (Down!Close => DownProofs!Close) /\ (Down!Reopen => DownProofs!Reopen)
BY DEF Down!Close, DownProofs!Close, Down!Reopen, DownProofs!Reopen, Down!New, DownProofs!New

LEMMA DownReceives == Down!Recv => DownProofs!Recv
BY DEF Down!Recv, DownProofs!Recv, Down!RecvBare, DownProofs!RecvBare,
       Down!RecvType, DownProofs!RecvType, Down!RecvSize, DownProofs!RecvSize,
       Down!RecvData, DownProofs!RecvData, Down!RecvEof, DownProofs!RecvEof,
       Down!Ended, DownProofs!Ended, Down!Taken, DownProofs!Taken, Down!Receive, DownProofs!Receive, Down!Arrived, DownProofs!Arrived,
       Down!Bytes, DownProofs!Bytes, Down!Mixed, DownProofs!Mixed, Down!Short, DownProofs!Short, Down!Agrees, DownProofs!Agrees,
       Down!AtMost, DownProofs!AtMost, Down!Bare, DownProofs!Bare, Down!HEADER, DownProofs!HEADER, Down!SizeOf, DownProofs!SizeOf

LEMMA DownKeeps ==
    ASSUME DownProofs!IInv, DownMoves
    PROVE  DownProofs!IInv'
<1>1. CASE UNCHANGED down
  BY <1>1, DownFramingHolds, DownProofs!StutterPreserves
<1>2. CASE Down!Send
  BY <1>2, DownSends, DownFramingHolds, DownProofs!SendPreserves
<1>3. CASE Down!Close
  BY <1>3, DownClosesAndReopens, DownFramingHolds, DownProofs!ClosePreserves
<1>4. CASE Down!Reopen
  BY <1>4, DownClosesAndReopens, DownFramingHolds, DownProofs!ReopenPreserves
<1>5. CASE Down!Recv
  <2>1. DownProofs!Recv
    BY <1>5, DownReceives
  <2>2. QED
    BY <2>1, DownFramingHolds, DownProofs!RecvBarePreserves, DownProofs!RecvTypePreserves,
       DownProofs!RecvSizePreserves, DownProofs!RecvDataPreserves, DownProofs!RecvEofPreserves
       DEF DownProofs!Recv
<1>6. ASSUME NEW i \in Traffic, Down!Start(i)
      PROVE  DownProofs!IInv'
  <2>1. DownProofs!Start(i) /\ DownProofs!WellFormed(i)
    BY <1>6, DownStarts, DownFramingHolds DEF DownProofs!FramingAssumption
  <2>2. QED
    BY <2>1, DownFramingHolds, DownProofs!StartPreserves
<1>7. ASSUME NEW pc \in {"bare", "type"}, NEW n \in Nat, Down!Ask(pc, n)
      PROVE  DownProofs!IInv'
  <2>1. DownProofs!Ask(pc, n)
    BY <1>7, DownAsks
  <2>2. QED
    BY <2>1, DownFramingHolds, DownProofs!AskPreserves
<1>8. CASE Down!AskMessage
  BY <1>7, <1>8 DEF Down!AskMessage
<1>9. ASSUME NEW n \in Nat, Down!AskBare(n)
      PROVE  DownProofs!IInv'
  BY <1>7, <1>9 DEF Down!AskBare
<1>10. QED
  BY <1>1, <1>2, <1>3, <1>4, <1>5, <1>6, <1>8, <1>9 DEF DownMoves

LEMMA DownHolds ==
    ASSUME DownProofs!IInv
    PROVE  Down!ReceivedAsSent /\ Down!SpinsOnCutItems
<1>1. DownProofs!ReceivedAsSent /\ DownProofs!SpinsOnCutItems
  BY DownFramingHolds, DownProofs!WaitsWithinItem DEF DownProofs!IInv
<1>2. DownProofs!ReceivedAsSent => Down!ReceivedAsSent
  BY DEF Down!ReceivedAsSent, DownProofs!ReceivedAsSent
<1>3. DownProofs!SpinsOnCutItems => Down!SpinsOnCutItems
  BY DEF Down!SpinsOnCutItems, DownProofs!SpinsOnCutItems, Down!Spins, DownProofs!Spins,
         Down!Ended, DownProofs!Ended, Down!Sending, DownProofs!Sending, Down!Put, DownProofs!Put, Down!Count, DownProofs!Count
<1>4. QED
  BY <1>1, <1>2, <1>3

-----------------------------------------------------------------------------
(* What else the steps rely on. *)

(* The records have the fields that matter. *)
FieldsOK ==
    /\ {"pc", "cmd", "peer", "connection_socket", "ss_connection"} \subseteq DOMAIN client
    /\ {"pc", "response"} \subseteq DOMAIN server

(* A client at work has a command of the user's, and a handler that writes *)
(* has a response to give.                                                 *)
CommandKnown == Busy => client.cmd \in Commands
ResponseKept == server.pc \in {"write", "written"} => server.response \in {OK, OK_START_STREAM}

(* The socket of a client at work has the lowest number that was free, and *)
(* it is the only one that the client uses.                                *)
LowestSocket ==
    Busy =>
        /\ client.connection_socket \in (1 .. MaxFd) \cap fds
        /\ 1 .. client.connection_socket - 1 \subseteq fds
        /\ client.peer = "ss" => client.ss_connection = client.connection_socket

ProcessesOK == FieldsOK /\ CommandKnown /\ ResponseKept /\ LowestSocket

(* A set of descriptors that is not empty has a least one. *)
LEMMA LeastExists ==
    ASSUME NEW T \in SUBSET Nat, T # {}
    PROVE  Min(T) \in T /\ \A y \in T : Min(T) <= y
<1>1. PICK x \in T : \A y \in T : << y, x >> \notin OpToRel(<, Nat)
  BY WFMin, NatLessThanWellFounded, Zenon
<1>2. \A y \in T : ~ (y < x)
  BY <1>1, Zenon DEF OpToRel
<1>3. \A y \in T : x <= y
  BY <1>2
<1>4. QED
  BY <1>3, Zenon DEF Min

(* socket() gives the lowest free number: all lower ones are open. *)
LEMMA LowestFree ==
    ASSUME NEW open, Free(open) # {}
    PROVE  /\ Min(Free(open)) \in (1 .. MaxFd) \ open
           /\ 1 .. Min(Free(open)) - 1 \subseteq open
<1>1. Free(open) \in SUBSET Nat
  BY DEF Free
<1> PICK s \in Free(open) : s = Min(Free(open)) /\ \A y \in Free(open) : s <= y
  BY <1>1, LeastExists
<1>2. s \in 1 .. MaxFd /\ s \notin open /\ MaxFd \in Nat
  BY SessionAssumption DEF Free
<1>3. ASSUME NEW k \in 1 .. s - 1, k \notin open PROVE FALSE
  BY <1>2, <1>3 DEF Free
<1>4. QED
  BY <1>2, <1>3

(* The steps of the client that leave it at work with the socket it has.   *)
ClientGoesOn ==
    /\ Busy /\ Busy' /\ FieldsOK'
    /\ client'.cmd = client.cmd /\ client'.peer = client.peer
    /\ client'.connection_socket = client.connection_socket
    /\ client'.ss_connection = client.ss_connection
    /\ fds' = fds
ClientStops == FieldsOK' /\ ~ Busy'
ClientStays == FieldsOK' /\ UNCHANGED << client, fds >>

LEMMA ClientSteps ==
    ASSUME FieldsOK, ClientStep
    PROVE  ClientGoesOn \/ ClientStops \/ ClientStays \/ Follow
<1>1. CASE SendRequest \/ AwaitAnswer \/ Redirected \/ SendEnd \/ AwaitFinal \/ AwaitResponse
  BY <1>1 DEF FieldsOK, SendRequest, AwaitAnswer, Redirected, SendEnd, AwaitFinal,
              AwaitResponse, ClientAt, Go, Busy, ClientGoesOn
<1>2. CASE Answered \/ ReadBreaksOff \/ Written \/ ShowRows \/ ShowEof
  BY <1>2 DEF FieldsOK, Answered, ReadBreaksOff, Written, ShowRows, ShowEof, Return,
              CloseAndReturn, Busy, ClientStops
<1>3. CASE ShowInfo
  BY <1>3 DEF FieldsOK, ShowInfo, CloseAndReturn, Leave, Busy, ClientStops
<1>4. CASE AnsweredBySs
  BY <1>4 DEF FieldsOK, AnsweredBySs, ClientAt, Go, Return, CloseAndReturn, Busy,
              ClientGoesOn, ClientStops
<1>5. CASE ShowChunk
  BY <1>5 DEF FieldsOK, ShowChunk, ClientAt, Busy, ClientGoesOn
<1>6. CASE ClientSend
  BY <1>6 DEF FieldsOK, ClientSend, Busy, ClientGoesOn
<1>7. CASE ClientRecv
  BY <1>7 DEF ClientRecv, ClientStays, FieldsOK
<1>8. QED
  BY <1>1, <1>2, <1>3, <1>4, <1>5, <1>6, <1>7 DEF ClientStep

(* What keeps the client's part of the invariant. *)
LEMMA GoesOnKeeps ==
    ASSUME CommandKnown, LowestSocket, ClientGoesOn \/ ClientStops \/ ClientStays
    PROVE  CommandKnown' /\ LowestSocket'
BY DEF CommandKnown, LowestSocket, ClientGoesOn, ClientStops, ClientStays, Busy

(* After close(connection_socket) the next socket has the same number.     *)
LEMMA FollowKeeps ==
    ASSUME FieldsOK, CommandKnown, LowestSocket, Follow
    PROVE  FieldsOK' /\ CommandKnown' /\ LowestSocket'
<1> DEFINE open == fds \ {client.connection_socket}
           s == Min(Free(open))
<1>1. Busy /\ client.pc = "address"
  BY DEF Follow, ClientAt, Busy
<1> PICK n \in 1 .. MaxFd : n = client.connection_socket
  BY <1>1 DEF LowestSocket
<1>2. n \in fds /\ 1 .. n - 1 \subseteq fds
  BY <1>1 DEF LowestSocket
<1>3. n \in Free(open) /\ \A k \in Free(open) : n <= k
  BY <1>2 DEF Free
<1>4. \A m \in Free(open) : (\A k \in Free(open) : m <= k) => m = n
  BY <1>3 DEF Free
<1>5. s \in Free(open) /\ \A k \in Free(open) : s <= k
  BY <1>3, Zenon DEF Min
<1>6. s = n
  BY <1>4, <1>5
<1>7. /\ fds' = open \cup {s}
      /\ \/ /\ client' = [client EXCEPT !.pc = "connected", !.peer = "ss",
                                          !.ss_connection = s, !.late = FALSE]
            /\ Connect("ss")
         \/ /\ client' = [client EXCEPT !.pc = "prompt", !.left = @ + 1]
            /\ UNCHANGED server
  BY Zenon DEF Follow
<1> HIDE DEF s, open
<1>8. FieldsOK'
  BY <1>7 DEF FieldsOK, Connect, Handler
<1>9. fds' = fds
  BY <1>2, <1>6, <1>7 DEF open
<1>10. CommandKnown' /\ LowestSocket'
  BY <1>1, <1>2, <1>6, <1>7, <1>9 DEF FieldsOK, CommandKnown, LowestSocket, Busy
<1>11. QED
  BY <1>8, <1>10

LEMMA CommandKeeps ==
    ASSUME FieldsOK, CommandKnown, LowestSocket, NEW cmd \in Commands, Command(cmd)
    PROVE  FieldsOK' /\ CommandKnown' /\ LowestSocket'
<1> DEFINE s == Min(Free(fds))
<1>1. CASE client'.pc = "prompt" /\ FieldsOK'
  BY <1>1 DEF CommandKnown, LowestSocket, Busy
<1>2. CASE /\ Free(fds) # {} /\ fds' = fds \cup {s} /\ Connect("nm")
           /\ client' = [IdleClient EXCEPT
                 !.pc = "connected", !.cmd = cmd, !.count = client.count + 1,
                 !.left = client.left, !.connection_socket = s]
  <2>1. s \in (1 .. MaxFd) \ fds /\ 1 .. s - 1 \subseteq fds
    BY <1>2, LowestFree
  <2> HIDE DEF s
  <2>2. /\ client'.pc = "connected" /\ client'.cmd = cmd /\ client'.peer = "nm"
        /\ client'.connection_socket = s /\ FieldsOK'
    BY <1>2 DEF IdleClient, Connect, Handler, FieldsOK
  <2>3. QED
    BY <1>2, <2>1, <2>2 DEF CommandKnown, LowestSocket, Busy
<1>3. QED
  BY <1>1, <1>2 DEF Command, FieldsOK

(* The other steps, and what they leave alone. *)
LEMMA OtherSteps ==
    ASSUME FieldsOK, SendLine \/ StopTyping \/ ClientSigpipe \/ ClientReset \/ Gone
    PROVE  ClientGoesOn \/ ClientStops
<1>1. CASE SendLine
  BY <1>1 DEF SendLine, ClientAt, Busy, FieldsOK, ClientGoesOn
<1>2. CASE StopTyping \/ ClientReset
  BY <1>2 DEF StopTyping, ClientReset, Return, Busy, FieldsOK, ClientStops
<1>3. CASE ClientSigpipe \/ Gone
  BY <1>3 DEF ClientSigpipe, Gone, Leave, Busy, FieldsOK, ClientStops
<1>4. QED
  BY <1>1, <1>2, <1>3

(* The steps of a handler leave the client alone; the response that a      *)
(* WRITE keeps is one of two.                                              *)
ServerGoesOn ==
    /\ UNCHANGED << client, fds >>
    /\ {"pc", "response"} \subseteq DOMAIN server'
    /\ ResponseKept'

LEMMA ServerSteps ==
    ASSUME FieldsOK, ResponseKept, ServerStep \/ ServerSigpipe \/ \E who \in alive : Crash(who)
    PROVE  ServerGoesOn
<1>1. CASE ReceiveRequest \/ Dispatch \/ Invalid \/ NmAnswers \/ NmRedirects \/ NmNotFound
           \/ NmSendsAddress \/ SsAnswers \/ SsReads \/ SsOpens
  BY <1>1 DEF FieldsOK, ServerGo, Reply, ResponseKept, ServerGoesOn, ReceiveRequest, Dispatch,
              Invalid, NmAnswers, NmRedirects, NmNotFound, NmSendsAddress, SsAnswers, SsReads,
              SsOpens
<1>2. CASE SsFailsToOpen \/ SsSendsChunk \/ SsEndsStream \/ SsWritesNothing \/ SsFailsToStat
  BY <1>2 DEF FieldsOK, ResponseKept, ServerGoesOn, ServerAt, Serving, SsFailsToOpen,
              SsSendsChunk, SsEndsStream, SsWritesNothing, SsFailsToStat
<1>3. CASE SsWrites \/ SsAwaitsChunk \/ SsWritesChunk \/ SsEndsWrite
  BY <1>3 DEF FieldsOK, ServerGo, Reply, ResponseKept, ServerGoesOn, ServerAt, SsWrites,
              SsAwaitsChunk, SsWritesChunk, SsEndsWrite
<1>4. CASE SsSendsStat \/ SsConfirmsStat \/ SsLists \/ SsSendsRows
  BY <1>4 DEF FieldsOK, ServerGo, Reply, ResponseKept, ServerGoesOn, SsSendsStat,
              SsConfirmsStat, SsLists, SsSendsRows
<1>5. CASE ServerRecv \/ ServerSend
  BY <1>5 DEF FieldsOK, ResponseKept, ServerGoesOn, ServerRecv, ServerSend
<1>6. CASE ServerSigpipe \/ \E who \in alive : Crash(who)
  BY <1>6 DEF FieldsOK, ResponseKept, ServerGoesOn, ServerSigpipe, Crash
<1>7. QED
  BY <1>1, <1>2, <1>3, <1>4, <1>5, <1>6 DEF ServerStep

-----------------------------------------------------------------------------
(* Every step moves the two directions of the connection. *)
LEMMA CodesAreCodes ==
    /\ {NOT_FOUND, INTERNAL_ERROR, INVALID_REQUEST, INVALID_REQUEST_CONTENT, ALREADY_EXISTS,
         OK, REDIRECT, OK_START_STREAM} \subseteq Codes
    /\ "get" \in Ops /\ Commands \subseteq Ops
    /\ Len(Stat.bytes) \in Nat /\ Len(Address.bytes) \in Nat /\ RowsWanted \in Nat
    /\ 1 \in Nat
BY SessionAssumption DEF Codes, Ops, Opcode, Stat, Address, Rows, RowsWanted, Bare

LEMMA ClientMoves ==
    ASSUME CommandKnown, ClientStep
    PROVE  UpMoves /\ DownMoves
<1>1. CASE SendRequest
  <2>1. client.cmd \in Ops
    BY <1>1, CodesAreCodes DEF SendRequest, ClientAt, CommandKnown, Busy
  <2>2. QED
    BY <1>1, <2>1, InTraffic, CodesAreCodes DEF SendRequest, UpMoves, DownMoves
<1>2. CASE AwaitAnswer \/ Redirected \/ AwaitFinal \/ AwaitResponse
  BY <1>2, CodesAreCodes DEF AwaitAnswer, Redirected, AwaitFinal, AwaitResponse,
                              UpMoves, DownMoves
<1>3. CASE Answered \/ ShowEof \/ ReadBreaksOff \/ Written \/ ShowInfo \/ ShowRows
  BY <1>3 DEF Answered, ShowEof, ReadBreaksOff, Written, ShowInfo, ShowRows, Return,
              CloseAndReturn, Leave, UpMoves, DownMoves
<1>4. CASE Follow
  BY <1>4, Zenon DEF Follow, Connect, UpMoves, DownMoves
<1>5. CASE AnsweredBySs
  BY <1>5, CodesAreCodes DEF AnsweredBySs, Return, CloseAndReturn, UpMoves, DownMoves
<1>6. CASE ShowChunk \/ SendEnd
  BY <1>6, InTraffic DEF ShowChunk, SendEnd, UpMoves, DownMoves
<1>7. CASE ClientRecv \/ ClientSend
  BY <1>7 DEF ClientRecv, ClientSend, UpMoves, DownMoves
<1>8. QED
  BY <1>1, <1>2, <1>3, <1>4, <1>5, <1>6, <1>7 DEF ClientStep

LEMMA ServerMoves ==
    ASSUME ResponseKept, ServerStep
    PROVE  UpMoves /\ DownMoves
<1>1. CASE ReceiveRequest \/ Dispatch \/ SsOpens \/ SsWritesNothing \/ SsAwaitsChunk
  BY <1>1 DEF ReceiveRequest, Dispatch, SsOpens, SsWritesNothing, SsAwaitsChunk, UpMoves, DownMoves
<1>2. CASE Invalid \/ NmAnswers \/ NmRedirects \/ NmNotFound \/ SsAnswers \/ SsReads
  BY <1>2, InTraffic, CodesAreCodes
     DEF Reply, Invalid, NmAnswers, NmRedirects, NmNotFound, SsAnswers, SsReads,
         UpMoves, DownMoves
<1>3. CASE NmSendsAddress \/ SsSendsChunk \/ SsEndsStream \/ SsSendsStat \/ SsSendsRows
  BY <1>3, InTraffic
     DEF NmSendsAddress, SsSendsChunk, SsEndsStream, SsSendsStat, SsSendsRows,
         UpMoves, DownMoves
<1>4. CASE SsFailsToOpen \/ SsWrites \/ SsConfirmsStat \/ SsFailsToStat \/ SsLists
  BY <1>4, InTraffic, CodesAreCodes
     DEF Reply, SsFailsToOpen, SsWrites, SsConfirmsStat, SsFailsToStat, SsLists,
         UpMoves, DownMoves
<1>5. CASE SsWritesChunk
  BY <1>5, InTraffic, CodesAreCodes DEF Reply, SsWritesChunk, UpMoves, DownMoves
<1>6. CASE SsEndsWrite
  <2>1. server.response \in Codes
    BY <1>6, CodesAreCodes DEF SsEndsWrite, ServerAt, ResponseKept
  <2>2. QED
    BY <1>6, <2>1, InTraffic, CodesAreCodes DEF Reply, SsEndsWrite, UpMoves, DownMoves
<1>7. CASE ServerRecv \/ ServerSend
  BY <1>7 DEF ServerRecv, ServerSend, UpMoves, DownMoves
<1>8. QED
  BY <1>1, <1>2, <1>3, <1>4, <1>5, <1>6, <1>7 DEF ServerStep

LEMMA OtherMoves ==
    ASSUME \/ \E cmd \in Commands : Command(cmd)
           \/ SendLine \/ StopTyping \/ ClientSigpipe \/ ClientReset \/ ServerSigpipe
           \/ Gone \/ \E who \in alive : Crash(who)
    PROVE  UpMoves /\ DownMoves
<1>1. CASE \E cmd \in Commands : Command(cmd)
  BY <1>1, Zenon DEF Command, Connect, UpMoves, DownMoves
<1>2. CASE SendLine \/ StopTyping \/ ClientReset
  BY <1>2, InTraffic DEF SendLine, StopTyping, ClientReset, Return, UpMoves, DownMoves
<1>3. CASE ClientSigpipe \/ Gone
  BY <1>3 DEF ClientSigpipe, Gone, Leave, UpMoves, DownMoves
<1>4. CASE ServerSigpipe \/ \E who \in alive : Crash(who)
  BY <1>4 DEF ServerSigpipe, Crash, UpMoves, DownMoves
<1>5. QED
  BY <1>1, <1>2, <1>3, <1>4

-----------------------------------------------------------------------------
(* The invariant and what follows from it. *)
IInv == UpProofs!IInv /\ DownProofs!IInv /\ ProcessesOK

LEMMA InitHolds ==
    ASSUME Init
    PROVE  IInv
<1>1. up = UpProofs!New /\ down = DownProofs!New
  BY DEF Init, Up!Init, Up!New, UpProofs!New, Down!Init, Down!New, DownProofs!New
<1>2. UpProofs!IInv /\ DownProofs!IInv
  BY <1>1, UpFramingHolds, DownFramingHolds, UpProofs!NewHolds, DownProofs!NewHolds
<1>3. ProcessesOK
  BY DEF Init, IdleClient, Handler, ProcessesOK, FieldsOK, CommandKnown, ResponseKept,
         LowestSocket, Busy
<1>4. QED
  BY <1>2, <1>3 DEF IInv

(* The client leaves the handler alone, or gets a new one. *)
LEMMA ClientKeepsResponse ==
    ASSUME ResponseKept,
           \/ ClientStep \/ SendLine \/ StopTyping \/ ClientSigpipe \/ ClientReset \/ Gone
           \/ \E cmd \in Commands : Command(cmd)
    PROVE  ResponseKept'
<1>1. server' = server \/ \E who \in {"nm", "ss"} : server' = Handler(who)
  <2>1. CASE Follow \/ \E cmd \in Commands : Command(cmd)
    BY <2>1, Zenon DEF Follow, Command, Connect
  <2>2. CASE SendRequest \/ AwaitAnswer \/ Redirected \/ Answered \/ AnsweredBySs \/ ShowChunk
             \/ ShowEof \/ ReadBreaksOff \/ SendEnd \/ AwaitFinal \/ Written
             \/ AwaitResponse \/ ShowInfo \/ ShowRows \/ ClientRecv \/ ClientSend
    BY <2>2 DEF SendRequest, AwaitAnswer, Redirected, Answered, AnsweredBySs, ShowChunk, ShowEof,
                ReadBreaksOff, SendEnd, AwaitFinal, Written, AwaitResponse, ShowInfo, ShowRows,
                ClientRecv, ClientSend
  <2>3. CASE SendLine \/ StopTyping \/ ClientSigpipe \/ ClientReset \/ Gone
    BY <2>3 DEF SendLine, StopTyping, ClientSigpipe, ClientReset, Gone
  <2>4. QED
    BY <2>1, <2>2, <2>3 DEF ClientStep
<1>2. \A who : Handler(who).pc = "accept"
  BY DEF Handler
<1>3. QED
  BY <1>1, <1>2 DEF ResponseKept

LEMMA NextKeeps ==
    ASSUME IInv, [Next]_vars
    PROVE  IInv'
<1>1. /\ UpProofs!IInv /\ DownProofs!IInv
      /\ FieldsOK /\ CommandKnown /\ ResponseKept /\ LowestSocket
  BY DEF IInv, ProcessesOK
<1>2. UpMoves /\ DownMoves
  <2>1. CASE UNCHANGED vars
    BY <2>1 DEF vars, UpMoves, DownMoves
  <2>2. CASE Next
    BY <1>1, <2>2, ClientMoves, ServerMoves, OtherMoves DEF Next
  <2>3. QED
    BY <2>1, <2>2
<1>3. UpProofs!IInv' /\ DownProofs!IInv'
  BY <1>1, <1>2, UpKeeps, DownKeeps
<1> SUFFICES ProcessesOK'
  BY <1>3 DEF IInv
<1>4. CASE ClientStep
  <2>1. ResponseKept'
    BY <1>1, <1>4, ClientKeepsResponse
  <2>2. CASE Follow
    BY <1>1, <2>1, <2>2, FollowKeeps DEF ProcessesOK
  <2>3. CASE ClientGoesOn \/ ClientStops \/ ClientStays
    <3>1. FieldsOK'
      BY <2>3 DEF ClientGoesOn, ClientStops, ClientStays
    <3>2. QED
      BY <1>1, <2>1, <2>3, <3>1, GoesOnKeeps DEF ProcessesOK
  <2>4. QED
    BY <1>1, <1>4, <2>2, <2>3, ClientSteps
<1>5. CASE SendLine \/ StopTyping \/ ClientSigpipe \/ ClientReset \/ Gone
  <2>1. ResponseKept'
    BY <1>1, <1>5, ClientKeepsResponse
  <2>2. ClientGoesOn \/ ClientStops
    BY <1>1, <1>5, OtherSteps
  <2>3. FieldsOK'
    BY <2>2 DEF ClientGoesOn, ClientStops
  <2>4. QED
    BY <1>1, <2>1, <2>2, <2>3, GoesOnKeeps DEF ProcessesOK
<1>6. CASE \E cmd \in Commands : Command(cmd)
  BY <1>1, <1>6, ClientKeepsResponse, CommandKeeps DEF ProcessesOK
<1>7. CASE ServerStep \/ ServerSigpipe \/ \E who \in alive : Crash(who)
  <2>1. ServerGoesOn
    BY <1>1, <1>7, ServerSteps
  <2>2. QED
    BY <1>1, <2>1, GoesOnKeeps DEF ProcessesOK, ServerGoesOn, ClientStays, FieldsOK
<1>8. CASE UNCHANGED vars
  BY <1>1, <1>8, GoesOnKeeps DEF vars, ProcessesOK, FieldsOK, ResponseKept, ClientStays
<1>9. QED
  BY <1>4, <1>5, <1>6, <1>7, <1>8 DEF Next

(* Both directions of the connection keep the invariant of Framing and the *)
(* client keeps to the lowest free descriptor, in every session, with any  *)
(* crashes, kills and short reads.                                         *)
THEOREM Inductive == Spec => []IInv
<1>1. Init => IInv
  BY InitHolds
<1>2. IInv /\ [Next]_vars => IInv'
  BY NextKeeps
<1>3. QED
  BY <1>1, <1>2, PTL DEF Spec

(* What client and handlers receive is what the other side has sent, byte  *)
(* by byte, until a field is read short or the two disagree on what comes. *)
THEOREM SessionReceivedAsSent == Spec => []ReceivedAsSent
<1>1. IInv => ReceivedAsSent
  BY UpHolds, DownHolds DEF IInv, ReceivedAsSent
<1>2. QED
  BY <1>1, Inductive, PTL

(* receive_message waits for ever only for the rest of a message that its  *)
(* sender has left unfinished.                                             *)
THEOREM SessionSpinsOnCutItems == Spec => []SpinsOnCutItems
<1>1. IInv => SpinsOnCutItems
  BY UpHolds, DownHolds DEF IInv, SpinsOnCutItems
<1>2. QED
  BY <1>1, Inductive, PTL

(* The socket that read.c and write.c connect and the one they use are the *)
(* same, however many descriptors earlier commands have left open.         *)
THEOREM OneSocket == Spec => []SameSocket
<1>1. IInv => SameSocket
  BY DEF IInv, ProcessesOK, LowestSocket, SameSocket, Busy
<1>2. QED
  BY <1>1, Inductive, PTL

-----------------------------------------------------------------------------
(* What the steps preserve: the scripts that client and handler keep to,   *)
(* each for what it sends and for what it asks for.                        *)

(* Client and handler are those of the connection.  The client keeps its   *)
(* end open while it is at work, and after a WRITE.                        *)
OneConnection ==
    /\ server.who = client.peer
    /\ Busy => up.open
    /\ client.cmd = "write" /\ client.peer = "ss" /\ client.pc # "gone" => up.open
    /\ client.peer = "ss" => client.cmd \in {"read", "write", "get", "list"}
    /\ client.late => ~ down.open

(* The request that goes to the peer; LIST asks the naming server as GET   *)
(* does.                                                                   *)
Asking == IF client.cmd = "list" /\ client.peer = "nm" THEN "get" ELSE client.cmd

(* The client sends a request, and the lines of a WRITE with their end.    *)
ClientSends ==
    LET n == client.lines IN
    /\ client.pc = "connected" => up.sent = <<>>
    /\ Busy /\ client.pc # "connected" => up.sent # <<>>
    /\ client.peer = "nm" \/ up.sent = <<>> => n = 0
    /\ up.sent # <<>> =>
          /\ client.cmd \in Commands
          /\ up.sent[1] = Request(Asking)
          /\ Len(up.sent) \in {n + 1, n + 2}
          /\ \A i \in 2 .. n + 1 : up.sent[i] = Stream(Line)
          /\ Len(up.sent) = n + 2 => up.sent[n + 2] = StreamEnd
          /\ Busy => (Len(up.sent) = n + 2 <=> client.pc \in {"ending", "final"})

(* The handler asks for a request and for the lines of a WRITE; m is the   *)
(* number of those it has written.                                         *)
HandlerAsks ==
    /\ server.pc = "accept" => up.got = <<>>
    /\ server.pc = "request" => Len(up.got) = IF up.pc = "idle" THEN 1 ELSE 0
    /\ server.pc = "serve" => Len(up.got) = 1
    /\ server.pc \notin {"request", "written"} => up.pc = "idle"
    /\ up.pc # "bare" /\ \A j \in 1 .. Len(up.got) : up.got[j].item.kind = "message"
    /\ server.pc \in {"write", "written"} =>
          \E m \in 0 .. Len(up.got) :
            /\ server.response = IF m = 0 THEN OK_START_STREAM ELSE OK
            /\ Len(up.got) = IF server.pc = "written" /\ up.pc = "idle" THEN m + 2 ELSE m + 1
            /\ up.astray = {} => Len(server.streamed) = m

(* A handler that has read a request serves the one that was sent.         *)
RequestKnown ==
    up.astray = {} /\ up.open /\ server.pc \notin {"accept", "request"} => server.op = Asking

(* The handler sends what belongs to its request.                          *)
IsResponse(item) == \E code \in Codes : item = Response(code)
IsChunk(item) == \E chunk \in Chunks : item = Stream(chunk)

(* The items after the first carry these chunks. *)
Carries(sent, chunks) ==
    \A i \in 1 .. Len(chunks) : chunks[i] \in Chunks /\ sent[i + 1] = Stream(chunks[i])

NmSends ==
    /\ \A i \in 1 .. Len(down.sent) : IsResponse(down.sent[i]) \/ down.sent[i] = Address
    /\ down.sent # <<>> => IsResponse(down.sent[1])
    /\ Len(down.sent) > 1 /\ down.sent[1] = Response(REDIRECT) => down.sent[2] = Address

ReadSends ==
    \E k \in 0 .. Len(down.sent) :
        /\ Len(server.streamed) = k
        /\ Len(down.sent) = IF server.ended \/ server.failed THEN k + 2 ELSE k + 1
        /\ IsResponse(down.sent[1])
        /\ Carries(down.sent, server.streamed)
        /\ server.ended => ~ server.failed /\ down.sent[k + 2] = StreamEnd
        /\ server.failed => down.sent[k + 2] = Response(INTERNAL_ERROR)
        /\ Len(down.sent) > 1 => down.sent[1] = Response(OK_START_STREAM)

SsSends ==
    /\ \A i \in 1 .. Len(down.sent) :
          \/ IsResponse(down.sent[i]) \/ IsChunk(down.sent[i])
          \/ down.sent[i] \in {Stat, Rows, StreamEnd}
    /\ server.op = "read" /\ down.sent # <<>> => ReadSends
    /\ server.op = "write" => \A i \in 1 .. Len(down.sent) : IsResponse(down.sent[i])
    /\ server.op = "get" =>
          down.sent \in IF server.failed THEN {<< Response(INTERNAL_ERROR) >>}
                        ELSE {<<>>, << Stat >>, << Stat, Response(OK) >>}
    /\ server.op = "list" =>
          \A i \in 1 .. Len(down.sent) :
             IF i = 1 THEN IsResponse(down.sent[i]) ELSE down.sent[i] = Rows

HandlerSends ==
    /\ server.failed => server.pc = "done"
    /\ server.pc \in {"accept", "request", "serve"} =>
          down.sent = <<>> /\ server.streamed = <<>> /\ ~ server.ended
    /\ server.pc \in {"accept", "request"} => server.op = "none"
    /\ server.pc = "redirect" =>
          server.who = "nm" /\ server.op \in {"get", "list"} /\ down.sent = << Response(NOT_FOUND) >>
    /\ server.pc = "address" =>
          /\ server.who = "nm" /\ server.op \in {"read", "write", "get", "list"}
          /\ \/ down.sent = << Response(REDIRECT) >>
             \/ /\ server.op \in {"get", "list"}
                /\ down.sent = << Response(NOT_FOUND), Response(REDIRECT) >>
    /\ server.pc = "lock" => server.streamed = <<>>
    /\ server.pc \in {"lock", "stream"} =>
          /\ server.who = "ss" /\ server.op = "read" /\ ~ server.ended
          /\ down.sent # <<>> /\ down.sent[1] = Response(OK_START_STREAM)
    /\ server.pc \in {"write", "written"} =>
          server.who = "ss" /\ server.op = "write" /\ down.sent = << Response(OK_START_STREAM) >>
    /\ server.pc = "stat" => server.who = "ss" /\ server.op = "get" /\ down.sent = << Stat >>
    /\ server.pc = "rows" => server.who = "ss" /\ server.op = "list" /\ Len(down.sent) = 1
    /\ IF server.who = "nm" THEN NmSends ELSE SsSends

(* The client asks for what belongs to its command: a block as the k-th    *)
(* thing, or messages after a first block.                                 *)
Asked == IF down.pc = "idle" THEN Len(down.got) ELSE Len(down.got) + 1
AsksBlock(k, n) ==
    /\ Asked = k
    /\ IF down.pc = "idle" THEN Received.kind = "bare" ELSE down.pc = "bare" /\ down.want = n
Does(cmd) == client.peer = "ss" /\ client.cmd = cmd

ClientAsks ==
    /\ client.pc \in {"connected", "request"} => Asked = 0
    /\ client.pc = "answer" => AsksBlock(1, 1) /\ ~ Does("get")
    /\ client.pc = "address" =>
          /\ AsksBlock(2, Len(Address.bytes))
          /\ client.peer = "nm" /\ client.response = REDIRECT
          /\ client.cmd \in {"read", "write", "get", "list"}
    /\ client.pc = "stream" =>
          /\ Does("read") /\ Asked > 1
          /\ IF down.pc = "idle" THEN Received.kind = "message" ELSE down.pc # "bare"
    /\ client.pc \in {"lines", "ending"} => Does("write") /\ Asked = 1 /\ down.pc = "idle"
    /\ client.pc = "final" => Does("write") /\ AsksBlock(2, 1)
    /\ client.pc = "stat" => Does("get") /\ AsksBlock(1, Len(Stat.bytes))
    /\ client.pc = "response" => Does("get") /\ AsksBlock(2, 1)
    /\ client.pc = "rows" => Does("list") /\ AsksBlock(2, RowsWanted)

(* What the client has made of it: an address follows a REDIRECT, the      *)
(* chunks of a READ and the last answer to a WRITE are what was sent.      *)
AnswersKnown ==
    /\ client.pc = "address" /\ down.astray = {} /\ ~ down.eof =>
          down.sent # <<>> /\ down.sent[1] = Response(REDIRECT)
    /\ client.peer = "nm" \/ client.pc \in {"connected", "request", "answer"} =>
          client.received = <<>>
    /\ client.printed => client.pc \in {"prompt", "gone"} /\ client.peer = "ss"
    /\ down.astray = {} =>
          \E j \in 0 .. Len(down.sent) :
            /\ Len(client.received) = j
            /\ j > 0 => j + 1 <= Len(down.sent)
            /\ Carries(down.sent, client.received)
            /\ client.pc = "stream" => Asked = j + 2
            /\ client.printed /\ ~ down.eof =>
                  j + 2 <= Len(down.sent) /\ down.sent[j + 2] = StreamEnd
    /\ Does("write") /\ client.response = OK /\ down.astray = {} =>
          Len(down.sent) > 1 /\ down.sent[2] = Response(OK)

(* Of a first chunk that does not fill the buffer and has no NUL, "%s"     *)
(* shows all and nothing else.                                             *)
ShownWell ==
    /\ client.received = <<>> => client.shown = <<>>
    /\ Len(client.received) = 1 =>
          LET data == client.received[1]
          IN  ~ Full(data) /\ 0 \notin Range(data) => client.shown = data

(* A handler that has answered OK to a WRITE has written all its lines.    *)
AllWritten ==
    /\ server.who = "ss" /\ server.op = "write" /\ up.astray = {} /\ up.open
    /\ Len(down.sent) > 1 /\ down.sent[2] = Response(OK)
    => \E m \in 1 .. Len(up.sent) :
          /\ Len(server.streamed) = m
          /\ m + 2 <= Len(up.sent) /\ up.sent[m + 2] = StreamEnd

(* What did not come whole came at the end of the stream, and is empty.    *)
EmptyAtEof(direction) ==
    \A j \in 1 .. Len(direction.got) :
        ~ direction.got[j].whole =>
            /\ direction.eof
            /\ direction.got[j].item.kind = "bare" => direction.got[j].item.bytes = <<>>
            /\ direction.got[j].item.kind = "message" => Size(direction.got[j].item) = 0

(* A client at work has fewer commands behind it than it has begun.        *)
Counted == client.left <= client.count /\ (Busy => client.left < client.count)

(* An error that the client takes for something else is the last thing     *)
(* that it gets; so are the rows of a listing.                             *)
AfterMix ==
    Whole(up) /\ Whole(down) /\ "mixed" \in down.astray =>
        IF server.op = "list" THEN Len(down.sent) > 1
        ELSE ~ Down!Sending /\ down.read = Len(down.out)

(* When a command is over and the client at its prompt, the handler has at *)
(* most one block to send, and nothing once it has sent to a socket that   *)
(* was closed; but the naming server may redirect a GET or a LIST that it  *)
(* has refused.                                                            *)
ToSend ==
    IF server.pc = "done" THEN 0 ELSE IF server.pc \in {"rows", "write", "written"} THEN 1 ELSE 2
AtRest == client.pc = "prompt" \/ (client.pc = "gone" /\ client.quit = "prompt")
Redirecting ==
    server.who = "nm" /\ server.op \in {"get", "list"} /\ (up.open \/ client.pc = "gone")
NothingToCome ==
    /\ server.late => ~ up.open
    /\ Whole(up) /\ Whole(down) /\ AtRest /\ ~ Redirecting =>
          /\ server.late => ~ Down!Sending
          /\ down.open =>
                /\ ToSend < 2
                /\ Down!Sending => ToSend = 0 /\ Last(down.sent).kind = "bare"
                /\ server.late => ToSend = 0

SessionInv ==
    /\ TypeOK /\ Counted /\ OneConnection /\ ClientSends /\ HandlerAsks /\ RequestKnown
    /\ HandlerSends /\ ClientAsks /\ AnswersKnown /\ ShownWell /\ AllWritten
    /\ EmptyAtEof(up) /\ EmptyAtEof(down) /\ AgreeOnWhatComes /\ AfterMix /\ NothingToCome

(* What the programs may rely on in a direction of the connection. *)
ReceiverPcs == {"idle", "bare", "type", "size", "data"}
GotItem == [item : ItemRecord, whole : BOOLEAN]
Sound(d) ==
    /\ d.sent \in Seq(ItemRecord) /\ d.got \in Seq(GotItem)
    /\ \A i \in 1 .. Len(d.sent) : WellFormed(d.sent[i])
    /\ d.pc \in ReceiverPcs /\ d.astray \subseteq {"short", "mixed"} /\ d.open \in BOOLEAN
    /\ d.eof => ~ d.open
    /\ d.astray = {} /\ ~ d.eof => Len(d.got) <= Len(d.sent)
    /\ d.astray = {} => \A j \in 1 .. Len(d.got) :
          /\ d.got[j].whole => j <= Len(d.sent) /\ d.got[j].item = d.sent[j]
          /\ ~ d.eof => d.got[j].whole

(* What each operation does to it. *)
ReceiverAsWas(d, e) ==
    /\ e.read = d.read /\ e.pc = d.pc /\ e.want = d.want /\ e.got = d.got
    /\ e.eof = d.eof /\ e.astray = d.astray
Started(d, e, i) ==
    /\ d.open /\ e.open = d.open /\ e.out = d.out
    /\ e.sent = Append(d.sent, i) /\ ReceiverAsWas(d, e)
Passed(d, e) == d.open /\ e.open = d.open /\ e.sent = d.sent /\ ReceiverAsWas(d, e)
Closed(d, e) ==
    d.open /\ ~ e.open /\ e.out = d.out /\ e.sent = d.sent /\ ReceiverAsWas(d, e)
AskedFor(d, e, pc, n) ==
    /\ d.pc = "idle" /\ e.pc = pc /\ e.want = n
    /\ e.sent = d.sent /\ e.open = d.open /\ e.out = d.out
    /\ e.read = d.read /\ e.got = d.got /\ e.eof = d.eof /\ e.astray = d.astray
Fresh(e) ==
    /\ e.sent = <<>> /\ e.open = TRUE /\ e.out = <<>> /\ e.read = 0
    /\ e.pc = "idle" /\ e.got = <<>> /\ e.eof = FALSE /\ e.astray = {}
EndsReceive(d, e, g) ==
    /\ e.got = Append(d.got, g)
    /\ g.item.kind = IF d.pc = "bare" THEN "bare" ELSE "message"
    /\ g.whole \/ e.eof
    /\ ~ g.whole /\ d.pc = "bare" => g.item.bytes = <<>>
    /\ ~ g.whole /\ d.pc # "bare" => Size(g.item) = 0
Advances(d, e) ==
    /\ d.pc # "idle"
    /\ e.sent = d.sent /\ e.out = d.out /\ e.open = d.open /\ e.want = d.want
    /\ d.astray \subseteq e.astray /\ (d.eof => e.eof)
    /\ \/ d.pc # "bare" /\ e.pc \in {"size", "data"} /\ e.got = d.got
       \/ e.pc = "idle" /\ \E g \in GotItem : EndsReceive(d, e, g)
    /\ d.read = Len(d.out) => e.read = d.read /\ e.astray = d.astray

LEMMA UpSound ==
    ASSUME UpProofs!IInv
    PROVE  Sound(up) /\ (up.astray = {} /\ ~ up.eof /\ Len(up.got) = Len(up.sent) => ~ Up!Sending)
<1>1. UpProofs!GotRecord = GotItem /\ UpProofs!ItemRecord = ItemRecord /\ UpProofs!Pcs = ReceiverPcs
  BY DEF UpProofs!GotRecord, GotItem, UpProofs!ItemRecord, ItemRecord, UpProofs!Pcs, ReceiverPcs,
         UpProofs!Byte, Byte
<1>2. \A i : UpProofs!WellFormed(i) <=> WellFormed(i)
  BY DEF UpProofs!WellFormed, WellFormed, UpProofs!ItemRecord, ItemRecord, UpProofs!Byte, Byte,
         UpProofs!HEADER, HEADER, UpProofs!SizeOf, SizeOf
<1>3. UpProofs!Sending <=> Up!Sending
  BY DEF Up!Sending, UpProofs!Sending, Up!Put, UpProofs!Put, Up!Count, UpProofs!Count
<1>4. /\ up.sent \in Seq(ItemRecord) /\ up.got \in Seq(GotItem)
      /\ \A i \in 1 .. Len(up.sent) : WellFormed(up.sent[i])
      /\ up.pc \in ReceiverPcs /\ up.astray \subseteq {"short", "mixed"} /\ up.open \in BOOLEAN
      /\ up.eof => ~ up.open
      /\ up.astray = {} /\ ~ up.eof =>
            /\ Len(up.got) <= Len(up.sent)
            /\ Len(up.got) = Len(up.sent) => ~ Up!Sending
      /\ up.astray = {} => \A j \in 1 .. Len(up.got) :
            /\ up.got[j].whole => j <= Len(up.sent) /\ up.got[j].item = up.sent[j]
            /\ ~ up.eof => up.got[j].whole
  BY <1>1, <1>2, <1>3, UpProofs!InStep
<1>5. QED
  BY <1>4 DEF Sound

LEMMA UpSteps ==
    ASSUME UpProofs!IInv
    PROVE  /\ \A i : Up!Start(i) => Started(up, up', i)
           /\ Up!Send => Passed(up, up')
           /\ Up!Close => Closed(up, up')
           /\ \A pc, n : Up!Ask(pc, n) => AskedFor(up, up', pc, n)
           /\ Up!Reopen => Fresh(up')
<1>1. up \in UpProofs!ChannelRecord
  BY DEF UpProofs!IInv, UpProofs!TypeOK
<1>2. \A i : Up!Start(i) => Started(up, up', i)
  BY <1>1 DEF Up!Start, Started, ReceiverAsWas, UpProofs!ChannelRecord
<1>3. Up!Send => Passed(up, up')
  BY <1>1 DEF Up!Send, Passed, ReceiverAsWas, UpProofs!ChannelRecord
<1>4. Up!Close => Closed(up, up')
  BY <1>1 DEF Up!Close, Closed, ReceiverAsWas, UpProofs!ChannelRecord
<1>5. \A pc, n : Up!Ask(pc, n) => AskedFor(up, up', pc, n)
  BY <1>1 DEF Up!Ask, AskedFor, UpProofs!ChannelRecord
<1>6. Up!Reopen => Fresh(up')
  BY DEF Up!Reopen, Up!New, Fresh
<1>7. QED
  BY <1>2, <1>3, <1>4, <1>5, <1>6

LEMMA UpAdvances ==
    ASSUME UpProofs!IInv, Up!Recv
    PROVE  Advances(up, up')
<1>1. UpProofs!GotRecord = GotItem
  BY DEF UpProofs!GotRecord, GotItem, UpProofs!ItemRecord, ItemRecord, UpProofs!Byte, Byte
<1>2. \A i : UpProofs!Size(i) = Size(i)
  BY DEF UpProofs!Size, Size, UpProofs!SizeOf, SizeOf
<1>3. UpProofs!FramingAssumption /\ UpProofs!Recv
  BY UpFramingHolds, UpReceives
<1>4. /\ up.pc # "idle"
      /\ up'.sent = up.sent /\ up'.out = up.out
      /\ up'.open = up.open /\ up'.want = up.want
      /\ up.astray \subseteq up'.astray /\ (up.eof => up'.eof)
      /\ \/ up.pc # "bare" /\ up'.pc \in {"size", "data"} /\ up'.got = up.got
         \/ /\ up'.pc = "idle"
            /\ \E g \in GotItem :
                 /\ up'.got = Append(up.got, g)
                 /\ g.item.kind = IF up.pc = "bare" THEN "bare" ELSE "message"
                 /\ g.whole \/ up'.eof
                 /\ ~ g.whole /\ up.pc = "bare" => g.item.bytes = <<>>
                 /\ ~ g.whole /\ up.pc # "bare" => Size(g.item) = 0
      /\ up.read = Len(up.out) => up'.read = up.read /\ up'.astray = up.astray
  BY <1>1, <1>2, <1>3, UpProofs!RecvMeans
<1>5. QED
  BY <1>4, Zenon DEF Advances, EndsReceive

LEMMA UpMixed ==
    ASSUME UpProofs!IInv, Up!Recv, up.astray = {}, "mixed" \in up'.astray,
           NEW i \in Nat, i = Len(up.got) + 1
    PROVE  /\ i \in 1 .. Len(up.sent) /\ ~ up.eof
           /\ \/ /\ up.pc = "bare"
                 /\ ~ (up.sent[i].kind = "bare" /\ Len(up.sent[i].bytes) = up.want)
              \/ up.pc = "type" /\ up.sent[i].kind # "message"
           /\ i = Len(up.sent) /\ Len(up.sent[i].bytes) = 1 =>
                 up'.read = Len(up'.out) /\ ~ Up!Sending'
<1>1. UpProofs!Recv
  BY UpReceives
<1>2. UpProofs!Sending' <=> Up!Sending'
  BY DEF Up!Sending, UpProofs!Sending, Up!Put, UpProofs!Put, Up!Count, UpProofs!Count
<1>3. QED
  BY <1>1, <1>2, UpProofs!MixedMeans

LEMMA DownSound ==
    ASSUME DownProofs!IInv
    PROVE  Sound(down) /\ (down.astray = {} /\ ~ down.eof /\ Len(down.got) = Len(down.sent) => ~ Down!Sending)
<1>1. DownProofs!GotRecord = GotItem /\ DownProofs!ItemRecord = ItemRecord /\ DownProofs!Pcs = ReceiverPcs
  BY DEF DownProofs!GotRecord, GotItem, DownProofs!ItemRecord, ItemRecord, DownProofs!Pcs, ReceiverPcs,
         DownProofs!Byte, Byte
<1>2. \A i : DownProofs!WellFormed(i) <=> WellFormed(i)
  BY DEF DownProofs!WellFormed, WellFormed, DownProofs!ItemRecord, ItemRecord, DownProofs!Byte, Byte,
         DownProofs!HEADER, HEADER, DownProofs!SizeOf, SizeOf
<1>3. DownProofs!Sending <=> Down!Sending
  BY DEF Down!Sending, DownProofs!Sending, Down!Put, DownProofs!Put, Down!Count, DownProofs!Count
<1>4. /\ down.sent \in Seq(ItemRecord) /\ down.got \in Seq(GotItem)
      /\ \A i \in 1 .. Len(down.sent) : WellFormed(down.sent[i])
      /\ down.pc \in ReceiverPcs /\ down.astray \subseteq {"short", "mixed"} /\ down.open \in BOOLEAN
      /\ down.eof => ~ down.open
      /\ down.astray = {} /\ ~ down.eof =>
            /\ Len(down.got) <= Len(down.sent)
            /\ Len(down.got) = Len(down.sent) => ~ Down!Sending
      /\ down.astray = {} => \A j \in 1 .. Len(down.got) :
            /\ down.got[j].whole => j <= Len(down.sent) /\ down.got[j].item = down.sent[j]
            /\ ~ down.eof => down.got[j].whole
  BY <1>1, <1>2, <1>3, DownProofs!InStep
<1>5. QED
  BY <1>4 DEF Sound

LEMMA DownSteps ==
    ASSUME DownProofs!IInv
    PROVE  /\ \A i : Down!Start(i) => Started(down, down', i)
           /\ Down!Send => Passed(down, down')
           /\ Down!Close => Closed(down, down')
           /\ \A pc, n : Down!Ask(pc, n) => AskedFor(down, down', pc, n)
           /\ Down!Reopen => Fresh(down')
<1>1. down \in DownProofs!ChannelRecord
  BY DEF DownProofs!IInv, DownProofs!TypeOK
<1>2. \A i : Down!Start(i) => Started(down, down', i)
  BY <1>1 DEF Down!Start, Started, ReceiverAsWas, DownProofs!ChannelRecord
<1>3. Down!Send => Passed(down, down')
  BY <1>1 DEF Down!Send, Passed, ReceiverAsWas, DownProofs!ChannelRecord
<1>4. Down!Close => Closed(down, down')
  BY <1>1 DEF Down!Close, Closed, ReceiverAsWas, DownProofs!ChannelRecord
<1>5. \A pc, n : Down!Ask(pc, n) => AskedFor(down, down', pc, n)
  BY <1>1 DEF Down!Ask, AskedFor, DownProofs!ChannelRecord
<1>6. Down!Reopen => Fresh(down')
  BY DEF Down!Reopen, Down!New, Fresh
<1>7. QED
  BY <1>2, <1>3, <1>4, <1>5, <1>6

LEMMA DownAdvances ==
    ASSUME DownProofs!IInv, Down!Recv
    PROVE  Advances(down, down')
<1>1. DownProofs!GotRecord = GotItem
  BY DEF DownProofs!GotRecord, GotItem, DownProofs!ItemRecord, ItemRecord, DownProofs!Byte, Byte
<1>2. \A i : DownProofs!Size(i) = Size(i)
  BY DEF DownProofs!Size, Size, DownProofs!SizeOf, SizeOf
<1>3. DownProofs!FramingAssumption /\ DownProofs!Recv
  BY DownFramingHolds, DownReceives
<1>4. /\ down.pc # "idle"
      /\ down'.sent = down.sent /\ down'.out = down.out
      /\ down'.open = down.open /\ down'.want = down.want
      /\ down.astray \subseteq down'.astray /\ (down.eof => down'.eof)
      /\ \/ down.pc # "bare" /\ down'.pc \in {"size", "data"} /\ down'.got = down.got
         \/ /\ down'.pc = "idle"
            /\ \E g \in GotItem :
                 /\ down'.got = Append(down.got, g)
                 /\ g.item.kind = IF down.pc = "bare" THEN "bare" ELSE "message"
                 /\ g.whole \/ down'.eof
                 /\ ~ g.whole /\ down.pc = "bare" => g.item.bytes = <<>>
                 /\ ~ g.whole /\ down.pc # "bare" => Size(g.item) = 0
      /\ down.read = Len(down.out) => down'.read = down.read /\ down'.astray = down.astray
  BY <1>1, <1>2, <1>3, DownProofs!RecvMeans
<1>5. QED
  BY <1>4, Zenon DEF Advances, EndsReceive

LEMMA DownMixed ==
    ASSUME DownProofs!IInv, Down!Recv, down.astray = {}, "mixed" \in down'.astray,
           NEW i \in Nat, i = Len(down.got) + 1
    PROVE  /\ i \in 1 .. Len(down.sent) /\ ~ down.eof
           /\ \/ /\ down.pc = "bare"
                 /\ ~ (down.sent[i].kind = "bare" /\ Len(down.sent[i].bytes) = down.want)
              \/ down.pc = "type" /\ down.sent[i].kind # "message"
           /\ i = Len(down.sent) /\ Len(down.sent[i].bytes) = 1 =>
                 down'.read = Len(down'.out) /\ ~ Down!Sending'
<1>1. DownProofs!Recv
  BY DownReceives
<1>2. DownProofs!Sending' <=> Down!Sending'
  BY DEF Down!Sending, DownProofs!Sending, Down!Put, DownProofs!Put, Down!Count, DownProofs!Count
<1>3. QED
  BY <1>1, <1>2, DownProofs!MixedMeans

LEMMA DownSending ==
    ASSUME DownProofs!IInv
    PROVE  /\ \A i : Down!Start(i) => ~ Down!Sending
           /\ Down!Send => Down!Sending /\ (Last(down.sent).kind = "bare" => ~ Down!Sending')
           /\ Down!Close \/ Down!Recv \/ down' = down => (Down!Sending' <=> Down!Sending)
           /\ \A pc, n : Down!Ask(pc, n) => (Down!Sending' <=> Down!Sending)
           /\ Down!Reopen => ~ Down!Sending'
<1>1. down \in DownProofs!ChannelRecord
  BY DEF DownProofs!IInv, DownProofs!TypeOK
<1>2. down'.sent = down.sent /\ down'.starts = down.starts /\ down'.out = down.out
      => (Down!Sending' <=> Down!Sending)
  BY DEF Down!Sending, Down!Put, Down!Count
<1>3. Down!Close \/ down' = down => (Down!Sending' <=> Down!Sending)
  BY <1>1, <1>2 DEF Down!Close, DownProofs!ChannelRecord
<1>4. \A pc, n : Down!Ask(pc, n) => (Down!Sending' <=> Down!Sending)
  BY <1>1, <1>2 DEF Down!Ask, DownProofs!ChannelRecord
<1>5. Down!Recv => (Down!Sending' <=> Down!Sending)
  <2> SUFFICES ASSUME Down!Recv PROVE Down!Sending' <=> Down!Sending
    OBVIOUS
  <2>1. DownProofs!FramingAssumption /\ DownProofs!Recv
    BY DownFramingHolds, DownReceives
  <2>2. down'.sent = down.sent /\ down'.starts = down.starts /\ down'.out = down.out
    BY <2>1, DownProofs!RecvMeans
  <2>3. QED
    BY <1>2, <2>2
<1>6. Down!Reopen => ~ Down!Sending'
  BY DEF Down!Reopen, Down!New, Down!Sending
<1>7. ASSUME Down!Send
      PROVE  Down!Sending /\ (Last(down.sent).kind = "bare" => ~ Down!Sending')
  <2>1. DownProofs!Send /\ Down!Sending
    BY <1>7, DownSends DEF Down!Send
  <2>2. DownProofs!Sending' <=> Down!Sending'
    BY DEF Down!Sending, DownProofs!Sending, Down!Put, DownProofs!Put, Down!Count, DownProofs!Count
  <2>3. down.sent[DownProofs!Count] = Last(down.sent)
    BY DEF DownProofs!Count, Last
  <2>4. QED
    BY <2>1, <2>2, <2>3, DownProofs!BareSentAtOnce
<1>8. \A i : Down!Start(i) => ~ Down!Sending
  BY DEF Down!Start
<1>9. QED
  BY <1>3, <1>4, <1>5, <1>6, <1>7, <1>8

-----------------------------------------------------------------------------
(* What was received is typed. *)
LEMMA PayloadTyped ==
    ASSUME NEW item \in ItemRecord
    PROVE  Payload(item) \in Seq(Byte)
<1> DEFINE s == item.bytes
           n == Len(s)
<1>1. s \in Seq(Byte) /\ n \in Nat
  BY DEF ItemRecord
<1>2. Payload(item) = SubSeq(s, 4, n)
  BY DEF Payload, HEADER
<1> HIDE DEF s, n
<1>3. CASE n < 4
  BY <1>1, <1>2, <1>3, SubSeqEmpty, EmptySeq
<1>4. CASE n >= 4
  <2>1. 4 \in 1 .. Len(s) + 1 /\ n \in 4 - 1 .. Len(s)
    BY <1>1, <1>4 DEF n
  <2>2. QED
    BY <1>1, <1>2, <2>1, SubSeqProperties
<1>5. QED
  BY <1>1, <1>3, <1>4

LEMMA ChunksTyped == \A chunk \in Chunks : chunk \in Seq(Byte) /\ Len(chunk) \in {1, 2}
<1>1. 0 \in Byte /\ 70 \in Byte /\ 71 \in Byte
  BY DEF Byte
<1>2. \A a, b \in Byte : << a, b >> \in Seq(Byte) /\ Len(<< a, b >>) \in {1, 2}
  OBVIOUS
<1>3. \A a \in Byte : << a >> \in Seq(Byte) /\ Len(<< a >>) \in {1, 2}
  OBVIOUS
<1> TAKE chunk \in Chunks
<1>4. CASE chunk = << 70, 71 >>
  BY <1>1, <1>2, <1>4, Zenon
<1>5. CASE chunk = << 70, 0 >>
  BY <1>1, <1>2, <1>5, Zenon
<1>6. CASE chunk = << 70 >>
  BY <1>1, <1>3, <1>6, Zenon
<1>7. QED
  BY <1>4, <1>5, <1>6, Zenon DEF Chunks

LEMMA LastReceived ==
    ASSUME NEW d, Sound(d), d.got # <<>>
    PROVE  /\ Last(d.got) = d.got[Len(d.got)] /\ Len(d.got) \in 1 .. Len(d.got)
           /\ Last(d.got) \in GotItem
           /\ Last(d.got).item \in ItemRecord
           /\ Last(d.got).item.bytes \in Seq(Byte)
<1>1. d.got \in Seq(GotItem)
  BY DEF Sound
<1>2. Len(d.got) \in 1 .. Len(d.got)
  BY <1>1, EmptySeq
<1>3. Last(d.got) = d.got[Len(d.got)]
  BY DEF Last
<1>4. Last(d.got) \in GotItem
  BY <1>1, <1>2, <1>3, ElementOfSeq
<1>5. QED
  BY <1>2, <1>3, <1>4 DEF GotItem, ItemRecord

LEMMA CodesTyped == Codes \cup {Uninitialised} \subseteq Byte
BY DEF Codes, Byte, NOT_FOUND, INTERNAL_ERROR, INVALID_REQUEST, INVALID_REQUEST_CONTENT,
       ALREADY_EXISTS, OK, REDIRECT, OK_START_STREAM, Uninitialised

LEMMA ResponsesTyped ==
    ASSUME Sound(down), down.got # <<>>, client \in ClientRecord
    PROVE  Responses \subseteq Byte
<1>1. Received.bytes \in Seq(Byte)
  BY LastReceived DEF Received
<1>2. Received.bytes # <<>> => Received.bytes[1] \in Byte
  BY <1>1
<1>3. client.response \in Byte
  BY DEF ClientRecord
<1>4. QED
  BY <1>2, <1>3, CodesTyped DEF Responses

-----------------------------------------------------------------------------
(* What "%s" shows of a chunk. *)
LEMMA TextTyped ==
    ASSUME NEW data \in Seq(Byte)
    PROVE  /\ Text(data) \in Seq(Byte) /\ Beyond(data) \subseteq Seq(Byte)
           /\ 0 \notin Range(data) => Text(data) = data
           /\ ~ Full(data) => Beyond(data) = {<<>>}
<1> DEFINE nul == {k \in DOMAIN data : data[k] = 0}
<1>1. DOMAIN data = 1 .. Len(data) /\ nul \in SUBSET Nat
  OBVIOUS
<1>2. ASSUME nul = {} PROVE Text(data) \in Seq(Byte)
  BY <1>2 DEF Text
<1>3. ASSUME nul # {} PROVE Text(data) \in Seq(Byte)
  <2> PICK n \in nul : n = Min(nul)
    BY <1>1, <1>3, LeastExists
  <2>1. n \in 1 .. Len(data) /\ Len(data) \in Nat
    BY <1>1
  <2>2. Text(data) = SubSeq(data, 1, n - 1)
    BY <1>3 DEF Text
  <2> HIDE DEF nul
  <2>3. \A i \in 1 .. n - 1 : i \in 1 .. Len(data)
    BY <2>1
  <2>4. \A i \in 1 .. n - 1 : data[i] \in Byte
    BY <2>3, ElementOfSeq
  <2>5. 1 \in Int /\ n - 1 \in Int
    BY <2>1
  <2>6. SubSeq(data, 1, n - 1) \in Seq(Byte)
    BY <2>4, <2>5, SubSeqProperties
  <2>7. QED
    BY <2>2, <2>6
<1>4. 0 \notin Range(data) => nul = {}
  BY DEF Range
<1>5. <<>> \in Seq(Byte) /\ << JUNK >> \in Seq(Byte)
  BY DEF JUNK, Byte
<1>6. 0 \notin Range(data) => Text(data) = data
  BY <1>4 DEF Text
<1>7. Beyond(data) \subseteq Seq(Byte) /\ (~ Full(data) => Beyond(data) = {<<>>})
  BY <1>5, Zenon DEF Beyond
<1>8. QED
  BY <1>2, <1>3, <1>6, <1>7

-----------------------------------------------------------------------------
(* The processes stay typed, and no more commands are given than counted. *)
ClientOK == client \in ClientRecord /\ Counted

LEMMA PcOnly ==
    ASSUME ClientOK, NEW pc \in ClientPcs \ {"prompt", "gone"}, Busy,
           client' = [client EXCEPT !.pc = pc]
    PROVE  ClientOK'
BY DEF ClientOK, ClientRecord, Counted, Busy

(* A command that is over counts once, if it leaves its socket open. *)
LEMMA LeftOver ==
    ASSUME ClientOK, Busy
    PROVE  \E left \in 0 .. MaxCommands : left = client.left + 1 /\ left <= client.count
BY SessionAssumption DEF ClientOK, ClientRecord, Counted

LEMMA ReturnTyped ==
    ASSUME ClientOK, Busy, client' = [client EXCEPT !.pc = "prompt", !.left = @ + 1]
    PROVE  ClientOK'
<1> PICK left \in 0 .. MaxCommands : left = client.left + 1 /\ left <= client.count
  BY LeftOver
<1>1. client' = [client EXCEPT !.pc = "prompt", !.left = left] /\ "prompt" \in ClientPcs
  BY DEF ClientPcs
<1>2. QED
  BY <1>1 DEF ClientOK, ClientRecord, Counted, Busy

(* Where the client is, something has been received. *)
LEMMA HasReceived ==
    ASSUME Sound(down), ClientAsks, down.pc = "idle",
           client.pc \in {"answer", "address", "stream", "lines", "ending", "final", "stat",
                          "response", "rows"}
    PROVE  /\ down.got # <<>> /\ Len(down.got) \in Nat \ {0} /\ Busy
           /\ client.pc # "stream" =>
                 Len(down.got) = IF client.pc \in {"address", "final", "response", "rows"}
                                 THEN 2 ELSE 1
           /\ client.pc = "stream" => Len(down.got) > 1
<1>1. Asked = Len(down.got) /\ Len(down.got) \in Nat
  BY DEF Asked, Sound
<1>2. \A k, n : AsksBlock(k, n) => Asked = k
  BY DEF AsksBlock
<1>3. /\ client.pc # "stream" =>
            Asked = IF client.pc \in {"address", "final", "response", "rows"} THEN 2 ELSE 1
      /\ client.pc = "stream" => Asked > 1
  BY <1>2 DEF ClientAsks
<1>4. QED
  BY <1>1, <1>3, EmptySeq DEF Busy

LEMMA ClientStepTyped ==
    ASSUME ClientOK, Sound(down), LowestSocket, ClientAsks, ClientStep
    PROVE  ClientOK'
<1>1. \A pc : ClientAt(pc) /\ pc \notin {"prompt", "gone"} => client.pc = pc /\ Busy
  BY DEF ClientAt, Busy
<1>2. ClientPcs \ {"prompt", "gone"} =
        {"connected", "request", "answer", "address", "stream", "lines", "ending",
         "final", "stat", "response", "rows"}
  BY DEF ClientPcs
<1>3. CASE SendRequest \/ AwaitAnswer \/ SendEnd \/ AwaitFinal \/ AwaitResponse
  BY <1>1, <1>2, <1>3, PcOnly DEF SendRequest, AwaitAnswer, SendEnd, AwaitFinal, AwaitResponse, Go
<1>4. CASE Answered \/ ReadBreaksOff \/ ShowRows
  BY <1>1, <1>4, ReturnTyped
     DEF Answered, ReadBreaksOff, ShowRows, Return, CloseAndReturn, ClientOK, ClientRecord, Counted,
         Busy, ClientPcs
<1>5. CASE ShowInfo
  BY <1>1, <1>5 DEF ShowInfo, CloseAndReturn, Leave, ClientOK, ClientRecord, Counted, Busy, ClientPcs
<1>6. CASE Redirected
  <2>1. REDIRECT \in Byte /\ "address" \in ClientPcs
    BY CodesTyped DEF Codes, ClientPcs
  <2>2. client' = [client EXCEPT !.pc = "address", !.response = REDIRECT]
    BY <1>6 DEF Redirected
  <2>3. QED
    BY <1>1, <1>6, <2>1, <2>2 DEF Redirected, ClientOK, ClientRecord, Counted, Busy
<1>7. CASE Follow
  <2> DEFINE open == fds \ {client.connection_socket}
             s == Min(Free(open))
  <2>1. Busy /\ client.connection_socket \in Free(open)
    BY <1>7 DEF Follow, ClientAt, Busy, LowestSocket, Free
  <2>2. s \in 1 .. MaxFd
    BY <2>1, LowestFree
  <2>3. s \in 0 .. MaxFd
    BY <2>2, SessionAssumption
  <2>4. \/ client' = [client EXCEPT !.pc = "connected", !.peer = "ss", !.ss_connection = s,
                                    !.late = FALSE]
        \/ client' = [client EXCEPT !.pc = "prompt", !.left = @ + 1]
    BY <1>7, Zenon DEF Follow
  <2> HIDE DEF s
  <2>5. QED
    BY <2>1, <2>3, <2>4, ReturnTyped DEF ClientOK, ClientRecord, Counted, Busy, ClientPcs
<1>8. CASE AnsweredBySs
  <2>1. Busy /\ down.got # <<>>
    BY <1>8, HasReceived DEF AnsweredBySs, ClientAt
  <2>2. Responses \subseteq Byte
    BY <2>1, ResponsesTyped DEF ClientOK
  <2> PICK code \in Responses :
        CASE client.cmd = "read" /\ code = OK_START_STREAM -> Go("stream")
          [] client.cmd = "write" /\ code = OK_START_STREAM ->
                client' = [client EXCEPT !.pc = "lines", !.response = code]
          [] client.cmd = "list" /\ code = OK -> Go("rows")
          [] client.cmd = "list" /\ code # OK -> CloseAndReturn
          [] OTHER -> Return
    BY <1>8 DEF AnsweredBySs
  <2>3. code \in Byte
    BY <2>2
  <2>4. \/ Go("stream") \/ Go("rows") \/ CloseAndReturn \/ Return
        \/ client' = [client EXCEPT !.pc = "lines", !.response = code]
    OBVIOUS
  <2>5. CASE client' = [client EXCEPT !.pc = "lines", !.response = code]
    BY <2>1, <2>3, <2>5 DEF ClientOK, ClientRecord, Counted, Busy, ClientPcs
  <2>6. CASE CloseAndReturn
    BY <2>6 DEF CloseAndReturn, ClientOK, ClientRecord, Counted, Busy, ClientPcs
  <2>7. QED
    BY <1>2, <2>1, <2>4, <2>5, <2>6, PcOnly, ReturnTyped DEF Go, Return
<1>9. CASE ShowChunk
  <2>1. client.pc = "stream" /\ down.got # <<>>
    BY <1>9, HasReceived DEF ShowChunk, ClientAt
  <2> PICK data \in Seq(Byte) : data = Payload(Received)
    BY <2>1, LastReceived, PayloadTyped DEF Received
  <2> PICK beyond \in Beyond(data) :
        client' = [client EXCEPT !.received = Append(client.received, data),
                                 !.shown = client.shown \o Text(data) \o beyond]
    BY <1>9 DEF ShowChunk, ClientOK, ClientRecord
  <2>2. Append(client.received, data) \in Seq(Seq(Byte))
    BY AppendProperties DEF ClientOK, ClientRecord
  <2>3. client.shown \o Text(data) \o beyond \in Seq(Byte)
    <3>1. Text(data) \in Seq(Byte) /\ beyond \in Seq(Byte) /\ client.shown \in Seq(Byte)
      BY TextTyped DEF ClientOK, ClientRecord
    <3>2. client.shown \o Text(data) \in Seq(Byte)
      BY <3>1, ConcatProperties
    <3>3. QED
      BY <3>1, <3>2, ConcatProperties
  <2>4. QED
    BY <2>1, <2>2, <2>3 DEF ClientOK, ClientRecord, Counted, Busy, ClientPcs
<1>13. CASE ShowEof
  BY <1>1, <1>13 DEF ShowEof, ClientOK, ClientRecord, Counted, Busy, ClientPcs
<1>10. CASE Written
  <2>1. Busy /\ down.got # <<>>
    BY <1>10, HasReceived DEF Written, ClientAt
  <2>2. Responses \subseteq Byte
    BY <2>1, ResponsesTyped DEF ClientOK
  <2> PICK left \in 0 .. MaxCommands : left = client.left + 1 /\ left <= client.count
    BY <2>1, LeftOver
  <2> PICK code \in Responses :
        client' = [client EXCEPT !.pc = "prompt", !.left = client.left + 1, !.response = code]
    BY <1>10 DEF Written
  <2>3. code \in Byte /\ client' = [client EXCEPT !.pc = "prompt", !.left = left, !.response = code]
    BY <2>2
  <2>4. QED
    BY <2>3 DEF ClientOK, ClientRecord, Counted, Busy, ClientPcs
<1>11. CASE ClientRecv \/ ClientSend
  <2>1. client' = client \/ client' = [client EXCEPT !.late = ~ down.open]
    BY <1>11 DEF ClientRecv, ClientSend
  <2>2. (~ down.open) \in BOOLEAN
    OBVIOUS
  <2>3. QED
    BY <2>1, <2>2 DEF ClientOK, ClientRecord, Counted, Busy
<1>12. QED
  BY <1>3, <1>4, <1>5, <1>6, <1>7, <1>8, <1>9, <1>10, <1>11, <1>13 DEF ClientStep

LEMMA OtherClientTyped ==
    ASSUME ClientOK, SendLine \/ StopTyping \/ ClientSigpipe \/ ClientReset \/ Gone
    PROVE  ClientOK'
<1>1. CASE SendLine
  <2>1. client.lines + 1 \in 0 .. MaxChunks /\ Busy
    BY <1>1, SessionAssumption DEF SendLine, ClientAt, ClientOK, ClientRecord, Busy
  <2> PICK lines \in 0 .. MaxChunks : lines = client.lines + 1
    BY <2>1
  <2>2. client' = [client EXCEPT !.lines = lines]
    BY <1>1 DEF SendLine, ClientOK, ClientRecord
  <2>3. QED
    BY <2>1, <2>2 DEF ClientOK, ClientRecord, Counted, Busy
<1>2. CASE StopTyping \/ ClientReset
  BY <1>2, ReturnTyped DEF StopTyping, ClientReset, ClientAt, Busy, Return
<1>3. CASE ClientSigpipe \/ Gone
  BY <1>3 DEF ClientSigpipe, Gone, Leave, ClientOK, ClientRecord, Counted, Busy, ClientPcs
<1>4. QED
  BY <1>1, <1>2, <1>3

LEMMA CommandTyped ==
    ASSUME ClientOK, NEW cmd \in Commands, Command(cmd)
    PROVE  ClientOK'
<1> DEFINE s == Min(Free(fds))
<1>1. client.count + 1 \in 0 .. MaxCommands /\ client.left \in 0 .. MaxCommands
  BY SessionAssumption DEF Command, ClientOK, ClientRecord
<1> PICK count \in 0 .. MaxCommands : count = client.count + 1
  BY <1>1
<1>2. ~ Busy /\ client.left <= client.count /\ client.left < count /\ client.count \in Nat
  BY <1>1, SessionAssumption DEF Command, Busy, ClientOK, Counted, ClientRecord
<1>3. \/ client' = [client EXCEPT !.count = count]
      \/ client' = [client EXCEPT !.count = count, !.left = @ + 1]
      \/ /\ Free(fds) # {}
         /\ client' = [IdleClient EXCEPT
              !.pc = "connected", !.cmd = cmd, !.count = count, !.left = client.left,
              !.connection_socket = s]
  BY Zenon DEF Command
<1>4. Free(fds) # {} => s \in 0 .. MaxFd
  BY LowestFree, SessionAssumption
<1> HIDE DEF s
<1>5. CASE client' = [client EXCEPT !.count = count]
  <2>1. client' \in ClientRecord
    BY <1>5 DEF ClientOK, ClientRecord
  <2>2. client'.count = count /\ client'.left = client.left
    BY <1>5 DEF ClientOK, ClientRecord
  <2>3. client.left \in Nat /\ count \in Nat
    BY <1>1, SessionAssumption
  <2>4. Counted'
    BY <1>2, <2>2, <2>3 DEF Counted
  <2>5. QED
    BY <2>1, <2>4 DEF ClientOK
<1>6. CASE client' = [client EXCEPT !.count = count, !.left = @ + 1]
  <2> PICK left \in 0 .. MaxCommands : left = client.left + 1 /\ left <= count
    BY <1>1, <1>2, SessionAssumption
  <2>1. client' = [client EXCEPT !.count = count, !.left = left]
    BY <1>6 DEF ClientOK, ClientRecord
  <2>2. QED
    BY <1>2, <2>1 DEF ClientOK, ClientRecord, Counted, Busy
<1>7. CASE /\ Free(fds) # {}
           /\ client' = [IdleClient EXCEPT
                !.pc = "connected", !.cmd = cmd, !.count = count, !.left = client.left,
                !.connection_socket = s]
  <2>1. /\ Uninitialised \in Byte /\ <<>> \in Seq(Byte) /\ <<>> \in Seq(Seq(Byte))
        /\ 0 \in 0 .. MaxChunks /\ 0 \in 0 .. MaxFd
    BY CodesTyped, EmptySeq, SessionAssumption
  <2>2. client' = [pc |-> "connected", cmd |-> cmd, peer |-> "nm", connection_socket |-> s,
           ss_connection |-> 0, response |-> Uninitialised, received |-> <<>>,
           shown |-> <<>>, printed |-> FALSE, lines |-> 0, count |-> count, left |-> client.left, late |-> FALSE, quit |-> "no"]
    BY <1>7 DEF IdleClient, NoFd
  <2>3. s \in 0 .. MaxFd /\ cmd \in Commands \cup {"none"} /\ client.left \in 0 .. MaxCommands
    BY <1>1, <1>4, <1>7
  <2>4. {"connected", "no"} \subseteq ClientPcs \cup {"no"} /\ "connected" \in ClientPcs
    BY DEF ClientPcs
  <2>5. client' \in ClientRecord
    BY <2>1, <2>2, <2>3, <2>4 DEF ClientRecord
  <2>6. client'.left <= client'.count /\ (Busy' => client'.left < client'.count)
    <3>1. client'.left = client.left /\ client'.count = count
      BY <2>2
    <3>2. client.left <= count
      BY <1>2, <2>3
    <3>3. QED
      BY <1>2, <3>1, <3>2
  <2>7. QED
    BY <2>5, <2>6 DEF ClientOK, Counted
<1>8. QED
  BY <1>3, <1>5, <1>6, <1>7

LEMMA HandlerTyped == \A who \in {"nm", "ss"} : Handler(who) \in ServerRecord
<1>1. Uninitialised \in Byte /\ <<>> \in Seq(Seq(Byte))
  BY CodesTyped, EmptySeq
<1>2. QED
  BY <1>1 DEF Handler, ServerRecord, ServerPcs

(* Where the handler is, something has been received. *)
LEMMA HandlerHasReceived ==
    ASSUME Sound(up), HandlerAsks, up.pc = "idle", server.pc \in {"request", "written"}
    PROVE  up.got # <<>> /\ Len(up.got) \in Nat \ {0} /\ (server.pc = "written" => Len(up.got) > 1)
<1>1. Len(up.got) \in Nat
  BY DEF Sound
<1>2. CASE server.pc = "request"
  BY <1>1, <1>2, EmptySeq DEF HandlerAsks
<1>3. CASE server.pc = "written"
  <2>1. \E m \in 0 .. Len(up.got) : Len(up.got) = m + 2
    BY <1>3 DEF HandlerAsks
  <2>2. QED
    BY <1>1, <1>3, <2>1, EmptySeq
<1>4. QED
  BY <1>2, <1>3

LEMMA ServerStepTyped ==
    ASSUME server \in ServerRecord, Sound(up), HandlerAsks,
           ServerStep \/ ServerSigpipe \/ \E who \in alive : Crash(who)
    PROVE  server' \in ServerRecord
<1>1. ServerPcs = {"accept", "request", "serve", "redirect", "address", "lock", "stream",
                   "write", "written", "stat", "rows", "done"}
  BY DEF ServerPcs
<1>2. CASE ReceiveRequest \/ Invalid \/ NmAnswers \/ NmRedirects \/ NmNotFound
           \/ NmSendsAddress \/ SsAnswers \/ SsReads \/ SsOpens
  BY <1>1, <1>2 DEF ServerRecord, ServerGo, Reply, ReceiveRequest, Invalid, NmAnswers, NmRedirects,
              NmNotFound, NmSendsAddress, SsAnswers, SsReads, SsOpens
<1>3. CASE SsAwaitsChunk \/ SsEndsWrite \/ SsSendsStat \/ SsConfirmsStat \/ SsLists \/ SsSendsRows
  BY <1>1, <1>3 DEF ServerRecord, ServerGo, Reply, SsAwaitsChunk, SsEndsWrite, SsSendsStat,
              SsConfirmsStat, SsLists, SsSendsRows
<1>4. CASE Dispatch
  BY <1>1, <1>4 DEF ServerRecord, Dispatch
<1>5. CASE SsFailsToOpen \/ SsEndsStream \/ SsWritesNothing \/ SsFailsToStat \/ SsWrites
  BY <1>1, <1>5, CodesTyped
     DEF ServerRecord, SsFailsToOpen, SsEndsStream, SsWritesNothing, SsFailsToStat, SsWrites, Codes
<1>6. CASE SsSendsChunk
  <2> PICK chunk \in Chunks : server' = [server EXCEPT !.streamed = Append(server.streamed, chunk)]
    BY <1>6 DEF SsSendsChunk, ServerRecord
  <2>1. chunk \in Seq(Byte)
    BY ChunksTyped
  <2>2. Append(server.streamed, chunk) \in Seq(Seq(Byte))
    BY <2>1, AppendProperties DEF ServerRecord
  <2>3. server' = [server EXCEPT !.streamed = Append(server.streamed, chunk)]
    OBVIOUS
  <2>4. QED
    BY <2>2, <2>3 DEF ServerRecord
<1>7. CASE SsWritesChunk
  <2>1. up.got # <<>>
    BY <1>7, HandlerHasReceived DEF SsWritesChunk, ServerAt
  <2>2. Payload(Last(up.got).item) \in Seq(Byte)
    BY <2>1, LastReceived, PayloadTyped
  <2>3. Append(server.streamed, Payload(Last(up.got).item)) \in Seq(Seq(Byte))
    BY <2>2, AppendProperties DEF ServerRecord
  <2>4. \/ server' = [server EXCEPT !.pc = "write", !.response = OK,
                             !.streamed = Append(server.streamed, Payload(Last(up.got).item))]
        \/ server' = [server EXCEPT !.pc = "done"]
    BY <1>7 DEF SsWritesChunk, Reply, ServerGo, ServerRecord
  <2>5. OK \in Byte
    BY CodesTyped DEF Codes
  <2>6. QED
    BY <1>1, <2>3, <2>4, <2>5 DEF ServerRecord
<1>8. CASE ServerRecv \/ ServerSend \/ ServerSigpipe \/ \E who \in alive : Crash(who)
  <2>1. server' = server \/ server' = [server EXCEPT !.late = ~ up.open]
    BY <1>8 DEF ServerRecv, ServerSend, ServerSigpipe, Crash
  <2>2. (~ up.open) \in BOOLEAN
    OBVIOUS
  <2>3. QED
    BY <2>1, <2>2 DEF ServerRecord
<1>9. QED
  BY <1>2, <1>3, <1>4, <1>5, <1>6, <1>7, <1>8 DEF ServerStep

(* Both, and what the steps of the connection are under them. *)
Held == IInv /\ SessionInv
UpIs ==
    /\ \A i : Up!Start(i) => Started(up, up', i)
    /\ Up!Send => Passed(up, up')
    /\ Up!Close => Closed(up, up')
    /\ Up!AskMessage => AskedFor(up, up', "type", 0)
    /\ Up!Recv => Advances(up, up')
    /\ Up!Reopen => Fresh(up')
DownIs ==
    /\ \A i : Down!Start(i) => Started(down, down', i)
    /\ Down!Send => Passed(down, down')
    /\ Down!Close => Closed(down, down')
    /\ Down!AskMessage => AskedFor(down, down', "type", 0)
    /\ \A n : Down!AskBare(n) => AskedFor(down, down', "bare", n)
    /\ Down!Recv => Advances(down, down')
    /\ Down!Reopen => Fresh(down')

LEMMA HeldParts ==
    ASSUME Held
    PROVE  /\ UpIs /\ DownIs /\ Sound(up) /\ Sound(down) /\ ProcessesOK
           /\ client \in ClientRecord /\ server \in ServerRecord
           /\ Counted /\ OneConnection /\ ClientSends /\ HandlerAsks /\ RequestKnown
           /\ HandlerSends /\ ClientAsks /\ AnswersKnown /\ ShownWell /\ AllWritten
           /\ EmptyAtEof(up) /\ EmptyAtEof(down) /\ AgreeOnWhatComes /\ AfterMix /\ NothingToCome
<1>1. UpProofs!IInv /\ DownProofs!IInv /\ ProcessesOK
  BY DEF Held, IInv
<1>2. UpIs
  BY <1>1, UpSteps, UpAdvances DEF UpIs, Up!AskMessage
<1>3. DownIs
  BY <1>1, DownSteps, DownAdvances DEF DownIs, Down!AskMessage, Down!AskBare
<1>4. Sound(up) /\ Sound(down)
  BY <1>1, UpSound, DownSound
<1>5. QED
  BY <1>1, <1>2, <1>3, <1>4 DEF Held, SessionInv, TypeOK

(* What the steps of a handler change, and what those of a client.         *)
HandlerActs == ServerStep \/ ServerSigpipe \/ \E who \in alive : Crash(who)
ServerEffect ==
    /\ UNCHANGED << client, fds >> /\ server'.who = server.who
    /\ up' = up \/ AskedFor(up, up', "type", 0) \/ Advances(up, up')
    /\ \/ down' = down \/ Passed(down, down') \/ Closed(down, down')
       \/ \E i : Started(down, down', i)

LEMMA ServerEffects ==
    ASSUME UpIs, DownIs, server \in ServerRecord, HandlerActs
    PROVE  ServerEffect
<1>1. CASE ReceiveRequest \/ Dispatch \/ SsOpens \/ SsWritesNothing \/ SsAwaitsChunk
  BY <1>1 DEF UpIs, ServerEffect, ServerRecord, ReceiveRequest, Dispatch, SsOpens, SsWritesNothing,
              SsAwaitsChunk, ServerGo
<1>2. CASE Invalid \/ NmAnswers \/ NmRedirects \/ NmNotFound \/ NmSendsAddress \/ SsAnswers
           \/ SsReads \/ SsFailsToOpen \/ SsSendsChunk
  <2>1. UNCHANGED << client, fds, up >> /\ server'.who = server.who
    BY <1>2 DEF ServerRecord, Invalid, NmAnswers, NmRedirects, NmNotFound,
                NmSendsAddress, SsAnswers, SsReads, SsFailsToOpen, SsSendsChunk, Reply, ServerGo
  <2>2. \E i : Down!Start(i)
    BY <1>2 DEF Invalid, NmAnswers, NmRedirects, NmNotFound,
                NmSendsAddress, SsAnswers, SsReads, SsFailsToOpen, SsSendsChunk, Reply
  <2>3. QED
    BY <2>1, <2>2, Zenon DEF DownIs, ServerEffect
<1>3. CASE SsEndsStream \/ SsWrites \/ SsEndsWrite \/ SsSendsStat \/ SsConfirmsStat
           \/ SsFailsToStat \/ SsLists \/ SsSendsRows
  <2>1. UNCHANGED << client, fds, up >> /\ server'.who = server.who
    BY <1>3 DEF ServerRecord, SsEndsStream, SsWrites, SsEndsWrite, SsSendsStat, SsConfirmsStat,
                SsFailsToStat, SsLists, SsSendsRows, Reply, ServerGo
  <2>2. \E i : Down!Start(i)
    BY <1>3 DEF SsEndsStream, SsWrites, SsEndsWrite, SsSendsStat, SsConfirmsStat,
                SsFailsToStat, SsLists, SsSendsRows, Reply
  <2>3. QED
    BY <2>1, <2>2, Zenon DEF DownIs, ServerEffect
<1>4. CASE SsWritesChunk
  <2>1. UNCHANGED << client, fds, up >> /\ server'.who = server.who
    BY <1>4 DEF ServerRecord, SsWritesChunk, Reply, ServerGo
  <2>2. down' = down \/ \E i : Down!Start(i)
    BY <1>4 DEF SsWritesChunk, Reply
  <2>3. QED
    BY <2>1, <2>2, Zenon DEF DownIs, ServerEffect
<1>5. CASE ServerRecv \/ ServerSend
  BY <1>5 DEF UpIs, DownIs, ServerEffect, ServerRecord, ServerRecv, ServerSend
<1>6. CASE ServerSigpipe \/ \E who \in alive : Crash(who)
  BY <1>6 DEF DownIs, ServerEffect, ServerRecord, ServerSigpipe, Crash
<1>7. QED
  BY <1>1, <1>2, <1>3, <1>4, <1>5, <1>6 DEF HandlerActs, ServerStep

ClientActs ==
    \/ SendRequest \/ AwaitAnswer \/ Redirected \/ Answered \/ AnsweredBySs
    \/ ShowChunk \/ ShowEof \/ ReadBreaksOff \/ SendEnd \/ AwaitFinal \/ Written
    \/ AwaitResponse \/ ShowInfo \/ ShowRows \/ ClientRecv \/ ClientSend
    \/ SendLine \/ StopTyping \/ ClientSigpipe \/ ClientReset \/ Gone
ClientEffect ==
    /\ server' = server /\ client'.cmd = client.cmd /\ client'.peer = client.peer
    /\ \/ up' = up \/ Passed(up, up') \/ Closed(up, up')
       \/ \E i : Started(up, up', i)
    /\ \/ down' = down \/ Advances(down, down')
       \/ \E pc, n : AskedFor(down, down', pc, n)

LEMMA ClientEffects ==
    ASSUME UpIs, DownIs, client \in ClientRecord, ClientActs
    PROVE  ClientEffect
<1>1. CASE SendRequest \/ SendLine \/ SendEnd
  BY <1>1 DEF UpIs, ClientEffect, ClientRecord, SendRequest, SendLine, SendEnd, Go
<1>2. CASE AwaitAnswer \/ Redirected \/ AwaitFinal \/ AwaitResponse \/ ShowChunk
  <2>1. server' = server /\ up' = up /\ client'.cmd = client.cmd /\ client'.peer = client.peer
    BY <1>2 DEF ClientRecord, AwaitAnswer, Redirected, AwaitFinal, AwaitResponse, ShowChunk, Go
  <2>2. Down!AskMessage \/ \E n : Down!AskBare(n)
    BY <1>2 DEF AwaitAnswer, Redirected, AwaitFinal, AwaitResponse, ShowChunk
  <2>3. QED
    BY <2>1, <2>2, Zenon DEF DownIs, ClientEffect
<1>3. CASE Answered \/ ShowEof \/ ReadBreaksOff \/ Written \/ ShowInfo \/ ShowRows \/ StopTyping
           \/ ClientSigpipe \/ ClientReset \/ Gone
  <2>1. server' = server /\ down' = down /\ client'.cmd = client.cmd /\ client'.peer = client.peer
    BY <1>3 DEF ClientRecord, Answered, ShowEof, ReadBreaksOff, Written, ShowInfo, ShowRows,
                StopTyping, ClientSigpipe, ClientReset, Gone, Return, CloseAndReturn, Leave
  <2>2. Up!Close \/ up' = up
    BY <1>3 DEF Answered, ShowEof, ReadBreaksOff, Written, ShowInfo, ShowRows,
                StopTyping, ClientSigpipe, ClientReset, Gone, Return, CloseAndReturn, Leave
  <2>3. QED
    BY <2>1, <2>2, Zenon DEF UpIs, ClientEffect
<1>4. CASE AnsweredBySs
  <2>1. server' = server /\ client'.cmd = client.cmd /\ client'.peer = client.peer
    BY <1>4 DEF ClientRecord, AnsweredBySs, Go, Return, CloseAndReturn
  <2>2. (Up!Close \/ up' = up) /\ (Down!AskMessage \/ down' = down \/ \E n : Down!AskBare(n))
    BY <1>4 DEF AnsweredBySs, Go, Return, CloseAndReturn
  <2>3. QED
    BY <2>1, <2>2, Zenon DEF UpIs, DownIs, ClientEffect
<1>5. CASE ClientRecv \/ ClientSend
  BY <1>5 DEF UpIs, DownIs, ClientEffect, ClientRecord, ClientRecv, ClientSend
<1>6. QED
  BY <1>1, <1>2, <1>3, <1>4, <1>5 DEF ClientActs

(* A new connection, for a command or to the server that was named, or a   *)
(* command that comes to nothing for want of a socket or a server.         *)
Connects ==
    /\ Fresh(up') /\ Fresh(down')
    /\ \/ \E cmd \in Commands :
            /\ client.pc = "prompt" /\ server' = Handler("nm")
            /\ \E count, left, s :
                 client' = [IdleClient EXCEPT
                    !.pc = "connected", !.cmd = cmd, !.count = count, !.left = left,
                    !.connection_socket = s]
       \/ /\ client.pc = "address" /\ server' = Handler("ss")
          /\ \E s :
                client' = [client EXCEPT !.pc = "connected", !.peer = "ss",
                                         !.ss_connection = s, !.late = FALSE]
ComesToNothing ==
    /\ UNCHANGED << down, server >>
    /\ \/ /\ client.pc = "prompt" /\ up' = up
          /\ \E count, left : client' = [client EXCEPT !.count = count, !.left = left]
       \/ /\ client.pc = "address"
          /\ Received # Address \/ "ss" \notin alive
          /\ up' = up \/ Closed(up, up')
          /\ up.open => Closed(up, up')
          /\ down.pc = "idle"
          /\ \E left : client' = [client EXCEPT !.pc = "prompt", !.left = left]

LEMMA ConnectEffects ==
    ASSUME UpIs, DownIs, client \in ClientRecord, Follow \/ \E cmd \in Commands : Command(cmd)
    PROVE  Connects \/ ComesToNothing
<1>1. \A who : Connect(who) => Fresh(up') /\ Fresh(down') /\ server' = Handler(who)
  BY DEF UpIs, DownIs, Connect
<1>2. CASE Follow
  <2> DEFINE s == Min(Free(fds \ {client.connection_socket}))
  <2>1. /\ client.pc = "address" /\ down.pc = "idle"
        /\ \/ /\ Connect("ss")
              /\ client' = [client EXCEPT !.pc = "connected", !.peer = "ss",
                                          !.ss_connection = s, !.late = FALSE]
           \/ /\ Received # Address \/ "ss" \notin alive
              /\ client' = [client EXCEPT !.pc = "prompt", !.left = client.left + 1]
              /\ IF up.open THEN Up!Close ELSE UNCHANGED up
              /\ UNCHANGED << down, server >>
    BY <1>2, Zenon DEF Follow, ClientAt, ClientRecord
  <2>2. QED
    BY <1>1, <2>1, Zenon DEF Connects, ComesToNothing, UpIs
<1>3. ASSUME NEW cmd \in Commands, Command(cmd)
      PROVE  Connects \/ ComesToNothing
  <2> DEFINE s == Min(Free(fds))
  <2>1. /\ client.pc = "prompt"
        /\ \/ /\ client' = [client EXCEPT !.count = client.count + 1, !.left = client.left]
              /\ UNCHANGED << up, down, server >>
           \/ /\ client' = [client EXCEPT !.count = client.count + 1, !.left = client.left + 1]
              /\ UNCHANGED << up, down, server >>
           \/ /\ Connect("nm")
              /\ client' = [IdleClient EXCEPT
                   !.pc = "connected", !.cmd = cmd, !.count = client.count + 1,
                   !.left = client.left, !.connection_socket = s]
    BY <1>3 DEF Command, ClientRecord
  <2>2. QED
    BY <1>1, <2>1, Zenon DEF Connects, ComesToNothing
<1>4. QED
  BY <1>2, <1>3

(* Every step is one of these. *)
LEMMA StepKinds ==
    ASSUME Held, Next
    PROVE  \/ ClientActs /\ ClientEffect
           \/ HandlerActs /\ ServerEffect
           \/ Connects \/ ComesToNothing
BY HeldParts, ClientEffects, ServerEffects, ConnectEffects
   DEF Next, ClientStep, ClientActs, HandlerActs

LEMMA BusyEffects ==
    ASSUME client \in ClientRecord, ClientActs, Busy'
    PROVE  Busy /\ (up' = up \/ Up!Send \/ \E i : Up!Start(i))
<1>1. \A pc : ClientAt(pc) /\ pc \notin {"prompt", "gone"} => Busy
  BY DEF ClientAt, Busy
<1>2. CASE SendRequest \/ SendLine \/ SendEnd
  BY <1>1, <1>2 DEF SendRequest, SendLine, SendEnd
<1>3. CASE AwaitAnswer \/ Redirected \/ AwaitFinal \/ AwaitResponse \/ ShowChunk
  BY <1>1, <1>3 DEF AwaitAnswer, Redirected, AwaitFinal, AwaitResponse, ShowChunk
<1>4. CASE Answered \/ ShowEof \/ ReadBreaksOff \/ Written \/ ShowInfo \/ ShowRows \/ StopTyping
           \/ ClientSigpipe \/ ClientReset \/ Gone
  BY <1>4 DEF Busy, ClientRecord, Answered, ShowEof, ReadBreaksOff, Written, ShowInfo, ShowRows,
              StopTyping, ClientSigpipe, ClientReset, Gone, Return, CloseAndReturn, Leave
<1>5. CASE AnsweredBySs
  BY <1>1, <1>5 DEF Busy, ClientRecord, AnsweredBySs, Go, Return, CloseAndReturn
<1>6. CASE ClientRecv \/ ClientSend
  BY <1>6 DEF ClientRecv, ClientSend
<1>7. QED
  BY <1>2, <1>3, <1>4, <1>5, <1>6 DEF ClientActs

(* A direction that the client has, it keeps until it is at its prompt. *)
LEMMA UpStaysOpen ==
    ASSUME Held, ClientActs, Busy'
    PROVE  Busy /\ up'.open = up.open
<1>1. UpIs /\ client \in ClientRecord
  BY HeldParts
<1>2. Busy /\ (up' = up \/ Up!Send \/ \E i : Up!Start(i))
  BY <1>1, BusyEffects
<1>3. QED
  BY <1>1, <1>2 DEF UpIs, Passed, Started

(* What a new connection is like. *)
LEMMA ConnectsMeans ==
    ASSUME Held, Connects
    PROVE  /\ Fresh(up') /\ Fresh(down') /\ client'.pc = "connected" /\ client'.late = FALSE
           /\ \/ /\ client.pc = "prompt" /\ server' = Handler("nm") /\ client'.peer = "nm"
                 /\ client'.cmd \in Commands /\ client'.received = <<>>
                 /\ client'.shown = <<>> /\ client'.lines = 0
                 /\ client'.printed = FALSE /\ client'.response = Uninitialised
              \/ /\ client.pc = "address" /\ server' = Handler("ss") /\ client'.peer = "ss"
                 /\ client'.cmd = client.cmd /\ client'.received = client.received /\ client'.shown = client.shown
                 /\ client'.lines = client.lines /\ client'.printed = client.printed
                 /\ client'.response = client.response
<1>1. client \in ClientRecord
  BY HeldParts
<1>2. ASSUME NEW cmd \in Commands, NEW count, NEW left, NEW s,
             client' = [IdleClient EXCEPT
                    !.pc = "connected", !.cmd = cmd, !.count = count, !.left = left,
                    !.connection_socket = s]
      PROVE  /\ client'.pc = "connected" /\ client'.late = FALSE /\ client'.peer = "nm"
             /\ client'.cmd \in Commands /\ client'.received = <<>>
             /\ client'.shown = <<>> /\ client'.lines = 0
             /\ client'.printed = FALSE /\ client'.response = Uninitialised
  BY <1>2 DEF IdleClient
<1>3. ASSUME NEW s, client' = [client EXCEPT !.pc = "connected", !.peer = "ss",
                                             !.ss_connection = s, !.late = FALSE]
      PROVE  /\ client'.pc = "connected" /\ client'.late = FALSE /\ client'.peer = "ss"
             /\ client'.cmd = client.cmd /\ client'.received = client.received /\ client'.shown = client.shown
             /\ client'.lines = client.lines /\ client'.printed = client.printed
             /\ client'.response = client.response
  BY <1>1, <1>3 DEF ClientRecord
<1>4. Fresh(up') /\ Fresh(down')
  BY DEF Connects
<1>5. CASE /\ client.pc = "prompt" /\ server' = Handler("nm")
           /\ \E cmd \in Commands : \E count, left, s :
                 client' = [IdleClient EXCEPT
                    !.pc = "connected", !.cmd = cmd, !.count = count, !.left = left,
                    !.connection_socket = s]
  <2> PICK cmd \in Commands : \E count, left, s :
         client' = [IdleClient EXCEPT
                    !.pc = "connected", !.cmd = cmd, !.count = count, !.left = left,
                    !.connection_socket = s]
    BY <1>5, Zenon
  <2> PICK count, left, s :
         client' = [IdleClient EXCEPT
                    !.pc = "connected", !.cmd = cmd, !.count = count, !.left = left,
                    !.connection_socket = s]
    OBVIOUS
  <2>1. QED
    BY <1>2, <1>4, <1>5
<1>6. CASE /\ client.pc = "address" /\ server' = Handler("ss")
           /\ \E s :
                client' = [client EXCEPT !.pc = "connected", !.peer = "ss",
                                         !.ss_connection = s, !.late = FALSE]
  BY <1>3, <1>4, <1>6
<1>7. QED
  BY <1>5, <1>6, Zenon DEF Connects

(* What is left after a command that comes to nothing. *)
LEMMA NothingMeans ==
    ASSUME Held, ComesToNothing
    PROVE  /\ server' = server /\ down' = down
           /\ client'.cmd = client.cmd /\ client'.peer = client.peer /\ client'.late = client.late
           /\ client'.received = client.received /\ client'.shown = client.shown /\ client'.lines = client.lines
           /\ client'.printed = client.printed /\ client'.response = client.response
           /\ client'.pc = "prompt"
           /\ \/ client.pc = "prompt" /\ up' = up
              \/ /\ client.pc = "address" /\ client.peer = "nm" /\ down.pc = "idle"
                 /\ Received # Address \/ "ss" \notin alive
                 /\ Closed(up, up')
<1>1. client \in ClientRecord /\ OneConnection /\ ClientAsks
  BY HeldParts
<1>2. ASSUME NEW count, NEW left, client.pc = "prompt",
             client' = [client EXCEPT !.count = count, !.left = left]
      PROVE  /\ client'.cmd = client.cmd /\ client'.peer = client.peer /\ client'.late = client.late
             /\ client'.received = client.received /\ client'.shown = client.shown /\ client'.lines = client.lines
             /\ client'.printed = client.printed /\ client'.response = client.response
             /\ client'.pc = "prompt"
  BY <1>1, <1>2 DEF ClientRecord
<1>3. ASSUME NEW left, client' = [client EXCEPT !.pc = "prompt", !.left = left]
      PROVE  /\ client'.cmd = client.cmd /\ client'.peer = client.peer /\ client'.late = client.late
             /\ client'.received = client.received /\ client'.shown = client.shown /\ client'.lines = client.lines
             /\ client'.printed = client.printed /\ client'.response = client.response
             /\ client'.pc = "prompt"
  BY <1>1, <1>3 DEF ClientRecord
<1>4. client.pc = "address" => client.peer = "nm" /\ up.open
  BY <1>1 DEF ClientAsks, OneConnection, Busy
<1>5. CASE /\ client.pc = "prompt" /\ up' = up
           /\ \E count, left : client' = [client EXCEPT !.count = count, !.left = left]
  BY <1>2, <1>5 DEF ComesToNothing
<1>6. CASE /\ client.pc = "address"
           /\ Received # Address \/ "ss" \notin alive
           /\ up.open => Closed(up, up')
           /\ down.pc = "idle"
           /\ \E left : client' = [client EXCEPT !.pc = "prompt", !.left = left]
  BY <1>3, <1>4, <1>6 DEF ComesToNothing
<1>7. QED
  BY <1>5, <1>6, Zenon DEF ComesToNothing

LEMMA OneConnectionKept ==
    ASSUME Held, Next
    PROVE  OneConnection'
<1>1. /\ UpIs /\ DownIs /\ OneConnection /\ ClientAsks
      /\ client \in ClientRecord /\ server \in ServerRecord
  BY HeldParts
<1>2. CASE HandlerActs /\ ServerEffect
  <2>1. client' = client /\ up'.open = up.open /\ server'.who = server.who
    BY <1>2 DEF ServerEffect, AskedFor, Advances
  <2>2. down'.open => down.open
    BY <1>2 DEF ServerEffect, Passed, Closed, Started
  <2>3. QED
    BY <1>1, <2>1, <2>2 DEF OneConnection, Busy
<1>3. CASE Connects
  <2>1. client.pc = "address" => client.cmd \in {"read", "write", "get", "list"}
    BY <1>1 DEF ClientAsks
  <2>2. \A who : Handler(who).who = who
    BY DEF Handler
  <2>3. server'.who = client'.peer /\ up'.open /\ ~ client'.late
        /\ (client'.peer = "ss" => client'.cmd \in {"read", "write", "get", "list"})
    <3>1. up'.open
      BY <1>3, ConnectsMeans DEF Fresh
    <3>2. QED
      BY <1>3, <2>1, <2>2, <3>1, ConnectsMeans
  <2>4. QED
    BY <2>3 DEF OneConnection
<1>4. CASE ComesToNothing
  <2>1. /\ server' = server /\ down' = down
        /\ client'.cmd = client.cmd /\ client'.peer = client.peer /\ client'.late = client.late
        /\ client'.pc = "prompt"
        /\ up'.open = up.open \/ client.peer = "nm"
        /\ client.pc # "gone"
    BY <1>4, NothingMeans
  <2>2. QED
    BY <1>1, <2>1 DEF OneConnection, Busy
<1>5. CASE ClientActs /\ ClientEffect
  <2>1. /\ server' = server /\ client'.cmd = client.cmd /\ client'.peer = client.peer
        /\ down'.open = down.open
    BY <1>5 DEF ClientEffect, Advances, AskedFor
  <2>2. Busy' => up'.open
    BY <1>1, <1>5, UpStaysOpen DEF OneConnection
  <2>3. client'.late => ~ down.open
    <3>1. CASE ClientSend
      BY <1>1, <3>1 DEF ClientSend, ClientRecord
    <3>2. CASE ClientActs /\ ~ ClientSend
      <4>1. client'.late = client.late
        <5>1. CASE SendRequest \/ AwaitAnswer \/ Redirected \/ Answered \/ ShowChunk \/ ShowEof
                   \/ ReadBreaksOff \/ SendEnd \/ AwaitFinal \/ Written
          BY <1>1, <5>1 DEF ClientRecord, SendRequest, AwaitAnswer, Redirected, Answered, ShowChunk,
                            ShowEof, ReadBreaksOff, SendEnd, AwaitFinal, Written, Go, Return,
                            CloseAndReturn
        <5>2. CASE AnsweredBySs
          BY <1>1, <5>2 DEF ClientRecord, AnsweredBySs, Go, Return, CloseAndReturn
        <5>3. CASE AwaitResponse \/ ShowInfo \/ ShowRows \/ ClientRecv \/ SendLine \/ StopTyping
                   \/ ClientSigpipe \/ ClientReset \/ Gone
          BY <1>1, <5>3 DEF ClientRecord, AwaitResponse, ShowInfo, ShowRows, ClientRecv, SendLine,
                            StopTyping, ClientSigpipe, ClientReset, Gone, Go, Return,
                            CloseAndReturn, Leave
        <5>4. QED
          BY <3>2, <5>1, <5>2, <5>3 DEF ClientActs
      <4>2. QED
        BY <1>1, <4>1 DEF OneConnection
    <3>3. QED
      BY <1>5, <3>1, <3>2
  <2>4. ASSUME client.cmd = "write", client.peer = "ss", client'.pc # "gone"
        PROVE  up'.open
    <3>1. client.pc # "gone" /\ up.open
      <4>1. client.pc # "gone"
        BY <1>5, <2>4 DEF ClientActs, ClientAt, SendRequest, AwaitAnswer, Redirected, Answered,
            AnsweredBySs, ShowChunk, ShowEof, ReadBreaksOff, SendEnd, AwaitFinal, Written, AwaitResponse,
            ShowInfo, ShowRows, ClientRecv, ClientSend, SendLine, StopTyping, ClientSigpipe,
            ClientReset, Gone, Busy
      <4>2. QED
        BY <1>1, <2>4, <4>1 DEF OneConnection
    <3>2. up' = up \/ Up!Send \/ \E i : Up!Start(i)
      <4>1. CASE Busy'
        BY <1>1, <1>5, <4>1, BusyEffects
      <4>2. CASE ~ Busy'
        <5>1. ~ (ShowEof \/ ShowInfo \/ ShowRows \/ Answered)
          BY <1>1, <2>4 DEF ShowEof, ShowInfo, ShowRows, Answered, ClientAt, ClientAsks, Does
        <5>2. ~ (ClientSigpipe \/ Gone)
          BY <1>1, <2>4 DEF ClientSigpipe, Gone, Leave, ClientRecord
        <5>3. CASE AnsweredBySs
          BY <2>4, <5>3 DEF AnsweredBySs, Return
        <5>4. CASE ReadBreaksOff \/ Written \/ StopTyping \/ ClientReset
          BY <5>4 DEF ReadBreaksOff, Written, StopTyping, ClientReset, Return
        <5>5. CASE SendRequest \/ AwaitAnswer \/ Redirected \/ ShowChunk \/ SendEnd \/ AwaitFinal
                   \/ AwaitResponse \/ ClientRecv \/ ClientSend \/ SendLine
          BY <5>5 DEF SendRequest, AwaitAnswer, Redirected, ShowChunk, SendEnd, AwaitFinal,
                      AwaitResponse, ClientRecv, ClientSend, SendLine
        <5>6. QED
          BY <1>5, <5>1, <5>2, <5>3, <5>4, <5>5 DEF ClientActs
      <4>3. QED
        BY <4>1, <4>2
    <3>3. QED
      BY <1>1, <3>1, <3>2 DEF UpIs, Passed, Started
  <2>5. QED
    BY <1>1, <2>1, <2>2, <2>3, <2>4 DEF OneConnection
<1>6. QED
  BY <1>2, <1>3, <1>4, <1>5, StepKinds

(* The steps of a client that sends nothing new. *)
LEMMA QuietClient ==
    ASSUME Held, ClientActs, ~ (SendRequest \/ SendLine \/ SendEnd)
    PROVE  /\ up'.sent = up.sent /\ client'.lines = client.lines
           /\ client'.cmd = client.cmd /\ client'.peer = client.peer
           /\ client'.pc = "connected" => client.pc = "connected"
           /\ Busy' => /\ Busy /\ (client'.pc # "connected" => client.pc # "connected")
                       /\ client'.pc \in {"ending", "final"} <=> client.pc \in {"ending", "final"}
<1>1. UpIs /\ client \in ClientRecord
  BY HeldParts
<1>2. up' = up \/ Up!Send \/ Up!Close => up'.sent = up.sent
  BY <1>1 DEF UpIs, Passed, Closed
<1>3. CASE AwaitAnswer \/ Redirected \/ AwaitFinal \/ AwaitResponse \/ ShowChunk
  BY <1>1, <1>3 DEF ClientRecord, Busy, ClientAt, AwaitAnswer, Redirected, AwaitFinal,
                    AwaitResponse, ShowChunk, Go
<1>4. CASE Answered \/ ShowEof \/ ReadBreaksOff \/ Written
  BY <1>1, <1>2, <1>4 DEF ClientRecord, Busy, ClientAt, Answered, ShowEof, ReadBreaksOff, Written,
                          Return, CloseAndReturn
<1>5. CASE ShowInfo \/ ShowRows \/ StopTyping \/ ClientSigpipe \/ ClientReset \/ Gone
  BY <1>1, <1>2, <1>5 DEF ClientRecord, Busy, ClientAt, ShowInfo, ShowRows, StopTyping,
                          ClientSigpipe, ClientReset, Gone, Return, CloseAndReturn, Leave
<1>6. CASE AnsweredBySs
  BY <1>1, <1>2, <1>6 DEF ClientRecord, Busy, ClientAt, AnsweredBySs, Go, Return, CloseAndReturn
<1>7. CASE ClientRecv \/ ClientSend
  BY <1>1, <1>2, <1>7 DEF ClientRecord, Busy, ClientRecv, ClientSend
<1>8. QED
  BY <1>3, <1>4, <1>5, <1>6, <1>7 DEF ClientActs

LEMMA SentIsTyped == Held => up.sent \in Seq(ItemRecord) /\ down.sent \in Seq(ItemRecord)
BY HeldParts DEF Sound

(* A sequence of one more. *)
LEMMA OneMore ==
    ASSUME NEW s \in Seq(ItemRecord), NEW x \in ItemRecord
    PROVE  /\ Append(s, x) # <<>> /\ Len(Append(s, x)) = Len(s) + 1
           /\ \A i \in 1 .. Len(s) : Append(s, x)[i] = s[i]
           /\ Append(s, x)[Len(s) + 1] = x /\ Len(s) \in Nat
           /\ (s = <<>> <=> Len(s) = 0)
           /\ Last(Append(s, x)) = x
<1>1. Append(s, x) \in Seq(ItemRecord)
  OBVIOUS
<1>2. Len(Append(s, x)) = Len(s) + 1 /\ Append(s, x)[Len(s) + 1] = x
  OBVIOUS
<1>3. QED
  BY <1>1, <1>2, EmptySeq DEF Last

LEMMA TrafficIsItems == Traffic \subseteq ItemRecord
BY TrafficWellFormed DEF WellFormed

LEMMA ClientSendsKept ==
    ASSUME Held, Next
    PROVE  ClientSends'
<1>1. /\ UpIs /\ DownIs /\ ClientSends /\ CommandKnown
      /\ client \in ClientRecord /\ server \in ServerRecord /\ up.sent \in Seq(ItemRecord)
  BY HeldParts, SentIsTyped DEF ProcessesOK
<1>2. CASE HandlerActs /\ ServerEffect
  <2>1. client' = client /\ up'.sent = up.sent
    BY <1>2 DEF ServerEffect, AskedFor, Advances
  <2>2. QED
    BY <1>1, <2>1 DEF ClientSends, Busy, Asking
<1>3. CASE Connects
  <2>1. up'.sent = <<>> /\ client'.pc = "connected" /\ client'.lines = 0
    <3>1. client.peer = "nm" => client.lines = 0
      BY <1>1 DEF ClientSends
    <3>2. client.pc = "address" => client.peer = "nm"
      BY HeldParts DEF ClientAsks
    <3>3. QED
      BY <1>3, <3>1, <3>2, ConnectsMeans DEF Fresh
  <2>2. QED
    BY <2>1 DEF ClientSends, Busy
<1>4. CASE ComesToNothing
  <2>1. /\ client'.cmd = client.cmd /\ client'.peer = client.peer /\ client'.lines = client.lines
        /\ client'.pc = "prompt" /\ up'.sent = up.sent
    BY <1>4, NothingMeans DEF Closed
  <2>2. QED
    BY <1>1, <2>1 DEF ClientSends, Busy, Asking
<1>5. CASE ClientActs /\ ~ (SendRequest \/ SendLine \/ SendEnd)
  <2>1. /\ up'.sent = up.sent /\ client'.lines = client.lines
        /\ client'.cmd = client.cmd /\ client'.peer = client.peer
        /\ client'.pc = "connected" => client.pc = "connected"
        /\ Busy' => /\ Busy /\ (client'.pc # "connected" => client.pc # "connected")
                    /\ client'.pc \in {"ending", "final"} <=> client.pc \in {"ending", "final"}
    BY <1>5, QuietClient
  <2>2. QED
    BY <1>1, <2>1 DEF ClientSends, Asking
<1>6. CASE SendRequest
  <2> DEFINE item == Request(Asking)
  <2>1. item \in ItemRecord
    BY <1>6, InTraffic, TrafficIsItems, SessionAssumption, <1>1 DEF Asking, CommandKnown, SendRequest, ClientAt, Busy, Traffic, Ops, Opcode
  <2>2. /\ client.pc = "connected" /\ up.sent = <<>> /\ Up!Start(item)
        /\ client' = [client EXCEPT !.pc = "request"]
    BY <1>1, <1>6 DEF SendRequest, ClientAt, ClientSends, Go, Asking
  <2>3. up'.sent = Append(<<>>, item) /\ client.lines = 0
    BY <1>1, <2>2 DEF UpIs, Started, ClientSends
  <2>4. /\ client'.cmd = client.cmd /\ client'.peer = client.peer /\ client'.lines = 0
        /\ client'.pc = "request" /\ Asking' = Asking /\ client.cmd \in Commands
    BY <1>1, <2>2, <2>3 DEF ClientRecord, CommandKnown, Busy, Asking
  <2>5. Len(up'.sent) = 1 /\ up'.sent[1] = item /\ up'.sent # <<>>
    BY <2>3, <2>1, OneMore, EmptySeq
  <2> HIDE DEF item
  <2>6. QED
    BY <2>4, <2>5 DEF ClientSends, item, Busy
<1>7. CASE SendLine
  <2>1. /\ client.pc = "lines" /\ Up!Start(Stream(Line)) /\ client.lines \in Nat
        /\ client'.lines = client.lines + 1 /\ client'.pc = "lines"
        /\ client'.cmd = client.cmd /\ client'.peer = client.peer
    BY <1>1, <1>7 DEF SendLine, ClientAt, ClientRecord
  <2>2. up.sent # <<>> /\ Len(up.sent) = client.lines + 1 /\ client.peer # "nm"
    BY <1>1, <2>1, HeldParts DEF ClientSends, Busy, ClientAsks, Does
  <2>3. Stream(Line) \in ItemRecord
    BY TrafficIsItems DEF Traffic
  <2>4. up'.sent = Append(up.sent, Stream(Line))
    BY <1>1, <2>1 DEF UpIs, Started
  <2>5. /\ up'.sent # <<>> /\ Len(up'.sent) = client.lines + 2
        /\ \A i \in 1 .. Len(up.sent) : up'.sent[i] = up.sent[i]
        /\ up'.sent[client.lines + 2] = Stream(Line)
    BY <1>1, <2>1, <2>2, <2>3, <2>4, OneMore
  <2>6. Asking' = Asking /\ Busy /\ Busy'
    BY <2>1 DEF Asking, Busy
  <2>7. \A i \in 2 .. client.lines + 2 : up'.sent[i] = Stream(Line)
    <3>1. \A i \in 2 .. client.lines + 1 : i \in 1 .. Len(up.sent) /\ up.sent[i] = Stream(Line)
      BY <1>1, <2>1, <2>2 DEF ClientSends
    <3>2. \A i \in 2 .. client.lines + 2 : i \in 2 .. client.lines + 1 \/ i = client.lines + 2
      BY <2>1
    <3>3. QED
      BY <2>5, <3>1, <3>2, Zenon
  <2>8. up'.sent[1] = Request(Asking) /\ client.cmd \in Commands
    <3>1. up.sent[1] = Request(Asking) /\ client.cmd \in Commands
      BY <1>1, <2>2, Zenon DEF ClientSends
    <3>2. 1 \in 1 .. Len(up.sent)
      BY <2>1, <2>2
    <3>3. QED
      BY <2>5, <3>1, <3>2, Zenon
  <2>9. QED
    BY <1>1, <2>1, <2>2, <2>5, <2>6, <2>7, <2>8 DEF ClientSends
<1>8. CASE SendEnd
  <2>1. /\ client.pc = "lines" /\ Up!Start(StreamEnd) /\ client.lines \in Nat
        /\ client'.lines = client.lines /\ client'.pc = "ending"
        /\ client'.cmd = client.cmd /\ client'.peer = client.peer
    BY <1>1, <1>8 DEF SendEnd, ClientAt, ClientRecord, Go
  <2>2. up.sent # <<>> /\ Len(up.sent) = client.lines + 1 /\ client.peer # "nm"
    BY <1>1, <2>1, HeldParts DEF ClientSends, Busy, ClientAsks, Does
  <2>3. StreamEnd \in ItemRecord
    BY TrafficIsItems DEF Traffic
  <2>4. up'.sent = Append(up.sent, StreamEnd)
    BY <1>1, <2>1 DEF UpIs, Started
  <2>5. /\ up'.sent # <<>> /\ Len(up'.sent) = client.lines + 2
        /\ \A i \in 1 .. Len(up.sent) : up'.sent[i] = up.sent[i]
        /\ up'.sent[client.lines + 2] = StreamEnd
    BY <1>1, <2>1, <2>2, <2>3, <2>4, OneMore
  <2>6. Asking' = Asking /\ Busy /\ Busy'
    BY <2>1 DEF Asking, Busy
  <2>7. \A i \in 2 .. client.lines + 1 : up'.sent[i] = Stream(Line)
    BY <1>1, <2>1, <2>2, <2>5 DEF ClientSends
  <2>8. up'.sent[1] = Request(Asking) /\ client.cmd \in Commands
    <3>1. up.sent[1] = Request(Asking) /\ client.cmd \in Commands
      BY <1>1, <2>2, Zenon DEF ClientSends
    <3>2. 1 \in 1 .. Len(up.sent)
      BY <2>1, <2>2
    <3>3. QED
      BY <2>5, <3>1, <3>2, Zenon
  <2>9. QED
    BY <1>1, <2>1, <2>2, <2>5, <2>6, <2>7, <2>8 DEF ClientSends
<1>9. QED
  BY <1>2, <1>3, <1>4, <1>5, <1>6, <1>7, <1>8, StepKinds

-----------------------------------------------------------------------------
(* What a direction of a connection keeps while one receives from it. *)
LEMMA OneMoreGot ==
    ASSUME NEW d, Sound(d), NEW g \in GotItem
    PROVE  /\ Len(Append(d.got, g)) = Len(d.got) + 1 /\ Len(d.got) \in Nat
           /\ \A j \in 1 .. Len(d.got) : Append(d.got, g)[j] = d.got[j]
           /\ Append(d.got, g)[Len(d.got) + 1] = g
           /\ Last(Append(d.got, g)) = g
           /\ \A j \in 1 .. Len(Append(d.got, g)) : j \in 1 .. Len(d.got) \/ j = Len(d.got) + 1
<1>1. d.got \in Seq(GotItem) /\ Append(d.got, g) \in Seq(GotItem)
  BY DEF Sound
<1>2. Len(Append(d.got, g)) = Len(d.got) + 1 /\ Append(d.got, g)[Len(d.got) + 1] = g
  BY <1>1
<1>3. \A j \in 1 .. Len(d.got) : Append(d.got, g)[j] = d.got[j]
  BY <1>1
<1>4. QED
  BY <1>1, <1>2, <1>3 DEF Last

LEMMA EmptyAtEofKept ==
    ASSUME NEW d, NEW e, Sound(d), EmptyAtEof(d),
           \/ Advances(d, e) \/ Fresh(e) \/ e = d
           \/ e.got = d.got /\ e.eof = d.eof
    PROVE  EmptyAtEof(e)
<1>1. CASE e = d \/ (e.got = d.got /\ e.eof = d.eof)
  BY <1>1 DEF EmptyAtEof
<1>2. CASE Fresh(e)
  BY <1>2 DEF EmptyAtEof, Fresh
<1>3. CASE Advances(d, e) /\ e.got = d.got
  BY <1>3 DEF Advances, EmptyAtEof
<1>4. CASE Advances(d, e) /\ \E g \in GotItem : EndsReceive(d, e, g)
  <2> PICK g \in GotItem : EndsReceive(d, e, g)
    BY <1>4
  <2>1. /\ e.got = Append(d.got, g) /\ (d.eof => e.eof)
        /\ ~ g.whole => /\ e.eof
                        /\ g.item.kind = "bare" => g.item.bytes = <<>>
                        /\ g.item.kind = "message" => Size(g.item) = 0
    BY <1>4 DEF Advances, EndsReceive
  <2>2. QED
    BY <2>1, OneMoreGot DEF EmptyAtEof
<1>5. QED
  BY <1>1, <1>2, <1>3, <1>4 DEF Advances

LEMMA EmptyAtEofAlways ==
    ASSUME Held, Next
    PROVE  EmptyAtEof(up)' /\ EmptyAtEof(down)'
<1>1. Sound(up) /\ Sound(down) /\ EmptyAtEof(up) /\ EmptyAtEof(down)
  BY HeldParts
<1>2. CASE HandlerActs /\ ServerEffect
  BY <1>1, <1>2, EmptyAtEofKept DEF ServerEffect, AskedFor, Passed, Closed, Started, ReceiverAsWas
<1>3. CASE Connects
  BY <1>1, <1>3, EmptyAtEofKept DEF Connects
<1>4. CASE ComesToNothing
  BY <1>1, <1>4, EmptyAtEofKept DEF ComesToNothing, Closed, ReceiverAsWas
<1>5. CASE ClientActs /\ ClientEffect
  BY <1>1, <1>5, EmptyAtEofKept DEF ClientEffect, AskedFor, Passed, Closed, Started, ReceiverAsWas
<1>6. QED
  BY <1>2, <1>3, <1>4, <1>5, StepKinds

-----------------------------------------------------------------------------
(* The steps of a handler that neither receives nor looks at what it has   *)
(* received.                                                               *)
ServerLooks ==
    ReceiveRequest \/ Dispatch \/ SsWrites \/ SsAwaitsChunk \/ SsWritesChunk \/ ServerRecv

LEMMA QuietServer ==
    ASSUME Held, HandlerActs, ~ ServerLooks
    PROVE  /\ up' = up /\ server'.op = server.op /\ client' = client
           /\ \/ /\ server'.pc = server.pc /\ server'.response = server.response
                 /\ server'.streamed = server.streamed \/ server.pc = "stream"
              \/ /\ server'.pc \notin {"accept", "request", "serve", "write", "written"}
                 /\ server.pc \notin {"accept", "request", "write"}
<1>1. server \in ServerRecord
  BY HeldParts
<1>2. CASE Invalid \/ NmAnswers \/ NmRedirects \/ NmNotFound \/ NmSendsAddress
  BY <1>1, <1>2 DEF ServerRecord, ServerAt, Serving, Reply, ServerGo, Invalid, NmAnswers,
                    NmRedirects, NmNotFound, NmSendsAddress
<1>3. CASE SsAnswers \/ SsReads \/ SsOpens \/ SsFailsToOpen \/ SsSendsChunk \/ SsEndsStream
           \/ SsWritesNothing
  BY <1>1, <1>3 DEF ServerRecord, ServerAt, Serving, Reply, ServerGo, SsAnswers, SsReads,
                    SsOpens, SsFailsToOpen, SsSendsChunk, SsEndsStream, SsWritesNothing
<1>4. CASE SsEndsWrite \/ SsSendsStat \/ SsConfirmsStat \/ SsFailsToStat \/ SsLists \/ SsSendsRows
  BY <1>1, <1>4 DEF ServerRecord, ServerAt, Serving, Reply, ServerGo, SsEndsWrite, SsSendsStat,
                    SsConfirmsStat, SsFailsToStat, SsLists, SsSendsRows
<1>5. CASE ServerSend \/ ServerSigpipe \/ \E who \in alive : Crash(who)
  BY <1>1, <1>5 DEF ServerRecord, ServerSend, ServerSigpipe, Crash
<1>6. QED
  BY <1>2, <1>3, <1>4, <1>5 DEF HandlerActs, ServerStep, ServerLooks

(* What has been received of a WRITE as a chunk is a line. *)
LEMMA LineReceived ==
    ASSUME Held, up.astray = {}, up.got # <<>>, Len(up.got) > 1,
           Streamed(Last(up.got).item) > 0
    PROVE  Last(up.got).item = Stream(Line)
<1>1. Sound(up) /\ EmptyAtEof(up) /\ HandlerAsks /\ ClientSends /\ up.sent \in Seq(ItemRecord)
  BY HeldParts, SentIsTyped
<1> PICK j \in Nat : j = Len(up.got)
  BY <1>1 DEF Sound
<1>2. Last(up.got) = up.got[j] /\ j \in 1 .. Len(up.got) /\ up.got[j] \in GotItem
  BY <1>1, LastReceived
<1>3. up.got[j].whole
  <2>1. up.got[j].item.kind = "message"
    BY <1>1, <1>2 DEF HandlerAsks
  <2>2. ~ up.got[j].whole => Size(up.got[j].item) = 0
    BY <1>1, <1>2, <2>1 DEF EmptyAtEof
  <2>3. up.got[j].whole \in BOOLEAN
    BY <1>2 DEF GotItem
  <2>4. QED
    BY <1>2, <2>2, <2>3 DEF Streamed
<1>4. j <= Len(up.sent) /\ up.got[j].item = up.sent[j]
  BY <1>1, <1>2, <1>3 DEF Sound
<1>5. up.sent # <<>>
  BY <1>1, <1>4, <1>2, EmptySeq
<1>6. /\ Len(up.sent) \in {client.lines + 1, client.lines + 2}
      /\ \A i \in 2 .. client.lines + 1 : up.sent[i] = Stream(Line)
      /\ Len(up.sent) = client.lines + 2 => up.sent[client.lines + 2] = StreamEnd
      /\ client.lines \in Nat
  BY <1>1, <1>5, HeldParts DEF ClientSends, ClientRecord
<1>7. Streamed(StreamEnd) = 0
  BY DEF Streamed, StreamEnd, Message, Type, MESSAGE_TYPE_STREAM, MESSAGE_TYPE_STREAM_END
<1>8. QED
  BY <1>2, <1>4, <1>6, <1>7

(* The parts of a message are what was put into it. *)
LEMMA MessageParts ==
    ASSUME NEW type \in Byte, NEW p \in Seq(Byte), Len(p) < 256 * 256
    PROVE  /\ Payload(Message(type, p)) = p /\ Type(Message(type, p)) = type
           /\ Size(Message(type, p)) = Len(p) /\ Message(type, p).kind = "message"
<1> DEFINE h == << type, Len(p) % 256, Len(p) \div 256 >>
           s == Message(type, p).bytes
<1>1. PICK n \in Nat : n = Len(p)
  OBVIOUS
<1>2. s \in Seq(Byte)
  BY MessageWellFormed DEF WellFormed, ItemRecord
<1>3. s = h \o p
  BY DEF Message
<1>4. h \in Seq(Nat) /\ Len(h) = 3 /\ h[1] = type /\ p \in Seq(Nat)
  <2>1. \A x \in Nat : x % 256 \in Nat /\ x \div 256 \in Nat
    OBVIOUS
  <2>2. n % 256 \in Nat /\ n \div 256 \in Nat
    BY <2>1, Zenon
  <2>4. type \in Nat /\ Byte \subseteq Nat
    BY DEF Byte
  <2>5. p \in Seq(Nat)
    BY <2>4, SeqMonotonic
  <2> PICK lo \in Nat, hi \in Nat : lo = Len(p) % 256 /\ hi = Len(p) \div 256
    BY <1>1, <2>2, Zenon
  <2>6. h = << type, lo, hi >>
    BY Zenon
  <2> HIDE DEF h
  <2>7. h \in Seq(Nat) /\ Len(h) = 3 /\ h[1] = type
    BY <2>4, <2>6
  <2>8. QED
    BY <2>5, <2>7
<1> HIDE DEF h, s
<1>5. /\ Len(s) = n + 3 /\ s[1] = type
      /\ \A k \in 4 .. n + 3 : s[k] = p[k - 3] /\ s[k] \in Byte
  <2>1. /\ Len(s) = 3 + n
        /\ \A k \in 1 .. 3 + n : s[k] = IF k <= 3 THEN h[k] ELSE p[k - 3]
    <3>1. /\ Len(h \o p) = Len(h) + Len(p)
          /\ \A k \in 1 .. Len(h) + Len(p) :
                (h \o p)[k] = IF k <= Len(h) THEN h[k] ELSE p[k - Len(h)]
      BY <1>4, ConcatProperties
    <3>2. QED
      BY <1>1, <1>3, <1>4, <3>1
  <2>2. \A k \in 1 .. Len(s) : s[k] \in Byte
    BY <1>2
  <2>3. QED
    BY <1>4, <2>1, <2>2
<1> DEFINE t == SubSeq(s, 4, n + 3)
<1>6. t \in Seq(Byte) /\ Len(t) = n /\ \A k \in 1 .. n : t[k] = s[k + 3]
  <2>1. /\ t \in Seq(Byte)
        /\ Len(t) = IF 4 <= n + 3 THEN (n + 3) - 4 + 1 ELSE 0
        /\ \A k \in 1 .. (n + 3) - 4 + 1 : t[k] = s[4 + k - 1]
    BY <1>5, SubSeqProperties
  <2> HIDE DEF t
  <2>2. QED
    BY <2>1
<1> HIDE DEF t
<1>7. \A k \in 1 .. Len(t) : t[k] = p[k]
  BY <1>5, <1>6
<1>8. t = p
  BY <1>1, <1>6, <1>7, SeqEqual
<1>9. Size(Message(type, p)) = n /\ Message(type, p).kind = "message"
  <2>1. WellFormed(Message(type, p)) /\ Message(type, p).kind = "message"
    BY MessageWellFormed DEF Message
  <2>2. s[2] \in Nat /\ s[3] \in Nat
    <3>1. 2 \in 1 .. Len(s) /\ 3 \in 1 .. Len(s)
      BY <1>5
    <3>2. s[2] \in Byte /\ s[3] \in Byte
      BY <1>2, <3>1, ElementOfSeq
    <3>3. \A x \in Byte : x \in Nat
      BY DEF Byte
    <3>4. QED
      BY <3>2, <3>3, Zenon
  <2>3. Size(Message(type, p)) = s[2] + 256 * s[3]
    BY DEF Size, SizeOf, s
  <2>4. Len(s) = 3 + (s[2] + 256 * s[3])
    BY <2>1 DEF WellFormed, HEADER, SizeOf, s
  <2>5. Len(s) = n + 3
    BY <1>5
  <2>6. Size(Message(type, p)) = n
    BY <2>2, <2>3, <2>4, <2>5
  <2>7. QED
    BY <2>1, <2>6
<1>10. QED
  BY <1>1, <1>5, <1>8, <1>9 DEF Payload, Type, HEADER, s, t

(* Lines are two bytes, chunks one or two, and the end of a stream is none. *)
LEMMA LineIsTwoBytes ==
    /\ Payload(Stream(Line)) = Line /\ Line \in Seq(Byte) /\ Len(Line) = 2
    /\ \A c \in Chunks : Payload(Stream(c)) = c /\ Streamed(Stream(c)) = Len(c)
    /\ Streamed(Stream(Line)) = 2 /\ Streamed(StreamEnd) = 0
<1>1. \A a, b \in Byte : << a, b >> \in Seq(Byte) /\ Len(<< a, b >>) = 2
  OBVIOUS
<1>2. {0, 70, 71, 72, MESSAGE_TYPE_STREAM} \subseteq Byte
  BY DEF Byte, MESSAGE_TYPE_STREAM
<1>3. Line \in Seq(Byte) /\ Len(Line) = 2 /\ \A c \in Chunks : c \in Seq(Byte)
  BY <1>1, <1>2, ChunksTyped DEF Line
<1>4. /\ Len(Line) < 256 * 256 /\ \A c \in Chunks : Len(c) < 256 * 256
      /\ MESSAGE_TYPE_STREAM \in Byte
  <2>1. \A n \in {1, 2} : n < 256 * 256
    OBVIOUS
  <2>2. QED
    BY <1>2, <1>3, <2>1, ChunksTyped
<1>5. \A p \in Seq(Byte) : Len(p) < 256 * 256 =>
        /\ Payload(Stream(p)) = p /\ Type(Stream(p)) = MESSAGE_TYPE_STREAM
        /\ Size(Stream(p)) = Len(p)
  BY <1>4, MessageParts, Zenon DEF Stream
<1>6. Streamed(Stream(Line)) = 2 /\ \A c \in Chunks : Streamed(Stream(c)) = Len(c)
  BY <1>3, <1>4, <1>5 DEF Streamed
<1>7. Streamed(StreamEnd) = 0
  BY DEF Streamed, StreamEnd, Message, Type, MESSAGE_TYPE_STREAM, MESSAGE_TYPE_STREAM_END
<1>8. QED
  BY <1>3, <1>4, <1>5, <1>6, <1>7, Zenon

LEMMA HandlerAsksKept ==
    ASSUME Held, Next
    PROVE  HandlerAsks'
<1>1. /\ UpIs /\ DownIs /\ HandlerAsks /\ Sound(up)
      /\ client \in ClientRecord /\ server \in ServerRecord
  BY HeldParts
<1>2. CASE HandlerActs /\ ~ ServerLooks
  <2>1. up' = up /\ server'.op = server.op
    BY <1>2, QuietServer
  <2>2. CASE server'.pc \notin {"accept", "request", "serve", "write", "written"}
             /\ server.pc \notin {"accept", "request", "write"}
    <3>1. up.pc = "idle"
      <4>1. CASE server.pc = "written"
        <5>1. server'.pc # server.pc
          BY <2>2, <4>1
        <5>2. SsEndsWrite
          BY <1>1, <1>2, <4>1, <5>1
             DEF HandlerActs, ServerStep, ServerLooks, ServerAt, Serving, ServerRecord,
                 Invalid, NmAnswers, NmRedirects, NmNotFound, NmSendsAddress, SsAnswers, SsReads,
                 SsOpens, SsFailsToOpen, SsSendsChunk, SsEndsStream, SsWritesNothing, SsSendsStat,
                 SsConfirmsStat, SsFailsToStat, SsLists, SsSendsRows, ServerSend, ServerSigpipe, Crash
        <5>3. QED
          BY <5>2 DEF SsEndsWrite, ServerAt
      <4>2. QED
        BY <1>1, <2>2, <4>1 DEF HandlerAsks
    <3>2. QED
      BY <1>1, <2>1, <2>2, <3>1 DEF HandlerAsks
  <2>3. CASE /\ server'.pc = server.pc /\ server'.response = server.response
             /\ server'.streamed = server.streamed \/ server.pc = "stream"
    BY <1>1, <2>1, <2>3 DEF HandlerAsks
  <2>4. QED
    BY <1>2, <2>2, <2>3, QuietServer
<1>3. CASE Connects
  <2>1. \A who : Handler(who).pc = "accept"
    BY DEF Handler
  <2>2. server'.pc = "accept" /\ up'.got = <<>> /\ up'.pc = "idle" /\ Len(up'.got) = 0
    BY <1>3, <2>1, ConnectsMeans DEF Fresh
  <2>3. QED
    BY <2>2 DEF HandlerAsks
<1>4. CASE ComesToNothing \/ (ClientActs /\ ClientEffect)
  <2>1. server' = server /\ up'.got = up.got /\ up'.pc = up.pc /\ up'.astray = up.astray
    BY <1>4, NothingMeans DEF ClientEffect, Passed, Closed, Started, ReceiverAsWas
  <2>2. QED
    BY <1>1, <2>1 DEF HandlerAsks
<1>5. CASE ReceiveRequest
  <2>1. /\ server.pc = "accept" /\ server'.pc = "request" /\ up'.got = up.got
        /\ up'.pc = "type" /\ up.got = <<>>
    BY <1>1, <1>5 DEF ReceiveRequest, ServerAt, ServerGo, ServerRecord, UpIs, AskedFor, HandlerAsks
  <2>2. Len(up.got) = 0
    BY <2>1
  <2>3. QED
    BY <1>1, <2>1, <2>2 DEF HandlerAsks
<1>6. CASE Dispatch
  <2>1. server.pc = "request" /\ server'.pc = "serve" /\ up' = up /\ up.pc = "idle"
    BY <1>1, <1>6 DEF Dispatch, ServerAt, ServerRecord
  <2>2. QED
    BY <1>1, <2>1 DEF HandlerAsks
<1>7. CASE SsWrites
  <2>1. /\ server.pc = "serve" /\ server'.pc = "write" /\ server'.response = OK_START_STREAM
        /\ server'.streamed = server.streamed /\ up' = up /\ up.pc = "idle"
    BY <1>1, <1>7 DEF SsWrites, Serving, ServerAt, ServerRecord
  <2>2. server.streamed = <<>> /\ Len(up.got) = 1
    BY <1>1, <2>1, HeldParts DEF HandlerSends, HandlerAsks
  <2>3. Len(server'.streamed) = 0
    BY <2>1, <2>2
  <2>4. /\ 0 \in 0 .. Len(up'.got) /\ Len(up'.got) = 0 + 1
        /\ server'.response = IF 0 = 0 THEN OK_START_STREAM ELSE OK
    BY <2>1, <2>2
  <2>5. QED
    BY <1>1, <2>1, <2>3, <2>4 DEF HandlerAsks
<1>8. CASE SsAwaitsChunk
  <2>1. /\ server.pc = "write" /\ server'.pc = "written" /\ server'.response = server.response
        /\ server'.streamed = server.streamed /\ up.pc = "idle" /\ up'.pc = "type"
        /\ up'.got = up.got /\ up'.astray = up.astray
    BY <1>1, <1>8 DEF SsAwaitsChunk, ServerAt, ServerRecord, ServerGo, UpIs, AskedFor
  <2>2. QED
    BY <1>1, <2>1 DEF HandlerAsks
<1>9. CASE SsWritesChunk
  <2>1. /\ server.pc = "written" /\ up' = up /\ up.pc = "idle"
        /\ Streamed(Last(up.got).item) > 0
        /\ \/ /\ server'.pc = "write" /\ server'.response = OK
              /\ server'.streamed = Append(server.streamed, Payload(Last(up.got).item))
           \/ server'.pc = "done"
    BY <1>1, <1>9 DEF SsWritesChunk, ServerAt, ServerRecord, Reply, ServerGo
  <2>2. CASE server'.pc = "done"
    BY <1>1, <2>1, <2>2 DEF HandlerAsks
  <2>3. CASE /\ server'.pc = "write" /\ server'.response = OK
             /\ server'.streamed = Append(server.streamed, Payload(Last(up.got).item))
    <3> PICK m \in 0 .. Len(up.got) :
            /\ Len(up.got) = m + 2
            /\ up.astray = {} => Len(server.streamed) = m
      BY <1>1, <2>1 DEF HandlerAsks
    <3>1. m \in Nat /\ Len(up.got) \in Nat /\ up.got # <<>>
      BY <1>1, EmptySeq DEF Sound
    <3>2. up.astray = {} => Len(server'.streamed) = m + 1
      <4>1. Last(up.got).item \in ItemRecord
        BY <1>1, <3>1, LastReceived
      <4>2. Payload(Last(up.got).item) \in Seq(Byte) /\ server.streamed \in Seq(Seq(Byte))
        BY <1>1, <4>1, PayloadTyped DEF ServerRecord
      <4>3. Len(server'.streamed) = Len(server.streamed) + 1
        BY <2>3, <4>2, AppendProperties
      <4>4. QED
        BY <4>3
    <3>3. /\ m + 1 \in 0 .. Len(up'.got) /\ Len(up'.got) = (m + 1) + 1 /\ m + 1 # 0
          /\ up'.astray = {} => Len(server'.streamed) = m + 1
      BY <2>1, <3>1, <3>2
    <3>4. \E n \in 0 .. Len(up'.got) :
            /\ server'.response = IF n = 0 THEN OK_START_STREAM ELSE OK
            /\ Len(up'.got) = n + 1
            /\ up'.astray = {} => Len(server'.streamed) = n
      BY <2>3, <3>3
    <3>5. QED
      BY <1>1, <2>1, <2>3, <3>4 DEF HandlerAsks
  <2>4. QED
    BY <2>1, <2>2, <2>3
<1>10. CASE ServerRecv
  <2>1. server' = server /\ Advances(up, up') /\ up.pc # "idle"
    BY <1>1, <1>10 DEF ServerRecv, UpIs, Advances
  <2>2. server.pc \in {"request", "written"} /\ up.pc # "bare"
    BY <1>1, <2>1 DEF HandlerAsks
  <2>3. up'.astray = {} => up.astray = {}
    BY <2>1 DEF Advances
  <2>4. CASE up'.pc \in {"size", "data"} /\ up'.got = up.got
    BY <1>1, <2>1, <2>2, <2>3, <2>4 DEF HandlerAsks
  <2>5. CASE up'.pc = "idle" /\ \E g \in GotItem : EndsReceive(up, up', g)
    <3> PICK g \in GotItem : EndsReceive(up, up', g)
      BY <2>5
    <3>1. up'.got = Append(up.got, g) /\ g.item.kind = "message"
      BY <2>2 DEF EndsReceive
    <3>2. Len(up'.got) = Len(up.got) + 1 /\ Len(up.got) \in Nat
      BY <1>1, <3>1, OneMoreGot
    <3>3. \A j \in 1 .. Len(up'.got) : up'.got[j].item.kind = "message"
      BY <1>1, <3>1, OneMoreGot DEF HandlerAsks
    <3>4. CASE server.pc = "request"
      BY <1>1, <2>1, <2>5, <3>2, <3>3, <3>4 DEF HandlerAsks
    <3>5. CASE server.pc = "written"
      <4> PICK m \in 0 .. Len(up.got) :
            /\ server.response = IF m = 0 THEN OK_START_STREAM ELSE OK
            /\ Len(up.got) = m + 1
            /\ up.astray = {} => Len(server.streamed) = m
        BY <1>1, <2>1, <3>5 DEF HandlerAsks
      <4>1. m \in 0 .. Len(up'.got) /\ Len(up'.got) = m + 2
        BY <3>2
      <4>2. QED
        BY <2>1, <2>3, <2>5, <3>3, <3>5, <4>1 DEF HandlerAsks
    <3>6. QED
      BY <2>2, <3>4, <3>5
  <2>6. QED
    BY <2>1, <2>4, <2>5 DEF Advances
<1>11. QED
  BY <1>2, <1>3, <1>4, <1>5, <1>6, <1>7, <1>8, <1>9, <1>10, StepKinds DEF ServerLooks

-----------------------------------------------------------------------------
(* The code of a request tells which it is. *)
LEMMA OpcodeFacts ==
    /\ Ops = {"create", "delete", "read", "write", "copy", "get", "list"}
    /\ \A op \in Ops : Opcode[op] \in Byte /\ Opcode[op] \in Range(Opcode)
    /\ \A op, o \in Ops : Opcode[op] = Opcode[o] => op = o
<1>1. DOMAIN Opcode = {"create", "delete", "read", "write", "copy", "get", "list"}
  BY DEF Opcode
<1>2. /\ Opcode["create"] = 48 /\ Opcode["delete"] = 51 /\ Opcode["read"] = 52
      /\ Opcode["write"] = 53 /\ Opcode["copy"] = 54 /\ Opcode["get"] = 55
      /\ Opcode["list"] = 56
  BY DEF Opcode
<1>3. \A op \in DOMAIN Opcode : Opcode[op] \in Range(Opcode)
  BY DEF Range
<1>4. QED
  BY <1>1, <1>2, <1>3 DEF Ops, Byte

LEMMA RequestRead ==
    ASSUME NEW op \in Ops
    PROVE  /\ Payload(Request(op)) # <<>> /\ Payload(Request(op))[1] \in Range(Opcode)
           /\ (CHOOSE o \in Ops : Opcode[o] = Payload(Request(op))[1]) = op
<1>1. Opcode[op] \in Byte /\ Opcode[op] \in Range(Opcode)
  BY OpcodeFacts
<1> PICK a \in Byte : a = Opcode[op]
  BY <1>1
<1>2. \A b, c \in Byte : << b, c >> \in Seq(Byte) /\ Len(<< b, c >>) = 2 /\ << b, c >>[1] = b
  OBVIOUS
<1>3. 65 \in Byte /\ MESSAGE_TYPE_REQUEST \in Byte
  BY DEF Byte, MESSAGE_TYPE_REQUEST
<1>4. << a, 65 >> \in Seq(Byte) /\ Len(<< a, 65 >>) = 2 /\ << a, 65 >>[1] = a
  BY <1>2, <1>3
<1>5. Payload(Request(op)) = << a, 65 >>
  <2>1. Len(<< a, 65 >>) < 256 * 256
    BY <1>4
  <2>2. Payload(Message(MESSAGE_TYPE_REQUEST, << a, 65 >>)) = << a, 65 >>
    BY <1>3, <1>4, <2>1, MessageParts, Zenon
  <2>3. QED
    BY <2>2, Zenon DEF Request
<1>6. (CHOOSE o \in Ops : Opcode[o] = a) = op
  BY OpcodeFacts
<1>7. QED
  BY <1>1, <1>4, <1>5, <1>6, EmptySeq

(* The first thing received whole is the request. *)
LEMMA FirstReceived ==
    ASSUME Held, up.astray = {}, up.open, up.pc = "idle", server.pc = "request"
    PROVE  Last(up.got).item = Request(Asking) /\ Asking \in Ops
<1>1. Sound(up) /\ HandlerAsks /\ ClientSends
  BY HeldParts
<1>2. up.got # <<>> /\ Len(up.got) = 1
  BY <1>1, HandlerHasReceived DEF HandlerAsks
<1>3. Last(up.got) = up.got[1]
  BY <1>1, <1>2, LastReceived
<1>4. up.got[1].whole
  BY <1>1, <1>2 DEF Sound
<1>5. up.got[1].item = up.sent[1] /\ 1 <= Len(up.sent)
  BY <1>1, <1>2, <1>4 DEF Sound
<1>6. up.sent # <<>>
  BY <1>5, EmptySeq
<1>7. client.cmd \in Commands
  BY <1>1, <1>6 DEF ClientSends
<1>8. Asking \in Ops
  BY <1>7, SessionAssumption, OpcodeFacts DEF Asking
<1>9. QED
  BY <1>1, <1>3, <1>5, <1>6, <1>8 DEF ClientSends

LEMMA RequestKnownKept ==
    ASSUME Held, Next
    PROVE  RequestKnown'
<1>1. /\ UpIs /\ RequestKnown /\ HandlerAsks
      /\ client \in ClientRecord /\ server \in ServerRecord
  BY HeldParts
<1>2. CASE HandlerActs /\ ServerEffect /\ ~ Dispatch
  <2>1. client' = client /\ up'.open = up.open /\ (up'.astray = {} => up.astray = {})
    BY <1>2 DEF ServerEffect, AskedFor, Advances
  <2>2. /\ server'.op = server.op
        /\ server.pc \in {"accept", "request"} => server'.pc \in {"accept", "request"}
    <3>1. CASE ~ ServerLooks
      BY <1>2, <3>1, QuietServer
    <3>2. CASE ReceiveRequest \/ SsWrites \/ SsAwaitsChunk \/ SsWritesChunk \/ ServerRecv
      BY <1>1, <3>2 DEF ReceiveRequest, SsWrites, SsAwaitsChunk, SsWritesChunk, ServerRecv, Reply,
                        ServerGo, ServerRecord, ServerAt, Serving
    <3>3. QED
      BY <1>2, <3>1, <3>2 DEF ServerLooks
  <2>3. QED
    BY <1>1, <2>1, <2>2 DEF RequestKnown, Asking
<1>3. CASE Connects
  <2>1. \A who : Handler(who).pc = "accept"
    BY DEF Handler
  <2>2. server'.pc = "accept"
    BY <1>3, <2>1, ConnectsMeans
  <2>3. QED
    BY <2>2 DEF RequestKnown
<1>4. CASE ComesToNothing \/ (ClientActs /\ ClientEffect)
  <2>1. /\ server' = server /\ up'.astray = up.astray /\ (up'.open => up.open)
        /\ client'.cmd = client.cmd /\ client'.peer = client.peer
    BY <1>4, NothingMeans DEF ClientEffect, Passed, Closed, Started, ReceiverAsWas
  <2>2. QED
    BY <1>1, <2>1 DEF RequestKnown, Asking
<1>5. CASE Dispatch
  <2> DEFINE payload == Payload(Last(up.got).item)
  <2>1. /\ server.pc = "request" /\ up.pc = "idle" /\ UNCHANGED << up, client >>
        /\ \E op \in Ops \cup {"none"} :
              /\ payload # <<>> =>
                    op = IF payload[1] \in Range(Opcode)
                         THEN CHOOSE o \in Ops : Opcode[o] = payload[1] ELSE "none"
              /\ server'.op = op
    BY <1>1, <1>5 DEF Dispatch, ServerAt, ServerRecord
  <2>2. ASSUME up.astray = {}, up.open
        PROVE  server'.op = Asking
    <3>1. Last(up.got).item = Request(Asking) /\ Asking \in Ops
      BY <2>1, <2>2, FirstReceived
    <3>2. /\ payload # <<>> /\ payload[1] \in Range(Opcode)
          /\ (CHOOSE o \in Ops : Opcode[o] = payload[1]) = Asking
      BY <3>1, RequestRead
    <3> HIDE DEF payload
    <3>3. QED
      BY <2>1, <3>2
  <2>3. QED
    BY <2>1, <2>2 DEF RequestKnown, Asking
<1>6. QED
  BY <1>2, <1>3, <1>4, <1>5, StepKinds

-----------------------------------------------------------------------------
(* The handler never asks for what is not next: the client sends messages, *)
(* and messages are all it asks for.                                       *)
LEMMA UpNeverMixed ==
    ASSUME Held, Next, Whole(up) => "mixed" \notin up.astray
    PROVE  (Whole(up) => "mixed" \notin up.astray)'
<1>1. UpIs /\ HandlerAsks /\ ClientSends /\ Sound(up) /\ UpProofs!IInv /\ client \in ClientRecord
  BY HeldParts DEF Held, IInv
<1>2. CASE up'.astray = up.astray
  BY <1>2 DEF Whole
<1>3. CASE up'.astray = {}
  BY <1>3
<1>4. CASE ServerRecv
  <2> SUFFICES ASSUME "short" \notin up'.astray, "mixed" \in up'.astray
               PROVE  FALSE
    BY DEF Whole
  <2>1. Up!Recv /\ Advances(up, up')
    BY <1>1, <1>4 DEF ServerRecv, UpIs
  <2>2. up.astray = {}
    BY <1>1, <2>1 DEF Advances, Whole, Sound
  <2> PICK i \in Nat : i = Len(up.got) + 1
    BY <1>1 DEF Sound
  <2>3. /\ i \in 1 .. Len(up.sent)
        /\ up.pc = "bare" \/ up.sent[i].kind # "message"
    BY <1>1, <2>1, <2>2, UpMixed
  <2>4. up.pc # "bare"
    BY <1>1 DEF HandlerAsks
  <2>5. up.sent[i] \in {Request(Asking), Stream(Line), StreamEnd}
    <3>1. up.sent # <<>>
      BY <2>3, EmptySeq
    <3>2. /\ up.sent[1] = Request(Asking)
          /\ Len(up.sent) \in {client.lines + 1, client.lines + 2}
          /\ \A j \in 2 .. client.lines + 1 : up.sent[j] = Stream(Line)
          /\ Len(up.sent) = client.lines + 2 => up.sent[client.lines + 2] = StreamEnd
          /\ client.lines \in Nat
      BY <1>1, <3>1 DEF ClientSends, ClientRecord
    <3>3. i = 1 \/ i \in 2 .. client.lines + 1
          \/ (i = client.lines + 2 /\ Len(up.sent) = client.lines + 2)
      BY <2>3, <3>2
    <3>4. QED
      BY <3>2, <3>3
  <2>6. QED
    BY <2>3, <2>4, <2>5 DEF Request, Stream, StreamEnd, Message
<1>5. CASE HandlerActs /\ ~ ServerRecv
  <2>1. up'.astray = up.astray
    <3>1. CASE ~ ServerLooks
      BY <1>5, <3>1, QuietServer
    <3>2. CASE ReceiveRequest \/ Dispatch \/ SsWrites \/ SsAwaitsChunk \/ SsWritesChunk
      BY <1>1, <3>2 DEF ReceiveRequest, Dispatch, SsWrites, SsAwaitsChunk, SsWritesChunk, UpIs,
                        AskedFor
    <3>3. QED
      BY <1>5, <3>1, <3>2 DEF ServerLooks
  <2>2. QED
    BY <1>2, <2>1
<1>6. CASE Connects
  BY <1>3, <1>6 DEF Connects, Fresh
<1>7. CASE ComesToNothing \/ (ClientActs /\ ClientEffect)
  BY <1>2, <1>7 DEF ComesToNothing, ClientEffect, Passed, Closed, Started, ReceiverAsWas
<1>8. QED
  BY <1>4, <1>5, <1>6, <1>7, StepKinds
=============================================================================
