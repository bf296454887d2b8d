--------------------------- MODULE ClientSession ---------------------------
(***************************************************************************)
(* The client program (Client/*.c) and the handler threads it talks to.  A *)
(* command is a request to the naming server, which answers it or names a  *)
(* storage server, and then a request to that server on a new connection.  *)
(* What the handlers do to catalogue and disk is in NamingServer and       *)
(* StorageServer; here are the bytes that go to and fro, with the two      *)
(* directions of the connection as instances of Framing.                   *)
(*                                                                         *)
(* Servers may crash, the client may stop in the middle of a stream or be  *)
(* killed, any recv may be short, sockets may stay open, and a process     *)
(* that keeps sending to a peer that has gone is killed by SIGPIPE, which  *)
(* nobody ignores.  Of the connections of earlier commands nothing is kept *)
(* but the descriptor.                                                     *)
(***************************************************************************)
EXTENDS Frames, SequencesExt, FiniteSetsExt

CONSTANTS
    Commands,          \* the commands a user may give
    MaxCommands,       \* bound on their number
    MaxChunks,         \* bound on the chunks of a stream
    MaxFd,             \* the last descriptor the client may have
    MAX_CHUNK_SIZE

ASSUME SessionAssumption ==
    /\ Commands \subseteq Ops
    /\ MaxCommands \in Nat /\ MaxChunks \in Nat /\ MaxFd \in Nat
    /\ MAX_CHUNK_SIZE \in Nat \ {0}

VARIABLES
    up,            \* from the client to the server it is connected to
    down,          \* from that server to the client
    client,        \* the client process
    server,        \* the handler thread of the connection
    fds,           \* the descriptors of the client's sockets
    alive          \* the server processes that are running

vars == << up, down, client, server, fds, alive >>

(* What is sent beside responses: an address, what stat returns, the rows  *)
(* of a listing, a line the user has typed, the chunks of a file.  The     *)
(* client's table of a listing has rows of MAX_PATH_LENGTH + 1 bytes, the  *)
(* server's of MAX_PATH_LENGTH: it asks for more than is ever sent.        *)
Address == Bare(<< 2, 1 >>)
Stat == Bare(<< 1, 8 >>)
Rows == Bare(<< 65, 0, 66 >>)
RowsWanted == Len(Rows.bytes) + 1
Line == << 72, 0 >>

(* A chunk fills the buffer, of two bytes here, unless the file ends; it   *)
(* may have a NUL in it.                                                   *)
MAX_STREAMING_RESPONSE_PAYLOAD_SIZE == 2
Chunks == {<< 70, 71 >>, << 70, 0 >>, << 70 >>}
Full(data) == Len(data) = MAX_STREAMING_RESPONSE_PAYLOAD_SIZE

Traffic ==
    {Request(op) : op \in Ops} \cup {Response(code) : code \in Codes}
    \cup {Address, Stat, Rows, Stream(Line), StreamEnd} \cup {Stream(chunk) : chunk \in Chunks}

Up == INSTANCE Framing WITH ch <- up, Items <- Traffic, MaxItems <- MaxChunks + 4
Down == INSTANCE Framing WITH ch <- down, Items <- Traffic, MaxItems <- MaxChunks + 4

NoFd == 0
Uninitialised == 0

(* The client's program: its place in it, the command, the server it is    *)
(* connected to, connection_socket and ss_connection, the last response,   *)
(* the chunks that a READ has received (history), what it has shown and    *)
(* whether it has printed EOF, how many lines a WRITE has sent, the number *)
(* of commands and of those that left a socket open, whether it has sent   *)
(* to a server that has gone, and where it was when the process ended.     *)
IdleClient ==
    [pc |-> "prompt", cmd |-> "none", peer |-> "nm", connection_socket |-> NoFd,
     ss_connection |-> NoFd, response |-> Uninitialised, received |-> <<>>,
     shown |-> <<>>, printed |-> FALSE, lines |-> 0, count |-> 0, left |-> 0, late |-> FALSE,
     quit |-> "no"]

(* A handler thread: whose, its place, the request, the response it keeps, *)
(* the chunks it has streamed or written, whether the stream is at its end *)
(* and whether an error came where the client expects data, and whether it *)
(* has sent to a client that has gone.                                     *)
Handler(who) ==
    [who |-> who, pc |-> "accept", op |-> "none", response |-> Uninitialised,
     streamed |-> <<>>, ended |-> FALSE, failed |-> FALSE, late |-> FALSE]

Init ==
    /\ Up!Init /\ Down!Init
    /\ client = IdleClient
    /\ server = [Handler("nm") EXCEPT !.pc = "done"]
    /\ fds = {}
    /\ alive = {"nm", "ss"}

-----------------------------------------------------------------------------
(* The client.  A step of its own comes when it is neither sending nor     *)
(* receiving.                                                              *)
ClientAt(pc) == client.pc = pc /\ ~ Up!Sending /\ down.pc = "idle"
Go(pc) == client' = [client EXCEPT !.pc = pc]
Received == Last(down.got).item

(* What the variable `response` may hold after receive_response: the byte, *)
(* or, if recv returned 0, what it held before.                            *)
Responses ==
    IF Received.bytes # <<>> THEN {Received.bytes[1]}
    ELSE IF client.peer = "nm" \/ client.cmd = "read" THEN Codes \cup {Uninitialised}
    ELSE {client.response}

(* The command is over, with its socket closed or left open.               *)
CloseAndReturn ==
    /\ Up!Close
    /\ fds' = fds \ {client.connection_socket}
    /\ client' = [client EXCEPT !.pc = "prompt"]
Return ==
    /\ client' = [client EXCEPT !.pc = "prompt", !.left = @ + 1]
    /\ UNCHANGED << up, fds >>

Leave ==
    /\ IF up.open THEN Up!Close ELSE UNCHANGED up
    /\ fds' = {}
    /\ client' = [client EXCEPT !.pc = "gone", !.quit = client.pc]

(* Mutant of Free: 0 is taken for a descriptor. *)
FreeFromZero(open) == (0 .. MaxFd) \ open

Free(open) == (1 .. MaxFd) \ open
Connect(who) ==
    /\ Up!Reopen /\ Down!Reopen
    /\ server' = Handler(who)

(* main: a command is read, a socket made and connected to the naming      *)
(* server.                                                                 *)
Command(cmd) ==
    /\ client.pc = "prompt" /\ client.count < MaxCommands
    /\ IF Free(fds) = {}
       THEN /\ client' = [client EXCEPT !.count = @ + 1]
            /\ UNCHANGED << up, down, server, fds >>
       ELSE /\ fds' = fds \cup {Min(Free(fds))}
            /\ IF "nm" \in alive
               THEN /\ Connect("nm")
                    /\ client' = [IdleClient EXCEPT
                         !.pc = "connected", !.cmd = cmd, !.count = client.count + 1,
                         !.left = client.left, !.connection_socket = Min(Free(fds))]
               ELSE /\ client' = [client EXCEPT !.count = @ + 1, !.left = @ + 1]
                    /\ UNCHANGED << up, down, server >>
    /\ UNCHANGED alive

(* LIST asks the naming server for a FILE_INFO.                            *)
SendRequest ==
    /\ ClientAt("connected")
    /\ Up!Start(Request(IF client.cmd = "list" /\ client.peer = "nm" THEN "get"
                        ELSE client.cmd))
    /\ Go("request")
    /\ UNCHANGED << down, server, fds, alive >>

(* Mutant of AwaitAnswer: GET takes the response first. *)
AwaitResponseFirst ==
    /\ ClientAt("request")
    /\ Down!AskBare(1) /\ Go("answer")
    /\ UNCHANGED << up, server, fds, alive >>

(* What comes first is a response, but for the stat of a GET.              *)
AwaitAnswer ==
    /\ ClientAt("request")
    /\ IF client.cmd = "get" /\ client.peer = "ss"
       THEN Down!AskBare(Len(Stat.bytes)) /\ Go("stat")
       ELSE Down!AskBare(1) /\ Go("answer")
    /\ UNCHANGED << up, server, fds, alive >>

(* The naming server's answer. *)
Redirected ==
    /\ ClientAt("answer") /\ client.peer = "nm" /\ REDIRECT \in Responses
    /\ client.cmd \in {"read", "write", "get", "list"}
    /\ Down!AskBare(Len(Address.bytes))
    /\ client' = [client EXCEPT !.pc = "address", !.response = REDIRECT]
    /\ UNCHANGED << up, server, fds, alive >>

Answered ==
    /\ ClientAt("answer") /\ client.peer = "nm"
    /\ Responses # {REDIRECT} \/ client.cmd \in {"create", "delete", "copy"}
    /\ IF client.cmd \in {"write", "get", "list"} THEN Return ELSE CloseAndReturn
    /\ UNCHANGED << down, server, alive >>

(* Mutant of Follow: the first socket is still open. *)
FollowBeforeClose ==
    /\ ClientAt("address")
    /\ Received = Address /\ "ss" \in alive /\ Free(fds) # {}
    /\ fds' = fds \cup {Min(Free(fds))}
    /\ Connect("ss")
    /\ client' = [client EXCEPT !.pc = "connected", !.peer = "ss",
                                !.ss_connection = Min(Free(fds)), !.late = FALSE]
    /\ UNCHANGED alive

(* close(connection_socket), then socket(), which returns the lowest free  *)
(* number, and connect to the address; half an address leads nowhere.      *)
Follow ==
    LET s == Min(Free(fds \ {client.connection_socket})) IN
    /\ ClientAt("address")
    /\ fds' = (fds \ {client.connection_socket}) \cup {s}
    /\ IF Received = Address /\ "ss" \in alive
       THEN /\ Connect("ss")
            /\ client' = [client EXCEPT !.pc = "connected", !.peer = "ss",
                                        !.ss_connection = s, !.late = FALSE]
       ELSE /\ client' = [client EXCEPT !.pc = "prompt", !.left = @ + 1]
            /\ IF up.open THEN Up!Close ELSE UNCHANGED up
            /\ UNCHANGED << down, server >>
    /\ UNCHANGED alive

(* The storage server's answer to a READ, a WRITE or a LIST.               *)
AnsweredBySs ==
    /\ ClientAt("answer") /\ client.peer = "ss"
    /\ \E code \in Responses :
        CASE client.cmd = "read" /\ code = OK_START_STREAM ->
                Down!AskMessage /\ Go("stream") /\ UNCHANGED << up, fds >>
          [] client.cmd = "write" /\ code = OK_START_STREAM ->
                /\ client' = [client EXCEPT !.pc = "lines", !.response = code]
                /\ UNCHANGED << up, down, fds >>
          [] client.cmd = "list" /\ code = OK ->
                Down!AskBare(RowsWanted) /\ Go("rows") /\ UNCHANGED << up, fds >>
          [] client.cmd = "list" /\ code # OK -> CloseAndReturn /\ UNCHANGED down
          [] OTHER -> Return /\ UNCHANGED down
    /\ UNCHANGED << server, alive >>

(* What "%s" makes of a buffer: it prints up to the first NUL.  A chunk    *)
(* leaves the rest of the buffer 0; one that fills it and has no NUL is    *)
(* read beyond its end, where there may be nothing or anything.            *)
Text(data) ==
    LET nul == {k \in DOMAIN data : data[k] = 0}
    IN  IF nul = {} THEN data ELSE SubSeq(data, 1, Min(nul) - 1)
JUNK == 255

(* Mutant of Beyond: the buffer is not cleared before a chunk is received. *)
BeyondAny(data) ==
    IF 0 \notin Range(data) THEN {<<>>, << JUNK >>} ELSE {<<>>}

Beyond(data) ==
    IF Full(data) /\ 0 \notin Range(data) THEN {<<>>, << JUNK >>} ELSE {<<>>}

(* READ: print what comes, until the end or an error.  (A read beyond the  *)
(* buffer may also end the process: Gone.)                                 *)
ShowChunk ==
    LET data == Payload(Received) IN
    /\ ClientAt("stream") /\ Streamed(Received) > 0
    /\ Down!AskMessage
    /\ \E beyond \in Beyond(data) :
        client' = [client EXCEPT !.received = Append(@, data),
                                 !.shown = @ \o Text(data) \o beyond]
    /\ UNCHANGED << up, server, fds, alive >>

ShowEof ==
    /\ ClientAt("stream") /\ Streamed(Received) = 0
    /\ Up!Close
    /\ fds' = fds \ {client.connection_socket}
    /\ client' = [client EXCEPT !.pc = "prompt", !.printed = TRUE]
    /\ UNCHANGED << down, server, alive >>

ReadBreaksOff ==
    /\ ClientAt("stream") /\ Streamed(Received) < 0
    /\ Return
    /\ UNCHANGED << down, server, alive >>

(* WRITE: lines, the end, the second answer; the socket stays open.        *)
SendLine ==
    /\ ClientAt("lines") /\ client.lines < MaxChunks
    /\ Up!Start(Stream(Line))
    /\ client' = [client EXCEPT !.lines = @ + 1]
    /\ UNCHANGED << down, server, fds, alive >>

SendEnd ==
    /\ ClientAt("lines")
    /\ Up!Start(StreamEnd)
    /\ Go("ending")
    /\ UNCHANGED << down, server, fds, alive >>

AwaitFinal ==
    /\ ClientAt("ending")
    /\ Down!AskBare(1)
    /\ Go("final")
    /\ UNCHANGED << up, server, fds, alive >>

Written ==
    /\ ClientAt("final")
    /\ \E code \in Responses :
        client' = [client EXCEPT !.pc = "prompt", !.left = @ + 1, !.response = code]
    /\ UNCHANGED << up, down, server, fds, alive >>

(* The user's input ends: write_ returns. *)
StopTyping ==
    /\ ClientAt("lines")
    /\ Return
    /\ UNCHANGED << down, server, alive >>

(* GET: the stat, then a response.  It prints the stat with "%s", which    *)
(* may end the process.                                                    *)
AwaitResponse ==
    /\ ClientAt("stat")
    /\ Down!AskBare(1)
    /\ Go("response")
    /\ UNCHANGED << up, server, fds, alive >>

ShowInfo ==
    /\ ClientAt("response")
    /\ \/ CloseAndReturn
       \/ Leave
    /\ UNCHANGED << down, server, alive >>

ShowRows ==
    /\ ClientAt("rows")
    /\ CloseAndReturn
    /\ UNCHANGED << down, server, alive >>

-----------------------------------------------------------------------------
(* The handler thread.  A step of its own comes when it is neither sending *)
(* nor receiving.                                                          *)
ServerAt(who, pc) ==
    /\ server.who = who /\ server.pc = pc /\ who \in alive
    /\ ~ Down!Sending /\ up.pc = "idle"
Serving(who, ops) == ServerAt(who, "serve") /\ server.op \in ops
ServerGo(pc) == server' = [server EXCEPT !.pc = pc]
Reply(code, pc) == Down!Start(Response(code)) /\ ServerGo(pc)

ReceiveRequest ==
    /\ ServerAt(server.who, "accept")
    /\ Up!AskMessage
    /\ ServerGo("request")
    /\ UNCHANGED << down, client, fds, alive >>

(* The switch of client_handler: on what was read as a request, or, when   *)
(* nothing was, on what happens to be in the buffer.                       *)
Dispatch ==
    LET payload == Payload(Last(up.got).item) IN
    /\ ServerAt(server.who, "request")
    /\ \E op \in Ops \cup {"none"} :
        /\ payload # <<>> =>
            op = IF payload[1] \in Range(Opcode)
                 THEN CHOOSE o \in Ops : Opcode[o] = payload[1] ELSE "none"
        /\ server' = [server EXCEPT !.pc = "serve", !.op = op]
    /\ UNCHANGED << up, down, client, fds, alive >>

Invalid ==
    /\ Serving(server.who, {"none"})
    /\ Reply(INVALID_REQUEST, "done")
    /\ UNCHANGED << up, client, fds, alive >>

(* The naming server's create, delete and copy handlers: one response.     *)
NmAnswers ==
    /\ Serving("nm", {"create", "delete", "copy"})
    /\ \E code \in {OK, NOT_FOUND, ALREADY_EXISTS, INTERNAL_ERROR, INVALID_REQUEST_CONTENT} :
        Reply(code, "done")
    /\ UNCHANGED << up, client, fds, alive >>

(* read_request_handler; file_info_request_handler and                     *)
(* list_request_handler, which go on after NOT_FOUND.                      *)
NmRedirects ==
    /\ \/ Serving("nm", {"read", "write", "get", "list"})
       \/ ServerAt("nm", "redirect")
    /\ Reply(REDIRECT, "address")
    /\ UNCHANGED << up, client, fds, alive >>

(* Mutant of NmNotFound: read_request_handler goes on as well. *)
NmNotFoundGoesOn ==
    /\ Serving("nm", {"read", "write", "get", "list"})
    /\ Reply(NOT_FOUND, "redirect")
    /\ UNCHANGED << up, client, fds, alive >>

NmNotFound ==
    /\ Serving("nm", {"read", "write", "get", "list"})
    /\ Reply(NOT_FOUND, IF server.op \in {"get", "list"} THEN "redirect" ELSE "done")
    /\ UNCHANGED << up, client, fds, alive >>

NmSendsAddress ==
    /\ ServerAt("nm", "address")
    /\ Down!Start(Address)
    /\ ServerGo("done")
    /\ UNCHANGED << up, client, fds, alive >>

(* A storage server's create, delete and copy: no client asks for them,    *)
(* but a request that was never read may look like one.                    *)
SsAnswers ==
    /\ Serving("ss", {"create", "delete", "copy"})
    /\ \E code \in {OK, NOT_FOUND, INTERNAL_ERROR} : Reply(code, "done")
    /\ UNCHANGED << up, client, fds, alive >>

(* READ: is_directory, then read_file_and_send_data, which takes the       *)
(* master lock to open the file; an error after the announcement is one    *)
(* more response.                                                          *)
SsReads ==
    /\ Serving("ss", {"read"})
    /\ Reply(NOT_FOUND, "done") \/ Reply(OK_START_STREAM, "lock")
    /\ UNCHANGED << up, client, fds, alive >>

SsOpens ==
    /\ ServerAt("ss", "lock")
    /\ ServerGo("stream")
    /\ UNCHANGED << up, down, client, fds, alive >>

SsFailsToOpen ==
    /\ ServerAt("ss", "lock")
    /\ Down!Start(Response(INTERNAL_ERROR))
    /\ server' = [server EXCEPT !.pc = "done", !.failed = TRUE]
    /\ UNCHANGED << up, client, fds, alive >>

(* fread fills the buffer until the file ends.                             *)
SsSendsChunk ==
    /\ ServerAt("ss", "stream") /\ Len(server.streamed) < MaxChunks
    /\ server.streamed # <<>> => Full(Last(server.streamed))
    /\ \E chunk \in Chunks :
        /\ Down!Start(Stream(chunk))
        /\ server' = [server EXCEPT !.streamed = Append(@, chunk)]
    /\ UNCHANGED << up, client, fds, alive >>

SsEndsStream ==
    /\ ServerAt("ss", "stream")
    /\ Down!Start(StreamEnd)
    /\ server' = [server EXCEPT !.pc = "done", !.ended = TRUE]
    /\ UNCHANGED << up, client, fds, alive >>

(* WRITE: the master lock is taken to open the file; if that fails, there  *)
(* is no answer at all.                                                    *)
SsWrites ==
    /\ Serving("ss", {"write"})
    /\ Down!Start(Response(OK_START_STREAM))
    /\ server' = [server EXCEPT !.pc = "write", !.response = OK_START_STREAM]
    /\ UNCHANGED << up, client, fds, alive >>

SsWritesNothing ==
    /\ Serving("ss", {"write"})
    /\ server' = [server EXCEPT !.pc = "done", !.failed = TRUE]
    /\ UNCHANGED << up, down, client, fds, alive >>

SsAwaitsChunk ==
    /\ ServerAt("ss", "write")
    /\ Up!AskMessage
    /\ ServerGo("written")
    /\ UNCHANGED << down, client, fds, alive >>

(* Mutant of SsWritesChunk: a chunk that is lost does not end the loop.     *)
SsWritesOn ==
    /\ ServerAt("ss", "written") /\ Streamed(Last(up.got).item) > 0
    /\ \/ server' = [server EXCEPT !.pc = "write", !.response = OK,
                                   !.streamed = Append(@, Payload(Last(up.got).item))]
       \/ server' = [server EXCEPT !.pc = "write", !.response = INTERNAL_ERROR]
    /\ UNCHANGED << up, down, client, fds, alive >>

(* Mutant of SsWritesChunk: an error ends the thread without an answer.    *)
SsWritesOrGivesUp ==
    /\ ServerAt("ss", "written") /\ Streamed(Last(up.got).item) > 0
    /\ \/ server' = [server EXCEPT !.pc = "write", !.response = OK,
                                   !.streamed = Append(@, Payload(Last(up.got).item))]
       \/ ServerGo("done")
    /\ UNCHANGED << up, down, client, fds, alive >>

(* If writing fails, the file, which write_file has closed, is unlocked    *)
(* and closed once more: the process may exit instead of answering, which  *)
(* is a Crash.                                                             *)
SsWritesChunk ==
    /\ ServerAt("ss", "written") /\ Streamed(Last(up.got).item) > 0
    /\ \/ /\ server' = [server EXCEPT !.pc = "write", !.response = OK,
                                      !.streamed = Append(@, Payload(Last(up.got).item))]
          /\ UNCHANGED down
       \/ Reply(INTERNAL_ERROR, "done")
    /\ UNCHANGED << up, client, fds, alive >>

SsEndsWrite ==
    /\ ServerAt("ss", "written") /\ Streamed(Last(up.got).item) <= 0
    /\ Reply(IF Streamed(Last(up.got).item) = 0 THEN server.response
             ELSE INTERNAL_ERROR, "done")
    /\ UNCHANGED << up, client, fds, alive >>

(* FILE_INFO: what stat says and OK, or the bare error in its place.       *)
SsSendsStat ==
    /\ Serving("ss", {"get"})
    /\ Down!Start(Stat)
    /\ ServerGo("stat")
    /\ UNCHANGED << up, client, fds, alive >>

SsConfirmsStat ==
    /\ ServerAt("ss", "stat")
    /\ Reply(OK, "done")
    /\ UNCHANGED << up, client, fds, alive >>

SsFailsToStat ==
    /\ Serving("ss", {"get"})
    /\ Down!Start(Response(INTERNAL_ERROR))
    /\ server' = [server EXCEPT !.pc = "done", !.failed = TRUE]
    /\ UNCHANGED << up, client, fds, alive >>

(* GET_LIST: the rows follow whatever the response says.                   *)
SsLists ==
    /\ Serving("ss", {"list"})
    /\ Reply(OK, "rows") \/ Reply(INTERNAL_ERROR, "rows")
    /\ UNCHANGED << up, client, fds, alive >>

SsSendsRows ==
    /\ ServerAt("ss", "rows")
    /\ Down!Start(Rows)
    /\ ServerGo("done")
    /\ UNCHANGED << up, client, fds, alive >>

-----------------------------------------------------------------------------
(* The connection. *)
Busy == client.pc \notin {"prompt", "gone"}

ClientRecv == Busy /\ Down!Recv /\ UNCHANGED << up, client, server, fds, alive >>
ServerRecv == server.who \in alive /\ Up!Recv /\ UNCHANGED << down, client, server, fds, alive >>

(* A send to a peer whose end is closed passes once; the next may kill the *)
(* process.                                                                *)
ClientSend ==
    /\ Busy /\ Up!Send
    /\ client' = [client EXCEPT !.late = ~ down.open]
    /\ UNCHANGED << down, server, fds, alive >>

ServerSend ==
    /\ server.who \in alive /\ Down!Send
    /\ server' = [server EXCEPT !.late = ~ up.open]
    /\ UNCHANGED << up, client, fds, alive >>

ClientSigpipe ==
    /\ Busy /\ client.late /\ Up!Sending
    /\ Leave
    /\ UNCHANGED << down, server, alive >>

(* The connection to a server that has gone is reset: recv returns -1, and *)
(* every command returns.                                                  *)
ClientReset ==
    /\ Busy /\ client.late /\ down.pc # "idle"
    /\ Return
    /\ UNCHANGED << down, server, alive >>

ServerSigpipe ==
    /\ server.who \in alive /\ server.late /\ Down!Sending
    /\ Down!Close
    /\ alive' = alive \ {server.who}
    /\ UNCHANGED << up, client, server, fds >>

(* Faults: a server crashes, the client exits or is killed.                *)
Crash(who) ==
    /\ who \in alive
    /\ alive' = alive \ {who}
    /\ IF who = server.who /\ down.open THEN Down!Close ELSE UNCHANGED down
    /\ UNCHANGED << up, client, server, fds >>

Gone ==
    /\ client.pc # "gone"
    /\ Leave
    /\ UNCHANGED << down, server, alive >>

ClientStep ==
    \/ SendRequest \/ AwaitAnswer \/ Redirected \/ Answered \/ Follow \/ AnsweredBySs
    \/ ShowChunk \/ ShowEof \/ ReadBreaksOff \/ SendEnd \/ AwaitFinal \/ Written
    \/ AwaitResponse \/ ShowInfo \/ ShowRows \/ ClientRecv \/ ClientSend

ServerStep ==
    \/ ReceiveRequest \/ Dispatch \/ Invalid \/ NmAnswers \/ NmRedirects \/ NmNotFound
    \/ NmSendsAddress \/ SsAnswers \/ SsReads \/ SsOpens \/ SsFailsToOpen
    \/ SsSendsChunk \/ SsEndsStream \/ SsWrites \/ SsWritesNothing \/ SsAwaitsChunk
    \/ SsWritesChunk \/ SsEndsWrite \/ SsSendsStat \/ SsConfirmsStat \/ SsFailsToStat \/ SsLists
    \/ SsSendsRows \/ ServerRecv \/ ServerSend

Next ==
    \/ \E cmd \in Commands : Command(cmd)
    \/ ClientStep \/ ServerStep \/ SendLine \/ StopTyping
    \/ ClientSigpipe \/ ClientReset \/ ServerSigpipe \/ Gone \/ \E who \in alive : Crash(who)

Spec == Init /\ [][Next]_vars

(* Where a handler waits for more than its client's bytes: at the naming   *)
(* server for what a storage server answers, at a storage server for the   *)
(* master lock, which may be lost for ever (StorageServer), or, in a copy, *)
(* for the other server.                                                   *)
AwaitsOthers ==
    \/ Serving("nm", {"create", "delete", "copy"})
    \/ Serving("ss", {"delete", "copy", "write"})
    \/ ServerAt("ss", "lock")

(* Both programs run, but no handler is sure to get what it awaits of      *)
(* others; the user ends what was begun.                                   *)
FairSpec ==
    Spec /\ WF_vars(ClientStep) /\ WF_vars(~ AwaitsOthers /\ ServerStep)
-----------------------------------------------------------------------------
(* Properties. *)

ClientPcs ==
    {"prompt", "connected", "request", "answer", "address", "stream", "lines", "ending",
     "final", "stat", "response", "rows", "gone"}
ServerPcs ==
    {"accept", "request", "serve", "redirect", "address", "lock", "stream", "write", "written",
     "stat", "rows", "done"}
ClientRecord ==
    [pc : ClientPcs, cmd : Commands \cup {"none"}, peer : {"nm", "ss"},
     connection_socket : 0 .. MaxFd, ss_connection : 0 .. MaxFd, response : Byte,
     received : Seq(Seq(Byte)), shown : Seq(Byte), printed : BOOLEAN, lines : 0 .. MaxChunks,
     count : 0 .. MaxCommands, left : 0 .. MaxCommands, late : BOOLEAN,
     quit : ClientPcs \cup {"no"}]
ServerRecord ==
    [who : {"nm", "ss"}, pc : ServerPcs, op : Ops \cup {"none"}, response : Byte,
     streamed : Seq(Seq(Byte)), ended : BOOLEAN, failed : BOOLEAN, late : BOOLEAN]

(* The processes and the connection are well typed. *)
TypeOK ==
    /\ Up!TypeOK /\ Down!TypeOK
    /\ client \in ClientRecord /\ server \in ServerRecord
    /\ fds \subseteq 1 .. MaxFd
    /\ alive \subseteq {"nm", "ss"}

(* In both directions what was received is what was sent, unless a fixed   *)
(* field was read short or the two programs disagree on what comes next.   *)
ReceivedAsSent == Up!ReceivedAsSent /\ Down!ReceivedAsSent

(* A process that waits for ever in receive_message for the rest of a      *)
(* payload waits for a message that its peer has left unfinished.          *)
SpinsOnCutItems == Up!SpinsOnCutItems /\ Down!SpinsOnCutItems

(* Client and servers always agree on what comes next and on how long it   *)
(* is, in every command and on every path through the handlers, with three *)
(* exceptions: a READ that fails after its announcement and a GET that     *)
(* fails (in both the client takes a bare response for something else,     *)
(* client_handler.c:397 and :513), and the rows of every LIST, of which    *)
(* the client wants more than are sent (list.c:108, client_handler.c:520). *)
(* A short read can shift anything.                                        *)
Whole(direction) == "short" \notin direction.astray
AgreeOnWhatComes ==
    /\ Whole(up) => "mixed" \notin up.astray
    /\ Whole(up) /\ Whole(down) /\ "mixed" \in down.astray =>
        \/ server.failed /\ server.op \in {"read", "get"}
        \/ server.who = "ss" /\ server.op = "list" /\ Len(down.got) = 2

(* The chunks that a READ receives are the first of those the storage      *)
(* server sent, and when it prints EOF it has received all of them, unless *)
(* the server was gone before the end: the client cannot tell an end from  *)
(* a cut header.  What it shows of them is what it received only if that   *)
(* is one chunk, not a full one, without a NUL: of any other chunk "%s"    *)
(* shows less or more (read.c:105, :116).                                  *)
EofMeansAll ==
    server.op = "read" /\ server.who = "ss" /\ down.astray = {} =>
        /\ IsPrefix(client.received, server.streamed)
        /\ client.printed /\ ~ down.eof =>
              client.received = server.streamed /\ server.ended
        /\ Len(client.received) = 1 =>
              LET data == client.received[1]
              IN  ~ Full(data) /\ 0 \notin Range(data) => client.shown = data

(* A WRITE that was told OK has had all its lines written, and at least    *)
(* one; a WRITE without lines is answered OK_START_STREAM again.           *)
OkMeansWritten ==
    client.cmd = "write" /\ client.peer = "ss" /\ client.pc = "prompt"
    /\ up.astray = {} /\ down.astray = {} /\ down.pc = "idle" =>
        /\ client.response = OK => client.lines > 0
        /\ client.response = OK => Len(server.streamed) = client.lines

(* The client connects, sends and receives on one socket, although read.c  *)
(* and write.c connect connection_socket, which they have just closed, and *)
(* use ss_connection: the new socket has the number of the old one,        *)
(* whatever earlier commands have left open.                               *)
SameSocket ==
    client.peer = "ss" /\ client.pc \notin {"prompt", "gone"} =>
        client.ss_connection = client.connection_socket /\ client.ss_connection \in fds

(* A client that goes on, or that exits at its prompt, does not kill a     *)
(* server by SIGPIPE (no server sends twice to a client that has gone),    *)
(* with one exception: the naming server's second answer to a GET or a     *)
(* LIST of an unknown path.                                                *)
ServersOutliveClients ==
    server.late /\ Down!Sending /\ Whole(down) /\ Whole(up) =>
        /\ client.pc = "gone"
        /\ \/ client.quit # "prompt"
           \/ server.who = "nm" /\ server.op \in {"get", "list"}

(* Every command ends, unless its handler waits for others for ever, a     *)
(* server was gone in the middle of a message, a field was read short, or  *)
(* the storage server failed in a READ, a GET (which lead the client       *)
(* astray) or a WRITE (no answer).                                         *)
CommandsEnd ==
    \/ <>[]AwaitsOthers
    \/ client.pc \notin {"prompt", "lines", "gone"} ~>
          \/ client.pc \in {"prompt", "lines", "gone"}
          \/ ~ Whole(up) \/ ~ Whole(down) \/ Down!Spins
          \/ (server.failed /\ server.op \in {"read", "write", "get"})
=============================================================================
