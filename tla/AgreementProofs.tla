--------------------------- MODULE AgreementProofs ---------------------------
(***************************************************************************)
(* Client and handlers agree on what comes next, an end of file means that *)
(* the whole file was received, an OK that all lines were written, and no  *)
(* client kills a server: for any commands, bounds and chunk size.         *)
(*                                                                         *)
(* SessionProofs shows that each of the two keeps to its script.  Here the *)
(* scripts are held against each other: what one receives is, in order,    *)
(* what the other has sent, so that the place it has reached in its own    *)
(* script says what the other has done.                                    *)
(***************************************************************************)
EXTENDS SessionProofs

-----------------------------------------------------------------------------
(* What the handlers send is told apart. *)
LEMMA CodesDiffer ==
    /\ \A c, d : Response(c) = Response(d) => c = d
    /\ \A c : /\ Response(c).kind = "bare" /\ Len(Response(c).bytes) = 1
              /\ Response(c) \notin {Address, Stat, Rows, StreamEnd}
<1>1. \A c : Response(c).kind = "bare" /\ Response(c).bytes = << c >>
  BY DEF Response, Bare
<1>2. \A c : Len(<< c >>) = 1 /\ << c >>[1] = c
  OBVIOUS
<1>3. \A c, d : << c >> = << d >> => c = d
  <2> TAKE c, d
  <2> DEFINE s == << c >>
             t == << d >>
  <2>1. s[1] = c /\ t[1] = d
    OBVIOUS
  <2> HIDE DEF s, t
  <2>2. s = t => c = d
    BY <2>1
  <2>3. QED
    BY <2>2 DEF s, t
<1>4. /\ Len(Address.bytes) = 2 /\ Len(Stat.bytes) = 2 /\ Len(Rows.bytes) = 3
      /\ StreamEnd.kind = "message"
  BY DEF Address, Stat, Rows, Bare, StreamEnd, Message
<1>5. \A c, d : Response(c) = Response(d) => c = d
  <2> TAKE c, d
  <2> SUFFICES ASSUME Response(c) = Response(d) PROVE c = d
    OBVIOUS
  <2>1. << c >> = Response(c).bytes /\ << d >> = Response(d).bytes
    BY <1>1
  <2>2. << c >> = << d >>
    BY <2>1, Zenon
  <2>3. QED
    BY <1>3, <2>2, Zenon
<1>6. \A c : Len(Response(c).bytes) = 1
  BY <1>1, <1>2, Zenon
<1>7. \A c : Response(c) \notin {Address, Stat, Rows, StreamEnd}
  <2> TAKE c
  <2> DEFINE r == Response(c)
  <2>1. r.kind = "bare" /\ Len(r.bytes) = 1
    BY <1>1, <1>6, Zenon
  <2> HIDE DEF r
  <2>2. r \notin {Address, Stat, Rows, StreamEnd}
    BY <1>4, <2>1
  <2>3. QED
    BY <2>2 DEF r
<1>8. QED
  BY <1>1, <1>5, <1>6, <1>7, Zenon

LEMMA ShortSequences ==
    /\ \A x : Append(<<>>, x) = << x >>
    /\ \A a, x : Append(<< a >>, x) = << a, x >>
    /\ \A a, b, x : Append(<< a, b >>, x) = << a, b, x >>
    /\ \A a : Len(<< a >>) = 1 /\ << a >>[1] = a /\ << a >> # <<>>
    /\ \A a, b : Len(<< a, b >>) = 2 /\ << a, b >>[1] = a /\ << a, b >>[2] = b /\ << a, b >> # <<>>
    /\ \A a, b, c : /\ Len(<< a, b, c >>) = 3 /\ << a, b, c >>[1] = a
                    /\ << a, b, c >>[2] = b /\ << a, b, c >>[3] = c /\ << a, b, c >> # <<>>
<1>1. \A x : Append(<<>>, x) = << x >>
  OBVIOUS
<1>2. ASSUME NEW a, NEW x
      PROVE  Append(<< a >>, x) = << a, x >>
  <2> DEFINE S == {a, x}
             s == << a >>
             t == << a, x >>
  <2>1. s \in Seq(S) /\ t \in Seq(S) /\ Len(s) = 1 /\ Len(t) = 2 /\ s[1] = a /\ t[1] = a /\ t[2] = x
    OBVIOUS
  <2> HIDE DEF S, s, t
  <2> PICK u : u = Append(s, x)
    OBVIOUS
  <2>2. s \in Seq(S) /\ x \in S
    BY <2>1 DEF S
  <2>3. u \in Seq(S) /\ Len(u) = 2 /\ u[1] = a /\ u[2] = x
    <3>1. /\ u \in Seq(S) /\ Len(u) = Len(s) + 1 /\ u[Len(s) + 1] = x
          /\ \A i \in 1 .. Len(s) : u[i] = s[i]
      BY <2>2, AppendProperties
    <3>2. QED
      BY <2>1, <3>1
  <2>4. u = t
    BY <2>1, <2>3, SeqEqual
  <2>5. QED
    BY <2>4 DEF s, t
<1>3. ASSUME NEW a, NEW b, NEW x
      PROVE  Append(<< a, b >>, x) = << a, b, x >>
  <2> DEFINE S == {a, b, x}
             s == << a, b >>
             t == << a, b, x >>
  <2>1. /\ s \in Seq(S) /\ t \in Seq(S) /\ Len(s) = 2 /\ Len(t) = 3
        /\ s[1] = a /\ s[2] = b /\ t[1] = a /\ t[2] = b /\ t[3] = x
    OBVIOUS
  <2> HIDE DEF S, s, t
  <2> PICK u : u = Append(s, x)
    OBVIOUS
  <2>2. s \in Seq(S) /\ x \in S
    BY <2>1 DEF S
  <2>3. u \in Seq(S) /\ Len(u) = 3 /\ u[1] = a /\ u[2] = b /\ u[3] = x
    <3>1. /\ u \in Seq(S) /\ Len(u) = Len(s) + 1 /\ u[Len(s) + 1] = x
          /\ \A i \in 1 .. Len(s) : u[i] = s[i]
      BY <2>2, AppendProperties
    <3>2. QED
      BY <2>1, <3>1
  <2>4. u = t
    BY <2>1, <2>3, SeqEqual
  <2>5. QED
    BY <2>4 DEF s, t
<1>4. \A a : Len(<< a >>) = 1 /\ << a >>[1] = a /\ << a >> # <<>>
  OBVIOUS
<1>5. \A a, b : Len(<< a, b >>) = 2 /\ << a, b >>[1] = a /\ << a, b >>[2] = b /\ << a, b >> # <<>>
  OBVIOUS
<1>6. \A a, b, c : /\ Len(<< a, b, c >>) = 3 /\ << a, b, c >>[1] = a
                   /\ << a, b, c >>[2] = b /\ << a, b, c >>[3] = c /\ << a, b, c >> # <<>>
  OBVIOUS
<1>7. QED
  BY <1>1, <1>2, <1>3, <1>4, <1>5, <1>6

(* Chunks are told from the rest, and from each other. *)
LEMMA ChunksDiffer ==
    /\ \A c \in Chunks : /\ Stream(c).kind = "message" /\ Stream(c) # StreamEnd
                         /\ \A code : Stream(c) # Response(code)
    /\ \A c, d \in Chunks : Stream(c) = Stream(d) => c = d
<1>1. \A c \in Chunks : Streamed(Stream(c)) # 0 /\ Payload(Stream(c)) = c
  BY LineIsTwoBytes, ChunksTyped
<1>2. Streamed(StreamEnd) = 0
  BY LineIsTwoBytes
<1>3. \A c : Stream(c).kind = "message"
  BY DEF Stream, Message
<1>4. \A code : Response(code).kind = "bare"
  BY CodesDiffer
<1>5. \A c, d \in Chunks : Stream(c) = Stream(d) => c = d
  BY <1>1, Zenon
<1>6. \A c \in Chunks : Stream(c) # StreamEnd
  BY <1>1, <1>2, Zenon
<1>7. \A c \in Chunks : \A code : Stream(c) # Response(code)
  <2> TAKE c \in Chunks
  <2> TAKE code
  <2>1. Stream(c).kind = "message" /\ Response(code).kind = "bare"
    BY <1>3, <1>4, Zenon
  <2>2. QED
    BY <2>1
<1>8. QED
  BY <1>3, <1>5, <1>6, <1>7, Zenon

(* What is sent after it leaves what was sent as it was. *)
LEMMA CarriesStill ==
    ASSUME NEW sent, NEW longer, NEW chunks \in Seq(Seq(Byte)), Carries(sent, chunks),
           \A j \in 1 .. Len(chunks) + 1 : longer[j] = sent[j]
    PROVE  Carries(longer, chunks)
<1>1. \A i \in 1 .. Len(chunks) : i + 1 \in 1 .. Len(chunks) + 1
  OBVIOUS
<1>2. QED
  BY <1>1 DEF Carries

LEMMA CarriesMore ==
    ASSUME NEW sent, NEW longer, NEW chunks \in Seq(Seq(Byte)), Carries(sent, chunks),
           \A j \in 1 .. Len(chunks) + 1 : longer[j] = sent[j],
           NEW chunk \in Chunks, longer[Len(chunks) + 2] = Stream(chunk)
    PROVE  Carries(longer, Append(chunks, chunk)) /\ Len(Append(chunks, chunk)) = Len(chunks) + 1
<1> PICK more : more = Append(chunks, chunk)
  OBVIOUS
<1>1. /\ Len(more) = Len(chunks) + 1 /\ Len(chunks) \in Nat
      /\ \A i \in 1 .. Len(chunks) : more[i] = chunks[i]
      /\ more[Len(chunks) + 1] = chunk
  BY ChunksTyped, AppendProperties
<1>2. ASSUME NEW i \in 1 .. Len(more)
      PROVE  more[i] \in Chunks /\ longer[i + 1] = Stream(more[i])
  <2>1. CASE i \in 1 .. Len(chunks)
    <3>1. i + 1 \in 1 .. Len(chunks) + 1
      BY <1>1, <2>1
    <3>2. chunks[i] \in Chunks /\ sent[i + 1] = Stream(chunks[i])
      BY <2>1 DEF Carries
    <3>3. QED
      BY <1>1, <2>1, <3>1, <3>2
  <2>2. CASE i = Len(chunks) + 1
    BY <1>1, <2>2
  <2>3. QED
    BY <1>1, <2>1, <2>2
<1>3. QED
  BY <1>1, <1>2 DEF Carries

-----------------------------------------------------------------------------
(* The naming server keeps to its script. *)
NmSteps == NmAnswers \/ NmRedirects \/ NmNotFound \/ NmSendsAddress

LEMMA NmStepsSend ==
    ASSUME Held, NmSteps
    PROVE  HandlerSends'
<1>1. /\ HandlerSends /\ server \in ServerRecord /\ DownIs
  BY HeldParts
<1>2. \A i : Down!Start(i) => down'.sent = Append(down.sent, i)
  BY <1>1 DEF DownIs, Started
<1>3. {OK, NOT_FOUND, ALREADY_EXISTS, INTERNAL_ERROR, INVALID_REQUEST_CONTENT, REDIRECT}
        \subseteq Codes
  BY DEF Codes
<1>4. server.who = "nm" /\ server.pc # "done" /\ ~ server.failed
  BY <1>1 DEF NmSteps, NmAnswers, NmRedirects, NmNotFound, NmSendsAddress, Serving, ServerAt,
              HandlerSends, ServerRecord
<1>5. CASE NmAnswers
  <2> PICK code \in {OK, NOT_FOUND, ALREADY_EXISTS, INTERNAL_ERROR, INVALID_REQUEST_CONTENT} :
        Reply(code, "done")
    BY <1>5 DEF NmAnswers
  <2>1. /\ server' = [server EXCEPT !.pc = "done"] /\ server.pc = "serve" /\ down.sent = <<>>
        /\ down'.sent = Append(down.sent, Response(code))
    BY <1>1, <1>2, <1>5 DEF NmAnswers, Reply, ServerGo, Serving, ServerAt, HandlerSends
  <2>2. down'.sent = << Response(code) >> /\ IsResponse(Response(code))
    BY <1>3, <2>1, ShortSequences DEF IsResponse
  <2>3. NmSends'
    BY <2>2, ShortSequences DEF NmSends
  <2>4. server'.pc = "done" /\ server'.who = "nm" /\ ~ server'.failed
    BY <1>1, <1>4, <2>1 DEF ServerRecord
  <2>5. QED
    BY <2>3, <2>4 DEF HandlerSends
<1>6. CASE NmRedirects
  <2>1. /\ server' = [server EXCEPT !.pc = "address"]
        /\ down'.sent = Append(down.sent, Response(REDIRECT))
        /\ \/ server.pc = "serve" /\ down.sent = <<>> /\ server.op \in {"read", "write", "get", "list"}
           \/ /\ server.pc = "redirect" /\ down.sent = << Response(NOT_FOUND) >>
              /\ server.op \in {"get", "list"}
    BY <1>1, <1>2, <1>6 DEF NmRedirects, Reply, ServerGo, Serving, ServerAt, HandlerSends
  <2>2. /\ IsResponse(Response(REDIRECT)) /\ IsResponse(Response(NOT_FOUND))
        /\ Response(NOT_FOUND) # Response(REDIRECT)
    BY <1>3, CodesDiffer DEF IsResponse, NOT_FOUND, REDIRECT
  <2>3. \/ down'.sent = << Response(REDIRECT) >>
        \/ server.op \in {"get", "list"} /\ down'.sent = << Response(NOT_FOUND), Response(REDIRECT) >>
    <3>1. CASE down.sent = <<>>
      BY <2>1, <3>1, ShortSequences, Zenon
    <3>2. CASE down.sent = << Response(NOT_FOUND) >>
      <4>1. down.sent # <<>>
        BY <3>2
      <4>2. Append(<< Response(NOT_FOUND) >>, Response(REDIRECT))
              = << Response(NOT_FOUND), Response(REDIRECT) >>
        BY ShortSequences, Zenon
      <4>3. server.op \in {"get", "list"} /\ down'.sent = Append(down.sent, Response(REDIRECT))
        BY <2>1, <4>1
      <4>4. QED
        BY <3>2, <4>2, <4>3, Zenon
    <3>3. QED
      BY <2>1, <3>1, <3>2
  <2>4. NmSends'
    BY <2>2, <2>3, ShortSequences DEF NmSends
  <2>5. /\ server'.pc = "address" /\ server'.who = "nm" /\ ~ server'.failed
        /\ server'.op = server.op /\ server.op \in {"read", "write", "get", "list"}
    BY <1>1, <1>4, <2>1 DEF ServerRecord
  <2>6. QED
    BY <2>3, <2>4, <2>5 DEF HandlerSends
<1>7. CASE NmNotFound
  <2>1. /\ server' = [server EXCEPT !.pc = IF server.op \in {"get", "list"} THEN "redirect" ELSE "done"]
        /\ server.pc = "serve" /\ down.sent = <<>>
        /\ down'.sent = Append(down.sent, Response(NOT_FOUND))
    BY <1>1, <1>2, <1>7 DEF NmNotFound, Reply, ServerGo, Serving, ServerAt, HandlerSends
  <2>2. down'.sent = << Response(NOT_FOUND) >> /\ IsResponse(Response(NOT_FOUND))
    BY <1>3, <2>1, ShortSequences DEF IsResponse
  <2>3. NmSends'
    BY <2>2, ShortSequences DEF NmSends
  <2>4. /\ server'.pc = IF server.op \in {"get", "list"} THEN "redirect" ELSE "done"
        /\ server'.who = "nm" /\ ~ server'.failed /\ server'.op = server.op
    BY <1>1, <1>4, <2>1 DEF ServerRecord
  <2>5. QED
    BY <2>2, <2>3, <2>4 DEF HandlerSends
<1>8. CASE NmSendsAddress
  <2>1. /\ server' = [server EXCEPT !.pc = "done"]
        /\ down'.sent = Append(down.sent, Address)
        /\ \/ down.sent = << Response(REDIRECT) >>
           \/ down.sent = << Response(NOT_FOUND), Response(REDIRECT) >>
    BY <1>1, <1>2, <1>8 DEF NmSendsAddress, ServerGo, ServerAt, HandlerSends
  <2>2. /\ IsResponse(Response(REDIRECT)) /\ IsResponse(Response(NOT_FOUND))
        /\ Response(NOT_FOUND) # Response(REDIRECT)
    BY <1>3, CodesDiffer DEF IsResponse, NOT_FOUND, REDIRECT
  <2>3. \/ down'.sent = << Response(REDIRECT), Address >>
        \/ down'.sent = << Response(NOT_FOUND), Response(REDIRECT), Address >>
    <3>1. Append(<< Response(REDIRECT) >>, Address) = << Response(REDIRECT), Address >>
      BY ShortSequences, Zenon
    <3>2. Append(<< Response(NOT_FOUND), Response(REDIRECT) >>, Address)
            = << Response(NOT_FOUND), Response(REDIRECT), Address >>
      BY ShortSequences, Zenon
    <3>3. down'.sent = Append(down.sent, Address)
      BY <2>1
    <3>4. CASE down.sent = << Response(REDIRECT) >>
      BY <3>1, <3>3, <3>4, Zenon
    <3>5. CASE down.sent = << Response(NOT_FOUND), Response(REDIRECT) >>
      BY <3>2, <3>3, <3>5, Zenon
    <3>6. QED
      BY <2>1, <3>4, <3>5
  <2>4. NmSends'
    <3>1. CASE down'.sent = << Response(REDIRECT), Address >>
      BY <2>2, <3>1, ShortSequences DEF NmSends
    <3>2. CASE down'.sent = << Response(NOT_FOUND), Response(REDIRECT), Address >>
      BY <2>2, <3>2, ShortSequences DEF NmSends
    <3>3. QED
      BY <2>3, <3>1, <3>2
  <2>5. server'.pc = "done" /\ server'.who = "nm" /\ ~ server'.failed
    BY <1>1, <1>4, <2>1 DEF ServerRecord
  <2>6. QED
    BY <2>4, <2>5 DEF HandlerSends
<1>9. QED
  BY <1>5, <1>6, <1>7, <1>8 DEF NmSteps

-----------------------------------------------------------------------------
(* A storage server keeps to its script. *)
SsItem(item) == IsResponse(item) \/ IsChunk(item) \/ item \in {Stat, Rows, StreamEnd}

(* One thing more is sent. *)
LEMMA SentOneMore ==
    ASSUME Held, NEW i \in Traffic, Down!Start(i)
    PROVE  /\ down'.sent = Append(down.sent, i) /\ Len(down'.sent) = Len(down.sent) + 1
           /\ Len(down.sent) \in Nat /\ down'.sent[Len(down.sent) + 1] = i
           /\ \A j \in 1 .. Len(down.sent) : down'.sent[j] = down.sent[j]
           /\ down'.sent # <<>> /\ Last(down'.sent) = i
           /\ down.sent = <<>> => down'.sent = << i >> /\ Len(down.sent) = 0
           /\ \A j \in 1 .. Len(down'.sent) : j \in 1 .. Len(down.sent) \/ j = Len(down.sent) + 1
<1>1. down'.sent = Append(down.sent, i)
  BY HeldParts DEF DownIs, Started
<1>2. down.sent \in Seq(ItemRecord) /\ i \in ItemRecord
  BY SentIsTyped, TrafficIsItems
<1>3. down.sent = <<>> => down'.sent = << i >>
  BY <1>1, ShortSequences, Zenon
<1>4. QED
  BY <1>1, <1>2, <1>3, OneMore

LEMMA SsItemsKept ==
    ASSUME Held, server.who = "ss", NEW i \in Traffic, Down!Start(i), SsItem(i)
    PROVE  \A j \in 1 .. Len(down'.sent) : SsItem(down'.sent[j])
<1>1. \A j \in 1 .. Len(down.sent) : SsItem(down.sent[j])
  BY HeldParts DEF HandlerSends, SsSends, SsItem
<1>2. QED
  BY <1>1, SentOneMore

(* The first thing it sends is a response, to a request that is not for a   *)
(* stat.                                                                   *)
LEMMA FirstResponse ==
    ASSUME Held, server.who = "ss", server.pc = "serve", server.op # "get",
           NEW code \in Codes, Down!Start(Response(code)),
           server'.who = "ss", server'.op = server.op, server'.streamed = server.streamed,
           server'.ended = server.ended, ~ server'.failed
    PROVE  SsSends' /\ down'.sent = << Response(code) >>
<1>1. HandlerSends /\ Response(code) \in Traffic /\ IsResponse(Response(code))
  BY HeldParts, InTraffic DEF IsResponse
<1>2. down.sent = <<>> /\ server.streamed = <<>> /\ ~ server.ended
  BY <1>1 DEF HandlerSends
<1>3. down'.sent = << Response(code) >> /\ Len(down'.sent) = 1 /\ down'.sent[1] = Response(code)
  BY <1>1, <1>2, SentOneMore
<1>4. \A j \in 1 .. Len(down'.sent) : down'.sent[j] = Response(code)
  BY <1>3
<1>5. Len(server'.streamed) = 0
  BY <1>2
<1>6. ReadSends'
  <2>1. /\ 0 \in 0 .. Len(down'.sent) /\ Len(down'.sent) = 0 + 1 /\ IsResponse(down'.sent[1])
        /\ Carries(down'.sent, server'.streamed)
    BY <1>1, <1>3, <1>5 DEF Carries
  <2>2. QED
    BY <1>2, <1>5, <2>1 DEF ReadSends
<1>7. QED
  BY <1>1, <1>3, <1>4, <1>6 DEF SsSends

LEMMA ServesFirst ==
    ASSUME Held, SsAnswers \/ SsReads \/ SsWrites \/ SsLists \/ Invalid
    PROVE  HandlerSends'
<1>1. /\ HandlerSends /\ server \in ServerRecord /\ DownIs
  BY HeldParts
<1>2. Codes = {NOT_FOUND, INTERNAL_ERROR, INVALID_REQUEST, INVALID_REQUEST_CONTENT,
               ALREADY_EXISTS, OK, REDIRECT, OK_START_STREAM}
  BY DEF Codes
<1>3. PICK code \in Codes :
        /\ Down!Start(Response(code))
        /\ server.pc = "serve"
        /\ \/ /\ SsAnswers /\ server.op \in {"create", "delete", "copy"} /\ server.who = "ss"
              /\ server' = [server EXCEPT !.pc = "done"]
           \/ /\ SsReads /\ server.op = "read" /\ server.who = "ss"
              /\ \/ server' = [server EXCEPT !.pc = "done"]
                 \/ server' = [server EXCEPT !.pc = "lock"] /\ code = OK_START_STREAM
           \/ /\ SsWrites /\ server.op = "write" /\ server.who = "ss" /\ code = OK_START_STREAM
              /\ server' = [server EXCEPT !.pc = "write", !.response = OK_START_STREAM]
           \/ /\ SsLists /\ server.op = "list" /\ server.who = "ss"
              /\ server' = [server EXCEPT !.pc = "rows"]
           \/ /\ Invalid /\ server.op = "none" /\ server' = [server EXCEPT !.pc = "done"]
  <2>1. CASE SsAnswers
    BY <1>2, <2>1 DEF SsAnswers, Reply, ServerGo, Serving, ServerAt
  <2>2. CASE SsReads
    BY <1>2, <2>2 DEF SsReads, Reply, ServerGo, Serving, ServerAt
  <2>3. CASE SsWrites
    BY <1>2, <2>3 DEF SsWrites, Serving, ServerAt
  <2>4. CASE SsLists
    BY <1>2, <2>4 DEF SsLists, Reply, ServerGo, Serving, ServerAt
  <2>5. CASE Invalid
    BY <1>2, <2>5 DEF Invalid, Reply, ServerGo, Serving, ServerAt
  <2>6. QED
    BY <2>1, <2>2, <2>3, <2>4, <2>5
<1>4. /\ server'.who = server.who /\ server'.op = server.op /\ server'.streamed = server.streamed
      /\ server'.ended = server.ended /\ server'.failed = server.failed
      /\ ~ server.failed /\ ~ server.ended /\ server.op # "get"
      /\ down.sent = <<>> /\ server.streamed = <<>>
  BY <1>1, <1>3 DEF ServerRecord, HandlerSends
<1>5. \/ server'.pc = "done"
      \/ server'.pc = "lock" /\ code = OK_START_STREAM /\ server.op = "read" /\ server.who = "ss"
      \/ server'.pc = "write" /\ code = OK_START_STREAM /\ server.op = "write" /\ server.who = "ss"
      \/ server'.pc = "rows" /\ server.op = "list" /\ server.who = "ss"
  BY <1>1, <1>3 DEF ServerRecord
<1>6. Response(code) \in Traffic /\ IsResponse(Response(code))
  BY InTraffic DEF IsResponse
<1>7. /\ down'.sent = << Response(code) >> /\ Len(down'.sent) = 1 /\ down'.sent[1] = Response(code)
      /\ down'.sent # <<>>
  BY <1>3, <1>4, <1>6, SentOneMore
<1>8. server.who = "ss" => SsSends'
  BY <1>3, <1>4, FirstResponse
<1>9. server.who = "nm" => NmSends'
  BY <1>6, <1>7 DEF NmSends
<1>10. server.who = "nm" \/ server.who = "ss"
  BY <1>1 DEF ServerRecord
<1>11. QED
  BY <1>4, <1>5, <1>7, <1>8, <1>9, <1>10 DEF HandlerSends

(* The chunks of a READ, with the end or an error after them. *)
LEMMA ReadGoesOn ==
    ASSUME Held, SsFailsToOpen \/ SsSendsChunk \/ SsEndsStream
    PROVE  HandlerSends'
<1>1. /\ HandlerSends /\ server \in ServerRecord /\ DownIs
  BY HeldParts
<1>2. /\ server.who = "ss" /\ server.pc \in {"lock", "stream"} /\ server.op = "read" /\ ~ server.ended
      /\ ~ server.failed /\ down.sent # <<>> /\ down.sent[1] = Response(OK_START_STREAM)
      /\ server.pc = "lock" => SsFailsToOpen
  BY <1>1 DEF HandlerSends, SsFailsToOpen, SsSendsChunk, SsEndsStream, ServerAt
<1>3. /\ INTERNAL_ERROR \in Codes /\ Response(INTERNAL_ERROR) \in Traffic /\ StreamEnd \in Traffic
      /\ \A chunk \in Chunks : Stream(chunk) \in Traffic
  BY InTraffic DEF Codes
<1>4. PICK item \in Traffic :
        /\ Down!Start(item) /\ SsItem(item)
        /\ \/ /\ item = Response(INTERNAL_ERROR)
              /\ server' = [server EXCEPT !.pc = "done", !.failed = TRUE]
           \/ /\ item = StreamEnd
              /\ server' = [server EXCEPT !.pc = "done", !.ended = TRUE]
           \/ /\ server.pc = "stream"
              /\ \E chunk \in Chunks :
                    /\ item = Stream(chunk)
                    /\ server' = [server EXCEPT !.streamed = Append(server.streamed, chunk)]
  <2>1. CASE SsFailsToOpen
    BY <1>3, <2>1 DEF SsFailsToOpen, SsItem, IsResponse
  <2>2. CASE SsEndsStream
    BY <1>3, <2>2 DEF SsEndsStream, SsItem
  <2>3. CASE SsSendsChunk
    <3>1. server.pc = "stream"
      BY <2>3 DEF SsSendsChunk, ServerAt
    <3> PICK chunk \in Chunks :
          /\ Down!Start(Stream(chunk))
          /\ server' = [server EXCEPT !.streamed = Append(server.streamed, chunk)]
      BY <1>1, <2>3 DEF SsSendsChunk, ServerRecord
    <3>2. Stream(chunk) \in Traffic /\ SsItem(Stream(chunk))
      BY <1>3 DEF SsItem, IsChunk
    <3>3. QED
      BY <3>1, <3>2
  <2>4. QED
    BY <2>1, <2>2, <2>3
<1> PICK k \in 0 .. Len(down.sent) :
        /\ Len(server.streamed) = k
        /\ Len(down.sent) = k + 1
        /\ IsResponse(down.sent[1])
        /\ Carries(down.sent, server.streamed)
  BY <1>1, <1>2 DEF HandlerSends, SsSends, ReadSends
<1>5. /\ Len(down'.sent) = k + 2 /\ k \in Nat /\ down'.sent[k + 2] = item
      /\ \A j \in 1 .. k + 1 : down'.sent[j] = down.sent[j]
      /\ down'.sent # <<>> /\ server.streamed \in Seq(Seq(Byte))
  BY <1>1, <1>4, SentOneMore DEF ServerRecord
<1>6. down'.sent[1] = Response(OK_START_STREAM) /\ IsResponse(down'.sent[1])
  <2>1. down'.sent[1] = down.sent[1]
    BY <1>5
  <2>2. QED
    BY <1>2, <2>1
<1>7. Carries(down'.sent, server.streamed)
  BY <1>5, CarriesStill
<1>8. \A j \in 1 .. Len(down'.sent) : SsItem(down'.sent[j])
  BY <1>2, <1>4, SsItemsKept
<1>9. ASSUME NEW chunk \in Chunks, server.pc = "stream", item = Stream(chunk),
             server' = [server EXCEPT !.streamed = Append(server.streamed, chunk)]
      PROVE  HandlerSends'
  <2>1. /\ server'.who = "ss" /\ server'.op = "read" /\ server'.pc = "stream"
        /\ ~ server'.ended /\ ~ server'.failed
        /\ server'.streamed = Append(server.streamed, chunk)
    BY <1>1, <1>2, <1>9 DEF ServerRecord
  <2>2. Carries(down'.sent, server'.streamed) /\ Len(server'.streamed) = k + 1
    BY <1>5, <1>9, <2>1, CarriesMore
  <2>3. k + 1 \in 0 .. Len(down'.sent) /\ Len(down'.sent) = (k + 1) + 1
    BY <1>5
  <2>4. ReadSends'
    BY <1>6, <2>1, <2>2, <2>3 DEF ReadSends
  <2>5. SsSends'
    BY <1>8, <2>1, <2>4 DEF SsSends, SsItem
  <2>6. QED
    BY <1>5, <1>6, <2>1, <2>5 DEF HandlerSends
<1>10. ASSUME \/ /\ item = Response(INTERNAL_ERROR)
                 /\ server' = [server EXCEPT !.pc = "done", !.failed = TRUE]
              \/ /\ item = StreamEnd
                 /\ server' = [server EXCEPT !.pc = "done", !.ended = TRUE]
       PROVE  HandlerSends'
  <2>1. /\ server'.who = "ss" /\ server'.op = "read" /\ server'.pc = "done"
        /\ server'.streamed = server.streamed
        /\ \/ item = Response(INTERNAL_ERROR) /\ server'.failed /\ ~ server'.ended
           \/ item = StreamEnd /\ server'.ended /\ ~ server'.failed
    BY <1>1, <1>2, <1>10 DEF ServerRecord
  <2>2. k \in 0 .. Len(down'.sent) /\ Len(server'.streamed) = k
    BY <1>5, <2>1
  <2>3. ReadSends'
    BY <1>5, <1>6, <1>7, <2>1, <2>2 DEF ReadSends
  <2>4. SsSends'
    BY <1>8, <2>1, <2>3 DEF SsSends, SsItem
  <2>5. QED
    BY <2>1, <2>4 DEF HandlerSends
<1>11. QED
  BY <1>4, <1>9, <1>10

(* The second answer to a WRITE; a stat and its OK; the rows of a listing. *)
LEMMA SendsLast ==
    ASSUME Held, \/ SsEndsWrite \/ SsSendsStat \/ SsConfirmsStat \/ SsFailsToStat \/ SsSendsRows
                 \/ SsWritesChunk /\ down' # down
    PROVE  HandlerSends'
<1>1. /\ HandlerSends /\ HandlerAsks /\ server \in ServerRecord /\ DownIs
  BY HeldParts
<1>2. {OK, OK_START_STREAM, INTERNAL_ERROR} \subseteq Codes
  BY DEF Codes
<1>3. CASE SsEndsWrite \/ (SsWritesChunk /\ down' # down)
  <2>1. PICK code \in Codes : /\ Down!Start(Response(code)) /\ server.who = "ss"
                              /\ server.pc = "written" /\ server' = [server EXCEPT !.pc = "done"]
    <3>1. CASE SsWritesChunk /\ down' # down
      BY <1>2, <3>1 DEF SsWritesChunk, ServerAt, Reply, ServerGo
    <3>2. CASE SsEndsWrite
      <4>1. server.pc = "written" /\ server.who = "ss"
        BY <3>2 DEF SsEndsWrite, ServerAt
      <4>2. server.response \in {OK, OK_START_STREAM}
        BY <1>1, <4>1 DEF HandlerAsks
      <4>3. QED
        BY <1>2, <3>2, <4>1, <4>2 DEF SsEndsWrite, Reply, ServerGo
    <3>3. QED
      BY <1>3, <3>1, <3>2
  <2>2. Response(code) \in Traffic /\ IsResponse(Response(code)) /\ SsItem(Response(code))
    BY InTraffic DEF IsResponse, SsItem
  <2>3. /\ server.op = "write" /\ ~ server.failed /\ down.sent = << Response(OK_START_STREAM) >>
        /\ Len(down.sent) = 1
    BY <1>1, <2>1, ShortSequences DEF HandlerSends
  <2>4. /\ server'.pc = "done" /\ server'.who = "ss" /\ server'.op = "write" /\ ~ server'.failed
    BY <1>1, <2>1, <2>3 DEF ServerRecord
  <2>5. /\ \A j \in 1 .. Len(down'.sent) : SsItem(down'.sent[j])
        /\ \A j \in 1 .. Len(down'.sent) : IsResponse(down'.sent[j])
    <3>1. \A j \in 1 .. Len(down'.sent) : SsItem(down'.sent[j])
      BY <2>1, <2>2, SsItemsKept
    <3>2. \A j \in 1 .. Len(down.sent) : IsResponse(down.sent[j])
      BY <1>1, <2>1, <2>3 DEF HandlerSends, SsSends
    <3>3. QED
      BY <2>1, <2>2, <3>1, <3>2, SentOneMore
  <2>6. SsSends'
    BY <2>4, <2>5 DEF SsSends, SsItem
  <2>7. QED
    BY <2>4, <2>6 DEF HandlerSends
<1>4. CASE SsSendsStat \/ SsFailsToStat
  <2>1. PICK item \in {Stat, Response(INTERNAL_ERROR)} :
          /\ Down!Start(item) /\ server.who = "ss" /\ server.pc = "serve" /\ server.op = "get"
          /\ \/ item = Stat /\ server' = [server EXCEPT !.pc = "stat"]
             \/ item # Stat /\ server' = [server EXCEPT !.pc = "done", !.failed = TRUE]
    BY <1>4, CodesDiffer DEF SsSendsStat, SsFailsToStat, Serving, ServerAt, ServerGo
  <2>2. item \in Traffic /\ SsItem(item)
    BY <1>2, InTraffic DEF SsItem, IsResponse
  <2>3. ~ server.failed /\ down.sent = <<>>
    BY <1>1, <2>1 DEF HandlerSends
  <2>4. down'.sent = << item >>
    BY <2>1, <2>2, <2>3, SentOneMore
  <2>5. /\ server'.who = "ss" /\ server'.op = "get"
        /\ \/ item = Stat /\ server'.pc = "stat" /\ ~ server'.failed
           \/ item = Response(INTERNAL_ERROR) /\ server'.pc = "done" /\ server'.failed
    BY <1>1, <2>1, <2>3 DEF ServerRecord
  <2>6. \A j \in 1 .. Len(down'.sent) : SsItem(down'.sent[j])
    BY <2>1, <2>2, SsItemsKept
  <2>7. SsSends'
    BY <2>4, <2>5, <2>6 DEF SsSends, SsItem
  <2>8. QED
    BY <2>4, <2>5, <2>7 DEF HandlerSends
<1>5. CASE SsConfirmsStat
  <2>1. /\ Down!Start(Response(OK)) /\ server.who = "ss" /\ server.pc = "stat"
        /\ server' = [server EXCEPT !.pc = "done"]
    BY <1>5 DEF SsConfirmsStat, ServerAt, Reply, ServerGo
  <2>2. Response(OK) \in Traffic /\ SsItem(Response(OK))
    BY <1>2, InTraffic DEF SsItem, IsResponse
  <2>3. server.op = "get" /\ ~ server.failed /\ down.sent = << Stat >>
    BY <1>1, <2>1 DEF HandlerSends
  <2>4. down'.sent = << Stat, Response(OK) >>
    <3>1. down'.sent = Append(down.sent, Response(OK))
      BY <2>1, <2>2, SentOneMore
    <3>2. Append(<< Stat >>, Response(OK)) = << Stat, Response(OK) >>
      BY ShortSequences, Zenon
    <3>3. QED
      BY <2>3, <3>1, <3>2, Zenon
  <2>5. server'.who = "ss" /\ server'.op = "get" /\ server'.pc = "done" /\ ~ server'.failed
    BY <1>1, <2>1, <2>3 DEF ServerRecord
  <2>6. \A j \in 1 .. Len(down'.sent) : SsItem(down'.sent[j])
    BY <2>1, <2>2, SsItemsKept
  <2>7. SsSends'
    BY <2>4, <2>5, <2>6 DEF SsSends, SsItem
  <2>8. QED
    BY <2>5, <2>7 DEF HandlerSends
<1>6. CASE SsSendsRows
  <2>1. /\ Down!Start(Rows) /\ server.who = "ss" /\ server.pc = "rows"
        /\ server' = [server EXCEPT !.pc = "done"]
    BY <1>6 DEF SsSendsRows, ServerAt, ServerGo
  <2>2. Rows \in Traffic /\ SsItem(Rows)
    BY InTraffic DEF SsItem
  <2>3. /\ server.op = "list" /\ ~ server.failed /\ Len(down.sent) = 1
        /\ IsResponse(down.sent[1])
    BY <1>1, <2>1 DEF HandlerSends, SsSends
  <2>4. /\ server'.who = "ss" /\ server'.op = "list" /\ server'.pc = "done" /\ ~ server'.failed
    BY <1>1, <2>1, <2>3 DEF ServerRecord
  <2>5. /\ \A j \in 1 .. Len(down'.sent) : SsItem(down'.sent[j])
        /\ Len(down'.sent) = 2 /\ down'.sent[1] = down.sent[1] /\ down'.sent[2] = Rows
    BY <2>1, <2>2, <2>3, SsItemsKept, SentOneMore
  <2>6. SsSends'
    BY <2>3, <2>4, <2>5 DEF SsSends, SsItem
  <2>7. QED
    BY <2>4, <2>6 DEF HandlerSends
<1>7. QED
  BY <1>3, <1>4, <1>5, <1>6

(* The steps of a handler that send nothing more. *)
LEMMA HandlerSendsNothing ==
    ASSUME Held, \/ ReceiveRequest \/ Dispatch \/ SsOpens \/ SsWritesNothing \/ SsAwaitsChunk
                 \/ SsWritesChunk /\ down' = down
                 \/ ServerRecv \/ ServerSend \/ ServerSigpipe \/ \E who \in alive : Crash(who)
    PROVE  HandlerSends' /\ down'.sent = down.sent
<1>1. /\ HandlerSends /\ server \in ServerRecord /\ DownIs
  BY HeldParts
<1>2. CASE ServerRecv \/ ServerSend \/ ServerSigpipe \/ \E who \in alive : Crash(who)
  <2>1. /\ down'.sent = down.sent /\ server'.pc = server.pc /\ server'.who = server.who
        /\ server'.op = server.op /\ server'.failed = server.failed /\ server'.ended = server.ended
        /\ server'.streamed = server.streamed
    BY <1>1, <1>2 DEF ServerRecv, ServerSend, ServerSigpipe, Crash, ServerRecord, DownIs, Passed, Closed
  <2>2. QED
    BY <1>1, <2>1 DEF HandlerSends, NmSends, SsSends, ReadSends
<1>3. CASE ReceiveRequest \/ SsAwaitsChunk
  <2>1. /\ down' = down /\ server'.who = server.who
        /\ server'.op = server.op /\ server'.failed = server.failed /\ server'.ended = server.ended
        /\ server'.streamed = server.streamed
        /\ \/ server.pc = "accept" /\ server'.pc = "request"
           \/ server.pc = "write" /\ server'.pc = "written"
    BY <1>1, <1>3 DEF ReceiveRequest, SsAwaitsChunk, ServerAt, ServerGo, ServerRecord
  <2>2. (NmSends' <=> NmSends) /\ (SsSends' <=> SsSends)
    BY <2>1 DEF NmSends, SsSends, ReadSends
  <2>3. QED
    BY <1>1, <2>1, <2>2 DEF HandlerSends
<1>4. CASE Dispatch
  <2>1. /\ down' = down /\ server.pc = "request" /\ server'.pc = "serve"
        /\ server'.who = server.who /\ server'.failed = server.failed
        /\ server'.ended = server.ended /\ server'.streamed = server.streamed
    BY <1>1, <1>4 DEF Dispatch, ServerAt, ServerRecord
  <2>2. down.sent = <<>> /\ server.streamed = <<>> /\ ~ server.ended /\ ~ server.failed
        /\ Len(down.sent) = 0
    BY <1>1, <2>1 DEF HandlerSends
  <2>3. NmSends' /\ SsSends'
    BY <2>1, <2>2 DEF NmSends, SsSends
  <2>4. QED
    BY <2>1, <2>2, <2>3 DEF HandlerSends
<1>5. CASE SsWritesNothing
  <2>1. /\ down' = down /\ server.pc = "serve" /\ server'.pc = "done" /\ server.op = "write"
        /\ server'.who = server.who /\ server.who = "ss" /\ server'.op = server.op
    BY <1>1, <1>5 DEF SsWritesNothing, Serving, ServerAt, ServerRecord
  <2>2. SsSends'
    BY <1>1, <2>1 DEF HandlerSends, SsSends
  <2>3. QED
    BY <2>1, <2>2 DEF HandlerSends
<1>6. CASE SsWritesChunk /\ down' = down
  <2>1. \A i : Down!Start(i) => down' # down
    <3>1. \A i : Down!Start(i) => down'.sent = Append(down.sent, i)
      BY <1>1 DEF DownIs, Started
    <3>2. down.sent \in Seq(ItemRecord)
      BY SentIsTyped
    <3>3. \A i : Append(down.sent, i) # down.sent
      BY <3>2
    <3>4. QED
      BY <3>1, <3>3
  <2>2. /\ down' = down /\ server.pc = "written" /\ server'.pc = "write" /\ server.who = "ss"
        /\ server'.who = server.who /\ server'.op = server.op /\ server'.failed = server.failed
    BY <1>1, <1>6, <2>1 DEF SsWritesChunk, ServerAt, ServerRecord, Reply, ServerGo
  <2>3. server.op = "write" /\ down.sent = << Response(OK_START_STREAM) >> /\ ~ server.failed
    BY <1>1, <2>2 DEF HandlerSends
  <2>4. SsSends'
    BY <1>1, <2>2, <2>3 DEF HandlerSends, SsSends
  <2>5. QED
    BY <2>2, <2>3, <2>4 DEF HandlerSends
<1>7. CASE SsOpens
  <2>1. /\ down' = down /\ server.pc = "lock" /\ server'.pc = "stream"
        /\ server'.who = server.who /\ server'.op = server.op /\ server'.failed = server.failed
        /\ server'.ended = server.ended /\ server'.streamed = server.streamed
    BY <1>1, <1>7 DEF SsOpens, ServerAt, ServerGo, ServerRecord
  <2>2. (NmSends' <=> NmSends) /\ (SsSends' <=> SsSends)
    BY <2>1 DEF NmSends, SsSends, ReadSends
  <2>3. QED
    BY <1>1, <2>1, <2>2 DEF HandlerSends
<1>8. QED
  BY <1>2, <1>3, <1>4, <1>5, <1>6, <1>7

LEMMA HandlerSendsKept ==
    ASSUME Held, Next
    PROVE  HandlerSends'
<1>1. HandlerSends
  BY HeldParts
<1>2. CASE HandlerActs
  BY <1>2, NmStepsSend, ServesFirst, ReadGoesOn, SendsLast, HandlerSendsNothing
     DEF HandlerActs, ServerStep, NmSteps
<1>3. CASE Connects
  <2>1. /\ \A who : /\ Handler(who).pc = "accept" /\ Handler(who).failed = FALSE
                    /\ Handler(who).streamed = <<>> /\ Handler(who).ended = FALSE
                    /\ Handler(who).op = "none"
  BY DEF Handler
  <2>2. /\ server'.pc = "accept" /\ ~ server'.failed /\ server'.streamed = <<>> /\ ~ server'.ended
        /\ server'.op = "none" /\ down'.sent = <<>> /\ Len(down'.sent) = 0
    BY <1>3, <2>1, ConnectsMeans DEF Fresh
  <2>3. NmSends' /\ SsSends'
    BY <2>2 DEF NmSends, SsSends
  <2>4. QED
    BY <2>2, <2>3 DEF HandlerSends
<1>4. CASE ComesToNothing \/ (ClientActs /\ ClientEffect)
  <2>1. server' = server /\ down'.sent = down.sent
    BY <1>4 DEF ComesToNothing, ClientEffect, Advances, AskedFor
  <2>2. QED
    BY <1>1, <2>1 DEF HandlerSends, NmSends, SsSends, ReadSends
<1>5. QED
  BY <1>2, <1>3, <1>4, StepKinds

-----------------------------------------------------------------------------
(* What the handler has received as the end of a WRITE is the end.         *)
LEMMA EndReceived ==
    ASSUME Held, up.astray = {}, up.open, Len(up.got) > 1, Streamed(Last(up.got).item) = 0
    PROVE  Len(up.got) <= Len(up.sent) /\ up.sent[Len(up.got)] = StreamEnd
<1>1. Sound(up) /\ ClientSends
  BY HeldParts
<1> PICK j \in Nat : j = Len(up.got)
  BY <1>1 DEF Sound
<1>2. up.got # <<>>
  <2>1. Len(<<>>) = 0
    OBVIOUS
  <2>2. QED
    BY <2>1
<1>3. Last(up.got) = up.got[j] /\ j \in 1 .. Len(up.got)
  BY <1>1, <1>2, LastReceived
<1>4. j <= Len(up.sent) /\ up.got[j].item = up.sent[j]
  BY <1>1, <1>3 DEF Sound
<1>5. up.sent # <<>>
  <2>1. Len(<<>>) = 0
    OBVIOUS
  <2>2. QED
    BY <1>4, <2>1
<1>6. /\ Len(up.sent) \in {client.lines + 1, client.lines + 2}
      /\ \A i \in 2 .. client.lines + 1 : up.sent[i] = Stream(Line)
      /\ Len(up.sent) = client.lines + 2 => up.sent[client.lines + 2] = StreamEnd
      /\ client.lines \in Nat
  BY <1>1, <1>5, HeldParts DEF ClientSends, ClientRecord
<1>7. Streamed(Stream(Line)) # 0
  BY LineIsTwoBytes
<1>8. QED
  BY <1>3, <1>4, <1>6, <1>7

LEMMA AllWrittenKept ==
    ASSUME Held, Next
    PROVE  AllWritten'
<1>1. /\ UpIs /\ DownIs /\ AllWritten /\ HandlerAsks /\ HandlerSends /\ Sound(up)
      /\ client \in ClientRecord /\ server \in ServerRecord
  BY HeldParts
<1>2. HandlerSends'
  BY HandlerSendsKept
<1>3. CASE HandlerActs /\ ServerEffect
  <2>1. /\ client' = client /\ up'.open = up.open /\ up'.sent = up.sent
        /\ (up'.astray = {} => up.astray = {})
    BY <1>3 DEF ServerEffect, AskedFor, Advances
  <2> SUFFICES ASSUME server'.who = "ss", server'.op = "write", up.astray = {}, up.open,
                      Len(down'.sent) > 1, down'.sent[2] = Response(OK)
               PROVE  \E m \in 1 .. Len(up.sent) :
                         /\ Len(server'.streamed) = m
                         /\ m + 2 <= Len(up.sent) /\ up.sent[m + 2] = StreamEnd
    BY <2>1 DEF AllWritten
  <2>2. server'.pc = "done"
    <3>1. server'.pc \in ServerPcs
      BY <1>1, <1>3, ServerStepTyped, HeldParts DEF HandlerActs, ServerRecord
    <3>2. Len(<<>>) = 0 /\ Len(<< Response(OK_START_STREAM) >>) = 1
      OBVIOUS
    <3>3. QED
      BY <1>2, <3>1, <3>2 DEF HandlerSends, ServerPcs
  <2>3. CASE server.pc = "done"
    <3>1. server'.op = server.op /\ server'.streamed = server.streamed
          /\ server'.who = server.who /\ down'.sent = down.sent
      BY <1>1, <1>3, <2>3
         DEF HandlerActs, ServerStep, ServerAt, Serving, ServerRecord, ReceiveRequest, Dispatch,
             Invalid, NmAnswers, NmRedirects, NmNotFound, NmSendsAddress, SsAnswers, SsReads,
             SsOpens, SsFailsToOpen, SsSendsChunk, SsEndsStream, SsWrites, SsWritesNothing,
             SsAwaitsChunk, SsWritesChunk, SsEndsWrite, SsSendsStat, SsConfirmsStat, SsFailsToStat, SsLists,
             SsSendsRows, ServerRecv, ServerSend, ServerSigpipe, Crash, DownIs, Passed, Closed
    <3>2. QED
      BY <1>1, <3>1 DEF AllWritten
  <2>4. CASE server.pc # "done"
    <3>1. CASE ~ ServerLooks /\ ~ SsEndsWrite
      <4>1. server.op = "write" /\ server.who = "ss" /\ server'.pc # server.pc
        BY <1>1, <1>3, <2>2, <2>4, <3>1, QuietServer DEF ServerEffect
      <4>2. SsWritesNothing
        BY <1>1, <1>3, <3>1, <4>1
           DEF HandlerActs, ServerStep, ServerLooks, ServerAt, Serving, ServerRecord, HandlerSends,
               Invalid, NmAnswers, NmRedirects, NmNotFound, NmSendsAddress, SsAnswers, SsReads,
               SsOpens, SsFailsToOpen, SsSendsChunk, SsEndsStream, SsSendsStat, SsConfirmsStat,
               SsFailsToStat, SsLists, SsSendsRows, ServerSend, ServerSigpipe, Crash
      <4>3. down'.sent = <<>>
        BY <1>1, <4>2, HandlerSendsNothing DEF SsWritesNothing, Serving, ServerAt, HandlerSends
      <4>4. QED
        BY <4>3
    <3>2. CASE ReceiveRequest \/ Dispatch \/ SsWrites \/ SsAwaitsChunk \/ ServerRecv
      BY <1>1, <2>2, <2>4, <3>2 DEF ReceiveRequest, Dispatch, SsWrites, SsAwaitsChunk, ServerRecv,
                                    ServerGo, ServerRecord
    <3>3. CASE SsWritesChunk
      <4>1. server.pc = "written" /\ server.who = "ss" /\ Down!Start(Response(INTERNAL_ERROR))
        BY <1>1, <2>2, <3>3 DEF SsWritesChunk, ServerAt, ServerRecord, Reply
      <4>2. Len(down.sent) = 1 /\ Response(INTERNAL_ERROR) \in Traffic
        BY <1>1, <4>1, InTraffic DEF HandlerSends, Codes
      <4>3. down'.sent[2] = Response(INTERNAL_ERROR)
        BY <4>1, <4>2, SentOneMore
      <4>4. QED
        BY <4>3, CodesDiffer DEF OK, INTERNAL_ERROR
    <3>4. CASE SsEndsWrite
      <4> DEFINE code == IF Streamed(Last(up.got).item) = 0 THEN server.response ELSE INTERNAL_ERROR
      <4>1. server.pc = "written" /\ server.who = "ss" /\ up.pc = "idle"
            /\ server'.streamed = server.streamed /\ Down!Start(Response(code))
        BY <1>1, <3>4 DEF SsEndsWrite, ServerAt, ServerRecord, Reply, ServerGo
      <4> PICK m \in 0 .. Len(up.got) :
            /\ server.response = IF m = 0 THEN OK_START_STREAM ELSE OK
            /\ Len(up.got) = m + 2
            /\ up.astray = {} => Len(server.streamed) = m
        BY <1>1, <4>1 DEF HandlerAsks
      <4>2. code \in Codes
        BY DEF Codes
      <4>3. Len(down.sent) = 1 /\ Response(code) \in Traffic
        <5>1. Len(down.sent) = 1
          BY <1>1, <4>1, ShortSequences DEF HandlerSends
        <5> HIDE DEF code
        <5>2. QED
          BY <4>2, <5>1, InTraffic
      <4>4. Response(code) = Response(OK)
        <5> HIDE DEF code
        <5>1. QED
          BY <4>1, <4>3, SentOneMore
      <4>5. code = OK
        BY <4>4, CodesDiffer, Zenon
      <4>6. Streamed(Last(up.got).item) = 0 /\ m # 0 /\ m \in Nat /\ Len(up.got) \in Nat
        BY <1>1, <4>5 DEF OK, INTERNAL_ERROR, OK_START_STREAM, Sound
      <4>7. Len(up.got) <= Len(up.sent) /\ up.sent[Len(up.got)] = StreamEnd
        BY <4>6, EndReceived
      <4>8. m \in 1 .. Len(up.sent) /\ m + 2 <= Len(up.sent) /\ up.sent[m + 2] = StreamEnd
        BY <4>6, <4>7, SentIsTyped
      <4>9. QED
        BY <4>1, <4>8
    <3>5. QED
      BY <3>1, <3>2, <3>3, <3>4 DEF ServerLooks
  <2>5. QED
    BY <2>3, <2>4
<1>4. CASE Connects
  <2>1. down'.sent = <<>> /\ Len(down'.sent) = 0
    BY <1>4 DEF Connects, Fresh
  <2>2. QED
    BY <2>1 DEF AllWritten
<1>5. CASE ComesToNothing \/ (ClientActs /\ ClientEffect)
  <2>1. /\ server' = server /\ down'.sent = down.sent /\ up'.astray = up.astray
        /\ (up'.open => up.open) /\ (up'.sent = up.sent \/ \E i : up'.sent = Append(up.sent, i))
    BY <1>5, NothingMeans
       DEF ClientEffect, Advances, AskedFor, Passed, Closed, Started, ReceiverAsWas
  <2>2. up.sent \in Seq(ItemRecord) /\ up'.sent \in Seq(ItemRecord)
    <3>1. ClientActs => up'.sent = up.sent \/ \E i \in Traffic : up'.sent = Append(up.sent, i)
      <4>1. CASE SendRequest \/ SendLine \/ SendEnd
        <5>1. SendRequest => client.cmd \in Ops
          BY HeldParts, SessionAssumption
             DEF ProcessesOK, CommandKnown, SendRequest, ClientAt, Busy
        <5>2. \E i \in Traffic : Up!Start(i)
          <6>1. "get" \in Ops
            BY OpcodeFacts
          <6>2. SendRequest => \E op \in Ops : Up!Start(Request(op))
            BY <5>1, <6>1 DEF SendRequest
          <6>3. QED
            BY <4>1, <6>2, InTraffic DEF SendLine, SendEnd
        <5>3. QED
          BY <1>1, <5>2 DEF UpIs, Started
      <4>2. CASE ~ (SendRequest \/ SendLine \/ SendEnd)
        BY <4>2, QuietClient
      <4>3. QED
        BY <4>1, <4>2
    <3>2. ComesToNothing => up'.sent = up.sent
      BY NothingMeans DEF Closed
    <3>3. up.sent \in Seq(ItemRecord)
      BY SentIsTyped
    <3>4. \A i \in Traffic : Append(up.sent, i) \in Seq(ItemRecord)
      BY <3>3, TrafficIsItems
    <3>5. QED
      BY <1>5, <3>1, <3>2, <3>3, <3>4
  <2>3. Len(up'.sent) >= Len(up.sent) /\ \A j \in 1 .. Len(up.sent) : up'.sent[j] = up.sent[j]
    BY <2>1, <2>2
  <2>4. ASSUME NEW m \in 1 .. Len(up.sent), m + 2 <= Len(up.sent), up.sent[m + 2] = StreamEnd
        PROVE  m \in 1 .. Len(up'.sent) /\ m + 2 <= Len(up'.sent) /\ up'.sent[m + 2] = StreamEnd
    BY <2>2, <2>3, <2>4
  <2>5. QED
    BY <1>1, <2>1, <2>4 DEF AllWritten
<1>6. QED
  BY <1>3, <1>4, <1>5, StepKinds

-----------------------------------------------------------------------------
(* What the client asks for, it asks for after what it has got. *)
LEMMA AsksOneMore ==
    ASSUME Held
    PROVE  /\ Asked \in Nat
           /\ \A n : Down!AskBare(n) =>
                 /\ down.pc = "idle" /\ down'.pc = "bare" /\ down'.want = n /\ Asked' = Asked + 1
           /\ Down!AskMessage => down.pc = "idle" /\ down'.pc = "type" /\ Asked' = Asked + 1
           /\ down' = down => Asked' = Asked
<1>1. DownIs /\ Len(down.got) \in Nat
  BY HeldParts DEF Sound
<1>2. QED
  BY <1>1 DEF DownIs, AskedFor, Asked

LEMMA ClientReceives ==
    ASSUME Held, Down!Recv
    PROVE  /\ Asked' = Asked /\ Asked # 0 /\ down.pc # "idle" /\ down'.want = down.want
           /\ \/ down.pc # "bare" /\ down'.pc \in {"size", "data"}
              \/ /\ down'.pc = "idle"
                 /\ Received'.kind = IF down.pc = "bare" THEN "bare" ELSE "message"
<1>1. Sound(down) /\ Advances(down, down')
  BY HeldParts DEF DownIs
<1>2. down.pc # "idle" /\ Len(down.got) \in Nat /\ down'.want = down.want
  BY <1>1 DEF Advances, Sound
<1>3. CASE down.pc # "bare" /\ down'.pc \in {"size", "data"} /\ down'.got = down.got
  BY <1>2, <1>3 DEF Asked
<1>4. CASE down'.pc = "idle" /\ \E g \in GotItem : EndsReceive(down, down', g)
  <2> PICK g \in GotItem : EndsReceive(down, down', g)
    BY <1>4
  <2>1. down'.got = Append(down.got, g)
        /\ g.item.kind = IF down.pc = "bare" THEN "bare" ELSE "message"
    BY DEF EndsReceive
  <2>2. Len(down'.got) = Len(down.got) + 1 /\ Last(down'.got) = g
    BY <1>1, <2>1, OneMoreGot
  <2>3. Received' = g.item
    BY <2>2 DEF Received
  <2>4. QED
    BY <1>2, <1>4, <2>1, <2>2, <2>3 DEF Asked
<1>5. QED
  BY <1>1, <1>3, <1>4 DEF Advances

(* The steps after which the client asks for something, or is to send.     *)
LEMMA ClientAsksNext ==
    ASSUME Held, \/ SendRequest \/ AwaitAnswer \/ Redirected \/ AnsweredBySs \/ ShowChunk
                 \/ SendLine \/ SendEnd \/ AwaitFinal \/ AwaitResponse
    PROVE  ClientAsks'
<1>1. ClientAsks /\ client \in ClientRecord
  BY HeldParts
<1>2. CASE SendRequest
  <2>1. client.pc = "connected" /\ client'.pc = "request" /\ down' = down
    BY <1>1, <1>2 DEF SendRequest, ClientAt, Go, ClientRecord
  <2>2. Asked' = 0
    BY <1>1, <2>1, AsksOneMore DEF ClientAsks
  <2>3. QED
    BY <2>1, <2>2 DEF ClientAsks
<1>3. CASE AwaitAnswer
  <2>1. /\ client.pc = "request" /\ client'.peer = client.peer /\ client'.cmd = client.cmd
        /\ \/ Does("get") /\ Down!AskBare(Len(Stat.bytes)) /\ client'.pc = "stat"
           \/ ~ Does("get") /\ Down!AskBare(1) /\ client'.pc = "answer"
    BY <1>1, <1>3 DEF AwaitAnswer, ClientAt, Go, ClientRecord, Does
  <2>2. Asked = 0 /\ (Does("get")' <=> Does("get"))
    BY <1>1, <2>1 DEF ClientAsks, Does
  <2>3. down'.pc = "bare" /\ Asked' = 1
    BY <2>1, <2>2, AsksOneMore
  <2>4. QED
    BY <2>1, <2>2, <2>3, AsksOneMore DEF ClientAsks, AsksBlock
<1>4. CASE Redirected
  <2>1. /\ client.pc = "answer" /\ client'.peer = client.peer /\ client'.cmd = client.cmd
        /\ client.peer = "nm" /\ client.cmd \in {"read", "write", "get", "list"}
        /\ Down!AskBare(Len(Address.bytes)) /\ client'.pc = "address" /\ client'.response = REDIRECT
    BY <1>1, <1>4 DEF Redirected, ClientAt, ClientRecord
  <2>2. Asked = 1
    BY <1>1, <2>1 DEF ClientAsks, AsksBlock
  <2>3. down'.pc = "bare" /\ Asked' = 2 /\ down'.want = Len(Address.bytes)
    BY <2>1, <2>2, AsksOneMore
  <2>4. QED
    BY <2>1, <2>3 DEF ClientAsks, AsksBlock
<1>5. CASE AnsweredBySs
  <2>1. /\ client.pc = "answer" /\ client'.peer = client.peer /\ client'.cmd = client.cmd
        /\ client.peer = "ss" /\ down.pc = "idle"
        /\ \/ client.cmd = "read" /\ Down!AskMessage /\ client'.pc = "stream"
           \/ client.cmd = "write" /\ down' = down /\ client'.pc = "lines"
           \/ client.cmd = "list" /\ Down!AskBare(RowsWanted) /\ client'.pc = "rows"
           \/ client'.pc = "prompt"
    BY <1>1, <1>5 DEF AnsweredBySs, ClientAt, Go, Return, CloseAndReturn, ClientRecord
  <2>2. Asked = 1
    BY <1>1, <2>1 DEF ClientAsks, AsksBlock
  <2>3. CASE client.cmd = "read" /\ Down!AskMessage /\ client'.pc = "stream"
    <3>1. down'.pc = "type" /\ Asked' = 2
      BY <2>2, <2>3, AsksOneMore
    <3>2. QED
      BY <2>1, <2>3, <3>1 DEF ClientAsks, Does
  <2>4. CASE client.cmd = "write" /\ down' = down /\ client'.pc = "lines"
    <3>1. down'.pc = "idle" /\ Asked' = 1
      BY <2>1, <2>2, <2>4, AsksOneMore
    <3>2. QED
      BY <2>1, <2>4, <3>1 DEF ClientAsks, Does
  <2>5. CASE client.cmd = "list" /\ Down!AskBare(RowsWanted) /\ client'.pc = "rows"
    <3>1. down'.pc = "bare" /\ Asked' = 2 /\ down'.want = RowsWanted
      BY <2>2, <2>5, AsksOneMore
    <3>2. QED
      BY <2>1, <2>5, <3>1 DEF ClientAsks, AsksBlock, Does
  <2>6. CASE client'.pc = "prompt"
    BY <2>6 DEF ClientAsks
  <2>7. QED
    BY <2>1, <2>3, <2>4, <2>5, <2>6
<1>6. CASE ShowChunk
  <2>1. /\ client.pc = "stream" /\ client'.pc = "stream" /\ Down!AskMessage
        /\ client'.peer = client.peer /\ client'.cmd = client.cmd
    BY <1>1, <1>6 DEF ShowChunk, ClientAt, ClientRecord
  <2>2. down'.pc = "type" /\ Asked' = Asked + 1 /\ Asked \in Nat
    BY <2>1, AsksOneMore
  <2>3. Does("read") /\ Asked > 1
    BY <1>1, <2>1 DEF ClientAsks
  <2>4. QED
    BY <2>1, <2>2, <2>3 DEF ClientAsks, Does
<1>7. CASE SendLine \/ SendEnd
  <2>1. /\ client.pc = "lines" /\ client'.pc \in {"lines", "ending"} /\ down' = down
        /\ client'.peer = client.peer /\ client'.cmd = client.cmd
    BY <1>1, <1>7 DEF SendLine, SendEnd, ClientAt, Go, ClientRecord
  <2>2. Asked' = Asked
    BY <2>1, AsksOneMore
  <2>3. QED
    BY <1>1, <2>1, <2>2 DEF ClientAsks, Does
<1>8. CASE AwaitFinal
  <2>1. /\ client.pc = "ending" /\ client'.pc = "final" /\ Down!AskBare(1)
        /\ client'.peer = client.peer /\ client'.cmd = client.cmd
    BY <1>1, <1>8 DEF AwaitFinal, ClientAt, Go, ClientRecord
  <2>2. Asked = 1 /\ Does("write")
    BY <1>1, <2>1 DEF ClientAsks
  <2>3. down'.pc = "bare" /\ Asked' = 2 /\ down'.want = 1
    BY <2>1, <2>2, AsksOneMore
  <2>4. QED
    BY <2>1, <2>2, <2>3 DEF ClientAsks, AsksBlock, Does
<1>9. CASE AwaitResponse
  <2>1. /\ client.pc = "stat" /\ client'.pc = "response" /\ Down!AskBare(1)
        /\ client'.peer = client.peer /\ client'.cmd = client.cmd
    BY <1>1, <1>9 DEF AwaitResponse, ClientAt, Go, ClientRecord
  <2>2. Asked = 1 /\ Does("get")
    BY <1>1, <2>1 DEF ClientAsks, AsksBlock
  <2>3. down'.pc = "bare" /\ Asked' = 2 /\ down'.want = 1
    BY <2>1, <2>2, AsksOneMore
  <2>4. QED
    BY <2>1, <2>2, <2>3 DEF ClientAsks, AsksBlock, Does
<1>10. QED
  BY <1>2, <1>3, <1>4, <1>5, <1>6, <1>7, <1>8, <1>9

LEMMA ClientAsksKept ==
    ASSUME Held, Next
    PROVE  ClientAsks'
<1>1. /\ DownIs /\ ClientAsks /\ client \in ClientRecord /\ Len(down.got) \in Nat
  BY HeldParts DEF Sound
<1>2. CASE HandlerActs /\ ServerEffect
  <2>1. client' = client /\ down'.got = down.got /\ down'.pc = down.pc /\ down'.want = down.want
    BY <1>2 DEF ServerEffect, Passed, Closed, Started, ReceiverAsWas
  <2>2. Asked' = Asked /\ Received' = Received
    BY <2>1 DEF Asked, Received
  <2>3. QED
    BY <1>1, <2>1, <2>2 DEF ClientAsks, AsksBlock, Does
<1>3. CASE Connects
  <2>1. client'.pc = "connected" /\ down'.pc = "idle" /\ down'.got = <<>> /\ Len(down'.got) = 0
    BY <1>3, ConnectsMeans DEF Fresh
  <2>2. QED
    BY <2>1 DEF ClientAsks, Asked
<1>4. CASE ComesToNothing
  <2>1. client'.pc = "prompt"
    BY <1>4, NothingMeans
  <2>2. QED
    BY <2>1 DEF ClientAsks
<1>5. CASE \/ SendRequest \/ AwaitAnswer \/ Redirected \/ AnsweredBySs \/ ShowChunk
           \/ SendLine \/ SendEnd \/ AwaitFinal \/ AwaitResponse
  BY <1>5, ClientAsksNext
<1>6. CASE \/ Answered \/ ShowEof \/ ReadBreaksOff \/ Written \/ ShowInfo \/ ShowRows
           \/ StopTyping \/ ClientSigpipe \/ ClientReset \/ Gone
  <2>1. client'.pc \in {"prompt", "gone"}
    BY <1>1, <1>6 DEF ClientRecord, Answered, ShowEof, ReadBreaksOff, Written, ShowInfo, ShowRows,
                      StopTyping, ClientSigpipe, ClientReset, Gone, Return, CloseAndReturn, Leave
  <2>2. QED
    BY <2>1 DEF ClientAsks
<1>7. CASE ClientSend
  <2>1. /\ down' = down /\ client'.pc = client.pc /\ client'.peer = client.peer
        /\ client'.cmd = client.cmd /\ client'.response = client.response
    BY <1>1, <1>7 DEF ClientSend, ClientRecord
  <2>2. Asked' = Asked /\ Received' = Received
    BY <2>1 DEF Asked, Received
  <2>3. QED
    BY <1>1, <2>1, <2>2 DEF ClientAsks, AsksBlock, Does
<1>8. CASE ClientRecv
  <2>1. client' = client /\ Down!Recv
    BY <1>8 DEF ClientRecv
  <2>2. /\ Asked' = Asked /\ Asked # 0 /\ down.pc # "idle" /\ down'.want = down.want
        /\ \/ down.pc # "bare" /\ down'.pc \in {"size", "data"}
           \/ /\ down'.pc = "idle"
              /\ Received'.kind = IF down.pc = "bare" THEN "bare" ELSE "message"
    BY <2>1, ClientReceives
  <2>3. \A k, n : AsksBlock(k, n) => AsksBlock(k, n)'
    BY <2>2 DEF AsksBlock
  <2>4. QED
    BY <1>1, <2>1, <2>2, <2>3 DEF ClientAsks, Does
<1>9. QED
  BY <1>2, <1>3, <1>4, <1>5, <1>6, <1>7, <1>8, StepKinds DEF ClientActs

-----------------------------------------------------------------------------
(* Within a connection what has been sent grows, what has been received too, *)
(* and astray and eof stay.                                                *)
LEMMA SentGrows ==
    ASSUME Held, Next, ~ Connects
    PROVE  /\ Len(down.sent) \in Nat /\ Len(down'.sent) \in Nat /\ Len(down.sent) <= Len(down'.sent)
           /\ \A j \in 1 .. Len(down.sent) : down'.sent[j] = down.sent[j]
           /\ down.sent # <<>> => down'.sent # <<>>
           /\ (down'.astray = {} => down.astray = {}) /\ (~ down'.eof => ~ down.eof)
<1>1. Sound(down) /\ IInv' /\ down.sent \in Seq(ItemRecord)
  BY HeldParts, NextKeeps, SentIsTyped DEF Held
<1>2. down'.sent \in Seq(ItemRecord)
  <2>1. DownProofs!IInv'
    BY <1>1 DEF IInv
  <2>2. DownProofs!TypeOK'
    BY <2>1 DEF DownProofs!IInv
  <2>3. DownProofs!ItemRecord = ItemRecord
    BY DEF DownProofs!ItemRecord, ItemRecord, DownProofs!Byte, Byte
  <2>4. QED
    BY <2>2, <2>3 DEF DownProofs!TypeOK, DownProofs!ChannelRecord
<1>3. (down'.sent = down.sent \/ \E i : down'.sent = Append(down.sent, i))
      /\ (down'.astray = {} => down.astray = {}) /\ (~ down'.eof => ~ down.eof)
  <2>1. CASE ComesToNothing
    BY <2>1 DEF ComesToNothing
  <2>2. CASE ClientActs /\ ClientEffect
    BY <2>2 DEF ClientEffect, Advances, AskedFor
  <2>3. CASE HandlerActs /\ ServerEffect
    BY <2>3 DEF ServerEffect, Passed, Closed, Started, ReceiverAsWas
  <2>4. QED
    BY <2>1, <2>2, <2>3, StepKinds
<1>4. Len(down.sent) <= Len(down'.sent) /\ \A j \in 1 .. Len(down.sent) : down'.sent[j] = down.sent[j]
  BY <1>1, <1>2, <1>3
<1>5. down.sent # <<>> => Len(down.sent) > 0
  BY <1>1, EmptySeq
<1>6. down'.sent = <<>> => Len(down'.sent) = 0
  OBVIOUS
<1>7. QED
  BY <1>1, <1>2, <1>3, <1>4, <1>5, <1>6

(* What the client knows changes where it looks at what it has received.   *)
ClientLooks == ShowChunk \/ ShowEof \/ Written \/ Redirected \/ AnsweredBySs

LEMMA QuietKnowledge ==
    ASSUME Held, ClientActs, ~ ClientLooks
    PROVE  /\ client'.response = client.response /\ client'.shown = client.shown
           /\ client'.received = client.received /\ client'.printed = client.printed
           /\ client'.cmd = client.cmd /\ client'.peer = client.peer
           /\ client'.pc = "stream" => client.pc = "stream" /\ Asked' = Asked
           /\ client'.pc = "address" => client.pc = "address"
           /\ client'.pc \in {"connected", "request", "answer"} =>
                 client.pc \in {"connected", "request", "answer"}
           /\ client.pc \in {"prompt", "gone"} => client'.pc \in {"prompt", "gone"}
<1>1. client \in ClientRecord
  BY HeldParts
<1>2. CASE SendRequest \/ AwaitAnswer \/ SendLine \/ SendEnd \/ AwaitFinal \/ AwaitResponse
  BY <1>1, <1>2 DEF ClientRecord, SendRequest, AwaitAnswer, SendLine, SendEnd, AwaitFinal,
                    AwaitResponse, ClientAt, Go
<1>3. CASE Answered \/ ReadBreaksOff \/ ShowInfo \/ ShowRows \/ StopTyping
           \/ ClientSigpipe \/ ClientReset \/ Gone
  BY <1>1, <1>3 DEF ClientRecord, Answered, ReadBreaksOff, ShowInfo, ShowRows, StopTyping,
                    ClientSigpipe, ClientReset, Gone, ClientAt, Return, CloseAndReturn, Leave
<1>4. CASE ClientRecv
  <2>1. client' = client /\ Asked' = Asked
    BY <1>4, ClientReceives DEF ClientRecv
  <2>2. QED
    BY <2>1
<1>5. CASE ClientSend
  BY <1>1, <1>5 DEF ClientRecord, ClientSend, Asked
<1>6. QED
  BY <1>2, <1>3, <1>4, <1>5 DEF ClientActs, ClientLooks

(* What is received whole is what was sent. *)
LEMMA LastIsSent ==
    ASSUME Held, down.got # <<>>, down.astray = {}, NEW k \in Nat, Len(down.got) = k
    PROVE  /\ k \in 1 .. k /\ Received \in ItemRecord /\ Last(down.got).whole \in BOOLEAN
           /\ Last(down.got).whole => k <= Len(down.sent) /\ Received = down.sent[k]
           /\ ~ Last(down.got).whole =>
                 /\ down.eof
                 /\ Received.kind = "bare" => Received.bytes = <<>>
                 /\ Received.kind = "message" => Size(Received) = 0
<1>1. Sound(down) /\ EmptyAtEof(down)
  BY HeldParts
<1>2. Last(down.got) = down.got[k] /\ k \in 1 .. Len(down.got) /\ Last(down.got) \in GotItem
  BY <1>1, LastReceived
<1>3. Received = down.got[k].item
  BY <1>2 DEF Received
<1>4. QED
  BY <1>1, <1>2, <1>3 DEF Sound, EmptyAtEof, GotItem

(* What a storage server sends as a message is a chunk or the end. *)
LEMMA SsMessages ==
    ASSUME Held, server.who = "ss", NEW k \in 1 .. Len(down.sent), down.sent[k].kind = "message"
    PROVE  /\ Streamed(down.sent[k]) > 0 => IsChunk(down.sent[k])
           /\ Streamed(down.sent[k]) = 0 => down.sent[k] = StreamEnd
           /\ Streamed(down.sent[k]) \in Nat
<1>1. IsResponse(down.sent[k]) \/ IsChunk(down.sent[k]) \/ down.sent[k] \in {Stat, Rows, StreamEnd}
  BY HeldParts DEF HandlerSends, SsSends
<1>2. Stat.kind = "bare" /\ Rows.kind = "bare" /\ \A c : Response(c).kind = "bare"
  BY DEF Stat, Rows, Response, Bare
<1>3. IsChunk(down.sent[k]) \/ down.sent[k] = StreamEnd
  BY <1>1, <1>2 DEF IsResponse
<1>4. CASE IsChunk(down.sent[k])
  <2> PICK chunk \in Chunks : down.sent[k] = Stream(chunk)
    BY <1>4 DEF IsChunk
  <2>1. Streamed(down.sent[k]) \in {1, 2}
    BY LineIsTwoBytes, ChunksTyped
  <2>2. QED
    BY <1>4, <2>1
<1>5. CASE down.sent[k] = StreamEnd
  BY <1>5, LineIsTwoBytes
<1>6. QED
  BY <1>3, <1>4, <1>5

LEMMA ChunkShown ==
    ASSUME Held, ShowChunk \/ ShowEof
    PROVE  /\ client.pc = "stream" /\ Does("read") /\ server.who = "ss" /\ ~ client.printed
           /\ Asked = Len(down.got) /\ Asked \in Nat /\ Received \in ItemRecord
           /\ down.astray = {} /\ ShowChunk =>
                 /\ Asked <= Len(down.sent) /\ Payload(Received) \in Chunks
                 /\ down.sent[Asked] = Stream(Payload(Received))
           /\ down.astray = {} /\ ShowEof /\ ~ down.eof =>
                 Asked <= Len(down.sent) /\ down.sent[Asked] = StreamEnd
<1>1. ClientAsks /\ AnswersKnown /\ OneConnection /\ Sound(down)
  BY HeldParts
<1>2. client.pc = "stream" /\ down.pc = "idle"
  BY DEF ShowChunk, ShowEof, ClientAt
<1>3. Does("read") /\ Asked > 1 /\ Received.kind = "message" /\ server.who = "ss" /\ ~ client.printed
  BY <1>1, <1>2 DEF ClientAsks, AnswersKnown, OneConnection, Does
<1>4. Asked = Len(down.got) /\ Asked \in Nat /\ down.got # <<>>
  <2>1. Len(<<>>) = 0
    OBVIOUS
  <2>2. QED
    BY <1>2, <1>3, <2>1, AsksOneMore DEF Asked
<1>5. ASSUME down.astray = {}, Last(down.got).whole
      PROVE  /\ Asked \in 1 .. Len(down.sent) /\ Received = down.sent[Asked]
             /\ Streamed(Received) > 0 => IsChunk(Received)
             /\ Streamed(Received) = 0 => Received = StreamEnd
  <2>1. Asked \in 1 .. Len(down.sent) /\ Received = down.sent[Asked]
    BY <1>4, <1>5, LastIsSent, SentIsTyped
  <2>2. QED
    BY <1>3, <2>1, SsMessages
<1>6. ASSUME down.astray = {}, ShowChunk
      PROVE  /\ Asked <= Len(down.sent) /\ Payload(Received) \in Chunks
             /\ down.sent[Asked] = Stream(Payload(Received))
  <2>1. Streamed(Received) > 0
    BY <1>6 DEF ShowChunk
  <2>2. Last(down.got).whole
    <3>1. ~ Last(down.got).whole => Size(Received) = 0
      BY <1>3, <1>4, <1>6, LastIsSent
    <3>2. QED
      BY <2>1, <3>1 DEF Streamed
  <2> PICK chunk \in Chunks : Received = Stream(chunk)
    BY <1>5, <1>6, <2>1, <2>2 DEF IsChunk
  <2>3. Payload(Received) = chunk
    BY LineIsTwoBytes
  <2>4. QED
    BY <1>5, <1>6, <2>2, <2>3
<1>7. ASSUME down.astray = {}, ShowEof, ~ down.eof
      PROVE  Asked <= Len(down.sent) /\ down.sent[Asked] = StreamEnd
  <2>1. Last(down.got).whole
    BY <1>4, <1>7, LastIsSent
  <2>2. Streamed(Received) = 0
    BY <1>7 DEF ShowEof
  <2>3. QED
    BY <1>5, <1>7, <2>1, <2>2
<1>8. Received \in ItemRecord
  BY <1>1, <1>4, LastReceived DEF Received
<1>9. QED
  BY <1>2, <1>3, <1>4, <1>6, <1>7, <1>8

(* The response that the client takes for one is the one that was sent. *)
LEMMA CodeReceived ==
    ASSUME Held, down.astray = {}, down.got # <<>>, NEW k \in Nat, Len(down.got) = k,
           Received.kind = "bare", NEW code \in Responses,
           k <= Len(down.sent) => \/ IsResponse(down.sent[k])
                                  \/ down.sent[k] \in {Stat, Rows} /\ code \in {OK, REDIRECT},
           ~ down.eof \/ Responses \subseteq {client.response} \/ Received.bytes # <<>>
    PROVE  \/ k <= Len(down.sent) /\ down.sent[k] = Response(code)
           \/ down.eof /\ code = client.response
<1>1. /\ Received \in ItemRecord /\ Last(down.got).whole \in BOOLEAN
      /\ Last(down.got).whole => k <= Len(down.sent) /\ Received = down.sent[k]
      /\ ~ Last(down.got).whole => down.eof /\ Received.bytes = <<>>
  BY LastIsSent
<1>2. CASE ~ Last(down.got).whole
  BY <1>1, <1>2
<1>3. CASE Last(down.got).whole
  <2>1. Received = down.sent[k] /\ k <= Len(down.sent)
    BY <1>1, <1>3
  <2>2. CASE IsResponse(down.sent[k])
    <3> PICK c \in Codes : Received = Response(c)
      BY <2>1, <2>2 DEF IsResponse
    <3>1. Received.bytes = << c >>
      BY DEF Response, Bare
    <3>2. Received.bytes # <<>> /\ Received.bytes[1] = c
      BY <3>1
    <3>3. code = c
      BY <3>2 DEF Responses
    <3>4. QED
      BY <2>1, <3>3
  <2>3. CASE down.sent[k] \in {Stat, Rows} /\ code \in {OK, REDIRECT}
    <3>1. Received.bytes # <<>> /\ Received.bytes[1] \in {1, 65}
      BY <2>1, <2>3 DEF Stat, Rows, Bare
    <3>2. code \in {1, 65}
      BY <3>1 DEF Responses
    <3>3. QED
      BY <2>3, <3>2 DEF OK, REDIRECT
  <2>4. QED
    BY <2>1, <2>2, <2>3
<1>4. QED
  BY <1>1, <1>2, <1>3

(* What is known of the chunks that a READ has received. *)
ReceivedOf(j) ==
    /\ Len(client.received) = j
    /\ j > 0 => j + 1 <= Len(down.sent)
    /\ Carries(down.sent, client.received)
    /\ client.pc = "stream" => Asked = j + 2
    /\ client.printed /\ ~ down.eof => j + 2 <= Len(down.sent) /\ down.sent[j + 2] = StreamEnd

LEMMA NoneReceived ==
    ASSUME client'.received = <<>>, ~ client'.printed, client'.pc = "stream" => Asked' = 2
    PROVE  ReceivedOf(0)'
<1>1. Len(client'.received) = 0 /\ ~ (0 > 0) /\ 0 + 2 = 2
  OBVIOUS
<1>2. Carries(down'.sent, client'.received)
  BY <1>1 DEF Carries
<1>3. QED
  BY <1>1, <1>2 DEF ReceivedOf

LEMMA ReceivedKept ==
    ASSUME Held, Next, down'.astray = {}
    PROVE  \E j \in 0 .. Len(down'.sent) : ReceivedOf(j)'
<1>1. /\ AnswersKnown /\ ClientAsks /\ OneConnection /\ client \in ClientRecord
  BY HeldParts
<1>2. CASE Connects
  <2>1. client'.received = <<>> /\ client'.pc = "connected" /\ ~ client'.printed
        /\ down'.sent = <<>> /\ Len(down'.sent) = 0
    BY <1>1, <1>2, ConnectsMeans DEF Fresh, AnswersKnown, ClientAsks
  <2>2. ReceivedOf(0)' /\ 0 \in 0 .. Len(down'.sent)
    BY <2>1, NoneReceived
  <2>3. QED
    BY <2>2
<1>3. CASE ~ Connects
  <2>1. /\ Len(down.sent) \in Nat /\ Len(down'.sent) \in Nat /\ Len(down.sent) <= Len(down'.sent)
        /\ \A j \in 1 .. Len(down.sent) : down'.sent[j] = down.sent[j]
        /\ down.astray = {} /\ (~ down'.eof => ~ down.eof)
    BY <1>3, SentGrows
  <2> PICK j \in 0 .. Len(down.sent) : ReceivedOf(j)
    BY <1>1, <2>1 DEF AnswersKnown, ReceivedOf
  <2>2. j \in 0 .. Len(down'.sent) /\ j \in Nat /\ client.received \in Seq(Seq(Byte))
    BY <1>1, <2>1 DEF ClientRecord
  <2>3. /\ j > 0 => j + 1 <= Len(down'.sent)
        /\ Carries(down'.sent, client.received)
    <3>1. CASE j = 0
      BY <3>1 DEF ReceivedOf, Carries
    <3>2. CASE j > 0
      <4>1. \A i \in 1 .. Len(client.received) + 1 : down'.sent[i] = down.sent[i]
        BY <2>1, <2>2, <3>2 DEF ReceivedOf
      <4>2. Carries(down.sent, client.received) /\ j + 1 <= Len(down.sent)
        BY <3>2 DEF ReceivedOf
      <4>3. Carries(down'.sent, client.received)
        BY <2>2, <4>1, <4>2, CarriesStill
      <4>4. j + 1 <= Len(down'.sent)
        BY <2>1, <2>2, <4>2
      <4>5. QED
        BY <4>3, <4>4
    <3>3. QED
      BY <2>2, <3>1, <3>2
  <2>4. CASE /\ client'.received = client.received /\ client'.printed = client.printed
             /\ client'.pc = "stream" => client.pc = "stream" /\ Asked' = Asked
    <3>1. client'.printed /\ ~ down'.eof => j + 2 <= Len(down'.sent) /\ down'.sent[j + 2] = StreamEnd
      BY <2>1, <2>2, <2>4 DEF ReceivedOf
    <3>2. ReceivedOf(j)'
      BY <2>3, <2>4, <3>1 DEF ReceivedOf
    <3>3. QED
      BY <2>2, <3>2
  <2>5. CASE HandlerActs /\ ServerEffect
    <3>1. client' = client /\ down'.got = down.got /\ down'.pc = down.pc
      BY <2>5 DEF ServerEffect, Passed, Closed, Started, ReceiverAsWas
    <3>2. Asked' = Asked
      BY <3>1 DEF Asked
    <3>3. QED
      BY <2>4, <3>1, <3>2
  <2>6. CASE ComesToNothing
    BY <2>4, <2>6, NothingMeans
  <2>7. CASE ClientActs /\ ~ ClientLooks
    BY <2>4, <2>7, QuietKnowledge
  <2>8. CASE Written \/ Redirected
    BY <1>1, <2>4, <2>8 DEF Written, Redirected, ClientRecord
  <2>9. CASE AnsweredBySs
    <3>1. /\ client'.received = client.received /\ client'.printed = client.printed
          /\ client.pc = "answer" /\ down.pc = "idle"
          /\ client'.pc = "stream" => Down!AskMessage
      BY <1>1, <2>9 DEF AnsweredBySs, ClientAt, ClientRecord, Go, Return, CloseAndReturn
    <3>2. client.received = <<>> /\ ~ client.printed /\ Asked = 1
      BY <1>1, <3>1 DEF AnswersKnown, ClientAsks, AsksBlock
    <3>3. client'.pc = "stream" => Asked' = 2
      BY <3>1, <3>2, AsksOneMore
    <3>4. ReceivedOf(0)' /\ 0 \in 0 .. Len(down'.sent)
      BY <2>1, <3>1, <3>2, <3>3, NoneReceived
    <3>5. QED
      BY <3>4
  <2>10. CASE ShowChunk
    <3>1. /\ client.pc = "stream" /\ ~ client.printed /\ Asked \in Nat
          /\ Asked <= Len(down.sent) /\ Payload(Received) \in Chunks
          /\ down.sent[Asked] = Stream(Payload(Received))
      BY <2>1, <2>10, ChunkShown
    <3>2. Asked = j + 2 /\ Len(client.received) = j
      BY <3>1 DEF ReceivedOf
    <3>3. /\ client'.received = Append(client.received, Payload(Received))
          /\ client'.printed = client.printed /\ Asked' = Asked + 1
      BY <1>1, <2>10, AsksOneMore DEF ShowChunk, ClientRecord
    <3>4. /\ (j + 1) + 1 <= Len(down'.sent) /\ j + 1 \in 0 .. Len(down'.sent)
          /\ Asked' = (j + 1) + 2
      BY <2>1, <2>2, <3>1, <3>2, <3>3
    <3>5. Carries(down'.sent, client'.received) /\ Len(client'.received) = j + 1
      <4>1. /\ \A i \in 1 .. Len(client.received) + 1 : down'.sent[i] = down.sent[i]
            /\ down'.sent[Len(client.received) + 2] = Stream(Payload(Received))
        BY <2>1, <2>2, <3>1, <3>2
      <4>2. Carries(down.sent, client.received)
        BY DEF ReceivedOf
      <4>3. QED
        BY <2>2, <3>1, <3>2, <3>3, <4>1, <4>2, CarriesMore
    <3>6. ReceivedOf(j + 1)'
      BY <3>1, <3>3, <3>4, <3>5 DEF ReceivedOf
    <3>7. QED
      BY <3>4, <3>6
  <2>11. CASE ShowEof
    <3>1. /\ client.pc = "stream" /\ Asked \in Nat
          /\ ~ down.eof => Asked <= Len(down.sent) /\ down.sent[Asked] = StreamEnd
      BY <2>1, <2>11, ChunkShown
    <3>2. Asked = j + 2 /\ Len(client.received) = j
      BY <3>1 DEF ReceivedOf
    <3>3. client'.received = client.received /\ client'.pc = "prompt"
      BY <1>1, <2>11 DEF ShowEof, ClientRecord
    <3>4. ~ down'.eof => j + 2 <= Len(down'.sent) /\ down'.sent[j + 2] = StreamEnd
      BY <2>1, <2>2, <3>1, <3>2
    <3>5. ReceivedOf(j)'
      BY <2>3, <3>2, <3>3, <3>4 DEF ReceivedOf
    <3>6. QED
      BY <2>2, <3>5
  <2>12. QED
    BY <1>3, <2>5, <2>6, <2>7, <2>8, <2>9, <2>10, <2>11, StepKinds DEF ClientLooks
<1>4. QED
  BY <1>2, <1>3

(* Of a first chunk that has room in the buffer and no NUL, all is shown.  *)
LEMMA ShownWellKept ==
    ASSUME Held, Next
    PROVE  ShownWell'
<1>1. ShownWell /\ AnswersKnown /\ ClientAsks /\ client \in ClientRecord
  BY HeldParts
<1>2. CASE client'.received = client.received /\ client'.shown = client.shown
  BY <1>1, <1>2 DEF ShownWell
<1>3. CASE client'.received = <<>> /\ client'.shown = <<>>
  <2>1. Len(client'.received) # 1
    BY <1>3
  <2>2. QED
    BY <1>3, <2>1 DEF ShownWell
<1>4. CASE Connects
  BY <1>2, <1>3, <1>4, ConnectsMeans
<1>5. CASE ComesToNothing
  BY <1>2, <1>5, NothingMeans
<1>6. CASE HandlerActs /\ ServerEffect
  BY <1>2, <1>6 DEF ServerEffect
<1>7. CASE ClientActs /\ ~ ClientLooks
  BY <1>2, <1>7, QuietKnowledge
<1>8. CASE ShowEof \/ Written \/ Redirected \/ AnsweredBySs
  BY <1>1, <1>2, <1>8 DEF ShowEof, Written, Redirected, AnsweredBySs, ClientRecord, Go, Return,
                          CloseAndReturn
<1>9. CASE ShowChunk
  <2> DEFINE data == Payload(Received)
  <2>1. PICK beyond \in Beyond(data) :
           client' = [client EXCEPT !.received = Append(client.received, data),
                                    !.shown = client.shown \o Text(data) \o beyond]
    BY <1>1, <1>9 DEF ShowChunk, ClientRecord
  <2>2. data \in Seq(Byte)
    BY <1>9, ChunkShown, PayloadTyped
  <2> HIDE DEF data
  <2>3. /\ client'.received = Append(client.received, data)
        /\ client'.shown = client.shown \o Text(data) \o beyond
    BY <1>1, <2>1 DEF ClientRecord
  <2>4. /\ client.received \in Seq(Seq(Byte)) /\ Len(client.received) \in Nat
        /\ client'.received # <<>> /\ Len(client'.received) = Len(client.received) + 1
        /\ client'.received[Len(client.received) + 1] = data
    BY <1>1, <2>2, <2>3, AppendProperties DEF ClientRecord
  <2>5. ASSUME Len(client'.received) = 1, ~ Full(data), 0 \notin Range(data)
        PROVE  client'.shown = data
    <3>1. client.received = <<>> /\ client.shown = <<>>
      BY <1>1, <2>4, <2>5, EmptySeq DEF ShownWell
    <3>2. beyond = <<>> /\ Text(data) = data
      BY <2>1, <2>2, <2>5, TextTyped
    <3>3. <<>> \o data = data /\ data \o <<>> = data
      BY <2>2, ConcatEmptySeq
    <3>4. QED
      BY <2>3, <3>1, <3>2, <3>3
  <2>6. Len(client'.received) = 1 => client'.received[1] = data
    BY <2>4
  <2>7. QED
    BY <2>4, <2>5, <2>6 DEF ShownWell
<1>10. QED
  BY <1>4, <1>5, <1>6, <1>7, <1>8, <1>9, StepKinds DEF ClientLooks

LEMMA AnswersKnownKept ==
    ASSUME Held, Next
    PROVE  AnswersKnown'
<1>1. /\ AnswersKnown /\ ClientAsks /\ OneConnection /\ HandlerSends /\ client \in ClientRecord
      /\ Sound(down) /\ DownIs
  BY HeldParts
<1> DEFINE Redirect == down.sent # <<>> /\ down.sent[1] = Response(REDIRECT)
           Confirmed == Len(down.sent) > 1 /\ down.sent[2] = Response(OK)
<1>2. down'.astray = {} =>
          \E j \in 0 .. Len(down'.sent) :
            /\ Len(client'.received) = j
            /\ j > 0 => j + 1 <= Len(down'.sent)
            /\ Carries(down'.sent, client'.received)
            /\ client'.pc = "stream" => Asked' = j + 2
            /\ client'.printed /\ ~ down'.eof =>
                  j + 2 <= Len(down'.sent) /\ down'.sent[j + 2] = StreamEnd
  BY ReceivedKept DEF ReceivedOf
<1> SUFFICES
      /\ client'.pc = "address" /\ down'.astray = {} /\ ~ down'.eof => Redirect'
      /\ client'.peer = "nm" \/ client'.pc \in {"connected", "request", "answer"} => client'.received = <<>>
      /\ client'.printed => client'.pc \in {"prompt", "gone"} /\ client'.peer = "ss"
      /\ Does("write")' /\ client'.response = OK /\ down'.astray = {} => Confirmed'
  BY <1>2 DEF AnswersKnown
<1>3. CASE Connects
  <2>1. /\ client'.pc = "connected" /\ client'.received = <<>> /\ ~ client'.printed
        /\ client'.peer = "ss" => client'.response = REDIRECT
    BY <1>1, <1>3, ConnectsMeans DEF AnswersKnown, ClientAsks
  <2>2. QED
    BY <2>1 DEF Does, OK, REDIRECT
<1>4. CASE ~ Connects
  <2>1. /\ Len(down.sent) \in Nat /\ Len(down'.sent) \in Nat /\ Len(down.sent) <= Len(down'.sent)
        /\ \A j \in 1 .. Len(down.sent) : down'.sent[j] = down.sent[j]
        /\ down.sent # <<>> => down'.sent # <<>>
        /\ (down'.astray = {} => down.astray = {}) /\ (~ down'.eof => ~ down.eof)
    BY <1>4, SentGrows
  <2>2. (Redirect => Redirect') /\ (Confirmed => Confirmed')
    <3>1. down.sent # <<>> => 1 \in 1 .. Len(down.sent)
      BY <1>1, EmptySeq DEF Sound
    <3>2. Len(down.sent) > 1 => 2 \in 1 .. Len(down.sent)
      BY <2>1
    <3>3. QED
      BY <2>1, <3>1, <3>2
  <2>3. CASE /\ client'.response = client.response /\ client'.received = client.received
             /\ client'.printed = client.printed
             /\ client'.cmd = client.cmd /\ client'.peer = client.peer
             /\ client'.pc = "address" => client.pc = "address"
             /\ client'.pc \in {"connected", "request", "answer"} =>
                   client.pc \in {"connected", "request", "answer"}
             /\ client.pc \in {"prompt", "gone"} => client'.pc \in {"prompt", "gone"}
    <3> HIDE DEF Redirect, Confirmed
    <3>1. /\ client.pc = "address" /\ down.astray = {} /\ ~ down.eof => Redirect
          /\ Does("write") /\ client.response = OK /\ down.astray = {} => Confirmed
          /\ Does("write")' <=> Does("write")
      BY <1>1, <2>3 DEF AnswersKnown, Redirect, Confirmed, Does
    <3>2. QED
      BY <1>1, <2>1, <2>2, <2>3, <3>1 DEF AnswersKnown
  <2>4. CASE HandlerActs /\ ServerEffect
    BY <2>3, <2>4 DEF ServerEffect
  <2>5. CASE ComesToNothing
    BY <2>3, <2>5, NothingMeans
  <2>6. CASE ClientActs /\ ~ ClientLooks
    BY <2>3, <2>6, QuietKnowledge
  <2>7. CASE ShowChunk \/ ShowEof
    <3>1. /\ client'.response = client.response /\ client'.cmd = client.cmd
          /\ client'.peer = client.peer /\ client'.pc \in {"stream", "prompt"}
          /\ client'.printed => client'.pc = "prompt" \/ client.printed
      BY <1>1, <2>7 DEF ShowChunk, ShowEof, ClientAt, ClientRecord
    <3>2. Does("read") /\ ~ client.printed
      BY <2>7, ChunkShown
    <3>3. QED
      BY <3>1, <3>2 DEF Does
  <2>8. CASE AnsweredBySs
    <3>1. /\ client'.received = client.received /\ client'.printed = client.printed
          /\ client'.cmd = client.cmd /\ client'.peer = client.peer /\ client.peer = "ss"
          /\ client.pc = "answer" /\ client'.pc \in {"stream", "lines", "rows", "prompt"}
          /\ \/ client'.response = client.response
             \/ client'.response = OK_START_STREAM
      BY <1>1, <2>8 DEF AnsweredBySs, ClientAt, ClientRecord, Go, Return, CloseAndReturn
    <3>2. ~ client.printed
      BY <1>1, <3>1 DEF AnswersKnown
    <3>3. Does("write")' /\ client'.response = OK /\ down'.astray = {} => Confirmed
      BY <1>1, <2>1, <3>1 DEF AnswersKnown, Does, OK, OK_START_STREAM
    <3>4. QED
      BY <2>2, <3>1, <3>2, <3>3
  <2>9. CASE Redirected
    <3>1. /\ client.pc = "answer" /\ down.pc = "idle" /\ client.peer = "nm" /\ REDIRECT \in Responses
          /\ client'.pc = "address" /\ client'.peer = "nm" /\ client'.response = REDIRECT
          /\ client'.received = client.received /\ client'.printed = client.printed
      BY <1>1, <2>9 DEF Redirected, ClientAt, ClientRecord
    <3>2. /\ Len(down.got) = 1 /\ Received.kind = "bare" /\ down.got # <<>> /\ server.who = "nm"
          /\ client.received = <<>> /\ ~ client.printed
      BY <1>1, <3>1, HasReceived DEF ClientAsks, AsksBlock, OneConnection, AnswersKnown
    <3>3. ASSUME down.astray = {}, ~ down.eof
          PROVE  Redirect
      <4>1. Len(down.sent) >= 1 => down.sent # <<>> /\ IsResponse(down.sent[1])
        <5>1. Len(<<>>) = 0
          OBVIOUS
        <5>2. QED
          BY <1>1, <3>2, <5>1 DEF HandlerSends, NmSends
      <4>2. 1 <= Len(down.sent) /\ down.sent[1] = Response(REDIRECT)
        BY <2>1, <3>1, <3>2, <3>3, <4>1, CodeReceived
      <4>3. QED
        BY <4>1, <4>2
    <3>4. ~ Does("write")'
      BY <3>1 DEF Does
    <3>5. QED
      BY <2>1, <2>2, <3>1, <3>2, <3>3, <3>4
  <2>10. CASE Written
    <3> PICK code \in Responses : client' = [client EXCEPT !.pc = "prompt", !.left = @ + 1,
                                                           !.response = code]
      BY <2>10 DEF Written
    <3>1. /\ client.pc = "final" /\ down.pc = "idle"
          /\ client'.response = code /\ client'.pc = "prompt"
          /\ client'.received = client.received /\ client'.printed = client.printed
          /\ client'.cmd = client.cmd /\ client'.peer = client.peer
      BY <1>1, <2>10 DEF Written, ClientAt, ClientRecord
    <3>2. /\ Len(down.got) = 2 /\ Received.kind = "bare" /\ down.got # <<>> /\ server.who = "ss"
          /\ ~ client.printed /\ Does("write")
      BY <1>1, <3>1, HasReceived DEF ClientAsks, AsksBlock, OneConnection, AnswersKnown, Does
    <3>3. ASSUME down.astray = {}, code = OK
          PROVE  Confirmed
      <4>1. Received.bytes # <<>> \/ Responses = {client.response}
        BY <3>2 DEF Responses, Does
      <4>2. 2 <= Len(down.sent) => \/ IsResponse(down.sent[2])
                                   \/ down.sent[2] \in {Stat, Rows} /\ code \in {OK, REDIRECT}
        <5>1. 2 <= Len(down.sent) =>
                \/ IsResponse(down.sent[2]) \/ IsChunk(down.sent[2])
                \/ down.sent[2] \in {Stat, Rows, StreamEnd}
          BY <1>1, <2>1, <3>2 DEF HandlerSends, SsSends
        <5>2. QED
          <6>1. CASE Last(down.got).whole /\ 2 <= Len(down.sent)
            <7>1. Received = down.sent[2]
              BY <3>2, <3>3, <6>1, LastIsSent
            <7>2. /\ \A item : IsChunk(item) => item.kind = "message"
                  /\ StreamEnd.kind = "message"
              <8>1. \A type, payload : Message(type, payload).kind = "message"
                BY DEF Message
              <8>2. QED
                BY <8>1 DEF IsChunk, Stream, StreamEnd
            <7>3. QED
              BY <3>2, <3>3, <5>1, <6>1, <7>1, <7>2
          <6>2. CASE ~ Last(down.got).whole
            <7>1. Received.bytes = <<>>
              BY <3>2, <3>3, <6>2, LastIsSent
            <7>2. client.response = OK
              BY <3>3, <4>1, <7>1
            <7>3. Confirmed
              BY <1>1, <3>2, <3>3, <7>2 DEF AnswersKnown
            <7>4. IsResponse(Response(OK))
              BY DEF IsResponse, Codes
            <7>5. QED
              BY <7>3, <7>4
          <6>3. QED
            BY <6>1, <6>2
      <4>3. CASE 2 <= Len(down.sent) /\ down.sent[2] = Response(code)
        BY <2>1, <3>3, <4>3
      <4>4. CASE down.eof /\ code = client.response
        BY <1>1, <3>2, <3>3, <4>4 DEF AnswersKnown
      <4>5. QED
        BY <3>2, <3>3, <4>1, <4>2, <4>3, <4>4, CodeReceived
    <3>4. client.peer = "ss"
      BY <3>2 DEF Does
    <3>5. QED
      BY <2>1, <2>2, <3>1, <3>2, <3>3, <3>4
  <2>11. QED
    BY <1>4, <2>4, <2>5, <2>6, <2>7, <2>8, <2>9, <2>10, StepKinds DEF ClientLooks
<1>5. QED
  BY <1>3, <1>4

-----------------------------------------------------------------------------
(* A client at work that gets something knows what the handler is doing.   *)
LEMMA HandlerOfRequest ==
    ASSUME Held, Busy, Whole(up), down.sent # <<>>
    PROVE  /\ up.astray = {} /\ up.open /\ server.who = client.peer
           /\ server.op = Asking /\ server.pc \notin {"accept", "request", "serve"}
<1>1. /\ AgreeOnWhatComes /\ OneConnection /\ HandlerSends /\ RequestKnown /\ Sound(up)
  BY HeldParts
<1>2. up.astray = {}
  BY <1>1 DEF AgreeOnWhatComes, Whole, Sound
<1>3. server.pc \notin {"accept", "request", "serve"}
  BY <1>1 DEF HandlerSends
<1>4. QED
  BY <1>1, <1>2, <1>3 DEF OneConnection, RequestKnown

LEMMA ItemShapes ==
    /\ \A code : Response(code).kind = "bare" /\ Len(Response(code).bytes) = 1
    /\ Address.kind = "bare" /\ Len(Address.bytes) = 2
    /\ Stat.kind = "bare" /\ Len(Stat.bytes) = 2
    /\ Rows.kind = "bare" /\ Len(Rows.bytes) = 3
    /\ StreamEnd.kind = "message" /\ ~ IsChunk(StreamEnd)
    /\ \A item : IsChunk(item) => item.kind = "message"
<1>1. \A a, b, c : Len(<< a >>) = 1 /\ Len(<< a, b >>) = 2 /\ Len(<< a, b, c >>) = 3
  OBVIOUS
<1>2. ~ IsChunk(StreamEnd) /\ \A item : IsChunk(item) => item.kind = "message"
  BY ChunksDiffer DEF IsChunk
<1>3. StreamEnd.kind = "message"
  BY DEF StreamEnd, Message
<1>4. QED
  BY <1>1, <1>2, <1>3 DEF Response, Address, Stat, Rows, Bare

(* Where chunks are carried, there are chunks.                             *)
LEMMA CarriesChunks ==
    ASSUME NEW sent, NEW chunks, NEW k \in Nat, Len(chunks) = k, Carries(sent, chunks)
    PROVE  \A j \in 2 .. k + 1 : IsChunk(sent[j])
<1> TAKE j \in 2 .. k + 1
<1>1. j - 1 \in 1 .. Len(chunks) /\ (j - 1) + 1 = j
  OBVIOUS
<1>2. chunks[j - 1] \in Chunks /\ sent[j] = Stream(chunks[j - 1])
  BY <1>1 DEF Carries
<1>3. QED
  BY <1>2 DEF IsChunk

(* The ways to take one thing for another: the error of a READ or a GET,   *)
(* and the rows of a LIST.                                                 *)
LEMMA OnlyTheseMix ==
    ASSUME Held, ClientRecv, "mixed" \notin down.astray,
           "mixed" \in down'.astray, "short" \notin down'.astray, Whole(up)
    PROVE  \/ /\ server.failed /\ server.op \in {"read", "get"}
              /\ down'.read = Len(down'.out) /\ ~ Down!Sending'
           \/ /\ server.who = "ss" /\ server.op = "list"
              /\ Len(down.sent) > 1 /\ Len(down'.got) = 2
<1>1. /\ ClientAsks /\ OneConnection /\ HandlerSends /\ AnswersKnown /\ Sound(down) /\ DownIs
      /\ DownProofs!IInv /\ client \in ClientRecord
  BY HeldParts DEF Held, IInv
<1>2. Busy /\ Down!Recv /\ down.astray = {} /\ down.pc # "idle"
  BY <1>1 DEF ClientRecv, DownIs, Advances, Sound
<1> PICK i \in Nat : i = Len(down.got) + 1
  BY <1>1 DEF Sound
<1>3. /\ i \in 1 .. Len(down.sent) /\ ~ down.eof
      /\ \/ /\ down.pc = "bare"
            /\ ~ (down.sent[i].kind = "bare" /\ Len(down.sent[i].bytes) = down.want)
         \/ down.pc = "type" /\ down.sent[i].kind # "message"
      /\ i = Len(down.sent) /\ Len(down.sent[i].bytes) = 1 =>
            down'.read = Len(down'.out) /\ ~ Down!Sending'
  BY <1>1, <1>2, DownMixed
<1>4. down.sent # <<>> /\ Len(down.sent) \in Nat /\ Asked = i
  <2>1. Len(<<>>) = 0
    OBVIOUS
  <2>2. QED
    BY <1>1, <1>2, <1>3, <2>1 DEF Asked, Sound
<1>5. /\ server.who = client.peer /\ server.op = Asking
      /\ server.pc \notin {"accept", "request", "serve"}
  BY <1>2, <1>4, HandlerOfRequest
<1>6. client.pc \in {"answer", "address", "stream", "final", "stat", "response", "rows"}
  <2>1. client.pc \in ClientPcs \ {"prompt", "gone"}
    BY <1>1, <1>2 DEF ClientRecord, Busy
  <2>2. client.pc \notin {"connected", "request", "lines", "ending"}
    BY <1>1, <1>2, <1>4 DEF ClientAsks
  <2>3. QED
    BY <2>1, <2>2 DEF ClientPcs
<1>7. CASE client.pc = "answer"
  <2>1. i = 1 /\ down.want = 1 /\ down.pc = "bare" /\ ~ Does("get")
    BY <1>1, <1>2, <1>4, <1>7 DEF ClientAsks, AsksBlock
  <2>2. IsResponse(down.sent[1])
    <3>1. CASE client.peer = "nm"
      BY <1>1, <1>4, <1>5, <3>1 DEF HandlerSends, NmSends
    <3>2. CASE client.peer = "ss"
      <4>1. server.op \in {"read", "write", "list"}
        BY <1>1, <1>5, <2>1, <3>2 DEF OneConnection, Asking, Does
      <4>2. SsSends
        BY <1>1, <1>5, <3>2 DEF HandlerSends
      <4>3. QED
        BY <1>3, <1>4, <2>1, <4>1, <4>2 DEF SsSends, ReadSends
    <3>3. QED
      BY <1>1, <3>1, <3>2 DEF ClientRecord
  <2>3. QED
    BY <1>3, <2>1, <2>2, ItemShapes DEF IsResponse
<1>8. CASE client.pc = "address"
  <2>1. i = 2 /\ down.want = 2 /\ down.pc = "bare" /\ client.peer = "nm"
    BY <1>1, <1>2, <1>4, <1>8, ItemShapes DEF ClientAsks, AsksBlock
  <2>2. down.sent[1] = Response(REDIRECT) /\ NmSends
    BY <1>1, <1>2, <1>3, <1>5, <1>8, <2>1 DEF AnswersKnown, HandlerSends
  <2>3. down.sent[2] = Address
    BY <1>3, <2>1, <2>2 DEF NmSends
  <2>4. QED
    BY <1>3, <2>1, <2>3, ItemShapes
<1>9. CASE client.pc = "stream"
  <2>1. Does("read") /\ i > 1 /\ down.pc = "type"
    BY <1>1, <1>2, <1>3, <1>4, <1>9 DEF ClientAsks
  <2>2. server.op = "read" /\ server.who = "ss"
    BY <1>5, <2>1 DEF Asking, Does
  <2> PICK k \in 0 .. Len(down.sent) :
        /\ Len(server.streamed) = k
        /\ Len(down.sent) = IF server.ended \/ server.failed THEN k + 2 ELSE k + 1
        /\ Carries(down.sent, server.streamed)
        /\ server.ended => ~ server.failed /\ down.sent[k + 2] = StreamEnd
        /\ server.failed => down.sent[k + 2] = Response(INTERNAL_ERROR)
    BY <1>1, <1>4, <2>2 DEF HandlerSends, SsSends, ReadSends
  <2>3. i \notin 2 .. k + 1 /\ down.sent[i].kind # "message"
    <3>1. \A j \in 2 .. k + 1 : IsChunk(down.sent[j])
      BY CarriesChunks
    <3>2. QED
      BY <1>3, <2>1, <3>1, ItemShapes
  <2>4. i = k + 2 /\ i = Len(down.sent) /\ (server.ended \/ server.failed)
    BY <1>3, <1>4, <2>1, <2>3
  <2>5. ~ server.ended
    BY <2>3, <2>4, ItemShapes
  <2>6. server.failed /\ Len(down.sent[i].bytes) = 1
    <3>1. server.failed
      BY <2>4, <2>5
    <3>2. down.sent[i] = Response(INTERNAL_ERROR)
      BY <2>4, <3>1
    <3>3. QED
      BY <3>1, <3>2, ItemShapes
  <2>7. QED
    BY <1>3, <2>1, <2>2, <2>4, <2>6
<1>10. CASE client.pc = "final"
  <2>1. i = 2 /\ down.want = 1 /\ down.pc = "bare" /\ Does("write")
    BY <1>1, <1>2, <1>4, <1>10 DEF ClientAsks, AsksBlock
  <2>2. server.op = "write" /\ server.who = "ss"
    BY <1>5, <2>1 DEF Asking, Does
  <2>3. IsResponse(down.sent[i])
    BY <1>1, <1>3, <2>2 DEF HandlerSends, SsSends
  <2>4. QED
    BY <1>3, <2>1, <2>3, ItemShapes DEF IsResponse
<1>11. CASE client.pc \in {"stat", "response"}
  <2>1. /\ down.pc = "bare" /\ Does("get")
        /\ IF client.pc = "stat" THEN i = 1 /\ down.want = 2 ELSE i = 2 /\ down.want = 1
    BY <1>1, <1>2, <1>4, <1>11, ItemShapes DEF ClientAsks, AsksBlock
  <2>2. server.op = "get" /\ server.who = "ss"
    BY <1>5, <2>1 DEF Asking, Does
  <2>3. down.sent \in {<< Response(INTERNAL_ERROR) >>, << Stat >>, << Stat, Response(OK) >>}
    BY <1>1, <1>4, <2>2 DEF HandlerSends, SsSends
  <2>4. CASE down.sent = << Response(INTERNAL_ERROR) >>
    <3>1. Len(down.sent) = 1 /\ down.sent[1] = Response(INTERNAL_ERROR)
      BY <2>4
    <3>2. i = 1 /\ Len(down.sent[1].bytes) = 1
      BY <1>3, <2>1, <3>1, ItemShapes
    <3>3. server.failed
      <4>1. down.sent[1] # Stat
        BY <3>1, CodesDiffer
      <4>2. down.sent \notin {<<>>, << Stat >>, << Stat, Response(OK) >>}
        BY <3>1, <4>1
      <4>3. QED
        BY <1>1, <2>2, <4>2 DEF HandlerSends, SsSends
    <3>4. QED
      BY <1>3, <2>2, <3>1, <3>2, <3>3
  <2>5. CASE down.sent \in {<< Stat >>, << Stat, Response(OK) >>}
    <3>1. down.sent[1] = Stat /\ (i = 2 => down.sent[2] = Response(OK))
      BY <1>3, <2>5
    <3>2. /\ Stat.kind = "bare" /\ Len(Stat.bytes) = 2
          /\ Response(OK).kind = "bare" /\ Len(Response(OK).bytes) = 1
      BY ItemShapes
    <3>3. /\ i = 1 \/ i = 2
          /\ down.sent[i].kind = "bare" /\ Len(down.sent[i].bytes) = down.want
      BY <2>1, <3>1, <3>2
    <3>4. QED
      BY <1>3, <2>1, <3>3
  <2>6. QED
    BY <2>3, <2>4, <2>5
<1>12. CASE client.pc = "rows"
  <2>1. i = 2 /\ down.pc = "bare" /\ Does("list")
    BY <1>1, <1>2, <1>4, <1>12 DEF ClientAsks, AsksBlock
  <2>2. server.op = "list" /\ server.who = "ss"
    BY <1>5, <2>1 DEF Asking, Does
  <2>3. Len(down'.got) = i
    <3> PICK g \in GotItem : EndsReceive(down, down', g)
      BY <1>1, <1>2, <2>1 DEF DownIs, Advances
    <3>1. QED
      BY <1>1, OneMoreGot DEF EndsReceive
  <2>4. QED
    BY <1>3, <1>4, <2>1, <2>2, <2>3
<1>13. QED
  BY <1>6, <1>7, <1>8, <1>9, <1>10, <1>11, <1>12

(* A handler that is done does nothing but send what it has begun to send. *)
LEMMA DoneStays ==
    ASSUME Held, HandlerActs, server.pc = "done"
    PROVE  /\ server'.pc = "done" /\ server'.op = server.op /\ server'.failed = server.failed
           /\ server'.who = server.who
           /\ down' = down \/ Down!Send \/ Down!Close
<1>1. server \in ServerRecord
  BY HeldParts
<1>2. ServerRecv \/ ServerSend \/ ServerSigpipe \/ \E who \in alive : Crash(who)
  BY DEF HandlerActs, ServerStep, ServerAt, Serving, ReceiveRequest, Dispatch,
         Invalid, NmAnswers, NmRedirects, NmNotFound, NmSendsAddress, SsAnswers, SsReads,
         SsOpens, SsFailsToOpen, SsSendsChunk, SsEndsStream, SsWrites, SsWritesNothing, SsAwaitsChunk,
         SsWritesChunk, SsEndsWrite, SsSendsStat, SsConfirmsStat, SsFailsToStat, SsLists,
         SsSendsRows
<1>3. QED
  BY <1>1, <1>2 DEF ServerRecv, ServerSend, ServerSigpipe, Crash, ServerRecord

(* A client's step takes nothing from the stream unless it receives.       *)
LEMMA ClientTakes ==
    ASSUME ClientActs
    PROVE  down' = down \/ ClientRecv \/ \E pc, n : Down!Ask(pc, n)
<1>1. CASE AwaitAnswer \/ Redirected \/ AwaitFinal \/ AwaitResponse \/ ShowChunk \/ AnsweredBySs
  BY <1>1 DEF AwaitAnswer, Redirected, AwaitFinal, AwaitResponse, ShowChunk, AnsweredBySs,
              Return, CloseAndReturn, Go, Down!AskBare, Down!AskMessage
<1>2. CASE SendRequest \/ Answered \/ ShowEof \/ ReadBreaksOff \/ SendEnd \/ Written
           \/ ShowInfo \/ ShowRows \/ ClientSend
           \/ SendLine \/ StopTyping \/ ClientSigpipe \/ ClientReset \/ Gone
  BY <1>2 DEF SendRequest, Answered, ShowEof, ReadBreaksOff, SendEnd, Written, ShowInfo,
              ShowRows, ClientSend, SendLine, StopTyping, ClientSigpipe, ClientReset, Gone
<1>3. QED
  BY <1>1, <1>2 DEF ClientActs

(* A handler that has sent more than one thing of a listing has ended.     *)
LEMMA ListedIsDone ==
    ASSUME HandlerSends, server.who = "ss", server.op = "list", server.pc \in ServerPcs,
           Len(down.sent) > 1
    PROVE  server.pc = "done"
<1>1. down.sent # <<>>
  BY EmptySeq
<1>2. server.pc \notin {"accept", "request", "serve"}
  BY <1>1 DEF HandlerSends
<1>3. server.pc \notin {"redirect", "address", "lock", "stream", "write", "written", "stat"}
  BY DEF HandlerSends
<1>4. server.pc # "rows"
  <2> PICK n : n = Len(down.sent)
    OBVIOUS
  <2>1. server.pc = "rows" => n = 1
    BY DEF HandlerSends
  <2>2. n > 1 /\ ~ (1 > 1)
    OBVIOUS
  <2>3. QED
    BY <2>1, <2>2
<1>5. QED
  BY <1>2, <1>3, <1>4 DEF ServerPcs

(* The rows of a listing are the last thing the client gets.               *)
LEMMA RowsAreLast ==
    ASSUME Held, Next, ~ Connects, Whole(up), server.who = "ss", server.op = "list",
           Len(down.sent) > 1, Len(down.got) = 2
    PROVE  /\ server'.who = "ss" /\ server'.op = "list"
           /\ Len(down'.sent) > 1 /\ Len(down'.got) = 2
<1>1. /\ HandlerSends /\ ClientAsks /\ DownIs /\ Sound(down) /\ DownProofs!IInv
      /\ server \in ServerRecord /\ client \in ClientRecord
  BY HeldParts DEF Held, IInv
<1>2. server.pc \in ServerPcs
  BY <1>1 DEF ServerRecord
<1>3. server.pc = "done"
  BY <1>1, <1>2, ListedIsDone
<1>4. CASE HandlerActs /\ ServerEffect
  <2>1. /\ server'.op = server.op /\ server'.who = server.who
        /\ down' = down \/ Down!Send \/ Down!Close
    BY <1>3, <1>4, DoneStays
  <2>2. down'.sent = down.sent /\ down'.got = down.got
    BY <1>1, <2>1 DEF DownIs, Passed, Closed, ReceiverAsWas
  <2>3. QED
    BY <2>1, <2>2
<1>5. CASE ComesToNothing
  BY <1>5, NothingMeans
<1>6. CASE ClientActs /\ ClientEffect
  <2>1. ~ ClientRecv
    <3> SUFFICES ASSUME ClientRecv PROVE FALSE
      OBVIOUS
    <3>1. Busy /\ down.pc # "idle"
      BY <1>1 DEF ClientRecv, DownIs, Advances
    <3>2. Asked = 3
      BY <3>1 DEF Asked
    <3>3. client.pc = "stream"
      <4>1. client.pc \in ClientPcs \ {"prompt", "gone"}
        BY <1>1, <3>1 DEF ClientRecord, Busy
      <4>2. QED
        BY <1>1, <3>2, <4>1 DEF ClientAsks, AsksBlock, ClientPcs
    <3>4. server.op = "read"
      BY <1>1, <1>2, <3>1, <3>3, HandlerOfRequest DEF ClientAsks, Does, Asking
    <3>5. QED
      BY <3>4
  <2>2. server' = server /\ (down' = down \/ \E pc, n : Down!Ask(pc, n))
    BY <1>6, <2>1, ClientTakes DEF ClientEffect
  <2>3. down'.sent = down.sent /\ down'.got = down.got
    BY <1>1, <2>2, DownSteps DEF AskedFor
  <2>4. QED
    BY <2>2, <2>3
<1>7. QED
  BY <1>4, <1>5, <1>6, StepKinds

(* What has been taken for something else stays the last thing.            *)
LEMMA AgreeKept ==
    ASSUME Held, Next
    PROVE  AgreeOnWhatComes' /\ AfterMix'
<1>1. /\ AgreeOnWhatComes /\ AfterMix /\ HandlerSends /\ UpIs /\ DownIs /\ DownProofs!IInv
      /\ Sound(down)
  BY HeldParts DEF Held, IInv
<1>2. (Whole(up) => "mixed" \notin up.astray)'
  BY <1>1, UpNeverMixed DEF AgreeOnWhatComes
<1> SUFFICES ASSUME Whole(up)', Whole(down)', "mixed" \in down'.astray
             PROVE  \/ /\ server'.failed /\ server'.op \in {"read", "get"}
                       /\ ~ Down!Sending' /\ down'.read = Len(down'.out)
                    \/ /\ server'.who = "ss" /\ server'.op = "list"
                       /\ Len(down'.sent) > 1 /\ Len(down'.got) = 2
  BY <1>2 DEF AgreeOnWhatComes, AfterMix
<1>3. ~ Connects
  BY DEF Connects, Fresh
<1>4. Whole(up) /\ Whole(down)
  <2>1. (up.astray \subseteq up'.astray) /\ (down.astray \subseteq down'.astray)
    <3>1. CASE HandlerActs /\ ServerEffect
      BY <3>1 DEF ServerEffect, AskedFor, Advances, Passed, Closed, Started, ReceiverAsWas
    <3>2. CASE ClientActs /\ ClientEffect
      BY <3>2 DEF ClientEffect, AskedFor, Advances, Passed, Closed, Started, ReceiverAsWas
    <3>3. CASE ComesToNothing
      BY <3>3, NothingMeans DEF Closed, ReceiverAsWas
    <3>4. QED
      BY <1>3, <3>1, <3>2, <3>3, StepKinds
  <2>2. QED
    BY <2>1 DEF Whole
<1>5. CASE "mixed" \in down.astray /\ server.op # "list"
  <2>1. /\ server.failed /\ server.op \in {"read", "get"} /\ server.pc = "done"
        /\ ~ Down!Sending /\ down.read = Len(down.out)
    BY <1>1, <1>4, <1>5 DEF AgreeOnWhatComes, AfterMix, HandlerSends
  <2>2. HandlerActs => server'.failed /\ server'.op = server.op
                        /\ (down' = down \/ Down!Send \/ Down!Close)
    BY <2>1, DoneStays
  <2>3. ~ HandlerActs => server' = server
    BY <1>3, StepKinds, NothingMeans DEF ClientEffect
  <2>4. \/ down' = down \/ Down!Close \/ Down!Recv
        \/ \E pc, n : Down!Ask(pc, n)
    <3>1. CASE HandlerActs
      BY <1>1, <2>1, <2>2, <3>1, DownSending
    <3>2. CASE ComesToNothing
      BY <3>2, NothingMeans
    <3>3. CASE ClientActs /\ ClientEffect
      BY <3>3, ClientTakes DEF ClientRecv
    <3>4. QED
      BY <1>3, <3>1, <3>2, <3>3, StepKinds
  <2>5. Down!Sending' <=> Down!Sending
    BY <1>1, <2>4, DownSending
  <2>6. down'.read = down.read /\ down'.out = down.out
    <3>1. \A pc, n : Down!Ask(pc, n) => down'.read = down.read /\ down'.out = down.out
      BY <1>1, DownSteps DEF AskedFor
    <3>2. Down!Close => down'.read = down.read /\ down'.out = down.out
      BY <1>1 DEF DownIs, Closed, ReceiverAsWas
    <3>3. Down!Recv => down'.read = down.read /\ down'.out = down.out
      BY <1>1, <2>1 DEF DownIs, Advances
    <3>4. QED
      BY <2>4, <3>1, <3>2, <3>3
  <2>7. QED
    BY <2>1, <2>2, <2>3, <2>5, <2>6
<1>6. CASE "mixed" \in down.astray /\ server.op = "list"
  BY <1>1, <1>3, <1>4, <1>6, RowsAreLast DEF AgreeOnWhatComes, AfterMix
<1>7. CASE "mixed" \notin down.astray
  <2>1. ClientRecv
    <3>1. CASE HandlerActs /\ ServerEffect
      BY <1>7, <3>1 DEF ServerEffect, Passed, Closed, Started, ReceiverAsWas
    <3>2. CASE ComesToNothing
      BY <1>7, <3>2, NothingMeans
    <3>3. CASE ClientActs /\ ~ ClientRecv
      <4>1. down' = down \/ \E pc, n : Down!Ask(pc, n)
        BY <3>3, ClientTakes
      <4>2. down'.astray = down.astray
        BY <1>1, <4>1, DownSteps DEF AskedFor
      <4>3. QED
        BY <1>7, <4>2
    <3>4. QED
      BY <1>3, <3>1, <3>2, <3>3, StepKinds
  <2>2. server' = server
    BY <2>1 DEF ClientRecv
  <2>3. down'.sent = down.sent
    BY <1>1, <2>1 DEF ClientRecv, DownIs, Advances
  <2>4. QED
    BY <1>4, <1>7, <2>1, <2>2, <2>3, OnlyTheseMix DEF Whole
<1>8. QED
  BY <1>5, <1>6, <1>7

-----------------------------------------------------------------------------
(* The client's commands end when nothing more is to come: what it has got *)
(* tells it what the handler has still to send.                            *)
ComesLittle ==
    /\ ToSend < 2
    /\ Down!Sending => ToSend = 0 /\ Last(down.sent).kind = "bare"

LEMMA LastSent ==
    ASSUME Held, down.sent # <<>>
    PROVE  Last(down.sent) = down.sent[Len(down.sent)] /\ Len(down.sent) \in 1 .. Len(down.sent)
<1>1. down.sent \in Seq(ItemRecord)
  BY HeldParts DEF Sound
<1>2. Len(down.sent) \in Nat \ {0}
  BY <1>1, EmptySeq
<1>3. QED
  BY <1>2 DEF Last

(* What the client has got on a stream that goes on. *)
LEMMA GotIsSent ==
    ASSUME Held, down.astray = {}, down.open, down.got # <<>>, NEW n \in Nat, n = Len(down.got)
    PROVE  /\ n \in 1 .. Len(down.sent) /\ Received = down.sent[n]
           /\ down.sent # <<>> /\ Len(down.sent) \in Nat
           /\ n = Len(down.sent) => ~ Down!Sending
<1>1. Sound(down) /\ DownProofs!IInv
  BY HeldParts DEF Held, IInv
<1>2. ~ down.eof
  BY <1>1 DEF Sound
<1>3. Last(down.got) = down.got[n] /\ n \in 1 .. n
  BY <1>1, LastReceived, LastIsSent
<1>4. down.got[n].whole
  BY <1>1, <1>2, <1>3 DEF Sound
<1>5. n <= Len(down.sent) /\ Received = down.sent[n]
  BY <1>3, <1>4, LastIsSent
<1>6. down.sent # <<>>
  <2>1. Len(<<>>) = 0
    OBVIOUS
  <2>2. QED
    BY <1>3, <1>5, <2>1
<1>7. n = Len(down.sent) => ~ Down!Sending
  BY <1>1, <1>2, DownSound
<1>8. QED
  BY <1>1, <1>3, <1>5, <1>6, <1>7 DEF Sound

(* The naming server's last word. *)
LEMMA NmSaysNoMore ==
    ASSUME Held, Whole(up), down.astray = {}, down.open, client.peer = "nm", down.pc = "idle",
           \/ client.pc = "answer" /\ client.cmd \notin {"get", "list"}
              /\ (Responses # {REDIRECT} \/ client.cmd \in {"create", "delete", "copy"})
           \/ client.pc = "address"
    PROVE  ComesLittle
<1>1. /\ ClientAsks /\ OneConnection /\ HandlerSends /\ AnswersKnown /\ Sound(down)
      /\ client \in ClientRecord /\ server \in ServerRecord /\ ClientSends
  BY HeldParts
<1>2. /\ down.got # <<>> /\ Busy /\ Len(down.got) \in Nat
      /\ Len(down.got) = IF client.pc = "address" THEN 2 ELSE 1
  BY <1>1, HasReceived
<1> PICK n \in {1, 2} : n = Len(down.got)
  BY <1>2
<1>3. n \in 1 .. Len(down.sent) /\ Received = down.sent[n] /\ down.sent # <<>>
  BY <1>2, GotIsSent
<1>4. server.op = Asking /\ server.who = "nm" /\ server.pc \notin {"accept", "request", "serve"}
  BY <1>1, <1>2, <1>3, HandlerOfRequest
<1>5. NmSends /\ server.pc \in {"redirect", "address", "done"}
  BY <1>1, <1>4 DEF HandlerSends, ServerRecord, ServerPcs
<1>6. server.pc = "done"
  <2>1. CASE client.pc = "address"
    <3>1. down.sent[1] = Response(REDIRECT) /\ n = 2
      BY <1>1, <1>2, <2>1 DEF AnswersKnown, Sound
    <3>2. NOT_FOUND # REDIRECT
      BY DEF NOT_FOUND, REDIRECT
    <3>3. down.sent \notin {<< Response(NOT_FOUND) >>, << Response(REDIRECT) >>,
                            << Response(NOT_FOUND), Response(REDIRECT) >>}
      <4>1. Len(<< Response(NOT_FOUND) >>) = 1 /\ Len(<< Response(REDIRECT) >>) = 1
            /\ << Response(NOT_FOUND), Response(REDIRECT) >>[1] = Response(NOT_FOUND)
        OBVIOUS
      <4>2. Response(NOT_FOUND) # Response(REDIRECT)
        BY <3>2, CodesDiffer
      <4>3. Len(down.sent) # 1
        BY <1>3, <3>1
      <4>4. QED
        BY <3>1, <4>1, <4>2, <4>3
    <3>4. QED
      BY <1>1, <1>5, <3>3 DEF HandlerSends
  <2>2. CASE client.pc = "answer"
    <3>1. client.cmd \in Commands
      BY <1>2, HeldParts DEF ProcessesOK, CommandKnown
    <3>2. client.cmd \in {"create", "delete", "copy", "read", "write"}
      BY <2>2, <3>1, SessionAssumption, OpcodeFacts
    <3>3. server.op = client.cmd
      BY <1>4, <3>2 DEF Asking
    <3>4. server.pc # "redirect"
      BY <1>1, <3>2, <3>3 DEF HandlerSends
    <3>5. ASSUME server.pc = "address"
          PROVE  FALSE
      <4>1. client.cmd \in {"read", "write"} /\ down.sent = << Response(REDIRECT) >>
        BY <1>1, <3>2, <3>3, <3>5 DEF HandlerSends
      <4>2. Received = Response(REDIRECT)
        <5>1. n = 1 /\ << Response(REDIRECT) >>[1] = Response(REDIRECT)
          BY <1>2, <2>2
        <5>2. QED
          BY <1>3, <4>1, <5>1
      <4>3. Received.bytes = << REDIRECT >>
        BY <4>2 DEF Response, Bare
      <4>4. << REDIRECT >> # <<>> /\ << REDIRECT >>[1] = REDIRECT
        OBVIOUS
      <4>5. Responses = {REDIRECT}
        BY <4>3, <4>4 DEF Responses
      <4>6. QED
        BY <2>2, <4>1, <4>5
    <3>6. QED
      BY <1>5, <3>4, <3>5
  <2>3. QED
    BY <2>1, <2>2
<1>7. Last(down.sent).kind = "bare"
  <2>1. IsResponse(Last(down.sent)) \/ Last(down.sent) = Address
    BY <1>3, <1>5, LastSent DEF NmSends
  <2>2. QED
    BY <2>1, ItemShapes DEF IsResponse
<1>8. QED
  BY <1>6, <1>7 DEF ComesLittle, ToSend

(* The storage server's. *)
LEMMA SsSaysNoMore ==
    ASSUME Held, Whole(up), down.astray = {}, down.open, client.peer = "ss", down.pc = "idle",
           \/ /\ client.pc = "answer"
              /\ \E code \in Responses :
                    /\ client.cmd \in {"read", "write"} => code # OK_START_STREAM
                    /\ client.cmd = "list" => code # OK
           \/ client.pc = "stream" /\ Streamed(Received) <= 0
           \/ client.pc \in {"lines", "final", "response", "rows"}
    PROVE  ComesLittle
<1>1. /\ ClientAsks /\ OneConnection /\ HandlerSends /\ AnswersKnown /\ Sound(down)
      /\ client \in ClientRecord /\ server \in ServerRecord
  BY HeldParts
<1>2. /\ down.got # <<>> /\ Busy /\ Len(down.got) \in Nat
      /\ client.pc # "stream" =>
            Len(down.got) = IF client.pc \in {"final", "response", "rows"} THEN 2 ELSE 1
  BY <1>1, HasReceived
<1> PICK n \in Nat : n = Len(down.got)
  BY <1>2
<1>3. /\ n \in 1 .. Len(down.sent) /\ Received = down.sent[n] /\ down.sent # <<>>
      /\ Len(down.sent) \in Nat /\ (n = Len(down.sent) => ~ Down!Sending)
  BY <1>2, GotIsSent
<1>4. /\ server.op = client.cmd /\ server.who = "ss" /\ server.pc \notin {"accept", "request", "serve"}
      /\ client.cmd \in {"read", "write", "get", "list"}
  BY <1>1, <1>2, <1>3, HandlerOfRequest DEF Asking, OneConnection
<1>5. /\ SsSends
      /\ server.pc \in {"lock", "stream", "write", "written", "stat", "rows", "done"}
      /\ server.pc # "done" => ~ server.failed
  BY <1>1, <1>4 DEF HandlerSends, ServerRecord, ServerPcs
<1>6. Last(down.sent) = down.sent[Len(down.sent)] /\ Len(down.sent) \in 1 .. Len(down.sent)
  BY <1>3, LastSent
<1>7. client.pc = "answer" => n = 1
  BY <1>2
<1>8. ASSUME client.pc = "answer", NEW code \in Responses, IsResponse(down.sent[1])
      PROVE  down.sent[1] = Response(code)
  <2> PICK c \in Codes : Received = Response(c)
    BY <1>3, <1>7, <1>8 DEF IsResponse
  <2>1. Received.bytes = << c >>
    BY DEF Response, Bare
  <2>2. << c >> # <<>> /\ << c >>[1] = c
    OBVIOUS
  <2>3. code = c
    BY <2>1, <2>2 DEF Responses
  <2>4. QED
    BY <1>3, <1>7, <1>8, <2>3
<1>9. CASE client.cmd = "read"
  <2>1. server.pc \in {"lock", "stream", "done"} /\ client.pc \in {"answer", "stream"}
    BY <1>1, <1>4, <1>5, <1>9 DEF HandlerSends, ClientAsks, Does
  <2> PICK k \in 0 .. Len(down.sent) :
        /\ Len(server.streamed) = k
        /\ Len(down.sent) = IF server.ended \/ server.failed THEN k + 2 ELSE k + 1
        /\ IsResponse(down.sent[1])
        /\ Carries(down.sent, server.streamed)
        /\ Len(down.sent) > 1 => down.sent[1] = Response(OK_START_STREAM)
    BY <1>3, <1>4, <1>5, <1>9 DEF SsSends, ReadSends
  <2>2. CASE client.pc = "answer"
    <3> PICK code \in Responses : code # OK_START_STREAM
      BY <1>9, <2>2
    <3>1. down.sent[1] # Response(OK_START_STREAM)
      BY <1>8, <2>2, CodesDiffer
    <3>2. Len(down.sent) = 1 /\ server.pc = "done"
      BY <1>1, <1>3, <2>1, <3>1 DEF HandlerSends
    <3>3. ~ Down!Sending
      BY <1>3, <1>7, <2>2, <3>2
    <3>4. QED
      BY <3>2, <3>3 DEF ComesLittle, ToSend
  <2>3. CASE client.pc = "stream"
    <3>1. Streamed(Received) <= 0 /\ n > 1
      BY <1>1, <2>3 DEF ClientAsks, Asked
    <3>2. n \notin 2 .. k + 1
      <4>1. \A j \in 2 .. k + 1 : IsChunk(down.sent[j])
        BY CarriesChunks
      <4>2. \A item : IsChunk(item) => Streamed(item) \in {1, 2}
        BY LineIsTwoBytes, ChunksTyped DEF IsChunk
      <4>3. QED
        BY <1>3, <3>1, <4>1, <4>2
    <3>3. n = k + 2 /\ n = Len(down.sent) /\ (server.ended \/ server.failed)
      BY <1>3, <3>1, <3>2
    <3>4. server.pc = "done"
      BY <1>1, <2>1, <3>3 DEF HandlerSends
    <3>5. QED
      BY <1>3, <3>3, <3>4 DEF ComesLittle, ToSend
  <2>4. QED
    BY <2>1, <2>2, <2>3
<1>10. CASE client.cmd = "write"
  <2>1. server.pc \in {"write", "written", "done"} /\ client.pc \in {"answer", "lines", "final"}
    BY <1>1, <1>4, <1>5, <1>10 DEF HandlerSends, ClientAsks, Does
  <2>2. \A j \in 1 .. Len(down.sent) : IsResponse(down.sent[j])
    BY <1>4, <1>5, <1>10 DEF SsSends
  <2>3. Last(down.sent).kind = "bare"
    BY <1>6, <2>2, ItemShapes DEF IsResponse
  <2>4. CASE server.pc = "done"
    BY <2>3, <2>4 DEF ComesLittle, ToSend
  <2>5. CASE server.pc \in {"write", "written"}
    <3>1. down.sent = << Response(OK_START_STREAM) >>
      BY <1>1, <2>5 DEF HandlerSends
    <3>2. Len(down.sent) = 1 /\ down.sent[1] = Response(OK_START_STREAM)
      BY <3>1
    <3>3. n = Len(down.sent)
      BY <1>3, <3>2
    <3>4. QED
      BY <1>3, <2>5, <3>3 DEF ComesLittle, ToSend
  <2>6. QED
    BY <2>1, <2>4, <2>5
<1>11. CASE client.cmd = "get"
  <2>1. client.pc = "response" /\ n = 2
    BY <1>1, <1>2, <1>11 DEF ClientAsks, Does
  <2>2. down.sent \in {<< Response(INTERNAL_ERROR) >>, << Stat >>, << Stat, Response(OK) >>}
    BY <1>3, <1>4, <1>5, <1>11 DEF SsSends
  <2>3. \A x, y : Len(<< x >>) = 1 /\ Len(<< x, y >>) = 2
    OBVIOUS
  <2>4. Len(down.sent) = 2
    BY <1>3, <2>1, <2>2, <2>3
  <2>5. server.pc = "done"
    <3>1. server.op = "get"
      BY <1>4, <1>11
    <3>2. server.pc \in {"stat", "done"}
      BY <1>1, <1>5, <3>1 DEF HandlerSends
    <3>3. server.pc = "stat" => down.sent = << Stat >>
      BY <1>1 DEF HandlerSends
    <3>4. down.sent # << Stat >>
      <4>1. Len(<< Stat >>) = 1
        BY <2>3, Zenon
      <4>2. 1 # 2
        OBVIOUS
      <4>3. QED
        BY <2>4, <4>1, <4>2, Zenon
    <3>5. QED
      BY <3>2, <3>3, <3>4
  <2>6. QED
    BY <1>3, <2>1, <2>4, <2>5 DEF ComesLittle, ToSend
<1>12. CASE client.cmd = "list"
  <2>1. server.pc \in {"rows", "done"} /\ client.pc \in {"answer", "rows"}
    BY <1>1, <1>4, <1>5, <1>12 DEF HandlerSends, ClientAsks, Does
  <2>2. \A j \in 1 .. Len(down.sent) : IsResponse(down.sent[j]) \/ down.sent[j] = Rows
    BY <1>4, <1>5, <1>12 DEF SsSends
  <2>3. Last(down.sent).kind = "bare"
    BY <1>6, <2>2, ItemShapes DEF IsResponse
  <2>4. CASE server.pc = "done"
    BY <2>3, <2>4 DEF ComesLittle, ToSend
  <2>5. CASE server.pc = "rows"
    <3>1. Len(down.sent) = 1
      BY <1>1, <2>5 DEF HandlerSends
    <3>2. n = Len(down.sent)
      BY <1>3, <3>1
    <3>3. QED
      BY <1>3, <2>5, <3>2 DEF ComesLittle, ToSend
  <2>6. QED
    BY <2>1, <2>4, <2>5
<1>13. QED
  BY <1>4, <1>9, <1>10, <1>11, <1>12

-----------------------------------------------------------------------------
(* What was sent before is no better known by what comes later.            *)
LEMMA AstrayStays ==
    ASSUME Held, Next, ~ Connects
    PROVE  /\ Whole(up)' => Whole(up)
           /\ Whole(down)' => Whole(down)
<1>1. CASE HandlerActs /\ ServerEffect
  BY <1>1 DEF ServerEffect, AskedFor, Advances, Passed, Closed, Started, ReceiverAsWas, Whole
<1>2. CASE ClientActs /\ ClientEffect
  BY <1>2 DEF ClientEffect, AskedFor, Advances, Passed, Closed, Started, ReceiverAsWas, Whole
<1>3. CASE ComesToNothing
  BY <1>3, NothingMeans DEF Closed, ReceiverAsWas, Whole
<1>4. QED
  BY <1>1, <1>2, <1>3, StepKinds

(* The steps with which a client comes to its prompt.                      *)
CommandEnds ==
    \/ Answered \/ AnsweredBySs \/ ShowEof \/ ReadBreaksOff \/ Written \/ ShowInfo \/ ShowRows
    \/ StopTyping \/ ClientReset
    \/ ComesToNothing /\ client.pc = "address"

LEMMA RestBegins ==
    ASSUME Held, Next, ~ AtRest, AtRest'
    PROVE  CommandEnds /\ Busy /\ client'.pc = "prompt" /\ server' = server /\ down' = down
<1>1. client \in ClientRecord /\ ClientAsks
  BY HeldParts
<1>2. CASE HandlerActs /\ ServerEffect
  BY <1>2 DEF ServerEffect, AtRest
<1>3. CASE Connects
  BY <1>3, ConnectsMeans DEF AtRest
<1>4. CASE ComesToNothing
  BY <1>4, NothingMeans DEF AtRest, CommandEnds, Busy
<1>5. CASE ClientActs /\ ClientEffect
  <2>1. server' = server
    BY <1>5 DEF ClientEffect
  <2>2. CASE SendRequest \/ AwaitAnswer \/ Redirected \/ ShowChunk \/ SendEnd \/ AwaitFinal
             \/ AwaitResponse \/ SendLine
    BY <1>1, <2>2 DEF SendRequest, AwaitAnswer, Redirected, ShowChunk, SendEnd, AwaitFinal,
                      AwaitResponse, SendLine, ClientAt, ClientRecord, Go, AtRest
  <2>3. CASE ClientRecv \/ ClientSend
    BY <1>1, <2>3 DEF ClientRecv, ClientSend, ClientRecord, AtRest, Busy
  <2>4. CASE ClientSigpipe \/ Gone
    BY <1>1, <2>4 DEF ClientSigpipe, Gone, Leave, ClientRecord, AtRest, Busy
  <2>5. CASE Answered \/ ShowEof \/ ReadBreaksOff \/ Written \/ StopTyping \/ ClientReset \/ ShowRows
    BY <1>1, <2>1, <2>5 DEF Answered, ShowEof, ReadBreaksOff, Written, StopTyping, ClientReset,
          ShowRows, ClientAt, ClientRecord, Return, CloseAndReturn, CommandEnds, Busy
  <2>6. CASE ShowInfo
    BY <1>1, <2>1, <2>6 DEF ShowInfo, ClientAt, ClientRecord, CloseAndReturn, Leave, CommandEnds,
          Busy, AtRest
  <2>7. CASE AnsweredBySs
    <3>1. client.pc = "answer"
      BY <2>7 DEF AnsweredBySs, ClientAt
    <3>2. down' = down /\ client'.pc = "prompt"
      <4>1. client'.pc \in {"prompt", "gone"}
        BY DEF AtRest
      <4>2. PICK code \in Responses :
              CASE client.cmd = "read" /\ code = OK_START_STREAM -> Go("stream")
                [] client.cmd = "write" /\ code = OK_START_STREAM ->
                      client' = [client EXCEPT !.pc = "lines", !.response = code]
                [] client.cmd = "list" /\ code = OK -> Go("rows")
                [] client.cmd = "list" /\ code # OK -> CloseAndReturn /\ UNCHANGED down
                [] OTHER -> Return /\ UNCHANGED down
        BY <2>7 DEF AnsweredBySs
      <4>3. QED
        BY <1>1, <4>1, <4>2 DEF Go, CloseAndReturn, Return, ClientRecord
    <3>3. QED
      BY <2>1, <2>7, <3>1, <3>2 DEF CommandEnds, Busy
  <2>8. QED
    BY <1>5, <2>2, <2>3, <2>4, <2>5, <2>6, <2>7 DEF ClientActs
<1>6. QED
  BY <1>2, <1>3, <1>4, <1>5, StepKinds

LEMMA LittleAtTheEnd ==
    ASSUME Held, Next, ~ AtRest, AtRest', Whole(up), Whole(down), ~ Redirecting', down.open
    PROVE  ComesLittle
<1>1. /\ CommandEnds /\ Busy /\ client'.pc = "prompt" /\ server' = server /\ down' = down
  BY RestBegins
<1>2. /\ AgreeOnWhatComes /\ AfterMix /\ HandlerSends /\ OneConnection /\ Sound(down)
      /\ client \in ClientRecord /\ ClientAsks
  BY HeldParts
<1>3. CASE "mixed" \in down.astray
  <2>1. CASE server.op # "list"
    <3>1. server.pc = "done" /\ ~ Down!Sending
      BY <1>2, <1>3, <2>1 DEF AgreeOnWhatComes, AfterMix, HandlerSends
    <3>2. QED
      BY <3>1 DEF ComesLittle, ToSend
  <2>2. CASE server.op = "list"
    <3>1. server.who = "ss" /\ Len(down.sent) > 1 /\ server.pc \in ServerPcs
      BY <1>2, <1>3, <2>2, HeldParts DEF AgreeOnWhatComes, AfterMix, ServerRecord
    <3>2. down.sent # <<>>
      BY <3>1, EmptySeq
    <3>3. server.pc = "done"
      BY <1>2, <2>2, <3>1, ListedIsDone
    <3>4. IsResponse(Last(down.sent)) \/ Last(down.sent) = Rows
      BY <1>2, <2>2, <3>1, <3>2, LastSent DEF HandlerSends, SsSends
    <3>5. QED
      BY <3>3, <3>4, ItemShapes DEF ComesLittle, ToSend, IsResponse
  <2>3. QED
    BY <2>1, <2>2
<1>4. CASE "mixed" \notin down.astray
  <2>1. down.astray = {} /\ ~ down.eof
    BY <1>2, <1>4 DEF Whole, Sound
  <2>2. CASE Answered
    <3>1. /\ client.pc = "answer" /\ client.peer = "nm" /\ down.pc = "idle"
          /\ Responses # {REDIRECT} \/ client.cmd \in {"create", "delete", "copy"}
      BY <2>2 DEF Answered, ClientAt
    <3>2. client.cmd \notin {"get", "list"}
      <4>1. ASSUME client.cmd \in {"get", "list"}
            PROVE  up' = up
        BY <2>2, <4>1 DEF Answered, Return
      <4>2. ASSUME client.cmd \in {"get", "list"}
            PROVE  server.op = "get" /\ server.who = "nm" /\ up.open
        <5>1. down.got # <<>>
          BY <1>2, <3>1, HasReceived
        <5>2. down.sent # <<>>
          BY <1>2, <2>1, <5>1, GotIsSent DEF Sound
        <5>3. QED
          BY <1>1, <3>1, <4>2, <5>2, HandlerOfRequest DEF Asking
      <4>3. QED
        BY <1>1, <4>1, <4>2 DEF Redirecting
    <3>3. QED
      BY <2>1, <3>1, <3>2, NmSaysNoMore
  <2>3. CASE ComesToNothing /\ client.pc = "address"
    <3>1. client.peer = "nm" /\ down.pc = "idle"
      BY <2>3, NothingMeans
    <3>2. QED
      BY <2>1, <2>3, <3>1, NmSaysNoMore
  <2>4. CASE AnsweredBySs
    <3>1. client.pc = "answer" /\ client.peer = "ss" /\ down.pc = "idle"
      BY <2>4 DEF AnsweredBySs, ClientAt
    <3>2. PICK code \in Responses :
              CASE client.cmd = "read" /\ code = OK_START_STREAM -> Go("stream")
                [] client.cmd = "write" /\ code = OK_START_STREAM ->
                      client' = [client EXCEPT !.pc = "lines", !.response = code]
                [] client.cmd = "list" /\ code = OK -> Go("rows")
                [] client.cmd = "list" /\ code # OK -> CloseAndReturn
                [] OTHER -> Return
      BY <2>4 DEF AnsweredBySs
    <3>3. /\ client.cmd \in {"read", "write"} => code # OK_START_STREAM
          /\ client.cmd = "list" => code # OK
      BY <1>1, <1>2, <3>2 DEF Go, ClientRecord
    <3>4. QED
      BY <2>1, <3>1, <3>3, SsSaysNoMore
  <2>5. CASE ShowEof \/ ReadBreaksOff
    <3>1. client.pc = "stream" /\ down.pc = "idle" /\ client.peer = "ss"
      BY <1>2, <2>5 DEF ShowEof, ReadBreaksOff, ClientAt, ClientAsks, Does
    <3>2. Received \in ItemRecord
      BY <1>2, <2>1, <3>1, HasReceived, LastIsSent
    <3>3. Streamed(Received) <= 0
      <4>1. ShowEof => Streamed(Received) = 0
        BY DEF ShowEof
      <4>2. ReadBreaksOff => Streamed(Received) < 0
        BY DEF ReadBreaksOff
      <4>3. Streamed(Received) = 0 => Streamed(Received) <= 0
        OBVIOUS
      <4>4. Streamed(Received) \in Int
        <5>1. Received.kind = "message"
          BY <1>2, <3>1 DEF ClientAsks
        <5>2. down.got # <<>> /\ Len(down.got) \in Nat
          BY <1>2, <3>1, HasReceived
        <5>3. \E n \in Nat : n \in 1 .. Len(down.sent) /\ Received = down.sent[n]
          BY <2>1, <5>2, GotIsSent
        <5> PICK n \in Nat : n \in 1 .. Len(down.sent) /\ Received = down.sent[n]
          BY <5>3
        <5>4. server.who = "ss"
          BY <1>2, <3>1 DEF OneConnection
        <5>5. QED
          BY <5>1, <5>3, <5>4, SsMessages
      <4>5. Streamed(Received) < 0 => Streamed(Received) <= 0
        BY <4>4
      <4>6. QED
        BY <2>5, <4>1, <4>2, <4>3, <4>5
    <3>4. QED
      BY <2>1, <3>1, <3>3, SsSaysNoMore
  <2>6. CASE Written \/ ShowInfo \/ ShowRows \/ StopTyping
    <3>1. client.pc \in {"final", "response", "rows", "lines"} /\ down.pc = "idle"
      BY <2>6 DEF Written, ShowInfo, ShowRows, StopTyping, ClientAt
    <3>2. client.peer = "ss"
      BY <1>2, <3>1 DEF ClientAsks, Does
    <3>3. QED
      BY <2>1, <3>1, <3>2, SsSaysNoMore
  <2>7. CASE ClientReset
    BY <1>2, <2>7 DEF ClientReset, OneConnection
  <2>8. QED
    BY <1>1, <2>2, <2>3, <2>4, <2>5, <2>6, <2>7 DEF CommandEnds
<1>5. QED
  BY <1>3, <1>4

(* A handler that has one block to send, or none.                          *)
LEMMA LastWords ==
    ASSUME Held, HandlerActs, down.open => ToSend < 2,
           server.late => ~ Down!Sending,
           down.open => /\ Down!Sending => ToSend = 0 /\ Last(down.sent).kind = "bare"
                        /\ server.late => ToSend = 0
    PROVE  /\ server'.late => ~ Down!Sending'
           /\ down'.open =>
                 /\ ToSend' < 2
                 /\ Down!Sending' => ToSend' = 0 /\ Last(down'.sent).kind = "bare"
                 /\ server'.late => ToSend' = 0
<1>1. server \in ServerRecord /\ DownIs /\ DownProofs!IInv /\ Sound(down)
  BY HeldParts DEF Held, IInv
<1>2. CASE ServerSend
  <2>1. down.open /\ down'.sent = down.sent /\ server'.pc = server.pc /\ Down!Send
    BY <1>1, <1>2 DEF ServerSend, DownIs, Passed, ServerRecord
  <2>2. Down!Sending /\ ToSend = 0 /\ ~ Down!Sending'
    BY <1>1, <2>1, DownSending
  <2>3. ToSend' = 0
    BY <2>1, <2>2 DEF ToSend
  <2>4. QED
    BY <2>2, <2>3
<1>3. CASE ServerRecv \/ ServerSigpipe \/ \E who \in alive : Crash(who)
  <2>1. server' = server /\ (down' = down \/ Down!Close)
    BY <1>3 DEF ServerRecv, ServerSigpipe, Crash
  <2>2. /\ (Down!Sending' <=> Down!Sending) /\ (down'.open => down.open)
        /\ down'.sent = down.sent
    BY <1>1, <2>1, DownSending DEF DownIs, Closed
  <2>3. ToSend' = ToSend
    BY <2>1 DEF ToSend
  <2>4. QED
    BY <2>1, <2>2, <2>3
<1>4. CASE ReceiveRequest \/ Dispatch \/ SsOpens \/ SsWritesNothing
  <2>1. /\ down' = down /\ server'.late = server.late
        /\ server.pc \in {"accept", "request", "serve", "lock"}
    BY <1>1, <1>4 DEF ReceiveRequest, Dispatch, SsOpens, SsWritesNothing, Serving, ServerAt, ServerGo,
                      ServerRecord
  <2>2. ~ down.open
    BY <2>1 DEF ToSend
  <2>3. Down!Sending' <=> Down!Sending
    BY <1>1, <2>1, DownSending
  <2>4. QED
    BY <2>1, <2>2, <2>3
<1>5. CASE SsAwaitsChunk \/ (SsWritesChunk /\ down' = down)
  <2>1. /\ down' = down /\ server'.late = server.late /\ server.pc \in {"write", "written"}
        /\ server'.pc \in {"write", "written", "done"} /\ ~ Down!Sending
    BY <1>1, <1>5 DEF SsAwaitsChunk, SsWritesChunk, Reply, ServerAt, ServerGo, ServerRecord
  <2>2. ~ Down!Sending'
    BY <1>1, <2>1, DownSending
  <2>3. down.open => ~ server.late /\ ToSend' < 2
    BY <2>1 DEF ToSend
  <2>4. QED
    BY <2>1, <2>2, <2>3
<1>6. CASE SsEndsWrite \/ SsSendsRows \/ (SsWritesChunk /\ down' # down)
  <2>1. /\ server'.late = server.late /\ server.pc \in {"rows", "written"}
        /\ server'.pc = "done" /\ ~ Down!Sending
        /\ Down!Start(Rows) \/ \E code : Down!Start(Response(code))
    BY <1>1, <1>6 DEF SsEndsWrite, SsSendsRows, SsWritesChunk, Reply, ServerAt, ServerGo, ServerRecord
  <2> PICK item : Down!Start(item) /\ item.kind = "bare"
    BY <2>1, ItemShapes
  <2>2. down.open /\ down'.sent = Append(down.sent, item)
    BY <1>1 DEF DownIs, Started
  <2>3. ~ server.late
    BY <2>1, <2>2 DEF ToSend
  <2>4. Last(down'.sent) = item
    BY <1>1, <2>2 DEF Last, Sound
  <2>5. ToSend' = 0
    BY <2>1 DEF ToSend
  <2>6. QED
    BY <2>1, <2>3, <2>4, <2>5
<1>7. CASE Invalid \/ NmAnswers \/ NmRedirects \/ NmNotFound \/ NmSendsAddress \/ SsAnswers
           \/ SsReads \/ SsFailsToOpen \/ SsSendsChunk
  <2>1. \E item : Down!Start(item)
    BY <1>7 DEF Invalid, NmAnswers, NmRedirects, NmNotFound, NmSendsAddress, SsAnswers, SsReads,
                SsFailsToOpen, SsSendsChunk, Reply
  <2>2. server.pc \in {"serve", "redirect", "address", "lock", "stream"}
    BY <1>7 DEF Invalid, NmAnswers, NmRedirects, NmNotFound, NmSendsAddress, SsAnswers, SsReads,
                SsFailsToOpen, SsSendsChunk, Serving, ServerAt
  <2>3. QED
    BY <1>1, <2>1, <2>2 DEF DownIs, Started, ToSend
<1>8. CASE SsEndsStream \/ SsWrites \/ SsSendsStat \/ SsConfirmsStat \/ SsFailsToStat \/ SsLists
  <2>1. \E item : Down!Start(item)
    BY <1>8 DEF SsEndsStream, SsWrites, SsSendsStat, SsConfirmsStat, SsFailsToStat, SsLists, Reply
  <2>2. server.pc \in {"serve", "stream", "stat"}
    BY <1>8 DEF SsEndsStream, SsWrites, SsSendsStat, SsConfirmsStat, SsFailsToStat, SsLists,
                Serving, ServerAt
  <2>3. QED
    BY <1>1, <2>1, <2>2 DEF DownIs, Started, ToSend
<1>9. QED
  BY <1>2, <1>3, <1>4, <1>5, <1>6, <1>7, <1>8 DEF HandlerActs, ServerStep

(* A send to a client that has gone. *)
LEMMA LateMeansGone ==
    ASSUME Held, Next, server'.late
    PROVE  ~ up'.open
<1>1. NothingToCome /\ server \in ServerRecord
  BY HeldParts
<1>2. CASE Connects
  <2>1. \A who : Handler(who).late = FALSE
    BY DEF Handler
  <2>2. QED
    BY <1>2, <2>1, ConnectsMeans
<1>3. CASE ComesToNothing \/ (ClientActs /\ ClientEffect)
  <2>1. server' = server /\ (up'.open => up.open)
    BY <1>3, NothingMeans DEF ClientEffect, Passed, Closed, Started
  <2>2. QED
    BY <1>1, <2>1 DEF NothingToCome
<1>4. CASE HandlerActs /\ ServerEffect
  <2>1. up'.open = up.open
    BY <1>4 DEF ServerEffect, AskedFor, Advances
  <2>2. server'.late = server.late \/ server'.late = ~ up.open
    <3>1. CASE ReceiveRequest \/ Dispatch \/ Invalid \/ NmAnswers \/ NmRedirects \/ NmNotFound
               \/ NmSendsAddress \/ SsAnswers \/ SsReads \/ SsOpens \/ SsFailsToOpen \/ SsSendsChunk
      BY <1>1, <3>1 DEF ReceiveRequest, Dispatch, Invalid, NmAnswers, NmRedirects, NmNotFound,
            NmSendsAddress, SsAnswers, SsReads, SsOpens, SsFailsToOpen, SsSendsChunk, ServerRecord, Reply,
            ServerGo
    <3>2. CASE SsEndsStream \/ SsWrites \/ SsWritesNothing \/ SsAwaitsChunk \/ SsWritesChunk
               \/ SsEndsWrite \/ SsSendsStat \/ SsConfirmsStat \/ SsFailsToStat \/ SsLists
               \/ SsSendsRows
      BY <1>1, <3>2 DEF SsEndsStream, SsWrites, SsWritesNothing, SsAwaitsChunk, SsWritesChunk,
            SsEndsWrite, SsSendsStat, SsConfirmsStat, SsFailsToStat, SsLists, SsSendsRows,
            ServerRecord, Reply, ServerGo
    <3>3. CASE ServerRecv \/ ServerSend \/ ServerSigpipe \/ \E who \in alive : Crash(who)
      BY <1>1, <3>3 DEF ServerRecv, ServerSend, ServerSigpipe, Crash, ServerRecord
    <3>4. QED
      BY <1>4, <3>1, <3>2, <3>3 DEF HandlerActs, ServerStep
  <2>3. QED
    BY <1>1, <2>1, <2>2 DEF NothingToCome
<1>5. QED
  BY <1>2, <1>3, <1>4, StepKinds

LEMMA NothingToComeKept ==
    ASSUME Held, Next
    PROVE  NothingToCome'
<1>1. /\ NothingToCome /\ HandlerSends /\ OneConnection
      /\ client \in ClientRecord /\ server \in ServerRecord
  BY HeldParts
<1>2. server'.late => ~ up'.open
  BY LateMeansGone
<1> SUFFICES ASSUME Whole(up)', Whole(down)', AtRest', ~ Redirecting'
             PROVE  /\ server'.late => ~ Down!Sending'
                    /\ down'.open =>
                          /\ ToSend' < 2
                          /\ Down!Sending' => ToSend' = 0 /\ Last(down'.sent).kind = "bare"
                          /\ server'.late => ToSend' = 0
  BY <1>2, Zenon DEF NothingToCome
<1>3. ~ Connects
  BY ConnectsMeans DEF AtRest
<1>4. Whole(up) /\ Whole(down)
  BY <1>3, AstrayStays
<1>5. CASE ~ AtRest
  <2>1. Busy /\ server' = server /\ down' = down
    BY <1>5, RestBegins
  <2>2. ~ server.late
    BY <1>1, <2>1 DEF NothingToCome, OneConnection
  <2>3. down.open => ComesLittle
    BY <1>4, <1>5, LittleAtTheEnd
  <2>4. ToSend' = ToSend /\ (Down!Sending' <=> Down!Sending)
    BY <2>1 DEF ToSend, Down!Sending, Down!Put, Down!Count
  <2>5. QED
    BY <2>1, <2>2, <2>3, <2>4 DEF ComesLittle
<1>6. CASE AtRest
  <2>1. CASE HandlerActs /\ ServerEffect
    <3>1. ~ Redirecting
      <4>1. client' = client /\ up'.open = up.open /\ server'.who = server.who
        BY <2>1 DEF ServerEffect, AskedFor, Advances
      <4>2. server.op \in {"get", "list"} => server'.op = server.op
        <5>1. server.op \in {"get", "list"} => ~ Dispatch
          BY <1>1 DEF HandlerSends, Dispatch, ServerAt
        <5>2. CASE ~ ServerLooks
          BY <2>1, <5>2, QuietServer
        <5>3. CASE ReceiveRequest \/ SsWrites \/ SsAwaitsChunk \/ SsWritesChunk \/ ServerRecv
          BY <1>1, <5>3 DEF ReceiveRequest, SsWrites, SsAwaitsChunk, SsWritesChunk, ServerRecv,
                            ServerRecord, Reply, ServerGo
        <5>4. QED
          BY <5>1, <5>2, <5>3 DEF ServerLooks
      <4>3. QED
        BY <4>1, <4>2 DEF Redirecting
    <3>2. /\ server.late => ~ Down!Sending
          /\ down.open =>
                /\ ToSend < 2
                /\ Down!Sending => ToSend = 0 /\ Last(down.sent).kind = "bare"
                /\ server.late => ToSend = 0
      BY <1>1, <1>4, <1>6, <3>1, Zenon DEF NothingToCome
    <3>3. QED
      BY <2>1, <3>2, LastWords
  <2>2. CASE ComesToNothing \/ (ClientActs /\ ClientEffect)
    <3>1. server' = server /\ down' = down /\ ~ Redirecting
      <4>1. CASE ComesToNothing
        <5>1. /\ server' = server /\ down' = down /\ client'.pc = "prompt"
              /\ client.pc \in {"prompt", "address"}
              /\ client.pc = "prompt" => up' = up
          BY <4>1, NothingMeans
        <5>2. client.pc = "prompt"
          <6>1. client.pc \in {"prompt", "gone"}
            BY <1>6 DEF AtRest
          <6>2. QED
            BY <5>1, <6>1
        <5>3. up' = up
          BY <5>1, <5>2
        <5>4. Redirecting => Redirecting'
          BY <5>1, <5>2, <5>3 DEF Redirecting
        <5>5. QED
          BY <5>1, <5>4
      <4>2. CASE ClientActs /\ ClientEffect
        <5>1. Gone
          BY <1>6, <4>2
             DEF AtRest, ClientActs, SendRequest, AwaitAnswer, Redirected, Answered, AnsweredBySs,
                 ShowChunk, ShowEof, ReadBreaksOff, SendEnd, AwaitFinal, Written, AwaitResponse,
                 ShowInfo, ShowRows, ClientRecv, ClientSend, SendLine, StopTyping, ClientSigpipe,
                 ClientReset, ClientAt, Busy
        <5>2. server' = server /\ down' = down /\ client'.pc = "gone"
          BY <1>1, <5>1 DEF Gone, Leave, ClientRecord
        <5>3. QED
          BY <5>2 DEF Redirecting
      <4>3. QED
        BY <2>2, <4>1, <4>2
    <3>2. ToSend' = ToSend /\ (Down!Sending' <=> Down!Sending)
      BY <3>1 DEF ToSend, Down!Sending, Down!Put, Down!Count
    <3>3. /\ server.late => ~ Down!Sending
          /\ down.open =>
                /\ ToSend < 2
                /\ Down!Sending => ToSend = 0 /\ Last(down.sent).kind = "bare"
                /\ server.late => ToSend = 0
      BY <1>1, <1>4, <1>6, <3>1, Zenon DEF NothingToCome
    <3>4. QED
      BY <3>1, <3>2, <3>3
  <2>3. QED
    BY <1>3, <2>1, <2>2, StepKinds
<1>7. QED
  BY <1>5, <1>6

-----------------------------------------------------------------------------
(* Types. *)
LEMMA SameRecords ==
    /\ Up!ChannelRecord = UpProofs!ChannelRecord /\ Up!Byte = UpProofs!Byte
    /\ Down!ChannelRecord = DownProofs!ChannelRecord /\ Down!Byte = DownProofs!Byte
<1>1. /\ Up!Byte = Byte /\ UpProofs!Byte = Byte /\ Down!Byte = Byte /\ DownProofs!Byte = Byte
  BY DEF Up!Byte, UpProofs!Byte, Down!Byte, DownProofs!Byte, Byte
<1>2. /\ Up!ItemRecord = ItemRecord /\ UpProofs!ItemRecord = ItemRecord
      /\ Down!ItemRecord = ItemRecord /\ DownProofs!ItemRecord = ItemRecord
  BY <1>1 DEF Up!ItemRecord, UpProofs!ItemRecord, Down!ItemRecord, DownProofs!ItemRecord, ItemRecord
<1>3. /\ Up!Pcs = ReceiverPcs /\ UpProofs!Pcs = ReceiverPcs
      /\ Down!Pcs = ReceiverPcs /\ DownProofs!Pcs = ReceiverPcs
  BY DEF Up!Pcs, UpProofs!Pcs, Down!Pcs, DownProofs!Pcs, ReceiverPcs
<1>4. /\ Up!GotRecord = GotItem /\ UpProofs!GotRecord = GotItem
      /\ Down!GotRecord = GotItem /\ DownProofs!GotRecord = GotItem
  BY <1>2 DEF Up!GotRecord, UpProofs!GotRecord, Down!GotRecord, DownProofs!GotRecord, GotItem
<1>5. Up!ChannelRecord = UpProofs!ChannelRecord
  BY <1>1, <1>2, <1>3, <1>4, Zenon DEF Up!ChannelRecord, UpProofs!ChannelRecord
<1>6. Down!ChannelRecord = DownProofs!ChannelRecord
  BY <1>1, <1>2, <1>3, <1>4, Zenon DEF Down!ChannelRecord, DownProofs!ChannelRecord
<1>7. QED
  BY <1>1, <1>5, <1>6

LEMMA ChannelsTyped ==
    /\ IInv => Up!TypeOK /\ Down!TypeOK
    /\ IInv' => Up!TypeOK' /\ Down!TypeOK'
<1>1. IInv => Up!TypeOK /\ Down!TypeOK
  BY SameRecords, Zenon DEF IInv, UpProofs!IInv, DownProofs!IInv, UpProofs!TypeOK,
     DownProofs!TypeOK, Up!TypeOK, Down!TypeOK
<1>2. IInv' => Up!TypeOK' /\ Down!TypeOK'
  BY SameRecords, Zenon DEF IInv, UpProofs!IInv, DownProofs!IInv, UpProofs!TypeOK,
     DownProofs!TypeOK, Up!TypeOK, Down!TypeOK
<1>3. QED
  BY <1>1, <1>2

(* socket() gives a descriptor. *)
LEMMA SocketsTyped ==
    ASSUME Held, Next
    PROVE  fds' \subseteq 1 .. MaxFd /\ alive' \subseteq {"nm", "ss"}
<1>1. /\ fds \subseteq 1 .. MaxFd /\ alive \subseteq {"nm", "ss"} /\ LowestSocket
  BY HeldParts DEF ProcessesOK, Held, SessionInv, TypeOK
<1>2. CASE Follow
  <2> DEFINE open == fds \ {client.connection_socket}
  <2>1. client.pc = "address" /\ fds' = open \cup {Min(Free(open))} /\ alive' = alive
    BY <1>2, Zenon DEF Follow, ClientAt
  <2>2. client.connection_socket \in (1 .. MaxFd) \cap fds
    BY <1>1, <2>1 DEF LowestSocket, Busy
  <2>3. Free(open) # {}
    BY <2>2 DEF Free
  <2>4. Min(Free(open)) \in 1 .. MaxFd
    BY <2>3, LowestFree
  <2>5. QED
    BY <1>1, <2>1, <2>4
<1>3. ASSUME NEW cmd \in Commands, Command(cmd)
      PROVE  fds' \subseteq 1 .. MaxFd /\ alive' \subseteq {"nm", "ss"}
  <2>1. fds' = fds \/ (Free(fds) # {} /\ fds' = fds \cup {Min(Free(fds))})
    BY <1>3, Zenon DEF Command
  <2>2. Free(fds) # {} => Min(Free(fds)) \in 1 .. MaxFd
    BY LowestFree
  <2>3. alive' = alive
    BY <1>3 DEF Command
  <2>4. QED
    BY <1>1, <2>1, <2>2, <2>3
<1>4. CASE HandlerActs
  <2>1. fds' = fds
    BY <1>4, StepKinds, HeldParts, ServerEffects DEF ServerEffect
  <2>2. alive' \subseteq alive
    BY <1>4 DEF HandlerActs, ServerStep, ReceiveRequest, Dispatch, Invalid, NmAnswers, NmRedirects,
           NmNotFound, NmSendsAddress, SsAnswers, SsReads, SsOpens, SsFailsToOpen, SsSendsChunk,
           SsEndsStream, SsWrites, SsWritesNothing, SsAwaitsChunk, SsWritesChunk, SsEndsWrite, SsSendsStat,
           SsConfirmsStat, SsFailsToStat, SsLists, SsSendsRows, ServerRecv, ServerSend,
           ServerSigpipe, Crash
  <2>3. QED
    BY <1>1, <2>1, <2>2
<1>5. CASE ClientActs
  <2>1. fds' \subseteq fds /\ alive' = alive
    <3>1. CASE SendRequest \/ AwaitAnswer \/ Redirected \/ Answered \/ ShowChunk \/ ShowEof
               \/ ReadBreaksOff \/ SendEnd \/ AwaitFinal \/ Written \/ AwaitResponse
      BY <3>1 DEF SendRequest, AwaitAnswer, Redirected, Answered, ShowChunk, ShowEof,
            ReadBreaksOff, SendEnd, AwaitFinal, Written, AwaitResponse, Return, CloseAndReturn
    <3>2. CASE ShowInfo \/ ShowRows \/ ClientRecv \/ ClientSend \/ SendLine \/ StopTyping
               \/ ClientSigpipe \/ ClientReset \/ Gone
      BY <3>2 DEF ShowInfo, ShowRows, ClientRecv, ClientSend, SendLine, StopTyping, ClientSigpipe,
            ClientReset, Gone, Return, CloseAndReturn, Leave
    <3>3. CASE AnsweredBySs
      BY <3>3 DEF AnsweredBySs, Return, CloseAndReturn
    <3>4. QED
      BY <1>5, <3>1, <3>2, <3>3 DEF ClientActs
  <2>2. QED
    BY <1>1, <2>1
<1>6. QED
  BY <1>2, <1>3, <1>4, <1>5 DEF Next, ClientStep, ClientActs, HandlerActs

LEMMA ProcessesTyped ==
    ASSUME Held, Next
    PROVE  client' \in ClientRecord /\ Counted' /\ server' \in ServerRecord
<1>1. /\ ClientOK /\ server \in ServerRecord /\ Sound(up) /\ Sound(down) /\ HandlerAsks
      /\ ClientAsks /\ LowestSocket
  BY HeldParts DEF ClientOK, ProcessesOK
<1>2. ClientOK'
  <2>1. CASE ClientStep
    BY <1>1, <2>1, ClientStepTyped
  <2>2. CASE SendLine \/ StopTyping \/ ClientSigpipe \/ ClientReset \/ Gone
    BY <1>1, <2>2, OtherClientTyped
  <2>3. CASE \E cmd \in Commands : Command(cmd)
    BY <1>1, <2>3, CommandTyped
  <2>4. CASE HandlerActs
    <3>1. client' = client
      BY <2>4, HeldParts, ServerEffects DEF ServerEffect
    <3>2. QED
      BY <1>1, <3>1 DEF ClientOK, Counted, Busy
  <2>5. QED
    BY <2>1, <2>2, <2>3, <2>4 DEF Next, HandlerActs
<1>3. server' \in ServerRecord
  <2>1. CASE HandlerActs
    BY <1>1, <2>1, ServerStepTyped DEF HandlerActs
  <2>2. CASE ~ HandlerActs
    <3>1. server' = server \/ \E who \in {"nm", "ss"} : server' = Handler(who)
      BY <2>2, StepKinds, ConnectsMeans, NothingMeans DEF ClientEffect
    <3>2. QED
      BY <1>1, <3>1, HandlerTyped
  <2>3. QED
    BY <2>1, <2>2
<1>4. QED
  BY <1>2, <1>3 DEF ClientOK

(* The scripts are kept. *)
LEMMA SessionKept ==
    ASSUME Held, [Next]_vars
    PROVE  Held'
<1>1. IInv'
  BY NextKeeps DEF Held
<1>2. CASE Next
  <2>1. TypeOK'
    <3>1. Up!TypeOK' /\ Down!TypeOK'
      BY <1>1, ChannelsTyped
    <3>2. QED
      BY <1>2, <3>1, SocketsTyped, ProcessesTyped DEF TypeOK
  <2>2. /\ Counted' /\ OneConnection' /\ ClientSends' /\ HandlerAsks' /\ RequestKnown'
        /\ HandlerSends' /\ ClientAsks' /\ AnswersKnown' /\ ShownWell' /\ AllWritten'
    BY <1>2, ProcessesTyped, OneConnectionKept, ClientSendsKept, HandlerAsksKept, RequestKnownKept,
       HandlerSendsKept, ClientAsksKept, AnswersKnownKept, ShownWellKept, AllWrittenKept
  <2>3. /\ EmptyAtEof(up)' /\ EmptyAtEof(down)' /\ AgreeOnWhatComes' /\ AfterMix' /\ NothingToCome'
    BY <1>2, EmptyAtEofAlways, AgreeKept, NothingToComeKept
  <2>4. QED
    BY <1>1, <2>1, <2>2, <2>3 DEF Held, SessionInv
<1>3. CASE UNCHANGED vars
  <2>1. /\ up' = up /\ down' = down /\ client' = client /\ server' = server
        /\ fds' = fds /\ alive' = alive
    BY <1>3 DEF vars
  <2>2. TypeOK'
    <3>1. Up!TypeOK' /\ Down!TypeOK'
      BY <1>1, ChannelsTyped
    <3>2. TypeOK
      BY DEF Held, SessionInv
    <3>3. QED
      BY <2>1, <3>1, <3>2 DEF TypeOK
  <2>3. /\ Counted' /\ OneConnection' /\ ClientSends' /\ HandlerAsks' /\ RequestKnown'
    BY <2>1, HeldParts DEF Counted, OneConnection, ClientSends, HandlerAsks, RequestKnown, Busy, Asking
  <2>4. HandlerSends' /\ ClientAsks'
    BY <2>1, HeldParts
       DEF HandlerSends, NmSends, SsSends, ReadSends, ClientAsks, AsksBlock, Asked, Does, Received
  <2>5. AnswersKnown' /\ ShownWell' /\ AllWritten'
    BY <2>1, HeldParts DEF AnswersKnown, Asked, Does, ShownWell, AllWritten
  <2>6. EmptyAtEof(up)' /\ EmptyAtEof(down)' /\ AgreeOnWhatComes'
    BY <2>1, HeldParts DEF EmptyAtEof, AgreeOnWhatComes, Whole
  <2>7. Down!Sending' <=> Down!Sending
    BY <2>1 DEF Down!Sending, Down!Put, Down!Count
  <2>8. AfterMix' /\ NothingToCome'
    BY <2>1, <2>7, HeldParts DEF AfterMix, NothingToCome, Whole, AtRest, Redirecting, ToSend
  <2>9. QED
    BY <1>1, <2>2, <2>3, <2>4, <2>5, <2>6, <2>8 DEF Held, SessionInv
<1>4. QED
  BY <1>2, <1>3

LEMMA SessionBegins ==
    ASSUME Init
    PROVE  Held
<1>1. IInv
  BY InitHolds
<1>2. /\ up.sent = <<>> /\ up.got = <<>> /\ up.pc = "idle" /\ up.open /\ up.astray = {}
      /\ down.sent = <<>> /\ down.got = <<>> /\ down.pc = "idle" /\ down.astray = {}
      /\ Len(up.got) = 0 /\ Len(down.got) = 0 /\ Len(down.sent) = 0
  BY DEF Init, Up!Init, Up!New, Down!Init, Down!New
<1>3. /\ client.pc = "prompt" /\ client.cmd = "none" /\ client.peer = "nm" /\ client.lines = 0
      /\ client.received = <<>> /\ client.shown = <<>> /\ client.printed = FALSE /\ client.late = FALSE
      /\ client.left = 0 /\ client.count = 0 /\ client.response = Uninitialised
  BY DEF Init, IdleClient
<1>4. /\ server.who = "nm" /\ server.pc = "done" /\ server.op = "none" /\ server.late = FALSE
      /\ server.failed = FALSE /\ server.ended = FALSE
  BY DEF Init, Handler
<1>5. ~ Down!Sending
  BY DEF Init, Down!Init, Down!New, Down!Sending
<1>6. TypeOK
  <2>1. client \in ClientRecord
    <3>1. /\ client = IdleClient /\ Uninitialised \in Byte
          /\ <<>> \in Seq(Byte) /\ <<>> \in Seq(Seq(Byte))
      BY CodesTyped, EmptySeq DEF Init
    <3>2. 0 \in 0 .. MaxFd /\ 0 \in 0 .. MaxChunks /\ 0 \in 0 .. MaxCommands
      BY SessionAssumption
    <3>3. QED
      BY <3>1, <3>2 DEF IdleClient, ClientRecord, ClientPcs, NoFd
  <2>2. server \in ServerRecord
    <3>1. Handler("nm") \in ServerRecord
      BY HandlerTyped
    <3>2. QED
      BY <3>1 DEF Init, ServerRecord, ServerPcs
  <2>3. fds = {} /\ alive = {"nm", "ss"}
    BY DEF Init
  <2>4. QED
    BY <1>1, <2>1, <2>2, <2>3, ChannelsTyped DEF TypeOK
<1>7. Counted /\ OneConnection /\ ClientSends /\ HandlerAsks /\ RequestKnown
  BY <1>2, <1>3, <1>4 DEF Counted, OneConnection, ClientSends, HandlerAsks, RequestKnown, Busy, Asking
<1>8. HandlerSends
  BY <1>2, <1>4 DEF HandlerSends, NmSends
<1>9. ClientAsks
  BY <1>3 DEF ClientAsks
<1>10. AnswersKnown /\ ShownWell
  <2>1. 0 \in 0 .. Len(down.sent) /\ Len(client.received) = 0
    BY <1>2, <1>3
  <2>2. Carries(down.sent, client.received) /\ ~ (0 > 0)
    BY <2>1 DEF Carries
  <2>3. client.pc # "address" /\ client.pc # "stream" /\ client.received = <<>> /\ ~ client.printed
        /\ ~ Does("write")
    BY <1>3 DEF Does
  <2>4. AnswersKnown
    BY <2>1, <2>2, <2>3, Zenon DEF AnswersKnown
  <2>5. ShownWell
    BY <1>3, <2>1 DEF ShownWell
  <2>6. QED
    BY <2>4, <2>5
<1>11. AllWritten /\ EmptyAtEof(up) /\ EmptyAtEof(down)
  BY <1>2, <1>4 DEF AllWritten, EmptyAtEof
<1>12. AgreeOnWhatComes /\ AfterMix
  BY <1>2 DEF AgreeOnWhatComes, AfterMix
<1>13. NothingToCome
  BY <1>4, <1>5 DEF NothingToCome, ToSend
<1>14. QED
  BY <1>1, <1>6, <1>7, <1>8, <1>9, <1>10, <1>11, <1>12, <1>13 DEF Held, SessionInv

-----------------------------------------------------------------------------
(* What follows. *)
LEMMA PrefixByItems ==
    ASSUME NEW S, NEW s \in Seq(S), NEW t \in Seq(S), Len(s) <= Len(t),
           \A i \in 1 .. Len(s) : s[i] = t[i]
    PROVE  IsPrefix(s, t) /\ (Len(s) = Len(t) => s = t)
<1> DEFINE u == SubSeq(s, 1, Len(s))
           v == SubSeq(t, 1, Len(s))
<1>1. Len(s) \in Nat /\ Len(t) \in Nat
  OBVIOUS
<1>2. u = v
  <2>1. CASE Len(s) = 0
    BY <1>1, <2>1, SubSeqEmpty
  <2>2. CASE Len(s) # 0
    <3>1. /\ 1 \in 1 .. Len(s) + 1 /\ Len(s) \in 1 - 1 .. Len(s)
          /\ 1 \in 1 .. Len(t) + 1 /\ Len(s) \in 1 - 1 .. Len(t)
      BY <1>1, <2>2
    <3>2. /\ u \in Seq(S) /\ Len(u) = Len(s) /\ \A i \in 1 .. Len(s) : u[i] = s[i]
          /\ v \in Seq(S) /\ Len(v) = Len(s) /\ \A i \in 1 .. Len(s) : v[i] = t[i]
      BY <1>1, <2>2, <3>1, SubSeqProperties
    <3> HIDE DEF u, v
    <3>3. QED
      BY <3>2, SeqEqual
  <2>3. QED
    BY <2>1, <2>2
<1>3. Len(s) = Len(t) => s = t
  BY SeqEqual
<1>4. QED
  BY <1>2, <1>3 DEF IsPrefix

LEMMA HeldShowsAll ==
    ASSUME Held
    PROVE  EofMeansAll
<1> SUFFICES ASSUME server.op = "read", server.who = "ss", down.astray = {}
             PROVE  /\ IsPrefix(client.received, server.streamed)
                    /\ client.printed /\ ~ down.eof =>
                          client.received = server.streamed /\ server.ended
  BY HeldParts DEF EofMeansAll, ShownWell
<1>1. /\ AnswersKnown /\ HandlerSends /\ Sound(down)
      /\ client \in ClientRecord /\ server \in ServerRecord
  BY HeldParts
<1>2. client.received \in Seq(Seq(Byte)) /\ server.streamed \in Seq(Seq(Byte))
  BY <1>1 DEF ClientRecord, ServerRecord
<1> PICK j \in 0 .. Len(down.sent) :
        /\ Len(client.received) = j
        /\ j > 0 => j + 1 <= Len(down.sent)
        /\ Carries(down.sent, client.received)
        /\ client.printed /\ ~ down.eof =>
              j + 2 <= Len(down.sent) /\ down.sent[j + 2] = StreamEnd
  BY <1>1 DEF AnswersKnown
<1>3. Len(down.sent) \in Nat /\ j \in Nat /\ (down.sent = <<>> => Len(down.sent) = 0)
  BY <1>1 DEF Sound
<1>4. CASE down.sent = <<>>
  <2>1. Len(down.sent) = 0 /\ Len(client.received) = 0
    BY <1>3, <1>4
  <2>2. ~ (client.printed /\ ~ down.eof)
    BY <1>3, <2>1
  <2>3. Len(client.received) <= Len(server.streamed)
        /\ \A i \in 1 .. Len(client.received) : client.received[i] = server.streamed[i]
    BY <1>2, <2>1
  <2>4. QED
    BY <1>2, <2>2, <2>3, PrefixByItems
<1>5. CASE down.sent # <<>>
  <2> PICK k \in 0 .. Len(down.sent) :
        /\ Len(server.streamed) = k
        /\ Len(down.sent) = IF server.ended \/ server.failed THEN k + 2 ELSE k + 1
        /\ Carries(down.sent, server.streamed)
        /\ server.ended => ~ server.failed /\ down.sent[k + 2] = StreamEnd
        /\ server.failed => down.sent[k + 2] = Response(INTERNAL_ERROR)
    BY <1>1, <1>5 DEF HandlerSends, SsSends, ReadSends
  <2>1. /\ \A i \in 2 .. j + 1 : IsChunk(down.sent[i])
        /\ \A i \in 2 .. k + 1 : IsChunk(down.sent[i])
    BY <1>3, CarriesChunks
  <2>2. ~ IsChunk(StreamEnd) /\ ~ IsChunk(Response(INTERNAL_ERROR))
        /\ Response(INTERNAL_ERROR) # StreamEnd
    BY ChunksDiffer, CodesDiffer DEF IsChunk
  <2>3. Len(down.sent) = k + 2 => ~ IsChunk(down.sent[k + 2])
    BY <1>3, <2>2
  <2>4. j <= k
    <3> SUFFICES ASSUME j > k PROVE FALSE
      BY <1>3
    <3>1. j + 1 <= Len(down.sent) /\ Len(down.sent) <= k + 2
      BY <1>3
    <3>2. j = k + 1 /\ Len(down.sent) = k + 2 /\ k + 2 \in 2 .. j + 1
      BY <1>3, <3>1
    <3>3. QED
      BY <2>1, <2>3, <3>2
  <2>5. ASSUME NEW i \in 1 .. Len(client.received)
        PROVE  client.received[i] = server.streamed[i]
    <3>1. i \in 1 .. Len(server.streamed)
      BY <1>3, <2>4
    <3>2. /\ client.received[i] \in Chunks /\ server.streamed[i] \in Chunks
          /\ Stream(client.received[i]) = Stream(server.streamed[i])
      BY <3>1 DEF Carries
    <3>3. QED
      BY <3>2, ChunksDiffer
  <2>6. IsPrefix(client.received, server.streamed)
        /\ (j = k => client.received = server.streamed)
    BY <1>2, <2>4, <2>5, PrefixByItems
  <2>7. ASSUME client.printed, ~ down.eof
        PROVE  j = k /\ server.ended
    <3>1. j + 2 <= Len(down.sent) /\ down.sent[j + 2] = StreamEnd
      BY <2>7
    <3>2. j + 2 \notin 2 .. k + 1
      BY <2>1, <2>2, <3>1
    <3>3. j = k /\ Len(down.sent) = k + 2 /\ (server.ended \/ server.failed)
      BY <1>3, <2>4, <3>1, <3>2
    <3>4. ~ server.failed
      BY <2>2, <3>1, <3>3
    <3>5. QED
      BY <3>3, <3>4
  <2>8. QED
    BY <2>6, <2>7
<1>6. QED
  BY <1>4, <1>5

LEMMA HeldWritesAll ==
    ASSUME Held
    PROVE  OkMeansWritten
<1> SUFFICES ASSUME client.cmd = "write", client.peer = "ss", client.pc = "prompt",
                    up.astray = {}, down.astray = {}, client.response = OK
             PROVE  client.lines > 0 /\ Len(server.streamed) = client.lines
  BY DEF OkMeansWritten
<1>1. /\ AnswersKnown /\ OneConnection /\ RequestKnown /\ HandlerSends /\ AllWritten /\ ClientSends
      /\ client \in ClientRecord
  BY HeldParts
<1>2. Len(down.sent) > 1 /\ down.sent[2] = Response(OK) /\ server.who = "ss" /\ up.open
  BY <1>1 DEF AnswersKnown, OneConnection, Does
<1>3. server.op = "write"
  <2>1. Len(<<>>) = 0
    OBVIOUS
  <2>2. server.pc \notin {"accept", "request"}
    BY <1>1, <1>2, <2>1 DEF HandlerSends
  <2>3. QED
    BY <1>1, <1>2, <2>2 DEF RequestKnown, Asking
<1> PICK m \in 1 .. Len(up.sent) :
        /\ Len(server.streamed) = m
        /\ m + 2 <= Len(up.sent) /\ up.sent[m + 2] = StreamEnd
  BY <1>1, <1>2, <1>3 DEF AllWritten
<1>4. Len(up.sent) \in Nat /\ up.sent # <<>> /\ client.lines \in Nat /\ m \in Nat \ {0}
  <2>1. Len(<<>>) = 0
    OBVIOUS
  <2>2. Len(up.sent) \in Nat
    BY SentIsTyped
  <2>3. QED
    BY <1>1, <2>1, <2>2 DEF ClientRecord
<1>5. /\ Len(up.sent) \in {client.lines + 1, client.lines + 2}
      /\ \A i \in 2 .. client.lines + 1 : up.sent[i] = Stream(Line)
  BY <1>1, <1>4 DEF ClientSends
<1>6. StreamEnd # Stream(Line)
  BY LineIsTwoBytes
<1>7. m + 2 \notin 2 .. client.lines + 1
  BY <1>5, <1>6
<1>8. m = client.lines
  BY <1>4, <1>5, <1>7
<1>9. QED
  BY <1>4, <1>8

LEMMA HeldOutlives ==
    ASSUME Held
    PROVE  ServersOutliveClients
<1> SUFFICES ASSUME server.late, Down!Sending, Whole(down), Whole(up)
             PROVE  /\ client.pc = "gone"
                    /\ \/ client.quit # "prompt"
                       \/ server.who = "nm" /\ server.op \in {"get", "list"}
  BY DEF ServersOutliveClients
<1>1. NothingToCome /\ OneConnection
  BY HeldParts
<1>2. ~ up.open /\ ~ Busy
  BY <1>1 DEF NothingToCome, OneConnection
<1>3. ~ (AtRest /\ ~ Redirecting)
  BY <1>1 DEF NothingToCome
<1>4. QED
  BY <1>2, <1>3 DEF Busy, AtRest, Redirecting
-----------------------------------------------------------------------------
(* Client and handler keep to their scripts, and what each knows of the    *)
(* other is true, in every state of every command, with any number of      *)
(* chunks, lines, commands and descriptors.                                *)
THEOREM SessionInductive == Spec => []SessionInv
<1>1. Init => Held
  BY SessionBegins
<1>2. Held /\ [Next]_vars => Held'
  BY SessionKept
<1>3. Held => SessionInv
  BY DEF Held
<1>4. QED
  BY <1>1, <1>2, <1>3, PTL DEF Spec

(* The two processes, the connection and the descriptors are well typed.   *)
THEOREM SessionTypeCorrect == Spec => []TypeOK
<1>1. SessionInv => TypeOK
  BY DEF SessionInv
<1>2. QED
  BY <1>1, SessionInductive, PTL

(* Client and server agree on what comes next in every command, and on how *)
(* long it is, but for the errors of the storage server in a READ or a GET *)
(* (a response where the client expects a stream or a stat) and for the    *)
(* rows of a LIST, of which the client wants more than are sent.           *)
THEOREM AlwaysAgree == Spec => []AgreeOnWhatComes
<1>1. SessionInv => AgreeOnWhatComes
  BY DEF SessionInv
<1>2. QED
  BY <1>1, SessionInductive, PTL

(* The chunks that a READ receives are the first of those that were sent,  *)
(* its EOF means that these were all, unless the connection was cut, and a *)
(* single chunk that does not fill the buffer and has no NUL is shown as   *)
(* it is.  Of other chunks nothing is said: "%s" shows less or more.       *)
THEOREM EofAlwaysMeansAll == Spec => []EofMeansAll
<1>1. Init => Held
  BY SessionBegins
<1>2. Held /\ [Next]_vars => Held'
  BY SessionKept
<1>3. Held => EofMeansAll
  BY HeldShowsAll
<1>4. QED
  BY <1>1, <1>2, <1>3, PTL DEF Spec

(* A WRITE that was told OK has had all its lines written.                 *)
THEOREM OkAlwaysMeansWritten == Spec => []OkMeansWritten
<1>1. Init => Held
  BY SessionBegins
<1>2. Held /\ [Next]_vars => Held'
  BY SessionKept
<1>3. Held => OkMeansWritten
  BY HeldWritesAll
<1>4. QED
  BY <1>1, <1>2, <1>3, PTL DEF Spec

(* No client kills a server by SIGPIPE by going on, or by leaving at its   *)
(* prompt, but for the naming server's second answer to a GET or a LIST.   *)
THEOREM ServersAlwaysOutlive == Spec => []ServersOutliveClients
<1>1. Init => Held
  BY SessionBegins
<1>2. Held /\ [Next]_vars => Held'
  BY SessionKept
<1>3. Held => ServersOutliveClients
  BY HeldOutlives
<1>4. QED
  BY <1>1, <1>2, <1>3, PTL DEF Spec
=============================================================================
