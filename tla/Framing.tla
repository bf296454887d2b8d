------------------------------ MODULE Framing ------------------------------
(***************************************************************************)
(* One direction of a connection, byte by byte: what send_message and      *)
(* send put into the stream and what receive_message and recv make of it   *)
(* (Common/network_utils.c, and the bare sends of Common/responses.c).     *)
(*                                                                         *)
(* The stream has no marks.  A sender puts an item on it, a message (type, *)
(* length, payload) or a bare block (a response byte, an address), one     *)
(* send per field.  A receiver asks for a message or for a block and takes *)
(* what is next.  A recv may return less than it was asked for; only the   *)
(* payload of a message is asked for again.                                *)
(***************************************************************************)
EXTENDS Frames

CONSTANTS
    Items,             \* what may be sent
    MaxItems,          \* bound on the items of a connection
    MAX_CHUNK_SIZE     \* the most that one send or recv of a payload moves

(* What is assumed of them, wherever the module is instantiated. *)
FramingAssumption ==
    /\ \A i \in Items : WellFormed(i)
    /\ MaxItems \in Nat
    /\ MAX_CHUNK_SIZE \in Nat \ {0}

(* The two ends of the direction and the stream between them:              *)
(*   sent    the items whose sending has begun                             *)
(*   starts  history: where in the stream each of them starts              *)
(*   out     the stream: every byte handed to send                         *)
(*   read    how many of them have been received                           *)
(*   open    the sender has not closed its end                             *)
(*   pc, want, type, size, data   the receive at work: its state, the      *)
(*           length of the block asked for, and what has been read         *)
(*   taken   history: the number of bytes that took                        *)
(*   got     what has been received, and whether it came whole             *)
(*   eof     a recv has returned 0                                         *)
(*   astray  history: "short" when a field of fixed size was read in part, *)
(*           "mixed" when something was asked for that is not what comes   *)
VARIABLE ch

Pcs == {"idle", "bare", "type", "size", "data"}
GotRecord == [item : ItemRecord, whole : BOOLEAN]
ChannelRecord ==
    [sent : Seq(ItemRecord), starts : Seq(Nat), out : Seq(Byte), read : Nat,
     open : BOOLEAN, pc : Pcs, want : Nat, type : Byte, size : Nat,
     data : Seq(Byte), taken : Nat, got : Seq(GotRecord), eof : BOOLEAN,
     astray : SUBSET {"short", "mixed"}]

New ==
    [sent |-> <<>>, starts |-> <<>>, out |-> <<>>, read |-> 0, open |-> TRUE,
     pc |-> "idle", want |-> 0, type |-> 0, size |-> 0, data |-> <<>>, taken |-> 0,
     got |-> <<>>, eof |-> FALSE, astray |-> {}]

Init == ch = New

-----------------------------------------------------------------------------
(* The sender. *)
Count == Len(ch.sent)
Put == Len(ch.out) - ch.starts[Count]
Sending == ch.sent # <<>> /\ Put < Len(ch.sent[Count].bytes)

Start(item) ==
    /\ ch.open /\ ~ Sending
    /\ ch' = [ch EXCEPT !.sent = Append(@, item),
                        !.starts = Append(@, Len(ch.out))]

AtMost(n, limit) == IF n < limit THEN n ELSE limit

(* The number of bytes that the next send moves. *)
Field(item, put) ==
    IF item.kind = "bare" THEN Len(item.bytes) - put
    ELSE IF put = 0 THEN 1
    ELSE IF put = 1 THEN HEADER - 1
    ELSE AtMost(Len(item.bytes) - put, MAX_CHUNK_SIZE)

Send ==
    LET item == ch.sent[Count] IN
    /\ ch.open /\ Sending
    /\ ch' = [ch EXCEPT !.out =
                 @ \o SubSeq(item.bytes, Put + 1, Put + Field(item, Put))]

(* The sender closes its end, or its process is gone, between two sends.   *)
Close ==
    /\ ch.open
    /\ ch' = [ch EXCEPT !.open = FALSE]

-----------------------------------------------------------------------------
(* The receiver. *)
Ask(pc, n) ==
    /\ ch.pc = "idle"
    /\ ch' = [ch EXCEPT !.pc = pc, !.want = n, !.type = 0, !.size = 0,
                        !.data = <<>>, !.taken = 0]
AskBare(n) == Ask("bare", n)
AskMessage == Ask("type", 0)

(* What a recv of at most n bytes may return: some of the bytes that have  *)
(* arrived.                                                                *)
Arrived(n) == 1 .. AtMost(n, Len(ch.out) - ch.read)
Bytes(k) == SubSeq(ch.out, ch.read + 1, ch.read + k)

(* What comes next on the stream is what is asked for. *)
Agrees(kind, n) ==
    \E i \in DOMAIN ch.sent :
        /\ ch.starts[i] = ch.read
        /\ ch.sent[i].kind = kind
        /\ kind = "bare" => Len(ch.sent[i].bytes) = n

Mixed(kind, n) == IF Agrees(kind, n) THEN {} ELSE {"mixed"}
Short(k, n) == IF k < n THEN {"short"} ELSE {}

Receive(item) == Append(ch.got, [item |-> item, whole |-> TRUE])

RecvBare ==
    /\ ch.pc = "bare"
    /\ \E k \in Arrived(ch.want) :
        ch' = [ch EXCEPT !.read = @ + k, !.pc = "idle", !.got = Receive(Bare(Bytes(k))),
                         !.astray = @ \cup (IF Agrees("bare", ch.want)
                                            THEN Short(k, ch.want) ELSE {"mixed"})]

RecvType ==
    /\ ch.pc = "type"
    /\ \E k \in Arrived(1) :
        ch' = [ch EXCEPT !.read = @ + k, !.pc = "size", !.taken = k,
                         !.type = ch.out[ch.read + 1],
                         !.astray = @ \cup Mixed("message", 0)]

(* The message received, as an item. *)
Taken(size, data) ==
    [kind |-> "message", bytes |-> << ch.type, size % 256, size \div 256 >> \o data]

(* A length that is cut keeps its low part; the rest of the field is 0.    *)
RecvSize ==
    /\ ch.pc = "size"
    /\ \E k \in Arrived(HEADER - 1) :
        LET size == SizeOf(ch.out[ch.read + 1],
                           IF k = 2 THEN ch.out[ch.read + 2] ELSE 0)
        IN
        ch' = [ch EXCEPT !.read = @ + k, !.size = size, !.taken = @ + k,
                         !.pc = IF size > 0 THEN "data" ELSE "idle",
                         !.got = IF size > 0 THEN @ ELSE Receive(Taken(0, <<>>)),
                         !.astray = @ \cup Short(k, HEADER - 1)]

(* Mutant of RecvData: the payload is asked for once.                      *)
RecvDataOnce ==
    /\ ch.pc = "data"
    /\ \E k \in Arrived(AtMost(ch.size, MAX_CHUNK_SIZE)) :
        ch' = [ch EXCEPT !.read = @ + k, !.pc = "idle",
                         !.got = Receive(Taken(ch.size, Bytes(k)))]

(* Mutant of RecvData: it stops at more than the length. *)
RecvDataBeyond ==
    /\ ch.pc = "data"
    /\ \E k \in Arrived(AtMost(ch.size + 1 - Len(ch.data), MAX_CHUNK_SIZE)) :
        LET data == ch.data \o Bytes(k) IN
        ch' = [ch EXCEPT !.read = @ + k, !.data = data, !.taken = @ + k,
                         !.pc = IF Len(data) <= ch.size THEN "data" ELSE "idle",
                         !.got = IF Len(data) <= ch.size THEN @
                                 ELSE Receive(Taken(ch.size, data))]

RecvData ==
    /\ ch.pc = "data"
    /\ \E k \in Arrived(AtMost(ch.size - Len(ch.data), MAX_CHUNK_SIZE)) :
        LET data == ch.data \o Bytes(k) IN
        ch' = [ch EXCEPT !.read = @ + k, !.data = data, !.taken = @ + k,
                         !.pc = IF Len(data) < ch.size THEN "data" ELSE "idle",
                         !.got = IF Len(data) < ch.size THEN @
                                 ELSE Receive(Taken(ch.size, data))]

(* recv returns 0: taken for a success, with nothing read.  In the middle  *)
(* of a payload it is called again, for ever.                              *)
Ended == ~ ch.open /\ ch.read = Len(ch.out)
RecvEof ==
    LET item == IF ch.pc = "bare" THEN Bare(<<>>) ELSE Taken(0, <<>>) IN
    /\ Ended /\ ch.pc \in {"bare", "type", "size"}
    /\ ch' = [ch EXCEPT
                !.eof = TRUE,
                !.pc = IF @ = "type" THEN "size" ELSE "idle",
                !.got = IF ch.pc = "type" THEN @
                        ELSE Append(@, [item |-> item, whole |-> FALSE])]

Spins == ch.pc = "data" /\ Ended

Recv == RecvBare \/ RecvType \/ RecvSize \/ RecvData \/ RecvEof

(* Both ends turn to a new connection. *)
Reopen == ch' = New

Next ==
    \/ \E i \in Items : Len(ch.sent) < MaxItems /\ Start(i)
    \/ Send \/ Close \/ Reopen
    \/ \E i \in Items : i.kind = "bare" /\ AskBare(Len(i.bytes))
    \/ AskMessage \/ Recv

Spec == Init /\ [][Next]_ch

-----------------------------------------------------------------------------
(* Properties. *)

(* The record of the connection is well typed, and a length fits its field. *)
TypeOK == ch \in ChannelRecord /\ ch.size \div 256 \in Byte

(* How the items lie in the stream: one after the other from its start,    *)
(* the last one perhaps not yet complete.                                  *)
Total == Len(ch.out)
Length(i) == Len(ch.sent[i].bytes)
End(i) == ch.starts[i] + Length(i)
Layout ==
    /\ Len(ch.starts) = Count
    /\ \A i \in 1 .. Count : WellFormed(ch.sent[i])
    /\ Count = 0 => Total = 0
    /\ Count > 0 => ch.starts[1] = 0 /\ ch.starts[Count] <= Total /\ Total <= End(Count)
    /\ \A i \in 1 .. Count - 1 : ch.starts[i + 1] = End(i)
    /\ \A i, j \in 1 .. Count : i < j => End(i) <= ch.starts[j]
    /\ \A i \in 1 .. Count : \A k \in 1 .. Length(i) :
          ch.starts[i] + k <= Total => ch.out[ch.starts[i] + k] = ch.sent[i].bytes[k]

(* A receiver that has not gone astray is in the item after those it has   *)
(* received, as far into it as the receive at work has come.               *)
Into == IF ch.pc \in {"size", "data"} THEN ch.taken ELSE 0
Current == Len(ch.got) + 1
Position ==
    ch.astray = {} /\ ~ ch.eof =>
        /\ Current <= Count + 1
        /\ \A j \in 1 .. Current - 1 : ch.got[j].whole
        /\ Current <= Count => ch.read = ch.starts[Current] + Into /\ Into < Length(Current)
        /\ Current = Count + 1 => Into = 0 /\ ch.read = Total /\ ~ Sending
        /\ ch.pc \in {"size", "data"} =>
              /\ Current <= Count /\ ch.sent[Current].kind = "message"
              /\ ch.type = Type(ch.sent[Current])
        /\ ch.pc \in {"type", "size"} => ch.data = <<>>
        /\ ch.pc = "size" => ch.taken = 1
        /\ ch.pc = "data" =>
              /\ ch.size = Size(ch.sent[Current]) /\ Len(ch.data) < ch.size
              /\ ch.taken = HEADER + Len(ch.data)
              /\ \A k \in 1 .. Len(ch.data) :
                    ch.data[k] = ch.sent[Current].bytes[HEADER + k]

(* The end of the stream is seen at the end, and never within a payload.   *)
AtTheEnd ==
    /\ ch.read <= Total
    /\ ch.eof => ~ ch.open /\ ch.read = Total /\ ch.pc # "data"

(* Whatever was received before the stream ended is what was sent, item by *)
(* item and byte by byte, as long as no fixed-size field was read short    *)
(* (network_utils.c:33 and :36 test for -1 only) and nobody asked for what *)
(* is not next: the framing itself never goes wrong, however the payloads  *)
(* are cut into chunks.                                                    *)
ReceivedAsSent ==
    ch.astray = {} =>
        \A j \in 1 .. Len(ch.got) :
            ch.got[j].whole => j <= Len(ch.sent) /\ ch.got[j].item = ch.sent[j]

(* A receiver that waits for more payload than will ever come, the sender  *)
(* having closed, waits in the middle of an item that was cut off, or has  *)
(* gone astray (network_utils.c:43 then calls recv for ever).              *)
SpinsOnCutItems ==
    Spins /\ ch.astray = {} => Sending /\ Len(ch.got) + 1 = Len(ch.sent)

(* What the steps of sender and receiver preserve. *)
IInv == TypeOK /\ Layout /\ AtTheEnd /\ Position /\ ReceivedAsSent
=============================================================================
