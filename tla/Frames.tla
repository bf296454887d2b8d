------------------------------ MODULE Frames -------------------------------
(***************************************************************************)
(* What the processes send each other: messages, which carry a type and a  *)
(* length, and bare blocks of bytes, which carry nothing                   *)
(* (Common/network_utils.h, requests.h, responses.h).                      *)
(*                                                                         *)
(* The eight bytes of a length are modelled by two, so that they can be    *)
(* cut; a path, an address or a chunk of a file by one or two bytes.       *)
(***************************************************************************)
EXTENDS Integers, Sequences

Byte == 0 .. 255
ItemRecord == [kind : {"bare", "message"}, bytes : Seq(Byte)]

HEADER == 3
SizeOf(lo, hi) == lo + 256 * hi

Bare(bytes) == [kind |-> "bare", bytes |-> bytes]
Message(type, payload) ==
    [kind |-> "message",
     bytes |-> << type, Len(payload) % 256, Len(payload) \div 256 >> \o payload]

WellFormed(i) ==
    /\ i \in ItemRecord /\ Len(i.bytes) > 0
    /\ i.kind = "message" =>
        /\ Len(i.bytes) >= HEADER
        /\ Len(i.bytes) = HEADER + SizeOf(i.bytes[2], i.bytes[3])

Type(message) == message.bytes[1]
Size(message) == SizeOf(message.bytes[2], message.bytes[3])
Payload(message) == SubSeq(message.bytes, HEADER + 1, Len(message.bytes))

-----------------------------------------------------------------------------
(* Types of messages. *)
MESSAGE_TYPE_REQUEST == 48
MESSAGE_TYPE_STREAM == 49
MESSAGE_TYPE_STREAM_END == 50

(* Codes of responses; some are also types of messages. *)
NOT_FOUND == 48
INTERNAL_ERROR == 49
INVALID_REQUEST == 50
INVALID_REQUEST_CONTENT == 51
ALREADY_EXISTS == 52
OK == 97
REDIRECT == 98
OK_START_STREAM == 99
Codes == {NOT_FOUND, INTERNAL_ERROR, INVALID_REQUEST, INVALID_REQUEST_CONTENT,
          ALREADY_EXISTS, OK, REDIRECT, OK_START_STREAM}

(* Requests, by their codes. *)
Opcode == [create |-> 48, delete |-> 51, read |-> 52, write |-> 53, copy |-> 54,
           get |-> 55, list |-> 56]
Ops == DOMAIN Opcode

(* send_request, send_response, send_streaming_response_payload and        *)
(* end_streaming_response_payload.                                         *)
Request(op) == Message(MESSAGE_TYPE_REQUEST, << Opcode[op], 65 >>)
Response(code) == Bare(<< code >>)
Stream(chunk) == Message(MESSAGE_TYPE_STREAM, chunk)
StreamEnd == Message(MESSAGE_TYPE_STREAM_END, << 0 >>)

(* receive_streaming_response_payload: the size, 0 at the end of the       *)
(* stream, -1 for a message of another type.                               *)
Streamed(message) ==
    IF Type(message) = MESSAGE_TYPE_STREAM THEN Size(message)
    ELSE IF Type(message) = MESSAGE_TYPE_STREAM_END THEN 0 ELSE -1
=============================================================================
