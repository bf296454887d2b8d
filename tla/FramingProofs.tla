--------------------------- MODULE FramingProofs ---------------------------
(***************************************************************************)
(* A receiver that keeps in step gets what was sent, byte by byte: proved  *)
(* for any items, any cuts into chunks and any number of messages.         *)
(*                                                                         *)
(* Everything is said by positions in the stream, which is never erased:   *)
(* where each item starts, how far the receiver is.  No induction over the *)
(* items is needed.                                                        *)
(***************************************************************************)
EXTENDS Framing, SequenceTheorems, TLAPS

-----------------------------------------------------------------------------
(* Facts about items and about the layout of the stream. *)

LEMMA DivMod ==
    ASSUME NEW lo \in Byte, NEW hi \in Byte
    PROVE  (lo + 256 * hi) % 256 = lo /\ (lo + 256 * hi) \div 256 = hi
<1>1. \A x, y \in Int : 0 <= x /\ x <= 255 /\ 0 <= y => (x + 256 * y) % 256 = x
  OBVIOUS
<1>2. \A x, y \in Int : 0 <= x /\ x <= 255 /\ 0 <= y => (x + 256 * y) \div 256 = y
  OBVIOUS
<1>3. lo \in Int /\ hi \in Int /\ 0 <= lo /\ lo <= 255 /\ 0 <= hi
  BY DEF Byte
<1>4. QED
  BY <1>1, <1>2, <1>3

(* What receive_message puts together from a type, a length and a payload  *)
(* is the message they were taken from.                                    *)
LEMMA Rebuilt ==
    ASSUME NEW item, WellFormed(item), item.kind = "message", ch.type = Type(item),
           NEW data \in Seq(Byte), Len(data) = Size(item),
           \A k \in 1 .. Len(data) : data[k] = item.bytes[HEADER + k]
    PROVE  Taken(Size(item), data) = item
<1> DEFINE s == Size(item)
           b == item.bytes
           h == << ch.type, s % 256, s \div 256 >>
           c == h \o data
           n == Len(data)
<1>1. item = [kind |-> "message", bytes |-> b] /\ b \in Seq(Byte)
  BY DEF WellFormed, ItemRecord
<1>2. Len(b) >= 3 /\ Len(b) = 3 + s /\ s = b[2] + 256 * b[3]
  BY DEF WellFormed, HEADER, SizeOf, Size
<1>3. b[1] \in Byte /\ b[2] \in Byte /\ b[3] \in Byte
  BY <1>1, <1>2, ElementOfSeq
<1> HIDE DEF s
<1>4. s % 256 = b[2] /\ s \div 256 = b[3]
  <2> HIDE DEF b
  <2>1. QED
    BY <1>2, <1>3, DivMod
<1>5. h = << b[1], b[2], b[3] >>
  BY <1>4 DEF Type, s
<1>6. n \in Nat /\ Len(b) = 3 + n /\ \A k \in 1 .. n : data[k] = b[3 + k]
  BY <1>2 DEF HEADER, s
<1> HIDE DEF b, h, n
<1>7. h \in Seq(Byte) /\ Len(h) = 3 /\ h[1] = b[1] /\ h[2] = b[2] /\ h[3] = b[3]
  BY <1>3, <1>5
<1>8. /\ c \in Seq(Byte) /\ Len(c) = Len(h) + n
      /\ \A k \in 1 .. Len(h) + n : c[k] = IF k <= Len(h) THEN h[k] ELSE data[k - Len(h)]
  BY <1>7, ConcatProperties DEF n
<1>9. /\ c \in Seq(Byte) /\ Len(c) = 3 + n
      /\ \A k \in 1 .. 3 + n : c[k] = IF k <= 3 THEN h[k] ELSE data[k - 3]
  <2> HIDE DEF c
  <2>1. QED
    BY <1>7, <1>8
<1> HIDE DEF c
<1>10. \A k \in 1 .. 3 + n : c[k] = b[k]
  <2> TAKE k \in 1 .. 3 + n
  <2>1. CASE k <= 3
    <3>1. k = 1 \/ k = 2 \/ k = 3
      BY <1>6, <2>1
    <3>2. QED
      BY <1>7, <1>9, <2>1, <3>1
  <2>2. CASE ~ (k <= 3)
    <3>1. k - 3 \in 1 .. n /\ 3 + (k - 3) = k
      BY <1>6, <2>2
    <3>2. QED
      BY <1>6, <1>9, <2>2, <3>1
  <2>3. QED
    BY <2>1, <2>2
<1>11. c = b
  BY <1>1, <1>6, <1>9, <1>10, SeqEqual
<1>12. QED
  BY <1>1, <1>11 DEF c, h, s, Taken

(* The items of the stream are well formed and take room. *)
LEMMA ItemFacts ==
    ASSUME TypeOK, Layout
    PROVE  /\ Count \in Nat /\ Total \in Nat /\ ch.read \in Nat /\ Current \in Nat \ {0}
           /\ \A i \in 1 .. Count :
                /\ WellFormed(ch.sent[i]) /\ ch.sent[i] \in ItemRecord
                /\ ch.sent[i].bytes \in Seq(Byte)
                /\ ch.starts[i] \in Nat /\ Length(i) \in Nat \ {0}
                /\ End(i) \in Nat /\ ch.starts[i] < End(i)
<1>1. ch.sent \in Seq(ItemRecord) /\ ch.starts \in Seq(Nat) /\ ch.out \in Seq(Byte)
      /\ ch.got \in Seq(GotRecord) /\ ch.read \in Nat
  BY DEF TypeOK, ChannelRecord
<1>2. Count \in Nat /\ Total \in Nat /\ Current \in Nat \ {0}
  BY <1>1 DEF Count, Total, Current
<1>3. ASSUME NEW i \in 1 .. Count
      PROVE  /\ WellFormed(ch.sent[i]) /\ ch.sent[i] \in ItemRecord
             /\ ch.sent[i].bytes \in Seq(Byte)
             /\ ch.starts[i] \in Nat /\ Length(i) \in Nat \ {0}
  <2>1. WellFormed(ch.sent[i])
    BY DEF Layout
  <2>2. ch.sent[i] \in ItemRecord /\ Length(i) > 0
    BY <2>1 DEF WellFormed, Length
  <2>3. ch.sent[i].bytes \in Seq(Byte) /\ Length(i) \in Nat
    BY <2>2 DEF ItemRecord, Length
  <2>4. ch.starts[i] \in Nat
    BY <1>1, ElementOfSeq DEF Layout
  <2>5. QED
    BY <2>1, <2>2, <2>3, <2>4
<1>4. \A i \in 1 .. Count : End(i) \in Nat /\ ch.starts[i] < End(i)
  BY <1>3 DEF End
<1>5. QED
  BY <1>1, <1>2, <1>3, <1>4

(* No two items start at the same place. *)
LEMMA StartsDiffer ==
    ASSUME TypeOK, Layout, NEW i \in 1 .. Count, NEW j \in 1 .. Count,
           ch.starts[i] = ch.starts[j]
    PROVE  i = j
<1>1. \A a, b \in 1 .. Count : a < b => ch.starts[a] < ch.starts[b]
  <2> SUFFICES ASSUME NEW a \in 1 .. Count, NEW b \in 1 .. Count, a < b
               PROVE  ch.starts[a] < ch.starts[b]
    OBVIOUS
  <2>1. ch.starts[a] < End(a) /\ End(a) \in Nat /\ ch.starts[a] \in Nat /\ ch.starts[b] \in Nat
    BY ItemFacts
  <2>2. End(a) <= ch.starts[b]
    BY DEF Layout
  <2>3. QED
    BY <2>1, <2>2
<1>2. Count \in Nat /\ ch.starts[i] \in Nat /\ ch.starts[j] \in Nat
  BY ItemFacts
<1>3. QED
  BY <1>1, <1>2

(* What a recv returns, within an item, are the next bytes of the item. *)
LEMMA BytesOfItem ==
    ASSUME TypeOK, Layout, NEW i \in 1 .. Count, NEW p \in Nat, NEW k \in Nat \ {0},
           ch.read = ch.starts[i] + p, p + k <= Length(i), ch.read + k <= Total
    PROVE  /\ Bytes(k) \in Seq(Byte) /\ Len(Bytes(k)) = k
           /\ \A j \in 1 .. k : /\ Bytes(k)[j] = ch.sent[i].bytes[p + j]
                                /\ ch.out[ch.read + j] = ch.sent[i].bytes[p + j]
<1> DEFINE r == ch.read
           b == Bytes(k)
<1>1. ch.starts[i] \in Nat /\ Length(i) \in Nat /\ r \in Nat /\ Total \in Nat
  BY ItemFacts
<1>2. ch.out \in Seq(Byte) /\ \A j \in 1 .. Total : ch.out[j] \in Byte
  BY ElementOfSeq DEF TypeOK, ChannelRecord, Total
<1>3. r + 1 \in Int /\ r + k \in Int /\ r + 1 <= r + k /\ (r + k) - (r + 1) + 1 = k
  BY <1>1
<1>4. \A j \in r + 1 .. r + k : ch.out[j] \in Byte
  <2> TAKE j \in r + 1 .. r + k
  <2>1. j \in 1 .. Total
    BY <1>1
  <2>2. QED
    BY <1>2, <2>1
<1> HIDE DEF r
<1>5. /\ b \in Seq(Byte) /\ Len(b) = k
      /\ \A j \in 1 .. k : b[j] = ch.out[(r + 1) + j - 1]
  BY <1>3, <1>4, SubSeqProperties DEF Bytes, r
<1>6. \A j \in 1 .. k : b[j] = ch.out[r + j]
  <2> TAKE j \in 1 .. k
  <2>1. (r + 1) + j - 1 = r + j
    BY <1>1
  <2>2. QED
    BY <1>5, <2>1
<1>7. \A j \in 1 .. k : ch.out[r + j] = ch.sent[i].bytes[p + j]
  <2> TAKE j \in 1 .. k
  <2>1. p + j \in 1 .. Length(i) /\ ch.starts[i] + (p + j) = r + j /\ r + j <= Total
    BY <1>1 DEF r
  <2>2. ch.out[ch.starts[i] + (p + j)] = ch.sent[i].bytes[p + j]
    BY <2>1 DEF Layout
  <2>3. QED
    BY <2>1, <2>2
<1>8. QED
  BY <1>5, <1>6, <1>7 DEF r

(* When the last item is still being sent. *)
LEMMA SendingFacts ==
    ASSUME TypeOK, Layout
    PROVE  /\ Sending <=> Count > 0 /\ Total < End(Count)
           /\ Count > 0 => Put = Total - ch.starts[Count]
<1>1. ch.sent \in Seq(ItemRecord) /\ Count \in Nat /\ Total \in Nat
  BY ItemFacts DEF TypeOK, ChannelRecord
<1>2. ch.sent # <<>> <=> Count > 0
  BY <1>1 DEF Count
<1>4. Put = Total - ch.starts[Count]
  BY DEF Put, Total
<1>5. Count > 0 => /\ ch.starts[Count] \in Nat /\ Length(Count) \in Nat
  BY <1>1, ItemFacts
<1>6. Count > 0 => (Put < Length(Count) <=> Total < End(Count))
  BY <1>1, <1>4, <1>5 DEF End
<1>7. QED
  BY <1>2, <1>4, <1>6 DEF Sending, Length

(* What may be received is within the stream, and there is nothing once    *)
(* its end has been seen.                                                  *)
LEMMA ArrivedFacts ==
    ASSUME TypeOK, Layout, AtTheEnd, NEW n \in Int, NEW k \in Arrived(n)
    PROVE  k \in Nat \ {0} /\ k <= n /\ ch.read + k <= Total /\ ~ ch.eof
<1>1. Total \in Nat /\ ch.read \in Nat
  BY ItemFacts
<1>2. k \in 1 .. AtMost(n, Total - ch.read)
  BY DEF Arrived, Total
<1>3. k \in Nat \ {0} /\ k <= n /\ k <= Total - ch.read
  BY <1>1, <1>2 DEF AtMost
<1>4. QED
  BY <1>1, <1>3 DEF AtTheEnd

(* A receiver leaves the stream as it is. *)
LEMMA SameStream ==
    ASSUME TypeOK, Layout, ch'.sent = ch.sent, ch'.starts = ch.starts, ch'.out = ch.out
    PROVE  /\ Layout' /\ Count' = Count /\ Total' = Total /\ Sending' = Sending
           /\ \A i \in 1 .. Count : Length(i)' = Length(i) /\ End(i)' = End(i)
<1>1. Count' = Count /\ Total' = Total
  BY DEF Count, Total
<1>2. \A i \in 1 .. Count : Length(i)' = Length(i) /\ End(i)' = End(i)
  BY DEF Length, End
<1>3. Sending' = Sending
  BY DEF Sending, Put, Count
<1>4. Layout'
  BY <1>1, <1>2 DEF Layout, Count, Total, Length, End
<1>5. QED
  BY <1>1, <1>2, <1>3, <1>4

(* A receive that ends an item with all its bytes keeps step. *)
LEMMA ItemReceived ==
    ASSUME IInv, ch.astray = {}, ~ ch.eof, Current <= Count,
           ch'.sent = ch.sent, ch'.starts = ch.starts, ch'.out = ch.out,
           ch'.pc = "idle", ch'.read = End(Current), ch'.read <= Total,
           ch'.got = Append(ch.got, [item |-> ch.sent[Current], whole |-> TRUE])
    PROVE  Position' /\ ReceivedAsSent'
<1> DEFINE c == Current
<1>1. /\ Count \in Nat /\ Total \in Nat /\ c \in Nat \ {0} /\ c \in 1 .. Count
      /\ \A i \in 1 .. Count : Length(i) \in Nat \ {0} /\ ch.starts[i] \in Nat /\ End(i) \in Nat
  BY ItemFacts DEF IInv
<1>2. /\ Layout' /\ Count' = Count /\ Total' = Total /\ Sending' = Sending
      /\ \A i \in 1 .. Count : Length(i)' = Length(i) /\ End(i)' = End(i)
  BY SameStream DEF IInv
<1>3. ch.got \in Seq(GotRecord) /\ Len(ch.got) = c - 1
  BY DEF IInv, TypeOK, ChannelRecord, Current
<1>4. PICK n \in Nat : n = c + 1
  BY <1>1
<1>5. Len(ch'.got) = c /\ \A j \in 1 .. c : ch'.got[j] =
          IF j = c THEN [item |-> ch.sent[c], whole |-> TRUE] ELSE ch.got[j]
  <2>1. [item |-> ch.sent[c], whole |-> TRUE] \in GotRecord
    BY <1>1, ItemFacts DEF IInv, GotRecord
  <2>2. QED
    BY <1>1, <1>3, <2>1, AppendProperties
<1>6. Current' = n /\ Into' = 0
  BY <1>1, <1>4, <1>5 DEF Current, Into
<1>7. \A j \in 1 .. c - 1 : ch.got[j].whole /\ ch.got[j].item = ch.sent[j]
  BY <1>1, <1>3 DEF IInv, Position, ReceivedAsSent
<1>8. ch'.read = End(c) /\ c \in Nat /\ c >= 1 /\ c <= Count /\ Current = c
  BY <1>1
<1> HIDE DEF c
<1>9. \A j \in 1 .. c : ch'.got[j].whole /\ ch'.got[j].item = ch'.sent[j]
  <2> TAKE j \in 1 .. c
  <2>1. CASE j = c
    BY <1>5, <2>1
  <2>2. CASE j # c
    <3>1. j \in 1 .. c - 1
      BY <1>8, <2>2
    <3>2. QED
      BY <1>5, <1>7, <2>2, <3>1
  <2>3. QED
    BY <2>1, <2>2
<1>10. ReceivedAsSent'
  BY <1>1, <1>2, <1>5, <1>9 DEF ReceivedAsSent, Count
<1>11. \A j \in 1 .. Current' - 1 : ch'.got[j].whole
  <2>1. Current' - 1 = c
    BY <1>8, <1>4, <1>6
  <2>2. QED
    BY <1>9, <2>1
<1>12. /\ n <= Count' => ch'.read = ch'.starts[n] /\ 0 < Length(n)'
       /\ n = Count' + 1 => ch'.read = Total' /\ ~ Sending'
       /\ n <= Count' + 1
  <2>1. CASE c < Count
    <3>1. c \in 1 .. Count - 1 /\ n \in 1 .. Count /\ n # Count + 1
      BY <1>1, <1>8, <1>4, <2>1
    <3>2. ch.starts[n] = End(c)
      BY <1>4, <3>1 DEF IInv, Layout
    <3>3. ch'.read = ch'.starts[n] /\ 0 < Length(n)'
      BY <1>1, <1>2, <1>8, <3>1, <3>2
    <3>4. QED
      BY <1>1, <1>2, <3>1, <3>3
  <2>2. CASE c = Count
    <3>1. Total <= End(c)
      BY <1>1, <1>8, <2>2 DEF IInv, Layout
    <3>2. ch'.read = Total /\ ~ Sending
      BY <1>1, <1>8, <2>2, <3>1, SendingFacts DEF IInv
    <3>3. QED
      BY <1>1, <1>2, <1>4, <2>2, <3>2
  <2>3. QED
    BY <1>1, <1>8, <2>1, <2>2
<1>13. Position'
  <2>1. Current' = n /\ Into' = 0 /\ ch'.pc = "idle" /\ n \in Nat /\ Count' \in Nat
    BY <1>1, <1>2, <1>6
  <2>2. n <= Count' => ch'.read = ch'.starts[n] + 0
    <3>1. n <= Count => n \in 1 .. Count
      BY <1>1, <1>8, <1>4
    <3>2. n <= Count => ch'.starts[n] \in Nat
      BY <1>1, <3>1
    <3>3. QED
      BY <1>2, <1>12, <3>2
  <2>3. QED
    BY <1>11, <1>12, <2>1, <2>2 DEF Position
<1>14. QED
  BY <1>10, <1>13

-----------------------------------------------------------------------------
(* The sender's steps. *)

LEMMA StartPreserves ==
    ASSUME IInv, NEW item, WellFormed(item), Start(item)
    PROVE  IInv'
<1> DEFINE n == Count
<1>1. TypeOK /\ Layout /\ AtTheEnd /\ Position /\ ReceivedAsSent
  BY DEF IInv
<1>2. /\ ch'.sent = Append(ch.sent, item) /\ ch'.starts = Append(ch.starts, Total)
      /\ ch' = [ch EXCEPT !.sent = ch'.sent, !.starts = ch'.starts]
      /\ ch.open /\ ~ Sending
  BY <1>1 DEF Start, TypeOK, ChannelRecord, Total
<1>3. /\ ch'.out = ch.out /\ ch'.read = ch.read /\ ch'.open = ch.open /\ ch'.pc = ch.pc
      /\ ch'.type = ch.type /\ ch'.size = ch.size /\ ch'.data = ch.data
      /\ ch'.taken = ch.taken /\ ch'.got = ch.got /\ ch'.eof = ch.eof
      /\ ch'.astray = ch.astray
  BY <1>1, <1>2 DEF TypeOK, ChannelRecord
<1>4. /\ n \in Nat /\ Total \in Nat /\ ch.read \in Nat /\ Current \in Nat \ {0}
      /\ \A i \in 1 .. n : /\ Length(i) \in Nat \ {0} /\ ch.starts[i] \in Nat
                          /\ End(i) \in Nat /\ ch.starts[i] < End(i)
  BY <1>1, ItemFacts
<1>5. item \in ItemRecord /\ item.bytes \in Seq(Byte) /\ Len(item.bytes) \in Nat \ {0}
  BY DEF WellFormed, ItemRecord
<1>6. ch.sent \in Seq(ItemRecord) /\ Len(ch.sent) = n /\ ch.starts \in Seq(Nat) /\ Len(ch.starts) = n
  BY <1>1 DEF TypeOK, ChannelRecord, Layout, Count
<1>7. /\ ch'.sent \in Seq(ItemRecord) /\ Len(ch'.sent) = n + 1
      /\ \A i \in 1 .. n : ch'.sent[i] = ch.sent[i]
      /\ ch'.sent[n + 1] = item
  BY <1>2, <1>5, <1>6, AppendProperties
<1>8. /\ ch'.starts \in Seq(Nat) /\ Len(ch'.starts) = n + 1
      /\ \A i \in 1 .. n : ch'.starts[i] = ch.starts[i]
      /\ ch'.starts[n + 1] = Total
  BY <1>2, <1>4, <1>6, AppendProperties
<1>9. TypeOK'
  BY <1>1, <1>2, <1>3, <1>7, <1>8 DEF TypeOK, ChannelRecord
<1>10. PICK m \in Nat : m = n + 1
  BY <1>4
<1>11. Count' = m /\ Total' = Total /\ Current' = Current /\ Into' = Into
  BY <1>3, <1>7, <1>10 DEF Count, Total, Current, Into
<1>12. /\ \A i \in 1 .. n : Length(i)' = Length(i) /\ End(i)' = End(i)
       /\ Length(m)' = Len(item.bytes) /\ End(m)' = Total + Len(item.bytes)
  BY <1>7, <1>8, <1>10 DEF Length, End
<1>13. n > 0 => Total = End(n)
  BY <1>1, <1>2, <1>4, SendingFacts DEF Layout
<1>14. Layout'
  <2> PICK l \in Nat \ {0} : l = Len(item.bytes)
    BY <1>5
  <2>1. Len(ch'.starts) = Count'
    BY <1>8, <1>10, <1>11
  <2>2. \A i \in 1 .. m : WellFormed(ch'.sent[i])
    BY <1>1, <1>4, <1>7, <1>10, SMTT(40) DEF Layout
  <2>3. ch'.starts[1] = 0 /\ ch'.starts[m] <= Total /\ Total <= End(m)'
    <3>1. n = 0 => Total = 0 /\ m = 1
      BY <1>1, <1>10 DEF Layout
    <3>2. n > 0 => 1 \in 1 .. n /\ ch.starts[1] = 0
      BY <1>1, <1>4 DEF Layout
    <3>3. ch'.starts[m] = Total /\ Total <= End(m)'
      BY <1>4, <1>8, <1>10, <1>12
    <3>4. QED
      BY <1>4, <1>8, <3>1, <3>2, <3>3
  <2>4. \A i, j \in 1 .. m : i < j => End(i)' <= ch'.starts[j]
    <3> SUFFICES ASSUME NEW i \in 1 .. m, NEW j \in 1 .. m, i < j
                 PROVE  End(i)' <= ch'.starts[j]
      OBVIOUS
    <3>1. i \in 1 .. n /\ End(i)' = End(i)
      BY <1>4, <1>10, <1>12
    <3>2. CASE j \in 1 .. n
      BY <1>1, <1>8, <3>1, <3>2 DEF Layout
    <3>3. CASE j = m
      <4>1. End(i) <= End(n)
        <5>1. CASE i = n
          BY <1>4, <3>1, <5>1
        <5>2. CASE i < n
          <6>1. n \in 1 .. n /\ End(i) <= ch.starts[n]
            BY <1>1, <1>4, <3>1, <5>2 DEF Layout
          <6>2. QED
            BY <1>4, <3>1, <6>1
        <5>3. QED
          BY <1>4, <3>1, <5>1, <5>2
      <4>2. QED
        BY <1>4, <1>8, <1>10, <1>13, <3>1, <3>3, <4>1, SMTT(40)
    <3>4. QED
      BY <1>4, <1>10, <3>2, <3>3
  <2>5. \A i \in 1 .. m - 1 : ch'.starts[i + 1] = End(i)'
    <3> TAKE i \in 1 .. m - 1
    <3>1. i \in 1 .. n /\ End(i)' = End(i)
      BY <1>4, <1>10, <1>12
    <3>2. CASE i < n
      <4>1. i \in 1 .. n - 1 /\ i + 1 \in 1 .. n
        BY <1>4, <3>1, <3>2
      <4>2. ch.starts[i + 1] = End(i)
        BY <1>1, <4>1 DEF Layout
      <4>3. QED
        BY <1>8, <3>1, <4>1, <4>2
    <3>3. CASE i = n
      BY <1>4, <1>8, <1>13, <3>1, <3>3
    <3>4. QED
      BY <1>4, <3>1, <3>2, <3>3
  <2>6. \A i \in 1 .. m : \A k \in 1 .. Length(i)' :
            ch'.starts[i] + k <= Total => ch'.out[ch'.starts[i] + k] = ch'.sent[i].bytes[k]
    <3> SUFFICES ASSUME NEW i \in 1 .. m, NEW k \in 1 .. Length(i)', ch'.starts[i] + k <= Total
                 PROVE  ch'.out[ch'.starts[i] + k] = ch'.sent[i].bytes[k]
      OBVIOUS
    <3>1. i # m
      <4> SUFFICES ASSUME i = m PROVE FALSE
        OBVIOUS
      <4>1. k \in Nat \ {0}
        BY <1>12
      <4>2. QED
        BY <1>4, <1>8, <1>10, <4>1
    <3>2. i \in 1 .. n /\ ch'.sent[i] = ch.sent[i] /\ ch'.starts[i] = ch.starts[i]
      BY <1>4, <1>7, <1>8, <1>10, <3>1
    <3>3. k \in 1 .. Length(i)
      BY <1>12, <3>2
    <3>4. QED
      BY <1>1, <1>3, <3>2, <3>3 DEF Layout
  <2>7. m > 0
    BY <1>4, <1>10
  <2>8. QED
    BY <1>11, <2>1, <2>2, <2>3, <2>4, <2>5, <2>6, <2>7 DEF Layout
<1>15. AtTheEnd'
  BY <1>1, <1>3, <1>11 DEF AtTheEnd
<1>16. Position'
  <2> SUFFICES ASSUME ch'.astray = {}, ~ ch'.eof PROVE Position'
    BY DEF Position
  <2> PICK c \in Nat \ {0} : c = Current
    BY <1>4
  <2>1. c <= n + 1 /\ Position
    BY <1>1, <1>3 DEF Position
  <2>2. CASE c <= n
    <3>1. c \in 1 .. n /\ c <= m /\ c # m + 1 /\ c <= m + 1
      BY <1>4, <1>10, <2>2
    <3>2. ch'.sent[c] = ch.sent[c] /\ ch'.starts[c] = ch.starts[c] /\ Length(c)' = Length(c)
      BY <1>7, <1>8, <1>12, <3>1
    <3>3. QED
      BY <1>1, <1>3, <1>11, <2>2, <3>1, <3>2 DEF Position, Type, Size
  <2>3. CASE c = n + 1
    <3>1. c = m /\ ~ (c <= n)
      BY <1>4, <1>10, <2>3
    <3>2. Into = 0 /\ ch.read = Total /\ ch.pc \notin {"size", "data"}
      BY <1>1, <1>3, <2>3, <3>1 DEF Position
    <3>3. ch'.read = ch'.starts[m] + Into' /\ Into' < Length(m)'
      BY <1>3, <1>4, <1>5, <1>8, <1>10, <1>11, <1>12, <3>2
    <3>4. m <= m + 1 /\ m # m + 1
      BY <1>4, <1>10
    <3>5. QED
      BY <1>1, <1>3, <1>11, <3>1, <3>2, <3>3, <3>4 DEF Position
  <2>4. QED
    BY <1>4, <2>1, <2>2, <2>3
<1>17. ReceivedAsSent'
  <2>1. \A j \in 1 .. Len(ch.got) : j <= n => j <= n + 1 /\ j \in 1 .. n
    BY <1>1, <1>4 DEF TypeOK, ChannelRecord
  <2>2. QED
    BY <1>1, <1>3, <1>6, <1>7, <2>1 DEF ReceivedAsSent
<1>18. QED
  BY <1>9, <1>14, <1>15, <1>16, <1>17 DEF IInv

LEMMA SendPreserves ==
    ASSUME FramingAssumption, IInv, Send
    PROVE  IInv'
<1> DEFINE n == Count
           item == ch.sent[Count]
           f == Field(item, Put)
           b == SubSeq(item.bytes, Put + 1, Put + f)
<1>1. TypeOK /\ Layout /\ AtTheEnd /\ Position /\ ReceivedAsSent
  BY DEF IInv
<1>2. ch' = [ch EXCEPT !.out = ch.out \o b] /\ ch.open /\ Sending
  BY <1>1 DEF Send, TypeOK, ChannelRecord
<1>3. /\ ch'.out = ch.out \o b /\ ch'.sent = ch.sent /\ ch'.starts = ch.starts
      /\ ch'.read = ch.read /\ ch'.open = ch.open /\ ch'.pc = ch.pc
      /\ ch'.type = ch.type /\ ch'.size = ch.size /\ ch'.data = ch.data
      /\ ch'.taken = ch.taken /\ ch'.got = ch.got /\ ch'.eof = ch.eof
      /\ ch'.astray = ch.astray
  BY <1>1, <1>2 DEF TypeOK, ChannelRecord
<1>4. /\ n \in Nat /\ Total \in Nat /\ ch.read \in Nat /\ Current \in Nat \ {0}
      /\ \A i \in 1 .. n : /\ Length(i) \in Nat \ {0} /\ ch.starts[i] \in Nat
                          /\ End(i) \in Nat /\ ch.sent[i].bytes \in Seq(Byte)
                          /\ WellFormed(ch.sent[i])
  BY <1>1, ItemFacts
<1>5. n > 0 /\ Total < End(n) /\ item = ch.sent[n] /\ Put = Total - ch.starts[n]
  BY <1>1, <1>2, SendingFacts
<1>6. n \in 1 .. n /\ ch.starts[n] <= Total
  BY <1>1, <1>4, <1>5 DEF Layout
<1>7. Put \in Nat /\ Put < Length(n) /\ Total = ch.starts[n] + Put
  BY <1>4, <1>5, <1>6 DEF End
<1>8. f \in Nat \ {0} /\ Put + f <= Length(n)
  <2> DEFINE l == Length(n)
             q == Put
  <2>1. Len(item.bytes) = l /\ l \in Nat /\ q \in Nat /\ q < l
    BY <1>4, <1>5, <1>6, <1>7 DEF Length
  <2>2. item.kind = "message" => l >= 3
    BY <1>4, <1>5, <1>6 DEF WellFormed, Length, HEADER
  <2>3. item.kind \in {"bare", "message"}
    BY <1>4, <1>5, <1>6 DEF WellFormed, ItemRecord
  <2>4. MAX_CHUNK_SIZE \in Nat \ {0}
    BY FramingAssumption DEF FramingAssumption
  <2>5. f = IF item.kind = "bare" THEN l - q
            ELSE IF q = 0 THEN 1 ELSE IF q = 1 THEN 2
            ELSE IF l - q < MAX_CHUNK_SIZE THEN l - q ELSE MAX_CHUNK_SIZE
    BY <2>1 DEF Field, HEADER, AtMost
  <2>6. l \in Nat /\ q \in Nat /\ q < l
    BY <2>1
  <2> HIDE DEF l, q, f
  <2>7. f \in Nat \ {0} /\ q + f <= l
    BY <2>2, <2>3, <2>4, <2>5, <2>6
  <2>8. QED
    BY <2>7 DEF l, q
<1> PICK p \in Nat : p = Put
  BY <1>7
<1> PICK g \in Nat \ {0} : g = f
  BY <1>8
<1>9. b \in Seq(Byte) /\ Len(b) = g /\ \A j \in 1 .. g : b[j] = ch.sent[n].bytes[p + j]
  <2> DEFINE s == ch.sent[n].bytes
             l == Length(n)
  <2>1. s \in Seq(Byte) /\ Len(s) = l /\ l \in Nat /\ p + g <= l /\ b = SubSeq(s, p + 1, p + g)
    BY <1>4, <1>5, <1>6, <1>8 DEF Length
  <2>2. \A j \in 1 .. l : s[j] \in Byte
    BY <2>1, ElementOfSeq
  <2> HIDE DEF s, l, b
  <2>3. \A j \in p + 1 .. p + g : s[j] \in Byte
    <3> TAKE j \in p + 1 .. p + g
    <3>1. j \in 1 .. l
      BY <2>1
    <3>2. QED
      BY <2>2, <3>1
  <2>4. p + 1 \in Int /\ p + g \in Int /\ p + 1 <= p + g /\ (p + g) - (p + 1) + 1 = g
    OBVIOUS
  <2>5. b \in Seq(Byte) /\ Len(b) = g /\ \A j \in 1 .. g : b[j] = s[(p + 1) + j - 1]
    BY <2>1, <2>3, <2>4, SubSeqProperties, SMTT(40)
  <2>6. \A j \in 1 .. g : (p + 1) + j - 1 = p + j
    OBVIOUS
  <2>7. QED
    BY <2>5, <2>6 DEF s
<1> HIDE DEF b, f, item
<1>10. /\ ch'.out \in Seq(Byte) /\ Total' = Total + g
       /\ \A j \in 1 .. Total : ch'.out[j] = ch.out[j]
       /\ \A j \in 1 .. g : ch'.out[Total + j] = b[j]
  <2>1. ch.out \in Seq(Byte) /\ Len(ch.out) = Total
    BY <1>1 DEF TypeOK, ChannelRecord, Total
  <2>0. /\ ch.out \o b \in Seq(Byte) /\ Len(ch.out \o b) = Len(ch.out) + Len(b)
        /\ \A j \in 1 .. Len(ch.out) + Len(b) :
              (ch.out \o b)[j] = IF j <= Len(ch.out) THEN ch.out[j] ELSE b[j - Len(ch.out)]
    BY <1>9, <2>1, ConcatProperties, ZenonT(40)
  <2>2. /\ ch'.out \in Seq(Byte) /\ Len(ch'.out) = Total + g
        /\ \A j \in 1 .. Total + g : ch'.out[j] = IF j <= Total THEN ch.out[j] ELSE b[j - Total]
    <3> DEFINE o == ch.out \o b
    <3>1. /\ ch'.out = o /\ o \in Seq(Byte) /\ Len(o) = Len(ch.out) + Len(b)
          /\ \A j \in 1 .. Len(ch.out) + Len(b) :
                o[j] = IF j <= Len(ch.out) THEN ch.out[j] ELSE b[j - Len(ch.out)]
      BY <1>3, <2>0
    <3> HIDE DEF o
    <3>2. QED
      BY <1>9, <2>1, <3>1
  <2>3. \A j \in 1 .. Total : j \in 1 .. Total + g /\ j <= Total
    BY <1>4
  <2>4. \A j \in 1 .. g : /\ Total + j \in 1 .. Total + g /\ ~ (Total + j <= Total)
                          /\ (Total + j) - Total = j
    BY <1>4
  <2>5. QED
    BY <2>2, <2>3, <2>4 DEF Total
<1>11. TypeOK'
  BY <1>1, <1>2, <1>10 DEF TypeOK, ChannelRecord
<1>12. /\ Count' = n /\ Current' = Current /\ Into' = Into
       /\ \A i \in 1 .. n : Length(i)' = Length(i) /\ End(i)' = End(i)
  BY <1>3 DEF Count, Current, Into, Length, End
<1> PICK t \in Nat : t = Total
  BY <1>4
<1> PICK s \in Nat : s = ch.starts[n]
  BY <1>4, <1>6
<1>13. p + g <= Length(n) /\ End(n) = s + Length(n) /\ t = s + p /\ Length(n) \in Nat
  BY <1>4, <1>6, <1>7, <1>8 DEF End
<1>14. Total <= Total' /\ Total' <= End(n) /\ Total' \in Nat
  <2>1. Total' = t + g
    BY <1>10
  <2>2. t <= t + g /\ t + g <= s + Length(n) /\ t + g \in Nat
    BY <1>13
  <2>3. QED
    BY <1>13, <2>1, <2>2
<1>15. \A i \in 1 .. n : \A k \in 1 .. Length(i) :
           ch.starts[i] + k <= Total' => ch'.out[ch.starts[i] + k] = ch.sent[i].bytes[k]
  <2> SUFFICES ASSUME NEW i \in 1 .. n, NEW k \in 1 .. Length(i), ch.starts[i] + k <= Total'
               PROVE  ch'.out[ch.starts[i] + k] = ch.sent[i].bytes[k]
    OBVIOUS
  <2>1. k \in Nat \ {0} /\ ch.starts[i] \in Nat /\ k <= Length(i) /\ Length(i) \in Nat
    BY <1>4
  <2>2. CASE ch.starts[i] + k <= Total
    <3>1. ch.starts[i] + k \in 1 .. Total
      BY <1>4, <2>1, <2>2, SMTT(40)
    <3>2. QED
      BY <1>1, <1>10, <2>2, <3>1 DEF Layout
  <2>3. CASE ~ (ch.starts[i] + k <= Total)
    <3>1. i = n
      <4> SUFFICES ASSUME i < n PROVE FALSE
        BY <1>4
      <4>1. End(i) <= ch.starts[n]
        BY <1>1, <1>6 DEF Layout
      <4>2. ch.starts[i] + k <= End(i) /\ End(i) \in Nat /\ ch.starts[n] \in Nat
        BY <1>4, <1>6, <2>1 DEF End
      <4>3. End(i) <= s /\ ch.starts[i] + k <= s /\ s <= t
        BY <1>13, <2>1, <4>1, <4>2
      <4>4. QED
        BY <2>1, <2>3, <4>3
    <3> PICK j \in Int : j = s + k - t
      BY <2>1
    <3>2. ch.starts[i] = s /\ ~ (s + k <= t) /\ s + k <= t + g
      BY <1>10, <2>3, <3>1
    <3>3. j \in 1 .. g /\ t + j = s + k /\ p + j = k
      <4>1. k \in Int /\ t = s + p
        BY <1>13, <2>1
      <4>2. QED
        BY <3>2, <4>1
    <3>4. ch'.out[t + j] = ch.sent[n].bytes[k]
      BY <1>9, <1>10, <3>3
    <3>5. QED
      BY <3>1, <3>2, <3>3, <3>4
  <2>4. QED
    BY <2>2, <2>3
<1>16. Layout'
  <2>1. ch.starts[n] <= Total'
    BY <1>4, <1>6, <1>14
  <2>2. /\ Count' = n /\ n > 0 /\ ch'.sent = ch.sent /\ ch'.starts = ch.starts
        /\ ch.starts[1] = 0 /\ Len(ch.starts) = n
        /\ \A i \in 1 .. n : WellFormed(ch.sent[i])
        /\ \A i, j \in 1 .. n : i < j => End(i) <= ch.starts[j]
    BY <1>1, <1>3, <1>5, <1>12 DEF Layout
  <2>3. \A i \in 1 .. n - 1 : ch.starts[i + 1] = End(i)'
    <3> TAKE i \in 1 .. n - 1
    <3>1. i \in 1 .. n
      BY <1>4
    <3>2. QED
      BY <1>1, <1>12, <3>1 DEF Layout
  <2>4. Total' <= End(n)'
    BY <1>6, <1>12, <1>14
  <2>5. \A i, j \in 1 .. n : i < j => End(i)' <= ch.starts[j]
    BY <1>12, <2>2
  <2>6. \A i \in 1 .. n : \A k \in 1 .. Length(i)' :
           ch.starts[i] + k <= Total' => ch'.out[ch.starts[i] + k] = ch.sent[i].bytes[k]
    BY <1>12, <1>15
  <2>7. QED
    BY <2>1, <2>2, <2>3, <2>4, <2>5, <2>6 DEF Layout
<1>17. AtTheEnd'
  BY <1>1, <1>2, <1>3, <1>4, <1>14 DEF AtTheEnd
<1>18. Position'
  <2> SUFFICES ASSUME ch'.astray = {}, ~ ch'.eof PROVE Position'
    BY DEF Position
  <2> PICK c \in Nat \ {0} : c = Current
    BY <1>4
  <2>1. c <= n + 1 /\ c # n + 1 /\ c \in 1 .. n
    BY <1>1, <1>2, <1>3, <1>4 DEF Position
  <2>2. QED
    BY <1>1, <1>3, <1>12, <2>1 DEF Position
<1>19. ReceivedAsSent'
  BY <1>1, <1>3 DEF ReceivedAsSent
<1>20. QED
  BY <1>11, <1>16, <1>17, <1>18, <1>19 DEF IInv

LEMMA ClosePreserves ==
    ASSUME IInv, Close
    PROVE  IInv'
<1>1. TypeOK /\ Layout /\ AtTheEnd /\ Position /\ ReceivedAsSent
  BY DEF IInv
<1>2. ch' = [ch EXCEPT !.open = FALSE] /\ ch.open
  BY DEF Close
<1>3. /\ ch'.out = ch.out /\ ch'.sent = ch.sent /\ ch'.starts = ch.starts
      /\ ch'.read = ch.read /\ ch'.pc = ch.pc
      /\ ch'.type = ch.type /\ ch'.size = ch.size /\ ch'.data = ch.data
      /\ ch'.taken = ch.taken /\ ch'.got = ch.got /\ ch'.eof = ch.eof
      /\ ch'.astray = ch.astray
  BY <1>1, <1>2 DEF TypeOK, ChannelRecord
<1>4. TypeOK'
  BY <1>1, <1>2 DEF TypeOK, ChannelRecord
<1>5. /\ Layout' /\ Count' = Count /\ Total' = Total /\ Sending' = Sending
      /\ \A i \in 1 .. Count : Length(i)' = Length(i)
  BY <1>1, <1>3, SameStream
<1>6. AtTheEnd'
  BY <1>1, <1>2, <1>3, <1>5 DEF AtTheEnd
<1>7. Position'
  <2> SUFFICES ASSUME ch'.astray = {}, ~ ch'.eof PROVE Position'
    BY DEF Position
  <2> PICK c \in Nat \ {0} : c = Current
    BY <1>1, ItemFacts
  <2>1. Current' = Current /\ Into' = Into
    BY <1>3 DEF Current, Into
  <2>2. c <= Count => c \in 1 .. Count
    BY <1>1, ItemFacts
  <2>3. c <= Count => Length(c)' = Length(c)
    BY <1>5, <2>2
  <2>4. QED
    BY <1>1, <1>3, <1>5, <2>1, <2>3 DEF Position
<1>8. ReceivedAsSent'
  BY <1>1, <1>3 DEF ReceivedAsSent
<1>9. QED
  BY <1>4, <1>5, <1>6, <1>7, <1>8 DEF IInv

-----------------------------------------------------------------------------
(* The receiver's steps. *)

LEMMA AskPreserves ==
    ASSUME IInv, NEW pc \in {"bare", "type"}, NEW n \in Nat, Ask(pc, n)
    PROVE  IInv'
<1>1. TypeOK /\ Layout /\ AtTheEnd /\ Position /\ ReceivedAsSent
  BY DEF IInv
<1>2. /\ ch' = [ch EXCEPT !.pc = pc, !.want = n, !.type = 0, !.size = 0,
                        !.data = <<>>, !.taken = 0]
      /\ ch.pc = "idle"
  BY DEF Ask
<1>3. /\ ch'.out = ch.out /\ ch'.sent = ch.sent /\ ch'.starts = ch.starts
      /\ ch'.read = ch.read /\ ch'.pc = pc /\ ch'.got = ch.got /\ ch'.eof = ch.eof
      /\ ch'.astray = ch.astray /\ ch'.open = ch.open /\ ch'.data = <<>>
  BY <1>1, <1>2 DEF TypeOK, ChannelRecord
<1>4. TypeOK'
  <2>1. 0 \in Byte /\ <<>> \in Seq(Byte) /\ pc \in Pcs /\ 0 \in Nat
    BY DEF Byte, Pcs
  <2>2. ch'.size = 0 /\ 0 \div 256 = 0
    BY <1>1, <1>2 DEF TypeOK, ChannelRecord
  <2>3. ch' \in ChannelRecord
    BY <1>1, <1>2, <2>1 DEF TypeOK, ChannelRecord
  <2>4. QED
    BY <2>1, <2>2, <2>3 DEF TypeOK
<1>5. /\ Layout' /\ Count' = Count /\ Total' = Total /\ Sending' = Sending
      /\ \A i \in 1 .. Count : Length(i)' = Length(i)
  BY <1>1, <1>3, SameStream
<1>6. AtTheEnd'
  BY <1>1, <1>2, <1>3, <1>5 DEF AtTheEnd
<1>7. Position'
  <2> SUFFICES ASSUME ch'.astray = {}, ~ ch'.eof PROVE Position'
    BY DEF Position
  <2> PICK c \in Nat \ {0} : c = Current
    BY <1>1, ItemFacts
  <2>1. Current' = Current /\ Into' = 0 /\ Into = 0
    BY <1>2, <1>3 DEF Current, Into
  <2>2. c <= Count => c \in 1 .. Count
    BY <1>1, ItemFacts
  <2>3. c <= Count => Length(c)' = Length(c)
    BY <1>5, <2>2
  <2>4. QED
    BY <1>1, <1>3, <1>5, <2>1, <2>3 DEF Position
<1>8. ReceivedAsSent'
  BY <1>1, <1>3 DEF ReceivedAsSent
<1>9. QED
  BY <1>4, <1>5, <1>6, <1>7, <1>8 DEF IInv

(* What is received is bytes, and the message made of it is an item. *)
LEMMA BytesTyped ==
    ASSUME TypeOK, Layout, NEW k \in Nat \ {0}, ch.read + k <= Total
    PROVE  /\ Bytes(k) \in Seq(Byte) /\ Len(Bytes(k)) = k
           /\ \A j \in 1 .. k : ch.out[ch.read + j] \in Byte
<1> DEFINE b == Bytes(k)
<1> PICK r \in Nat : r = ch.read
  BY ItemFacts
<1>1. Total \in Nat /\ r + k <= Total
  BY ItemFacts
<1>2. ch.out \in Seq(Byte) /\ \A j \in 1 .. Total : ch.out[j] \in Byte
  BY ElementOfSeq DEF TypeOK, ChannelRecord, Total
<1>3. \A j \in r + 1 .. r + k : ch.out[j] \in Byte
  <2> TAKE j \in r + 1 .. r + k
  <2>1. j \in 1 .. Total
    BY <1>1
  <2>2. QED
    BY <1>2, <2>1
<1>4. r + 1 \in Int /\ r + k \in Int /\ r + 1 <= r + k /\ (r + k) - (r + 1) + 1 = k
  OBVIOUS
<1>5. b \in Seq(Byte) /\ Len(b) = k
  BY <1>3, <1>4, SubSeqProperties DEF Bytes
<1>6. \A j \in 1 .. k : r + j \in r + 1 .. r + k
  OBVIOUS
<1>7. QED
  BY <1>3, <1>5, <1>6

LEMMA TakenTyped ==
    ASSUME TypeOK, NEW size \in Nat, size \div 256 \in Byte, NEW data \in Seq(Byte)
    PROVE  Taken(size, data) \in ItemRecord
<1> DEFINE h == << ch.type, size % 256, size \div 256 >>
<1>1. size % 256 \in Byte
  BY DEF Byte
<1>2. h \in Seq(Byte)
  BY <1>1 DEF TypeOK, ChannelRecord
<1> HIDE DEF h
<1>3. h \o data \in Seq(Byte)
  BY <1>2, ConcatProperties
<1>4. QED
  BY <1>3 DEF ItemRecord, Taken, h

(* A recv that moves on within the stream leaves the end unseen. *)
LEMMA Advanced ==
    ASSUME TypeOK, Layout, AtTheEnd, NEW n \in Int, NEW k \in Arrived(n),
           ch'.sent = ch.sent, ch'.starts = ch.starts, ch'.out = ch.out,
           ch'.read = ch.read + k, ch'.eof = ch.eof
    PROVE  Layout' /\ AtTheEnd' /\ ~ ch'.eof
<1>1. k \in Nat \ {0} /\ k <= n /\ ch.read + k <= Total /\ ~ ch.eof
  BY ArrivedFacts
<1>2. Layout' /\ Total' = Total
  BY SameStream
<1>3. QED
  BY <1>1, <1>2 DEF AtTheEnd

(* Something arrived, so the receiver is at an item that has been begun. *)
LEMMA AtAnItem ==
    ASSUME IInv, ch.astray = {}, NEW n \in Int, NEW k \in Arrived(n)
    PROVE  /\ Current \in 1 .. Count /\ ~ ch.eof
           /\ ch.read = ch.starts[Current] + Into /\ Into < Length(Current) /\ Into \in Nat
<1>1. TypeOK /\ Layout /\ AtTheEnd /\ Position
  BY DEF IInv
<1>2. k \in Nat \ {0} /\ ch.read + k <= Total /\ ~ ch.eof
  BY <1>1, ArrivedFacts
<1>3. Count \in Nat /\ Total \in Nat /\ ch.read \in Nat /\ Current \in Nat \ {0}
  BY <1>1, ItemFacts
<1>4. Current <= Count + 1 /\ Current # Count + 1
  BY <1>1, <1>2, <1>3 DEF Position
<1>5. Current \in 1 .. Count
  BY <1>3, <1>4
<1>6. Into \in Nat
  BY <1>1 DEF Into, TypeOK, ChannelRecord
<1>7. QED
  BY <1>1, <1>2, <1>3, <1>5, <1>6 DEF Position

LEMMA RecvBarePreserves ==
    ASSUME IInv, RecvBare
    PROVE  IInv'
<1>1. TypeOK /\ Layout /\ AtTheEnd /\ Position /\ ReceivedAsSent
  BY DEF IInv
<1>2. ch.want \in Int /\ ch.pc = "bare"
  BY <1>1 DEF TypeOK, ChannelRecord, RecvBare
<1> PICK k \in Arrived(ch.want) :
        ch' = [ch EXCEPT !.read = @ + k, !.pc = "idle", !.got = Receive(Bare(Bytes(k))),
                         !.astray = @ \cup (IF Agrees("bare", ch.want)
                                            THEN Short(k, ch.want) ELSE {"mixed"})]
  BY DEF RecvBare
<1>3. k \in Nat \ {0} /\ k <= ch.want /\ ch.read + k <= Total /\ ~ ch.eof
  BY <1>1, <1>2, ArrivedFacts
<1>4. Bytes(k) \in Seq(Byte) /\ Len(Bytes(k)) = k
  BY <1>1, <1>3, BytesTyped
<1> DEFINE g == [item |-> Bare(Bytes(k)), whole |-> TRUE]
           astray == IF Agrees("bare", ch.want) THEN Short(k, ch.want) ELSE {"mixed"}
<1>5. /\ ch'.sent = ch.sent /\ ch'.starts = ch.starts /\ ch'.out = ch.out
      /\ ch'.read = ch.read + k /\ ch'.pc = "idle" /\ ch'.eof = ch.eof
      /\ ch'.got = Append(ch.got, g)
      /\ ch'.astray = ch.astray \cup astray
  BY <1>1 DEF TypeOK, ChannelRecord, Receive
<1>6. TypeOK'
  <2>1. g \in GotRecord
    BY <1>4 DEF GotRecord, ItemRecord, Bare
  <2>2. Append(ch.got, g) \in Seq(GotRecord)
    BY <1>1, <2>1, AppendProperties DEF TypeOK, ChannelRecord
  <2>3. ch.read + k \in Nat /\ "idle" \in Pcs
    BY <1>1, <1>3, ItemFacts DEF Pcs
  <2>4. ch.astray \cup astray \in SUBSET {"short", "mixed"}
    BY <1>1 DEF TypeOK, ChannelRecord, Short
  <2> HIDE DEF g, astray
  <2>5. ch' = [ch EXCEPT !.read = ch.read + k, !.pc = "idle", !.got = Append(ch.got, g),
                         !.astray = ch.astray \cup astray]
    BY <1>1 DEF TypeOK, ChannelRecord, Receive, g, astray
  <2>6. QED
    BY <1>1, <2>2, <2>3, <2>4, <2>5, ZenonT(40) DEF TypeOK, ChannelRecord
<1>7. Layout' /\ AtTheEnd'
  BY <1>1, <1>2, <1>5, Advanced
<1>8. CASE ch'.astray # {}
  BY <1>6, <1>7, <1>8 DEF IInv, Position, ReceivedAsSent
<1>9. CASE ch'.astray = {}
  <2>1. ch.astray = {} /\ Agrees("bare", ch.want) /\ ~ (k < ch.want)
    BY <1>5, <1>9 DEF Short
  <2>2. k = ch.want
    BY <1>2, <1>3, <2>1
  <2>3. /\ Current \in 1 .. Count /\ ch.read = ch.starts[Current] + Into /\ Into = 0
    BY <1>2, <2>1, AtAnItem DEF Into
  <2>4. ch.starts[Current] \in Nat /\ ch.read = ch.starts[Current] + 0
    BY <1>1, <2>3, ItemFacts
  <2> PICK i \in 1 .. Count : i = Current
    BY <2>3
  <2>5. PICK j \in 1 .. Count : /\ ch.starts[j] = ch.read /\ ch.sent[j].kind = "bare"
                               /\ Length(j) = ch.want
    <3>1. DOMAIN ch.sent = 1 .. Count
      BY <1>1 DEF Count, TypeOK, ChannelRecord
    <3>2. PICK j \in DOMAIN ch.sent : /\ ch.starts[j] = ch.read /\ ch.sent[j].kind = "bare"
                                     /\ Len(ch.sent[j].bytes) = ch.want
      BY <2>1 DEF Agrees
    <3>3. QED
      BY <3>1, <3>2 DEF Length
  <2>6. j = i
    BY <1>1, <2>4, <2>5, StartsDiffer
  <2>7. /\ ch.sent[i] = [kind |-> "bare", bytes |-> ch.sent[i].bytes]
        /\ ch.sent[i].bytes \in Seq(Byte) /\ Len(ch.sent[i].bytes) = k
    BY <1>1, <2>2, <2>5, <2>6, ItemFacts DEF ItemRecord, Length
  <2>8. \A q \in 1 .. k : Bytes(k)[q] = ch.sent[i].bytes[0 + q]
    BY <1>1, <1>3, <2>2, <2>4, <2>5, <2>6, BytesOfItem
  <2>9. \A q \in 1 .. k : Bytes(k)[q] = ch.sent[i].bytes[q]
    BY <1>3, <2>8
  <2>10. Bytes(k) = ch.sent[i].bytes
    BY <1>4, <2>7, <2>9, SeqEqual
  <2>11. g = [item |-> ch.sent[Current], whole |-> TRUE]
    BY <2>7, <2>10 DEF Bare
  <2>12. ch'.read = End(Current) /\ ch'.read <= Total /\ Current <= Count
    BY <1>3, <1>5, <2>2, <2>3, <2>4, <2>5, <2>6 DEF End
  <2>13. Position' /\ ReceivedAsSent'
    BY <1>3, <1>5, <2>1, <2>11, <2>12, ItemReceived
  <2>14. QED
    BY <1>6, <1>7, <2>13 DEF IInv
<1>10. QED
  BY <1>8, <1>9

LEMMA RecvTypePreserves ==
    ASSUME IInv, RecvType
    PROVE  IInv'
<1>1. TypeOK /\ Layout /\ AtTheEnd /\ Position /\ ReceivedAsSent
  BY DEF IInv
<1> PICK k \in Arrived(1) :
        /\ ch' = [ch EXCEPT !.read = @ + k, !.pc = "size", !.taken = k,
                         !.type = ch.out[ch.read + 1],
                         !.astray = @ \cup Mixed("message", 0)]
        /\ ch.pc = "type"
  BY DEF RecvType
<1>2. k \in Nat \ {0} /\ k <= 1 /\ ch.read + k <= Total /\ ~ ch.eof
  BY <1>1, ArrivedFacts
<1>3. k = 1 /\ ch.read + 1 <= Total
  BY <1>2
<1>4. ch.out[ch.read + 1] \in Byte
  BY <1>1, <1>3, BytesTyped
<1>5. /\ ch'.sent = ch.sent /\ ch'.starts = ch.starts /\ ch'.out = ch.out
      /\ ch'.read = ch.read + k /\ ch'.pc = "size" /\ ch'.taken = 1 /\ ch'.eof = ch.eof
      /\ ch'.got = ch.got /\ ch'.type = ch.out[ch.read + 1] /\ ch'.data = ch.data
      /\ ch'.astray = ch.astray \cup Mixed("message", 0)
  BY <1>1, <1>3 DEF TypeOK, ChannelRecord
<1>6. TypeOK'
  <2>1. ch.read + k \in Nat /\ "size" \in Pcs /\ k \in Nat
    BY <1>1, <1>3, ItemFacts DEF Pcs
  <2>2. ch.astray \cup Mixed("message", 0) \in SUBSET {"short", "mixed"}
    BY <1>1 DEF TypeOK, ChannelRecord, Mixed
  <2>3. QED
    BY <1>1, <1>4, <2>1, <2>2 DEF TypeOK, ChannelRecord
<1>7. Layout' /\ AtTheEnd'
  BY <1>1, <1>5, Advanced
<1>8. ReceivedAsSent'
  BY <1>1, <1>5 DEF ReceivedAsSent
<1>9. Position'
  <2> SUFFICES ASSUME ch'.astray = {} PROVE Position'
    BY DEF Position
  <2>1. ch.astray = {} /\ Agrees("message", 0)
    BY <1>5 DEF Mixed
  <2>2. Current \in 1 .. Count /\ ch.read = ch.starts[Current] + Into /\ Into = 0
    BY <2>1, AtAnItem DEF Into
  <2> PICK c \in 1 .. Count : c = Current
    BY <2>2
  <2>3. /\ ch.starts[c] \in Nat /\ ch.read = ch.starts[c] + 0 /\ WellFormed(ch.sent[c])
        /\ Length(c) \in Nat \ {0} /\ Count \in Nat
    BY <1>1, <2>2, ItemFacts
  <2>4. PICK j \in 1 .. Count : ch.starts[j] = ch.read /\ ch.sent[j].kind = "message"
    <3>1. DOMAIN ch.sent = 1 .. Count
      BY <1>1 DEF Count, TypeOK, ChannelRecord
    <3>2. \E j \in DOMAIN ch.sent : ch.starts[j] = ch.read /\ ch.sent[j].kind = "message"
      BY <2>1 DEF Agrees
    <3>3. QED
      BY <3>1, <3>2
  <2>5. j = c
    BY <1>1, <2>3, <2>4, StartsDiffer
  <2>6. Length(c) >= 3
    BY <2>3, <2>4, <2>5 DEF WellFormed, Length, HEADER
  <2>7. ch.out[ch.read + 1] = ch.sent[c].bytes[1]
    <3> PICK p \in Nat : p = 0
      OBVIOUS
    <3>1. ch.read = ch.starts[c] + p /\ p + k <= Length(c)
      BY <1>3, <2>3, <2>6
    <3>2. \A q \in 1 .. k : ch.out[ch.read + q] = ch.sent[c].bytes[p + q]
      BY <1>1, <1>2, <3>1, BytesOfItem
    <3>3. 1 \in 1 .. k /\ p + 1 = 1
      BY <1>3
    <3>4. QED
      BY <3>2, <3>3
  <2>8. ch'.type = Type(ch'.sent[c])
    BY <1>5, <2>7 DEF Type
  <2>9. Count' = Count /\ Length(c)' = Length(c) /\ Current' = c /\ Into' = 1
    BY <1>1, <1>5 DEF Count, Length, Current, Into
  <2>10. /\ c <= Count /\ c <= Count + 1 /\ c # Count + 1 /\ 1 < Length(c)
         /\ \A q \in 1 .. c - 1 : ch.got[q].whole
    BY <1>1, <1>2, <2>1, <2>3, <2>6 DEF Position
  <2>11. ch'.data = <<>>
    BY <1>1, <1>2, <1>5, <2>1 DEF Position
  <2>12. ch'.read = ch'.starts[c] + 1 /\ ch'.sent[c].kind = "message"
    BY <1>3, <1>5, <2>3, <2>4, <2>5
  <2>13. QED
    BY <1>5, <2>8, <2>9, <2>10, <2>11, <2>12 DEF Position
<1>10. QED
  BY <1>6, <1>7, <1>8, <1>9 DEF IInv

LEMMA SizeRead ==
    ASSUME ch \in ChannelRecord, NEW read \in Nat, NEW size \in Nat, NEW taken \in Nat,
           NEW pc \in Pcs, NEW got \in Seq(GotRecord), NEW astray \in SUBSET {"short", "mixed"},
           ch' = [ch EXCEPT !.read = read, !.size = size, !.taken = taken, !.pc = pc,
                            !.got = got, !.astray = astray]
    PROVE  ch' \in ChannelRecord
  BY DEF ChannelRecord

LEMMA RecvSizePreserves ==
    ASSUME IInv, RecvSize
    PROVE  IInv'
<1>1. TypeOK /\ Layout /\ AtTheEnd /\ Position /\ ReceivedAsSent
  BY DEF IInv
<1>0. HEADER - 1 = 2
  BY DEF HEADER
<1> DEFINE Sz(k) == SizeOf(ch.out[ch.read + 1], IF k = 2 THEN ch.out[ch.read + 2] ELSE 0)
<1>12. PICK k \in Arrived(2) :
        /\ ch' = [ch EXCEPT !.read = @ + k, !.size = Sz(k), !.taken = @ + k,
                         !.pc = IF Sz(k) > 0 THEN "data" ELSE "idle",
                         !.got = IF Sz(k) > 0 THEN @ ELSE Receive(Taken(0, <<>>)),
                         !.astray = @ \cup Short(k, 2)]
        /\ ch.pc = "size"
  BY <1>0 DEF RecvSize
<1>2. k \in Nat \ {0} /\ k <= 2 /\ ch.read + k <= Total /\ ~ ch.eof
  BY <1>1, ArrivedFacts
<1>3. k \in {1, 2}
  BY <1>2
<1> PICK lo \in Byte : lo = ch.out[ch.read + 1]
  BY <1>1, <1>2, <1>3, BytesTyped
<1> PICK hi \in Byte : hi = IF k = 2 THEN ch.out[ch.read + 2] ELSE 0
  <2>1. 0 \in Byte
    BY DEF Byte
  <2>2. k = 2 => ch.out[ch.read + 2] \in Byte
    BY <1>1, <1>2, BytesTyped
  <2>3. QED
    BY <2>1, <2>2
<1>4. PICK size : size = lo + 256 * hi /\ size = Sz(k)
  BY DEF SizeOf
<1> HIDE DEF Sz
<1>5. size \in Nat /\ size \div 256 \in Byte
  <2>1. size \div 256 = hi
    BY <1>4, DivMod
  <2>2. lo \in Nat /\ hi \in Nat
    BY SMTT(40) DEF Byte
  <2>3. size \in Nat
    BY <1>4, <2>2
  <2>4. QED
    BY <2>1, <2>3
<1> DEFINE g == [item |-> Taken(0, <<>>), whole |-> TRUE]
<1>6. /\ ch'.sent = ch.sent /\ ch'.starts = ch.starts /\ ch'.out = ch.out
      /\ ch'.read = ch.read + k /\ ch'.taken = ch.taken + k /\ ch'.eof = ch.eof
      /\ ch'.pc = (IF size > 0 THEN "data" ELSE "idle") /\ ch'.size = size
      /\ ch'.got = (IF size > 0 THEN ch.got ELSE Append(ch.got, g))
      /\ ch'.type = ch.type /\ ch'.data = ch.data
      /\ ch'.astray = ch.astray \cup Short(k, 2)
  BY <1>1, <1>4, <1>12 DEF TypeOK, ChannelRecord, Receive
<1>7. TypeOK'
  <2>1. g \in GotRecord
    <3>1. 0 \in Nat /\ 0 \div 256 \in Byte /\ <<>> \in Seq(Byte) /\ ch.type \in Byte
      BY <1>1, SMTT(40) DEF Byte, TypeOK, ChannelRecord
    <3> PICK z \in Nat : z = 0
      OBVIOUS
    <3>2. \E d \in Seq(Byte) : d = <<>>
      BY <3>1
    <3> PICK d \in Seq(Byte) : d = <<>>
      BY <3>2
    <3>5. z \div 256 \in Byte
      BY <3>1
    <3>3. Taken(z, d) \in ItemRecord
      BY <1>1, <3>5, TakenTyped
    <3>4. QED
      BY <3>3 DEF GotRecord
  <2>2. Append(ch.got, g) \in Seq(GotRecord)
    BY <1>1, <2>1, AppendProperties DEF TypeOK, ChannelRecord
  <2>3. /\ ch.read + k \in Nat /\ ch.taken + k \in Nat
        /\ (IF size > 0 THEN "data" ELSE "idle") \in Pcs
    <3>1. ch.read \in Nat /\ ch.taken \in Nat
      BY <1>1 DEF TypeOK, ChannelRecord
    <3>2. QED
      BY <1>3, <3>1 DEF Pcs
  <2>8. (IF size > 0 THEN ch.got ELSE Append(ch.got, g)) \in Seq(GotRecord)
    BY <1>1, <2>2 DEF TypeOK, ChannelRecord
  <2>4. ch.astray \cup Short(k, 2) \in SUBSET {"short", "mixed"}
    BY <1>1 DEF TypeOK, ChannelRecord, Short
  <2> HIDE DEF g
  <2>5. ch' = [ch EXCEPT !.read = ch.read + k, !.size = size, !.taken = ch.taken + k,
                         !.pc = IF size > 0 THEN "data" ELSE "idle",
                         !.got = IF size > 0 THEN ch.got ELSE Append(ch.got, g),
                         !.astray = ch.astray \cup Short(k, 2)]
    BY <1>1, <1>4, <1>12 DEF TypeOK, ChannelRecord, Receive, g
  <2>6. ch' \in ChannelRecord
    <3> PICK got \in Seq(GotRecord) : got = IF size > 0 THEN ch.got ELSE Append(ch.got, g)
      BY <2>8
    <3> PICK next \in Pcs : next = IF size > 0 THEN "data" ELSE "idle"
      BY <2>3
    <3> PICK astray \in SUBSET {"short", "mixed"} : astray = ch.astray \cup Short(k, 2)
      BY <2>4
    <3> PICK read \in Nat : read = ch.read + k
      BY <2>3
    <3> PICK taken \in Nat : taken = ch.taken + k
      BY <2>3
    <3>1. ch' = [ch EXCEPT !.read = read, !.size = size, !.taken = taken, !.pc = next,
                           !.got = got, !.astray = astray]
      BY <2>5
    <3>2. ch \in ChannelRecord /\ size \in Nat
      BY <1>1, <1>5 DEF TypeOK
    <3>3. QED
      BY <3>1, <3>2, SizeRead, ZenonT(40)
  <2>7. QED
    BY <1>5, <1>6, <2>6 DEF TypeOK
<1>8. Layout' /\ AtTheEnd'
  BY <1>1, <1>6, Advanced
<1>9. CASE ch'.astray # {}
  BY <1>7, <1>8, <1>9 DEF IInv, Position, ReceivedAsSent
<1>10. CASE ch'.astray = {}
  <2>1. ch.astray = {} /\ ~ (k < 2)
    BY <1>6, <1>10 DEF Short
  <2>2. k = 2
    BY <1>3, <2>1
  <2>3. Current \in 1 .. Count /\ ch.read = ch.starts[Current] + Into
    BY <2>1, AtAnItem
  <2> PICK c \in 1 .. Count : c = Current
    BY <2>3
  <2>4. /\ ch.taken = 1 /\ Into = 1 /\ ch.data = <<>>
        /\ ch.sent[c].kind = "message" /\ ch.type = Type(ch.sent[c])
        /\ \A q \in 1 .. c - 1 : ch.got[q].whole
    BY <1>1, <1>2, <1>12, <2>1 DEF Position, Into
  <2>5. /\ ch.starts[c] \in Nat /\ ch.read = ch.starts[c] + 1 /\ WellFormed(ch.sent[c])
        /\ Length(c) \in Nat \ {0} /\ Count \in Nat
    BY <1>1, <2>3, <2>4, ItemFacts
  <2>6. Length(c) = 3 + Size(ch.sent[c]) /\ Length(c) >= 3
    BY <2>4, <2>5 DEF WellFormed, Length, HEADER, Size
  <2>7. \A j \in 1 .. 2 : ch.out[ch.read + j] = ch.sent[c].bytes[1 + j]
    <3> PICK p \in Nat : p = 1
      OBVIOUS
    <3>1. ch.read = ch.starts[c] + p /\ p + k <= Length(c)
      BY <2>2, <2>5, <2>6
    <3>2. \A q \in 1 .. k : ch.out[ch.read + q] = ch.sent[c].bytes[p + q]
      BY <1>1, <1>2, <3>1, BytesOfItem
    <3>3. QED
      BY <2>2, <3>2
  <2>8. lo = ch.sent[c].bytes[2] /\ hi = ch.sent[c].bytes[3]
    <3>1. 1 \in 1 .. 2 /\ 2 \in 1 .. 2 /\ 1 + 1 = 2 /\ 1 + 2 = 3
      OBVIOUS
    <3>2. QED
      BY <2>2, <2>7, <3>1
  <2>9. Size(ch.sent[c]) = size
    BY <1>4, <2>8 DEF Size, SizeOf
  <2>10. ch'.read = ch'.starts[c] + 3
    BY <1>6, <2>2, <2>5
  <2>11. CASE size > 0
    <3>1. Count' = Count /\ Length(c)' = Length(c) /\ Current' = c /\ Into' = 3
      BY <1>6, <2>2, <2>4, <2>11 DEF Count, Length, Current, Into
    <3>2. c <= Count /\ c <= Count + 1 /\ c # Count + 1 /\ 3 < Length(c)
      BY <1>5, <2>5, <2>6, <2>9, <2>11
    <3>3. ch'.data = <<>> /\ Len(ch'.data) = 0 /\ ch'.taken = 3
      BY <1>6, <2>2, <2>4
    <3>4. ch'.taken = HEADER + Len(ch'.data)
      BY <3>3 DEF HEADER
    <3>5. /\ ch'.pc = "data" /\ ch'.size = Size(ch'.sent[c]) /\ ch'.type = Type(ch'.sent[c])
          /\ ch'.sent[c].kind = "message" /\ Len(ch'.data) < ch'.size
      BY <1>6, <2>4, <2>9, <2>11, <3>3
    <3>6. \A q \in 1 .. c - 1 : ch'.got[q].whole
      BY <1>6, <2>4, <2>11
    <3>7. \A q \in 1 .. Len(ch'.data) : FALSE
      BY <3>3
    <3>8. Position'
      BY <2>10, <3>1, <3>2, <3>3, <3>4, <3>5, <3>6, <3>7 DEF Position
    <3>9. ReceivedAsSent'
      BY <1>1, <1>6, <2>1, <2>11 DEF ReceivedAsSent
    <3>10. QED
      BY <1>7, <1>8, <3>8, <3>9 DEF IInv
  <2>12. CASE ~ (size > 0)
    <3>1. size = 0
      BY <1>5, <2>12
    <3>2. Taken(0, <<>>) = ch.sent[c]
      <4>5. \E d \in Seq(Byte) : d = <<>>
        <5>1. <<>> \in Seq(Byte)
          OBVIOUS
        <5>2. QED
          BY <5>1
      <4> PICK d \in Seq(Byte) : d = <<>>
        BY <4>5
      <4>1. Len(d) = 0 /\ Size(ch.sent[c]) = 0
        BY <2>9, <3>1
      <4>2. Len(d) = Size(ch.sent[c]) /\ \A q \in 1 .. Len(d) : d[q] = ch.sent[c].bytes[HEADER + q]
        BY <4>1
      <4>3. Taken(Size(ch.sent[c]), d) = ch.sent[c]
        BY <2>4, <2>5, <4>2, Rebuilt
      <4>4. QED
        BY <4>1, <4>3
    <3>3. ch'.read = End(Current) /\ ch'.read <= Total /\ Current <= Count /\ ch'.pc = "idle"
      BY <1>2, <1>6, <2>5, <2>6, <2>9, <2>10, <2>12, <3>1 DEF End
    <3>4. ch'.got = Append(ch.got, [item |-> ch.sent[Current], whole |-> TRUE])
      BY <1>6, <2>12, <3>2
    <3>5. Position' /\ ReceivedAsSent'
      BY <1>2, <1>6, <2>1, <3>3, <3>4, ItemReceived
    <3>6. QED
      BY <1>7, <1>8, <3>5 DEF IInv
  <2>13. QED
    BY <2>11, <2>12
<1>11. QED
  BY <1>9, <1>10

LEMMA DataRead ==
    ASSUME ch \in ChannelRecord, NEW read \in Nat, NEW data \in Seq(Byte), NEW taken \in Nat,
           NEW pc \in Pcs, NEW got \in Seq(GotRecord),
           ch' = [ch EXCEPT !.read = read, !.data = data, !.taken = taken, !.pc = pc, !.got = got]
    PROVE  ch' \in ChannelRecord
  BY DEF ChannelRecord

LEMMA RecvDataPreserves ==
    ASSUME FramingAssumption, IInv, RecvData
    PROVE  IInv'
<1>1. TypeOK /\ Layout /\ AtTheEnd /\ Position /\ ReceivedAsSent
  BY DEF IInv
<1>2. /\ ch.size \in Nat /\ ch.size \div 256 \in Byte /\ ch.data \in Seq(Byte)
      /\ Len(ch.data) \in Nat /\ ch.taken \in Nat /\ ch.read \in Nat /\ ch.type \in Byte
      /\ ch.got \in Seq(GotRecord) /\ ch \in ChannelRecord
  BY <1>1 DEF TypeOK, ChannelRecord
<1>3. ch.pc = "data"
  BY DEF RecvData
<1>18. PICK z \in Nat : z = ch.size
  BY <1>2
<1>19. PICK l \in Nat : l = Len(ch.data)
  BY <1>2
<1>4. PICK n \in Int : n = AtMost(z - l, MAX_CHUNK_SIZE) /\ n <= z - l
  BY FramingAssumption DEF FramingAssumption, AtMost
<1>5. PICK k \in Arrived(n) :
        ch' = [ch EXCEPT !.read = @ + k, !.data = ch.data \o Bytes(k), !.taken = @ + k,
                         !.pc = IF Len(ch.data \o Bytes(k)) < z THEN "data" ELSE "idle",
                         !.got = IF Len(ch.data \o Bytes(k)) < z THEN @
                                 ELSE Receive(Taken(z, ch.data \o Bytes(k)))]
  BY <1>4, <1>18, <1>19 DEF RecvData
<1>6. k \in Nat \ {0} /\ k <= z - l /\ ch.read + k <= Total /\ ~ ch.eof
  BY <1>1, <1>4, ArrivedFacts
<1>7. Bytes(k) \in Seq(Byte) /\ Len(Bytes(k)) = k
  BY <1>1, <1>6, BytesTyped
<1>8. PICK d \in Seq(Byte) :
        /\ d = ch.data \o Bytes(k) /\ Len(d) = l + k
        /\ \A j \in 1 .. l + k : d[j] = IF j <= l THEN ch.data[j] ELSE Bytes(k)[j - l]
  <2> DEFINE b == Bytes(k)
             d == ch.data \o b
  <2>1. /\ d \in Seq(Byte) /\ Len(d) = Len(ch.data) + Len(b)
        /\ \A j \in 1 .. Len(ch.data) + Len(b) :
              d[j] = IF j <= Len(ch.data) THEN ch.data[j] ELSE b[j - Len(ch.data)]
    BY <1>2, <1>7, ConcatProperties
  <2>2. Len(ch.data) = l /\ Len(b) = k
    BY <1>7, <1>19
  <2> HIDE DEF d, b
  <2>3. /\ d \in Seq(Byte) /\ Len(d) = l + k
        /\ \A j \in 1 .. l + k : d[j] = IF j <= l THEN ch.data[j] ELSE b[j - l]
    BY <2>1, <2>2
  <2>4. QED
    BY <2>3 DEF d, b
<1>16. k \in Nat \ {0} /\ k <= z - l
  BY <1>6
<1>20. PICK e \in Nat : e = l + k
  BY <1>16
<1>17. Len(d) = e
  BY <1>8, <1>20
<1>21. PICK done \in BOOLEAN : done <=> ~ (Len(d) < z)
  OBVIOUS
<1> DEFINE g == [item |-> Taken(z, d), whole |-> TRUE]
<1>9. ch' = [ch EXCEPT !.read = ch.read + k, !.data = d, !.taken = ch.taken + k,
                       !.pc = IF ~ done THEN "data" ELSE "idle",
                       !.got = IF ~ done THEN ch.got ELSE Append(ch.got, g)]
  BY <1>5, <1>8, <1>2, <1>18, <1>21 DEF Receive, ChannelRecord
<1>10. /\ ch'.sent = ch.sent /\ ch'.starts = ch.starts /\ ch'.out = ch.out
       /\ ch'.read = ch.read + k /\ ch'.taken = ch.taken + k /\ ch'.eof = ch.eof
       /\ ch'.pc = (IF ~ done THEN "data" ELSE "idle") /\ ch'.size = ch.size
       /\ ch'.got = (IF ~ done THEN ch.got ELSE Append(ch.got, g))
       /\ ch'.type = ch.type /\ ch'.data = d /\ ch'.astray = ch.astray
  BY <1>2, <1>9 DEF ChannelRecord
<1>11. TypeOK'
  <2>1. Taken(z, d) \in ItemRecord
    BY <1>1, <1>2, <1>18, TakenTyped
  <2>2. g \in GotRecord
    BY <2>1 DEF GotRecord
  <2>3. Append(ch.got, g) \in Seq(GotRecord)
    BY <1>2, <2>2, AppendProperties
  <2> HIDE DEF g
  <2> PICK got \in Seq(GotRecord) : got = IF ~ done THEN ch.got ELSE Append(ch.got, g)
    BY <1>2, <2>3
  <2>4. \E pc \in Pcs : pc = IF ~ done THEN "data" ELSE "idle"
    BY DEF Pcs
  <2> PICK pc \in Pcs : pc = IF ~ done THEN "data" ELSE "idle"
    BY <2>4
  <2> PICK read \in Nat : read = ch.read + k
    BY <1>2, <1>6
  <2> PICK taken \in Nat : taken = ch.taken + k
    BY <1>2, <1>6
  <2>5. ch' = [ch EXCEPT !.read = read, !.data = d, !.taken = taken, !.pc = pc, !.got = got]
    BY <1>9
  <2>6. ch' \in ChannelRecord
    BY <1>2, <2>5, DataRead
  <2>7. QED
    BY <1>2, <1>10, <2>6 DEF TypeOK
<1>12. Layout' /\ AtTheEnd'
  BY <1>1, <1>4, <1>10, Advanced
<1>13. CASE ch.astray # {}
  BY <1>10, <1>11, <1>12, <1>13 DEF IInv, Position, ReceivedAsSent
<1>14. CASE ch.astray = {}
  <2>1. Current \in 1 .. Count /\ ch.read = ch.starts[Current] + Into
    BY <1>14, AtAnItem
  <2> PICK c \in 1 .. Count : c = Current
    BY <2>1
  <2>2. /\ Into = HEADER + Len(ch.data)
        /\ z = Size(ch.sent[c]) /\ ch.taken = HEADER + Len(ch.data)
        /\ ch.sent[c].kind = "message" /\ ch.type = Type(ch.sent[c])
        /\ \A q \in 1 .. c - 1 : ch.got[q].whole
        /\ \A q \in 1 .. Len(ch.data) : ch.data[q] = ch.sent[c].bytes[HEADER + q]
    BY <1>1, <1>3, <1>6, <1>14, <1>18 DEF Position, Into
  <2>3. /\ ch.starts[c] \in Nat /\ WellFormed(ch.sent[c])
        /\ Length(c) \in Nat \ {0} /\ Count \in Nat
    BY <1>1, ItemFacts
  <2>4. Length(c) = 3 + z
    BY <2>2, <2>3 DEF WellFormed, Length, HEADER, Size
  <2>14. PICK p \in Nat : p = 3 + l
    OBVIOUS
  <2>5. /\ ch.read = ch.starts[c] + p /\ ch.taken = p /\ Into = p
        /\ \A q \in 1 .. l : ch.data[q] = ch.sent[c].bytes[3 + q]
    BY <1>19, <2>1, <2>2, <2>14 DEF HEADER
  <2>6. p + k <= Length(c) /\ l + k <= z
    BY <1>16, <2>4, <2>14
  <2>7. \A q \in 1 .. k : Bytes(k)[q] = ch.sent[c].bytes[p + q]
    BY <1>1, <1>6, <2>5, <2>6, BytesOfItem
  <2>8. \A j \in 1 .. l + k : d[j] = ch.sent[c].bytes[3 + j]
    <3> TAKE j \in 1 .. l + k
    <3>1. CASE j <= l
      <4>1. j \in 1 .. l
        BY <3>1
      <4>2. QED
        BY <1>8, <2>5, <3>1, <4>1
    <3>2. CASE ~ (j <= l)
      <4>1. j - l \in 1 .. k /\ p + (j - l) = 3 + j
        BY <1>16, <2>14, <3>2
      <4>2. d[j] = Bytes(k)[j - l]
        BY <1>8, <3>2
      <4>3. QED
        BY <2>7, <4>1, <4>2
    <3>3. QED
      BY <3>1, <3>2
  <2>9. \A j \in 1 .. Len(d) : d[j] = ch.sent[c].bytes[HEADER + j]
    BY <1>8, <2>8 DEF HEADER
  <2>10. ch'.read = ch'.starts[c] + (p + k)
    BY <1>10, <1>16, <2>3, <2>5
  <2>11. CASE ~ done
    <3>1. l + k < z
      BY <1>17, <1>20, <1>21, <2>11
    <3>11. PICK q \in Nat : q = p + k
      BY <1>16
    <3>2. Count' = Count /\ Length(c)' = Length(c) /\ Current' = c /\ Into' = q
      BY <1>10, <2>5, <2>11, <3>11 DEF Count, Length, Current, Into
    <3>3. c <= Count /\ c <= Count + 1 /\ c # Count + 1 /\ q < Length(c)
      <4>1. q = 3 + l + k
        BY <1>16, <2>14, <3>11
      <4>2. q < 3 + z
        BY <1>16, <3>1, <4>1
      <4>3. QED
        BY <2>3, <2>4, <4>2
    <3>4. ch'.taken = HEADER + Len(ch'.data)
      <4>1. ch'.taken = p + k /\ Len(ch'.data) = e
        BY <1>10, <1>17, <2>5
      <4>2. p + k = 3 + e
        BY <1>16, <1>20, <2>14
      <4>3. QED
        BY <4>1, <4>2 DEF HEADER
    <3>5. /\ ch'.pc = "data" /\ ch'.size = Size(ch'.sent[c]) /\ ch'.type = Type(ch'.sent[c])
          /\ ch'.sent[c].kind = "message" /\ Len(ch'.data) < ch'.size
      BY <1>10, <1>18, <1>21, <2>2, <2>11
    <3>6. \A j \in 1 .. c - 1 : ch'.got[j].whole
      BY <1>10, <2>2, <2>11
    <3>7. \A j \in 1 .. Len(ch'.data) : ch'.data[j] = ch'.sent[c].bytes[HEADER + j]
      BY <1>10, <2>9
    <3>8. Position'
      BY <2>10, <3>2, <3>3, <3>11, <3>4, <3>5, <3>6, <3>7 DEF Position
    <3>9. ReceivedAsSent'
      BY <1>1, <1>10, <1>14, <2>11 DEF ReceivedAsSent
    <3>10. QED
      BY <1>11, <1>12, <3>8, <3>9 DEF IInv
  <2>12. CASE done
    <3>1. Len(d) = z /\ l + k = z
      <4>1. ~ (e < z) /\ e <= z
        BY <1>17, <1>20, <1>21, <2>6, <2>12
      <4>2. e = z
        BY <4>1
      <4>3. QED
        BY <1>17, <1>20, <4>2
    <3>2. Taken(z, d) = ch.sent[c]
      BY <2>2, <2>3, <2>9, <3>1, Rebuilt
    <3>3. ch'.read = End(Current) /\ ch'.read <= Total /\ Current <= Count /\ ch'.pc = "idle"
      <4>1. ch.starts[c] + (p + k) = ch.starts[c] + Length(c)
        BY <1>16, <2>3, <2>4, <2>14, <3>1
      <4>2. QED
        BY <1>6, <1>10, <2>3, <2>10, <2>12, <4>1 DEF End
    <3>4. ch'.got = Append(ch.got, [item |-> ch.sent[Current], whole |-> TRUE])
      BY <1>10, <2>12, <3>2
    <3>5. Position' /\ ReceivedAsSent'
      BY <1>6, <1>10, <1>14, <3>3, <3>4, ItemReceived
    <3>6. QED
      BY <1>11, <1>12, <3>5 DEF IInv
  <2>13. QED
    BY <2>11, <2>12
<1>15. QED
  BY <1>13, <1>14

LEMMA RecvEofPreserves ==
    ASSUME IInv, RecvEof
    PROVE  IInv'
<1>1. TypeOK /\ Layout /\ AtTheEnd /\ Position /\ ReceivedAsSent
  BY DEF IInv
<1> DEFINE item == IF ch.pc = "bare" THEN Bare(<<>>) ELSE Taken(0, <<>>)
           g == [item |-> item, whole |-> FALSE]
<1>2. ch \in ChannelRecord /\ ch.got \in Seq(GotRecord)
  BY <1>1 DEF TypeOK, ChannelRecord
<1>3. item \in ItemRecord
  <2>1. <<>> \in Seq(Byte) /\ 0 \div 256 \in Byte /\ 0 \in Nat
    BY DEF Byte
  <2>2. \E d \in Seq(Byte) : d = <<>>
    BY <2>1
  <2> PICK d \in Seq(Byte) : d = <<>>
    BY <2>2
  <2> PICK z \in Nat : z = 0
    BY <2>1
  <2>3. z \div 256 \in Byte
    BY <2>1
  <2>4. Taken(z, d) \in ItemRecord
    BY <1>1, <2>3, TakenTyped
  <2>5. Bare(d) \in ItemRecord
    BY DEF Bare, ItemRecord
  <2>6. QED
    BY <2>4, <2>5
<1>4. g \in GotRecord
  BY <1>3 DEF GotRecord
<1>5. Append(ch.got, g) \in Seq(GotRecord)
  BY <1>2, <1>4, AppendProperties
<1> HIDE DEF g
<1> PICK got \in Seq(GotRecord) : got = IF ch.pc = "type" THEN ch.got ELSE Append(ch.got, g)
  BY <1>2, <1>5
<1>6. \E pc \in Pcs \ {"data"} : pc = IF ch.pc = "type" THEN "size" ELSE "idle"
  BY DEF Pcs
<1> PICK pc \in Pcs \ {"data"} : pc = IF ch.pc = "type" THEN "size" ELSE "idle"
  BY <1>6
<1>7. ch' = [ch EXCEPT !.eof = TRUE, !.pc = pc, !.got = got] /\ Ended
  BY <1>2 DEF RecvEof, ChannelRecord, g
<1>8. ch' \in ChannelRecord
  BY <1>2, <1>7 DEF ChannelRecord
<1>9. /\ ch'.sent = ch.sent /\ ch'.starts = ch.starts /\ ch'.out = ch.out
      /\ ch'.read = ch.read /\ ch'.open = ch.open /\ ch'.eof = TRUE /\ ch'.pc = pc
      /\ ch'.size = ch.size /\ ch'.got = got /\ ch'.astray = ch.astray
  BY <1>2, <1>7 DEF ChannelRecord
<1>10. TypeOK'
  BY <1>1, <1>8, <1>9 DEF TypeOK
<1>11. Layout' /\ Total' = Total
  BY <1>1, <1>9, SameStream
<1>12. AtTheEnd'
  BY <1>1, <1>7, <1>9, <1>11 DEF AtTheEnd, Ended, Total
<1>13. Position'
  BY <1>9 DEF Position
<1>14. ReceivedAsSent'
  <2> SUFFICES ASSUME ch.astray = {}, NEW j \in 1 .. Len(got), got[j].whole
               PROVE  j <= Len(ch.sent) /\ got[j].item = ch.sent[j]
    BY <1>9 DEF ReceivedAsSent
  <2>1. CASE ch.pc = "type"
    BY <1>1, <2>1 DEF ReceivedAsSent
  <2>2. CASE ch.pc # "type"
    <3>1. /\ Len(got) = Len(ch.got) + 1 /\ Len(ch.got) \in Nat
          /\ \A i \in 1 .. Len(ch.got) : got[i] = ch.got[i]
          /\ got[Len(ch.got) + 1] = g
      BY <1>2, <1>4, <2>2, AppendProperties
    <3>2. ~ g.whole
      BY DEF g
    <3>3. j \in 1 .. Len(ch.got)
      BY <3>1, <3>2
    <3>4. QED
      BY <1>1, <3>1, <3>3 DEF ReceivedAsSent
  <2>3. QED
    BY <2>1, <2>2
<1>15. QED
  BY <1>10, <1>11, <1>12, <1>13, <1>14 DEF IInv

(* A new connection. *)
LEMMA NewHolds ==
    ASSUME ch = New
    PROVE  IInv
<1>1. TypeOK
  <2>1. 0 \in Byte /\ 0 \div 256 \in Byte
    BY DEF Byte
  <2>2. New.size = 0 /\ New \in ChannelRecord
    BY <2>1 DEF New, ChannelRecord, Pcs
  <2>3. QED
    BY <2>1, <2>2 DEF TypeOK
<1>2. Count = 0 /\ Total = 0 /\ Current = 1 /\ Into = 0 /\ ~ Sending
  BY DEF New, Count, Total, Current, Into, Sending
<1>3. Layout
  BY <1>2 DEF Layout, New
<1>4. AtTheEnd /\ Position /\ ReceivedAsSent
  BY <1>2 DEF AtTheEnd, Position, ReceivedAsSent, New
<1>5. QED
  BY <1>1, <1>3, <1>4 DEF IInv

LEMMA ReopenPreserves ==
    ASSUME Reopen
    PROVE  IInv'
<1>1. TypeOK'
  <2>1. 0 \in Byte /\ 0 \div 256 \in Byte
    BY DEF Byte
  <2>2. New.size = 0 /\ New \in ChannelRecord
    BY <2>1 DEF New, ChannelRecord, Pcs
  <2>3. QED
    BY <2>1, <2>2 DEF TypeOK, Reopen
<1>2. Count' = 0 /\ Total' = 0 /\ Current' = 1 /\ Into' = 0 /\ ~ Sending'
  BY DEF Reopen, New, Count, Total, Current, Into, Sending
<1>3. Layout'
  BY <1>2 DEF Layout, Reopen, New
<1>4. AtTheEnd' /\ Position' /\ ReceivedAsSent'
  BY <1>2 DEF AtTheEnd, Position, ReceivedAsSent, Reopen, New
<1>5. QED
  BY <1>1, <1>3, <1>4 DEF IInv

-----------------------------------------------------------------------------
(* The theorems. *)

LEMMA StutterPreserves ==
    ASSUME IInv, UNCHANGED ch
    PROVE  IInv'
<1>1. TypeOK'
  BY DEF IInv, TypeOK
<1>2. Layout' /\ Count' = Count /\ Total' = Total /\ Sending' = Sending
  BY SameStream DEF IInv
<1>3. AtTheEnd' /\ ReceivedAsSent'
  BY <1>2 DEF IInv, AtTheEnd, ReceivedAsSent
<1>4. Position'
  <2>1. Current' = Current /\ Into' = Into /\ \A i \in Nat : Length(i)' = Length(i)
    BY DEF Current, Into, Length
  <2>2. Current \in Nat
    BY ItemFacts DEF IInv
  <2> PICK c \in Nat : c = Current
    BY <2>2
  <2>3. Length(c)' = Length(c)
    BY <2>1
  <2>4. QED
    BY <1>2, <2>1, <2>3 DEF IInv, Position
<1>5. QED
  BY <1>1, <1>2, <1>3, <1>4 DEF IInv

LEMMA NextPreserves ==
    ASSUME FramingAssumption, IInv, [Next]_ch
    PROVE  IInv'
<1>1. ASSUME NEW i \in Items, Start(i)
      PROVE  IInv'
  BY <1>1, FramingAssumption, StartPreserves DEF FramingAssumption
<1>2. ASSUME NEW i \in Items, AskBare(Len(i.bytes))
      PROVE  IInv'
  <2>1. Len(i.bytes) \in Nat
    BY FramingAssumption DEF FramingAssumption, WellFormed, ItemRecord
  <2> PICK n \in Nat : n = Len(i.bytes)
    BY <2>1
  <2>2. Ask("bare", n)
    BY <1>2 DEF AskBare
  <2>3. QED
    BY <2>2, AskPreserves
<1>3. ASSUME AskMessage
      PROVE  IInv'
  BY <1>3, AskPreserves DEF AskMessage
<1>4. CASE Send
  BY <1>4, FramingAssumption, SendPreserves
<1>5. CASE Close
  BY <1>5, ClosePreserves
<1>6. CASE Reopen
  BY <1>6, ReopenPreserves
<1>7. CASE Recv
  BY <1>7, FramingAssumption, RecvBarePreserves, RecvTypePreserves, RecvSizePreserves, RecvDataPreserves,
     RecvEofPreserves DEF Recv
<1>8. CASE UNCHANGED ch
  BY <1>8, StutterPreserves
<1>9. QED
  BY <1>1, <1>2, <1>3, <1>4, <1>5, <1>6, <1>7, <1>8 DEF Next

(* The items lie in the stream one after the other, and a receiver that    *)
(* has not gone astray is where its receives have brought it: the          *)
(* inductive invariant of send_message, receive_message and the bare sends *)
(* and recvs of Common.                                                    *)
THEOREM Inductive ==
    ASSUME FramingAssumption
    PROVE  Spec => []IInv
<1>1. Init => IInv
  BY NewHolds DEF Init
<1>2. IInv /\ [Next]_ch => IInv'
  BY NextPreserves
<1>3. QED
  BY <1>1, <1>2, PTL DEF Spec

(* The record of a connection keeps its type, whatever is sent and however *)
(* it is cut: no length leaves the field that carries it.                  *)
THEOREM TypeCorrect ==
    ASSUME FramingAssumption
    PROVE  Spec => []TypeOK
<1>1. IInv => TypeOK
  BY DEF IInv
<1>2. QED
  BY <1>1, Inductive, PTL

(* Whatever receive_message and recv return before the end of the stream   *)
(* is what was sent, unless a field of fixed size was read short or the    *)
(* wrong thing was asked for: for any items, chunk size and cuts.          *)
THEOREM FramesReceivedAsSent ==
    ASSUME FramingAssumption
    PROVE  Spec => []ReceivedAsSent
<1>1. IInv => ReceivedAsSent
  BY DEF IInv
<1>2. QED
  BY <1>1, Inductive, PTL

LEMMA WaitsWithinItem ==
    ASSUME IInv
    PROVE  SpinsOnCutItems
<1> SUFFICES ASSUME Spins, ch.astray = {}
             PROVE  Sending /\ Current = Count
  BY DEF SpinsOnCutItems, Current, Count
<1>1. TypeOK /\ Layout /\ AtTheEnd /\ Position
  BY DEF IInv
<1>2. ch.pc = "data" /\ ch.read = Total /\ ~ ch.eof
  BY <1>1 DEF Spins, Ended, AtTheEnd, Total
<1>3. Count \in Nat /\ Total \in Nat /\ Current \in Nat \ {0}
  BY <1>1, ItemFacts
<1> PICK c \in Nat \ {0} : c = Current
  BY <1>3
<1>4. c <= Count /\ ch.read = ch.starts[c] + Into /\ Into < Length(c) /\ Into \in Nat
  BY <1>1, <1>2 DEF Position, Into, TypeOK, ChannelRecord
<1>5. c \in 1 .. Count
  BY <1>3, <1>4
<1>6. /\ ch.starts[c] \in Nat /\ Length(c) \in Nat /\ End(c) \in Nat
  BY <1>1, <1>5, ItemFacts
<1>7. Total < End(c)
  BY <1>2, <1>4, <1>6 DEF End
<1>8. ~ (c < Count)
  <2> SUFFICES ASSUME c < Count PROVE FALSE
    OBVIOUS
  <2>1. Count \in 1 .. Count /\ ch.starts[Count] <= Total /\ End(c) <= ch.starts[Count]
    BY <1>1, <1>3, <1>5 DEF Layout
  <2>2. ch.starts[Count] \in Nat
    BY <1>1, <2>1, ItemFacts
  <2>3. QED
    BY <1>3, <1>6, <1>7, <2>1, <2>2
<1>9. c = Count
  BY <1>3, <1>4, <1>8
<1>10. QED
  BY <1>1, <1>3, <1>7, <1>9, SendingFacts

(* receive_message waits for ever (network_utils.c:43) only within the     *)
(* payload of an item whose sender closed before it was all sent.          *)
THEOREM FramesSpinOnCutItems ==
    ASSUME FramingAssumption
    PROVE  Spec => []SpinsOnCutItems
<1>1. IInv => SpinsOnCutItems
  BY WaitsWithinItem
<1>2. QED
  BY <1>1, Inductive, PTL

-----------------------------------------------------------------------------
(* What the programs at the two ends may rely on. *)

(* What a receiver that is in step with its sender can rely on. *)
LEMMA InStep ==
    ASSUME IInv
    PROVE  /\ ch.sent \in Seq(ItemRecord) /\ ch.got \in Seq(GotRecord)
           /\ \A i \in 1 .. Len(ch.sent) : WellFormed(ch.sent[i])
           /\ ch.pc \in Pcs /\ ch.astray \subseteq {"short", "mixed"} /\ ch.open \in BOOLEAN
           /\ ch.eof => ~ ch.open /\ ch.read = Len(ch.out)
           /\ ch.astray = {} /\ ~ ch.eof =>
                 /\ Len(ch.got) <= Len(ch.sent)
                 /\ Len(ch.got) = Len(ch.sent) => ~ Sending
           /\ ch.astray = {} => \A j \in 1 .. Len(ch.got) :
                 /\ ch.got[j].whole => j <= Len(ch.sent) /\ ch.got[j].item = ch.sent[j]
                 /\ ~ ch.eof => ch.got[j].whole
<1>1. TypeOK /\ Layout /\ AtTheEnd /\ Position /\ ReceivedAsSent
  BY DEF IInv
<1>2. /\ ch.sent \in Seq(ItemRecord) /\ ch.got \in Seq(GotRecord) /\ ch.pc \in Pcs
      /\ ch.astray \subseteq {"short", "mixed"} /\ ch.open \in BOOLEAN
  BY <1>1 DEF TypeOK, ChannelRecord
<1>3. \A i \in 1 .. Len(ch.sent) : WellFormed(ch.sent[i])
  BY <1>1 DEF Layout, Count
<1>4. ch.eof => ~ ch.open /\ ch.read = Len(ch.out)
  BY <1>1 DEF AtTheEnd, Total
<1>5. ASSUME ch.astray = {}, ~ ch.eof
      PROVE  /\ Len(ch.got) <= Len(ch.sent)
             /\ Len(ch.got) = Len(ch.sent) => ~ Sending
             /\ \A j \in 1 .. Len(ch.got) : ch.got[j].whole
  <2>1. Current = Len(ch.got) + 1 /\ Count = Len(ch.sent)
    BY DEF Current, Count
  <2>2. Len(ch.got) \in Nat /\ Len(ch.sent) \in Nat
    BY <1>2
  <2>3. /\ Current <= Count + 1
        /\ Current = Count + 1 => ~ Sending
        /\ \A j \in 1 .. Current - 1 : ch.got[j].whole
    BY <1>1, <1>5 DEF Position
  <2>4. \A n \in Nat : n + 1 - 1 = n
    OBVIOUS
  <2>5. Current - 1 = Len(ch.got)
    BY <2>1, <2>2, <2>4
  <2>6. \A j \in 1 .. Len(ch.got) : ch.got[j].whole
    BY <2>3, <2>5, Zenon
  <2>7. Len(ch.got) <= Len(ch.sent) /\ (Len(ch.got) = Len(ch.sent) => ~ Sending)
    BY <2>1, <2>2, <2>3
  <2>8. QED
    BY <2>6, <2>7
<1>6. QED
  BY <1>1, <1>2, <1>3, <1>4, <1>5 DEF ReceivedAsSent

(* What a recv does, as the programs see it: the receive goes on, or ends  *)
(* with one thing more received, of the kind asked for, which is empty if  *)
(* the stream has ended before it.                                         *)
LEMMA RecvMeans ==
    ASSUME FramingAssumption, IInv, Recv
    PROVE  /\ ch.pc # "idle"
           /\ ch'.sent = ch.sent /\ ch'.starts = ch.starts /\ ch'.out = ch.out
           /\ ch'.open = ch.open /\ ch'.want = ch.want
           /\ ch.astray \subseteq ch'.astray /\ (ch.eof => ch'.eof)
           /\ \/ ch.pc # "bare" /\ ch'.pc \in {"size", "data"} /\ ch'.got = ch.got
              \/ /\ ch'.pc = "idle"
                 /\ \E g \in GotRecord :
                      /\ ch'.got = Append(ch.got, g)
                      /\ g.item.kind = IF ch.pc = "bare" THEN "bare" ELSE "message"
                      /\ g.whole \/ ch'.eof
                      /\ ~ g.whole /\ ch.pc = "bare" => g.item.bytes = <<>>
                      /\ ~ g.whole /\ ch.pc # "bare" => Size(g.item) = 0
           /\ ch.read = Len(ch.out) => ch'.read = ch.read /\ ch'.astray = ch.astray
<1>1. TypeOK /\ Layout /\ AtTheEnd
  BY DEF IInv
<1>2. /\ ch \in ChannelRecord /\ ch.got \in Seq(GotRecord) /\ ch.want \in Int
      /\ ch.data \in Seq(Byte) /\ ch.size \in Nat /\ ch.read \in Nat /\ Total \in Nat
  BY <1>1, ItemFacts DEF TypeOK, ChannelRecord
<1>3. \A n \in Int : ch.read = Len(ch.out) => Arrived(n) = {}
  <2> SUFFICES ASSUME NEW n \in Int, NEW k \in Arrived(n), ch.read = Len(ch.out)
               PROVE  FALSE
    OBVIOUS
  <2>1. k \in Nat \ {0} /\ ch.read + k <= Total
    BY <1>1, ArrivedFacts
  <2>2. QED
    BY <1>2, <2>1 DEF Total
<1>4. IInv'
  BY RecvBarePreserves, RecvTypePreserves, RecvSizePreserves, RecvDataPreserves,
     RecvEofPreserves DEF Recv
<1>5. ch'.got \in Seq(GotRecord)
  BY <1>4 DEF IInv, TypeOK, ChannelRecord
<1>6. ASSUME NEW g, ch'.got = Append(ch.got, g)
      PROVE  g \in GotRecord
  <2>1. Len(ch'.got) = Len(ch.got) + 1 /\ ch'.got[Len(ch.got) + 1] = g
    BY <1>2, <1>6, <1>5
  <2>2. QED
    BY <1>2, <1>5, <2>1, ElementOfSeq
<1>7. \A data : Taken(0, data).kind = "message" /\ Taken(ch.size, data).kind = "message"
  BY DEF Taken
<1>8. CASE RecvBare
  <2> PICK k \in Arrived(ch.want) :
        ch' = [ch EXCEPT !.read = @ + k, !.pc = "idle", !.got = Receive(Bare(Bytes(k))),
                         !.astray = @ \cup (IF Agrees("bare", ch.want)
                                            THEN Short(k, ch.want) ELSE {"mixed"})]
    BY <1>8 DEF RecvBare
  <2> DEFINE g == [item |-> Bare(Bytes(k)), whole |-> TRUE]
  <2>1. /\ ch'.sent = ch.sent /\ ch'.starts = ch.starts /\ ch'.out = ch.out
        /\ ch'.open = ch.open /\ ch'.want = ch.want /\ ch'.eof = ch.eof
        /\ ch.astray \subseteq ch'.astray /\ ch'.pc = "idle" /\ ch'.got = Append(ch.got, g)
    BY <1>2 DEF ChannelRecord, Receive
  <2>2. g.whole /\ g.item.kind = "bare" /\ ch.pc = "bare"
    BY <1>8 DEF Bare, RecvBare
  <2>3. ch.read # Len(ch.out)
    BY <1>2, <1>3
  <2> HIDE DEF g
  <2>4. g \in GotRecord
    BY <1>6, <2>1
  <2>5. QED
    BY <2>1, <2>2, <2>3, <2>4
<1>9. CASE RecvType
  <2> PICK k \in Arrived(1) :
        ch' = [ch EXCEPT !.read = @ + k, !.pc = "size", !.taken = k,
                         !.type = ch.out[ch.read + 1],
                         !.astray = @ \cup Mixed("message", 0)]
    BY <1>9 DEF RecvType
  <2>1. ch.read # Len(ch.out)
    BY <1>2, <1>3
  <2>2. QED
    BY <1>2, <1>9, <2>1 DEF ChannelRecord, RecvType
<1>10. CASE RecvSize
  <2> DEFINE Takes(k, size) ==
        /\ ch.pc = "size"
        /\ ch' = [ch EXCEPT !.read = @ + k, !.size = size, !.taken = @ + k,
                         !.pc = IF size > 0 THEN "data" ELSE "idle",
                         !.got = IF size > 0 THEN @ ELSE Receive(Taken(0, <<>>)),
                         !.astray = @ \cup Short(k, HEADER - 1)]
  <2> PICK k \in Arrived(HEADER - 1) : \E size : Takes(k, size)
    BY <1>10, Zenon DEF RecvSize
  <2> PICK size : Takes(k, size)
    OBVIOUS
  <2> DEFINE g == [item |-> Taken(0, <<>>), whole |-> TRUE]
  <2>1. /\ ch'.sent = ch.sent /\ ch'.starts = ch.starts /\ ch'.out = ch.out
        /\ ch'.open = ch.open /\ ch'.want = ch.want /\ ch'.eof = ch.eof
        /\ ch.astray \subseteq ch'.astray
        /\ \/ ch'.pc = "data" /\ ch'.got = ch.got
           \/ ch'.pc = "idle" /\ ch'.got = Append(ch.got, g)
    BY <1>2 DEF ChannelRecord, Receive
  <2>2. g.whole /\ g.item.kind = "message"
    BY <1>7
  <2>3. ch.read # Len(ch.out)
    BY <1>2, <1>3 DEF HEADER
  <2> HIDE DEF g
  <2>4. QED
    BY <1>6, <2>1, <2>2, <2>3
<1>11. CASE RecvData
  <2> DEFINE Takes(k, data) ==
        /\ ch.pc = "data"
        /\ ch' = [ch EXCEPT !.read = @ + k, !.data = data, !.taken = @ + k,
                         !.pc = IF Len(data) < ch.size THEN "data" ELSE "idle",
                         !.got = IF Len(data) < ch.size THEN @
                                 ELSE Receive(Taken(ch.size, data))]
  <2> PICK k \in Arrived(AtMost(ch.size - Len(ch.data), MAX_CHUNK_SIZE)) : \E data : Takes(k, data)
    BY <1>11, Zenon DEF RecvData
  <2> PICK data : Takes(k, data)
    OBVIOUS
  <2> DEFINE g == [item |-> Taken(ch.size, data), whole |-> TRUE]
  <2>1. /\ ch'.sent = ch.sent /\ ch'.starts = ch.starts /\ ch'.out = ch.out
        /\ ch'.open = ch.open /\ ch'.want = ch.want /\ ch'.eof = ch.eof
        /\ ch.astray = ch'.astray
        /\ \/ ch'.pc = "data" /\ ch'.got = ch.got
           \/ ch'.pc = "idle" /\ ch'.got = Append(ch.got, g)
    BY <1>2 DEF ChannelRecord, Receive
  <2>2. g.whole /\ g.item.kind = "message"
    BY <1>7
  <2>3. ch.read # Len(ch.out)
    <3>1. AtMost(ch.size - Len(ch.data), MAX_CHUNK_SIZE) \in Int
      BY <1>2, FramingAssumption DEF FramingAssumption, AtMost
    <3>2. QED
      BY <1>3, <3>1
  <2> HIDE DEF g
  <2>4. QED
    BY <1>6, <2>1, <2>2, <2>3
<1>12. CASE RecvEof
  <2> DEFINE item == IF ch.pc = "bare" THEN Bare(<<>>) ELSE Taken(0, <<>>)
             g == [item |-> item, whole |-> FALSE]
  <2>1. ch.pc \in {"bare", "type", "size"}
    BY <1>12 DEF RecvEof
  <2>2. ch' = [ch EXCEPT !.eof = TRUE, !.pc = IF @ = "type" THEN "size" ELSE "idle",
                         !.got = IF ch.pc = "type" THEN @ ELSE Append(@, g)]
    BY <1>12 DEF RecvEof
  <2>3. ~ g.whole /\ (ch.pc = "bare" => item.kind = "bare" /\ item.bytes = <<>>)
    BY DEF Bare
  <2>4. ch.pc # "bare" => item.kind = "message" /\ Size(item) = 0
    <3>1. 0 % 256 = 0 /\ 0 \div 256 = 0
      OBVIOUS
    <3>2. << ch.type, 0, 0 >> \o <<>> = << ch.type, 0, 0 >>
      BY ConcatEmptySeq, <1>1 DEF TypeOK, ChannelRecord
    <3>3. Taken(0, <<>>).bytes = << ch.type, 0, 0 >>
      BY <3>1, <3>2 DEF Taken
    <3>4. QED
      BY <1>7, <3>3 DEF Size, SizeOf
  <2> HIDE DEF item
  <2>5. /\ ch'.sent = ch.sent /\ ch'.starts = ch.starts /\ ch'.out = ch.out
        /\ ch'.open = ch.open /\ ch'.want = ch.want /\ ch'.eof /\ ch'.read = ch.read
        /\ ch.astray = ch'.astray
        /\ \/ ch.pc = "type" /\ ch'.pc = "size" /\ ch'.got = ch.got
           \/ ch.pc # "type" /\ ch'.pc = "idle" /\ ch'.got = Append(ch.got, g)
    BY <1>2, <2>2 DEF ChannelRecord
  <2>6. g.item = item
    OBVIOUS
  <2> HIDE DEF g
  <2>7. QED
    BY <1>6, <2>1, <2>3, <2>4, <2>5, <2>6
<1>13. QED
  BY <1>8, <1>9, <1>10, <1>11, <1>12 DEF Recv

(* A receive disagrees with what comes only at the start of an item, which *)
(* is of another kind or another length than what was asked for.           *)
LEMMA MixedMeans ==
    ASSUME IInv, Recv, ch.astray = {}, "mixed" \in ch'.astray,
           NEW i \in Nat, i = Len(ch.got) + 1
    PROVE  /\ i \in 1 .. Len(ch.sent) /\ ~ ch.eof
           /\ \/ ch.pc = "bare" /\ ~ (ch.sent[i].kind = "bare" /\ Len(ch.sent[i].bytes) = ch.want)
              \/ ch.pc = "type" /\ ch.sent[i].kind # "message"
           /\ i = Len(ch.sent) /\ Len(ch.sent[i].bytes) = 1 =>
                 ch'.read = Len(ch'.out) /\ ~ Sending'
<1>1. TypeOK /\ Layout /\ AtTheEnd
  BY DEF IInv
<1>2. /\ ch \in ChannelRecord /\ ch.want \in Int /\ ch.read \in Nat /\ Total \in Nat
      /\ Count \in Nat /\ Count = Len(ch.sent) /\ Total = Len(ch.out) /\ i = Current
  BY <1>1, ItemFacts DEF TypeOK, ChannelRecord, Count, Total, Current
<1>3. ASSUME NEW kind, NEW n, NEW m \in Int, NEW k \in Arrived(m), ch.pc \in {"bare", "type"},
             ~ Agrees(kind, n)
      PROVE  /\ i \in 1 .. Count /\ ~ ch.eof /\ ch.read = ch.starts[i]
             /\ ~ (ch.sent[i].kind = kind /\ (kind = "bare" => Len(ch.sent[i].bytes) = n))
             /\ k \in Nat \ {0} /\ k <= m /\ ch.read + k <= Total
  <2>1. i \in 1 .. Count /\ ~ ch.eof /\ ch.read = ch.starts[i] + Into /\ Into = 0
    BY <1>2, <1>3, AtAnItem DEF Into
  <2>2. ch.starts[i] \in Nat
    BY <1>1, <2>1, ItemFacts
  <2>3. ch.read = ch.starts[i]
    BY <2>1, <2>2
  <2>4. i \in DOMAIN ch.sent
    BY <1>2, <2>1 DEF ChannelRecord
  <2>5. k \in Nat \ {0} /\ k <= m /\ ch.read + k <= Total
    BY <1>1, ArrivedFacts
  <2>6. QED
    BY <1>3, <2>1, <2>3, <2>4, <2>5 DEF Agrees
<1>last. ASSUME NEW k \in Nat \ {0}, ch.read + k <= Total, ch'.read = ch.read + k,
              ch'.sent = ch.sent, ch'.out = ch.out, ch'.starts = ch.starts,
              i \in 1 .. Count, ch.read = ch.starts[i], i = Count, Len(ch.sent[i].bytes) = 1
       PROVE  ch'.read = Len(ch'.out) /\ ~ Sending'
  <2>1. Total <= End(i) /\ End(i) = ch.read + 1
    <3>1. Count > 0 /\ Length(i) = 1 /\ End(i) = ch.read + Length(i)
      BY <1>2, <1>last DEF End, Length
    <3>2. Total <= End(i)
      BY <1>1, <1>last, <3>1 DEF Layout
    <3>3. QED
      BY <3>1, <3>2
  <2>2. ch'.read = Total
    BY <1>2, <1>last, <2>1
  <2>3. Sending' = Sending
    BY <1>1, <1>last, SameStream
  <2>4. ~ Sending
    <3> PICK t \in Nat, r \in Nat : t = Total /\ r = ch.read
      BY <1>2
    <3>4. k = 1 /\ r + k <= t /\ t <= r + 1
      BY <1>last, <2>1
    <3>5. t = r + 1
      BY <3>4
    <3>1. End(Count) = Total
      BY <1>last, <2>1, <3>5, Zenon
    <3>2. ~ (Total < Total)
      BY <1>2
    <3>3. QED
      BY <1>1, <3>1, <3>2, SendingFacts, Zenon
  <2>5. QED
    BY <1>2, <1>last, <2>2, <2>3, <2>4
<1>4. CASE RecvBare
  <2> PICK k \in Arrived(ch.want) :
        ch' = [ch EXCEPT !.read = @ + k, !.pc = "idle", !.got = Receive(Bare(Bytes(k))),
                         !.astray = @ \cup (IF Agrees("bare", ch.want)
                                            THEN Short(k, ch.want) ELSE {"mixed"})]
    BY <1>4 DEF RecvBare
  <2>1. /\ ch'.astray = IF Agrees("bare", ch.want) THEN Short(k, ch.want) ELSE {"mixed"}
        /\ ch.pc = "bare" /\ ch'.read = ch.read + k
        /\ ch'.sent = ch.sent /\ ch'.out = ch.out /\ ch'.starts = ch.starts
    BY <1>2, <1>4 DEF ChannelRecord, RecvBare
  <2>2. ~ Agrees("bare", ch.want)
    BY <2>1 DEF Short
  <2>3. /\ i \in 1 .. Count /\ ~ ch.eof /\ ch.read = ch.starts[i]
        /\ ~ (ch.sent[i].kind = "bare" /\ Len(ch.sent[i].bytes) = ch.want)
        /\ k \in Nat \ {0} /\ k <= ch.want /\ ch.read + k <= Total
    BY <1>2, <1>3, <2>1, <2>2
  <2>4. i = Count /\ Len(ch.sent[i].bytes) = 1 => ch'.read = Len(ch'.out) /\ ~ Sending'
    BY <1>last, <2>1, <2>3
  <2>5. QED
    BY <1>2, <2>1, <2>3, <2>4
<1>5. CASE RecvType
  <2> PICK k \in Arrived(1) :
        ch' = [ch EXCEPT !.read = @ + k, !.pc = "size", !.taken = k,
                         !.type = ch.out[ch.read + 1],
                         !.astray = @ \cup Mixed("message", 0)]
    BY <1>5 DEF RecvType
  <2>1. /\ ch'.astray = Mixed("message", 0) /\ ch.pc = "type" /\ ch'.read = ch.read + k
        /\ ch'.sent = ch.sent /\ ch'.out = ch.out /\ ch'.starts = ch.starts
    BY <1>2, <1>5 DEF ChannelRecord, RecvType
  <2>2. ~ Agrees("message", 0)
    BY <2>1 DEF Mixed
  <2>3. /\ i \in 1 .. Count /\ ~ ch.eof /\ ch.read = ch.starts[i]
        /\ ch.sent[i].kind # "message"
        /\ k \in Nat \ {0} /\ k <= 1 /\ ch.read + k <= Total
    BY <1>2, <1>3, <2>1, <2>2
  <2>4. i = Count /\ Len(ch.sent[i].bytes) = 1 => ch'.read = Len(ch'.out) /\ ~ Sending'
    BY <1>last, <2>1, <2>3
  <2>5. QED
    BY <1>2, <2>1, <2>3, <2>4
<1>6. CASE RecvSize
  <2> DEFINE Takes(k, size) ==
        ch' = [ch EXCEPT !.read = @ + k, !.size = size, !.taken = @ + k,
                         !.pc = IF size > 0 THEN "data" ELSE "idle",
                         !.got = IF size > 0 THEN @ ELSE Receive(Taken(0, <<>>)),
                         !.astray = @ \cup Short(k, HEADER - 1)]
  <2> PICK k \in Arrived(HEADER - 1) : \E size : Takes(k, size)
    BY <1>6, Zenon DEF RecvSize
  <2> PICK size : Takes(k, size)
    OBVIOUS
  <2>1. ch'.astray = ch.astray \cup Short(k, HEADER - 1)
    BY <1>2 DEF ChannelRecord
  <2>2. QED
    BY <2>1 DEF Short
<1>7. CASE RecvData
  <2> DEFINE Takes(k, data) ==
        ch' = [ch EXCEPT !.read = @ + k, !.data = data, !.taken = @ + k,
                         !.pc = IF Len(data) < ch.size THEN "data" ELSE "idle",
                         !.got = IF Len(data) < ch.size THEN @
                                 ELSE Receive(Taken(ch.size, data))]
  <2> PICK k \in Arrived(AtMost(ch.size - Len(ch.data), MAX_CHUNK_SIZE)) : \E data : Takes(k, data)
    BY <1>7, Zenon DEF RecvData
  <2> PICK data : Takes(k, data)
    OBVIOUS
  <2>1. ch'.astray = ch.astray
    BY <1>2 DEF ChannelRecord
  <2>2. QED
    BY <2>1
<1>8. CASE RecvEof
  <2>1. ch'.astray = ch.astray
    BY <1>2, <1>8 DEF ChannelRecord, RecvEof
  <2>2. QED
    BY <2>1
<1>9. QED
  BY <1>4, <1>5, <1>6, <1>7, <1>8 DEF Recv

(* One send is enough for a bare block. *)
LEMMA BareSentAtOnce ==
    ASSUME IInv, Send, ch.sent[Count].kind = "bare"
    PROVE  ~ Sending'
<1> DEFINE n == Count
           item == ch.sent[Count]
           b == SubSeq(item.bytes, Put + 1, Put + Field(item, Put))
<1>1. TypeOK /\ Layout
  BY DEF IInv
<1>2. ch' = [ch EXCEPT !.out = ch.out \o b] /\ Sending
  BY <1>1 DEF Send, TypeOK, ChannelRecord
<1>3. ch'.out = ch.out \o b /\ ch'.sent = ch.sent /\ ch'.starts = ch.starts
  BY <1>1, <1>2 DEF TypeOK, ChannelRecord
<1>4. /\ n \in Nat /\ Total \in Nat
      /\ \A i \in 1 .. n : /\ Length(i) \in Nat \ {0} /\ ch.starts[i] \in Nat
                          /\ ch.sent[i].bytes \in Seq(Byte)
  BY <1>1, ItemFacts
<1>5. n > 0 /\ Total < End(n) /\ item = ch.sent[n] /\ Put = Total - ch.starts[n]
  BY <1>1, <1>2, SendingFacts
<1>6. n \in 1 .. n /\ ch.starts[n] <= Total
  BY <1>1, <1>4, <1>5 DEF Layout
<1>7. Put \in Nat /\ Put < Length(n)
  BY <1>4, <1>5, <1>6 DEF End
<1> PICK p \in Nat : p = Put
  BY <1>7
<1> PICK l \in Nat : l = Length(n)
  BY <1>4, <1>6
<1>8. Field(item, Put) = l - p /\ item.bytes \in Seq(Byte) /\ Len(item.bytes) = l
  BY <1>4, <1>5, <1>6 DEF Field, Length
<1>9. b \in Seq(Byte) /\ Len(b) = l - p
  <2> DEFINE s == item.bytes
             from == p + 1
             to == p + (l - p)
  <2>1. s \in Seq(Byte) /\ from \in 1 .. Len(s) + 1 /\ to \in from - 1 .. Len(s) /\ to - from + 1 = l - p
    BY <1>7, <1>8
  <2>2. b = SubSeq(s, from, to)
    BY <1>8
  <2> HIDE DEF s, from, to, b
  <2>3. SubSeq(s, from, to) \in Seq(Byte) /\ Len(SubSeq(s, from, to)) = to - from + 1
    BY <2>1, SubSeqProperties
  <2>4. QED
    BY <2>1, <2>2, <2>3
<1> HIDE DEF b, item
<1>last. Len(ch'.out) = Total + (l - p)
  <2>1. ch.out \in Seq(Byte)
    BY <1>1 DEF TypeOK, ChannelRecord
  <2>2. Len(ch.out \o b) = Len(ch.out) + Len(b)
    BY <1>9, <2>1, ConcatProperties
  <2>3. QED
    BY <1>3, <1>9, <2>2 DEF Total
<1>11. ch'.sent[n] = item /\ Put' = Len(ch'.out) - ch.starts[n]
  <2>1. ch.starts \in Seq(Nat) /\ ch.sent \in Seq(ItemRecord) /\ Len(ch.starts) = n
    BY <1>1 DEF TypeOK, ChannelRecord, Layout
  <2>2. QED
    BY <1>3, <1>5, <2>1 DEF Put, Count
<1>12. Put' = l
  <2> PICK s \in Nat : s = ch.starts[n]
    BY <1>4, <1>6
  <2> PICK t \in Nat : t = Total
    BY <1>4
  <2>1. p = t - s
    BY <1>5, Zenon
  <2>2. Put' = (t + (l - p)) - s
    BY <1>last, <1>11, Zenon
  <2>3. (t + (l - p)) - s = l
    BY <2>1
  <2>4. QED
    BY <2>2, <2>3, Zenon
<1>13. ch'.sent[Count'] = item
  BY <1>3, <1>5 DEF item, Count
<1>14. QED
  BY <1>8, <1>12, <1>13 DEF Sending
=============================================================================
