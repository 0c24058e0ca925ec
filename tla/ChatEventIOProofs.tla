------------------------- MODULE ChatEventIOProofs -------------------------
(***************************************************************************)
(* Proofs about the reader and the writer of events, for any sizes of      *)
(* header and data and any number of events: until a write is cut short,   *)
(* the frames the reader returns are the writer's events, and it stays in  *)
(* its buffer.                                                             *)
(***************************************************************************)
EXTENDS ChatEventIO, SequenceTheorems, WellFoundedInduction, TLAPS

-----------------------------------------------------------------------------
(* The inductive invariant. *)

(* The number of events that were written to the end. *)
Sent == IF writer.state = "READY" THEN Len(lengths) ELSE Len(lengths) - 1

Start(bytes, p)     == p - bytes[p].at
End(bytes, p, lens) == Start(bytes, p) + CHAT_EVENT_HEADER_SIZE + lens[bytes[p].event]

(* The byte at p stands in a whole frame of its event, which the next event's
   frame follows.  *)
InFrame(bytes, p, lens) ==
  /\ Start(bytes, p) >= 0
  /\ p <= End(bytes, p, lens) /\ End(bytes, p, lens) <= Len(bytes)
  /\ \A q \in Start(bytes, p) + 1 .. End(bytes, p, lens) :
       bytes[q] = [event |-> bytes[p].event, at |-> q - Start(bytes, p)]
  /\ End(bytes, p, lens) < Len(bytes) =>
       bytes[End(bytes, p, lens) + 1] = [event |-> bytes[p].event + 1, at |-> 1]

(* bytes are the frames of the events from first to last, in a row. *)
Framed(bytes, first, last, lens) ==
  /\ bytes = <<>> => first = last + 1
  /\ bytes # <<>> => /\ bytes[1] = [event |-> first, at |-> 1]
                     /\ bytes[Len(bytes)].event = last
  /\ \A p \in 1 .. Len(bytes) : InFrame(bytes, p, lens)

Known(bytes, n) == \A p \in 1 .. Len(bytes) : bytes[p].event <= n

(* The writer writes what it was given. *)
WriterInv ==
  /\ writer.state = "READY" => writer.processed = 0
  /\ writer.state = "IN_PROGRESS" => /\ Len(lengths) > 0
                                     /\ writer.processed < FrameSize(Len(lengths))
  /\ Known(buffer, Len(lengths)) /\ Known(stream, Len(lengths))

(* The reader's count covers its bytes, also when a write was cut short. *)
ReaderInv ==
  /\ Len(buffer) <= reader.processed
  /\ reader.state = "FLUSHING" => ~extracting /\ reader.processed <= reader.flush
  /\ extracting => HoldsFrame(buffer) /\ reader.processed = Len(buffer)

(* Until then what the reader holds and what is under way are whole frames,
   from the first that was not extracted to the last that was sent.  *)
StreamInv ==
  cuts = 0 => /\ writer.processed = 0
              /\ Framed(buffer \o stream, Len(extracted) + 1, Sent, lengths)
              /\ Len(extracted) <= Len(lengths)
              /\ \A i \in 1 .. Len(extracted) : extracted[i] = Frame(i)
              /\ reader.state = "READY"
              /\ reader.processed = Len(buffer) /\ ~overrun

IInv == TypeOK /\ WriterInv /\ ReaderInv /\ StreamInv

-----------------------------------------------------------------------------
(* Sizes, frames and lengths. *)

LEMMA SizeFacts ==
  /\ CHAT_EVENT_HEADER_SIZE \in Nat \ {0} /\ CHAT_EVENT_MAX_DATA_SIZE \in Nat \ {0}
  /\ MaxEvents \in Nat /\ MaxCuts \in Nat /\ EVENT_SIZE \in Nat /\ MaxFrame \in Nat
  /\ EVENT_SIZE = CHAT_EVENT_HEADER_SIZE + CHAT_EVENT_MAX_DATA_SIZE
  /\ MaxFrame = CHAT_EVENT_HEADER_SIZE + EVENT_SIZE
  BY SizesAssumption DEF EVENT_SIZE, MaxFrame

LEMMA LengthFacts ==
  ASSUME TypeOK
  PROVE  /\ Len(lengths) \in Nat /\ Len(lengths) <= MaxEvents
         /\ \A e \in 1 .. Len(lengths) :
              /\ lengths[e] \in 1 .. CHAT_EVENT_MAX_DATA_SIZE
              /\ FrameSize(e) = CHAT_EVENT_HEADER_SIZE + lengths[e]
              /\ FrameSize(e) \in Nat
              /\ CHAT_EVENT_HEADER_SIZE < FrameSize(e) /\ FrameSize(e) <= EVENT_SIZE
  <1>1. lengths \in Seq(1 .. CHAT_EVENT_MAX_DATA_SIZE) /\ Len(lengths) <= MaxEvents
    BY DEF TypeOK
  <1>2. Len(lengths) \in Nat /\ lengths \in [1 .. Len(lengths) -> 1 .. CHAT_EVENT_MAX_DATA_SIZE]
    BY <1>1, LenProperties
  <1>3. \A e \in 1 .. Len(lengths) : lengths[e] \in 1 .. CHAT_EVENT_MAX_DATA_SIZE
    BY <1>2
  <1>4. QED BY <1>1, <1>2, <1>3, SizeFacts DEF FrameSize

LEMMA ByteIs ==
  \A b \in Byte : b.event \in 1 .. MaxEvents /\ b.at \in 1 .. EVENT_SIZE
  BY DEF Byte

(* A frame is a sequence of bytes. *)
LEMMA FrameFacts ==
  ASSUME TypeOK, NEW e \in 1 .. Len(lengths)
  PROVE  /\ Frame(e) \in Seq(Byte) /\ Len(Frame(e)) = FrameSize(e)
         /\ \A i \in 1 .. FrameSize(e) : Frame(e)[i] = [event |-> e, at |-> i]
  <1> DEFINE n == FrameSize(e)
  <1>1. n \in Nat /\ n <= EVENT_SIZE /\ e \in 1 .. MaxEvents
    BY LengthFacts, SizeFacts
  <1>2. \A i \in 1 .. n : [event |-> e, at |-> i] \in Byte
    BY <1>1, SizeFacts DEF Byte
  <1>3. Frame(e) = [i \in 1 .. n |-> [event |-> e, at |-> i]]
    BY DEF Frame
  <1> HIDE DEF n
  <1>4. Frame(e) \in Seq(Byte) /\ Len(Frame(e)) = n
    BY <1>1, <1>2, <1>3
  <1>5. \A i \in 1 .. n : Frame(e)[i] = [event |-> e, at |-> i]
    BY <1>3
  <1>6. QED BY <1>4, <1>5 DEF n

(* Part of a sequence of bytes, and two of them together. *)
LEMMA PartFacts ==
  ASSUME NEW bytes \in Seq(Byte), NEW k \in 0 .. Len(bytes)
  PROVE  /\ SubSeq(bytes, 1, k) \in Seq(Byte) /\ Len(SubSeq(bytes, 1, k)) = k
         /\ \A i \in 1 .. k : SubSeq(bytes, 1, k)[i] = bytes[i]
         /\ SubSeq(bytes, k + 1, Len(bytes)) \in Seq(Byte)
         /\ Len(SubSeq(bytes, k + 1, Len(bytes))) = Len(bytes) - k
         /\ \A i \in 1 .. Len(bytes) - k :
              SubSeq(bytes, k + 1, Len(bytes))[i] = bytes[i + k]
  <1>1. Len(bytes) \in Nat /\ \A i \in 1 .. Len(bytes) : bytes[i] \in Byte
    BY LenProperties, ElementOfSeq
  <1>2. /\ SubSeq(bytes, 1, k) \in Seq(Byte)
        /\ Len(SubSeq(bytes, 1, k)) = IF 1 <= k THEN k - 1 + 1 ELSE 0
        /\ \A i \in 1 .. k - 1 + 1 : SubSeq(bytes, 1, k)[i] = bytes[1 + i - 1]
    <2>1. \A i \in 1 .. k : bytes[i] \in Byte
      BY <1>1
    <2>2. QED BY <1>1, <2>1, SubSeqProperties
  <1>3. /\ SubSeq(bytes, k + 1, Len(bytes)) \in Seq(Byte)
        /\ Len(SubSeq(bytes, k + 1, Len(bytes))) =
             IF k + 1 <= Len(bytes) THEN Len(bytes) - (k + 1) + 1 ELSE 0
        /\ \A i \in 1 .. Len(bytes) - (k + 1) + 1 :
             SubSeq(bytes, k + 1, Len(bytes))[i] = bytes[k + 1 + i - 1]
    <2>1. \A i \in k + 1 .. Len(bytes) : bytes[i] \in Byte
      BY <1>1
    <2>2. QED BY <1>1, <2>1, SubSeqProperties
  <1>4. QED BY <1>1, <1>2, <1>3

LEMMA JoinFacts ==
  \A bytes, more \in Seq(Byte) :
    /\ bytes \o more \in Seq(Byte) /\ Len(bytes \o more) = Len(bytes) + Len(more)
    /\ Len(bytes) \in Nat /\ Len(more) \in Nat
    /\ \A i \in 1 .. Len(bytes) + Len(more) : (bytes \o more)[i] =
         IF i <= Len(bytes) THEN bytes[i] ELSE more[i - Len(bytes)]
  BY ConcatProperties, LenProperties

LEMMA Associates ==
  \A bytes, more, others \in Seq(Byte) :
    (bytes \o more) \o others = bytes \o (more \o others)
  BY ConcatAssociative

LEMMA KnownFacts ==
  ASSUME NEW bytes \in Seq(Byte), NEW more \in Seq(Byte), NEW n \in Nat,
         Known(bytes, n), Known(more, n)
  PROVE  Known(bytes \o more, n)
  <1>1. Len(bytes) \in Nat /\ Len(more) \in Nat
    BY LenProperties
  <1>2. QED BY <1>1, ConcatProperties DEF Known

(* The size of a frame, read from any bytes that stand for a header. *)
LEMMA FrontFacts ==
  ASSUME TypeOK, NEW bytes \in Seq(Byte), Known(bytes, Len(lengths)),
         CHAT_EVENT_HEADER_SIZE <= Len(bytes)
  PROVE  /\ SizeAtFront(bytes) \in Nat
         /\ CHAT_EVENT_HEADER_SIZE < SizeAtFront(bytes)
         /\ SizeAtFront(bytes) <= MaxFrame
  <1> DEFINE b == bytes[CHAT_EVENT_HEADER_SIZE]
  <1>1. Len(bytes) \in Nat
    BY LenProperties
  <1>2. CHAT_EVENT_HEADER_SIZE \in 1 .. Len(bytes)
    BY <1>1, SizeFacts
  <1>3. b \in Byte /\ b.event <= Len(lengths)
    BY <1>2, ElementOfSeq DEF Known
  <1> DEFINE at == b.at  event == b.event
  <1>4. at \in 1 .. EVENT_SIZE /\ event \in 1 .. Len(lengths)
    <2>1. at \in 1 .. EVENT_SIZE /\ event \in 1 .. MaxEvents
      BY <1>3, ByteIs
    <2>2. event <= Len(lengths)
      BY <1>3
    <2> HIDE DEF at, event
    <2>3. QED BY <2>1, <2>2, LengthFacts, SizeFacts
  <1> HIDE DEF at, event
  <1>5. AsLength(b) \in 1 .. EVENT_SIZE
    <2>1. lengths[event] \in 1 .. EVENT_SIZE
      BY <1>4, LengthFacts, SizeFacts
    <2>2. AsLength(b) = lengths[event] \/ AsLength(b) = at
      BY DEF AsLength, at, event
    <2>3. QED BY <1>4, <2>1, <2>2
  <1>6. SizeAtFront(bytes) = CHAT_EVENT_HEADER_SIZE + AsLength(b)
    BY DEF SizeAtFront
  <1> HIDE DEF b
  <1>7. QED BY <1>5, <1>6, SizeFacts

-----------------------------------------------------------------------------
(* Frames in a row. *)

(* The bytes at hand, and the frame each stands in. *)
LEMMA ByteFacts ==
  ASSUME TypeOK, NEW bytes \in Seq(Byte), Known(bytes, Len(lengths))
  PROVE  /\ Len(bytes) \in Nat /\ (bytes = <<>> <=> Len(bytes) = 0)
         /\ \A p \in 1 .. Len(bytes) :
              /\ bytes[p].event \in 1 .. Len(lengths) /\ bytes[p].at \in Nat \ {0}
              /\ Start(bytes, p) \in Int /\ Start(bytes, p) = p - bytes[p].at
              /\ End(bytes, p, lengths) = Start(bytes, p) + FrameSize(bytes[p].event)
              /\ End(bytes, p, lengths) \in Int
  <1>1. Len(bytes) \in Nat /\ (bytes = <<>> <=> Len(bytes) = 0)
    BY LenProperties, EmptySeq
  <1>2. ASSUME NEW p \in 1 .. Len(bytes)
        PROVE  /\ bytes[p].event \in 1 .. Len(lengths) /\ bytes[p].at \in Nat \ {0}
               /\ Start(bytes, p) \in Int /\ Start(bytes, p) = p - bytes[p].at
               /\ End(bytes, p, lengths) = Start(bytes, p) + FrameSize(bytes[p].event)
               /\ End(bytes, p, lengths) \in Int
    <2> DEFINE event == bytes[p].event  at == bytes[p].at
    <2>1. bytes[p] \in Byte /\ event <= Len(lengths)
      BY ElementOfSeq DEF Known
    <2>2. event \in 1 .. MaxEvents /\ at \in 1 .. EVENT_SIZE
      BY <2>1, ByteIs
    <2>3. /\ Start(bytes, p) = p - at
          /\ End(bytes, p, lengths) =
               Start(bytes, p) + CHAT_EVENT_HEADER_SIZE + lengths[event]
      BY DEF Start, End
    <2> HIDE DEF event, at
    <2>4. event \in 1 .. Len(lengths) /\ at \in Nat \ {0}
      BY <2>1, <2>2, LengthFacts, SizeFacts
    <2>5. Start(bytes, p) \in Int
      BY <1>1, <2>3, <2>4
    <2>6. FrameSize(event) = CHAT_EVENT_HEADER_SIZE + lengths[event] /\ lengths[event] \in Nat
      BY <2>4, LengthFacts
    <2>7. End(bytes, p, lengths) = Start(bytes, p) + FrameSize(event)
          /\ End(bytes, p, lengths) \in Int
      BY <2>3, <2>5, <2>6, SizeFacts
    <2>8. QED BY <2>3, <2>4, <2>5, <2>7 DEF event, at
  <1>3. QED BY <1>1, <1>2

(* The first frame is whole, and the second follows it. *)
LEMMA FirstFrame ==
  ASSUME TypeOK, NEW bytes \in Seq(Byte), Known(bytes, Len(lengths)),
         NEW first \in Nat, NEW last \in Nat, Framed(bytes, first, last, lengths),
         bytes # <<>>
  PROVE  /\ first \in 1 .. Len(lengths)
         /\ FrameSize(first) <= Len(bytes)
         /\ \A i \in 1 .. FrameSize(first) : bytes[i] = [event |-> first, at |-> i]
         /\ FrameSize(first) < Len(bytes) =>
              bytes[FrameSize(first) + 1] = [event |-> first + 1, at |-> 1]
         /\ FrameSize(first) = Len(bytes) => first = last
  <1> DEFINE n == FrameSize(first)
  <1>1. Len(bytes) \in Nat /\ 1 \in 1 .. Len(bytes)
    BY ByteFacts
  <1>2. bytes[1] = [event |-> first, at |-> 1] /\ bytes[Len(bytes)].event = last
    BY DEF Framed
  <1>3. bytes[1].event = first /\ bytes[1].at = 1
    BY <1>2
  <1>4. first \in 1 .. Len(lengths) /\ Start(bytes, 1) = 0 /\ End(bytes, 1, lengths) = n
    <2>1. first \in 1 .. Len(lengths) /\ Start(bytes, 1) = 1 - 1
          /\ End(bytes, 1, lengths) = Start(bytes, 1) + n
      BY <1>1, <1>3, ByteFacts
    <2>2. n \in Nat
      BY <2>1, LengthFacts
    <2> HIDE DEF n
    <2>3. QED BY <2>1, <2>2
  <1>5. n \in Nat /\ 0 < n
    BY <1>4, LengthFacts, SizeFacts
  <1>6. InFrame(bytes, 1, lengths)
    BY <1>1 DEF Framed
  <1> HIDE DEF n
  <1>7. /\ n <= Len(bytes)
        /\ \A q \in 1 .. n : bytes[q] = [event |-> first, at |-> q]
        /\ n < Len(bytes) => bytes[n + 1] = [event |-> first + 1, at |-> 1]
    <2>1. /\ n <= Len(bytes)
          /\ \A q \in 0 + 1 .. n : bytes[q] = [event |-> first, at |-> q - 0]
          /\ n < Len(bytes) => bytes[n + 1] = [event |-> first + 1, at |-> 1]
      BY <1>3, <1>4, <1>6 DEF InFrame
    <2>2. QED BY <2>1, <1>5
  <1>8. n = Len(bytes) => first = last
    <2>1. n \in 1 .. n
      BY <1>5
    <2>2. bytes[n] = [event |-> first, at |-> n]
      BY <2>1, <1>7
    <2>3. bytes[n].event = first
      BY <2>2
    <2>4. QED BY <2>3, <1>2
  <1>9. QED BY <1>4, <1>7, <1>8 DEF n

(* Without the first frame the others are still in a row. *)
LEMMA WithoutFirst ==
  ASSUME TypeOK, NEW bytes \in Seq(Byte), Known(bytes, Len(lengths)),
         NEW first \in Nat, NEW last \in Nat, Framed(bytes, first, last, lengths),
         bytes # <<>>
  PROVE  Framed(SubSeq(bytes, FrameSize(first) + 1, Len(bytes)), first + 1, last, lengths)
  <1> DEFINE n    == FrameSize(first)
             rest == SubSeq(bytes, n + 1, Len(bytes))
  <1>1. /\ first \in 1 .. Len(lengths)
        /\ n <= Len(bytes)
        /\ \A i \in 1 .. n : bytes[i] = [event |-> first, at |-> i]
        /\ n < Len(bytes) => bytes[n + 1] = [event |-> first + 1, at |-> 1]
        /\ n = Len(bytes) => first = last
    BY FirstFrame
  <1>2. n \in Nat /\ 0 < n /\ Len(bytes) \in Nat
    BY <1>1, LengthFacts, ByteFacts, SizeFacts
  <1>3. /\ rest \in Seq(Byte) /\ Len(rest) = Len(bytes) - n
        /\ \A i \in 1 .. Len(bytes) - n : rest[i] = bytes[i + n]
    <2>1. n \in 0 .. Len(bytes)
      BY <1>1, <1>2
    <2> HIDE DEF n
    <2>2. QED BY <2>1, PartFacts, Zenon
  <1>4. Known(rest, Len(lengths))
    <2>1. \A i \in 1 .. Len(bytes) - n : i + n \in 1 .. Len(bytes)
      BY <1>2
    <2> HIDE DEF rest, n
    <2>2. QED BY <2>1, <1>3 DEF Known
  <1>5. bytes[Len(bytes)].event = last
    BY DEF Framed
  <1>6. rest = <<>> => first + 1 = last + 1
    <2>1. rest = <<>> => Len(rest) = 0
      BY <1>3, <1>4, ByteFacts
    <2> HIDE DEF rest, n
    <2>2. QED BY <2>1, <1>1, <1>2, <1>3
  <1>7. rest # <<>> => /\ rest[1] = [event |-> first + 1, at |-> 1]
                       /\ rest[Len(rest)].event = last
    <2>1. rest # <<>> => Len(rest) # 0
      BY <1>3, <1>4, ByteFacts
    <2> HIDE DEF rest, n
    <2>2. Len(rest) # 0 => /\ 1 \in 1 .. Len(bytes) - n /\ 1 + n = n + 1
                           /\ Len(rest) \in 1 .. Len(bytes) - n
                           /\ Len(rest) + n = Len(bytes) /\ n < Len(bytes)
      BY <1>1, <1>2, <1>3
    <2>3. Len(rest) # 0 => rest[1] = bytes[n + 1] /\ rest[Len(rest)] = bytes[Len(bytes)]
      BY <2>2, <1>3
    <2>4. QED BY <2>1, <2>2, <2>3, <1>1, <1>5
  <1>8. ASSUME NEW p \in 1 .. Len(rest)
        PROVE  InFrame(rest, p, lengths)
    <2> DEFINE m == p + n
               s == Start(bytes, m)
               e == End(bytes, m, lengths)
               at == bytes[m].at
               event == bytes[m].event
    <2>1. m \in 1 .. Len(bytes) /\ rest[p] = bytes[m] /\ p \in Nat \ {0} /\ m = p + n
      <3> HIDE DEF rest, n
      <3>1. QED BY <1>2, <1>3
    <2> HIDE DEF m
    <2>2. /\ 0 <= s /\ m <= e /\ e <= Len(bytes)
          /\ \A q \in s + 1 .. e : bytes[q] = [event |-> event, at |-> q - s]
          /\ e < Len(bytes) => bytes[e + 1] = [event |-> event + 1, at |-> 1]
      BY <2>1 DEF InFrame, Framed
    <2>3. /\ s \in Int /\ e \in Int /\ at \in Nat \ {0} /\ s = m - at
          /\ e = s + FrameSize(event) /\ event \in 1 .. Len(lengths)
      BY <2>1, ByteFacts
    <2>4. /\ Start(rest, p) = p - at
          /\ End(rest, p, lengths) = Start(rest, p) + FrameSize(event)
      <3>1. /\ Start(rest, p) = p - rest[p].at
            /\ End(rest, p, lengths) = Start(rest, p) + FrameSize(rest[p].event)
        BY <1>3, <1>4, ByteFacts
      <3>2. QED BY <3>1, <2>1
    <2>5. FrameSize(event) \in Nat
      BY <2>3, LengthFacts
    <2> HIDE DEF s, e, rest, n, at, event
    <2> DEFINE length == FrameSize(event)
    <2>6. /\ s \in Int /\ at \in Nat /\ s = m - at /\ e = s + length /\ length \in Nat
          /\ Start(rest, p) = p - at /\ End(rest, p, lengths) = Start(rest, p) + length
      BY <2>3, <2>4, <2>5
    <2> HIDE DEF length
    <2>7. Start(rest, p) = s - n /\ End(rest, p, lengths) = e - n
      BY <1>2, <2>1, <2>6
    <2>8. n <= s
      <3> SUFFICES ASSUME s < n PROVE FALSE
        BY <1>2, <2>3
      <3>1. n \in s + 1 .. e /\ n \in 1 .. n
        BY <1>2, <2>1, <2>2, <2>3
      <3>2. bytes[n] = [event |-> event, at |-> n - s]
        BY <3>1, <2>2
      <3>3. bytes[n] = [event |-> first, at |-> n]
        BY <3>1, <1>1
      <3>4. event = first /\ n - s = n
        BY <3>2, <3>3
      <3>5. event = first /\ s = 0
        BY <3>4, <1>2, <2>3
      <3>6. FrameSize(event) = n
        BY <3>5 DEF n
      <3>7. e = n
        BY <3>5, <3>6, <2>3, <1>2
      <3>8. QED BY <3>7, <1>2, <2>1, <2>2
    <2>9. \A q \in s - n + 1 .. e - n : rest[q] = [event |-> event, at |-> q - (s - n)]
      <3> SUFFICES ASSUME NEW q \in s - n + 1 .. e - n
                   PROVE  rest[q] = [event |-> event, at |-> q - (s - n)]
        OBVIOUS
      <3>1. q + n \in s + 1 .. e /\ q \in 1 .. Len(bytes) - n /\ (q + n) - s = q - (s - n)
        <4>1. e <= Len(bytes) /\ s \in Int /\ e \in Int /\ n \in Nat /\ Len(bytes) \in Nat
              /\ n <= s
          BY <1>2, <2>2, <2>3, <2>8
        <4>2. QED BY <4>1
      <3>2. bytes[q + n] = [event |-> event, at |-> (q + n) - s]
        BY <3>1, <2>2
      <3>3. QED BY <3>1, <3>2, <1>3
    <2>10. e - n < Len(rest) => rest[(e - n) + 1] = [event |-> event + 1, at |-> 1]
      <3>1. /\ n \in Nat /\ Len(bytes) \in Nat /\ e \in Int /\ n < e
            /\ Len(rest) = Len(bytes) - n
        BY <1>2, <1>3, <2>1, <2>2, <2>3
      <3>2. e - n < Len(rest) => /\ e < Len(bytes) /\ (e - n) + 1 \in 1 .. Len(bytes) - n
                                 /\ ((e - n) + 1) + n = e + 1
        BY <3>1
      <3>3. e - n < Len(rest) => rest[(e - n) + 1] = bytes[e + 1]
        BY <3>2, <1>3
      <3>4. QED BY <3>2, <3>3, <2>2
    <2>11. s - n >= 0 /\ p <= e - n /\ e - n <= Len(rest)
      <3>1. p + n <= e /\ e <= Len(bytes) /\ n <= s /\ Len(rest) = Len(bytes) - n
        BY <1>3, <2>1, <2>2, <2>8
      <3>2. QED BY <3>1, <1>2, <2>1, <2>3
    <2>12. rest[p].event = event
      BY <2>1 DEF event
    <2>13. QED BY <2>7, <2>9, <2>10, <2>11, <2>12 DEF InFrame
  <1>9. Framed(rest, first + 1, last, lengths)
    BY <1>6, <1>7, <1>8 DEF Framed
  <1>10. QED BY <1>9

(* One more frame at the end keeps them in a row. *)
LEMMA WithOneMore ==
  ASSUME TypeOK, NEW bytes \in Seq(Byte), Known(bytes, Len(lengths)),
         NEW first \in Nat, NEW last \in Nat, Framed(bytes, first, last, lengths),
         last + 1 \in 1 .. Len(lengths)
  PROVE  Framed(bytes \o Frame(last + 1), first, last + 1, lengths)
  <1> DEFINE frame == Frame(last + 1)
             n     == FrameSize(last + 1)
             all   == bytes \o frame
             len   == Len(bytes)
  <1>1. /\ frame \in Seq(Byte) /\ Len(frame) = n /\ n \in Nat /\ 0 < n /\ len \in Nat
        /\ \A i \in 1 .. n : frame[i] = [event |-> last + 1, at |-> i]
    BY FrameFacts, LengthFacts, SizeFacts, ByteFacts
  <1> HIDE DEF frame, n, len
  <1>2. /\ all \in Seq(Byte) /\ Len(all) = len + n
        /\ \A i \in 1 .. len + n : all[i] = IF i <= len THEN bytes[i] ELSE frame[i - len]
    BY <1>1, JoinFacts DEF len
  <1> HIDE DEF all
  <1>3. \A i \in 1 .. len : all[i] = bytes[i]
    BY <1>1, <1>2
  <1>4. \A i \in 1 .. n : all[i + len] = [event |-> last + 1, at |-> i]
    <2> SUFFICES ASSUME NEW i \in 1 .. n
                 PROVE  all[i + len] = [event |-> last + 1, at |-> i]
      OBVIOUS
    <2>1. i + len \in 1 .. len + n /\ ~(i + len <= len) /\ (i + len) - len = i
      BY <1>1
    <2>2. all[i + len] = frame[(i + len) - len]
      BY <2>1, <1>2
    <2>3. QED BY <2>1, <2>2, <1>1
  <1>5. Known(all, Len(lengths))
    <2> SUFFICES ASSUME NEW p \in 1 .. len + n
                 PROVE  all[p].event <= Len(lengths)
      BY <1>2 DEF Known
    <2>1. CASE p <= len
      BY <2>1, <1>1, <1>3 DEF Known, len
    <2>2. CASE ~(p <= len)
      <3>1. p - len \in 1 .. n /\ (p - len) + len = p
        BY <2>2, <1>1
      <3>2. all[p] = [event |-> last + 1, at |-> p - len]
        BY <3>1, <1>4
      <3>3. QED BY <3>2
    <2>3. QED BY <2>1, <2>2
  <1>6. all # <<>>
    BY <1>1, <1>2, <1>5, ByteFacts
  <1>7. all[1] = [event |-> first, at |-> 1]
    <2>1. CASE bytes = <<>>
      <3>1. first = last + 1 /\ len = 0 /\ 1 \in 1 .. n /\ 1 + 0 = 1
        BY <2>1, <1>1, ByteFacts DEF Framed, len
      <3>2. QED BY <3>1, <1>4
    <2>2. CASE bytes # <<>>
      <3>1. bytes[1] = [event |-> first, at |-> 1] /\ 1 \in 1 .. len
        BY <2>2, <1>1, ByteFacts DEF Framed, len
      <3>2. QED BY <3>1, <1>3
    <2>3. QED BY <2>1, <2>2
  <1>8. all[Len(all)].event = last + 1
    <2>1. n \in 1 .. n /\ n + len = Len(all)
      BY <1>1, <1>2
    <2>2. all[n + len] = [event |-> last + 1, at |-> n]
      BY <2>1, <1>4
    <2>3. QED BY <2>1, <2>2
  <1>9. ASSUME NEW p \in 1 .. len
        PROVE  InFrame(all, p, lengths)
    <2> DEFINE s == Start(bytes, p)
               e == End(bytes, p, lengths)
               event == bytes[p].event
    <2>1. p \in 1 .. Len(bytes) /\ all[p] = bytes[p]
      BY <1>3 DEF len
    <2>2. /\ 0 <= s /\ p <= e /\ e <= len
          /\ \A q \in s + 1 .. e : bytes[q] = [event |-> event, at |-> q - s]
          /\ e < len => bytes[e + 1] = [event |-> event + 1, at |-> 1]
      BY <2>1 DEF InFrame, Framed, len
    <2>3. s \in Int /\ e \in Int /\ s < p
      <3>1. s \in Int /\ e \in Int /\ bytes[p].at \in Nat \ {0} /\ s = p - bytes[p].at
        BY <2>1, ByteFacts
      <3> HIDE DEF s, e
      <3>2. QED BY <3>1
    <2>4. Start(all, p) = s /\ End(all, p, lengths) = e /\ all[p].event = event
      BY <2>1 DEF Start, End
    <2> HIDE DEF s, e, event
    <2>5. \A q \in s + 1 .. e : all[q] = [event |-> event, at |-> q - s]
      <3> SUFFICES ASSUME NEW q \in s + 1 .. e
                   PROVE  all[q] = [event |-> event, at |-> q - s]
        OBVIOUS
      <3>1. 0 <= s /\ e <= len
        BY <2>2
      <3>2. q \in 1 .. len
        BY <3>1, <2>3, <1>1
      <3>3. QED BY <3>2, <1>3, <2>2
    <2>6. e < Len(all) => all[e + 1] = [event |-> event + 1, at |-> 1]
      <3>1. CASE e < len
        <4>1. p <= e
          BY <2>2
        <4>2. e + 1 \in 1 .. len
          BY <4>1, <3>1, <2>3, <1>1
        <4>3. QED BY <4>2, <3>1, <1>3, <2>2
      <3>2. CASE e = len
        <4>1. p <= e
          BY <2>2
        <4>2. e \in s + 1 .. e
          BY <4>1, <2>3
        <4>3. bytes[e] = [event |-> event, at |-> e - s]
          BY <4>2, <2>2
        <4>4. bytes # <<>> /\ bytes[Len(bytes)].event = last
          BY <1>9, <2>1, ByteFacts DEF Framed
        <4>5. event = last
          BY <4>3, <4>4, <3>2 DEF len
        <4>6. 1 \in 1 .. n /\ 1 + len = e + 1
          BY <1>1, <3>2
        <4>7. QED BY <4>5, <4>6, <1>4
      <3>3. e <= len
        BY <2>2
      <3>4. QED BY <3>1, <3>2, <3>3, <2>3, <1>1
    <2>7. 0 <= s /\ p <= e /\ e <= Len(all)
      <3>1. 0 <= s /\ p <= e /\ e <= len
        BY <2>2
      <3>2. QED BY <3>1, <1>1, <1>2, <2>3
    <2>8. QED BY <2>3, <2>4, <2>5, <2>6, <2>7 DEF InFrame
  <1>10. ASSUME NEW p \in len + 1 .. len + n
         PROVE  InFrame(all, p, lengths)
    <2>1. p - len \in 1 .. n /\ (p - len) + len = p
      BY <1>1
    <2>2. all[p] = [event |-> last + 1, at |-> p - len]
      BY <2>1, <1>4
    <2>3. p \in 1 .. Len(all)
      BY <1>1, <1>2
    <2>4. Start(all, p) = len /\ End(all, p, lengths) = len + n
      <3>1. /\ Start(all, p) = p - all[p].at
            /\ End(all, p, lengths) = Start(all, p) + FrameSize(all[p].event)
        BY <1>2, <1>5, <2>3, ByteFacts
      <3>2. Start(all, p) = p - (p - len) /\ End(all, p, lengths) = Start(all, p) + n
        BY <3>1, <2>2 DEF n
      <3>3. QED BY <3>2, <1>1
    <2>5. \A q \in len + 1 .. len + n : all[q] = [event |-> last + 1, at |-> q - len]
      <3> SUFFICES ASSUME NEW q \in len + 1 .. len + n
                   PROVE  all[q] = [event |-> last + 1, at |-> q - len]
        OBVIOUS
      <3>1. q - len \in 1 .. n /\ (q - len) + len = q
        BY <1>1
      <3>2. QED BY <3>1, <1>4
    <2>6. all[p].event = last + 1
      BY <2>2
    <2>7. 0 <= len /\ p <= len + n /\ len + n <= Len(all) /\ ~(len + n < Len(all))
      BY <1>1, <1>2
    <2>8. QED BY <2>4, <2>5, <2>6, <2>7 DEF InFrame
  <1>11. \A p \in 1 .. Len(all) : InFrame(all, p, lengths)
    <2> SUFFICES ASSUME NEW p \in 1 .. Len(all) PROVE InFrame(all, p, lengths)
      OBVIOUS
    <2>1. p \in 1 .. len \/ p \in len + 1 .. len + n
      BY <1>1, <1>2
    <2>2. QED BY <2>1, <1>9, <1>10
  <1>12. Framed(all, first, last + 1, lengths)
    BY <1>6, <1>7, <1>8, <1>11 DEF Framed
  <1>13. QED BY <1>12 DEF all, frame

(* An event that is not yet written changes nothing. *)
LEMMA WithNewEvent ==
  ASSUME TypeOK, NEW bytes \in Seq(Byte), Known(bytes, Len(lengths)),
         NEW first \in Nat, NEW last \in Nat, Framed(bytes, first, last, lengths),
         NEW lens, \A e \in 1 .. Len(lengths) : lens[e] = lengths[e]
  PROVE  Framed(bytes, first, last, lens)
  <1>1. \A p \in 1 .. Len(bytes) : End(bytes, p, lens) = End(bytes, p, lengths)
    <2>1. \A p \in 1 .. Len(bytes) : lens[bytes[p].event] = lengths[bytes[p].event]
      BY ByteFacts
    <2>2. QED BY <2>1 DEF End
  <1>2. \A p \in 1 .. Len(bytes) : InFrame(bytes, p, lens)
    <2> SUFFICES ASSUME NEW p \in 1 .. Len(bytes) PROVE InFrame(bytes, p, lens)
      OBVIOUS
    <2>1. InFrame(bytes, p, lengths)
      BY DEF Framed
    <2>2. QED BY <1>1, <2>1 DEF InFrame
  <1>3. QED BY <1>2 DEF Framed

-----------------------------------------------------------------------------
(* The steps. *)

LEMMA InitIInv == Init => IInv
  <1> SUFFICES ASSUME Init PROVE IInv
    OBVIOUS
  <1>1. TypeOK
    <2>1. \A S : <<>> \in Seq(S)
      BY EmptySeq
    <2>2. /\ 0 \in 0 .. EVENT_SIZE - 1 /\ 0 \in 0 .. MaxFrame /\ 0 \in 0 .. MaxCuts
          /\ 0 <= MaxEvents /\ 0 <= EVENT_SIZE
      BY SizeFacts
    <2>3. Len(<<>>) = 0
      OBVIOUS
    <2>4. /\ writer \in [state : {"READY", "IN_PROGRESS"}, processed : 0 .. EVENT_SIZE - 1]
          /\ reader \in [state : {"READY", "FLUSHING"}, processed : 0 .. MaxFrame,
                         flush : 0 .. MaxFrame]
      BY <2>2 DEF Init
    <2>5. QED BY <2>1, <2>2, <2>3, <2>4 DEF Init, TypeOK
  <1>2. /\ buffer = <<>> /\ stream = <<>> /\ lengths = <<>> /\ extracted = <<>>
        /\ Len(buffer) = 0 /\ Len(stream) = 0 /\ Len(lengths) = 0 /\ Len(extracted) = 0
    BY EmptySeq DEF Init
  <1>3. buffer \o stream = <<>> /\ Len(buffer \o stream) = 0
    BY <1>2
  <1>4. WriterInv /\ ReaderInv
    BY <1>2 DEF Init, WriterInv, ReaderInv, Known
  <1>5. Sent = 0
    BY <1>2 DEF Init, Sent
  <1>6. Framed(buffer \o stream, Len(extracted) + 1, Sent, lengths)
    BY <1>2, <1>3, <1>5 DEF Framed
  <1>7. StreamInv
    BY <1>2, <1>6 DEF Init, StreamInv
  <1>8. QED BY <1>1, <1>4, <1>7 DEF IInv

(* What holds of the bytes at hand. *)
LEMMA AtHand ==
  ASSUME IInv
  PROVE  /\ buffer \in Seq(Byte) /\ stream \in Seq(Byte)
         /\ Len(buffer) \in Nat /\ Len(stream) \in Nat /\ Len(extracted) \in Nat
         /\ Known(buffer, Len(lengths)) /\ Known(stream, Len(lengths))
         /\ buffer \o stream \in Seq(Byte) /\ Known(buffer \o stream, Len(lengths))
         /\ Len(lengths) \in Nat /\ Sent \in Nat /\ Sent <= Len(lengths)
  <1>1. buffer \in Seq(Byte) /\ stream \in Seq(Byte) /\ Len(extracted) \in Nat
    BY LenProperties DEF IInv, TypeOK
  <1>2. Len(buffer) \in Nat /\ Len(stream) \in Nat
    BY <1>1, LenProperties
  <1>3. Len(lengths) \in Nat
    BY LengthFacts DEF IInv
  <1>4. Known(buffer, Len(lengths)) /\ Known(stream, Len(lengths))
    BY DEF IInv, WriterInv
  <1>5. buffer \o stream \in Seq(Byte) /\ Known(buffer \o stream, Len(lengths))
    BY <1>1, <1>3, <1>4, ConcatProperties, KnownFacts
  <1>6. Sent \in Nat /\ Sent <= Len(lengths)
    BY <1>3 DEF Sent, IInv, TypeOK, WriterInv
  <1>7. QED BY <1>1, <1>2, <1>3, <1>4, <1>5, <1>6

(* A new event leaves the frames and lengths of the others as they are. *)
LEMMA PopulateStep ==
  ASSUME IInv, NEW length \in 1 .. CHAT_EVENT_MAX_DATA_SIZE + 1, Populate(length)
  PROVE  IInv'
  <1> DEFINE n == Len(lengths)
  <1>1. /\ writer.state = "READY" /\ n < MaxEvents /\ length <= CHAT_EVENT_MAX_DATA_SIZE
        /\ lengths' = Append(lengths, length)
        /\ writer' = [writer EXCEPT !.state = "IN_PROGRESS"]
        /\ UNCHANGED <<stream, cuts, reader, buffer, extracting, extracted, delivered, reading,
                       overrun>>
    BY DEF Populate, readVars
  <1>2. TypeOK /\ WriterInv /\ ReaderInv /\ StreamInv
    BY DEF IInv
  <1>3. length \in 1 .. CHAT_EVENT_MAX_DATA_SIZE /\ n \in Nat
    BY <1>1, AtHand, SizeFacts
  <1>4. /\ lengths' \in Seq(1 .. CHAT_EVENT_MAX_DATA_SIZE)
        /\ Len(lengths') = n + 1 /\ lengths'[n + 1] = length
        /\ \A e \in 1 .. n : lengths'[e] = lengths[e]
    <2>1. lengths \in Seq(1 .. CHAT_EVENT_MAX_DATA_SIZE)
      BY <1>2 DEF TypeOK
    <2>2. QED BY <1>1, <1>3, <2>1, AppendProperties
  <1>5. writer' = [state |-> "IN_PROGRESS", processed |-> 0]
    BY <1>1, <1>2 DEF TypeOK, WriterInv
  <1> HIDE DEF n
  <1>6. TypeOK'
    <2>1. Len(lengths') <= MaxEvents
      BY <1>1, <1>3, <1>4, SizeFacts
    <2>2. writer' \in [state : {"READY", "IN_PROGRESS"}, processed : 0 .. EVENT_SIZE - 1]
      <3>1. 0 \in 0 .. EVENT_SIZE - 1
        BY SizeFacts
      <3>2. QED BY <1>5, <3>1
    <2>3. QED BY <1>1, <1>2, <1>4, <2>1, <2>2 DEF TypeOK
  <1>7. WriterInv'
    <2>1. FrameSize(Len(lengths))' = CHAT_EVENT_HEADER_SIZE + length
      BY <1>4 DEF FrameSize
    <2>2. 0 < FrameSize(Len(lengths))' /\ Len(lengths') > 0
      BY <2>1, <1>3, <1>4, SizeFacts
    <2>3. Known(buffer, n + 1) /\ Known(stream, n + 1)
      <3>1. Known(buffer, n) /\ Known(stream, n)
        BY AtHand DEF n
      <3>2. \A p \in 1 .. Len(buffer) : buffer[p].event \in Nat
        BY AtHand, ByteFacts, <1>2
      <3>3. \A p \in 1 .. Len(stream) : stream[p].event \in Nat
        BY AtHand, ByteFacts, <1>2
      <3>4. QED BY <3>1, <3>2, <3>3, <1>3 DEF Known
    <2>4. Known(buffer, Len(lengths))' /\ Known(stream, Len(lengths))'
      BY <1>1, <1>4, <2>3 DEF Known
    <2>5. QED BY <1>5, <2>2, <2>4 DEF WriterInv
  <1>8. ReaderInv'
    <2>1. CHAT_EVENT_HEADER_SIZE <= Len(buffer) =>
            SizeAtFront(buffer)' = SizeAtFront(buffer)
      <3> SUFFICES ASSUME CHAT_EVENT_HEADER_SIZE <= Len(buffer)
                   PROVE  SizeAtFront(buffer)' = SizeAtFront(buffer)
        OBVIOUS
      <3>1. CHAT_EVENT_HEADER_SIZE \in 1 .. Len(buffer)
        BY AtHand, SizeFacts
      <3>2. buffer[CHAT_EVENT_HEADER_SIZE].event \in 1 .. n
        BY <3>1, AtHand, ByteFacts, <1>2 DEF n
      <3>3. QED BY <1>1, <1>4, <3>2 DEF SizeAtFront, AsLength
    <2>2. HoldsFrame(buffer) => HoldsFrame(buffer)'
      BY <2>1, <1>1, AtHand, SizeFacts DEF HoldsFrame
    <2>3. QED BY <1>1, <1>2, <2>2 DEF ReaderInv
  <1>9. StreamInv'
    <2> SUFFICES ASSUME cuts = 0 PROVE StreamInv'
      BY <1>1 DEF StreamInv
    <2>1. /\ Framed(buffer \o stream, Len(extracted) + 1, Sent, lengths)
          /\ Len(extracted) <= n
          /\ \A i \in 1 .. Len(extracted) : extracted[i] = Frame(i)
          /\ reader.state = "READY" /\ reader.processed = Len(buffer) /\ ~overrun
      BY <1>2 DEF StreamInv, n
    <2>2. Framed(buffer \o stream, Len(extracted) + 1, Sent, lengths')
      <3>1. Len(extracted) + 1 \in Nat /\ Sent \in Nat
        BY AtHand
      <3>2. \A e \in 1 .. Len(lengths) : lengths'[e] = lengths[e]
        BY <1>4 DEF n
      <3>3. QED BY <3>1, <3>2, <2>1, <1>2, AtHand, WithNewEvent
    <2>3. Sent' = Sent
      BY <1>1, <1>3, <1>4, <1>5 DEF Sent, n
    <2>4. \A i \in 1 .. Len(extracted) : Frame(i)' = Frame(i)
      <3>1. \A i \in 1 .. Len(extracted) : lengths'[i] = lengths[i]
        BY <2>1, <1>3, <1>4, AtHand
      <3>2. QED BY <3>1 DEF Frame, FrameSize
    <2>5. Len(extracted) <= Len(lengths')
      BY <2>1, <1>3, <1>4, AtHand
    <2>6. (buffer \o stream)' = buffer \o stream
      BY <1>1
    <2>7. QED BY <1>1, <1>5, <2>1, <2>2, <2>3, <2>4, <2>5, <2>6 DEF StreamInv
  <1>10. QED BY <1>6, <1>7, <1>8, <1>9 DEF IInv

(* A whole write adds a frame to the row; after one that was cut short only the
   sizes matter.  *)
LEMMA WriteStep ==
  ASSUME IInv, NEW k \in 1 .. EVENT_SIZE, Write(k)
  PROVE  IInv'
  <1> DEFINE e         == Len(lengths)
             remaining == FrameSize(e) - writer.processed
             part      == SubSeq(Frame(e), 1, k)
  <1>1. /\ writer.state = "IN_PROGRESS" /\ k \in 1 .. remaining
        /\ stream' = stream \o part
        /\ writer' = IF k = remaining
                     THEN [state |-> "READY", processed |-> 0]
                     ELSE [writer EXCEPT !.processed = @ + k]
        /\ UNCHANGED <<lengths, reader, buffer, extracting, extracted, delivered, reading,
                       overrun>>
    BY DEF Write, readVars
  <1>2. TypeOK /\ WriterInv /\ ReaderInv /\ StreamInv
    BY DEF IInv
  <1>3. /\ e \in 1 .. Len(lengths) /\ e \in Nat
        /\ writer.processed \in Nat /\ writer.processed < FrameSize(e)
        /\ FrameSize(e) \in Nat /\ FrameSize(e) <= EVENT_SIZE
    <2>1. e \in 1 .. Len(lengths) /\ e \in Nat
      BY <1>1, <1>2, AtHand DEF WriterInv
    <2>2. writer.processed \in Nat /\ writer.processed < FrameSize(e)
      BY <1>1, <1>2, SizeFacts DEF TypeOK, WriterInv
    <2>3. QED BY <2>1, <2>2, <1>2, LengthFacts
  <1>4. k \in 1 .. FrameSize(e)
    BY <1>1, <1>3
  <1>5. /\ Frame(e) \in Seq(Byte) /\ Len(Frame(e)) = FrameSize(e)
        /\ \A i \in 1 .. FrameSize(e) : Frame(e)[i] = [event |-> e, at |-> i]
    BY <1>2, <1>3, FrameFacts
  <1>6. /\ part \in Seq(Byte) /\ Len(part) = k
        /\ \A i \in 1 .. k : part[i] = [event |-> e, at |-> i]
    BY <1>3, <1>4, <1>5, PartFacts
  <1>7. Known(part, e)
    <2> HIDE DEF part, e
    <2>1. \A i \in 1 .. k : part[i].event = e
      BY <1>6
    <2>2. QED BY <2>1, <1>3, <1>6 DEF Known
  <1>8. /\ writer' \in [state : {"READY", "IN_PROGRESS"}, processed : 0 .. EVENT_SIZE - 1]
        /\ writer'.state = "READY" => writer'.processed = 0
        /\ writer'.state = "IN_PROGRESS" => writer'.processed < FrameSize(e)
    <2> HIDE DEF e, part
    <2>1. CASE k = remaining
      <3>1. writer' = [state |-> "READY", processed |-> 0]
        BY <1>1, <2>1
      <3>2. 0 \in 0 .. EVENT_SIZE - 1
        BY SizeFacts
      <3>3. QED BY <3>1, <3>2
    <2>2. CASE k # remaining
      <3> DEFINE processed == writer.processed + k
      <3>1. processed \in 0 .. EVENT_SIZE - 1 /\ processed < FrameSize(e)
        <4>1. k \in Nat /\ k < remaining
          <5>1. remaining \in Int
            BY <1>3
          <5>2. k \in 1 .. remaining
            BY <1>1
          <5> HIDE DEF remaining
          <5>3. QED BY <5>1, <5>2, <2>2
        <4>2. QED BY <4>1, <1>3, SizeFacts
      <3>2. writer' = [state |-> "IN_PROGRESS", processed |-> processed]
        BY <1>1, <1>2, <2>2 DEF TypeOK
      <3> HIDE DEF processed
      <3>3. QED BY <3>1, <3>2
    <2>3. QED BY <2>1, <2>2
  <1>9. TypeOK'
    <2>1. stream' \in Seq(Byte)
      BY <1>1, <1>6, AtHand, ConcatProperties
    <2>2. cuts' \in 0 .. MaxCuts
      <3>1. /\ k < remaining => cuts < MaxCuts
            /\ cuts' = IF k < remaining THEN cuts + 1 ELSE cuts
        BY DEF Write
      <3>2. cuts \in 0 .. MaxCuts
        BY <1>2 DEF TypeOK
      <3> HIDE DEF remaining
      <3>3. QED BY <3>1, <3>2, SizeFacts
    <2>3. QED BY <1>1, <1>2, <1>8, <2>1, <2>2 DEF TypeOK
  <1>10. WriterInv'
    <2>1. Known(stream', e)
      BY <1>1, <1>3, <1>6, <1>7, AtHand, KnownFacts
    <2>2. FrameSize(Len(lengths))' = FrameSize(e) /\ Len(lengths') = Len(lengths)
      BY <1>1 DEF FrameSize
    <2>3. Known(buffer, Len(lengths))' /\ Known(stream, Len(lengths))'
      BY <1>1, <2>1, AtHand DEF Known
    <2>4. QED BY <1>3, <1>8, <2>2, <2>3 DEF WriterInv
  <1>11. ReaderInv'
    <2>1. HoldsFrame(buffer)' <=> HoldsFrame(buffer)
      BY <1>1 DEF HoldsFrame, SizeAtFront, AsLength
    <2>2. QED BY <1>1, <1>2, <2>1 DEF ReaderInv
  <1>12. StreamInv'
    <2> SUFFICES ASSUME cuts' = 0 PROVE StreamInv'
      BY DEF StreamInv
    <2>1. cuts = 0 /\ ~(k < remaining)
      <3>1. cuts' = IF k < remaining THEN cuts + 1 ELSE cuts
        BY DEF Write
      <3>2. cuts \in Nat
        BY <1>2, SizeFacts DEF TypeOK
      <3> HIDE DEF remaining
      <3>3. QED BY <3>1, <3>2
    <2>2. /\ writer.processed = 0
          /\ Framed(buffer \o stream, Len(extracted) + 1, Sent, lengths)
          /\ Len(extracted) <= Len(lengths)
          /\ \A i \in 1 .. Len(extracted) : extracted[i] = Frame(i)
          /\ reader.state = "READY" /\ reader.processed = Len(buffer) /\ ~overrun
      BY <1>2, <2>1 DEF StreamInv
    <2>3. k = remaining /\ k = FrameSize(e)
      BY <1>1, <1>3, <2>1, <2>2
    <2>4. writer' = [state |-> "READY", processed |-> 0]
      BY <1>1, <2>3
    <2>5. Sent + 1 = e /\ Sent' = e /\ Sent \in Nat
      BY <1>1, <1>3, <2>4, AtHand DEF Sent
    <2>6. part = Frame(e)
      BY <1>5, <2>3, SubSeqFull
    <2>7. (buffer \o stream)' = (buffer \o stream) \o Frame(e)
      <3>1. buffer \in Seq(Byte) /\ stream \in Seq(Byte) /\ Frame(e) \in Seq(Byte)
        BY <1>5, AtHand
      <3>2. (buffer \o stream) \o Frame(e) = buffer \o (stream \o Frame(e))
        BY <3>1, Associates
      <3>3. (buffer \o stream)' = buffer \o (stream \o Frame(e))
        BY <1>1, <2>6
      <3>4. QED BY <3>2, <3>3
    <2>8. Framed((buffer \o stream) \o Frame(e), Len(extracted) + 1, e, lengths)
      <3>1. Len(extracted) + 1 \in Nat /\ Sent + 1 \in 1 .. Len(lengths)
        BY <1>3, <2>5, AtHand
      <3>2. Framed((buffer \o stream) \o Frame(Sent + 1), Len(extracted) + 1, Sent + 1,
                   lengths)
        BY <3>1, <2>2, <2>5, <1>2, AtHand, WithOneMore
      <3>3. QED BY <3>2, <2>5
    <2>9. Framed((buffer \o stream)', Len(extracted') + 1, Sent', lengths')
      BY <1>1, <2>5, <2>7, <2>8
    <2>10. \A i \in 1 .. Len(extracted) : Frame(i)' = Frame(i)
      BY <1>1 DEF Frame, FrameSize
    <2>11. QED BY <1>1, <2>2, <2>4, <2>9, <2>10 DEF StreamInv
  <1>13. QED BY <1>9, <1>10, <1>11, <1>12 DEF IInv

(* A step of the reader leaves the writer and what it has written alone. *)
LEMMA ReaderLeaves ==
  ASSUME IInv, UNCHANGED writeVars,
         buffer' \in Seq(Byte), stream' \in Seq(Byte),
         Known(buffer', Len(lengths)), Known(stream', Len(lengths))
  PROVE  /\ WriterInv'
         /\ Sent' = Sent
         /\ \A e : Frame(e)' = Frame(e)
         /\ HoldsFrame(buffer)' <=> HoldsFrame(buffer')
  <1>1. lengths' = lengths /\ writer' = writer
    BY DEF writeVars
  <1>2. WriterInv'
    BY <1>1 DEF IInv, WriterInv, Known, FrameSize
  <1>3. QED BY <1>1, <1>2 DEF Sent, Frame, FrameSize, HoldsFrame, SizeAtFront, AsLength

(* A read moves bytes, and makes the reader flush only what is too long. *)
LEMMA ReadStep ==
  ASSUME IInv, NEW k \in 1 .. EVENT_SIZE, Read(k)
  PROVE  IInv'
  <1> DEFINE part == SubSeq(stream, 1, k)
             rest == SubSeq(stream, k + 1, Len(stream))
             all  == buffer \o part
  <1>1. /\ Idle /\ reader.state = "READY"
        /\ k \in 1 .. Len(stream) /\ k <= EVENT_SIZE - reader.processed
        /\ stream' = rest /\ buffer' = all
        /\ AfterRead(buffer')
        /\ UNCHANGED writeVars /\ UNCHANGED <<extracted, delivered, reading,
                       overrun>>
    BY DEF Read
  <1>2. TypeOK /\ WriterInv /\ ReaderInv /\ StreamInv
    BY DEF IInv
  <1>3. /\ part \in Seq(Byte) /\ Len(part) = k /\ rest \in Seq(Byte)
        /\ \A i \in 1 .. k : part[i] = stream[i]
        /\ Len(rest) = Len(stream) - k
        /\ \A i \in 1 .. Len(stream) - k : rest[i] = stream[i + k]
    <2>1. k \in 0 .. Len(stream)
      BY <1>1, AtHand
    <2>2. QED BY <2>1, AtHand, PartFacts
  <1>4. Known(part, Len(lengths)) /\ Known(rest, Len(lengths))
    <2>1. Known(part, Len(lengths))
      BY <1>1, <1>3, AtHand DEF Known
    <2>2. \A i \in 1 .. Len(stream) - k : i + k \in 1 .. Len(stream)
      BY AtHand
    <2>3. QED BY <2>1, <2>2, <1>3, AtHand DEF Known
  <1> HIDE DEF part, rest
  <1>5. all \in Seq(Byte) /\ Len(all) = Len(buffer) + k /\ Known(all, Len(lengths))
    BY <1>3, <1>4, AtHand, ConcatProperties, KnownFacts
  <1> HIDE DEF all
  <1>6. /\ WriterInv' /\ Sent' = Sent /\ \A e : Frame(e)' = Frame(e)
        /\ HoldsFrame(buffer)' <=> HoldsFrame(all)
    BY <1>1, <1>3, <1>4, <1>5, ReaderLeaves
  <1>7. /\ Len(all) \in Nat /\ Len(all) <= EVENT_SIZE
        /\ reader.processed \in Nat /\ Len(buffer) <= reader.processed
        /\ EVENT_SIZE <= MaxFrame
    <2>1. reader.processed \in Nat /\ Len(buffer) <= reader.processed
      BY <1>2, SizeFacts DEF TypeOK, ReaderInv
    <2>2. QED BY <2>1, <1>1, <1>5, AtHand, SizeFacts
  <1> DEFINE size    == SizeAtFront(all)
             tooLong == CHAT_EVENT_HEADER_SIZE <= Len(all) /\ EVENT_SIZE < size
  <1>8. /\ extracting' = HoldsFrame(all)
        /\ tooLong => reader' = [state |-> "FLUSHING", processed |-> Len(all), flush |-> size]
        /\ ~tooLong => reader' = [reader EXCEPT !.processed = Len(all)]
    BY <1>1, <1>7, SizeFacts DEF AfterRead
  <1>9. tooLong => size \in 0 .. MaxFrame /\ Len(all) <= size /\ ~HoldsFrame(all)
    <2>1. CHAT_EVENT_HEADER_SIZE <= Len(all) => size \in Nat /\ size <= MaxFrame
      BY <1>2, <1>5, FrontFacts
    <2> HIDE DEF size
    <2>2. tooLong => size \in 0 .. MaxFrame /\ Len(all) < size
      BY <2>1, <1>7, SizeFacts
    <2>3. tooLong => ~(Len(all) >= size)
      BY <2>1, <2>2, <1>7
    <2>4. QED BY <2>2, <2>3, <1>7 DEF HoldsFrame, size
  <1> HIDE DEF tooLong, size
  <1>10. /\ reader' \in [state : {"READY", "FLUSHING"}, processed : 0 .. MaxFrame,
                         flush : 0 .. MaxFrame]
         /\ reader'.processed = Len(all)
         /\ reader'.state = "FLUSHING" => tooLong /\ reader'.flush = size
         /\ ~tooLong => reader'.state = "READY"
    <2>1. Len(all) \in 0 .. MaxFrame
      BY <1>7, SizeFacts
    <2>2. CASE tooLong
      BY <2>1, <2>2, <1>8, <1>9
    <2>3. CASE ~tooLong
      BY <2>1, <2>3, <1>1, <1>2, <1>8 DEF TypeOK
    <2>4. QED BY <2>2, <2>3
  <1>11. TypeOK'
    <2>1. extracting' \in BOOLEAN
      BY <1>8 DEF HoldsFrame
    <2>2. QED BY <1>1, <1>2, <1>3, <1>5, <1>7, <1>10, <2>1 DEF TypeOK, writeVars
  <1>12. ReaderInv'
    <2>1. Len(buffer') <= reader'.processed /\ reader'.processed = Len(buffer')
      BY <1>1, <1>7, <1>10
    <2>2. reader'.state = "FLUSHING" => ~extracting' /\ reader'.processed <= reader'.flush
      BY <1>8, <1>9, <1>10
    <2>3. QED BY <1>6, <1>8, <2>1, <2>2 DEF ReaderInv
  <1>13. StreamInv'
    <2> SUFFICES ASSUME cuts = 0 PROVE StreamInv'
      BY <1>1 DEF StreamInv, writeVars
    <2>1. /\ writer.processed = 0
          /\ Framed(buffer \o stream, Len(extracted) + 1, Sent, lengths)
          /\ Len(extracted) <= Len(lengths)
          /\ \A i \in 1 .. Len(extracted) : extracted[i] = Frame(i)
          /\ ~overrun
      BY <1>2 DEF StreamInv
    <2>2. all \o rest = buffer \o stream
      <3>1. part \o rest = stream
        <4>1. /\ 1 \in 1 .. Len(stream) + 1 /\ k \in 1 - 1 .. Len(stream)
              /\ Len(stream) \in k .. Len(stream)
          BY <1>1, AtHand
        <4>2. part \o rest = SubSeq(stream, 1, Len(stream))
          BY <4>1, AtHand, ConcatAdjacentSubSeq DEF part, rest
        <4>3. QED BY <4>2, AtHand, SubSeqFull
      <3>2. buffer \in Seq(Byte)
        BY AtHand
      <3>3. (buffer \o part) \o rest = buffer \o (part \o rest)
        BY <3>2, <1>3, Associates
      <3>4. QED BY <3>1, <3>3 DEF all
    <2>3. ~tooLong
      <3> SUFFICES ASSUME CHAT_EVENT_HEADER_SIZE <= Len(all)
                   PROVE  size \in Nat /\ size <= EVENT_SIZE
        BY SizeFacts DEF tooLong
      <3> DEFINE n == CHAT_EVENT_HEADER_SIZE
                 first == Len(extracted) + 1
      <3>1. n \in 1 .. Len(all) /\ n \in Nat /\ 0 < n
        BY <1>7, SizeFacts
      <3>2. (all \o rest)[n] = all[n] /\ Len(all \o rest) = Len(all) + Len(rest)
        <4>1. /\ Len(all \o rest) = Len(all) + Len(rest) /\ Len(rest) \in Nat
              /\ \A i \in 1 .. Len(all) + Len(rest) : (all \o rest)[i] =
                   IF i <= Len(all) THEN all[i] ELSE rest[i - Len(all)]
          BY <1>3, <1>5, JoinFacts
        <4>2. n \in 1 .. Len(all) + Len(rest) /\ n <= Len(all)
          BY <3>1, <4>1, <1>7
        <4> HIDE DEF n
        <4>3. QED BY <4>1, <4>2
      <3>3. buffer \o stream # <<>>
        <4>1. Len(rest) \in Nat
          BY <1>3, LenProperties
        <4>2. Len(buffer \o stream) # 0
          BY <2>2, <3>1, <3>2, <4>1, <1>7
        <4>3. QED BY <4>2
      <3>4. /\ first \in 1 .. Len(lengths)
            /\ \A i \in 1 .. FrameSize(first) :
                 (buffer \o stream)[i] = [event |-> first, at |-> i]
        <4>1. first \in Nat /\ Sent \in Nat
          BY AtHand
        <4>2. QED BY <4>1, <3>3, <2>1, <1>2, AtHand, FirstFrame
      <3> HIDE DEF first
      <3>5. n \in 1 .. FrameSize(first) /\ FrameSize(first) <= EVENT_SIZE
            /\ FrameSize(first) = n + lengths[first] /\ FrameSize(first) \in Nat
        BY <3>1, <3>4, <1>2, LengthFacts
      <3> HIDE DEF n
      <3>6. all[n] = [event |-> first, at |-> n]
        BY <3>2, <3>4, <3>5, <2>2
      <3>7. size = FrameSize(first)
        BY <3>5, <3>6 DEF size, SizeAtFront, AsLength, n
      <3>8. QED BY <3>5, <3>7
    <2>4. (buffer \o stream)' = buffer \o stream
      BY <2>2, <1>1
    <2>5. Framed((buffer \o stream)', Len(extracted') + 1, Sent', lengths')
      BY <2>1, <2>4, <1>1, <1>6 DEF writeVars
    <2>6. reader'.state = "READY" /\ reader'.processed = Len(buffer')
      BY <2>3, <1>1, <1>10
    <2>7. QED BY <2>1, <2>5, <2>6, <1>1, <1>6 DEF StreamInv, writeVars
  <1>14. QED BY <1>6, <1>11, <1>12, <1>13 DEF IInv

(* Only a count that went past the buffer lets a read go past it. *)
LEMMA ReadOverrunStep ==
  ASSUME IInv, ReadOverrun
  PROVE  IInv'
  <1>1. /\ EVENT_SIZE < reader.processed /\ overrun' = TRUE
        /\ UNCHANGED writeVars
        /\ UNCHANGED <<stream, reader, buffer, extracting, extracted, delivered, reading>>
    BY SizeFacts DEF ReadOverrun, IInv, TypeOK
  <1>2. TypeOK /\ WriterInv /\ ReaderInv /\ StreamInv
    BY DEF IInv
  <1>3. /\ WriterInv' /\ Sent' = Sent
        /\ HoldsFrame(buffer)' <=> HoldsFrame(buffer)
    BY <1>1, AtHand, ReaderLeaves
  <1>4. cuts # 0
    <2>1. Len(buffer) <= EVENT_SIZE
      BY <1>2 DEF TypeOK
    <2>2. reader.processed # Len(buffer)
      BY <1>1, <2>1, AtHand, SizeFacts
    <2>3. QED BY <2>2, <1>2 DEF StreamInv
  <1>5. TypeOK'
    BY <1>1, <1>2 DEF TypeOK, writeVars
  <1>6. ReaderInv' /\ StreamInv'
    BY <1>1, <1>2, <1>3, <1>4 DEF ReaderInv, StreamInv, writeVars
  <1>7. QED BY <1>3, <1>5, <1>6 DEF IInv

(* The reader flushes only after a write was cut short. *)
LEMMA FlushStep ==
  ASSUME IInv, NEW k \in 1 .. EVENT_SIZE, Flush(k)
  PROVE  IInv'
  <1> DEFINE rest      == SubSeq(stream, k + 1, Len(stream))
             processed == reader.processed + k
  <1>1. /\ reader.state = "FLUSHING"
        /\ k \in 1 .. Len(stream) /\ k <= reader.flush - reader.processed
        /\ stream' = rest /\ buffer' = <<>>
        /\ reader' = [reader EXCEPT !.processed = processed,
                                    !.state = IF processed = reader.flush THEN "READY" ELSE @]
        /\ UNCHANGED writeVars /\ UNCHANGED <<extracting, extracted, delivered, reading,
                       overrun>>
    BY DEF Flush
  <1>2. TypeOK /\ WriterInv /\ ReaderInv /\ StreamInv
    BY DEF IInv
  <1>3. /\ rest \in Seq(Byte) /\ Len(rest) = Len(stream) - k
        /\ \A i \in 1 .. Len(stream) - k : rest[i] = stream[i + k]
    <2>1. k \in 0 .. Len(stream)
      BY <1>1, AtHand
    <2>2. QED BY <2>1, AtHand, PartFacts
  <1>4. Known(rest, Len(lengths))
    <2>1. \A i \in 1 .. Len(stream) - k : i + k \in 1 .. Len(stream)
      BY AtHand
    <2> HIDE DEF rest
    <2>2. QED BY <2>1, <1>3, AtHand DEF Known
  <1> HIDE DEF rest
  <1>5. /\ buffer' \in Seq(Byte) /\ Len(buffer') = 0 /\ Known(buffer', Len(lengths))
    BY <1>1, EmptySeq DEF Known
  <1>6. /\ reader.processed \in 0 .. MaxFrame /\ reader.flush \in 0 .. MaxFrame
        /\ processed \in 0 .. MaxFrame /\ processed <= reader.flush
    <2>1. reader.processed \in 0 .. MaxFrame /\ reader.flush \in 0 .. MaxFrame
      BY <1>2 DEF TypeOK
    <2>2. k \in Nat /\ k <= reader.flush - reader.processed
      BY <1>1
    <2> DEFINE old == reader.processed  flush == reader.flush
    <2>3. old \in 0 .. MaxFrame /\ flush \in 0 .. MaxFrame /\ k <= flush - old
          /\ processed = old + k
      BY <2>1, <2>2
    <2> HIDE DEF old, flush, processed
    <2>4. processed \in 0 .. MaxFrame /\ processed <= flush
      BY <2>2, <2>3, SizeFacts
    <2>5. QED BY <2>1, <2>4 DEF flush
  <1>7. cuts # 0 /\ ~extracting
    BY <1>1, <1>2 DEF StreamInv, ReaderInv
  <1> HIDE DEF processed
  <1>8. /\ reader' \in [state : {"READY", "FLUSHING"}, processed : 0 .. MaxFrame,
                        flush : 0 .. MaxFrame]
        /\ reader'.processed = processed /\ reader'.flush = reader.flush
    BY <1>1, <1>2, <1>6 DEF TypeOK
  <1>9. TypeOK'
    BY <1>1, <1>2, <1>3, <1>5, <1>8, SizeFacts DEF TypeOK, writeVars
  <1>10. WriterInv'
    BY <1>1, <1>3, <1>4, <1>5, ReaderLeaves
  <1>11. ReaderInv' /\ StreamInv'
    BY <1>1, <1>5, <1>6, <1>7, <1>8, SizeFacts DEF ReaderInv, StreamInv, writeVars
  <1>12. QED BY <1>9, <1>10, <1>11 DEF IInv

(* The first frame of the row is the next event, and the rest stays in a row. *)
LEMMA ExtractStep ==
  ASSUME IInv, Extract
  PROVE  IInv'
  <1> DEFINE size  == SizeAtFront(buffer)
             frame == SubSeq(buffer, 1, size)
             rest  == SubSeq(buffer, size + 1, Len(buffer))
  <1>1. /\ extracting /\ buffer' = rest
        /\ reader' = [reader EXCEPT !.processed = @ - size]
        /\ extracted' = Append(extracted, frame)
        /\ extracting' = HoldsFrame(rest)
        /\ delivered' = IF HoldsFrame(rest) THEN delivered ELSE Append(delivered, frame)
        /\ UNCHANGED writeVars /\ UNCHANGED <<stream, reading, overrun>>
    BY DEF Extract
  <1>2. TypeOK /\ WriterInv /\ ReaderInv /\ StreamInv
    BY DEF IInv
  <1>3. /\ CHAT_EVENT_HEADER_SIZE <= Len(buffer) /\ size <= Len(buffer)
        /\ reader.processed = Len(buffer) /\ reader.state = "READY"
    <2>1. Len(buffer) >= CHAT_EVENT_HEADER_SIZE /\ Len(buffer) >= size
      BY <1>1, <1>2 DEF ReaderInv, HoldsFrame
    <2>2. size \in Int
      BY <2>1, <1>2, AtHand, FrontFacts, SizeFacts
    <2>3. reader.processed = Len(buffer) /\ reader.state = "READY"
      BY <1>1, <1>2 DEF ReaderInv, TypeOK
    <2>4. QED BY <2>1, <2>2, <2>3, AtHand, SizeFacts
  <1>4. size \in Nat /\ CHAT_EVENT_HEADER_SIZE < size
    BY <1>2, <1>3, AtHand, FrontFacts
  <1> HIDE DEF size
  <1>5. /\ frame \in Seq(Byte) /\ Len(frame) = size
        /\ \A i \in 1 .. size : frame[i] = buffer[i]
        /\ rest \in Seq(Byte) /\ Len(rest) = Len(buffer) - size
        /\ \A i \in 1 .. Len(buffer) - size : rest[i] = buffer[i + size]
    <2>1. size \in 0 .. Len(buffer)
      BY <1>3, <1>4, AtHand
    <2>2. QED BY <2>1, AtHand, PartFacts
  <1>6. Known(rest, Len(lengths))
    <2>1. \A i \in 1 .. Len(buffer) - size : i + size \in 1 .. Len(buffer)
      BY <1>4, AtHand
    <2> HIDE DEF rest
    <2>2. QED BY <2>1, <1>5, AtHand DEF Known
  <1> HIDE DEF frame, rest
  <1>7. /\ WriterInv' /\ Sent' = Sent /\ \A e : Frame(e)' = Frame(e)
        /\ HoldsFrame(buffer)' <=> HoldsFrame(rest)
    BY <1>1, <1>5, <1>6, AtHand, ReaderLeaves
  <1>8. /\ reader' \in [state : {"READY", "FLUSHING"}, processed : 0 .. MaxFrame,
                        flush : 0 .. MaxFrame]
        /\ reader'.processed = Len(rest) /\ reader'.state = "READY"
    <2> DEFINE processed == reader.processed - size
    <2>1. processed = Len(rest) /\ processed \in 0 .. MaxFrame
      <3>1. reader.processed \in 0 .. MaxFrame
        BY <1>2 DEF TypeOK
      <3>2. QED BY <3>1, <1>3, <1>4, <1>5, AtHand, SizeFacts
    <2>2. reader' = [reader EXCEPT !.processed = processed]
      BY <1>1
    <2> HIDE DEF processed
    <2>3. QED BY <2>1, <2>2, <1>2, <1>3 DEF TypeOK
  <1>9. /\ extracted' \in Seq(Seq(Byte)) /\ delivered' \in Seq(Seq(Byte))
        /\ Len(extracted') = Len(extracted) + 1
        /\ \A i \in 1 .. Len(extracted) : extracted'[i] = extracted[i]
        /\ extracted'[Len(extracted) + 1] = frame
    <2>1. extracted \in Seq(Seq(Byte)) /\ delivered \in Seq(Seq(Byte))
      BY <1>2 DEF TypeOK
    <2>2. Append(delivered, frame) \in Seq(Seq(Byte))
      BY <2>1, <1>5, AppendProperties
    <2>3. delivered' \in Seq(Seq(Byte))
      BY <2>1, <2>2, <1>1
    <2>4. QED BY <2>1, <2>3, <1>1, <1>5, AppendProperties
  <1>10. TypeOK'
    <2>1. Len(rest) <= EVENT_SIZE
      <3>1. Len(buffer) <= EVENT_SIZE
        BY <1>2 DEF TypeOK
      <3>2. QED BY <3>1, <1>4, <1>5, AtHand, SizeFacts
    <2>2. extracting' \in BOOLEAN
      BY <1>1 DEF HoldsFrame
    <2>3. QED BY <1>1, <1>2, <1>5, <1>8, <1>9, <2>1, <2>2 DEF TypeOK, writeVars
  <1>11. ReaderInv'
    <2>1. Len(buffer') <= reader'.processed
      BY <1>1, <1>5, <1>8, LenProperties
    <2>2. QED BY <2>1, <1>1, <1>7, <1>8 DEF ReaderInv
  <1>12. StreamInv'
    <2> SUFFICES ASSUME cuts = 0 PROVE StreamInv'
      BY <1>1 DEF StreamInv, writeVars
    <2> DEFINE bytes == buffer \o stream
               first == Len(extracted) + 1
               n     == CHAT_EVENT_HEADER_SIZE
    <2>1. /\ writer.processed = 0
          /\ Framed(bytes, first, Sent, lengths)
          /\ Len(extracted) <= Len(lengths)
          /\ \A i \in 1 .. Len(extracted) : extracted[i] = Frame(i)
          /\ ~overrun
      BY <1>2 DEF StreamInv
    <2>2. /\ bytes \in Seq(Byte) /\ Len(bytes) = Len(buffer) + Len(stream)
          /\ \A i \in 1 .. Len(buffer) + Len(stream) :
               bytes[i] = IF i <= Len(buffer) THEN buffer[i] ELSE stream[i - Len(buffer)]
      BY AtHand, ConcatProperties
    <2>3. bytes # <<>> /\ Known(bytes, Len(lengths)) /\ first \in Nat /\ Sent \in Nat
      <3>1. Len(bytes) # 0
        BY <2>2, <1>3, AtHand, SizeFacts
      <3>2. QED BY <3>1, AtHand
    <2> HIDE DEF bytes, first
    <2>4. /\ first \in 1 .. Len(lengths)
          /\ \A i \in 1 .. FrameSize(first) : bytes[i] = [event |-> first, at |-> i]
          /\ Framed(SubSeq(bytes, FrameSize(first) + 1, Len(bytes)), first + 1, Sent, lengths)
      BY <2>1, <2>2, <2>3, <1>2, FirstFrame, WithoutFirst
    <2>5. /\ FrameSize(first) \in Nat /\ n < FrameSize(first)
          /\ FrameSize(first) = n + lengths[first]
      BY <2>4, <1>2, LengthFacts
    <2>6. size = FrameSize(first)
      <3>1. n \in 1 .. Len(buffer) + Len(stream) /\ n <= Len(buffer) /\ n \in 1 .. FrameSize(first)
        BY <2>5, <1>3, AtHand, SizeFacts
      <3> HIDE DEF n
      <3>2. buffer[n] = [event |-> first, at |-> n]
        BY <3>1, <2>2, <2>4
      <3>3. QED BY <3>2, <2>5 DEF size, SizeAtFront, AsLength, n
    <2>7. \A i \in 1 .. size : frame[i] = [event |-> first, at |-> i]
      <3> SUFFICES ASSUME NEW i \in 1 .. size
                   PROVE  frame[i] = [event |-> first, at |-> i]
        OBVIOUS
      <3>1. i \in 1 .. Len(buffer) + Len(stream) /\ i <= Len(buffer)
        BY <1>3, <1>4, AtHand
      <3>2. bytes[i] = buffer[i]
        BY <3>1, <2>2
      <3>3. QED BY <3>2, <2>4, <2>6, <1>5
    <2>8. frame = Frame(first)
      <3>1. /\ Frame(first) \in Seq(Byte) /\ Len(Frame(first)) = size
            /\ \A i \in 1 .. size : Frame(first)[i] = [event |-> first, at |-> i]
        BY <2>4, <2>6, <1>2, FrameFacts
      <3>2. QED BY <3>1, <2>7, <1>5, SeqEqual
    <2>9. rest \o stream = SubSeq(bytes, size + 1, Len(bytes))
      <3> DEFINE left == SubSeq(bytes, size + 1, Len(bytes))
                 both == rest \o stream
      <3>1. size \in 0 .. Len(bytes)
        BY <2>2, <1>3, <1>4, AtHand
      <3>2. /\ left \in Seq(Byte) /\ Len(left) = Len(bytes) - size
            /\ \A i \in 1 .. Len(bytes) - size : left[i] = bytes[i + size]
        BY <3>1, <2>2, PartFacts, Zenon
      <3>3. /\ both \in Seq(Byte) /\ Len(both) = Len(rest) + Len(stream)
            /\ \A i \in 1 .. Len(rest) + Len(stream) :
                 both[i] = IF i <= Len(rest) THEN rest[i] ELSE stream[i - Len(rest)]
        BY <1>5, AtHand, JoinFacts
      <3> HIDE DEF left, both
      <3>4. Len(left) = Len(both)
        BY <3>2, <3>3, <2>2, <1>4, <1>5, AtHand
      <3>5. ASSUME NEW i \in 1 .. Len(left)
            PROVE  left[i] = both[i]
        <4>1. /\ i \in 1 .. Len(bytes) - size /\ i \in 1 .. Len(rest) + Len(stream)
              /\ i + size \in 1 .. Len(buffer) + Len(stream)
              /\ (i + size) - Len(buffer) = i - Len(rest)
              /\ i <= Len(rest) <=> i + size <= Len(buffer)
              /\ i <= Len(rest) => i \in 1 .. Len(buffer) - size
          BY <3>2, <3>4, <3>3, <2>2, <1>3, <1>4, <1>5, AtHand
        <4>2. left[i] = bytes[i + size]
          BY <4>1, <3>2
        <4>3. both[i] = IF i <= Len(rest) THEN rest[i] ELSE stream[i - Len(rest)]
          BY <4>1, <3>3
        <4>4. bytes[i + size] = IF i + size <= Len(buffer) THEN buffer[i + size]
                                ELSE stream[(i + size) - Len(buffer)]
          BY <4>1, <2>2
        <4>5. i <= Len(rest) => rest[i] = buffer[i + size]
          BY <4>1, <1>5
        <4>6. QED BY <4>1, <4>2, <4>3, <4>4, <4>5
      <3>6. left = both
        BY <3>2, <3>3, <3>4, <3>5, SeqEqual
      <3>7. QED BY <3>6 DEF left, both
    <2>10. (buffer \o stream)' = SubSeq(bytes, FrameSize(first) + 1, Len(bytes))
      BY <2>6, <2>9, <1>1
    <2>11. Len(extracted') = first /\ first <= Len(lengths)
      BY <2>4, <1>9, AtHand DEF first
    <2>12. Framed((buffer \o stream)', Len(extracted') + 1, Sent', lengths')
      BY <2>4, <2>10, <2>11, <1>1, <1>7 DEF writeVars
    <2>13. \A i \in 1 .. Len(extracted') : extracted'[i] = Frame(i)
      <3>1. extracted'[first] = Frame(first)
        BY <2>8, <1>9 DEF first
      <3>2. \A i \in 1 .. Len(extracted') : i \in 1 .. Len(extracted) \/ i = first
        BY <2>11, AtHand DEF first
      <3>3. QED BY <3>1, <3>2, <2>1, <1>9
    <2>14. QED BY <2>1, <2>11, <2>12, <2>13, <1>1, <1>7, <1>8 DEF StreamInv, writeVars
  <1>13. QED BY <1>7, <1>10, <1>11, <1>12 DEF IInv

(* A reader that stops leaves everything as it is; so does a step of nobody. *)
LEMMA StopStep ==
  ASSUME IInv, StopsReading \/ UNCHANGED vars
  PROVE  IInv'
  <1>1. /\ UNCHANGED writeVars /\ UNCHANGED <<stream, reader, buffer>>
        /\ UNCHANGED <<extracting, extracted, delivered, overrun>>
        /\ reading' \in BOOLEAN
    BY DEF vars, writeVars, StopsReading, IInv, TypeOK
  <1>2. TypeOK /\ WriterInv /\ ReaderInv /\ StreamInv
    BY DEF IInv
  <1>3. /\ WriterInv' /\ Sent' = Sent /\ \A e : Frame(e)' = Frame(e)
        /\ HoldsFrame(buffer)' <=> HoldsFrame(buffer)
    BY <1>1, AtHand, ReaderLeaves
  <1>4. TypeOK'
    BY <1>1, <1>2 DEF TypeOK, writeVars
  <1>5. ReaderInv'
    BY <1>1, <1>2, <1>3 DEF ReaderInv
  <1>6. Framed(buffer \o stream, Len(extracted) + 1, Sent, lengths) =>
          Framed((buffer \o stream)', Len(extracted') + 1, Sent', lengths')
    BY <1>1, <1>3 DEF writeVars
  <1>7. StreamInv'
    BY <1>1, <1>2, <1>3, <1>6 DEF StreamInv, writeVars
  <1>8. QED BY <1>3, <1>4, <1>5, <1>7 DEF IInv

-----------------------------------------------------------------------------
(* The theorems. *)

LEMMA StepIInv == IInv /\ [Next]_vars => IInv'
  <1> SUFFICES ASSUME IInv, [Next]_vars PROVE IInv'
    OBVIOUS
  <1>1. CASE \E length \in 1 .. CHAT_EVENT_MAX_DATA_SIZE + 1 : Populate(length)
    BY <1>1, PopulateStep
  <1>2. CASE WriterStep
    BY <1>2, WriteStep DEF WriterStep
  <1>3. CASE ReaderStep
    BY <1>3, ReadStep, FlushStep, ReadOverrunStep, ExtractStep DEF ReaderStep
  <1>4. CASE StopsReading \/ UNCHANGED vars
    BY <1>4, StopStep
  <1>5. QED BY <1>1, <1>2, <1>3, <1>4 DEF Next

(* The writer writes what it was given, the reader's count covers its bytes, and
   until a write is cut short what is under way are whole frames in a row. *)
THEOREM InductiveInvariant == Spec => []IInv
  <1>1. QED BY InitIInv, StepIInv, PTL DEF Spec

(* Every count and every size is in its range, also after a write was cut short. *)
THEOREM TypeCorrect == Spec => []TypeOK
  <1>1. IInv => TypeOK
    BY DEF IInv
  <1>2. QED BY <1>1, InductiveInvariant, PTL

(* However the stream is cut into reads, until a write is cut short each frame
   that the reader returns is one event, in their order, and it never flushes. *)
THEOREM ReturnsTheEvents == Spec => []FramesAreEvents
  <1>1. IInv => FramesAreEvents
    BY DEF IInv, StreamInv, FramesAreEvents
  <1>2. QED BY <1>1, InductiveInvariant, PTL

(* Until then the reader's count is that of its bytes, and no read goes past the
   end of its buffer. *)
THEOREM CountsItsBytes == Spec => []StaysInBuffer
  <1>1. IInv => StaysInBuffer
    BY DEF IInv, StreamInv, StaysInBuffer
  <1>2. QED BY <1>1, InductiveInvariant, PTL

-----------------------------------------------------------------------------
(* Sequences laid end to end.  FlattenSeq is defined by recursion: that the function
   it describes exists, and what it computes, is shown by induction, for sets of
   natural numbers.  *)
LEMMA AllNaturals ==
  ASSUME NEW T, 0 \in T, \A n \in Nat : n \in T => n + 1 \in T
  PROVE  Nat \subseteq T
  <1> DEFINE others == Nat \ T
             less   == OpToRel(<, Nat)
  <1>1. IsWellFoundedOn(less, Nat)
    BY NatLessThanWellFounded
  <1>2. less = {ss \in Nat \X Nat : ss[1] < ss[2]}
    BY DEF OpToRel
  <1> HIDE DEF less
  <1> SUFFICES ASSUME others # {} PROVE FALSE
    OBVIOUS
  <1>3. PICK n \in others : \A m \in others : <<m, n>> \notin less
    BY <1>1, WFMin
  <1>4. n \in Nat /\ n # 0 /\ n - 1 \in Nat /\ (n - 1) + 1 = n /\ n - 1 < n
    BY <1>3
  <1>5. <<n - 1, n>> \in less
    <2> DEFINE m == n - 1
    <2>1. m \in Nat /\ n \in Nat /\ m < n
      BY <1>4
    <2> HIDE DEF m
    <2>2. <<m, n>> \in Nat \X Nat /\ <<m, n>>[1] = m /\ <<m, n>>[2] = n
      BY <2>1
    <2>3. <<m, n>> \in less
      BY <1>2, <2>1, <2>2
    <2>4. QED BY <2>3 DEF m
  <1>6. n - 1 \in T
    BY <1>3, <1>4, <1>5
  <1>7. n \in T
    BY <1>4, <1>6
  <1>8. QED BY <1>3, <1>7

(* f is the function by which FlattenSeq(seqs) is defined. *)
Flattens(f, seqs) ==
  f = [i \in 1 .. Len(seqs) |-> IF i = 1 THEN seqs[i] ELSE f[i - 1] \o seqs[i]]

LEMMA FlattenExists ==
  ASSUME NEW seqs, Len(seqs) \in Nat
  PROVE  \E f : Flattens(f, seqs)
  <1> DEFINE UpTo(f, n) ==
               f = [i \in 1 .. n |-> IF i = 1 THEN seqs[i] ELSE f[i - 1] \o seqs[i]]
             reached == {n \in Nat : \E f : UpTo(f, n)}
  <1>1. 0 \in reached
    <2>1. 1 .. 0 = {}
      OBVIOUS
    <2>2. UpTo([i \in 1 .. 0 |-> seqs[i]], 0)
      BY <2>1
    <2>3. QED BY <2>2
  <1>2. ASSUME NEW n \in Nat, n \in reached PROVE n + 1 \in reached
    <2>1. PICK f : UpTo(f, n)
      BY <1>2
    <2> DEFINE g == [i \in 1 .. n + 1 |-> IF i = 1 THEN seqs[i] ELSE f[i - 1] \o seqs[i]]
    <2>2. ASSUME NEW i \in 1 .. n PROVE g[i] = f[i]
      <3>1. i \in 1 .. n + 1
        BY <2>2
      <3>2. g[i] = IF i = 1 THEN seqs[i] ELSE f[i - 1] \o seqs[i]
        BY <3>1
      <3>3. f[i] = IF i = 1 THEN seqs[i] ELSE f[i - 1] \o seqs[i]
        BY <2>1
      <3>4. QED BY <3>2, <3>3
    <2>3. ASSUME NEW i \in 1 .. n + 1
          PROVE  (IF i = 1 THEN seqs[i] ELSE f[i - 1] \o seqs[i])
                   = IF i = 1 THEN seqs[i] ELSE g[i - 1] \o seqs[i]
      <3>1. i # 1 => i - 1 \in 1 .. n
        BY <2>3
      <3> HIDE DEF g
      <3>2. i # 1 => g[i - 1] = f[i - 1]
        BY <2>2, <3>1
      <3>3. QED BY <3>2
    <2>4. UpTo(g, n + 1)
      BY <2>3
    <2>5. n + 1 \in Nat
      OBVIOUS
    <2> HIDE DEF g, UpTo
    <2>6. QED BY <2>4, <2>5
  <1> HIDE DEF reached
  <1>3. Len(seqs) \in reached
    BY <1>1, <1>2, AllNaturals
  <1>4. QED BY <1>3 DEF reached, Flattens

LEMMA FlattenIs ==
  ASSUME NEW seqs, Len(seqs) \in Nat
  PROVE  \E f : /\ Flattens(f, seqs)
                /\ FlattenSeq(seqs) = IF Len(seqs) = 0 THEN seqs ELSE f[Len(seqs)]
  <1> DEFINE flatten == CHOOSE f : Flattens(f, seqs)
  <1>1. Flattens(flatten, seqs)
    BY FlattenExists
  <1>2. FlattenSeq(seqs) = IF Len(seqs) = 0 THEN seqs ELSE flatten[Len(seqs)]
    BY DEF FlattenSeq, Flattens
  <1>3. QED BY <1>1, <1>2

(* What it computes for a sequence that is one longer. *)
LEMMA FlattenFacts ==
  ASSUME NEW S, NEW seqs \in Seq(Seq(S))
  PROVE  /\ FlattenSeq(seqs) \in Seq(S)
         /\ \A s \in Seq(S) : FlattenSeq(Append(seqs, s)) = FlattenSeq(seqs) \o s
  <1> DEFINE n == Len(seqs)
  <1>1. n \in Nat /\ \A i \in 1 .. n : seqs[i] \in Seq(S)
    BY LenProperties, ElementOfSeq
  <1>2. PICK f : Flattens(f, seqs) /\ FlattenSeq(seqs) = IF n = 0 THEN seqs ELSE f[n]
    BY <1>1, FlattenIs
  <1>3. \A i \in 1 .. n : f[i] = IF i = 1 THEN seqs[i] ELSE f[i - 1] \o seqs[i]
    BY <1>2 DEF Flattens
  <1>4. n = 0 => seqs = <<>>
    BY EmptySeq
  <1> HIDE DEF n
  <1>5. FlattenSeq(seqs) \in Seq(S)
    <2> DEFINE typed == {i \in Nat : i \in 1 .. n => f[i] \in Seq(S)}
    <2>1. 0 \in typed
      OBVIOUS
    <2>2. ASSUME NEW i \in Nat, i \in typed PROVE i + 1 \in typed
      <3> SUFFICES ASSUME i + 1 \in 1 .. n PROVE f[i + 1] \in Seq(S)
        OBVIOUS
      <3>1. CASE i = 0
        BY <1>1, <1>3, <3>1
      <3>2. CASE i # 0
        <4>1. i \in 1 .. n /\ i + 1 # 1 /\ (i + 1) - 1 = i
          BY <1>1, <3>2
        <4>2. f[i] \in Seq(S) /\ f[i + 1] = f[i] \o seqs[i + 1] /\ seqs[i + 1] \in Seq(S)
          BY <1>1, <1>3, <2>2, <4>1
        <4>3. QED BY <4>2, ConcatProperties
      <3>3. QED BY <3>1, <3>2
    <2> HIDE DEF typed
    <2>3. n \in typed
      BY <1>1, <2>1, <2>2, AllNaturals
    <2>4. n # 0 => f[n] \in Seq(S)
      BY <1>1, <2>3 DEF typed
    <2>5. n = 0 => seqs \in Seq(S)
      BY <1>4, EmptySeq
    <2>6. QED BY <1>2, <2>4, <2>5
  <1>6. ASSUME NEW s \in Seq(S)
        PROVE  FlattenSeq(Append(seqs, s)) = FlattenSeq(seqs) \o s
    <2> DEFINE longer == Append(seqs, s)
    <2>1. /\ Len(longer) = n + 1 /\ longer[n + 1] = s
          /\ \A i \in 1 .. n : longer[i] = seqs[i]
      BY AppendProperties DEF n
    <2> HIDE DEF longer
    <2>2. Len(longer) \in Nat /\ n + 1 # 0
      BY <1>1, <2>1
    <2>3. PICK g : Flattens(g, longer) /\ FlattenSeq(longer) = g[n + 1]
      BY <2>1, <2>2, FlattenIs
    <2>4. \A i \in 1 .. n + 1 : g[i] = IF i = 1 THEN longer[i] ELSE g[i - 1] \o longer[i]
      BY <2>1, <2>3 DEF Flattens
    <2> DEFINE same == {i \in Nat : i \in 1 .. n => g[i] = f[i]}
    <2>5. 0 \in same
      OBVIOUS
    <2>6. ASSUME NEW i \in Nat, i \in same PROVE i + 1 \in same
      <3> SUFFICES ASSUME i + 1 \in 1 .. n PROVE g[i + 1] = f[i + 1]
        OBVIOUS
      <3>1. /\ i + 1 \in 1 .. n + 1
            /\ i # 0 => i \in 1 .. n /\ i + 1 # 1 /\ (i + 1) - 1 = i
        BY <1>1
      <3>2. longer[i + 1] = seqs[i + 1]
        BY <2>1
      <3>3. CASE i = 0
        BY <1>3, <2>4, <3>1, <3>2, <3>3
      <3>4. CASE i # 0
        <4>1. /\ g[i + 1] = g[i] \o seqs[i + 1]
              /\ f[i + 1] = f[i] \o seqs[i + 1]
          BY <1>3, <2>4, <3>1, <3>2, <3>4
        <4>2. g[i] = f[i]
          BY <2>6, <3>1, <3>4
        <4>3. QED BY <4>1, <4>2
      <3>5. QED BY <3>3, <3>4
    <2> HIDE DEF same
    <2>7. n \in same
      BY <1>1, <2>5, <2>6, AllNaturals
    <2>8. CASE n = 0
      <3>1. FlattenSeq(longer) = s
        BY <2>1, <2>3, <2>4, <2>8
      <3>2. FlattenSeq(seqs) = <<>>
        BY <1>2, <1>4, <2>8
      <3>3. QED BY <3>1, <3>2, ConcatEmptySeq DEF longer
    <2>9. CASE n # 0
      <3>1. n \in 1 .. n /\ n + 1 \in 1 .. n + 1 /\ n + 1 # 1 /\ (n + 1) - 1 = n
        BY <1>1, <2>9
      <3>2. FlattenSeq(longer) = g[n] \o s
        BY <2>1, <2>3, <2>4, <3>1
      <3>3. g[n] = f[n]
        BY <2>7, <3>1 DEF same
      <3>4. QED BY <1>2, <2>9, <3>2, <3>3 DEF longer
    <2>10. QED BY <2>8, <2>9
  <1>7. QED BY <1>5, <1>6

(* A sequence of bytes is its parts. *)
LEMMA PartsJoined ==
  ASSUME NEW bytes \in Seq(Byte), NEW k \in 0 .. Len(bytes)
  PROVE  SubSeq(bytes, 1, k) \o SubSeq(bytes, k + 1, Len(bytes)) = bytes
  <1>1. Len(bytes) \in Nat
    BY LenProperties
  <1>2. /\ 1 \in 1 .. Len(bytes) + 1 /\ k \in 1 - 1 .. Len(bytes)
        /\ Len(bytes) \in k .. Len(bytes)
    BY <1>1
  <1>3. SubSeq(bytes, 1, k) \o SubSeq(bytes, k + 1, Len(bytes))
          = SubSeq(bytes, 1, Len(bytes))
    BY <1>2, ConcatAdjacentSubSeq
  <1>4. QED BY <1>3, SubSeqFull


-----------------------------------------------------------------------------
(* The bytes on their way. *)

(* The frames of the events given to the writer. *)
Given == [e \in 1 .. Len(lengths) |-> Frame(e)]

LEMMA BytesFacts ==
  ASSUME IInv
  PROVE  /\ extracted \in Seq(Seq(Byte)) /\ FlattenSeq(extracted) \in Seq(Byte)
         /\ buffer \in Seq(Byte) /\ stream \in Seq(Byte) /\ Unwritten \in Seq(Byte)
         /\ Given \in Seq(Seq(Byte)) /\ Len(Given) = Len(lengths)
  <1>1. TypeOK
    BY DEF IInv
  <1>2. extracted \in Seq(Seq(Byte)) /\ buffer \in Seq(Byte) /\ stream \in Seq(Byte)
    BY <1>1 DEF TypeOK
  <1>3. FlattenSeq(extracted) \in Seq(Byte)
    BY <1>2, FlattenFacts
  <1>4. Unwritten \in Seq(Byte)
    <2>1. CASE writer.state = "READY"
      BY <2>1, EmptySeq DEF Unwritten
    <2>2. CASE writer.state # "READY"
      <3> DEFINE e == Len(lengths)
      <3>1. writer.state = "IN_PROGRESS" /\ writer.processed \in Nat
        BY <1>1, <2>2, SizeFacts DEF TypeOK
      <3>2. /\ e \in 1 .. Len(lengths) /\ FrameSize(e) \in Nat
            /\ writer.processed < FrameSize(e)
        BY <1>1, <3>1, LengthFacts DEF IInv, WriterInv
      <3>3. Frame(e) \in Seq(Byte) /\ Len(Frame(e)) = FrameSize(e)
        BY <1>1, <3>2, FrameFacts
      <3>4. writer.processed \in 0 .. Len(Frame(e))
        BY <3>1, <3>2, <3>3
      <3>5. Unwritten = SubSeq(Frame(e), writer.processed + 1, Len(Frame(e)))
        BY <2>2, <3>3 DEF Unwritten
      <3> HIDE DEF e
      <3>6. QED BY <3>3, <3>4, <3>5, PartFacts
    <2>3. QED BY <2>1, <2>2
  <1>5. Len(lengths) \in Nat
    BY <1>1, LengthFacts
  <1>6. \A e \in 1 .. Len(lengths) : Frame(e) \in Seq(Byte)
    BY <1>1, FrameFacts
  <1>7. Given \in Seq(Seq(Byte)) /\ Len(Given) = Len(lengths)
    BY <1>5, <1>6 DEF Given
  <1>8. QED BY <1>2, <1>3, <1>4, <1>7

(* Between two steps of the writer. *)
LEMMA GivenKept ==
  ASSUME UNCHANGED writeVars
  PROVE  Given' = Given /\ Unwritten' = Unwritten
  BY DEF writeVars, Given, Unwritten, Frame, FrameSize

LEMMA PopulateConserves ==
  ASSUME IInv, BytesConserved, NEW length \in 1 .. CHAT_EVENT_MAX_DATA_SIZE + 1,
         Populate(length), cuts' = 0
  PROVE  BytesConserved'
  <1> DEFINE n     == Len(lengths)
             size  == CHAT_EVENT_HEADER_SIZE + length
             frame == [i \in 1 .. size |-> [event |-> n + 1, at |-> i]]
             flows == FlattenSeq(extracted) \o buffer \o stream
  <1>1. /\ writer.state = "READY" /\ cuts = 0 /\ lengths' = Append(lengths, length)
        /\ n < MaxEvents /\ length <= CHAT_EVENT_MAX_DATA_SIZE
        /\ writer' = [writer EXCEPT !.state = "IN_PROGRESS"]
        /\ UNCHANGED <<stream, extracted, buffer>>
    BY DEF Populate, readVars
  <1>2. TypeOK /\ n \in Nat /\ length \in 1 .. CHAT_EVENT_MAX_DATA_SIZE
    BY <1>1, LengthFacts, SizeFacts DEF IInv
  <1>3. /\ Len(lengths') = n + 1 /\ lengths'[n + 1] = length
        /\ \A e \in 1 .. n : lengths'[e] = lengths[e]
    <2>1. lengths \in Seq(1 .. CHAT_EVENT_MAX_DATA_SIZE)
      BY <1>2 DEF TypeOK
    <2>2. QED BY <1>1, <1>2, <2>1, AppendProperties
  <1>4. writer'.state = "IN_PROGRESS" /\ writer'.processed = 0
    BY <1>1, <1>2 DEF TypeOK, IInv, WriterInv
  <1>5. size \in Nat /\ frame \in Seq(Byte) /\ Len(frame) = size
    <2>1. size \in Nat /\ size <= EVENT_SIZE /\ n + 1 \in 1 .. MaxEvents
      BY <1>1, <1>2, SizeFacts
    <2> HIDE DEF size, n
    <2>2. \A i \in 1 .. size : [event |-> n + 1, at |-> i] \in Byte
      BY <2>1, SizeFacts DEF Byte
    <2>3. QED BY <2>1, <2>2
  <1> HIDE DEF n
  <1>6. \A e \in 1 .. n : Frame(e)' = Frame(e)
    BY <1>3 DEF Frame, FrameSize
  <1>7. \A e : e = n + 1 => Frame(e)' = frame /\ FrameSize(e)' = size
    BY <1>3 DEF Frame, FrameSize
  <1> HIDE DEF frame, size
  <1>8. Unwritten' = frame
    <2>1. Unwritten' = SubSeq(frame, 0 + 1, Len(frame))
      BY <1>3, <1>4, <1>5, <1>7 DEF Unwritten
    <2>2. QED BY <1>5, <2>1, SubSeqFull
  <1>9. Given' = Append(Given, frame)
    <2>1. Given \in Seq(Seq(Byte)) /\ Len(Given) = n
      BY BytesFacts DEF n
    <2>2. \A e \in 1 .. n : Given[e] = Frame(e)
      BY DEF Given, n
    <2>3. Given' = [e \in 1 .. n + 1 |-> IF e = n + 1 THEN frame ELSE Given[e]]
      <3>1. \A e \in 1 .. n + 1 : Frame(e)' = IF e = n + 1 THEN frame ELSE Given[e]
        BY <1>2, <1>6, <1>7, <2>2 DEF n
      <3>2. QED BY <1>3, <3>1 DEF Given
    <2> DEFINE longer == Append(Given, frame)
    <2>4. /\ longer \in Seq(Seq(Byte)) /\ Len(longer) = n + 1 /\ longer[n + 1] = frame
          /\ \A e \in 1 .. n : longer[e] = Given[e]
      BY <1>5, <2>1, AppendProperties
    <2> HIDE DEF longer
    <2>5. longer = [e \in 1 .. n + 1 |-> longer[e]]
      BY <2>4, LenProperties
    <2>6. \A e \in 1 .. n + 1 : longer[e] = IF e = n + 1 THEN frame ELSE Given[e]
      <3>1. n \in Nat
        BY <1>2 DEF n
      <3>2. QED BY <2>4, <3>1
    <2>7. QED BY <2>3, <2>5, <2>6 DEF longer
  <1>10. FlattenSeq(Given') = FlattenSeq(Given) \o frame
    BY <1>5, <1>9, BytesFacts, FlattenFacts
  <1>11. flows \in Seq(Byte) /\ flows \o Unwritten = FlattenSeq(Given)
    BY <1>1, BytesFacts, JoinFacts DEF BytesConserved, Given
  <1>12. Unwritten = <<>>
    BY <1>1 DEF Unwritten
  <1>13. flows = FlattenSeq(Given)
    BY <1>11, <1>12, ConcatEmptySeq
  <1>14. flows' = flows
    BY <1>1
  <1>15. QED BY <1>8, <1>10, <1>13, <1>14 DEF BytesConserved, Given

LEMMA WriteConserves ==
  ASSUME IInv, BytesConserved, NEW k \in 1 .. EVENT_SIZE, Write(k), cuts' = 0
  PROVE  BytesConserved'
  <1> DEFINE n     == Len(lengths)
             front == FlattenSeq(extracted) \o buffer
  <1>1. /\ writer.state = "IN_PROGRESS" /\ cuts = 0 /\ UNCHANGED <<lengths, extracted, buffer>>
        /\ k \in 1 .. FrameSize(n) - writer.processed
        /\ ~(k < FrameSize(n) - writer.processed)
        /\ stream' = stream \o SubSeq(Frame(n), 1, k)
    <2> DEFINE remaining == FrameSize(n) - writer.processed
    <2>1. cuts' = IF k < remaining THEN cuts + 1 ELSE cuts
      BY DEF Write
    <2>2. cuts \in Nat
      BY SizeFacts DEF IInv, TypeOK
    <2>3. cuts = 0 /\ ~(k < remaining)
      <3> HIDE DEF remaining
      <3>1. QED BY <2>1, <2>2
    <2>4. QED BY <2>3 DEF Write, readVars
  <1>2. writer.processed = 0 /\ TypeOK /\ n \in 1 .. Len(lengths)
    BY <1>1, LengthFacts DEF IInv, StreamInv, WriterInv
  <1>3. /\ Frame(n) \in Seq(Byte) /\ Len(Frame(n)) = FrameSize(n) /\ FrameSize(n) \in Nat
    BY <1>2, FrameFacts, LengthFacts
  <1>4. k = FrameSize(n)
    BY <1>1, <1>2, <1>3
  <1>5. SubSeq(Frame(n), 1, k) = Frame(n)
    BY <1>3, <1>4, SubSeqFull
  <1>6. Unwritten = Frame(n)
    <2>1. Unwritten = SubSeq(Frame(n), 0 + 1, Len(Frame(n)))
      BY <1>1, <1>2, <1>3 DEF Unwritten
    <2>2. QED BY <1>3, <2>1, SubSeqFull
  <1>7. Unwritten' = <<>>
    BY <1>1, <1>2, <1>4 DEF Unwritten, Write
  <1>8. front \in Seq(Byte) /\ stream \in Seq(Byte)
    BY BytesFacts, JoinFacts
  <1>9. front' = front /\ Given' = Given
    BY <1>1 DEF Given, Frame, FrameSize
  <1>10. front \o stream \o Frame(n) = FlattenSeq(Given)
    BY <1>1, <1>6 DEF BytesConserved, Given
  <1> HIDE DEF front
  <1>11. front \o (stream \o Frame(n)) \o <<>> = FlattenSeq(Given)
    <2>1. front \o (stream \o Frame(n)) = FlattenSeq(Given)
      BY <1>3, <1>8, <1>10, Associates
    <2>2. front \o (stream \o Frame(n)) \in Seq(Byte)
      BY <1>3, <1>8, JoinFacts
    <2>3. QED BY <2>1, <2>2, ConcatEmptySeq
  <1>12. front' \o stream' \o Unwritten' = FlattenSeq(Given')
    BY <1>1, <1>5, <1>7, <1>9, <1>11
  <1>13. QED BY <1>12 DEF BytesConserved, Given, front

LEMMA ReadConserves ==
  ASSUME IInv, BytesConserved, NEW k \in 1 .. EVENT_SIZE, Read(k), cuts' = 0
  PROVE  BytesConserved'
  <1> DEFINE part  == SubSeq(stream, 1, k)
             rest  == SubSeq(stream, k + 1, Len(stream))
             front == FlattenSeq(extracted)
  <1>1. /\ k \in 1 .. Len(stream) /\ stream' = rest /\ buffer' = buffer \o part
        /\ UNCHANGED <<writeVars, extracted>>
    BY DEF Read
  <1>2. cuts = 0 /\ Given' = Given /\ Unwritten' = Unwritten
    BY <1>1, GivenKept DEF writeVars
  <1>3. front \in Seq(Byte) /\ buffer \in Seq(Byte) /\ stream \in Seq(Byte)
    BY BytesFacts
  <1>4. k \in 0 .. Len(stream)
    BY <1>1
  <1>5. part \in Seq(Byte) /\ rest \in Seq(Byte)
    BY <1>3, <1>4, PartFacts
  <1>6. part \o rest = stream
    BY <1>3, <1>4, PartsJoined
  <1> HIDE DEF part, rest, front
  <1>7. front \o (buffer \o part) \o rest = front \o buffer \o stream
    <2> DEFINE most == front \o buffer
               more == buffer \o part
    <2>1. most \o part = front \o more
      BY <1>3, <1>5, Associates, ZenonT(60)
    <2>2. most \in Seq(Byte) /\ more \in Seq(Byte)
      BY <1>3, <1>5, JoinFacts
    <2> HIDE DEF most, more
    <2>3. (most \o part) \o rest = most \o (part \o rest)
      BY <1>5, <2>2, Associates, SMTT(60)
    <2>4. (most \o part) \o rest = most \o stream
      BY <1>6, <2>3
    <2>5. (front \o more) \o rest = most \o stream
      BY <2>1, <2>4
    <2>6. QED BY <2>5 DEF most, more
  <1>8. front \o buffer \o stream \o Unwritten = FlattenSeq(Given)
    BY <1>2 DEF BytesConserved, Given, front
  <1>9. front' \o buffer' \o stream' \o Unwritten' = FlattenSeq(Given')
    BY <1>1, <1>2, <1>7, <1>8 DEF front
  <1>10. QED BY <1>9 DEF BytesConserved, Given, front

LEMMA ExtractConserves ==
  ASSUME IInv, BytesConserved, Extract, cuts' = 0
  PROVE  BytesConserved'
  <1> DEFINE size  == SizeAtFront(buffer)
             frame == SubSeq(buffer, 1, size)
             rest  == SubSeq(buffer, size + 1, Len(buffer))
             front == FlattenSeq(extracted)
  <1>1. /\ extracting /\ buffer' = rest /\ extracted' = Append(extracted, frame)
        /\ UNCHANGED writeVars /\ UNCHANGED stream
    BY DEF Extract
  <1>2. cuts = 0 /\ Given' = Given /\ Unwritten' = Unwritten
    BY <1>1, GivenKept DEF writeVars
  <1>3. front \in Seq(Byte) /\ buffer \in Seq(Byte) /\ extracted \in Seq(Seq(Byte))
    BY BytesFacts
  <1>4. size \in 0 .. Len(buffer)
    <2>1. TypeOK /\ Known(buffer, Len(lengths)) /\ HoldsFrame(buffer)
      BY <1>1 DEF IInv, WriterInv, ReaderInv
    <2>2. size \in Nat
      BY <1>3, <2>1, FrontFacts DEF HoldsFrame
    <2> HIDE DEF size
    <2>3. size <= Len(buffer) /\ Len(buffer) \in Nat
      BY <1>3, <2>1, LenProperties DEF HoldsFrame, size
    <2>4. QED BY <2>2, <2>3
  <1> HIDE DEF size
  <1>5. frame \in Seq(Byte) /\ rest \in Seq(Byte) /\ frame \o rest = buffer
    BY <1>3, <1>4, PartFacts, PartsJoined
  <1>6. front' = front \o frame
    BY <1>1, <1>3, <1>5, FlattenFacts
  <1> HIDE DEF frame, rest, front
  <1>7. front \o frame \o rest = front \o buffer
    BY <1>3, <1>5, Associates
  <1>8. front \o buffer \o stream \o Unwritten = FlattenSeq(Given)
    BY <1>2 DEF BytesConserved, Given, front
  <1>9. front' \o buffer' \o stream' \o Unwritten' = FlattenSeq(Given')
    BY <1>1, <1>2, <1>6, <1>7, <1>8
  <1>10. QED BY <1>9 DEF BytesConserved, Given, front

(* Until a write is cut short no byte is lost, repeated or moved, however the stream
   is cut into reads (chat_event_io_fsm_reader.c and the memmove behind an extracted
   frame): what was extracted, what the reader holds, what is under way and what the
   writer still has are, end to end, the events it was given.  *)
THEOREM ConservesBytes == Spec => []BytesConserved
  <1>1. Init => BytesConserved
    <2> SUFFICES ASSUME Init PROVE BytesConserved
      OBVIOUS
    <2>1. /\ lengths = <<>> /\ extracted = <<>> /\ buffer = <<>> /\ stream = <<>>
          /\ Unwritten = <<>>
      BY DEF Init, Unwritten
    <2>2. FlattenSeq(<<>>) = <<>>
      BY DEF FlattenSeq
    <2>3. [e \in 1 .. Len(lengths) |-> Frame(e)] = <<>>
      BY <2>1
    <2>4. <<>> \o <<>> = <<>>
      BY EmptySeq, ConcatEmptySeq
    <2>5. QED BY <2>1, <2>2, <2>3, <2>4 DEF BytesConserved
  <1>2. IInv /\ BytesConserved /\ [Next]_vars => BytesConserved'
    <2> SUFFICES ASSUME IInv, BytesConserved, [Next]_vars, cuts' = 0
                 PROVE  BytesConserved'
      BY DEF BytesConserved
    <2>1. CASE \E length \in 1 .. CHAT_EVENT_MAX_DATA_SIZE + 1 : Populate(length)
      BY <2>1, PopulateConserves
    <2>2. CASE WriterStep
      BY <2>2, WriteConserves DEF WriterStep
    <2>3. CASE ReaderStep
      <3>1. CASE \E k \in 1 .. EVENT_SIZE : Read(k)
        BY <3>1, ReadConserves
      <3>2. CASE \E k \in 1 .. EVENT_SIZE : Flush(k)
        BY <3>2 DEF Flush, IInv, StreamInv, writeVars
      <3>3. CASE ReadOverrun
        <4>1. UNCHANGED writeVars /\ UNCHANGED <<stream, buffer, extracted>>
          BY <3>3 DEF ReadOverrun
        <4>2. QED BY <4>1, GivenKept DEF BytesConserved, Given, writeVars
      <3>4. CASE Extract
        BY <3>4, ExtractConserves
      <3>5. QED BY <2>3, <3>1, <3>2, <3>3, <3>4 DEF ReaderStep
    <2>4. CASE StopsReading \/ UNCHANGED vars
      <3>1. UNCHANGED writeVars /\ UNCHANGED <<stream, buffer, extracted>>
        BY <2>4 DEF vars, writeVars, StopsReading
      <3>2. QED BY <3>1, GivenKept DEF BytesConserved, Given, writeVars
    <2>5. QED BY <2>1, <2>2, <2>3, <2>4 DEF Next
  <1>3. QED BY <1>1, <1>2, InductiveInvariant, PTL DEF Spec
=============================================================================
