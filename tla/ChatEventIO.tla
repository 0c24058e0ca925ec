---------------------------- MODULE ChatEventIO ----------------------------
(***************************************************************************)
(* common/chat_event_io: events as bytes on a socket.  The writer of one   *)
(* end and the reader of the other, with the stream of bytes between them, *)
(* and the loop of chat_connection's read_ready that empties the reader.   *)
(*                                                                         *)
(* A byte is known by the event it belongs to and its place there.  The    *)
(* last byte of the header stands for the length field.  A read returns    *)
(* any number of the bytes that have arrived; a write takes all it is      *)
(* given unless a signal cuts it short (`cuts`), and do_write then sends   *)
(* the beginning of its buffer again: then the reader loses the frames,    *)
(* may take data for a length, and may be sent into FLUSHING.              *)
(***************************************************************************)
EXTENDS Naturals, Sequences, SequencesExt

CONSTANTS CHAT_EVENT_HEADER_SIZE,
          CHAT_EVENT_MAX_DATA_SIZE,
          MaxEvents,  \* bound: the events given to the writer
          MaxCuts     \* bound: the writes cut short

ASSUME SizesAssumption == /\ CHAT_EVENT_HEADER_SIZE \in Nat \ {0}
                          /\ CHAT_EVENT_MAX_DATA_SIZE \in Nat \ {0}
                          /\ MaxEvents \in Nat /\ MaxCuts \in Nat

(* sizeof(sCHAT_EVENT): the reader's and the writer's buffer *)
EVENT_SIZE == CHAT_EVENT_HEADER_SIZE + CHAT_EVENT_MAX_DATA_SIZE

VARIABLES lengths,    \* history: the length of every event given to the writer
          writer,     \* the writer's state and processed_bytes
          stream,     \* the bytes written and not yet read
          reader,     \* the reader's state, processed_bytes and flush_bytes
          buffer,     \* the reader's bytes that are still to be extracted
          extracting, \* read_ready is in its extract loop
          extracted,  \* history: the frames extract_read_event returned
          delivered,  \* history: the frames passed on to the user
          reading,    \* the reader's connection watches for READ
          cuts,       \* history: the writes that were cut short
          overrun     \* history: a read went past the end of the buffer

writeVars  == <<lengths, writer, cuts>>
readVars   == <<reader, buffer, extracting, extracted, delivered, reading, overrun>>
vars == <<lengths, writer, stream, reader, buffer, extracting, extracted,
          delivered, reading, cuts, overrun>>

Byte == [event : 1 .. MaxEvents, at : 1 .. EVENT_SIZE]

FrameSize(e) == CHAT_EVENT_HEADER_SIZE + lengths[e]
Frame(e)     == [i \in 1 .. FrameSize(e) |-> [event |-> e, at |-> i]]

(* What the reader takes a byte for when it stands in the length field: the
   value of a byte that is no length does not matter, as long as some are too
   long for the buffer and some are not.  *)
AsLength(b) == IF b.at = CHAT_EVENT_HEADER_SIZE THEN lengths[b.event] ELSE b.at

(* The size of the frame at the front of bytes, which hold its header. *)
SizeAtFront(bytes) ==
  CHAT_EVENT_HEADER_SIZE + AsLength(bytes[CHAT_EVENT_HEADER_SIZE])

(* Mutant: a frame is complete only when more than it has arrived. *)
HoldsMore(bytes) == /\ Len(bytes) >= CHAT_EVENT_HEADER_SIZE
                    /\ Len(bytes) > SizeAtFront(bytes)

HoldsFrame(bytes) == /\ Len(bytes) >= CHAT_EVENT_HEADER_SIZE
                     /\ Len(bytes) >= SizeAtFront(bytes)

-----------------------------------------------------------------------------
(* chat_event_io_create, for both ends *)
Init ==
  /\ lengths = <<>>
  /\ writer = [state |-> "READY", processed |-> 0]
  /\ stream = <<>>
  /\ reader = [state |-> "READY", processed |-> 0, flush |-> 0]
  /\ buffer = <<>>
  /\ extracting = FALSE
  /\ extracted = <<>> /\ delivered = <<>>
  /\ reading = TRUE
  /\ cuts = 0 /\ overrun = FALSE

-----------------------------------------------------------------------------
(* The writer: chat_event_io_populate_writer, do_write. *)

(* Mutant: an event of any length is accepted. *)
PopulateUnchecked(length) ==
  /\ writer.state = "READY"
  /\ Len(lengths) < MaxEvents
  /\ lengths' = Append(lengths, length)
  /\ writer' = [writer EXCEPT !.state = "IN_PROGRESS"]
  /\ UNCHANGED <<stream, cuts, readVars>>

(* chat_connection populates only a writer that has nothing to write.  An
   event longer than CHAT_EVENT_MAX_DATA_SIZE is refused.  *)
Populate(length) ==
  /\ writer.state = "READY"
  /\ Len(lengths) < MaxEvents
  /\ length <= CHAT_EVENT_MAX_DATA_SIZE
  /\ lengths' = Append(lengths, length)
  /\ writer' = [writer EXCEPT !.state = "IN_PROGRESS"]
  /\ UNCHANGED <<stream, cuts, readVars>>

(* The first k bytes of the writer's buffer are written. *)
Write(k) ==
  LET e         == Len(lengths)
      remaining == FrameSize(e) - writer.processed
  IN /\ writer.state = "IN_PROGRESS"
     /\ k \in 1 .. remaining
     /\ k < remaining => cuts < MaxCuts
     /\ stream' = stream \o SubSeq(Frame(e), 1, k)
     /\ writer' = IF k = remaining
                  THEN [state |-> "READY", processed |-> 0]
                  ELSE [writer EXCEPT !.processed = @ + k]
     /\ cuts' = IF k < remaining THEN cuts + 1 ELSE cuts
     /\ UNCHANGED <<lengths, readVars>>

-----------------------------------------------------------------------------
(* The reader: do_read, do_flush, and read_ready, which calls them whenever
   the socket is readable and extracts when a frame is complete.  *)

Idle == reading /\ ~extracting /\ ~overrun

(* The reader's connection closes, flushes, is left in CANCELLING without a watch
   or waits in a write, and does not read any more.  *)
StopsReading ==
  /\ Idle
  /\ reading' = FALSE
  /\ UNCHANGED <<writeVars, stream, reader, buffer, extracting, extracted,
                 delivered, overrun>>

(* Mutant: a frame that just fits is taken for too long. *)
AfterReadStrict(bytes) ==
  /\ extracting' = HoldsFrame(bytes)
  /\ reader' =
       IF /\ Len(bytes) >= CHAT_EVENT_HEADER_SIZE
          /\ EVENT_SIZE <= SizeAtFront(bytes)
       THEN [state |-> "FLUSHING", processed |-> Len(bytes),
             flush |-> SizeAtFront(bytes)]
       ELSE [reader EXCEPT !.processed = Len(bytes)]

(* The next state of the reader, given what it now holds. *)
AfterRead(bytes) ==
  /\ extracting' = HoldsFrame(bytes)
  /\ reader' =
       IF /\ Len(bytes) >= CHAT_EVENT_HEADER_SIZE
          /\ EVENT_SIZE < SizeAtFront(bytes)
       THEN [state |-> "FLUSHING", processed |-> Len(bytes),
             flush |-> SizeAtFront(bytes)]
       ELSE [reader EXCEPT !.processed = Len(bytes)]

Read(k) ==
  /\ Idle
  /\ reader.state = "READY" /\ reader.processed <= EVENT_SIZE
  /\ k \in 1 .. Len(stream) /\ k <= EVENT_SIZE - reader.processed
  /\ stream' = SubSeq(stream, k + 1, Len(stream))
  /\ buffer' = buffer \o SubSeq(stream, 1, k)
  /\ AfterRead(buffer')
  /\ UNCHANGED <<writeVars, extracted, delivered, reading, overrun>>

(* empty_bytes wraps around: processed_bytes was left beyond the buffer. *)
ReadOverrun ==
  /\ Idle
  /\ reader.state = "READY" /\ reader.processed > EVENT_SIZE
  /\ stream # <<>>
  /\ overrun' = TRUE
  /\ UNCHANGED <<writeVars, stream, reader, buffer, extracting, extracted,
                 delivered, reading>>

(* The end of a flush leaves processed_bytes as it is. *)
Flush(k) ==
  /\ Idle
  /\ reader.state = "FLUSHING"
  /\ k \in 1 .. Len(stream) /\ k <= EVENT_SIZE
  /\ k <= reader.flush - reader.processed
  /\ stream' = SubSeq(stream, k + 1, Len(stream))
  /\ buffer' = <<>>
  /\ reader' = [reader EXCEPT
       !.processed = @ + k,
       !.state = IF reader.processed + k = reader.flush THEN "READY" ELSE @]
  /\ UNCHANGED <<writeVars, extracting, extracted, delivered, reading, overrun>>

(* Mutants: the bytes after the frame are dropped; processed_bytes keeps the
   frame's.  *)
ExtractDropsRest ==
  LET size == SizeAtFront(buffer)
  IN /\ extracting
     /\ buffer' = <<>>
     /\ reader' = [reader EXCEPT !.processed = 0]
     /\ extracted' = Append(extracted, SubSeq(buffer, 1, size))
     /\ extracting' = FALSE
     /\ delivered' = Append(delivered, SubSeq(buffer, 1, size))
     /\ UNCHANGED <<writeVars, stream, reading, overrun>>
ExtractKeepsCount ==
  LET size == SizeAtFront(buffer)
      rest == SubSeq(buffer, size + 1, Len(buffer))
  IN /\ extracting
     /\ buffer' = rest
     /\ extracted' = Append(extracted, SubSeq(buffer, 1, size))
     /\ extracting' = HoldsFrame(rest)
     /\ delivered' = IF HoldsFrame(rest) THEN delivered
                     ELSE Append(delivered, SubSeq(buffer, 1, size))
     /\ UNCHANGED <<writeVars, stream, reader, reading, overrun>>

(* chat_event_io_extract_read_event: only a frame returned with
   EXTRACT_FINISHED goes to the user, one with EXTRACT_MORE does not.  *)
Extract ==
  LET size == SizeAtFront(buffer)
      rest == SubSeq(buffer, size + 1, Len(buffer))
  IN /\ extracting
     /\ buffer' = rest
     /\ reader' = [reader EXCEPT !.processed = @ - size]
     /\ extracted' = Append(extracted, SubSeq(buffer, 1, size))
     /\ extracting' = HoldsFrame(rest)
     /\ delivered' = IF HoldsFrame(rest) THEN delivered
                     ELSE Append(delivered, SubSeq(buffer, 1, size))
     /\ UNCHANGED <<writeVars, stream, reading, overrun>>

-----------------------------------------------------------------------------
WriterStep == \E k \in 1 .. EVENT_SIZE : Write(k)
ReaderStep == \/ \E k \in 1 .. EVENT_SIZE : Read(k) \/ Flush(k)
              \/ ReadOverrun
              \/ Extract

(* Lengths count the NUL that ends the data: none is 0. *)
Next == \/ \E length \in 1 .. CHAT_EVENT_MAX_DATA_SIZE + 1 : Populate(length)
        \/ WriterStep \/ ReaderStep \/ StopsReading

Spec == Init /\ [][Next]_vars

(* A connection that reads goes on to.  Nothing obliges the user to send, and the
   writer's connection may leave what it holds unwritten, with no watch for WRITE
   (ChatConnection!StopsWhenWritten).  *)
FairSpec == Spec /\ WF_vars(ReaderStep)

-----------------------------------------------------------------------------
MaxFrame == CHAT_EVENT_HEADER_SIZE + EVENT_SIZE   \* by a byte taken for a length

TypeOK ==
  /\ lengths \in Seq(1 .. CHAT_EVENT_MAX_DATA_SIZE)
  /\ Len(lengths) <= MaxEvents
  /\ writer \in [state : {"READY", "IN_PROGRESS"}, processed : 0 .. EVENT_SIZE - 1]
  /\ stream \in Seq(Byte)
  /\ reader \in [state : {"READY", "FLUSHING"}, processed : 0 .. MaxFrame,
                 flush : 0 .. MaxFrame]
  /\ buffer \in Seq(Byte) /\ Len(buffer) <= EVENT_SIZE
  /\ extracting \in BOOLEAN
  /\ extracted \in Seq(Seq(Byte)) /\ delivered \in Seq(Seq(Byte))
  /\ reading \in BOOLEAN /\ cuts \in 0 .. MaxCuts /\ overrun \in BOOLEAN

(* The bytes of the event the writer holds that have still to be written. *)
Unwritten ==
  IF writer.state = "READY" THEN <<>>
  ELSE SubSeq(Frame(Len(lengths)), writer.processed + 1, FrameSize(Len(lengths)))

(* Until a write is cut short no byte is lost, repeated or moved, however the
   stream is cut into reads: what was extracted, what the reader holds, what is
   under way and what the writer still has are the events given to it. *)
BytesConserved ==
  cuts = 0 => FlattenSeq(extracted) \o buffer \o stream \o Unwritten
                = FlattenSeq([e \in 1 .. Len(lengths) |-> Frame(e)])

(* ... and the reader cuts the stream where the writer's events end: each frame
   it returns is one event, in their order, and it never flushes. *)
FramesAreEvents ==
  cuts = 0 => /\ \A i \in 1 .. Len(extracted) : extracted[i] = Frame(i)
              /\ reader.state = "READY"

(* The reader's count and its bytes agree, so that a read never goes past the
   end of the buffer -- until a write is cut short. *)
StaysInBuffer == cuts = 0 => reader.processed = Len(buffer) /\ ~overrun

(* The latest event gets through to the user once all of its bytes are written,
   unless a write is cut short or the other end stops reading: its frame does not
   wait for bytes of the next one, and of the frames that are read together
   read_ready delivers the last.  *)
LatestIsDelivered ==
  \A n \in 1 .. MaxEvents :
    Len(lengths) = n /\ writer.state = "READY" ~>
      \/ Len(lengths) > n \/ cuts > 0 \/ ~reading
      \/ Len(lengths) = n /\ delivered # <<>> /\ Last(delivered) = Frame(n)
=============================================================================
