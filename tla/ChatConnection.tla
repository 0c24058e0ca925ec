--------------------------- MODULE ChatConnection ---------------------------
(***************************************************************************)
(* common/chat_connection: one end of a chat connection.  Its thread runs  *)
(* a state machine over message_queue, which the user of the connection    *)
(* (queue_event, close) and the network watcher's thread (the answers to   *)
(* watches) fill.  Outgoing events go from message_queue to event_queue,   *)
(* to the writer of chat_event_io, to the socket.                          *)
(*                                                                         *)
(* The watcher is the service of WatcherService, which NetworkWatcher      *)
(* implements: the watcher's own steps are the service's, and the calls    *)
(* made here are checked against it (UsesWatcherProperly).  The socket is  *)
(* blocking: a write takes all of an event unless a signal cuts it short.  *)
(* Events are numbered in the order in which queue_event accepted them.    *)
(***************************************************************************)
EXTENDS Naturals, Sequences, FiniteSets

CONSTANTS READ, WRITE,  \* NETWORK_WATCHER_MODE_READ, NETWORK_WATCHER_MODE_WRITE
          CHAT_CONNECTION_MESSAGE_QUEUE_SIZE,
          CHAT_CONNECTION_EVENT_QUEUE_SIZE,
          MaxEvents,    \* bound: the events queue_event accepts
          MaxCloses     \* bound: the calls of chat_connection_close

ASSUME ModesAssumption == READ # WRITE
ASSUME QueueAssumption == /\ CHAT_CONNECTION_MESSAGE_QUEUE_SIZE \in Nat \ {0}
                          /\ CHAT_CONNECTION_EVENT_QUEUE_SIZE \in Nat \ {0}
ASSUME BoundAssumption == MaxEvents \in Nat /\ MaxCloses \in Nat

Modes == {READ, WRITE}

VARIABLES state,          \* CHAT_CONNECTION_STATE_...
          thread,         \* "none", "created", "running", "done"
          message_queue,  \* messages to the state machine, oldest first
          event_queue,    \* outgoing events
          writer,         \* <<>>, or <<e>>: io's writer is IN_PROGRESS with e
          halfway,        \* part of the writer's event has been written
          readable,       \* what a read would find: "nothing", "data", "eof",
                          \* or "reset" (ECONNRESET; a write fails too)
          asked, stop, service, cback,  \* the watcher, see WatcherService
          accepted,       \* history: the number of events accepted
          finished,       \* history: the events whose write was reported finished
          closes,         \* history: the calls of chat_connection_close
          poll_failed,    \* history: poll was interrupted
          assertion       \* the assertion that ended the program, or "none"

outVars     == <<event_queue, writer, halfway, finished>>
callVars    == <<asked, stop, service>>
historyVars == <<accepted, closes, poll_failed, assertion>>
vars == <<state, thread, message_queue, outVars, readable, callVars, cback,
          historyVars>>

W == INSTANCE WatcherService

QueueEventMessage(e) == [type |-> "QUEUE_EVENT", event |-> e]
CloseMessage         == [type |-> "CLOSE"]

Message == W!Answers \union {W!WatcherClosed, CloseMessage}
             \union {QueueEventMessage(e) : e \in 1 .. MaxEvents}

-----------------------------------------------------------------------------
(* chat_connection_create *)
Init ==
  /\ state = "INIT"
  /\ thread = "none"
  /\ message_queue = <<>>
  /\ event_queue = <<>> /\ writer = <<>> /\ halfway = FALSE
  /\ readable = "nothing"
  /\ W!Init
  /\ accepted = 0 /\ finished = <<>> /\ closes = 0
  /\ poll_failed = FALSE
  /\ assertion = "none"

-----------------------------------------------------------------------------
(* The user's calls.  One that is refused (NO_SPACE) changes nothing. *)

(* Mutant: the queue is never full. *)
PutUnbounded(m) == message_queue' = Append(message_queue, m)

Put(m) == /\ Len(message_queue) < CHAT_CONNECTION_MESSAGE_QUEUE_SIZE
          /\ message_queue' = Append(message_queue, m)

Usable == thread \in {"created", "running"} /\ assertion = "none"

Open ==
  /\ state = "INIT"
  /\ state' = "READING"
  /\ W!Open
  /\ thread' = "created"
  /\ UNCHANGED <<message_queue, outVars, readable, historyVars>>

(* One of the two threads cannot be created, the watcher's or its own. *)
OpenFails ==
  /\ state = "INIT"
  /\ \/ state' = "CLOSED" /\ UNCHANGED callVars
     \/ state' = "READING" /\ W!Open
  /\ UNCHANGED <<thread, message_queue, outVars, readable, cback, historyVars>>

QueueEvent ==
  /\ Usable
  /\ accepted < MaxEvents
  /\ Put(QueueEventMessage(accepted + 1))
  /\ accepted' = accepted + 1
  /\ UNCHANGED <<state, thread, outVars, readable, callVars, cback, closes,
                 poll_failed, assertion>>

Close ==
  /\ Usable
  /\ closes < MaxCloses
  /\ Put(CloseMessage)
  /\ closes' = closes + 1
  /\ UNCHANGED <<state, thread, outVars, readable, callVars, cback, accepted,
                 poll_failed, assertion>>

Destroy ==
  /\ state = "INIT" \/ (state = "CLOSED" /\ thread = "done")
  /\ state' = "DESTROYED"
  /\ UNCHANGED <<thread, message_queue, outVars, readable, callVars, cback,
                 historyVars>>

-----------------------------------------------------------------------------
(* The calls to the watcher, without the guards of the service. *)

StartWatch(modes) == asked' = modes /\ UNCHANGED <<stop, service>>
CancelWatch       == stop' = (asked # {}) /\ UNCHANGED <<asked, service>>
CloseWatcher      == /\ service' = "CLOSING"
                     /\ stop' = (asked # {})
                     /\ UNCHANGED asked

(* network_watcher_close, and the move to CLOSING that goes with it. *)
GoClosing == CloseWatcher /\ state' = "CLOSING"

-----------------------------------------------------------------------------
(* The connection's thread. *)

(* fsm_cblk_init *)
ThreadStart ==
  /\ thread = "created" /\ assertion = "none"
  /\ thread' = "running"
  /\ StartWatch({READ})
  /\ UNCHANGED <<state, message_queue, outVars, readable, cback, historyVars>>

Running == thread = "running" /\ state # "CLOSED" /\ assertion = "none"

Received(type) == message_queue # <<>> /\ Head(message_queue).type = type

(* The assertions of the handlers, and the message that makes each fail. *)
HandlerAssertions == {"event_queue", "read", "write", "unreachable"}

Fails(what) ==
  CASE what = "event_queue" ->     \* message_queue_put to event_queue
         /\ Received("QUEUE_EVENT")
         /\ state \in {"READING", "READING_WRITING", "CANCELLING"}
         /\ Len(event_queue) >= CHAT_CONNECTION_EVENT_QUEUE_SIZE
    [] what = "read" ->            \* read_ready
         /\ Received("WATCH_COMPLETE")
         /\ READ \in Head(message_queue).modes_ready
         /\ state \in {"READING", "READING_WRITING", "CANCELLING"}
         /\ readable = "reset"
    [] what = "write" ->           \* write_ready
         /\ Received("WATCH_COMPLETE")
         /\ WRITE \in Head(message_queue).modes_ready
         /\ state \in {"READING_WRITING", "CANCELLING", "FLUSHING"}
         /\ writer # <<>> /\ readable = "reset"
    [] what = "unreachable" ->     \* WATCHER_CLOSED before CLOSING
         Received("WATCHER_CLOSED") /\ state # "CLOSING"

AssertionFails ==
  /\ Running
  /\ assertion' \in {what \in HandlerAssertions : Fails(what)}
  /\ UNCHANGED <<state, thread, message_queue, outVars, readable, callVars,
                 cback, accepted, closes, poll_failed>>

Handle(states, type) ==
  /\ Running
  /\ state \in states
  /\ Received(type)
  /\ \A what \in HandlerAssertions : ~Fails(what)
  /\ message_queue' = Tail(message_queue)
  /\ UNCHANGED <<thread, cback, historyVars>>

-----------------------------------------------------------------------------
(* read_ready and write_ready. *)

(* The READ half of WATCH_COMPLETE: at the end of the stream the connection
   closes, otherwise it goes on as `next` says.  *)
ReadReady(modes_ready, next) ==
  \/ READ \notin modes_ready /\ next /\ UNCHANGED readable
  \/ /\ READ \in modes_ready /\ readable = "data"
     /\ readable' = "nothing"
     /\ next
  \/ /\ READ \in modes_ready /\ readable = "eof"
     /\ GoClosing
     /\ UNCHANGED readable

(* Mutant: the event is peeked at, not taken. *)
PopulateByPeek ==
  /\ writer = <<>>
  /\ writer' = IF event_queue = <<>> THEN <<>> ELSE <<Head(event_queue)>>
  /\ UNCHANGED <<event_queue, halfway, finished>>

(* An empty writer takes the next event and writes nothing yet. *)
PopulateWriter ==
  /\ writer = <<>>
  /\ IF event_queue = <<>>
     THEN UNCHANGED <<writer, event_queue>>
     ELSE writer' = <<Head(event_queue)>> /\ event_queue' = Tail(event_queue)
  /\ UNCHANGED <<halfway, finished>>

(* A populated writer writes its event and then those of the queue, up to the
   k-th; a write cut short leaves the next one in the writer (bound: once for
   each event).  Finished is what the writer reports: of an event whose write was
   cut short the socket got the beginning twice (ChatEventIO!Write).  *)
WriteEvents ==
  LET pool == writer \o event_queue IN
  /\ writer # <<>>
  /\ \E k \in 0 .. Len(pool) :
       /\ k = 0 => ~halfway
       /\ finished' = finished \o SubSeq(pool, 1, k)
       /\ writer' = IF k < Len(pool) THEN <<pool[k + 1]>> ELSE <<>>
       /\ event_queue' = SubSeq(pool, k + 2, Len(pool))
       /\ halfway' = (k < Len(pool))

WriteReady(modes_ready) ==
  IF WRITE \in modes_ready THEN PopulateWriter \/ WriteEvents
                           ELSE UNCHANGED outVars

AllWritten == writer = <<>> /\ event_queue = <<>>

EnqueueEvent ==
  /\ event_queue' = Append(event_queue, Head(message_queue).event)
  /\ UNCHANGED <<writer, halfway, finished>>

-----------------------------------------------------------------------------
(* reading_processing *)

(* Mutant: no new watch after a read. *)
ReadingCompleteStops ==
  /\ Handle({"READING"}, "WATCH_COMPLETE")
  /\ ReadReady(Head(message_queue).modes_ready, UNCHANGED <<state, callVars>>)
  /\ UNCHANGED outVars

ReadingComplete ==
  /\ Handle({"READING"}, "WATCH_COMPLETE")
  /\ ReadReady(Head(message_queue).modes_ready,
               StartWatch({READ}) /\ UNCHANGED state)
  /\ UNCHANGED outVars

(* Mutant: the new watch does not wait for the old one to be cancelled. *)
ReadingQueueEventStarts ==
  /\ Handle({"READING"}, "QUEUE_EVENT")
  /\ StartWatch({READ, WRITE})
  /\ state' = "READING_WRITING"
  /\ EnqueueEvent
  /\ UNCHANGED readable

ReadingQueueEvent ==
  /\ Handle({"READING"}, "QUEUE_EVENT")
  /\ CancelWatch
  /\ state' = "CANCELLING"
  /\ EnqueueEvent
  /\ UNCHANGED readable

(* Mutant: the watcher is not closed. *)
ReadingCloseAlone ==
  /\ Handle({"READING"}, "CLOSE")
  /\ state' = "CLOSING"
  /\ UNCHANGED <<outVars, readable, callVars>>

ReadingClose ==
  /\ Handle({"READING"}, "CLOSE")
  /\ GoClosing
  /\ UNCHANGED <<outVars, readable>>

(* reading_writing_processing *)

(* WRITE is watched on only if it was ready and more than the writer's own
   event is left.  *)
ReadingWritingComplete ==
  /\ Handle({"READING_WRITING"}, "WATCH_COMPLETE")
  /\ LET modes_ready == Head(message_queue).modes_ready IN
     /\ WriteReady(modes_ready)
     /\ ReadReady(modes_ready,
          CASE WRITE \notin modes_ready ->
                 StartWatch({READ}) /\ UNCHANGED state
            [] WRITE \in modes_ready /\ writer' # <<>> /\ event_queue' # <<>> ->
                 StartWatch({READ, WRITE}) /\ UNCHANGED state
            [] OTHER -> StartWatch({READ}) /\ state' = "READING")

(* Mutant: the watch is cancelled as it is in READING. *)
LaterQueueEventCancels ==
  /\ Handle({"READING_WRITING", "CANCELLING"}, "QUEUE_EVENT")
  /\ CancelWatch
  /\ state' = "CANCELLING"
  /\ EnqueueEvent
  /\ UNCHANGED readable

(* QUEUE_EVENT in READING_WRITING and CANCELLING. *)
LaterQueueEvent ==
  /\ Handle({"READING_WRITING", "CANCELLING"}, "QUEUE_EVENT")
  /\ EnqueueEvent
  /\ UNCHANGED <<state, readable, callVars>>

(* Mutant: the watcher is closed before the events are flushed. *)
BeginFlushingCloses ==
  /\ Handle({"READING_WRITING", "CANCELLING"}, "CLOSE")
  /\ CloseWatcher
  /\ state' = "FLUSHING"
  /\ UNCHANGED <<outVars, readable>>

(* CLOSE in READING_WRITING and CANCELLING. *)
BeginFlushing ==
  /\ Handle({"READING_WRITING", "CANCELLING"}, "CLOSE")
  /\ state' = "FLUSHING"
  /\ UNCHANGED <<outVars, readable, callVars>>

(* cancelling_processing *)

(* The watch had completed before it could be cancelled. *)
CancellingComplete ==
  /\ Handle({"CANCELLING"}, "WATCH_COMPLETE")
  /\ WriteReady(Head(message_queue).modes_ready)
  /\ ReadReady(Head(message_queue).modes_ready, UNCHANGED <<state, callVars>>)

CancellingCancelled ==
  /\ Handle({"CANCELLING"}, "WATCH_CANCELLED")
  /\ IF AllWritten
     THEN StartWatch({READ}) /\ UNCHANGED state   \* line 315 assigns nothing
     ELSE StartWatch({READ, WRITE}) /\ state' = "READING_WRITING"
  /\ UNCHANGED <<outVars, readable>>

(* flushing_processing *)

FlushingComplete ==
  /\ Handle({"FLUSHING"}, "WATCH_COMPLETE")
  /\ WriteReady(Head(message_queue).modes_ready)
  /\ IF AllWritten' THEN GoClosing
                    ELSE StartWatch({WRITE}) /\ UNCHANGED state
  /\ UNCHANGED readable

FlushingCancelled ==
  /\ Handle({"FLUSHING"}, "WATCH_CANCELLED")
  /\ IF AllWritten THEN GoClosing
                   ELSE StartWatch({WRITE}) /\ UNCHANGED state
  /\ UNCHANGED <<outVars, readable>>

(* closing_processing *)
ClosingClosed ==
  /\ Handle({"CLOSING"}, "WATCHER_CLOSED")
  /\ state' = "CLOSED"
  /\ UNCHANGED <<outVars, readable, callVars>>

(* The messages a state has no case for. *)
Ignore ==
  /\ \/ Handle({"READING", "READING_WRITING", "CLOSING"}, "WATCH_CANCELLED")
     \/ Handle({"CLOSING"}, "WATCH_COMPLETE")
     \/ Handle({"FLUSHING", "CLOSING"}, "QUEUE_EVENT")
     \/ Handle({"FLUSHING", "CLOSING"}, "CLOSE")
  /\ UNCHANGED <<state, outVars, readable, callVars>>

(* The loop has ended: the user gets CHAT_CONNECTION_EVENT_CLOSED. *)
ThreadEnd ==
  /\ thread = "running" /\ state = "CLOSED" /\ assertion = "none"
  /\ thread' = "done"
  /\ UNCHANGED <<state, message_queue, outVars, readable, callVars, cback,
                 historyVars>>

-----------------------------------------------------------------------------
(* The watcher's thread: chat_connection_watcher_cback. *)

(* A socket may be writable at any time; it is readable if there is
   something to read.  TCP never reports a bare hang-up.  *)
Ready(modes) == /\ modes # {}
                /\ READ \in asked => (READ \in modes <=> readable # "nothing")

(* The callback asserts that its message fits in the queue. *)
Callback ==
  /\ assertion = "none"
  /\ \/ \E modes \in SUBSET Modes : Ready(modes) /\ W!Complete(modes)
     \/ W!Cancelled
     \/ W!Closed
  /\ \/ Put(cback') /\ UNCHANGED assertion
     \/ /\ Len(message_queue) >= CHAT_CONNECTION_MESSAGE_QUEUE_SIZE
        /\ assertion' = "watcher_cback"
        /\ UNCHANGED message_queue
  /\ UNCHANGED <<state, thread, outVars, readable, accepted, closes,
                 poll_failed>>

(* The callback has no case for WATCH_ERROR. *)
PollFails ==
  /\ assertion = "none"
  /\ W!Failed
  /\ poll_failed' = TRUE
  /\ UNCHANGED <<state, thread, message_queue, outVars, readable, accepted,
                 closes, assertion>>

(* The other end of the connection sends, closes, or resets. *)
Peer ==
  /\ Usable
  /\ \/ readable = "nothing" /\ readable' \in {"data", "eof"}
     \/ readable # "reset" /\ readable' = "reset"
  /\ UNCHANGED <<state, thread, message_queue, outVars, callVars, cback,
                 historyVars>>

-----------------------------------------------------------------------------
UserCall == Open \/ OpenFails \/ QueueEvent \/ Close \/ Destroy

Handler == \/ ReadingComplete \/ ReadingQueueEvent \/ ReadingClose
           \/ ReadingWritingComplete \/ LaterQueueEvent \/ BeginFlushing
           \/ CancellingComplete \/ CancellingCancelled
           \/ FlushingComplete \/ FlushingCancelled
           \/ ClosingClosed \/ Ignore
           \/ AssertionFails

Next == \/ UserCall \/ ThreadStart \/ Handler \/ ThreadEnd
        \/ Callback \/ PollFails \/ Peer

Spec == Init /\ [][Next]_vars

(* The two threads run; the peer reads, so that a socket watched for WRITE
   becomes writable again.  Nothing is assumed of the user, nor that the peer
   sends or closes.  *)
FairSpec == /\ Spec
            /\ WF_vars(ThreadStart \/ Handler \/ ThreadEnd)
            /\ WF_vars(Callback)

-----------------------------------------------------------------------------
States     == {"INIT", "READING", "READING_WRITING", "CANCELLING", "FLUSHING",
               "CLOSING", "CLOSED", "DESTROYED"}
Assertions == HandlerAssertions \union {"watcher_cback", "none"}
Event      == 1 .. MaxEvents

TypeOK ==
  /\ state \in States
  /\ thread \in {"none", "created", "running", "done"}
  /\ message_queue \in Seq(Message)
  /\ Len(message_queue) <= CHAT_CONNECTION_MESSAGE_QUEUE_SIZE
  /\ event_queue \in Seq(Event)
  /\ Len(event_queue) <= CHAT_CONNECTION_EVENT_QUEUE_SIZE
  /\ writer \in {<<>>} \union {<<e>> : e \in Event}
  /\ halfway \in BOOLEAN
  /\ readable \in {"nothing", "data", "eof", "reset"}
  /\ asked \in SUBSET Modes
  /\ stop \in BOOLEAN
  /\ service \in {"INIT", "OPEN", "CLOSING", "CLOSED"}
  /\ cback \in W!Answers \union {W!WatcherClosed, W!NoCallback}
  /\ accepted \in 0 .. MaxEvents
  /\ finished \in Seq(Event)
  /\ closes \in 0 .. MaxCloses
  /\ poll_failed \in BOOLEAN
  /\ assertion \in Assertions

(* The connection keeps the protocol its watcher relies on: it starts a watch
   only when the one before has been answered, and calls nothing after close.
   network_watcher itself checks neither. *)
UsesWatcherProperly == W!Spec

Answered == {i \in DOMAIN message_queue : message_queue[i] \in W!Answers}

(* The thread has never more than one answer to come or to handle; while it
   reads or writes it has exactly one, unless a signal cut poll short: it is
   never left waiting on a watch nobody started. *)
AlwaysWatching ==
  LET watches == Cardinality(Answered) + (IF asked = {} THEN 0 ELSE 1) IN
  /\ watches <= 1
  /\ /\ thread = "running" /\ state \in {"READING", "READING_WRITING"}
     /\ ~poll_failed /\ assertion = "none"
     => watches = 1

Queued == {i \in DOMAIN message_queue : message_queue[i].type = "QUEUE_EVENT"}

Kept == finished \o writer \o event_queue

(* Events are taken to the writer in the order queue_event accepted them, none
   twice, and until the connection flushes or closes none is missing: the two
   queues and the writer hold together what has been accepted and is not finished,
   through cancelled watches and writes cut short.  This is about the queues, not
   about bytes: after a write cut short do_write sends the beginning of its buffer
   again, which ChatEventIO models (cuts). *)
EventsInOrder ==
  /\ Len(Kept) <= accepted
  /\ \A n \in 1 .. Len(Kept) : Kept[n] = n
  /\ state \in {"READING", "READING_WRITING", "CANCELLING"} =>
       /\ {message_queue[i].event : i \in Queued} = Len(Kept) + 1 .. accepted
       /\ \A i, j \in Queued :
            i < j => message_queue[i].event < message_queue[j].event

(* A watch is cancelled only in order to write: the else branch of line 313,
   which leaves the state CANCELLING with a new watch, is never taken. *)
CancelsToWrite == state = "CANCELLING" => ~AllWritten

(* WATCHER_CLOSED comes after CLOSING, never at one of the "should not get
   here" assertions (163, 255, 349, 429), and the connection is CLOSED, free to
   be destroyed, only after the watcher's thread is done with it. *)
ClosedInOrder ==
  /\ assertion # "unreachable"
  /\ (thread = "running" /\ state = "CLOSED") \/ thread = "done" =>
       service = "CLOSED" /\ asked = {}

(* A connection that closes tells its user so, whatever is still queued,
   unless a callback finds message_queue full. *)
ClosingEnds == state = "CLOSING" ~> (thread = "done" \/ assertion # "none")

(***************************************************************************)
(* What the comments and assertions say and the code does not keep.        *)
(***************************************************************************)

(* "If theres more to write -- either in the writer, or the queue -- continue
   writing" (chat_connection_fsm.c:198): the thread stops writing only when
   nothing is left to write. *)
StopsWhenWritten == state = "READING" => AllWritten

(* FLUSHING is "Flushing out the last of the messages to wirte before closing"
   (chat_connection_internal.h:31): it comes to an end, when neither a signal
   nor a failed assertion interferes. *)
FlushingEnds ==
  state = "FLUSHING" ~> (state # "FLUSHING" \/ poll_failed \/ assertion # "none")
=============================================================================
