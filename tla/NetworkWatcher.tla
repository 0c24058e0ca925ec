--------------------------- MODULE NetworkWatcher ---------------------------
(***************************************************************************)
(* common/network_watcher: a thread that polls one file descriptor on      *)
(* behalf of an owner and reports by callback.  The owner talks to it      *)
(* through a message queue (WATCH, CLOSE) and, while it sits in poll,      *)
(* through a pipe whose read end is polled too: a byte in cancel_pipe      *)
(* cancels the watch.  cancel_mutex covers the pipe.                       *)
(*                                                                         *)
(* The owner is the FSM thread of a chat_connection or of the chat_server. *)
(* It keeps to their protocol: it starts a watch only when the one before  *)
(* has been answered, cancels a watch at most once, and closes once.       *)
(* ChatConnection checks that it does.                                     *)
(***************************************************************************)
EXTENDS Naturals, Sequences

CONSTANTS Modes,        \* NETWORK_WATCHER_MODE_READ, NETWORK_WATCHER_MODE_WRITE
          NETWORK_WATCHER_MESSAGE_QUEUE_SIZE,
          PIPE_SIZE,    \* the cancels that fit in the pipe
          HangUp        \* POLLHUP: reported though no watch asks for it

ASSUME SizesAssumption ==
  /\ NETWORK_WATCHER_MESSAGE_QUEUE_SIZE \in Nat \ {0}
  /\ PIPE_SIZE \in Nat \ {0}
ASSUME HangUpAssumption == HangUp \notin Modes

VARIABLES state,          \* the watcher's state field
          message_queue,  \* WATCH and CLOSE messages, oldest first
          cancel_pipe,    \* the cancels written and not yet read
          cancel_mutex,   \* "free" or "owner": the thread's use is one step
          owner_pc,       \* the owner's next step
          owner_modes,    \* the argument of its start_watch
          thread_pc,      \* the watcher thread's next step
          events,         \* fds[0].events: the modes of the watch it polls
          modes_ready,    \* what poll returned
          fd_ready,       \* what the descriptor is ready for
          cback,          \* history: the latest callback and its data
          unanswered,     \* history: a watch has been put and not answered
          cancel_asked,   \* history: cancelled since start_watch
          closing         \* history: network_watcher_close was called

ownerVars  == <<owner_pc, owner_modes>>
pipeVars   == <<cancel_pipe, cancel_mutex, cancel_asked>>
pollVars   == <<events, modes_ready>>
answerVars == <<cback, unanswered>>
vars == <<state, message_queue, pipeVars, ownerVars, thread_pc, pollVars,
          fd_ready, answerVars, closing>>

(* The callbacks, as the owner knows them. *)
WatchComplete(modes) == [type |-> "WATCH_COMPLETE", modes_ready |-> modes]
WatchCancelled       == [type |-> "WATCH_CANCELLED"]
WatchError           == [type |-> "WATCH_ERROR"]
WatcherClosed        == [type |-> "WATCHER_CLOSED"]
NoCallback           == [type |-> "NONE"]

Watch(modes) == [type |-> "WATCH", mode |-> modes]
CloseMessage == [type |-> "CLOSE"]

(* message_queue_put, whose success the callers assert. *)
Put(m) == /\ Len(message_queue) < NETWORK_WATCHER_MESSAGE_QUEUE_SIZE
          /\ message_queue' = Append(message_queue, m)

-----------------------------------------------------------------------------
(* network_watcher_create *)
Init ==
  /\ state = "INIT"
  /\ message_queue = <<>>
  /\ cancel_pipe = 0
  /\ cancel_mutex = "free"
  /\ owner_pc = "idle"
  /\ owner_modes = {}
  /\ thread_pc = "none"
  /\ events = {}
  /\ modes_ready = {}
  /\ fd_ready \in SUBSET (Modes \union {HangUp})
  /\ cback = NoCallback
  /\ unanswered = FALSE
  /\ cancel_asked = FALSE
  /\ closing = FALSE

(* network_watcher_open: state, then the thread. *)
Open ==
  /\ state = "INIT"
  /\ state' = "OPEN"
  /\ thread_pc' = "get"
  /\ UNCHANGED <<message_queue, pipeVars, ownerVars, pollVars, fd_ready,
                 answerVars, closing>>

(* The thread cannot be created: the owner gives the watcher up, in state
   OPEN, which network_watcher_destroy refuses for ever.  *)
OpenFails ==
  /\ state = "INIT"
  /\ state' = "OPEN"
  /\ owner_pc' = "gone"
  /\ UNCHANGED <<message_queue, pipeVars, owner_modes, thread_pc, pollVars,
                 fd_ready, answerVars, closing>>

-----------------------------------------------------------------------------
(* network_watcher_start_watch: empty the pipe, then put WATCH. *)

(* Mutant: a cancel left over from the last watch is not flushed. *)
StartKeepsPipe(modes) ==
  /\ owner_pc = "idle" /\ state # "INIT" /\ ~closing /\ ~unanswered
  /\ modes # {}
  /\ cancel_mutex = "free"
  /\ cancel_asked' = FALSE
  /\ owner_modes' = modes
  /\ owner_pc' = "start_put"
  /\ UNCHANGED <<state, message_queue, cancel_pipe, cancel_mutex, thread_pc,
                 pollVars, fd_ready, answerVars, closing>>

StartFlush(modes) ==
  /\ owner_pc = "idle" /\ state # "INIT" /\ ~closing /\ ~unanswered
  /\ modes # {}
  /\ cancel_mutex = "free"
  /\ cancel_pipe' = 0
  /\ cancel_asked' = FALSE
  /\ owner_modes' = modes
  /\ owner_pc' = "start_put"
  /\ UNCHANGED <<state, message_queue, cancel_mutex, thread_pc, pollVars,
                 fd_ready, answerVars, closing>>

StartPut ==
  /\ owner_pc = "start_put"
  /\ Put(Watch(owner_modes))
  /\ unanswered' = TRUE
  /\ owner_pc' = "idle"
  /\ UNCHANGED <<state, pipeVars, owner_modes, thread_pc, pollVars, fd_ready,
                 cback, closing>>

-----------------------------------------------------------------------------
(* network_watcher_cancel_watch, and network_watcher_close, which cancels  *)
(* before it puts CLOSE.                                                   *)

CancelLock(to) ==
  /\ owner_pc = "idle" /\ state # "INIT" /\ ~closing
  /\ cancel_mutex = "free"
  /\ cancel_mutex' = "owner"
  /\ owner_pc' = to
  /\ UNCHANGED <<state, message_queue, cancel_pipe, cancel_asked, owner_modes,
                 thread_pc, pollVars, fd_ready, answerVars>>

Cancel == ~cancel_asked /\ CancelLock("cancel_write") /\ UNCHANGED closing

(* Mutant: close does not cancel. *)
CloseWithoutCancel ==
  /\ owner_pc = "idle" /\ state # "INIT" /\ ~closing
  /\ owner_pc' = "close_put"
  /\ closing' = TRUE
  /\ UNCHANGED <<state, message_queue, pipeVars, owner_modes, thread_pc,
                 pollVars, fd_ready, answerVars>>

Close == CancelLock("close_write") /\ closing' = TRUE

(* The write is retried, with the mutex held, while the pipe is full. *)
CancelWrite(from, to) ==
  /\ owner_pc = from
  /\ cancel_pipe < PIPE_SIZE
  /\ cancel_pipe' = cancel_pipe + 1
  /\ cancel_mutex' = "free"
  /\ cancel_asked' = TRUE
  /\ owner_pc' = to
  /\ UNCHANGED <<state, message_queue, owner_modes, thread_pc, pollVars,
                 fd_ready, answerVars, closing>>

CancelPipe == \/ CancelWrite("cancel_write", "idle")
              \/ CancelWrite("close_write", "close_put")

ClosePut ==
  /\ owner_pc = "close_put"
  /\ Put(CloseMessage)
  /\ owner_pc' = "closed"
  /\ UNCHANGED <<state, pipeVars, owner_modes, thread_pc, pollVars, fd_ready,
                 answerVars, closing>>

-----------------------------------------------------------------------------
(* network_watcher_destroy, once the owner has seen CLOSED, or instead of
   opening: what is freed here no thread may touch any more.  *)
Destroy ==
  /\ state \in {"INIT", "CLOSED"}
  /\ state = "INIT" \/ cback = WatcherClosed
  /\ owner_pc \in {"idle", "closed"}
  /\ owner_pc' = "gone"
  /\ state' = "DESTROYED"
  /\ UNCHANGED <<message_queue, pipeVars, owner_modes, thread_pc, pollVars,
                 fd_ready, answerVars, closing>>

-----------------------------------------------------------------------------
(* The watcher's thread: network_watcher_thread_entry, open_processing. *)

Thread(from, to) == thread_pc = from /\ thread_pc' = to

(* Mutant: the pipe is emptied when the thread takes the watch up, not when
   the owner starts it.  *)
GetWatchFlushes ==
  /\ Thread("get", "poll")
  /\ message_queue # <<>> /\ Head(message_queue).type = "WATCH"
  /\ cancel_mutex = "free"
  /\ message_queue' = Tail(message_queue)
  /\ events' = Head(message_queue).mode
  /\ cancel_pipe' = 0
  /\ UNCHANGED <<state, cancel_mutex, cancel_asked, ownerVars, modes_ready,
                 fd_ready, answerVars, closing>>

(* message_queue_get returns WATCH; setup_watch. *)
GetWatch ==
  /\ Thread("get", "poll")
  /\ message_queue # <<>> /\ Head(message_queue).type = "WATCH"
  /\ message_queue' = Tail(message_queue)
  /\ events' = Head(message_queue).mode
  /\ UNCHANGED <<state, pipeVars, ownerVars, modes_ready, fd_ready, answerVars,
                 closing>>

(* message_queue_get returns CLOSE: the loop ends. *)
GetClose ==
  /\ Thread("get", "closed")
  /\ message_queue # <<>> /\ Head(message_queue).type = "CLOSE"
  /\ message_queue' = Tail(message_queue)
  /\ state' = "CLOSED"
  /\ UNCHANGED <<pipeVars, ownerVars, pollVars, fd_ready, answerVars, closing>>

(* do_watch: poll returns because of the pipe, which has priority ... *)
PollCancelled ==
  /\ Thread("poll", "flush")
  /\ cancel_pipe > 0
  /\ UNCHANGED <<state, message_queue, pipeVars, ownerVars, pollVars, fd_ready,
                 answerVars, closing>>

(* Mutant: revents is passed on as it is. *)
PollReadyRaw ==
  /\ Thread("poll", "complete")
  /\ cancel_pipe = 0
  /\ (events \union {HangUp}) \intersect fd_ready # {}
  /\ modes_ready' = (events \union {HangUp}) \intersect fd_ready
  /\ UNCHANGED <<state, message_queue, pipeVars, ownerVars, events, fd_ready,
                 answerVars, closing>>

(* ... because the descriptor is ready for what it was asked about, or has
   hung up ... *)
PollReady ==
  /\ Thread("poll", "complete")
  /\ cancel_pipe = 0
  /\ (events \union {HangUp}) \intersect fd_ready # {}
  /\ modes_ready' = events \intersect fd_ready
  /\ UNCHANGED <<state, message_queue, pipeVars, ownerVars, events, fd_ready,
                 answerVars, closing>>

(* ... or because a signal interrupted it. *)
PollFails ==
  /\ Thread("poll", "error")
  /\ UNCHANGED <<state, message_queue, pipeVars, ownerVars, pollVars, fd_ready,
                 answerVars, closing>>

(* The cancelled watch empties the pipe. *)
FlushCancel ==
  /\ Thread("flush", "cancelled")
  /\ cancel_mutex = "free"
  /\ cancel_pipe' = 0
  /\ UNCHANGED <<state, message_queue, cancel_mutex, cancel_asked, ownerVars,
                 pollVars, fd_ready, answerVars, closing>>

(* The callback that answers the watch. *)
Callback ==
  /\ \/ Thread("complete", "get") /\ cback' = WatchComplete(modes_ready)
     \/ Thread("cancelled", "get") /\ cback' = WatchCancelled
     \/ Thread("error", "get") /\ cback' = WatchError
  /\ unanswered' = FALSE
  /\ UNCHANGED <<state, message_queue, pipeVars, ownerVars, pollVars, fd_ready,
                 closing>>

(* The CLOSED callback, the last act of the thread. *)
ClosedCallback ==
  /\ Thread("closed", "done")
  /\ cback' = WatcherClosed
  /\ UNCHANGED <<state, message_queue, pipeVars, ownerVars, pollVars, fd_ready,
                 unanswered, closing>>

-----------------------------------------------------------------------------
(* The peer and the kernel change what the descriptor is ready for. *)
Environment ==
  /\ fd_ready' \in SUBSET (Modes \union {HangUp})
  /\ UNCHANGED <<state, message_queue, pipeVars, ownerVars, thread_pc, pollVars,
                 answerVars, closing>>

OwnerCall == \/ Open \/ OpenFails \/ Cancel \/ Close \/ Destroy
             \/ \E modes \in SUBSET Modes : StartFlush(modes)

OwnerStep == StartPut \/ CancelPipe \/ ClosePut

ThreadStep == \/ GetWatch \/ GetClose
              \/ PollCancelled \/ PollReady \/ PollFails
              \/ FlushCancel \/ Callback \/ ClosedCallback

Next == OwnerCall \/ OwnerStep \/ ThreadStep \/ Environment

Spec == Init /\ [][Next]_vars

(* Both threads run; poll returns once the pipe has a byte.  The owner need
   not call, the descriptor need not become ready, poll need not fail. *)
FairSpec == /\ Spec
            /\ WF_vars(OwnerStep)
            /\ WF_vars(GetWatch \/ GetClose \/ PollCancelled \/ FlushCancel
                         \/ Callback \/ ClosedCallback)

-----------------------------------------------------------------------------
OwnerSteps  == {"idle", "start_put", "cancel_write", "close_write",
                "close_put", "closed", "gone"}
ThreadSteps == {"none", "get", "poll", "complete", "flush", "cancelled",
                "error", "closed", "done"}
Message     == [type : {"WATCH"}, mode : SUBSET Modes] \union {CloseMessage}
Callbacks   == {WatchComplete(modes) : modes \in SUBSET Modes}
                 \union {WatchCancelled, WatchError, WatcherClosed, NoCallback}

TypeOK ==
  /\ state \in {"INIT", "OPEN", "CLOSED", "DESTROYED"}
  /\ message_queue \in Seq(Message)
  /\ cancel_pipe \in 0 .. PIPE_SIZE
  /\ cancel_mutex \in {"free", "owner"}
  /\ owner_pc \in OwnerSteps
  /\ owner_modes \in SUBSET Modes
  /\ thread_pc \in ThreadSteps
  /\ events \in SUBSET Modes
  /\ modes_ready \in SUBSET Modes
  /\ fd_ready \in SUBSET (Modes \union {HangUp})
  /\ cback \in Callbacks
  /\ unanswered \in BOOLEAN
  /\ cancel_asked \in BOOLEAN
  /\ closing \in BOOLEAN

(* The owner is the one thread that serves its connection: start_watch and
   close assert that their message fits in the queue (lines 143-146, 197-200),
   cancel_watch spins with cancel_mutex held while the pipe is full (168-171).
   Neither happens: flushes, answers and cancels keep pace with each other. *)
OwnerNeverStalls ==
  /\ owner_pc \in {"start_put", "close_put"} =>
       Len(message_queue) < NETWORK_WATCHER_MESSAGE_QUEUE_SIZE
  /\ owner_pc \in {"cancel_write", "close_write"} => cancel_pipe < PIPE_SIZE

(***************************************************************************)
(* The service the owner sees.  A watch is asked for when WATCH is put and *)
(* answered by the callback; a cancel, or a close, takes effect with the   *)
(* write to the pipe.                                                      *)
(***************************************************************************)
Asked == IF unanswered THEN owner_modes ELSE {}
Stop  == unanswered /\ cancel_asked

ServiceState ==
  IF state = "INIT" \/ thread_pc = "none" THEN "INIT"
  ELSE IF thread_pc = "done" THEN "CLOSED"
  ELSE IF owner_pc \in {"close_put", "closed"} THEN "CLOSING"
  ELSE "OPEN"

Service == INSTANCE WatcherService
             WITH asked <- Asked, stop <- Stop, service <- ServiceState

(* Queue, pipe and poll together give the service: each watch gets exactly one
   answer, about modes it asked for; WATCH_CANCELLED answers only the watch
   that was cancelled, never a later one by a byte left in the pipe; CLOSED is
   the last callback and leaves no watch unanswered.  *)
ImplementsService == Service!Spec

(* A cancelled watch is answered, however early or late the cancel comes and
   whatever the descriptor does (do_watch, lines 34-51). *)
CancelAnswered == (unanswered /\ cancel_asked) ~> ~unanswered

(* network_watcher_close ends the thread, even one that is blocked in poll on
   a silent descriptor, and the owner gets its CLOSED callback. *)
CloseCompletes == closing ~> (cback = WatcherClosed)
=============================================================================
