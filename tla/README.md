# Verification of the chat program

TLA+ specifications of the chat server, the chat client and the libraries they share
(`src/common`, `src/server`, `src/client`; C, POSIX threads), the TLC configurations
that check them on small instances, and proofs, checked by TLAPS, of what matters most
for instances of any size.

The program has no documentation and no tests; the code, its comments and its assertions
are the only reference. Numbers in parentheses are lines of the source.

1. [The system](#1-the-system)
2. [The modules](#2-the-modules)
3. [What is checked](#3-what-is-checked)
4. [What is proved](#4-what-is-proved)
5. [What the code does not keep](#5-what-the-code-does-not-keep)
6. [What is not modelled](#6-what-is-not-modelled)
7. [Plan](#7-plan)

## 1. The system

Every active part of the program is built the same way: a control block, a thread that
runs a state machine over a `message_queue`, calls that put messages into that queue,
and a callback by which the part reports to its user. The user's callback usually does
nothing but put a message into the user's own queue. So parts interact by messages in
bounded queues, never wait for each other inside a handler, and rely on the order of
each other's callbacks.

```
  server program ── chat_server ─┬─ network_watcher   (the listening socket)
                                 ├─ chat_auth         (SQLite)
                                 └─ chat_clients ──── chat_connection × n
                                        │
  client program ─┬─ client_ui          shared_ptr (client records, credentials)
                  └─ chat_client ──── chat_connection

  chat_connection ─┬─ network_watcher   (its socket)
                   ├─ chat_event_io     (reader, writer)
                   └─ message_queue × 2
```

| Component | State it keeps | Operations | Talks to | Hard because | Correct when |
|---|---|---|---|---|---|
| `common/message_queue` | ring buffer, front index, used count, mutex, condition variable | create, put, get (blocks), peek, get_count, destroy | everyone | several threads inside a call, one signal per put, spurious wakeups | it is a bounded FIFO; no getter sleeps beside a message |
| `common/network_watcher` | state, queue, the cancel pipe and its mutex, the fds polled | create, open, start_watch, cancel_watch, close, destroy; thread | chat_connection, chat_server by callback; `poll` | a cancel races the answer of its watch; a bounded pipe written under a mutex its reader needs; `poll` without a timeout | each watch has one answer, its own; cancel and close always get through |
| `common/chat_connection` | state (INIT … CLOSED), message queue, event queue, a watcher, an io | create, open, queue_event, close, destroy; eight states × six messages | its user by callback; the watcher | messages of user and watcher cross; the state must follow which watch is out | one watch at a time and never none; events leave in order; closing ends |
| `common/chat_event_io` | the bytes of a partly read and of a partly written event | populate_writer, do_write, do_read, extract_read_event | chat_connection; the socket | short reads and writes, several frames in one read, a frame too long | the reader returns what the writer was given |
| `common/chat_event`, `chat_user`, `common_types` | none | populate, copy, print_string_to_buffer, allocation, threads | everyone | lengths at the end of a buffer | a string fits, or is cut and reported so |
| `common/shared_ptr` | a use count and the object | create, share, release | chat_auth, chat_clients, chat_server | shared by threads without a lock | freed once, after the last use |
| `server/chat_auth` | state, queue, database, transactions with a mutex each | create, open, submit_credentials, finish_transaction, close, destroy; thread | chat_server by callback | finish races the answer; who frees? references handed over | one answer or none; freed once, never used afterwards |
| `server/chat_clients` | table of clients, the login state of each | open_client, auth_event, close; thread; callbacks of all connections | chat_server, connections | a client may leave while its login is answered; counted references | only authenticated clients chat, under different names; every record freed once |
| `server/chat_server` | which of its three parts are open; queue | create, open, close, destroy; thread | all of the above | order of the shutdown | closes when all three are closed |
| `server/server.c` | state, queue | main loop, signal handler, input thread | chat_server | a signal handler that takes a mutex | ends on request |
| `client/chat_client` | state of the login, a connection | open, user_input, close, destroy; thread | client program; the server's events | events of the server and input of the user cross | follows the server's login; ends |
| `client/client_ui` | input line, windows; two threads | open, post_event, close; threads | client program; ncurses | the input line is shared without a lock | shows and submits what was typed |
| `client/client.c` | which of interface and connection are open | main loop | client_ui, chat_client | order of the shutdown, failed opens | ends when both are closed |

The hazards, each at the line where it bites and with the properties that would catch it
going wrong, are in `PROJECT.json` under `hazards`.

## 2. The modules

| Module | Models | Kind |
|---|---|---|
| `BoundedFifo` | what a message queue promises | abstract specification |
| `MessageQueue` | `message_queue.c`, statement group by statement group under the mutex | implements `BoundedFifo` |
| `MessageQueueProofs` | | proofs |
| `WatcherService` | what a watcher promises the one thread that owns it | abstract specification |
| `NetworkWatcher` | `network_watcher.c`, `network_watcher_fsm.c` | implements `WatcherService` |
| `NetworkWatcherProofs` | | proofs |
| `ChatConnection` | `chat_connection*.c`, with the watcher as the service it uses | uses `WatcherService` |
| `ChatConnectionProofs` | | proofs |
| `ChatEventIO` | `chat_event_io*.c` and the extract loop of `read_ready` | component |
| `ChatEventIOProofs` | | proofs |
| `AuthService` | what chat_auth promises about transactions | abstract specification |
| `ChatAuth` | `chat_auth*.c` | implements `AuthService` |
| `ChatAuthProofs` | | proofs |
| `ChatClients` | `chat_clients*.c`, `shared_ptr.c`, and the logins in `chat_server_fsm.c`, with chat_auth and the connections | composition |
| `ChatClientsProofs` | | proofs |
| `ChatServer` | `server.c`, `chat_server*.c`, with the three parts it opens | composition |
| `ChatServerProofs` | | proofs |
| `ChatClient` | `client.c`, `client_fsm.c`, `client_cback.c`, `chat_client*.c`, with interface, connection and server | composition |
| `ClientUI` | `client_ui_fsm.c`, `client_ui_input_fsm.c` and what they share | component |
| `ClientProofs` | | proofs about `ChatClient` and `ClientUI` |
| `MC…` | the constants of a run | model checking |

`PROJECT.json` `map` gives the lines of every definition.

**Variables are the fields of the control block**, under the same name where there is
one. A variable `…_pc` is where a thread is between two of its steps. Variables marked
*history* in their declaration are read by properties (and, for bounds, guards) only.
One action is one stretch of code between two points at which another thread can see or
change something: a handler that only puts into queues is one action; a call that takes
a mutex, or that another thread can overtake, is cut there.

**MessageQueue.** `queue_mutex`, `waiters` (the threads on the condition variable) and
`pc` make the pthread calls explicit: `Enter` is the lock, `GetWait` the atomic
release-and-sleep, `Signal` wakes at most one waiter, `SpuriousWakeup` wakes any,
`GetRelock` is the return from `pthread_cond_wait`, after which the loop (187–192) looks
again. The copy of a message and the change of the indices are separate steps, so that
the mutex has something to protect. A call that is refused returns `NO_SPACE` (put) or
`EMPTY` (peek).

**NetworkWatcher.** Three actors: the owner (one thread: the one that runs the
connection's or the server's state machine), the watcher's thread, and the descriptor.
`owner_pc` splits start_watch into flush and put, cancel_watch into lock and write,
close into cancel and put. `cancel_pipe` counts the bytes in the pipe. The owner keeps
the protocol that both users of a watcher keep and the watcher does not check: it starts
a watch only when the previous one was answered, and calls nothing after close. That
chat_connection does keep it is a property of `ChatConnection` (`UsesWatcherProperly`).
So the two modules meet at `WatcherService`: `NetworkWatcher` implements it, for an
owner that respects its guards; `ChatConnection` uses it, makes the calls *without* its
guards, and is shown to respect them.

**ChatConnection.** One action per message and state (`ReadingQueueEvent`,
`CancellingComplete`, …; two states with the same case share an action), the calls of
the user, the three callbacks of the watcher, and the peer. A failing assertion is a
state (`assertion`) in which nothing happens any more: the default build keeps
assertions in. The state machine is modelled with its faults: the conjunction at
199–200, the statement without effect at 315, the completion in CANCELLING that starts
no watch, the missing case for `WATCH_ERROR`. Events are numbers, in the order in which
queue_event accepted them.

**ChatEventIO.** Writer, byte stream and reader. A byte is the event it belongs to and
its position, so that the specification can say where a byte ended up; only the length
field has a value. The length field (two bytes in the program, `ntohs`) is read once the
header is complete, so one byte, the header's last, can stand for it. The two
connections around them are not here. The reader's may stop reading for good
(`StopsReading`), the writer's may leave a populated writer unwritten, as
`ChatConnection` shows of both; neither is asked to be fair.

**ChatAuth.** The authentication thread, the consumer (chat_server's thread, which
submits and finishes) and the database. The mutex of a transaction is a variable, the
callback is made with it held, as in the code. References are counted: each submit hands
over one to the credentials and one to the client. A submit that the full queue refuses
releases both and frees the transaction before it returns; outside nothing changes, so
it is no action.

**ChatClients.** Where the server's threads meet: chat_clients' own, chat_server's,
chat_auth's, and the callbacks of all connections. The records of clients are the
centre: `use_count` is the field of the `shared_ptr`, `list` the chain of `next` and
`prev`, `kept` the references that a client taken out of the middle keeps to its former
neighbours. Two of a record's references are the list's (the head or a `next`, the tail
or a `prev`), one is the connection's, one goes with every message and transaction that
names the client. A release that leaves zero destroys the record (`Destroy`), whose own
references then go too. chat_auth is used through the states of its transactions, as
`ChatAuth` has them, a connection through its calls and callbacks. The peers send what
the repository's client sends, when it has been asked for it, and leave once;
`Impatient` ones send any event at any time, so that they also submit twice and leave
twice. The properties hold for all but what they except by name (`overlapped`, `again`),
and one run is about what a second password brings about. A connection that is told to
close closes or is stuck for ever (`ConnectionStuck`, section 5). Whether events reach
the other clients is in `ChatConnection`; here they only count as references.

**ChatServer.** The program from main's first statement to its return. main, the input
thread and chat_server's thread call `message_queue_put` and `_get` on main's queue in
two steps, `Lock` and the rest, since the signal handler makes the same call in whatever
thread the signal finds: between the two it waits for its own thread (`"deadlock"`, the
FIXME at `server.c:56`). `part` is what has become of listener, chat_auth and
chat_clients, `dependants_states` what chat_server believes. `main_state` and
`dependants_states` are not initialised in the code (146, 195; `chat_server.c:23` clears
as many bytes as a pointer has), so any value is an initial one. `chat_server_destroy`
looks at the state alone, which is CHAT_SERVER_STATE_CLOSED from before the thread's
report on: main destroys a server whose thread has reported (`"reported"`), one whose
thread is about to, and one that was never opened (`Destroys`). chat_clients, told to
close, may never report (`ClientsStuck`), as `ChatClients` shows.

**ChatClient.** The other program, against the server it talks to. `state` is
chat_client's, `server` what the server's record of this client says; the events between
them are in two sequences, which a connection that ends empties. Of the events that arrive
in one read, `read_ready` passes on only the last (44), at both ends: `ReadTogether` and
`ServerReadsTogether` drop an event that has another behind it, and `lost` says that one
of the login was among them. A connection that is told to close may be stuck
(`ConnectionStuck`). `Expecting`,
`StateAfter` and `PrintEvent` are the table of event handlers
(`chat_client_internal.c`).

**ClientUI.** The keys, the queue, and the line that one thread writes and the other
looks at. Reading a position is atomic (an int); the hazard is that it is old: the key
before is still in the queue. `typed` is the history a user would tell. What both modules
of the client have (`state`, `message_queue`, `Init`, `Next`, `Spec`) is here called
`ui_state`, `ui_queue`, `UIInit`, `UINext`, `UISpec`, so that one module of proofs can
extend both.

## 3. What is checked

| Run | Distinct states | Properties |
|---|---|---|
| `message_queue` | 115 047 | `TypeOK`, `NoLostWakeup`, `ImplementsFifo`, `MessageWakesGetter` |
| `network_watcher` | 24 560 | `TypeOK`, `OwnerNeverStalls`, `ImplementsService`, `CancelAnswered`, `CloseCompletes` |
| `chat_connection` | 54 321 | `TypeOK`, `AlwaysWatching`, `EventsInOrder`, `CancelsToWrite`, `ClosedInOrder`, `UsesWatcherProperly`, `ClosingEnds` |
| `chat_event_io` | 301 911 | `TypeOK`, `BytesConserved`, `FramesAreEvents`, `StaysInBuffer`, `LatestIsDelivered` |
| `chat_auth` | 92 236 | `TypeOK`, `NoUseAfterFree`, `ReferencesGivenBack`, `AuthenticatedOwnsAccount`, `ImplementsService`, `EveryTransactionEnds`, `FinishedIsFreed` |
| `chat_clients` | 545 335 | `TypeOK`, `CountsReferences`, `OneLogin`, `LeavesAnnounced`, `ClosingEnds` |
| `chat_server` | 334 627 | `TypeOK`, `DestroyedLast`, `ShutdownEnds` |
| `chat_client` | 491 991 | `TypeOK`, `InStep`, `ProgramEnds` |
| `client_ui` | 416 706 | `LineIsTyped` |
| `connection_stops_writing` | | `StopsWhenWritten`, violated: see section 5 |
| `connection_flushing` | | `FlushingEnds`, violated: see section 5 |
| `clients_double_submit` | | `FinishSucceeds`, violated: see section 5 |

For each property of a passing run `PROJECT.json` names a mutant: a plausible slip in
the code (a dropped guard, a signal only when the queue was empty, a stale byte left in
the pipe, a new watch without a cancel, an off-by-one in the frame's size, a missing
release) with which TLC finds the property violated. The mutants stand in the modules,
before the definitions they change.

### What the runs show

* **message_queue.** Whatever the interleaving of puts, gets, peeks and counts, each
  call takes effect at one instant, as a FIFO of bounded capacity (`ImplementsFifo`).
  `put` signals once per message and a get may take a message another getter was
  signalled for; still no getter is left asleep beside a message (`NoLostWakeup`,
  `MessageWakesGetter`).
* **network_watcher.** A cancel that arrives after its watch was answered leaves a byte
  in the pipe. It does not cancel the next watch, because start_watch flushes the pipe
  before it puts (137), and the thread does not flush it before poll.
  `ImplementsService` says that each watch gets one answer and no answer of another
  watch. `cancel_watch` retries its write with `cancel_mutex` held while the pipe is
  full (168); `OwnerNeverStalls` says that this, and the assertions on a full queue,
  never happen.
* **chat_connection.** Events go into the writer in the order they were accepted, each
  once, through two queues; none is lost until the connection closes (`EventsInOrder`).
  Which bytes then reach the socket is `ChatEventIO`'s subject: a write that is cut short
  leaves the event in the writer, and `do_write` sends its beginning again. In READING
  and READING_WRITING exactly one answer is on its way or waiting (unless a signal cut
  `poll` short), in the other states at most one (`AlwaysWatching`). A connection in
  CLOSING reaches its end (`ClosingEnds`).
* **chat_event_io.** However the stream is cut into reads, the reader returns the
  writer's events, and does not need bytes of the next event to return one. The last of
  the frames that arrive together is delivered; earlier ones of the same read are
  dropped by `read_ready` (44), which is why `LatestIsDelivered` names only the latest.
  It speaks of an event that is written in full, and excepts a write that was cut short
  and a reader whose connection reads no more.
  Until a write is cut short the reader counts the bytes it holds and never reads past
  its buffer (`StaysInBuffer`). Afterwards it may: the run reaches `ReadOverrun`.
* **chat_auth.** `finish_transaction` may come before the check, during it (it waits for
  the mutex) or after the answer: exactly one side frees the transaction, neither
  touches it afterwards, both references go back, a finished transaction is not
  answered. Of two clients that are both told to create a password for one name, the
  second is let in only with the first one's password.

* **chat_clients.** The count of every record equals the references there are, while four
  threads share and release them and clients come and go at both ends and in the middle
  of the list; during the shutdown it is never below (`CountsReferences`), so that no
  record is freed too early. One client has one login under way (`OneLogin`), unless it
  sent a password twice. Whoever was announced is taken back when it leaves the list,
  even if the answer to its login came after it had said it would leave
  (`LeavesAnnounced`), unless it said so twice. All three except what follows a submit
  that chat_auth refused: the answer the server then makes up for it clears
  `auth_transaction` while another login of the client may be under way. Closing ends,
  unless a connection flushes for ever (`ClosingEnds`).
* **chat_server.** From any point, with parts that fail to open, connections that come
  in, failing polls and further requests to close, a CLOSE in main's queue ends the
  program (`ShutdownEnds`), unless a part never reports that it is closed: nobody is told
  to when the listener failed to open, a part that was not opened counts as open if the
  memory says so, and chat_clients may wait for a connection that flushes for ever. The
  server is destroyed, be it after its report, before, or without having been opened, only
  when the threads of all its parts have ended or none was started, and no `accept` waits
  for a connection that was already taken (`DestroyedLast`).
* **chat_client.** The login is a dialogue of two state machines that never ask each
  other where they are. They keep in step (`InStep`): what the client sends is what the
  server awaits, and when all is quiet it is the user's turn and for the right thing, up
  to the moment at which an event of the login shares a read with another and is dropped.
  Once main is closing, the program ends (`ProgramEnds`), also if the connection ends at
  the same moment, unless the interface never opened or the connection flushes for ever.
* **client_ui.** The line that is sent is the line that was typed, and the buffer is not
  left, provided no key comes before the last one was handled (`LineIsTyped`). While a
  key waits, and after a key found the queue full and an assertion ended the program, the
  line is one key behind.

### Bounds, and why they are enough

* `MCMessageQueue`: three threads, one of them both putting and getting, so that there
  are two of each; two slots, so that the ring is full, wraps around and is empty again;
  six calls, so that three threads make two each. Two messages, to see them swapped. The
  proofs do away with all of these but `MaxCalls`, which is any natural number there.
* `MCNetworkWatcher`: no counter is bounded, the state space is finite by itself. Queue
  and pipe have two places each, the fewest for which `OwnerNeverStalls` holds; the
  program has 8 and what the system gives a pipe. The proof does away with this bound.
* `MCChatConnection`: four messages and two events in the queues (8 and 32 in the
  program), so that both overflow within four accepted events; with four events one can
  be in the writer, two in the event queue, one in the message queue. Two closes, so
  that a close meets a connection that is closing.
* `MCChatEventIO`: a header of two bytes and data of one to four, so that both can be cut
  by a read; the buffer has six places, which two of the shortest frames fill together and
  the longest alone. So a read can return two whole frames (the first is then dropped), or
  one with the beginning of the next. Three events: behind a resent beginning there are
  then bytes enough for a flush to end and more to be read. Two writes are cut short
  (`MaxCuts`), of one event or of two. Three whole frames in the buffer are not reached;
  the proofs of the safety properties cover any sizes and numbers.
* `MCChatAuth`: two transactions, an accepted and an overlong name, two passwords, any
  initial database; a queue of two places, so that a third put is refused.
* `MCChatClients`: three clients, the fewest with a middle of the list. Two of them
  (`Bystanders`) have connected before and send only what takes them away, so that the
  states of a whole login are multiplied by the list's and not by three logins; one of
  the two (`Staying`) is not cut off, so that some client outlives the others. Queues of
  three, two and one place and two transactions, so that every put can find its queue
  full, a submit can be refused and two transactions of one client can be under way; one
  unread event per client and one nobody asked for, be it a name, a password, a message,
  or leaving a second time. After a submit was refused, a
  password was sent twice, or closing began, references are no longer kept in order by
  the code, and the peers send nothing more (`Silenced`), which keeps the counts finite.
  The queue of eight places of each connection is not counted here. The violation needs
  larger queues, for the second submit to be taken.
* `MCChatServer`: main's queue of two places fills with one signal and one line;
  chat_server's of four with the three reports of its parts and one message more. Two
  connections, so that one is waiting while another is accepted; two signals, so that
  one can come in the middle of what the other has started.
* `MCChatClient`: five lines, so that a login with one refused name and one refused
  password can be followed by a message; two events of others, to cross the client's
  own; queues of four, so that they overflow.
* `MCClientUI`: a buffer of four, three characters and the end, filled, emptied and
  filled again within seven keys; two characters, to tell an old one from a new one; two
  posted events, which fill the queue of two places without a key.

### Fairness

The specifications that state fairness do so for threads only: a thread that can take a
step eventually does (the scheduler), and a blocked mutex, queue or `poll` blocks it.
Nobody is obliged to call anything. In `NetworkWatcher` the descriptor never needs to
become ready and `poll` never needs to fail; poll returns because the pipe has a byte.
In `ChatConnection` the callback of a completed watch is fair, which includes that a
socket watched for WRITE becomes writable: the peer's kernel or the peer reads. The peer
need not send. In `ChatEventIO` a reader whose connection reads goes on to while there are bytes; the
writer need not write, since its connection may leave it populated without a watch for
WRITE (`StopsWhenWritten` is violated). In `ChatAuth` both
threads complete what they have begun; that the consumer finishes a transaction is not
assumed. `MessageQueue` asks for weak fairness only; a thread that could wait for the
mutex for ever would need strong fairness, which its property does not rest on.
In `ChatClients` each of the three threads runs, and a connection that is told to close
closes or is stuck; the property does not ask peers to do anything. In `ChatServer` the
threads compete for the mutex of main's queue, and a signal may always find one of them
inside; strong fairness says that a thread which is again and again able to lock it does.
Parts that are told to close do, or chat_clients is stuck. In `ChatClient` main and
chat_client's thread run and a connection told to close ends or is stuck; the user need
not type and the server need not answer. `ClientUI` states no fairness and no liveness.

`ClosingEnds` of `ChatConnection` is about a connection in CLOSING. One that is told to
close while it cancels a watch goes to FLUSHING first, and `FlushingEnds` is violated. So
the three compositions do not assume that every connection closes: each has a step that
leaves one, or the part that waits for it, stuck, and its liveness property excepts that.

Deadlock is not checked in the runs with `CHECK_DEADLOCK FALSE`: there all parts are
closed, the bounds are used up, or an assertion has ended the program; in
`message_queue` only getters may be left, asleep at an empty queue. The liveness
properties say what must not be left waiting. In `network_watcher` the descriptor can
always change, so the check for deadlock says nothing there either; `CancelAnswered` and
`CloseCompletes` do.

## 4. What is proved

Eight modules of proofs are checked to the last leaf, for all values of the constants
that the named assumptions allow: `MessageQueueProofs` (785 obligations),
`NetworkWatcherProofs` (588), `ChatConnectionProofs` (1845), `ChatEventIOProofs` (2074),
`ChatAuthProofs` (532), `ChatClientsProofs` (2856), `ChatServerProofs` (751) and
`ClientProofs` (1827). In all of them the queues have at least one place, and the
bounds on counters are any natural numbers; the assumptions below are the other ones.

| Theorem | Statement | Assumptions |
|---|---|---|
| `MessageQueueProofs!InductiveInvariant` | `Spec => []IInv` | threads are not `NoThread`, messages not `NoMessage` |
| `MessageQueueProofs!TypeCorrect` | `Spec => []TypeOK` | the same |
| `MessageQueueProofs!NoWakeupIsLost` | `Spec => []NoLostWakeup` | the same, finitely many threads |
| `MessageQueueProofs!RingImplementsFifo` | `Spec => ImplementsFifo` | the same |
| `NetworkWatcherProofs!InductiveInvariant` | `Spec => []IInv` | `HangUp` is no mode, the pipe holds a byte |
| `NetworkWatcherProofs!TypeCorrect` | `Spec => []TypeOK` | the same |
| `NetworkWatcherProofs!WatcherImplementsService` | `Spec => ImplementsService` | the same |
| `NetworkWatcherProofs!OwnerIsServed` | `Spec => []OwnerNeverStalls` | queue and pipe of at least two places |
| `ChatConnectionProofs!InductiveInvariant` | `Spec => []IInv` | `READ` is not `WRITE` |
| `ChatConnectionProofs!TypeCorrect` | `Spec => []TypeOK` | the same |
| `ChatConnectionProofs!UsesWatcher` | `Spec => UsesWatcherProperly` | the same |
| `ChatConnectionProofs!NeverUnwatched` | `Spec => []AlwaysWatching` | the same |
| `ChatConnectionProofs!EventsKeepOrder` | `Spec => []EventsInOrder` | the same |
| `ChatConnectionProofs!CancelsOnlyToWrite` | `Spec => []CancelsToWrite` | the same |
| `ChatConnectionProofs!ClosesAfterWatcher` | `Spec => []ClosedInOrder` | the same |
| `ChatEventIOProofs!InductiveInvariant` | `Spec => []IInv` | a header and data have at least one byte |
| `ChatEventIOProofs!TypeCorrect` | `Spec => []TypeOK` | the same |
| `ChatEventIOProofs!ReturnsTheEvents` | `Spec => []FramesAreEvents` | the same |
| `ChatEventIOProofs!CountsItsBytes` | `Spec => []StaysInBuffer` | the same |
| `ChatEventIOProofs!ConservesBytes` | `Spec => []BytesConserved` | the same |
| `ChatAuthProofs!InductiveInvariant` | `Spec => []IInv` | the names that are too long are names, `NULL` is nothing else |
| `ChatAuthProofs!TypeCorrect` | `Spec => []TypeOK` | the same |
| `ChatAuthProofs!NeverUsesFreed` | `Spec => []NoUseAfterFree` | the same |
| `ChatAuthProofs!GivesReferencesBack` | `Spec => []ReferencesGivenBack` | the same |
| `ChatAuthProofs!LetInOwnsAccount` | `Spec => []AuthenticatedOwnsAccount` | the same |
| `ChatAuthProofs!AuthImplementsService` | `Spec => ImplementsService` | the same |
| `ChatClientsProofs!InductiveInvariant` | `Spec => []IInv` | the kinds of peers are clients, `NULL` is no transaction |
| `ChatClientsProofs!TypeCorrect` | `Spec => []TypeOK` | the same |
| `ChatClientsProofs!CountsAllReferences` | `Spec => []CountsReferences` | the same |
| `ChatClientsProofs!OneLoginAtATime` | `Spec => []OneLogin` | the same |
| `ChatClientsProofs!TakesBackAnnounced` | `Spec => LeavesAnnounced` | the same |
| `ChatServerProofs!InductiveInvariant` | `Spec => []IInv` | `NULL` is no thread |
| `ChatServerProofs!TypeCorrect` | `Spec => []TypeOK` | the same |
| `ChatServerProofs!DestroysLast` | `Spec => []DestroyedLast` | the same |
| `ClientProofs!LineInductiveInvariant` | `UISpec => []UIInv` | the end of a text is no character |
| `ClientProofs!SendsWhatWasTyped` | `UISpec => []LineIsTyped` | the same |
| `ClientProofs!ClientInductiveInvariant` | `Spec => []WireInv` | none |
| `ClientProofs!ClientTypeCorrect` | `Spec => []TypeOK` | none |
| `ClientProofs!LoginInStep` | `Spec => []InStep` | none |

`IInv` (in `ClientProofs` `UIInv` and `WireInv`) is in each module the inductive invariant that the other theorems follow from; none
of the properties but the types is inductive by itself.

**The message queue.** `NoLostWakeup` and the refinement are not inductive. `IInv` adds
what makes them so: the mutex excludes (`MutexInv`); only a thread inside
`pthread_cond_wait` is on the condition variable (`WaitersInv`); what a put has
established before it moves `used_slots` (there is room, the slot after the last one
holds its message: `PutInv`) and a get before it gives up the front slot (`GetInv`);
every slot in use was written (`FilledInv`). The arithmetic of the ring rests on three
lemmas about `%`: two places of the ring never share a slot, and moving the front moves
every message one place forward. `NoLostWakeup` is then a counting argument: a put adds
one message and wakes one sleeper if there is one; a get takes one message and stops
being awake. The refinement maps the ring to the sequence of its contents, and takes the
instant at which a call takes effect to be the change of the indices.

**The watcher.** The proof needs to know what is in the queue, whom the bytes in the
pipe are for, and who is alive. `QueueInv`: the queue holds the owner's unanswered watch
if the thread has not taken it, then CLOSE if it was put, and nothing else; hence two
places are enough. `WatchInv`: what the thread polls for is the owner's latest watch.
`PipeInv`: a byte in the pipe was written for that watch, and there are at most two, of
cancel_watch and of close; hence a cancel never spins. `LifeInv`: the thread ends only
after a close, and the owner lets go only afterwards. The refinement step is by the
action: most steps are stutters of the service; the write to the pipe is Cancel, the put
of WATCH is Start, the callback is the answer.

**The connection.** State, thread and watcher go together (`LifeInv`). `AnswerInv` is the
centre: of all the answers of the watcher, queued or to come, there is at most one, and in
READING and READING_WRITING there is one, unless a signal cut `poll` short. So no step
starts a watch while another is out, which is what `UsesWatcherProperly` asks. `StopInv`
says which states may have cancelled a watch, and `ModesInv` that in READING and
CANCELLING nothing but READ is watched; hence the answer in CANCELLING never reports
WRITE, and the branch for it is dead. `EventInv` says that the events which left the
message queue are kept in order, and that those in it are the rest, each once. That needs
no induction over the queue: every event is a number, and the last one kept says which
numbers must follow.

**The reader and the writer.** Until a write is cut short, the bytes in the buffer and
under way are, joined, whole frames in a row (`StreamInv`). Each byte knows its event and
its place in the frame, so "in a row" is said byte by byte: the frame around a byte is all
there, and the byte behind it begins the next event's (`InFrame`). Nothing is counted up
from the front, and a write, a read cut anywhere and an extraction each need one argument
about one byte. `WriterInv` and `ReaderInv` hold also afterwards and are what `TypeOK` and
the bound of the buffer rest on.

`BytesConserved` lays everything end to end, with `FlattenSeq`, which is defined by
recursion. That the function in its definition exists, and what it computes, is an
induction over the number of frames. The library's induction takes the formula as a
parameter, which these provers cannot instantiate, so it is done with sets: a set of
numbers that holds 0 and with every number the next is all of `Nat` (`AllNaturals`, from
the least number outside it). The lemma that is used is about one more sequence at the
end (`FlattenFacts`): a populate adds the new event's frame to what was given and to what
is left to write, an extraction moves the first frame of the buffer to the end of what
was read out. A write and a read only move the cut between two neighbours.

**The authentication.** A transaction is in the queue at most once and only until it was
looked at (`QueueInv`); the thread's program counter says what it may find of the one it
holds (`ThreadInv`) and whether it has its mutex (`MutexInv`), and the state of a
transaction says whether it was finished (`FinishInv`). From these it follows which side
frees. `ReferenceInv` gives the references that chat_auth owns in each state, and
`AccountInv` says that who is let in, or about to be, has the account's password: the
accounts only grow. The refinement maps a transaction's state to the service's, and is by
the action, most steps being stutters.

**The clients.** The count of a record is compared with the number of its references, kind
by kind: the list's, the connection's, the neighbours' that kept it, one for each message
and each transaction. Lemmas say what a put and a get do to the number of messages about
a client (`AboutAppend`, `AboutTail`), and similar ones do so for transactions and
neighbours; every action then adds what it takes. That a client enters and leaves the
list once is `Arrival`. `Login` says where a login shows: if one is under way while the
password is awaited, a start is in the queue or `auth_transaction` is set, and that is
what the handler looks at. `Announced` (who was announced
and is in the list is in ACTIVE or in DISCONNECTING_FROM_ACTIVE, and has no login under
way) is what `LeavesAnnounced` follows from, and is inductive with `Login`: an answer that
would set the state comes only for a login that is under way. It fails for a client that,
logged in, says twice that it leaves, so it excepts that client, as the property does;
nothing is assumed of what peers send.

The proof found two things. After a submit was refused `LeavesAnnounced` can fail, since
the answer made up for it clears `auth_transaction` under another login; the instance that
TLC checks does not get there, so the property says so now. And two cases of a CASE in
`AskedFor` overlapped: TLC takes the first, the logic leaves it open, and the definition
now says which.

**The server.** A part that works counts as open in `dependants_states` until its report
was handled, and it reports only when it has ended (`PartsInv`); chat_server closes when
none counts. `AcceptInv` says that a watch of the listener and a message about a connection
exclude each other, that there is one message at most, and that beside a message a
connection waits: accept never blocks.

**The input line.** A user who waits has at most one key in the queue, and the buffer then
holds what was typed before it (`LineInv`); what was sent is what was typed, or begins
with it if a key was erased (`SentInv`). The proof found that the property said too much:
posted events can fill the queue, and a key that finds it full ends the program with the
line one key behind. The bound of the run left no room for that; it has two posted events
now.

**The login.** `InStep` (the server never receives what it does not await, and when nobody
has anything to do, both sides agree on what the user types next) is about both state
machines and the two sequences between them. `LoginInv` lists the pairs of states that can
occur, and for each what is on its way: nothing that counts for the login; or the one line
of the client that the server waits for; or the one answer of the server, on the wire or
already in chat_client's queue, that leads the client on. Events of others may stand
anywhere before or behind it, for they change no state. An event that `read_ready` drops
is one of those, or `lost` is set and nothing more is claimed. Every handler takes one of these
cases to the next: until the client is let in a line is written only while nothing is on
its way, and the server answers each submission once.
`StartInv` says that nothing moves before the connection is open, and
`OpenInv` that CONNECTION_CLOSED is queued only once it has closed, so that an open
connection is never taken for a lost one.

**Only model-checked.** All liveness properties (`MessageWakesGetter`, `CancelAnswered`,
`CloseCompletes`, the two named `ClosingEnds`, `LatestIsDelivered`, `EveryTransactionEnds`,
`FinishedIsFreed`, `ShutdownEnds`, `ProgramEnds`): the proof system does not handle
fairness. Every safety invariant, action property and refinement that a passing run checks
is proved.

## 5. What the code does not keep

Three runs end with a counterexample, each against a comment, a message or an assertion
in the code.

* **A single event stays in the writer** (`connection_stops_writing`).
  `chat_connection_fsm.c:198` says "If theres more to write — either in the writer, or
  the queue — continue writing", but 199–200 joins the two conditions with `&&`.
  `write_ready` only *populates* an empty writer and leaves the writing to the next
  round (82–100). One event queued on an idle connection: the watch is cancelled, READ
  and WRITE are watched, the event moves from the queue into the writer, the queue is
  empty, and the connection goes back to READING without WRITE. The event waits for the
  next one; a close in READING drops it.
* **Flushing for ever** (`connection_flushing`). An event cancels the READ watch, but
  data has just completed it. The completion is handled in CANCELLING (271–302), which
  starts no new watch and waits for a WATCH_CANCELLED that will not come (the cancel
  found nothing to cancel). A close moves to FLUSHING (333–337), "Flushing out the last
  of the messages to wirte before closing" (`chat_connection_internal.h:31`), where
  again only the watcher's answer leads on: the events are never written and the
  connection never closes. Without the close the connection stays in CANCELLING, neither
  reading nor writing. Both programs queue an event right before they close: the server
  SERVER_SHUTDOWN for each client (`chat_clients_fsm.c:206–212`), the client USER_LEAVE
  (`chat_client_fsm.c:56–63`). So either shutdown can meet this, and then waits for ever.

* **A password sent twice** (`clients_double_submit`). `handler_username_submit` records
  in the state that a transaction is under way (`chat_clients_internal.c:171`), and a
  submission that arrives meanwhile is answered "Cannot process password submission now"
  (268). `handler_password_submit` (246–260) does not record it: a second password
  starts a second transaction, kept in the same `auth_transaction`. The first answer
  finishes one transaction and clears the field; the second finishes NULL, and
  `assert(STATUS_SUCCESS == status)` (`chat_server_fsm.c:70`) ends the server. The
  repository's own client waits for its answer.

Other weak points the models show, about which no comment says otherwise, are kept as
the code has them: a callback that finds the eight places of the message queue taken
ends the program (`assertion = "watcher_cback"`), as do a 33rd event and a reset
connection; after a short write `do_write` sends the beginning of its buffer again
(`cuts`), and a reader that has flushed may read past its buffer (`overrun`); a `poll`
cut short by a signal leaves a connection without a watch (`poll_failed`). The
properties name these exceptions.

In the server:

* a submit that chat_auth refuses costs a client's record one reference too many
  (`chat_server_fsm.c:50–64`), and the AUTH_EVENT that follows finishes NULL (`refused`);
* AUTH_EVENT sets the state of a client whatever it was (`chat_clients_fsm.c:91–171`): a
  client that has left the list and is then authenticated is announced to the others and
  never taken back, and the step CLOSED is never answered;
* the submit handlers look at the credentials before the state, and there are none once
  a client is logged in (`assertion = "credentials"`);
* a client that cannot be created or opened is cleaned up twice
  (`chat_clients_internal.c:484–492`, `"client_create"`);
* a client that is logged in and says twice that it leaves, before its connection has
  closed, is not taken back: handler_user_leave moves DISCONNECTING_FROM_ACTIVE to
  DISCONNECTING, for which outroduce_user announces nothing
  (`chat_clients_internal.c:283–290`, 400–404; `again`);
* introduce_user and outroduce_user return nothing where their callers assert a status
  (`"user_info"`), and so does `network_watcher_destroy` (`"watcher_destroy"`);
* events that arrive while chat_clients is closing keep their reference (`Ignore`);
* if the listener cannot be opened nobody reports that anything is closed
  (`chat_server_fsm.c:340`), and a part that was never opened counts as open if the
  memory says so (`Stuck`);
* main's state is not initialised, so that main may leave at once; a signal that finds
  its thread inside main's queue waits for ever (`"deadlock"`); one that interrupts
  `getline`, or the end of the input, ends the program (`"getline"`).

In both: `read_ready` passes on only the last frame of one read
(`chat_connection_fsm.c:44`), so that an event of a login can be lost at either end, say
AUTHENTICATED beside what another client said; the two then wait for each other (`lost`).

In the client: an interface that could not be opened counts as open, and main waits for
its report (`client.c:86`); a key pressed before the last one was handled is judged by
an old position, so that the line overruns its buffer or its position becomes negative
(`hurried`, `"out_of_bounds"`); an erased character is still sent unless another took
its place (`client_ui_fsm.c:113`).

## 6. What is not modelled

* `timer` has headers only; `chat_user` is a type. Of `chat_event` and `common_types`
  only lengths and the text of the input line are modelled: what is left formats.
* The steps inside `shared_ptr_share` and `_release`: the count is changed without a
  lock or an atomic by four threads, so that a change can be lost. Then no property of
  the references holds; `ChatClients` says what holds if none is lost.
* What ncurses draws, and opening and destroying the interface. `client_ui_close` is
  called when chat_client closes by itself, which it never does.
* Cases that nothing reaches: the reports of closed parts in chat_server's OPEN state,
  CLIENT_CLOSED in main's OPEN state of the client.
* Failing allocations, mutex and pipe creation. Failing thread creation is modelled
  where a call can meet it (`OpenFails`) or leaves no trace (`ChatAuth`).
* NULL and size arguments: no caller passes a wrong one.
* `message_queue_destroy`, which every owner calls after its threads have ended.
* `CHAT_CONNECTION_MESSAGE_TYPE_CLOSE_IMMEDIATELY`, which nothing sends.
* `chat_auth_finish_transaction` called twice for a transaction; its case CANCELLED says
  "Nothing to be done".
* SIGPIPE: a write to a reset connection ends the program, like the assertion that
  stands for it.
* A build without assertions (`NDEBUG`).
* Inside SQLite, ncurses, `poll` and the socket calls: external, modelled by what their
  callers see.

## 7. Plan

Done, in this order because each rests on the ones before: `MessageQueue`,
`NetworkWatcher`, `ChatConnection`, `ChatEventIO`, `ChatAuth`; then the programs
composed of them, `ChatClients`, `ChatServer`, `ChatClient` and `ClientUI`.

Proved since: the safety properties of all of them, and the three refinements.

Modules still possible: `print_string_to_buffer` and `chat_event_populate` as operators
over short strings, against a reference definition.
