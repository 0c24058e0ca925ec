----------------------------- MODULE ChatServer -----------------------------
(***************************************************************************)
(* The server program from start to end: main (server.c) with its signal   *)
(* handler and its input thread, and chat_server, which opens its three    *)
(* parts, the listener (a network_watcher), chat_auth and chat_clients,    *)
(* accepts connections, and closes the parts again.                        *)
(*                                                                         *)
(* Each part is taken by what it promises: it reports CLOSED after it is   *)
(* closed, and not otherwise (NetworkWatcher, ChatAuth, ChatClients).  The *)
(* logins chat_server passes on are in ChatClients.  Calls on main's       *)
(* message queue take its mutex and give it back in two steps, so that a   *)
(* signal may come in between; other queues are atomic.                    *)
(***************************************************************************)
EXTENDS Naturals, Sequences, FiniteSets

CONSTANTS MAIN_QUEUE_SIZE, SERVER_QUEUE_SIZE,
          MaxConnections, \* bound: the connections made
          MaxSignals,     \* bound: the signals sent
          NULL

Parts   == {"listener", "auth", "clients"}
Threads == {"main", "input", "server"}

ASSUME SizesAssumption  == MAIN_QUEUE_SIZE \in Nat \ {0} /\ SERVER_QUEUE_SIZE \in Nat \ {0}
ASSUME BoundsAssumption == MaxConnections \in Nat /\ MaxSignals \in Nat
ASSUME NullAssumption   == NULL \notin Threads

VARIABLES program,           \* how far main has come
          main_state,        \* MAIN_FSM_STATE_...
          main_queue,        \* main's messages, by their type
          holder,            \* the thread that has main's queue_mutex, or NULL
          input,             \* the input thread
          state,             \* CHAT_SERVER_STATE_...
          message_queue,     \* chat_server's messages, by their type
          dependants_states, \* the parts that count as open
          part,              \* what has become of each part
          watch,             \* a READ watch of listen_fd is out
          backlog,           \* connections that wait to be accepted
          connected, signals,\* how many there have been
          assertion          \* what ended the program, or "none"

mainVars   == <<program, main_state, main_queue, holder, input>>
serverVars == <<state, message_queue, dependants_states>>
partVars   == <<part, watch, backlog>>
counters   == <<connected, signals>>
vars == <<mainVars, serverVars, partVars, counters, assertion>>

Running == assertion = "none" /\ program # "over"

(* Mutant: the queue is never full. *)
PutUnbounded(messages) == message_queue' = message_queue \o messages /\ UNCHANGED assertion

(* message_queue_put of one or more messages, its status asserted *)
Put(messages) ==
  IF Len(message_queue \o messages) <= SERVER_QUEUE_SIZE
  THEN message_queue' = message_queue \o messages /\ UNCHANGED assertion
  ELSE assertion' = "server_queue" /\ UNCHANGED message_queue

-----------------------------------------------------------------------------
(* main, before it creates anything.  Neither its state nor dependants_states
   is initialised: what init_cblk clears are the first eight bytes.  *)
Init ==
  /\ program = "starting"
  /\ main_state \in {"OPEN", "CLOSING", "CLOSED"}
  /\ main_queue = <<>> /\ holder = NULL /\ input = "none"
  /\ state = "INIT" /\ message_queue = <<>>
  /\ dependants_states \in [Parts -> BOOLEAN]
  /\ part = [p \in Parts |-> "init"]
  /\ watch = FALSE /\ backlog = 0
  /\ connected = 0 /\ signals = 0
  /\ assertion = "none"

(* The queue and the server are created, or main returns. *)
Create ==
  /\ Running /\ program = "starting"
  /\ \/ program' = "opening" /\ input' = "reading"
     \/ program' = "over" /\ UNCHANGED input
  /\ UNCHANGED <<main_state, main_queue, holder, serverVars, partVars, counters, assertion>>

(* chat_server_open *)
Open ==
  /\ Running /\ program = "opening"
  /\ \/ program' = "running" /\ state' = "OPEN"
     \/ program' = "ending" /\ UNCHANGED state
  /\ UNCHANGED <<main_state, main_queue, holder, input, message_queue, dependants_states,
                 partVars, counters, assertion>>

(* A call on main's message queue locks its mutex; get waits for a message. *)
InCall(th) ==
  CASE th = "main"   -> program = "running" /\ main_state # "CLOSED" /\ main_queue # <<>>
    [] th = "input"  -> input = "putting"
    [] th = "server" -> state = "CLOSED"

Lock(th) ==
  /\ Running /\ holder = NULL /\ InCall(th)
  /\ holder' = th
  /\ UNCHANGED <<program, main_state, main_queue, input, serverVars, partVars, counters,
                 assertion>>

(* The loop of main, with the message it has got *)
MainServerClosed ==
  /\ Running /\ holder = "main" /\ Head(main_queue) = "SERVER_CLOSED"
  /\ holder' = NULL
  /\ main_queue' = Tail(main_queue)
  /\ main_state' = "CLOSED"
  /\ UNCHANGED <<program, input, serverVars, partVars, counters, assertion>>

MainClose ==
  /\ Running /\ holder = "main" /\ Head(main_queue) = "CLOSE"
  /\ holder' = NULL
  /\ main_queue' = Tail(main_queue)
  /\ Put(<<"CLOSE">>)
  /\ UNCHANGED <<program, main_state, input, state, dependants_states, partVars, counters>>

(* The loop ends, and the input thread is killed, wherever it is. *)
MainLeaves ==
  /\ Running /\ program = "running" /\ main_state = "CLOSED" /\ holder # "main"
  /\ program' = "ending"
  /\ input' = "killed"
  /\ UNCHANGED <<main_state, main_queue, holder, serverVars, partVars, counters, assertion>>

(* chat_server_destroy, which refuses unless the server is closed, its report
   made or not, or was never opened; then main returns.  network_watcher_destroy
   returns no status, and chat_server_destroy asserts it.  *)
Destroys == state \in {"INIT", "CLOSED", "reported"}

MainEnds ==
  /\ Running /\ program = "ending"
  /\ \/ program' = "over" /\ UNCHANGED assertion
     \/ Destroys /\ assertion' = "watcher_destroy" /\ UNCHANGED program
  /\ state' = IF Destroys THEN "destroyed" ELSE state
  /\ UNCHANGED <<main_state, main_queue, holder, input, message_queue, dependants_states,
                 partVars, counters>>

-----------------------------------------------------------------------------
(* The input thread reads lines until one says "close". *)
InputClose ==
  /\ Running /\ input = "reading"
  /\ input' = "putting"
  /\ UNCHANGED <<program, main_state, main_queue, holder, serverVars, partVars, counters,
                 assertion>>

EndOfInput ==
  /\ Running /\ input = "reading"
  /\ assertion' = "getline"
  /\ UNCHANGED <<mainVars, serverVars, partVars, counters>>

(* A put into main's queue, its status asserted *)
MainPut(th, message) ==
  /\ Running /\ holder = th
  /\ holder' = NULL
  /\ IF Len(main_queue) < MAIN_QUEUE_SIZE
     THEN main_queue' = Append(main_queue, message) /\ UNCHANGED assertion
     ELSE assertion' = "main_queue" /\ UNCHANGED main_queue

InputPut ==
  /\ MainPut("input", "CLOSE")
  /\ input' = "over"
  /\ UNCHANGED <<program, main_state, serverVars, partVars, counters>>

(* chat_server_cback, the last that chat_server's thread does *)
ServerReports ==
  /\ MainPut("server", "SERVER_CLOSED")
  /\ state' = "reported"
  /\ UNCHANGED <<program, main_state, input, message_queue, dependants_states, partVars,
                 counters>>

(* close_signal_handler, in any thread; what does not fit is lost.  A thread
   that has the mutex waits for itself; getline is not restarted.  *)
Signal(th) ==
  /\ Running /\ program \in {"opening", "running"} /\ signals < MaxSignals
  /\ th = "input" => input \in {"reading", "putting"}
  /\ th = "server" => state \notin {"INIT", "reported", "destroyed"}
  /\ holder \in {NULL, th}
  /\ signals' = signals + 1
  /\ main_queue' = IF holder = NULL /\ Len(main_queue) < MAIN_QUEUE_SIZE
                   THEN Append(main_queue, "CLOSE") ELSE main_queue
  /\ assertion' = CASE holder = th -> "deadlock"
                    [] th = "input" /\ input = "reading" -> "getline"
                    [] OTHER -> assertion
  /\ UNCHANGED <<program, main_state, holder, input, serverVars, partVars, connected>>

-----------------------------------------------------------------------------
(* chat_server's thread.  First it opens the parts. *)
ServerThreadStarts == Running /\ state = "OPEN" /\ \A p \in Parts : part[p] = "init"

ServerOpens ==
  /\ ServerThreadStarts
  /\ part' = [p \in Parts |-> "open"]
  /\ dependants_states' = [p \in Parts |-> TRUE]
  /\ watch' = TRUE
  /\ UNCHANGED <<mainVars, state, message_queue, backlog, counters, assertion>>

(* What was opened before the part p that fails is closed.  Without a listener
   there is nobody to report anything.  *)
Before(p) == CASE p = "listener" -> {} [] p = "auth" -> {"listener"}
               [] p = "clients" -> {"listener", "auth"}

ServerOpenFails(p) ==
  /\ ServerThreadStarts
  /\ part' = [q \in Parts |-> IF q \in Before(p) THEN "closing"
                              ELSE IF q = p THEN "failed" ELSE "init"]
  /\ dependants_states' = [q \in Parts |-> q \in Before(p) \/ dependants_states[q]]
  /\ watch' = (p # "listener")
  /\ state' = "CLOSING"
  /\ UNCHANGED <<mainVars, message_queue, backlog, counters, assertion>>

ServerReceived(type) ==
  /\ Running /\ part["listener"] # "init"
  /\ message_queue # <<>> /\ Head(message_queue) = type
  /\ message_queue' = Tail(message_queue)

(* Mutant: chat_auth is not told. *)
ServerCloseKeepsAuth ==
  /\ state = "OPEN"
  /\ ServerReceived("CLOSE") \/ ServerReceived("LISTENER_ERROR")
  /\ part' = [part EXCEPT !["clients"] = "closing", !["listener"] = "closing"]
  /\ state' = "CLOSING"
  /\ UNCHANGED <<mainVars, dependants_states, watch, backlog, counters, assertion>>

(* CHAT_SERVER_MESSAGE_CLOSE and CHAT_SERVER_MESSAGE_LISTENER_ERROR *)
ServerClose ==
  /\ state = "OPEN"
  /\ ServerReceived("CLOSE") \/ ServerReceived("LISTENER_ERROR")
  /\ part' = [p \in Parts |-> "closing"]
  /\ state' = "CLOSING"
  /\ UNCHANGED <<mainVars, dependants_states, watch, backlog, counters, assertion>>

(* CHAT_SERVER_MESSAGE_INCOMING_CONNECTION: accepted, and given to
   chat_clients, or closed at once.  *)
IncomingConnection ==
  /\ state \in {"OPEN", "CLOSING"} /\ ServerReceived("INCOMING_CONNECTION")
  /\ backlog > 0
  /\ backlog' = backlog - 1
  /\ watch' = (watch \/ state = "OPEN")
  /\ UNCHANGED <<mainVars, state, dependants_states, part, counters, assertion>>

AcceptFails ==
  /\ state \in {"OPEN", "CLOSING"} /\ ServerReceived("INCOMING_CONNECTION")
  /\ assertion' = "accept"
  /\ UNCHANGED <<mainVars, state, dependants_states, partVars, counters>>

(* Mutant: open = where open |= is meant. *)
CheckClosedLast(states) == ~states["listener"]

(* check_closed *)
CheckClosed(states) == \A p \in Parts : ~states[p]

(* CHAT_SERVER_MESSAGE_..._CLOSED *)
ClosedMessage(p) ==
  CASE p = "listener" -> "LISTENER_CLOSED" [] p = "auth" -> "AUTH_CLOSED"
    [] p = "clients" -> "CLIENTS_CLOSED"

DependantClosed(p) ==
  /\ state = "CLOSING" /\ ServerReceived(ClosedMessage(p))
  /\ dependants_states' = [dependants_states EXCEPT ![p] = FALSE]
  /\ state' = IF CheckClosed(dependants_states') THEN "CLOSED" ELSE state
  /\ UNCHANGED <<mainVars, partVars, counters, assertion>>

(* closing_processing has no case for these. *)
ServerIgnores ==
  /\ state = "CLOSING"
  /\ \E type \in {"CLOSE", "LISTENER_ERROR", "LISTENER_CANCELLED"} : ServerReceived(type)
  /\ UNCHANGED <<mainVars, state, dependants_states, partVars, counters, assertion>>

-----------------------------------------------------------------------------
(* The parts, in threads of their own. *)
ListenerRuns == Running /\ part["listener"] \in {"open", "closing"}

WatchCompletes ==
  /\ ListenerRuns /\ watch /\ backlog > 0
  /\ watch' = FALSE
  /\ Put(<<"INCOMING_CONNECTION">>)
  /\ UNCHANGED <<mainVars, state, dependants_states, part, backlog, counters>>

(* A poll that fails, or is cut short by a signal *)
WatchError ==
  /\ ListenerRuns /\ watch
  /\ watch' = FALSE
  /\ Put(<<"LISTENER_ERROR">>)
  /\ UNCHANGED <<mainVars, state, dependants_states, part, backlog, counters>>

(* Closing cancels a watch that is out. *)
PartCloses(p) ==
  /\ Running /\ part[p] = "closing"
  /\ part' = [part EXCEPT ![p] = "closed"]
  /\ watch' = (watch /\ p # "listener")
  /\ Put((IF watch /\ p = "listener" THEN <<"LISTENER_CANCELLED">> ELSE <<>>)
         \o <<ClosedMessage(p)>>)
  /\ UNCHANGED <<mainVars, state, dependants_states, backlog, counters>>

(* chat_clients waits for all of its connections, and one of them may flush for
   ever (ChatConnection!FlushingEnds).  *)
ClientsStuck ==
  /\ Running /\ part["clients"] = "closing"
  /\ part' = [part EXCEPT !["clients"] = "stuck"]
  /\ UNCHANGED <<mainVars, serverVars, watch, backlog, counters, assertion>>

Connect ==
  /\ Running /\ state # "INIT" /\ connected < MaxConnections
  /\ connected' = connected + 1
  /\ backlog' = backlog + 1
  /\ UNCHANGED <<mainVars, serverVars, part, watch, signals, assertion>>

-----------------------------------------------------------------------------
MainThread == \/ Create \/ Open \/ Lock("main") \/ MainServerClosed \/ MainClose
              \/ MainLeaves \/ MainEnds

InputCalls == Lock("input") \/ InputPut

ServerThread ==
  \/ ServerOpens \/ (\E p \in Parts : ServerOpenFails(p) \/ DependantClosed(p))
  \/ ServerClose \/ IncomingConnection \/ AcceptFails \/ ServerIgnores
  \/ Lock("server") \/ ServerReports

Next == \/ MainThread \/ InputCalls \/ InputClose \/ EndOfInput \/ ServerThread
        \/ WatchCompletes \/ WatchError \/ ClientsStuck \/ Connect
        \/ \E p \in Parts : PartCloses(p)
        \/ \E th \in Threads : Signal(th)

Spec == Init /\ [][Next]_vars

(* Threads run, one that waits for a mutex others release gets it, and a part
   that is told to close does, unless it is chat_clients and one of its
   connections does not.  Nothing says that lines, signals or connections come. *)
Fairness ==
  /\ SF_vars(MainThread) /\ SF_vars(InputCalls) /\ SF_vars(ServerThread)
  /\ \A p \in Parts : WF_vars(PartCloses(p))

FairSpec == Spec /\ Fairness

-----------------------------------------------------------------------------
Message == {"CLOSE", "INCOMING_CONNECTION", "LISTENER_ERROR", "LISTENER_CANCELLED"}
             \union {ClosedMessage(p) : p \in Parts}

(* Types, and the bounds of the queues. *)
TypeOK ==
  /\ program \in {"starting", "opening", "running", "ending", "over"}
  /\ main_state \in {"OPEN", "CLOSING", "CLOSED"}
  /\ main_queue \in Seq({"CLOSE", "SERVER_CLOSED"}) /\ Len(main_queue) <= MAIN_QUEUE_SIZE
  /\ holder \in Threads \union {NULL}
  /\ input \in {"none", "reading", "putting", "over", "killed"}
  /\ state \in {"INIT", "OPEN", "CLOSING", "CLOSED", "reported", "destroyed"}
  /\ message_queue \in Seq(Message) /\ Len(message_queue) <= SERVER_QUEUE_SIZE
  /\ dependants_states \in [Parts -> BOOLEAN]
  /\ part \in [Parts -> {"init", "failed", "open", "closing", "stuck", "closed"}]
  /\ watch \in BOOLEAN /\ backlog \in 0 .. MaxConnections

Incoming == {i \in DOMAIN message_queue : message_queue[i] = "INCOMING_CONNECTION"}

(* chat_server is destroyed when all of its parts' threads have ended, and one
   connection at least waits for every accept, which would otherwise block the
   thread all of them wait for.  *)
DestroyedLast ==
  /\ state = "destroyed" => \A p \in Parts : part[p] \in {"init", "failed", "closed"}
  /\ Cardinality(Incoming) <= backlog

(* The server is stuck in CLOSING: without a listener no message says that
   anything is closed (chat_server_fsm.c:340), a part that never opened counts as
   open if the uninitialised memory says so (chat_server.c:23), and a connection
   of chat_clients flushes for ever.  *)
Stuck ==
  state = "CLOSING" /\ \/ part["listener"] = "failed"
                       \/ part["clients"] = "stuck"
                       \/ \E p \in Parts : part[p] \in {"init", "failed"} /\ dependants_states[p]

(* Once main has a message to close, whoever it is from, the program ends, at
   whatever point of opening, accepting or closing the server is: unless it is
   stuck for one of the three reasons that Stuck lists.  *)
ShutdownEnds ==
  (\E i \in DOMAIN main_queue : main_queue[i] = "CLOSE") /\ Running ~> ~Running \/ Stuck
=============================================================================
