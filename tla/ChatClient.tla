----------------------------- MODULE ChatClient -----------------------------
(***************************************************************************)
(* The client program: main (client.c), chat_client, and what they work    *)
(* between.  The interface is taken by its callbacks: lines, and CLOSED    *)
(* after ctrl-c (ClientUI).  The connection carries events in order as     *)
(* long as it lasts, but of those that one read returns only the last      *)
(* (`lost`); that a write is cut short (ChatEventIO) is not repeated here. *)
(* The server is the record it keeps of this client (ChatClients).         *)
(***************************************************************************)
EXTENDS Integers, Sequences

CONSTANTS MAIN_QUEUE_SIZE, CLIENT_QUEUE_SIZE,
          MaxLines,     \* bound: the lines typed
          MaxBroadcasts \* bound: the events of other clients

ASSUME SizesAssumption  == MAIN_QUEUE_SIZE \in Nat \ {0} /\ CLIENT_QUEUE_SIZE \in Nat \ {0}
ASSUME BoundsAssumption == MaxLines \in Nat /\ MaxBroadcasts \in Nat

VARIABLES program,        \* how far main has come
          main_state,     \* CLIENT_STATE_...
          main_queue,     \* main's messages
          closing_states, \* what counts as open
          ui,             \* the interface
          state,          \* CHAT_CLIENT_STATE_...
          message_queue,  \* chat_client's messages
          connection,
          to_server, to_client, \* the events on their way
          server,         \* the state of this client at the server
          lines, broadcasts, \* how many there have been
          lost,           \* history: an event of the login was dropped
          assertion       \* the assertion that ended the program, or "none"

mainVars   == <<program, main_state, main_queue, closing_states, ui>>
clientVars == <<state, message_queue>>
wireVars   == <<connection, to_server, to_client, server>>
counters   == <<lines, broadcasts, lost>>
vars == <<mainVars, clientVars, wireVars, counters, assertion>>

Message(type, event) == [type |-> type, event |-> event]

Running == assertion = "none" /\ program # "over"

(* message_queue_put, its status asserted, into main's queue or chat_client's *)
ToMain(message) ==
  IF Len(main_queue) < MAIN_QUEUE_SIZE
  THEN main_queue' = Append(main_queue, message) /\ UNCHANGED assertion
  ELSE assertion' = "main_queue" /\ UNCHANGED main_queue

(* Mutant: the queue is never full. *)
ToChatClientUnbounded(message) ==
  message_queue' = Append(message_queue, message) /\ UNCHANGED assertion

ToChatClient(message) ==
  IF Len(message_queue) < CLIENT_QUEUE_SIZE
  THEN message_queue' = Append(message_queue, message) /\ UNCHANGED assertion
  ELSE assertion' = "client_queue" /\ UNCHANGED message_queue

(* CHAT_CLIENT_EVENT_PRINT_EVENT *)
PrintEvent(event) == ToMain(Message("PRINT_EVENT", event))

-----------------------------------------------------------------------------
Init ==
  /\ program = "opening"
  /\ main_state = "OPEN" /\ main_queue = <<>>
  /\ closing_states = [ui |-> FALSE, client |-> FALSE]
  /\ ui = "init"
  /\ state = "INIT" /\ message_queue = <<>>
  /\ connection = "init" /\ to_server = <<>> /\ to_client = <<>>
  /\ server = "INIT"
  /\ lines = 0 /\ broadcasts = 0 /\ lost = FALSE
  /\ assertion = "none"

(* chat_client_open *)
OpenClient ==
  /\ Running /\ program = "opening"
  /\ program' = "opening_ui"
  /\ state' = "CONNECTED" /\ connection' = "open"
  /\ closing_states' = [closing_states EXCEPT !.client = TRUE]
  /\ UNCHANGED <<main_state, main_queue, ui, message_queue, to_server, to_client, server,
                 counters, assertion>>

OpenClientFails ==
  /\ Running /\ program = "opening"
  /\ program' = "over"
  /\ UNCHANGED <<main_state, main_queue, closing_states, ui, clientVars, wireVars, counters,
                 assertion>>

(* client_ui_open; one that fails counts as open all the same.  The status of
   the close is not looked at, but the queue is asserted by others.  *)
OpenUI ==
  /\ Running /\ program = "opening_ui"
  /\ program' = "running"
  /\ closing_states' = [closing_states EXCEPT !.ui = TRUE]
  /\ \/ ui' = "open" /\ UNCHANGED <<main_state, message_queue>>
     \/ /\ ui' = "failed" /\ main_state' = "CLOSING"
        /\ message_queue' = IF Len(message_queue) < CLIENT_QUEUE_SIZE
                            THEN Append(message_queue, Message("CLOSE", "")) ELSE message_queue
  /\ UNCHANGED <<main_queue, state, wireVars, counters, assertion>>

-----------------------------------------------------------------------------
(* main, with the message it has got *)
MainReceived(type) ==
  /\ Running /\ program = "running" /\ main_state \in {"OPEN", "CLOSING"}
  /\ main_queue # <<>> /\ Head(main_queue).type = type
  /\ main_queue' = Tail(main_queue)

MainUserInput ==
  /\ MainReceived("USER_INPUT") /\ main_state = "OPEN"
  /\ ToChatClient(Message("USER_INPUT", ""))
  /\ UNCHANGED <<program, main_state, closing_states, ui, state, wireVars, counters>>

MainUIClosed ==
  /\ MainReceived("UI_CLOSED") /\ main_state = "OPEN"
  /\ closing_states' = [closing_states EXCEPT !.ui = FALSE]
  /\ main_state' = "CLOSING"
  /\ ToChatClient(Message("CLOSE", ""))
  /\ UNCHANGED <<program, ui, state, wireVars, counters>>

(* client_ui_post_event, and what closing_processing has no case for *)
MainOther ==
  /\ \/ MainReceived("PRINT_EVENT")
     \/ MainReceived("USER_INPUT") /\ main_state = "CLOSING"
  /\ UNCHANGED <<program, main_state, closing_states, ui, clientVars, wireVars, counters,
                 assertion>>

MainClientClosed ==
  /\ MainReceived("CLIENT_CLOSED") /\ main_state = "CLOSING"
  /\ closing_states' = [closing_states EXCEPT !.client = FALSE]
  /\ main_state' = IF closing_states'.ui THEN main_state ELSE "CLOSED"
  /\ UNCHANGED <<program, ui, clientVars, wireVars, counters, assertion>>

(* Everything is destroyed, and main returns. *)
MainEnds ==
  /\ Running /\ program = "running" /\ main_state = "CLOSED"
  /\ program' = "over"
  /\ UNCHANGED <<main_state, main_queue, closing_states, ui, clientVars, wireVars, counters,
                 assertion>>

(* client_ui_cback: a line, and the end after ctrl-c *)
Line ==
  /\ Running /\ ui = "open" /\ lines < MaxLines
  /\ lines' = lines + 1
  /\ ToMain(Message("USER_INPUT", ""))
  /\ UNCHANGED <<program, main_state, closing_states, ui, clientVars, wireVars, broadcasts,
                 lost>>

UICloses ==
  /\ Running /\ ui = "open"
  /\ ui' = "closed"
  /\ ToMain(Message("UI_CLOSED", ""))
  /\ UNCHANGED <<program, main_state, closing_states, clientVars, wireVars, counters>>

-----------------------------------------------------------------------------
(* chat_client's thread *)
Entry     == {"USERNAME_ENTRY", "PASSWORD_ENTRY"}
Verifying == {"USERNAME_VERIFYING", "PASSWORD_VERIFYING"}
Live      == {"CONNECTED", "AUTHENTICATED", "ACTIVE"} \union Entry \union Verifying

Received(type) ==
  /\ Running /\ state \notin {"INIT", "CLOSED", "reported"}
  /\ message_queue # <<>> /\ Head(message_queue).type = type
  /\ message_queue' = Tail(message_queue)

Send(event) == to_server' = IF connection = "open" THEN Append(to_server, event) ELSE to_server

(* CHAT_CLIENT_MESSAGE_USER_INPUT in auth_entry_processing *)
EntryInput ==
  /\ Received("USER_INPUT") /\ state \in Entry
  /\ Send(IF state = "USERNAME_ENTRY" THEN "USERNAME_SUBMIT" ELSE "PASSWORD_SUBMIT")
  /\ state' = IF state = "USERNAME_ENTRY" THEN "USERNAME_VERIFYING" ELSE "PASSWORD_VERIFYING"
  /\ UNCHANGED <<mainVars, connection, to_client, server, counters, assertion>>

(* in active_processing *)
ActiveInput ==
  /\ Received("USER_INPUT") /\ state = "ACTIVE"
  /\ Send("CHAT_MESSAGE")
  /\ PrintEvent("CHAT_MESSAGE")
  /\ UNCHANGED <<program, main_state, closing_states, ui, state, connection, to_client, server,
                 counters>>

(* Mutant: a password that is asked for again is not. *)
ExpectingOnce(event) ==
  CASE event = "USERNAME_REQUEST" -> {"CONNECTED", "USERNAME_VERIFYING"}
    [] event = "PASSWORD_REQUEST" -> {"CONNECTED", "USERNAME_VERIFYING"}
    [] event = "AUTHENTICATED"    -> {"CONNECTED"} \union Verifying
    [] event = "USERNAME_SUBMIT"  -> {"AUTHENTICATED"}
    [] event = "CHAT_MESSAGE"     -> {"ACTIVE"}
    [] event = "SERVER_SHUTDOWN"  -> Live

(* event_handler_table: the state after an event, and whether it is shown; an
   event that is not expected changes nothing.  *)
Expecting(event) ==
  CASE event = "USERNAME_REQUEST" -> {"CONNECTED", "USERNAME_VERIFYING"}
    [] event = "PASSWORD_REQUEST" -> {"CONNECTED"} \union Verifying
    [] event = "AUTHENTICATED"    -> {"CONNECTED"} \union Verifying
    [] event = "USERNAME_SUBMIT"  -> {"AUTHENTICATED"}
    [] event = "CHAT_MESSAGE"     -> {"ACTIVE"}
    [] event = "SERVER_SHUTDOWN"  -> Live

Handles(event) == state \in Expecting(event)

StateAfter(event) ==
  CASE event = "USERNAME_REQUEST" -> "USERNAME_ENTRY"
    [] event = "PASSWORD_REQUEST" -> "PASSWORD_ENTRY"
    [] event = "AUTHENTICATED"    -> "AUTHENTICATED"
    [] event = "USERNAME_SUBMIT"  -> "ACTIVE"
    [] OTHER                      -> state

IncomingEvent ==
  LET event == Head(message_queue).event IN
  /\ Received("INCOMING_EVENT") /\ state \in Live /\ Handles(event)
  /\ state' = StateAfter(event)
  /\ IF event = "USERNAME_SUBMIT" THEN UNCHANGED <<main_queue, assertion>> ELSE PrintEvent(event)
  /\ IF event = "AUTHENTICATED" THEN Send("USERNAME_REQUEST") ELSE UNCHANGED to_server
  /\ UNCHANGED <<program, main_state, closing_states, ui, connection, to_client, server,
                 counters>>

(* What the states have no case for: lines while something is being checked,
   events that are not expected, and everything but the end when closing.  *)
Ignored ==
  /\ \/ Received("USER_INPUT") /\ state \notin Entry \union {"ACTIVE"}
     \/ /\ Received("INCOMING_EVENT")
        /\ state \in Live => ~Handles(Head(message_queue).event)
     \/ Received("CLOSE") /\ state = "CLOSING"
  /\ UNCHANGED <<mainVars, state, wireVars, counters, assertion>>

ConnectionClosed ==
  /\ Received("CONNECTION_CLOSED") /\ state \in Live
  /\ state' = "DISCONNECTED"
  /\ PrintEvent("CONNECTION_FAILED")
  /\ UNCHANGED <<program, main_state, closing_states, ui, wireVars, counters>>

ClosingDone ==
  /\ Received("CONNECTION_CLOSED") /\ state = "CLOSING"
  /\ state' = "CLOSED"
  /\ UNCHANGED <<mainVars, wireVars, counters, assertion>>

Close ==
  /\ Received("CLOSE") /\ state \in Live
  /\ Send("USER_LEAVE")
  /\ connection' = IF connection = "open" THEN "closing" ELSE connection
  /\ state' = "CLOSING"
  /\ UNCHANGED <<mainVars, to_client, server, counters, assertion>>

(* Mutant: DISCONNECTED waits for the connection like the others. *)
CloseDisconnectedWaits ==
  /\ Received("CLOSE") /\ state = "DISCONNECTED"
  /\ state' = "CLOSING"
  /\ UNCHANGED <<mainVars, wireVars, counters, assertion>>

CloseDisconnected ==
  /\ Received("CLOSE") /\ state = "DISCONNECTED"
  /\ state' = "CLOSED"
  /\ UNCHANGED <<mainVars, wireVars, counters, assertion>>

(* The thread ends with CHAT_CLIENT_EVENT_CLOSED. *)
Reports ==
  /\ Running /\ state = "CLOSED"
  /\ state' = "reported"
  /\ ToMain(Message("CLIENT_CLOSED", ""))
  /\ UNCHANGED <<program, main_state, closing_states, ui, message_queue, wireVars, counters>>

-----------------------------------------------------------------------------
(* read_ready, at both ends: of the events that one read returns only the last is
   passed on.  The first goes if another is behind it, and so on.  *)
Drop(event) == lost' = (lost \/ event # "CHAT_MESSAGE")

ReadTogether ==
  /\ Running /\ connection \in {"open", "closing"} /\ Len(to_client) > 1
  /\ to_client' = Tail(to_client)
  /\ Drop(Head(to_client))
  /\ UNCHANGED <<mainVars, clientVars, connection, to_server, server, lines, broadcasts,
                 assertion>>

ServerReadsTogether ==
  /\ Running /\ connection = "open" /\ Len(to_server) > 1
  /\ to_server' = Tail(to_server)
  /\ Drop(Head(to_server))
  /\ UNCHANGED <<mainVars, clientVars, connection, to_client, server, lines, broadcasts,
                 assertion>>

(* chat_client_connection_cback.  The connection may end at any time. *)
Deliver ==
  /\ Running /\ connection \in {"open", "closing"} /\ to_client # <<>>
  /\ to_client' = Tail(to_client)
  /\ ToChatClient(Message("INCOMING_EVENT", Head(to_client)))
  /\ UNCHANGED <<mainVars, state, connection, to_server, server, counters>>

ConnectionEnds ==
  /\ Running /\ connection \in {"open", "closing"}
  /\ connection' = "closed"
  /\ to_client' = <<>> /\ to_server' = <<>>
  /\ ToChatClient(Message("CONNECTION_CLOSED", ""))
  /\ UNCHANGED <<mainVars, state, server, counters>>

(* A connection that is told to close may flush for ever what was queued just
   before (ChatConnection!FlushingEnds).  *)
ConnectionStuck ==
  /\ Running /\ connection = "closing"
  /\ connection' = "stuck"
  /\ UNCHANGED <<mainVars, clientVars, to_server, to_client, server, counters, assertion>>

(* The server, while the connection lasts: a login is started for a new client
   and for what it submits, and its result asks for something or logs it in.  *)
Serving == Running /\ connection = "open"

ServerAnswers(step) ==
  /\ Serving
  /\ \/ server = "INIT" /\ step = "USERNAME_REQUEST"
     \/ server = "USERNAME_PROCESSING" /\ step \in {"USERNAME_REQUEST", "PASSWORD_REQUEST"}
     \/ server = "PASSWORD_PROCESSING" /\ step \in {"PASSWORD_REQUEST", "AUTHENTICATED"}
  /\ to_client' = Append(to_client, step)
  /\ server' = CASE step = "USERNAME_REQUEST" -> "USERNAME"
                 [] step = "PASSWORD_REQUEST" -> "PASSWORD"
                 [] step = "AUTHENTICATED" -> "ACTIVE"
  /\ UNCHANGED <<mainVars, clientVars, connection, to_server, counters, assertion>>

(* CHAT_CLIENTS_AUTH_STEP_CLOSED, if chat_auth does not take the login: nothing is
   sent (a REVIEW).  *)
ServerFails ==
  /\ Serving /\ server \in {"INIT", "USERNAME_PROCESSING", "PASSWORD_PROCESSING"}
  /\ server' = "failed"
  /\ UNCHANGED <<mainVars, clientVars, connection, to_server, to_client, counters, assertion>>

Awaited == CASE server = "USERNAME" -> {"USERNAME_SUBMIT"}
             [] server = "PASSWORD" -> {"PASSWORD_SUBMIT"}
             [] server = "ACTIVE"   -> {"USERNAME_REQUEST", "CHAT_MESSAGE"}
             [] OTHER               -> {}

ServerReceives ==
  LET event == Head(to_server) IN
  /\ Serving /\ to_server # <<>> /\ event \in Awaited
  /\ to_server' = Tail(to_server)
  /\ server' = CASE event = "USERNAME_SUBMIT" -> "USERNAME_PROCESSING"
                 [] event = "PASSWORD_SUBMIT" -> "PASSWORD_PROCESSING"
                 [] OTHER -> server
  /\ to_client' = IF event = "USERNAME_REQUEST" THEN Append(to_client, "USERNAME_SUBMIT")
                                                ELSE to_client
  /\ UNCHANGED <<mainVars, clientVars, connection, counters, assertion>>

(* An event of another client's, to all that are listed *)
ServerBroadcasts ==
  /\ Serving /\ server = "ACTIVE" /\ broadcasts < MaxBroadcasts
  /\ broadcasts' = broadcasts + 1
  /\ to_client' = Append(to_client, "CHAT_MESSAGE")
  /\ UNCHANGED <<mainVars, clientVars, connection, to_server, server, lines, lost,
                 assertion>>

(* The server is closing: it says so to everybody, and reads nothing more. *)
ServerShutsDown ==
  /\ Serving /\ server # "closing"
  /\ server' = "closing"
  /\ to_client' = Append(to_client, "SERVER_SHUTDOWN")
  /\ UNCHANGED <<mainVars, clientVars, connection, to_server, counters, assertion>>

-----------------------------------------------------------------------------
MainThread == \/ OpenClient \/ OpenClientFails \/ OpenUI \/ MainUserInput \/ MainUIClosed
              \/ MainOther \/ MainClientClosed \/ MainEnds

ClientThread == \/ EntryInput \/ ActiveInput \/ IncomingEvent \/ Ignored \/ ConnectionClosed
                \/ ClosingDone \/ Close \/ CloseDisconnected \/ Reports

Server == \/ (\E step \in {"USERNAME_REQUEST", "PASSWORD_REQUEST", "AUTHENTICATED"} :
               ServerAnswers(step))
          \/ ServerFails \/ ServerReceives \/ ServerBroadcasts \/ ServerShutsDown

Wire == \/ ReadTogether \/ ServerReadsTogether \/ Deliver \/ ConnectionEnds
        \/ ConnectionStuck

Next == MainThread \/ ClientThread \/ Line \/ UICloses \/ Wire \/ Server

Spec == Init /\ [][Next]_vars

(* Threads run, and a connection that is told to close closes or is stuck.
   Nothing says that the user types or that the server answers.  *)
Fairness ==
  /\ WF_vars(MainThread) /\ WF_vars(ClientThread)
  /\ WF_vars(ConnectionEnds /\ connection = "closing")

FairSpec == Spec /\ Fairness

-----------------------------------------------------------------------------
(* Types, and the bounds of the queues. *)
TypeOK ==
  /\ program \in {"opening", "opening_ui", "running", "over"}
  /\ main_state \in {"OPEN", "CLOSING", "CLOSED"}
  /\ Len(main_queue) <= MAIN_QUEUE_SIZE /\ Len(message_queue) <= CLIENT_QUEUE_SIZE
  /\ closing_states \in [ui : BOOLEAN, client : BOOLEAN]
  /\ ui \in {"init", "open", "failed", "closed"}
  /\ state \in Live \union {"INIT", "DISCONNECTED", "CLOSING", "CLOSED", "reported"}
  /\ connection \in {"init", "open", "closing", "stuck", "closed"}
  /\ server \in {"INIT", "USERNAME", "USERNAME_PROCESSING", "PASSWORD", "PASSWORD_PROCESSING",
                 "ACTIVE", "failed", "closing"}
  /\ lost \in BOOLEAN

(* Client and server stay in step, though requests, answers, lines and other
   clients' events cross: the server is never sent what it does not await, and
   when nothing is on its way and the server has nothing to check, it is the
   user's turn and for what the server awaits.  Excepted are a login chat_auth
   did not take, which is never answered (chat_clients_fsm.c:155), a server that
   is closing, and a login one of whose events was read together with another,
   say AUTHENTICATED with what somebody said: read_ready drops it, and client and
   server are out of step for good (chat_connection_fsm.c:44).  *)
Quiet == to_server = <<>> /\ to_client = <<>> /\ message_queue = <<>>

UsersTurn == CASE server = "USERNAME" -> "USERNAME_ENTRY"
               [] server = "PASSWORD" -> "PASSWORD_ENTRY"
               [] server = "ACTIVE"   -> "ACTIVE"
               [] OTHER               -> state

InStep ==
  Running /\ connection = "open" /\ server \notin {"failed", "closing"} /\ ~lost =>
    /\ to_server # <<>> => Head(to_server) \in Awaited
    /\ Quiet => state = UsersTurn

(* The program ends once main is closing, whether it is in the middle of a
   login, the server is gone, or both at once; unless the interface could not be
   opened, for whose report main then waits (client.c:86), or the connection, told
   to close right after it was given USER_LEAVE, flushes for ever.  *)
ProgramEnds ==
  main_state = "CLOSING" ~> ~Running \/ ui = "failed" \/ connection = "stuck"
=============================================================================
