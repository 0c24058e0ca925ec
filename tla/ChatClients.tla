---------------------------- MODULE ChatClients ----------------------------
(***************************************************************************)
(* server/chat_clients with what it works between: chat_server's thread,   *)
(* which passes logins to chat_auth and answers back; chat_auth's thread;  *)
(* and the connections, whose callbacks put into chat_clients' queue.      *)
(*                                                                         *)
(* A client's record is shared by counted references (shared_ptr): two of  *)
(* the list, one of the connection, one in every message and transaction   *)
(* that names the client.  Counting is taken as atomic, although it is     *)
(* not.  chat_auth is used through the states of its transactions, as in   *)
(* ChatAuth; a connection through its calls and callbacks: how it comes to *)
(* close, or to flush for ever (stuck), is in ChatConnection.              *)
(*                                                                         *)
(* A peer that waits sends a name or a password when it has been asked for *)
(* one, and leaves, once, as chat_client does; an Impatient one sends any  *)
(* event at any time.                                                      *)
(***************************************************************************)
EXTENDS Integers, Sequences, FiniteSets, SequencesExt, Functions

CONSTANTS MaxClients,      \* bound: the connections accepted
          MaxTransactions, \* the transactions there is memory for
          MaxUnread,       \* bound: a client's events waiting in the queue
          Impatient,       \* the clients that do not wait to be asked
          Bystanders,      \* the clients there are from the start, who send nothing
          Staying,         \* the clients whose peers do not leave
          MaxUnasked,      \* bound: the events of the Impatient nobody asked for
          CLIENTS_QUEUE_SIZE, SERVER_QUEUE_SIZE, AUTH_QUEUE_SIZE,
          NULL

Clients      == 1 .. MaxClients
Transactions == 1 .. MaxTransactions

ASSUME BoundsAssumption == /\ MaxClients \in Nat
                           /\ MaxTransactions \in Nat
                           /\ MaxUnread \in Nat
                           /\ MaxUnasked \in Nat
ASSUME QueuesAssumption == /\ CLIENTS_QUEUE_SIZE \in Nat \ {0}
                           /\ SERVER_QUEUE_SIZE \in Nat \ {0}
                           /\ AUTH_QUEUE_SIZE \in Nat \ {0}
ASSUME PeersAssumption  == Impatient \union Bystanders \union Staying \subseteq Clients
ASSUME NullAssumption   == NULL \notin Transactions

VARIABLES state,         \* CHAT_CLIENTS_STATE_...
          message_queue, \* the queue of chat_clients
          client,        \* the records: state, auth_transaction, credentials
          list,          \* from client_list_head to client_list_tail
          kept,          \* prev and next of a client taken out of the middle
          use_count,     \* of each record
          connection,    \* of each client
          prompt,        \* what each peer has been asked for
          unasked,       \* the events nobody asked for
          server_state, server_queue, \* chat_server's
          auth_queue,    \* the transactions chat_auth has yet to look at
          transaction,   \* CHAT_AUTH_TRANSACTION_STATE_..., "free" if no memory
          owner,         \* consumer_arg_ptr: the client of each transaction
          announced,     \* history: the clients JOINed and not taken back
          refused,       \* history: a submit was refused
          overlapped,    \* history: the clients that submitted something else
                         \*          while their password was being checked
          again,         \* history: the clients that, logged in, left twice
          assertion      \* the assertion that ended the program, or "none"

authVars   == <<auth_queue, transaction, owner>>
serverVars == <<server_state, server_queue>>
recordVars == <<client, list, kept, use_count>>
peerVars   == <<connection, prompt, unasked>>
history    == <<announced, refused, overlapped, again>>
vars == <<state, message_queue, recordVars, peerVars, serverVars, authVars, history,
          assertion>>

ClientStates == {"UNUSED", "AUTHENTICATING_INIT", "AUTHENTICATING_USERNAME",
                 "AUTHENTICATING_PASSWORD", "AUTHENTICATING_PROCESSING", "ACTIVE",
                 "DISCONNECTING", "DISCONNECTING_FROM_ACTIVE", "DESTROYED"}
Steps    == {"USERNAME", "PASSWORD", "AUTHENTICATED", "CLOSED"}
Events   == {"CHAT_MESSAGE", "USERNAME_SUBMIT", "PASSWORD_SUBMIT", "USER_LEAVE"}

Message(type, c, arg) == [type |-> type, client |-> c, arg |-> arg]
CloseMessage == Message("CLOSE", NULL, NULL)

(* Where in a queue the messages of these types about c are. *)
About(queue, types, c) ==
  {i \in DOMAIN queue : queue[i].type \in types /\ queue[i].client = c}

Running   == assertion = "none"
Listed(c) == c \in ToSet(list)

(* Mutant: the queue is never full. *)
ToClientsUnbounded(m) == message_queue' = Append(message_queue, m) /\ UNCHANGED assertion

(* message_queue_put, its status asserted, into one queue or the other *)
ToClients(m) ==
  IF Len(message_queue) < CLIENTS_QUEUE_SIZE
  THEN message_queue' = Append(message_queue, m) /\ UNCHANGED assertion
  ELSE assertion' = "clients_queue" /\ UNCHANGED message_queue

ToServer(m) ==
  IF Len(server_queue) < SERVER_QUEUE_SIZE
  THEN server_queue' = Append(server_queue, m) /\ UNCHANGED assertion
  ELSE assertion' = "server_queue" /\ UNCHANGED server_queue

(* shared_ptr_share, shared_ptr_release: n more or fewer references *)
Count(c, n) == use_count' = [use_count EXCEPT ![c] = @ + n]

-----------------------------------------------------------------------------
(* chat_clients_create and chat_clients_open; a Bystander has connected and has
   been asked for a name.  *)
InitialClient(c) ==
  [state |-> IF c \in Bystanders THEN "AUTHENTICATING_USERNAME" ELSE "UNUSED",
   auth_transaction |-> NULL,
   credentials |-> IF c \in Bystanders THEN "empty" ELSE "none"]

Init ==
  /\ state = "OPEN"
  /\ message_queue = <<>>
  /\ client = [c \in Clients |-> InitialClient(c)]
  /\ list = SetToSeq(Bystanders)
  /\ kept = [c \in Clients |-> {}]
  /\ use_count = [c \in Clients |-> IF c \in Bystanders THEN 3 ELSE 0]
  /\ connection = [c \in Clients |-> IF c \in Bystanders THEN "open" ELSE "none"]
  /\ prompt = [c \in Clients |-> IF c \in Bystanders THEN "left" ELSE "none"]
  /\ unasked = 0
  /\ server_state = "OPEN" /\ server_queue = <<>>
  /\ auth_queue = <<>>
  /\ transaction = [t \in Transactions |-> "free"]
  /\ owner = [t \in Transactions |-> NULL]
  /\ announced = {}
  /\ refused = FALSE
  /\ overlapped = {} /\ again = {}
  /\ assertion = "none"

-----------------------------------------------------------------------------
(* The connections. *)

(* chat_server accepts a connection: chat_clients_open_client *)
Accept(c) ==
  /\ Running /\ server_state = "OPEN"
  /\ connection[c] = "none" /\ \A d \in Clients : d < c => connection[d] # "none"
  /\ connection' = [connection EXCEPT ![c] = "accepted"]
  /\ ToClients(Message("OPEN_CLIENT", c, NULL))
  /\ UNCHANGED <<state, recordVars, prompt, unasked, serverVars, authVars, history>>

(* What a peer sends when it has been asked, and whenever it likes *)
Asked(c, e) ==
  \/ e = "USERNAME_SUBMIT" /\ prompt[c] = "username" /\ c \notin Bystanders
  \/ e = "PASSWORD_SUBMIT" /\ prompt[c] = "password"
  \/ e = "CHAT_MESSAGE" /\ prompt[c] = "chat"
  \/ e = "USER_LEAVE" /\ prompt[c] # "left"

(* Bound: the peers fall silent once something went wrong or chat_clients is
   closing, when references are no longer given back.  *)
Silenced == refused \/ overlapped # {} \/ state # "OPEN"

Unread(c) == About(message_queue, {"INCOMING_EVENT"}, c)

(* chat_clients_connection_cback with INCOMING_EVENT *)
IncomingEvent(c, e) ==
  /\ Running /\ connection[c] \in {"open", "closing"}
  /\ ~Silenced /\ Cardinality(Unread(c)) < MaxUnread
  /\ \/ Asked(c, e) /\ UNCHANGED unasked
     \/ /\ ~Asked(c, e) /\ c \in Impatient
        /\ unasked < MaxUnasked /\ unasked' = unasked + 1
  /\ Count(c, 1)
  /\ ToClients(Message("INCOMING_EVENT", c, e))
  /\ prompt' = [prompt EXCEPT ![c] = CASE e = "CHAT_MESSAGE" -> @
                                       [] e = "USER_LEAVE" -> "left"
                                       [] OTHER -> "none"]
  /\ UNCHANGED <<state, client, list, kept, connection, serverVars, authVars, history>>

(* A connection that was told to close while it had something to write may
   flush for ever.  *)
ConnectionStuck(c) ==
  /\ Running /\ connection[c] = "closing"
  /\ connection' = [connection EXCEPT ![c] = "stuck"]
  /\ UNCHANGED <<state, message_queue, recordVars, prompt, unasked, serverVars, authVars, history,
                 assertion>>

(* The connection ends, because the peer is gone or because it was told to:
   chat_clients_connection_cback with CLOSED.  The last statement, the release
   of the connection's own reference, races the thread of chat_clients.  *)
ConnectionClosed(c) ==
  /\ Running
  /\ \/ connection[c] = "closing"
     \/ connection[c] = "open" /\ c \notin Staying
  /\ Count(c, 1)
  /\ ToClients(Message("CLIENT_CONNECTION_CLOSED", c, NULL))
  /\ connection' = [connection EXCEPT ![c] = "closed"]
  /\ prompt' = [prompt EXCEPT ![c] = "left"]
  /\ UNCHANGED <<state, client, list, kept, unasked, serverVars, authVars, history>>

ConnectionReleases(c) ==
  /\ Running /\ connection[c] = "closed"
  /\ Count(c, -1)
  /\ connection' = [connection EXCEPT ![c] = "released"]
  /\ UNCHANGED <<state, message_queue, client, list, kept, prompt, unasked, serverVars, authVars,
                 history, assertion>>

-----------------------------------------------------------------------------
(* The thread of chat_clients.  A message is handled if its client's record
   is still there.  *)
Received(type) ==
  /\ Running /\ state \in {"OPEN", "CLOSING"}
  /\ message_queue # <<>> /\ Head(message_queue).type = type
  /\ Head(message_queue).client # NULL =>
       client[Head(message_queue).client].state # "DESTROYED"
  /\ message_queue' = Tail(message_queue)

(* CHAT_CLIENTS_EVENT_START_AUTH_TRANSACTION *)
Start(c)  == ToServer(Message("START", c, NULL))
Finish(t) == ToServer(Message("FINISH", NULL, t))

Starting(c) == About(server_queue, {"START"}, c)

(* CHAT_CLIENTS_MESSAGE_OPEN_CLIENT: the record is created, linked twice, and
   shared with the connection and the START.  *)
OpenClient ==
  LET c == Head(message_queue).client IN
  /\ Received("OPEN_CLIENT") /\ state = "OPEN"
  /\ client' = [client EXCEPT ![c].state = "AUTHENTICATING_INIT",
                              ![c].credentials = "empty"]
  /\ list' = Append(list, c)
  /\ connection' = [connection EXCEPT ![c] = "open"]
  /\ Count(c, 4)
  /\ Start(c)
  /\ UNCHANGED <<state, kept, prompt, unasked, server_state, authVars, history>>

(* A connection that cannot be opened is destroyed twice, one that cannot be
   created is destroyed although there is none.  *)
OpenClientFails ==
  /\ Received("OPEN_CLIENT") /\ state = "OPEN"
  /\ assertion' = "client_create"
  /\ UNCHANGED <<state, recordVars, peerVars, serverVars, authVars, history>>

(* CHAT_CLIENTS_MESSAGE_AUTH_EVENT sets the state whatever it was. *)
StateAfter(step, current) ==
  CASE step = "USERNAME" -> "AUTHENTICATING_USERNAME"
    [] step = "PASSWORD" -> "AUTHENTICATING_PASSWORD"
    [] step = "AUTHENTICATED" -> "ACTIVE"
    [] step = "CLOSED" -> current

AskedFor(step, current) ==
  IF current = "left" \/ step = "CLOSED" THEN current
  ELSE CASE step = "USERNAME" -> "username"
         [] step = "PASSWORD" -> "password"
         [] step = "AUTHENTICATED" -> "chat"

AuthEvent ==
  LET c == Head(message_queue).client  step == Head(message_queue).arg IN
  /\ Received("AUTH_EVENT") /\ state = "OPEN"
  /\ client' = [client EXCEPT ![c].state = StateAfter(step, @),
                              ![c].auth_transaction = NULL,
                              ![c].credentials = IF step = "AUTHENTICATED" THEN "none" ELSE @]
  /\ prompt' = [prompt EXCEPT ![c] = AskedFor(step, @)]
  /\ announced' = announced \union (IF step = "AUTHENTICATED" THEN {c} ELSE {})
  /\ Finish(client[c].auth_transaction)
  /\ Count(c, -1)
  /\ UNCHANGED <<state, list, kept, connection, unasked, server_state, authVars, refused, overlapped,
                 again>>

(* handler_username_submit and handler_password_submit, when they start a
   transaction.  Only the former says in the state that one is under way.  *)
Accepting(e) ==
  IF e = "USERNAME_SUBMIT" THEN {"AUTHENTICATING_USERNAME", "AUTHENTICATING_PASSWORD"}
                           ELSE {"AUTHENTICATING_PASSWORD"}

(* Mutant: neither handler says so in the state. *)
StateSubmittedUnguarded(e, current) == current

StateSubmitted(e, current) ==
  IF e = "USERNAME_SUBMIT" THEN "AUTHENTICATING_PROCESSING" ELSE current

CredentialsSubmitted(e) == IF e = "USERNAME_SUBMIT" THEN "username" ELSE "password"

Submit(e) ==
  LET c == Head(message_queue).client IN
  /\ Received("INCOMING_EVENT") /\ state = "OPEN" /\ Head(message_queue).arg = e
  /\ client[c].credentials # "none" /\ client[c].state \in Accepting(e)
  /\ client' = [client EXCEPT ![c].state = StateSubmitted(e, @),
                              ![c].credentials = CredentialsSubmitted(e)]
  /\ overlapped' = overlapped \union
       (IF /\ client[c].state = "AUTHENTICATING_PASSWORD"
           /\ client[c].auth_transaction # NULL \/ Starting(c) # {} THEN {c} ELSE {})
  /\ Start(c)   \* shares the record, and the handler releases the message's reference
  /\ UNCHANGED <<state, list, kept, use_count, peerVars, server_state, authVars, announced,
                 refused, again>>

(* The handlers look at the credentials before they look at the state. *)
SubmitWithoutCredentials ==
  LET c == Head(message_queue).client IN
  /\ Received("INCOMING_EVENT") /\ state = "OPEN"
  /\ Head(message_queue).arg \in {"USERNAME_SUBMIT", "PASSWORD_SUBMIT"}
  /\ client[c].credentials = "none"
  /\ assertion' = "credentials"
  /\ UNCHANGED <<state, recordVars, peerVars, serverVars, authVars, history>>

(* Events that only put events into connections: a message to the others, or
   "Cannot process ... submission now".  *)
OtherEvent ==
  LET c == Head(message_queue).client  e == Head(message_queue).arg IN
  /\ Received("INCOMING_EVENT") /\ state = "OPEN"
  /\ \/ e = "CHAT_MESSAGE"
     \/ /\ e \in {"USERNAME_SUBMIT", "PASSWORD_SUBMIT"}
        /\ client[c].credentials # "none" /\ client[c].state \notin Accepting(e)
  /\ Count(c, -1)
  /\ UNCHANGED <<state, client, list, kept, peerVars, serverVars, authVars, history, assertion>>

(* handler_user_leave *)
UserLeave ==
  LET c == Head(message_queue).client IN
  /\ Received("INCOMING_EVENT") /\ state = "OPEN" /\ Head(message_queue).arg = "USER_LEAVE"
  /\ client' = [client EXCEPT ![c].state = IF @ = "ACTIVE" THEN "DISCONNECTING_FROM_ACTIVE"
                                                          ELSE "DISCONNECTING"]
  /\ again' = again \union (IF client[c].state = "DISCONNECTING_FROM_ACTIVE" THEN {c} ELSE {})
  /\ connection' = [connection EXCEPT ![c] = IF @ = "open" THEN "closing" ELSE @]
  /\ Count(c, -1)
  /\ UNCHANGED <<state, list, kept, prompt, unasked, serverVars, authVars, announced, refused,
                 overlapped, assertion>>

(* Mutant: a client that said it would leave is not taken back. *)
OutroducedWhenActive(c) == client[c].state = "ACTIVE"

(* chat_clients_outroduce_user *)
Outroduced(c) == client[c].state \in {"ACTIVE", "DISCONNECTING_FROM_ACTIVE"}

(* chat_clients_client_close: both references of the list go, and the one of
   the message.  The neighbours are linked to each other; a client from the
   middle keeps its own prev and next.  *)
Place(c) == CHOOSE i \in DOMAIN list : list[i] = c

Neighbours(c) ==
  IF Place(c) \in 2 .. Len(list) - 1 THEN {list[Place(c) - 1], list[Place(c) + 1]} ELSE {}

(* Mutant: prev and next are linked to each other but not shared. *)
ClientCloseUnshared(c) ==
  /\ list' = RemoveAt(list, Place(c))
  /\ kept' = [kept EXCEPT ![c] = Neighbours(c)]
  /\ use_count' = [use_count EXCEPT ![c] = @ - 3]

ClientClose(c) ==
  /\ list' = RemoveAt(list, Place(c))
  /\ kept' = [kept EXCEPT ![c] = Neighbours(c)]
  /\ use_count' = [d \in Clients |-> use_count[d] - (IF d = c THEN 3 ELSE 0)
                                     + (IF d \in Neighbours(c) THEN 1 ELSE 0)]

(* CHAT_CLIENTS_MESSAGE_CLIENT_CONNECTION_CLOSED *)
ClientConnectionClosed ==
  LET c == Head(message_queue).client IN
  /\ Received("CLIENT_CONNECTION_CLOSED")
  /\ ClientClose(c)
  /\ announced' = IF state = "OPEN" /\ Outroduced(c) THEN announced \ {c} ELSE announced
  /\ state' = IF state = "CLOSING" /\ list' = <<>> THEN "CLOSED" ELSE state
  /\ UNCHANGED <<client, peerVars, serverVars, authVars, refused, overlapped, again, assertion>>

(* introduce_user and outroduce_user return nothing where their callers assert
   STATUS_SUCCESS: whatever the register holds.  *)
NoStatus ==
  /\ state = "OPEN"
  /\ \/ Received("AUTH_EVENT") /\ Head(message_queue).arg = "AUTHENTICATED"
     \/ Received("CLIENT_CONNECTION_CLOSED") /\ Outroduced(Head(message_queue).client)
  /\ assertion' = "user_info"
  /\ UNCHANGED <<state, recordVars, peerVars, serverVars, authVars, history>>

(* Mutant: the loop over the list ends with its first client. *)
CloseFirst ==
  /\ Received("CLOSE") /\ state = "OPEN"
  /\ state' = IF list = <<>> THEN "CLOSED" ELSE "CLOSING"
  /\ connection' = [c \in Clients |-> IF list # <<>> /\ c = Head(list) /\ connection[c] = "open"
                                      THEN "closing" ELSE connection[c]]
  /\ UNCHANGED <<recordVars, prompt, unasked, serverVars, authVars, history, assertion>>

(* CHAT_CLIENTS_MESSAGE_CLOSE *)
Close ==
  /\ Received("CLOSE") /\ state = "OPEN"
  /\ state' = IF list = <<>> THEN "CLOSED" ELSE "CLOSING"
  /\ connection' = [c \in Clients |-> IF Listed(c) /\ connection[c] = "open"
                                      THEN "closing" ELSE connection[c]]
  /\ UNCHANGED <<recordVars, prompt, unasked, serverVars, authVars, history, assertion>>

(* closing_processing: the event keeps its reference.  chat_server's thread puts
   nothing behind its CLOSE.  *)
Ignore ==
  /\ Received("INCOMING_EVENT") /\ state = "CLOSING"
  /\ UNCHANGED <<state, recordVars, peerVars, serverVars, authVars, history, assertion>>

(* chat_clients_client_destroy, by the thread whose release was the last *)
Destroy(c) ==
  /\ Running /\ use_count[c] = 0 /\ client[c].state \notin {"UNUSED", "DESTROYED"}
  /\ client' = [client EXCEPT ![c] = [state |-> "DESTROYED", auth_transaction |-> NULL,
                                     credentials |-> "none"]]
  /\ kept' = [kept EXCEPT ![c] = {}]
  /\ use_count' = [d \in Clients |-> use_count[d] - (IF d \in kept[c] THEN 1 ELSE 0)]
  /\ assertion' = IF \/ client[c].state = "AUTHENTICATING_PROCESSING"
                     \/ connection[c] \notin {"closed", "released"}
                  THEN "client_destroy" ELSE assertion
  /\ UNCHANGED <<state, message_queue, list, peerVars, serverVars, authVars, history>>

-----------------------------------------------------------------------------
(* chat_server's thread, between chat_clients and chat_auth. *)
ServerReceived(type) ==
  /\ Running
  /\ server_queue # <<>> /\ Head(server_queue).type = type
  /\ Head(server_queue).client # NULL =>
       client[Head(server_queue).client].state # "DESTROYED"
  /\ server_queue' = Tail(server_queue)

FreeTransactions == {t \in Transactions : transaction[t] = "free"}

(* START_AUTH_TRANSACTION: chat_auth_submit_credentials takes the reference
   shared for it; the message's is released.  *)
ServerStart ==
  LET c == Head(server_queue).client
      t == CHOOSE u \in FreeTransactions : \A v \in FreeTransactions : u <= v IN
  /\ ServerReceived("START") /\ server_state = "OPEN"
  /\ Len(auth_queue) < AUTH_QUEUE_SIZE /\ FreeTransactions # {}
  /\ auth_queue' = Append(auth_queue, t)
  /\ transaction' = [transaction EXCEPT ![t] = "PROCESSING"]
  /\ owner' = [owner EXCEPT ![t] = c]
  /\ client' = [client EXCEPT ![c].auth_transaction = t]
  /\ UNCHANGED <<state, message_queue, list, kept, use_count, peerVars, server_state, history,
                 assertion>>

(* The submit is refused: an AUTH_EVENT takes the message's client_ptr along,
   and the reference to it is released all the same.  *)
ServerStartRefused ==
  LET c == Head(server_queue).client IN
  /\ ServerReceived("START") /\ server_state = "OPEN"
  /\ Len(auth_queue) = AUTH_QUEUE_SIZE \/ FreeTransactions = {}
  /\ ToClients(Message("AUTH_EVENT", c, "CLOSED"))
  /\ Count(c, -1)
  /\ refused' = TRUE
  /\ UNCHANGED <<state, client, list, kept, peerVars, server_state, authVars, announced,
                 overlapped, again>>

(* chat_auth_finish_transaction *)
Finished(t) == IF transaction[t] = "PROCESSING" THEN "CANCELLED"
               ELSE IF transaction[t] = "DONE" THEN "free" ELSE transaction[t]

(* FINISH_AUTH_TRANSACTION *)
ServerFinish ==
  LET t == Head(server_queue).arg IN
  /\ ServerReceived("FINISH") /\ server_state = "OPEN"
  /\ transaction' = IF t = NULL THEN transaction ELSE [transaction EXCEPT ![t] = Finished(t)]
  /\ owner' = [u \in Transactions |-> IF transaction'[u] = "free" THEN NULL ELSE owner[u]]
  /\ assertion' = IF t = NULL THEN "finish_transaction" ELSE assertion
  /\ UNCHANGED <<state, message_queue, recordVars, peerVars, server_state, auth_queue, history>>

(* AUTH_RESULT: the reference goes from one message to the other. *)
ServerResult ==
  LET m == Head(server_queue) IN
  /\ ServerReceived("AUTH_RESULT") /\ server_state = "OPEN"
  /\ ToClients(Message("AUTH_EVENT", m.client, m.arg))
  /\ UNCHANGED <<state, recordVars, peerVars, server_state, authVars, history>>

(* CLOSE *)
ServerClose ==
  /\ Running /\ server_state = "OPEN"
  /\ server_state' = "CLOSING"
  /\ ToClients(CloseMessage)
  /\ UNCHANGED <<state, recordVars, peerVars, server_queue, authVars, history>>

(* closing_processing has no case for any of these. *)
ServerIgnore ==
  /\ server_state = "CLOSING"
  /\ \E type \in {"START", "FINISH", "AUTH_RESULT"} : ServerReceived(type)
  /\ UNCHANGED <<state, message_queue, recordVars, peerVars, server_state, authVars, history,
                 assertion>>

-----------------------------------------------------------------------------
(* chat_auth's thread. *)

(* What the credentials can be answered with.  The transaction holds them too:
   those that the client gave back when it was logged in are still looked at,
   for what an overlapped password or name left of them.  *)
Answers(credentials) ==
  CASE credentials = "empty" -> {"USERNAME"}
    [] credentials = "username" -> {"USERNAME", "PASSWORD"}
    [] credentials = "password" -> {"PASSWORD", "AUTHENTICATED"}
    [] credentials = "none" -> {"USERNAME", "PASSWORD", "AUTHENTICATED"}

AuthAnswers ==
  LET t == Head(auth_queue)  c == owner[t] IN
  /\ Running /\ auth_queue # <<>> /\ transaction[t] = "PROCESSING"
  /\ client[c].state # "DESTROYED"
  /\ auth_queue' = Tail(auth_queue)
  /\ transaction' = [transaction EXCEPT ![t] = "DONE"]
  /\ \E step \in Answers(client[c].credentials) : ToServer(Message("AUTH_RESULT", c, step))
  /\ UNCHANGED <<state, message_queue, recordVars, peerVars, server_state, owner, history>>

(* The table of users cannot be read, and the result is asserted. *)
DatabaseFails ==
  /\ Running /\ auth_queue # <<>> /\ transaction[Head(auth_queue)] = "PROCESSING"
  /\ client[owner[Head(auth_queue)]].credentials # "empty"
  /\ assertion' = "database"
  /\ UNCHANGED <<state, message_queue, recordVars, peerVars, serverVars, authVars, history>>

AuthDiscards ==
  LET t == Head(auth_queue) IN
  /\ Running /\ auth_queue # <<>> /\ transaction[t] = "CANCELLED"
  /\ auth_queue' = Tail(auth_queue)
  /\ transaction' = [transaction EXCEPT ![t] = "free"]
  /\ owner' = [owner EXCEPT ![t] = NULL]
  /\ Count(owner[t], -1)
  /\ UNCHANGED <<state, message_queue, client, list, kept, peerVars, serverVars, history,
                 assertion>>

(* A thread comes to a message or a transaction that names a record that is gone. *)
Named == {queue[1].client : queue \in {message_queue, server_queue} \ {<<>>}}
         \union (IF auth_queue = <<>> THEN {} ELSE {owner[Head(auth_queue)]})

UseAfterFree ==
  /\ Running
  /\ \E c \in Named \ {NULL} : client[c].state = "DESTROYED"
  /\ assertion' = "use_after_free"
  /\ UNCHANGED <<state, message_queue, recordVars, peerVars, serverVars, authVars, history>>

-----------------------------------------------------------------------------
ClientsThread ==
  \/ OpenClient \/ OpenClientFails \/ AuthEvent
  \/ \E e \in {"USERNAME_SUBMIT", "PASSWORD_SUBMIT"} : Submit(e)
  \/ SubmitWithoutCredentials \/ OtherEvent \/ UserLeave
  \/ ClientConnectionClosed \/ NoStatus \/ Close \/ Ignore

ServerThread ==
  \/ ServerStart \/ ServerStartRefused \/ ServerFinish \/ ServerResult \/ ServerIgnore

AuthThread == AuthAnswers \/ DatabaseFails \/ AuthDiscards

Next == \/ ClientsThread \/ ServerThread \/ ServerClose \/ AuthThread \/ UseAfterFree
        \/ \E c \in Clients :
             \/ Accept(c) \/ ConnectionClosed(c) \/ ConnectionStuck(c)
             \/ ConnectionReleases(c) \/ Destroy(c)
             \/ \E e \in Events : IncomingEvent(c, e)

Spec == Init /\ [][Next]_vars

(* Threads run; a connection that is told to close reports that it is closed,
   which happens once per client, so that none is passed over, unless it
   flushes for ever: CLOSE queues SERVER_SHUTDOWN right before the close
   (chat_clients_fsm.c:206-214), and ChatConnection!FlushingEnds is violated.  *)
Fairness ==
  /\ WF_vars(ClientsThread \/ UseAfterFree)
  /\ WF_vars(ServerThread \/ UseAfterFree)
  /\ WF_vars(AuthThread \/ UseAfterFree)
  /\ WF_vars(\E c \in Clients : ConnectionClosed(c) /\ connection[c] = "closing")

FairSpec == Spec /\ Fairness

-----------------------------------------------------------------------------
(* Types, and the bounds of the queues. *)
ClientsMessages ==
       [type : {"OPEN_CLIENT", "CLIENT_CONNECTION_CLOSED"}, client : Clients, arg : {NULL}]
  \union [type : {"INCOMING_EVENT"}, client : Clients, arg : Events]
  \union [type : {"AUTH_EVENT"}, client : Clients, arg : Steps]
  \union {CloseMessage}
ServerMessages ==
       [type : {"START"}, client : Clients, arg : {NULL}]
  \union [type : {"AUTH_RESULT"}, client : Clients, arg : Steps]
  \union [type : {"FINISH"}, client : {NULL}, arg : Transactions \union {NULL}]

Records == [state : ClientStates,
            auth_transaction : Transactions \union {NULL},
            credentials : {"none", "empty", "username", "password"}]

TypeOK ==
  /\ state \in {"OPEN", "CLOSING", "CLOSED"}
  /\ message_queue \in Seq(ClientsMessages) /\ Len(message_queue) <= CLIENTS_QUEUE_SIZE
  /\ client \in [Clients -> Records]
  /\ list \in Seq(Clients) /\ IsInjective(list)
  /\ kept \in [Clients -> SUBSET Clients]
  /\ use_count \in [Clients -> Int]
  /\ connection \in [Clients -> {"none", "accepted", "open", "closing", "stuck", "closed",
                                  "released"}]
  /\ prompt \in [Clients -> {"none", "username", "password", "chat", "left"}]
  /\ server_state \in {"OPEN", "CLOSING"}
  /\ server_queue \in Seq(ServerMessages) /\ Len(server_queue) <= SERVER_QUEUE_SIZE
  /\ auth_queue \in Seq(Transactions) /\ Len(auth_queue) <= AUTH_QUEUE_SIZE
  /\ transaction \in [Transactions -> {"free", "PROCESSING", "CANCELLED", "DONE"}]
  /\ owner \in [Transactions -> Clients \union {NULL}]

(* The references there are to a client: those of the list, of clients that
   were its neighbours, of its connection, of messages and of transactions.  *)
InList(c)       == IF Listed(c) THEN 2 ELSE 0
InConnection(c) == IF connection[c] \in {"open", "closing", "stuck", "closed"} THEN 1 ELSE 0
Keepers(c)      == {d \in Clients : c \in kept[d]}
ToldClients(c)  == About(message_queue,
                         {"INCOMING_EVENT", "CLIENT_CONNECTION_CLOSED", "AUTH_EVENT"}, c)
ToldServer(c)   == About(server_queue, {"START", "AUTH_RESULT"}, c)
Submitted(c)    == {t \in Transactions :
                      owner[t] = c /\ transaction[t] \in {"PROCESSING", "CANCELLED"}}

References(c) ==
  InList(c) + InConnection(c) + Cardinality(Keepers(c)) + Cardinality(ToldClients(c))
  + Cardinality(ToldServer(c)) + Cardinality(Submitted(c))

(* A record is freed after its last use and not before: threads of four
   components share and release, and the count of each record is never below
   the references there are.  While the server is open it is that number, so
   that no record leaks.  Not so after a refused submit
   (chat_server_fsm.c:55-64), which releases one reference too many.  *)
CountsReferences ==
  Running /\ ~refused =>
    \A c \in Clients :
      /\ client[c].state = "DESTROYED" => References(c) = 0
      /\ use_count[c] >= References(c)
      /\ server_state = "OPEN" => use_count[c] = References(c)

(* A client has at most one login under way, whatever its peer sends, be it
   asked for, or looked at, or answered: what the transaction is about and where
   it is kept (auth_transaction) is not exchanged meanwhile.  The exception is
   what follows a password, which handler_password_submit does not record in
   the state.  *)
Answered(c) == About(message_queue, {"AUTH_EVENT"}, c)

LoginsOf(c) ==
  Cardinality(ToldServer(c)) + Cardinality(Submitted(c)) + Cardinality(Answered(c))

OneLogin == Running /\ ~refused => \A c \in Clients \ overlapped : LoginsOf(c) <= 1

(* Whoever was announced to the others is taken back when its record leaves the
   list, whatever answers and messages crossed: also if it said it would leave,
   or was logged in after it had said so.  Not so after a refused submit: what
   then comes clears auth_transaction while another login may be under way.  Nor
   for who left twice: handler_user_leave takes the second USER_LEAVE, handled
   before the connection has closed, from DISCONNECTING_FROM_ACTIVE to
   DISCONNECTING, for which outroduce_user announces nothing.  *)
LeavesAnnounced ==
  [][~refused =>
       \A c \in Clients \ (overlapped \union again) :
         Listed(c) /\ ~Listed(c)' /\ state = "OPEN" => c \notin announced']_vars

(* Once told to close, chat_clients closes, with all its connections, unless one
   of them flushes for ever.  *)
ClosingEnds ==
  server_state = "CLOSING" ~>
    state = "CLOSED" \/ ~Running \/ \E c \in Clients : connection[c] = "stuck"

(* chat_server asserts that each transaction it is told to finish is one. *)
FinishSucceeds == assertion # "finish_transaction"
=============================================================================
