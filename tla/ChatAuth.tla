------------------------------ MODULE ChatAuth ------------------------------
(***************************************************************************)
(* server/chat_auth: a thread that checks credentials against the database *)
(* of users.  chat_server, its consumer, submits credentials and gets a    *)
(* transaction; the answer comes by callback, made with the transaction's  *)
(* mutex held; the consumer finishes the transaction, before the answer to *)
(* cancel it or afterwards.  Whichever side is last frees it.              *)
(*                                                                         *)
(* A submit hands over two references, to the credentials and to the       *)
(* client (consumer_arg_ptr).  The consumer is one thread; it finishes a   *)
(* transaction once and submits nothing after chat_auth_close.             *)
(***************************************************************************)
EXTENDS Integers, Sequences

CONSTANTS Transactions,   \* bound: the transactions submitted
          Usernames, Passwords,
          LongNames,      \* the names longer than CHAT_USER_MAX_NAME_SIZE
          NULL,
          CHAT_AUTH_MESSAGE_QUEUE_SIZE

ASSUME QueueAssumption == CHAT_AUTH_MESSAGE_QUEUE_SIZE \in Nat \ {0}
ASSUME NamesAssumption == LongNames \subseteq Usernames

VARIABLES state,            \* CHAT_AUTH_STATE_...
          message_queue,    \* credentials to process, and CLOSE
          thread_pc,        \* the authentication thread's next step
          current,          \* the transaction it works on, or NULL
          result,           \* auth_result
          transaction,      \* the state of each transaction
          mutex,            \* who holds each transaction's mutex
          credentials,      \* what each was submitted with
          credentials_refs, \* the references to them chat_auth owns
          consumer_refs,    \* the references to the client it owns
          users,            \* the database: a password for each user, or NULL
          consumer_pc,      \* the consumer's next step
          finishing,        \* the transaction it is finishing, or NULL
          finished,         \* history: those it has finished
          answer,           \* history: the result each was answered with
          closing,          \* history: chat_auth_close was called
          assertion         \* the assertion that ended the program, or "none"

threadVars      == <<thread_pc, current, result>>
transactionVars == <<transaction, mutex>>
referenceVars   == <<credentials_refs, consumer_refs>>
consumerVars    == <<consumer_pc, finishing, finished>>
vars == <<state, message_queue, threadVars, transactionVars, credentials,
          referenceVars, users, consumerVars, answer, closing, assertion>>

Credentials == [username : {NULL}, password : {NULL}]
                 \union [username : Usernames, password : Passwords \union {NULL}]

Results == {"USERNAME_REQUIRED", "USERNAME_REJECTED", "PASSWORD_CREATION",
            "PASSWORD_REQUIRED", "PASSWORD_REJECTED", "AUTHENTICATED"}

ASSUME NullAssumption ==
         NULL \notin Transactions \union Usernames \union Passwords \union Results

Process(t)   == [type |-> "PROCESS_CREDENTIALS", auth_transaction |-> t]
CloseMessage == [type |-> "CLOSE"]

Put(m) == /\ Len(message_queue) < CHAT_AUTH_MESSAGE_QUEUE_SIZE
          /\ message_queue' = Append(message_queue, m)

-----------------------------------------------------------------------------
(* chat_auth_sql_auth_user: a name that is not in the database becomes a user
   with the first password given for it.  *)
AuthUser(c) ==
  CASE c.username = NULL            -> "USERNAME_REQUIRED"
    [] c.username \in LongNames     -> "USERNAME_REJECTED"
    [] c.username \in Usernames \ LongNames /\ c.password = NULL ->
         IF users[c.username] = NULL THEN "PASSWORD_CREATION"
                                     ELSE "PASSWORD_REQUIRED"
    [] c.username \in Usernames \ LongNames /\ c.password # NULL ->
         IF users[c.username] \in {NULL, c.password} THEN "AUTHENTICATED"
                                                     ELSE "PASSWORD_REJECTED"

(* Mutant: the password given replaces the one in the database. *)
CreateUserAlways(c) ==
  users' = IF c.username \in Usernames \ LongNames /\ c.password # NULL
           THEN [users EXCEPT ![c.username] = c.password] ELSE users

(* chat_auth_sql_create_user *)
CreateUser(c) ==
  users' = IF /\ c.username \in Usernames \ LongNames
              /\ users[c.username] = NULL
           THEN [users EXCEPT ![c.username] = c.password] ELSE users

-----------------------------------------------------------------------------
(* chat_auth_create; the database may hold users already. *)
Init ==
  /\ state = "INIT"
  /\ message_queue = <<>>
  /\ thread_pc = "none" /\ current = NULL /\ result = NULL
  /\ transaction = [t \in Transactions |-> "UNUSED"]
  /\ mutex = [t \in Transactions |-> "free"]
  /\ credentials = [t \in Transactions |-> [username |-> NULL, password |-> NULL]]
  /\ credentials_refs = [t \in Transactions |-> 0]
  /\ consumer_refs = [t \in Transactions |-> 0]
  /\ users \in [Usernames \ LongNames -> Passwords \union {NULL}]
  /\ consumer_pc = "idle" /\ finishing = NULL /\ finished = {}
  /\ answer = [t \in Transactions |-> NULL]
  /\ closing = FALSE
  /\ assertion = "none"

(* chat_auth_open.  A database or a thread that cannot be opened leaves the
   state INIT.  *)
Open ==
  /\ state = "INIT"
  /\ state' = "OPEN"
  /\ thread_pc' = "init"
  /\ UNCHANGED <<message_queue, current, result, transactionVars, credentials,
                 referenceVars, users, consumerVars, answer, closing, assertion>>

-----------------------------------------------------------------------------
(* The consumer. *)

Consuming == consumer_pc = "idle" /\ state # "INIT" /\ assertion = "none"

(* chat_auth_submit_credentials.  If the queue is full the transaction is
   freed and both references are released before the call returns.  *)
SubmitCredentials(t, c) ==
  /\ Consuming /\ ~closing
  /\ transaction[t] = "UNUSED"
  /\ Put(Process(t))
  /\ transaction' = [transaction EXCEPT ![t] = "PROCESSING"]
  /\ credentials' = [credentials EXCEPT ![t] = c]
  /\ credentials_refs' = [credentials_refs EXCEPT ![t] = 1]
  /\ consumer_refs' = [consumer_refs EXCEPT ![t] = 1]
  /\ UNCHANGED <<state, threadVars, mutex, users, consumerVars, answer, closing,
                 assertion>>

(* chat_auth_close *)
Close ==
  /\ Consuming /\ ~closing
  /\ Put(CloseMessage)
  /\ closing' = TRUE
  /\ UNCHANGED <<state, threadVars, transactionVars, credentials, referenceVars,
                 users, consumerVars, answer, assertion>>

(* chat_auth_destroy.  The code looks at the state alone, which is CLOSED
   before the thread has ended; the consumer waits for the CLOSED callback.
   Transactions are memory of their own and can still be finished.  *)
Destroy ==
  /\ consumer_pc = "idle" /\ assertion = "none"
  /\ \/ state = "INIT"
     \/ state = "CLOSED" /\ thread_pc = "done"
  /\ state' = "DESTROYED"
  /\ message_queue' = <<>>
  /\ closing' = TRUE
  /\ UNCHANGED <<threadVars, transactionVars, credentials, referenceVars, users,
                 consumerVars, answer, assertion>>

(* chat_auth_finish_transaction: lock, ... *)
FinishLock(t) ==
  /\ Consuming
  /\ transaction[t] # "UNUSED" /\ t \notin finished
  /\ mutex[t] = "free"
  /\ mutex' = [mutex EXCEPT ![t] = "consumer"]
  /\ consumer_pc' = "finish"
  /\ finishing' = t
  /\ UNCHANGED <<state, message_queue, threadVars, transaction, credentials,
                 referenceVars, users, finished, answer, closing, assertion>>

FinishTo(step) ==
  /\ consumer_pc = "finish"
  /\ consumer_pc' = step
  /\ mutex' = [mutex EXCEPT ![finishing] = "free"]
  /\ finished' = finished \union {finishing}
  /\ UNCHANGED <<state, message_queue, threadVars, credentials, referenceVars,
                 users, finishing, answer, closing, assertion>>

(* Mutant: the consumer frees a transaction that is still being processed. *)
FinishProcessingFrees ==
  /\ consumer_pc = "finish" /\ transaction[finishing] = "PROCESSING"
  /\ FinishTo("idle")
  /\ transaction' = [transaction EXCEPT ![finishing] = "FREED"]

(* ... leave it to the thread, ... *)
FinishProcessing ==
  /\ consumer_pc = "finish" /\ transaction[finishing] = "PROCESSING"
  /\ FinishTo("idle")
  /\ transaction' = [transaction EXCEPT ![finishing] = "CANCELLED"]

(* ... or, if the thread is done with it, free it after the unlock. *)
FinishDone ==
  /\ consumer_pc = "finish" /\ transaction[finishing] = "DONE"
  /\ FinishTo("free")
  /\ UNCHANGED transaction

FinishFree ==
  /\ consumer_pc = "free"
  /\ transaction' = [transaction EXCEPT ![finishing] = "FREED"]
  /\ consumer_pc' = "idle"
  /\ UNCHANGED <<state, message_queue, threadVars, mutex, credentials,
                 referenceVars, users, finishing, finished, answer, closing,
                 assertion>>

-----------------------------------------------------------------------------
(* The authentication thread. *)

Thread(from, to) == /\ assertion = "none"
                    /\ thread_pc = from
                    /\ thread_pc' = to

(* chat_auth_sql_init_database *)
ThreadStart ==
  /\ Thread("init", "get")
  /\ UNCHANGED <<state, message_queue, current, result, transactionVars,
                 credentials, referenceVars, users, consumerVars, answer,
                 closing, assertion>>

(* PROCESS_CREDENTIALS *)
GetCredentials ==
  /\ Thread("get", "lock")
  /\ message_queue # <<>> /\ Head(message_queue).type = "PROCESS_CREDENTIALS"
  /\ message_queue' = Tail(message_queue)
  /\ current' = Head(message_queue).auth_transaction
  /\ UNCHANGED <<state, result, transactionVars, credentials, referenceVars,
                 users, consumerVars, answer, closing, assertion>>

Lock ==
  /\ Thread("lock", "locked")
  /\ mutex[current] = "free"
  /\ mutex' = [mutex EXCEPT ![current] = "thread"]
  /\ UNCHANGED <<state, message_queue, current, result, transaction,
                 credentials, referenceVars, users, consumerVars, answer,
                 closing, assertion>>

(* The consumer has finished already: unlock, and discard. *)
FindCancelled ==
  /\ Thread("locked", "discard")
  /\ transaction[current] = "CANCELLED"
  /\ mutex' = [mutex EXCEPT ![current] = "free"]
  /\ UNCHANGED <<state, message_queue, current, result, transaction,
                 credentials, referenceVars, users, consumerVars, answer,
                 closing, assertion>>

(* Mutants: the client is not released; the transaction is not freed. *)
DiscardKeepsClient ==
  /\ Thread("discard", "get")
  /\ transaction' = [transaction EXCEPT ![current] = "FREED"]
  /\ credentials_refs' = [credentials_refs EXCEPT ![current] = @ - 1]
  /\ current' = NULL
  /\ UNCHANGED <<state, message_queue, result, mutex, credentials,
                 consumer_refs, users, consumerVars, answer, closing, assertion>>
DiscardKeepsTransaction ==
  /\ Thread("discard", "get")
  /\ credentials_refs' = [credentials_refs EXCEPT ![current] = @ - 1]
  /\ consumer_refs' = [consumer_refs EXCEPT ![current] = @ - 1]
  /\ current' = NULL
  /\ UNCHANGED <<state, message_queue, result, transactionVars, credentials,
                 users, consumerVars, answer, closing, assertion>>

Discard ==
  /\ Thread("discard", "get")
  /\ transaction' = [transaction EXCEPT ![current] = "FREED"]
  /\ credentials_refs' = [credentials_refs EXCEPT ![current] = @ - 1]
  /\ consumer_refs' = [consumer_refs EXCEPT ![current] = @ - 1]
  /\ current' = NULL
  /\ UNCHANGED <<state, message_queue, result, mutex, credentials, users,
                 consumerVars, answer, closing, assertion>>

Nameless(t) == credentials[t].username = NULL

(* Mutants: the transaction is not looked at; its credentials are released
   here and after the callback.  *)
AuthenticateCancelled ==
  /\ Thread("locked", "callback")
  /\ transaction[current] \in {"PROCESSING", "CANCELLED"}
  /\ result' = AuthUser(credentials[current])
  /\ CreateUser(credentials[current])
  /\ credentials_refs' = [credentials_refs EXCEPT ![current] = @ - 1]
  /\ transaction' = [transaction EXCEPT ![current] = "DONE"]
  /\ UNCHANGED <<state, message_queue, current, mutex, credentials,
                 consumer_refs, consumerVars, answer, closing, assertion>>
AuthenticateReleasesTwice ==
  /\ Thread("locked", "callback")
  /\ transaction[current] = "PROCESSING"
  /\ result' = AuthUser(credentials[current])
  /\ CreateUser(credentials[current])
  /\ credentials_refs' = [credentials_refs EXCEPT ![current] = @ - 1]
  /\ transaction' = [transaction EXCEPT ![current] = "DONE"]
  /\ UNCHANGED <<state, message_queue, current, mutex, credentials,
                 consumer_refs, consumerVars, answer, closing, assertion>>

(* The database is asked, the credentials are released and the transaction is
   DONE.  All of it, and the callback, with the mutex held.  Credentials without
   a name are not looked up, and released after the callback.  *)
Authenticate ==
  /\ Thread("locked", "callback")
  /\ transaction[current] = "PROCESSING"
  /\ result' = AuthUser(credentials[current])
  /\ CreateUser(credentials[current])
  /\ credentials_refs' = IF Nameless(current) THEN credentials_refs
                         ELSE [credentials_refs EXCEPT ![current] = @ - 1]
  /\ transaction' = [transaction EXCEPT ![current] = "DONE"]
  /\ UNCHANGED <<state, message_queue, current, mutex, credentials,
                 consumer_refs, consumerVars, answer, closing, assertion>>

(* Mutant: who has given no name gets no answer. *)
CallbackNeedsName ==
  /\ Thread("callback", "unlock")
  /\ answer' = IF Nameless(current) THEN answer
               ELSE [answer EXCEPT ![current] = result]
  /\ consumer_refs' = [consumer_refs EXCEPT ![current] = @ - 1]
  /\ result' = NULL
  /\ UNCHANGED <<state, message_queue, current, transactionVars, credentials,
                 credentials_refs, users, consumerVars, closing, assertion>>

(* The callback hands the client on. *)
Callback ==
  /\ Thread("callback", "unlock")
  /\ answer' = [answer EXCEPT ![current] = result]
  /\ consumer_refs' = [consumer_refs EXCEPT ![current] = @ - 1]
  /\ result' = NULL
  /\ UNCHANGED <<state, message_queue, current, transactionVars, credentials,
                 credentials_refs, users, consumerVars, closing, assertion>>

Unlock ==
  /\ Thread("unlock", "release")
  /\ mutex' = [mutex EXCEPT ![current] = "free"]
  /\ UNCHANGED <<state, message_queue, current, result, transaction, credentials,
                 referenceVars, users, consumerVars, answer, closing, assertion>>

Release ==
  /\ Thread("release", "get")
  /\ current' = NULL
  /\ credentials_refs' = IF Nameless(current)
                         THEN [credentials_refs EXCEPT ![current] = @ - 1]
                         ELSE credentials_refs
  /\ UNCHANGED <<state, message_queue, result, transactionVars, credentials,
                 consumer_refs, users, consumerVars, answer, closing, assertion>>

(* CLOSE *)
GetClose ==
  /\ Thread("get", "closed")
  /\ message_queue # <<>> /\ Head(message_queue).type = "CLOSE"
  /\ message_queue' = Tail(message_queue)
  /\ state' = "CLOSED"
  /\ UNCHANGED <<current, result, transactionVars, credentials, referenceVars,
                 users, consumerVars, answer, closing, assertion>>

(* The last act of the thread is the CLOSED callback. *)
ThreadEnd ==
  /\ Thread("closed", "done")
  /\ UNCHANGED <<state, message_queue, current, result, transactionVars,
                 credentials, referenceVars, users, consumerVars, answer,
                 closing, assertion>>

(* The database fails: an assertion does. *)
DatabaseFails ==
  /\ assertion = "none"
  /\ \/ thread_pc = "init" /\ assertion' = "init_database"
     \/ /\ thread_pc = "locked" /\ transaction[current] = "PROCESSING"
        /\ ~Nameless(current)
        /\ assertion' = "auth_result"
  /\ UNCHANGED <<state, message_queue, threadVars, transactionVars, credentials,
                 referenceVars, users, consumerVars, answer, closing>>

-----------------------------------------------------------------------------
ConsumerCall ==
  \/ Close \/ Destroy
  \/ \E t \in Transactions : \/ FinishLock(t)
                             \/ \E c \in Credentials : SubmitCredentials(t, c)

ConsumerStep == FinishProcessing \/ FinishDone \/ FinishFree

ThreadStep == \/ ThreadStart \/ GetCredentials \/ Lock
              \/ FindCancelled \/ Discard
              \/ Authenticate \/ Callback \/ Unlock \/ Release
              \/ GetClose \/ ThreadEnd

Next == Open \/ ConsumerCall \/ ConsumerStep \/ ThreadStep \/ DatabaseFails

Spec == Init /\ [][Next]_vars

(* Both threads run; a call once begun is completed.  That the consumer
   finishes, or closes, is not assumed.  *)
FairSpec == Spec /\ WF_vars(ThreadStep) /\ WF_vars(ConsumerStep)

-----------------------------------------------------------------------------
ThreadSteps == {"none", "init", "get", "lock", "locked", "discard", "callback",
                "unlock", "release", "closed", "done"}
Message     == [type : {"PROCESS_CREDENTIALS"}, auth_transaction : Transactions]
                 \union {CloseMessage}

TypeOK ==
  /\ state \in {"INIT", "OPEN", "CLOSED", "DESTROYED"}
  /\ message_queue \in Seq(Message)
  /\ thread_pc \in ThreadSteps
  /\ current \in Transactions \union {NULL}
  /\ result \in Results \union {NULL}
  /\ transaction \in [Transactions ->
                        {"UNUSED", "PROCESSING", "CANCELLED", "DONE", "FREED"}]
  /\ mutex \in [Transactions -> {"free", "thread", "consumer"}]
  /\ credentials \in [Transactions -> Credentials]
  /\ credentials_refs \in [Transactions -> {0, 1}]
  /\ consumer_refs \in [Transactions -> {0, 1}]
  /\ users \in [Usernames \ LongNames -> Passwords \union {NULL}]
  /\ consumer_pc \in {"idle", "finish", "free"}
  /\ finishing \in Transactions \union {NULL}
  /\ finished \in SUBSET Transactions
  /\ answer \in [Transactions -> Results \union {NULL}]
  /\ closing \in BOOLEAN
  /\ assertion \in {"none", "init_database", "auth_result"}

(* The transactions one of the two sides, or a message, points to and will
   still use. *)
InUse == {t \in Transactions :
            \/ \E i \in 1 .. Len(message_queue) : message_queue[i] = Process(t)
            \/ current = t /\ thread_pc # "release"
            \/ consumer_pc # "idle" /\ finishing = t}

(* Neither side uses a transaction the other has freed, and it is freed once:
   the side that finds the other one done frees it (chat_auth.c:235,
   chat_auth_fsm.c:30). *)
NoUseAfterFree == \A t \in InUse : transaction[t] # "FREED"

(* The two references a submit hands over are given back, once each: when the
   thread has done with a transaction the credentials are released, and the
   client was released or handed on with the answer (chat_auth_fsm.c:35, 38,
   45, 56, 64, 69). *)
ReferencesGivenBack ==
  \A t \in Transactions :
    /\ transaction[t] \in {"PROCESSING", "CANCELLED"} =>
         credentials_refs[t] = 1 /\ consumer_refs[t] = 1
    /\ transaction[t] \in {"DONE", "FREED"} /\ current # t =>
         credentials_refs[t] = 0 /\ consumer_refs[t] = 0

(* Who was let in has the password the database holds for that name, for ever:
   of two clients told to create a password for one name the second must know
   the first one's. *)
AuthenticatedOwnsAccount ==
  \A t \in Transactions :
    answer[t] = "AUTHENTICATED" =>
      users[credentials[t].username] = credentials[t].password

Service == INSTANCE AuthService
             WITH submitted <- {t \in Transactions : transaction[t] # "UNUSED"},
                  freed <- {t \in Transactions : transaction[t] = "FREED"}

(* Queue, mutex and states make the service: one answer for each transaction,
   none after finish_transaction has returned, no memory freed while the
   consumer may still finish. *)
ImplementsService == Service!Spec

(* Each transaction ends: it is answered, or cancelled and freed. *)
EveryTransactionEnds ==
  \A t \in Transactions :
    transaction[t] = "PROCESSING" ~>
      answer[t] # NULL \/ transaction[t] = "FREED" \/ assertion # "none"

(* What the consumer has finished is freed, by one side or the other. *)
FinishedIsFreed ==
  \A t \in Transactions :
    t \in finished ~> transaction[t] = "FREED" \/ assertion # "none"
=============================================================================
