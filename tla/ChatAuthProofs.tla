--------------------------- MODULE ChatAuthProofs ---------------------------
(***************************************************************************)
(* Proofs about the authentication service, for any transactions, names,   *)
(* passwords and any size of the queue: no transaction is used after it is *)
(* freed, the references are given back, who was let in has the password   *)
(* of the account, and the module implements AuthService.                  *)
(***************************************************************************)
EXTENDS ChatAuth, SequenceTheorems, TLAPS

-----------------------------------------------------------------------------
(* The inductive invariant. *)

(* The thread's steps with a transaction, and those it does with the
   transaction's mutex. *)
Working == {"lock", "locked", "discard", "callback", "unlock", "release"}
Holding == {"locked", "callback", "unlock"}

(* The states in which a transaction has still to be looked at. *)
Pending == {"PROCESSING", "CANCELLED"}

(* A transaction is in the queue at most once, and only until the thread takes
   it. *)
QueueInv ==
  \A t \in Transactions : \A i \in 1 .. Len(message_queue) :
    message_queue[i] = Process(t) =>
      /\ transaction[t] \in Pending /\ current # t
      /\ \A j \in 1 .. Len(message_queue) : message_queue[j] = Process(t) => j = i

(* The thread runs after chat_auth_open alone.  What it may find of the
   transaction it works on. *)
ThreadInv ==
  /\ state = "INIT" => thread_pc = "none"
  /\ current # NULL <=> thread_pc \in Working
  /\ thread_pc \in {"lock", "locked"} => transaction[current] \in Pending
  /\ thread_pc = "discard" => transaction[current] = "CANCELLED"
  /\ thread_pc \in {"callback", "unlock"} => transaction[current] = "DONE"
  /\ thread_pc = "release" => transaction[current] \in {"DONE", "FREED"}
  /\ thread_pc = "callback" => result \in Results /\ answer[current] = NULL

(* A mutex is held by the side whose step says so. *)
MutexInv ==
  \A t \in Transactions :
    /\ mutex[t] = "thread" <=> current = t /\ thread_pc \in Holding
    /\ mutex[t] = "consumer" <=> consumer_pc = "finish" /\ finishing = t

(* The state of a transaction says whether the consumer has finished it. *)
FinishInv ==
  /\ consumer_pc = "finish" =>
       finishing \in Transactions /\ transaction[finishing] \in {"PROCESSING", "DONE"}
  /\ consumer_pc = "free" =>
       /\ finishing \in Transactions /\ transaction[finishing] = "DONE"
       /\ current = finishing => thread_pc = "release"
  /\ \A t \in Transactions :
       t \in finished <=> \/ transaction[t] \in {"CANCELLED", "FREED"}
                          \/ consumer_pc = "free" /\ finishing = t

(* Only a transaction that is DONE has been answered. *)
AnswerInv ==
  \A t \in Transactions : answer[t] # NULL => transaction[t] \in {"DONE", "FREED"}

(* The references chat_auth owns. *)
ReferenceInv ==
  \A t \in Transactions :
    /\ credentials_refs[t] = IF \/ transaction[t] \in Pending
                                \/ current = t /\ Nameless(t)
                             THEN 1 ELSE 0
    /\ consumer_refs[t] = IF \/ transaction[t] \in Pending
                             \/ current = t /\ thread_pc = "callback"
                          THEN 1 ELSE 0

(* t has been let in, or is about to be. *)
LetIn(t) == \/ answer[t] = "AUTHENTICATED"
            \/ current = t /\ thread_pc = "callback" /\ result = "AUTHENTICATED"

AccountInv ==
  \A t \in Transactions :
    LetIn(t) => /\ credentials[t].username \in Usernames \ LongNames
                /\ credentials[t].password # NULL
                /\ users[credentials[t].username] = credentials[t].password

IInv == /\ TypeOK /\ QueueInv /\ ThreadInv /\ MutexInv /\ FinishInv
        /\ AnswerInv /\ ReferenceInv /\ AccountInv

-----------------------------------------------------------------------------
(* The messages are told apart, and so are those of two transactions. *)
LEMMA Messages ==
  /\ CloseMessage \in Message /\ CloseMessage.type = "CLOSE"
  /\ \A t \in Transactions :
       /\ Process(t) \in Message /\ Process(t) # CloseMessage
       /\ \A u \in Transactions : Process(u) = Process(t) => u = t
  /\ \A m \in Message : m.type = "PROCESS_CREDENTIALS" =>
       m.auth_transaction \in Transactions /\ m = Process(m.auth_transaction)
  <1>1. CloseMessage \in Message /\ CloseMessage.type = "CLOSE"
    BY DEF Message, CloseMessage
  <1>2. ASSUME NEW t \in Transactions
        PROVE  /\ Process(t) \in Message /\ Process(t) # CloseMessage
               /\ \A u \in Transactions : Process(u) = Process(t) => u = t
    <2>1. Process(t).type = "PROCESS_CREDENTIALS" /\ Process(t).auth_transaction = t
      BY DEF Process
    <2>2. \A u \in Transactions : Process(u).auth_transaction = u
      BY DEF Process
    <2>3. Process(t) \in Message
      BY DEF Process, Message
    <2>4. QED BY <1>1, <2>1, <2>2, <2>3
  <1>3. ASSUME NEW m \in Message, m.type = "PROCESS_CREDENTIALS"
        PROVE  m.auth_transaction \in Transactions /\ m = Process(m.auth_transaction)
    <2>1. m \in [type : {"PROCESS_CREDENTIALS"}, auth_transaction : Transactions]
      BY <1>1, <1>3 DEF Message
    <2>2. DOMAIN m = DOMAIN Process(m.auth_transaction)
      BY <2>1 DEF Process
    <2>3. QED BY <2>1, <2>2 DEF Process
  <1>4. QED BY <1>1, <1>2, <1>3

(* The database answers every credentials with a result, and lets in only who
   gives a name of its own and a password, the one it holds or the first. *)
LEMMA AuthUserFacts ==
  ASSUME NEW c \in Credentials
  PROVE  /\ AuthUser(c) \in Results
         /\ AuthUser(c) = "AUTHENTICATED" =>
              /\ c.username \in Usernames \ LongNames /\ c.password # NULL
              /\ users[c.username] \in {NULL, c.password}
  BY NullAssumption, NamesAssumption DEF AuthUser, Credentials, Results

(* A user, once created, keeps its password; who is let in has it. *)
LEMMA CreateUserFacts ==
  ASSUME TypeOK, NEW c \in Credentials, CreateUser(c)
  PROVE  /\ users' \in [Usernames \ LongNames -> Passwords \union {NULL}]
         /\ \A u \in Usernames \ LongNames : users[u] # NULL => users'[u] = users[u]
         /\ AuthUser(c) = "AUTHENTICATED" => users'[c.username] = c.password
  <1>1. c.password \in Passwords \union {NULL}
    BY DEF Credentials
  <1>2. users \in [Usernames \ LongNames -> Passwords \union {NULL}]
    BY DEF TypeOK
  <1>3. QED BY <1>1, <1>2, AuthUserFacts DEF CreateUser

(* A message put does not move the others; one taken moves them up by one. *)
LEMMA PutFacts ==
  ASSUME TypeOK, NEW m \in Message, Put(m)
  PROVE  /\ message_queue' \in Seq(Message)
         /\ Len(message_queue') = Len(message_queue) + 1
         /\ \A i \in 1 .. Len(message_queue') :
              \/ i \in 1 .. Len(message_queue) /\ message_queue'[i] = message_queue[i]
              \/ i = Len(message_queue) + 1 /\ message_queue'[i] = m
  BY AppendProperties DEF TypeOK, Put

LEMMA TailFacts ==
  ASSUME TypeOK, message_queue # <<>>, message_queue' = Tail(message_queue)
  PROVE  /\ message_queue' \in Seq(Message)
         /\ Len(message_queue') = Len(message_queue) - 1
         /\ \A i \in 1 .. Len(message_queue') : message_queue'[i] = message_queue[i + 1]
         /\ Len(message_queue) \in Nat \ {0}
         /\ Head(message_queue) = message_queue[1] /\ message_queue[1] \in Message
  BY HeadTailProperties DEF TypeOK

(* An empty service satisfies the invariant. *)
LEMMA InitIInv == Init => IInv
  <1> SUFFICES ASSUME Init PROVE IInv
    OBVIOUS
  <1>1. TypeOK
    <2>1. [username |-> NULL, password |-> NULL] \in Credentials
      BY DEF Credentials
    <2>2. /\ credentials \in [Transactions -> Credentials]
          /\ message_queue \in Seq(Message)
      BY <2>1 DEF Init
    <2>3. QED BY <2>2 DEF Init, TypeOK, ThreadSteps
  <1>2. QueueInv /\ ThreadInv /\ MutexInv /\ FinishInv /\ AnswerInv
    BY NullAssumption DEF Init, QueueInv, ThreadInv, MutexInv, FinishInv, AnswerInv,
                          Working, Holding
  <1>3. ReferenceInv /\ AccountInv
    BY NullAssumption DEF Init, ReferenceInv, AccountInv, LetIn, Pending, Results
  <1>4. QED BY <1>1, <1>2, <1>3 DEF IInv

(* Every call of the consumer and every step of the thread preserves it. *)
LEMMA NextIInv == IInv /\ [Next]_vars => IInv'
  <1> SUFFICES ASSUME IInv, [Next]_vars PROVE IInv'
    OBVIOUS
  <1> USE DEF IInv, threadVars, transactionVars, referenceVars, consumerVars,
              Working, Holding, Pending, ThreadSteps, Thread, Nameless, LetIn
  <1> USE NullAssumption
  <1>1. ASSUME Open PROVE IInv'
    BY <1>1 DEF Open, TypeOK, QueueInv, ThreadInv, MutexInv, FinishInv,
                AnswerInv, ReferenceInv, AccountInv
  <1>2. ASSUME NEW t \in Transactions, NEW c \in Credentials,
               SubmitCredentials(t, c)
        PROVE  IInv'
    <2>1. TypeOK'
      BY <1>2, Messages, PutFacts DEF SubmitCredentials, Consuming, TypeOK
    <2>2. QueueInv'
      <3>1. current # t
        BY <1>2 DEF SubmitCredentials, ThreadInv
      <3>2. \A i \in 1 .. Len(message_queue) : message_queue[i] # Process(t)
        BY <1>2 DEF SubmitCredentials, QueueInv
      <3>3. ASSUME NEW u \in Transactions, u # t PROVE Process(u) # Process(t)
        BY <3>3, Messages
      <3>4. \A i \in 1 .. Len(message_queue') :
              IF i = Len(message_queue) + 1 THEN message_queue'[i] = Process(t)
              ELSE i \in 1 .. Len(message_queue) /\ message_queue'[i] = message_queue[i]
        BY <1>2, Messages, PutFacts DEF SubmitCredentials
      <3>5. ASSUME NEW u \in Transactions, NEW i \in 1 .. Len(message_queue'),
                   message_queue'[i] = Process(u)
            PROVE  /\ transaction'[u] \in Pending /\ current' # u
                   /\ \A j \in 1 .. Len(message_queue') :
                        message_queue'[j] = Process(u) => j = i
        <4>1. CASE u = t
          <5>1. \A j \in 1 .. Len(message_queue') :
                  message_queue'[j] = Process(t) => j = Len(message_queue) + 1
            BY <3>2, <3>4
          <5>2. transaction'[t] \in Pending /\ current' # t
            BY <1>2, <3>1 DEF SubmitCredentials, TypeOK
          <5>3. QED BY <3>5, <4>1, <5>1, <5>2
        <4>2. CASE u # t
          <5>1. \A j \in 1 .. Len(message_queue') : message_queue'[j] = Process(u) =>
                  j \in 1 .. Len(message_queue) /\ message_queue[j] = Process(u)
            BY <3>3, <3>4, <4>2
          <5>2. transaction'[u] = transaction[u] /\ current' = current
            BY <1>2, <4>2 DEF SubmitCredentials, TypeOK
          <5>3. QED BY <3>5, <5>1, <5>2 DEF QueueInv
        <4>3. QED BY <4>1, <4>2
      <3>6. QED BY <3>5 DEF QueueInv
    <2>3. FinishInv'
      BY <1>2 DEF SubmitCredentials, Consuming, TypeOK, FinishInv
    <2>4. ReferenceInv'
      BY <1>2 DEF SubmitCredentials, Consuming, TypeOK, ReferenceInv
    <2>5. AccountInv'
      BY <1>2 DEF SubmitCredentials, Consuming, TypeOK, AccountInv, ThreadInv,
                  AnswerInv, Results
    <2>6. ThreadInv' /\ MutexInv' /\ AnswerInv'
      BY <1>2 DEF SubmitCredentials, Consuming, TypeOK, ThreadInv, MutexInv,
                  AnswerInv
    <2>7. QED BY <2>1, <2>2, <2>3, <2>4, <2>5, <2>6
  <1>3. ASSUME Close PROVE IInv'
    <2>1. TypeOK'
      BY <1>3, Messages, PutFacts DEF Close, Consuming, TypeOK
    <2>2. QueueInv'
      <3>1. \A t \in Transactions, i \in 1 .. Len(message_queue') :
              message_queue'[i] = Process(t) =>
                i \in 1 .. Len(message_queue) /\ message_queue[i] = Process(t)
        BY <1>3, Messages, PutFacts DEF Close
      <3>2. QED
        BY <1>3, <3>1 DEF Close, QueueInv
    <2>3. /\ ThreadInv' /\ MutexInv' /\ FinishInv' /\ AnswerInv'
          /\ ReferenceInv' /\ AccountInv'
      BY <1>3 DEF Close, Consuming, TypeOK, ThreadInv, MutexInv, FinishInv,
                  AnswerInv, ReferenceInv, AccountInv
    <2>4. QED BY <2>1, <2>2, <2>3
  <1>4. ASSUME Destroy PROVE IInv'
    BY <1>4 DEF Destroy, TypeOK, QueueInv, ThreadInv, MutexInv, FinishInv,
                AnswerInv, ReferenceInv, AccountInv
  <1>5. ASSUME NEW t \in Transactions, FinishLock(t) PROVE IInv'
    <2>1. MutexInv'
      BY <1>5 DEF FinishLock, Consuming, TypeOK, MutexInv
    <2>2. FinishInv'
      BY <1>5 DEF FinishLock, Consuming, TypeOK, FinishInv
    <2>3. /\ TypeOK' /\ QueueInv' /\ ThreadInv' /\ AnswerInv'
          /\ ReferenceInv' /\ AccountInv'
      BY <1>5 DEF FinishLock, Consuming, TypeOK, QueueInv, ThreadInv,
                  AnswerInv, ReferenceInv, AccountInv
    <2>4. QED BY <2>1, <2>2, <2>3
  <1>6. ASSUME FinishProcessing PROVE IInv'
    <2>1. TypeOK'
      BY <1>6 DEF FinishProcessing, FinishTo, TypeOK, FinishInv
    <2>2. QueueInv'
      BY <1>6 DEF FinishProcessing, FinishTo, TypeOK, QueueInv
    <2>3. ThreadInv'
      BY <1>6 DEF FinishProcessing, FinishTo, TypeOK, ThreadInv
    <2>4. MutexInv'
      BY <1>6 DEF FinishProcessing, FinishTo, TypeOK, MutexInv
    <2>5. FinishInv'
      BY <1>6 DEF FinishProcessing, FinishTo, TypeOK, FinishInv
    <2>6. ReferenceInv'
      BY <1>6 DEF FinishProcessing, FinishTo, TypeOK, ReferenceInv
    <2>7. AnswerInv' /\ AccountInv'
      BY <1>6 DEF FinishProcessing, FinishTo, TypeOK, AnswerInv, AccountInv
    <2>8. QED BY <2>1, <2>2, <2>3, <2>4, <2>5, <2>6, <2>7
  <1>7. ASSUME FinishDone PROVE IInv'
    <2>1. TypeOK'
      BY <1>7 DEF FinishDone, FinishTo, TypeOK, FinishInv
    <2>2. MutexInv'
      BY <1>7 DEF FinishDone, FinishTo, TypeOK, MutexInv
    <2>3. FinishInv'
      BY <1>7 DEF FinishDone, FinishTo, TypeOK, FinishInv, ThreadInv, MutexInv
    <2>4. /\ QueueInv' /\ ThreadInv' /\ AnswerInv' /\ ReferenceInv'
          /\ AccountInv'
      BY <1>7 DEF FinishDone, FinishTo, TypeOK, QueueInv, ThreadInv, AnswerInv,
                  ReferenceInv, AccountInv
    <2>5. QED BY <2>1, <2>2, <2>3, <2>4
  <1>8. ASSUME FinishFree PROVE IInv'
    <2>1. QueueInv'
      BY <1>8 DEF FinishFree, TypeOK, QueueInv, FinishInv
    <2>2. ThreadInv'
      BY <1>8 DEF FinishFree, TypeOK, ThreadInv, FinishInv
    <2>3. FinishInv'
      BY <1>8 DEF FinishFree, TypeOK, FinishInv
    <2>4. AnswerInv'
      BY <1>8 DEF FinishFree, TypeOK, AnswerInv
    <2>5. ReferenceInv'
      BY <1>8 DEF FinishFree, TypeOK, ReferenceInv, FinishInv
    <2>6. TypeOK'
      <3>1. transaction' \in [Transactions -> {"UNUSED", "PROCESSING", "CANCELLED",
                                               "DONE", "FREED"}]
        BY <1>8 DEF FinishFree, TypeOK
      <3>2. QED BY <1>8, <3>1 DEF FinishFree, TypeOK
    <2>7. MutexInv' /\ AccountInv'
      BY <1>8 DEF FinishFree, TypeOK, MutexInv, AccountInv
    <2>8. QED BY <2>1, <2>2, <2>3, <2>4, <2>5, <2>6, <2>7
  <1>9. ASSUME ThreadStart PROVE IInv'
    BY <1>9 DEF ThreadStart, TypeOK, QueueInv, ThreadInv, MutexInv, FinishInv,
                AnswerInv, ReferenceInv, AccountInv
  <1>10. ASSUME GetCredentials PROVE IInv'
    <2>1. TypeOK'
      BY <1>10, Messages, TailFacts DEF GetCredentials, TypeOK
    <2>2. QueueInv'
      BY <1>10, Messages, TailFacts DEF GetCredentials, TypeOK, QueueInv
    <2>3. ThreadInv'
      BY <1>10, Messages, TailFacts DEF GetCredentials, TypeOK, ThreadInv,
                                        QueueInv
    <2>4. FinishInv'
      BY <1>10, Messages, TailFacts DEF GetCredentials, TypeOK, FinishInv,
                                        QueueInv
    <2>5. ReferenceInv'
      BY <1>10, Messages, TailFacts DEF GetCredentials, TypeOK, ReferenceInv,
                                        ThreadInv, QueueInv
    <2>6. MutexInv' /\ AnswerInv' /\ AccountInv'
      BY <1>10 DEF GetCredentials, TypeOK, MutexInv, AnswerInv, AccountInv
    <2>7. QED BY <2>1, <2>2, <2>3, <2>4, <2>5, <2>6
  <1>11. ASSUME Lock PROVE IInv'
    <2>1. MutexInv'
      BY <1>11 DEF Lock, TypeOK, MutexInv
    <2>2. /\ TypeOK' /\ QueueInv' /\ ThreadInv' /\ FinishInv'
          /\ AnswerInv' /\ ReferenceInv' /\ AccountInv'
      BY <1>11 DEF Lock, TypeOK, QueueInv, ThreadInv, FinishInv, AnswerInv,
                   ReferenceInv, AccountInv
    <2>3. QED BY <2>1, <2>2
  <1>12. ASSUME FindCancelled PROVE IInv'
    <2>1. MutexInv'
      BY <1>12 DEF FindCancelled, TypeOK, MutexInv
    <2>2. /\ TypeOK' /\ QueueInv' /\ ThreadInv' /\ FinishInv'
          /\ AnswerInv' /\ ReferenceInv' /\ AccountInv'
      BY <1>12 DEF FindCancelled, TypeOK, QueueInv, ThreadInv, FinishInv,
                   AnswerInv, ReferenceInv, AccountInv
    <2>3. QED BY <2>1, <2>2
  <1>13. ASSUME Discard PROVE IInv'
    <2>1. TypeOK'
      BY <1>13 DEF Discard, TypeOK, ThreadInv, ReferenceInv
    <2>2. QueueInv'
      BY <1>13 DEF Discard, TypeOK, QueueInv
    <2>3. ThreadInv'
      BY <1>13 DEF Discard, TypeOK, ThreadInv
    <2>4. FinishInv'
      BY <1>13 DEF Discard, TypeOK, FinishInv, ThreadInv
    <2>5. AnswerInv'
      BY <1>13 DEF Discard, TypeOK, AnswerInv
    <2>6. ReferenceInv'
      BY <1>13 DEF Discard, TypeOK, ReferenceInv, ThreadInv
    <2>7. MutexInv' /\ AccountInv'
      BY <1>13 DEF Discard, TypeOK, MutexInv, AccountInv
    <2>8. QED BY <2>1, <2>2, <2>3, <2>4, <2>5, <2>6, <2>7
  <1>14. ASSUME Authenticate PROVE IInv'
    <2>1. TypeOK'
      BY <1>14, AuthUserFacts, CreateUserFacts
      DEF Authenticate, TypeOK, ThreadInv, ReferenceInv
    <2>2. QueueInv'
      BY <1>14 DEF Authenticate, TypeOK, QueueInv, ThreadInv
    <2>3. ThreadInv'
      BY <1>14, AuthUserFacts DEF Authenticate, TypeOK, ThreadInv, AnswerInv
    <2>4. FinishInv'
      BY <1>14 DEF Authenticate, TypeOK, FinishInv
    <2>5. AnswerInv'
      BY <1>14 DEF Authenticate, TypeOK, AnswerInv
    <2>6. ReferenceInv'
      BY <1>14 DEF Authenticate, TypeOK, ReferenceInv
    <2>7. AccountInv'
      BY <1>14, AuthUserFacts, CreateUserFacts
      DEF Authenticate, TypeOK, AccountInv, ThreadInv
    <2>8. MutexInv'
      BY <1>14 DEF Authenticate, TypeOK, MutexInv
    <2>9. QED BY <2>1, <2>2, <2>3, <2>4, <2>5, <2>6, <2>7, <2>8
  <1>15. ASSUME Callback PROVE IInv'
    <2>1. TypeOK'
      BY <1>15 DEF Callback, TypeOK, ThreadInv, ReferenceInv
    <2>2. ThreadInv'
      BY <1>15 DEF Callback, TypeOK, ThreadInv
    <2>3. AnswerInv'
      BY <1>15 DEF Callback, TypeOK, AnswerInv, ThreadInv
    <2>4. ReferenceInv'
      BY <1>15 DEF Callback, TypeOK, ReferenceInv, ThreadInv
    <2>5. AccountInv'
      BY <1>15 DEF Callback, TypeOK, AccountInv
    <2>6. QueueInv' /\ MutexInv' /\ FinishInv'
      BY <1>15 DEF Callback, TypeOK, QueueInv, MutexInv, FinishInv
    <2>7. QED BY <2>1, <2>2, <2>3, <2>4, <2>5, <2>6
  <1>16. ASSUME Unlock PROVE IInv'
    <2>1. MutexInv'
      BY <1>16 DEF Unlock, TypeOK, MutexInv
    <2>2. /\ TypeOK' /\ QueueInv' /\ ThreadInv' /\ FinishInv'
          /\ AnswerInv' /\ ReferenceInv' /\ AccountInv'
      BY <1>16 DEF Unlock, TypeOK, QueueInv, ThreadInv, FinishInv, AnswerInv,
                   ReferenceInv, AccountInv
    <2>3. QED BY <2>1, <2>2
  <1>17. ASSUME Release PROVE IInv'
    <2>1. TypeOK'
      BY <1>17 DEF Release, TypeOK, ThreadInv, ReferenceInv
    <2>2. ThreadInv'
      BY <1>17 DEF Release, TypeOK, ThreadInv
    <2>3. ReferenceInv'
      BY <1>17 DEF Release, TypeOK, ReferenceInv, ThreadInv
    <2>4. /\ QueueInv' /\ MutexInv' /\ FinishInv' /\ AnswerInv'
          /\ AccountInv'
      BY <1>17 DEF Release, TypeOK, QueueInv, MutexInv, FinishInv, AnswerInv,
                   AccountInv
    <2>5. QED BY <2>1, <2>2, <2>3, <2>4
  <1>18. ASSUME GetClose PROVE IInv'
    <2>1. TypeOK'
      BY <1>18, TailFacts DEF GetClose, TypeOK
    <2>2. QueueInv'
      BY <1>18, TailFacts DEF GetClose, TypeOK, QueueInv
    <2>3. /\ ThreadInv' /\ MutexInv' /\ FinishInv' /\ AnswerInv'
          /\ ReferenceInv' /\ AccountInv'
      BY <1>18 DEF GetClose, TypeOK, ThreadInv, MutexInv, FinishInv, AnswerInv,
                   ReferenceInv, AccountInv
    <2>4. QED BY <2>1, <2>2, <2>3
  <1>19. ASSUME ThreadEnd PROVE IInv'
    BY <1>19 DEF ThreadEnd, TypeOK, QueueInv, ThreadInv, MutexInv, FinishInv,
                 AnswerInv, ReferenceInv, AccountInv
  <1>20. ASSUME DatabaseFails PROVE IInv'
    BY <1>20 DEF DatabaseFails, TypeOK, QueueInv, ThreadInv, MutexInv,
                 FinishInv, AnswerInv, ReferenceInv, AccountInv
  <1>21. CASE UNCHANGED vars
    BY <1>21 DEF vars, TypeOK, QueueInv, ThreadInv, MutexInv, FinishInv, AnswerInv,
                  ReferenceInv, AccountInv
  <1>22. QED
    BY <1>1, <1>2, <1>3, <1>4, <1>5, <1>6, <1>7, <1>8, <1>9, <1>10, <1>11,
       <1>12, <1>13, <1>14, <1>15, <1>16, <1>17, <1>18, <1>19, <1>20, <1>21
    DEF Next, ConsumerCall, ConsumerStep, ThreadStep

(* What the authentication service can reach, for any constants. *)
THEOREM InductiveInvariant == Spec => []IInv
  BY InitIInv, NextIInv, PTL DEF Spec

-----------------------------------------------------------------------------
(* The safety properties. *)

(* Every variable keeps its type: no reference is given back twice, nor taken
   twice. *)
THEOREM TypeCorrect == Spec => []TypeOK
  <1>1. IInv => TypeOK BY DEF IInv
  <1>2. QED BY <1>1, InductiveInvariant, PTL

(* Neither the thread, nor a message, nor a call of the consumer holds a
   transaction the other side has freed. *)
THEOREM NeverUsesFreed == Spec => []NoUseAfterFree
  <1>1. ASSUME IInv PROVE NoUseAfterFree
    <2>1. SUFFICES ASSUME NEW t \in InUse PROVE transaction[t] # "FREED"
      BY DEF NoUseAfterFree
    <2>2. CASE \E i \in 1 .. Len(message_queue) : message_queue[i] = Process(t)
      BY <1>1, <2>2 DEF IInv, QueueInv, Pending, InUse
    <2>3. CASE current = t /\ thread_pc # "release"
      BY <1>1, <2>3, NullAssumption DEF IInv, ThreadInv, Working, Pending, InUse
    <2>4. CASE consumer_pc # "idle" /\ finishing = t
      BY <1>1, <2>4 DEF IInv, TypeOK, FinishInv
    <2>5. QED BY <2>2, <2>3, <2>4 DEF InUse
  <1>2. QED BY <1>1, InductiveInvariant, PTL

(* A transaction the thread has done with leaves it no reference, one that
   waits for it has both. *)
THEOREM GivesReferencesBack == Spec => []ReferencesGivenBack
  <1>1. ASSUME IInv PROVE ReferencesGivenBack
    BY <1>1 DEF IInv, ReferenceInv, ReferencesGivenBack, Pending
  <1>2. QED BY <1>1, InductiveInvariant, PTL

(* Who was let in has the password of the account, for ever. *)
THEOREM LetInOwnsAccount == Spec => []AuthenticatedOwnsAccount
  <1>1. ASSUME IInv PROVE AuthenticatedOwnsAccount
    BY <1>1 DEF IInv, AccountInv, LetIn, AuthenticatedOwnsAccount
  <1>2. QED BY <1>1, InductiveInvariant, PTL

-----------------------------------------------------------------------------
(* The refinement of AuthService. *)

Submitted == {t \in Transactions : transaction[t] # "UNUSED"}
Freed     == {t \in Transactions : transaction[t] = "FREED"}

(* What the service does not see: a step that begins and frees no transaction,
   finishes none and answers none. *)
LEMMA Unseen ==
  ASSUME UNCHANGED <<finished, answer>>,
         \A t \in Transactions :
           /\ transaction'[t] = "UNUSED" <=> transaction[t] = "UNUSED"
           /\ transaction'[t] = "FREED" <=> transaction[t] = "FREED"
  PROVE  UNCHANGED Service!serviceVars
  <1>1. Submitted' = Submitted /\ Freed' = Freed
    BY DEF Submitted, Freed
  <1>2. QED BY <1>1 DEF Service!serviceVars, Submitted, Freed

(* A transaction freed by either side is one freed by the service. *)
LEMMA FreeImplements ==
  ASSUME TypeOK, NEW t \in Transactions, t \in finished,
         transaction[t] \notin {"UNUSED", "FREED"},
         transaction' = [transaction EXCEPT ![t] = "FREED"],
         UNCHANGED <<finished, answer>>
  PROVE  Service!Free(t)
  <1>1. Submitted' = Submitted /\ Freed' = Freed \union {t}
    BY DEF TypeOK, Submitted, Freed
  <1>2. t \in finished \ Freed
    BY DEF Freed
  <1>3. QED BY <1>1, <1>2 DEF Service!Free, Submitted, Freed

(* A call of finish_transaction that has found the transaction's state has
   finished it for the service. *)
LEMMA FinishImplements ==
  ASSUME TypeOK, NEW t \in Transactions, t \notin finished,
         transaction[t] \in {"PROCESSING", "DONE"},
         \/ transaction' = [transaction EXCEPT ![t] = "CANCELLED"]
         \/ UNCHANGED transaction,
         finished' = finished \union {t}, UNCHANGED answer
  PROVE  Service!Finish(t)
  <1>1. Submitted' = Submitted /\ Freed' = Freed
    BY DEF TypeOK, Submitted, Freed
  <1>2. t \in Submitted \ finished
    BY DEF Submitted
  <1>3. QED BY <1>1, <1>2 DEF Service!Finish, Submitted, Freed

(* No transaction is begun when chat_auth is created. *)
LEMMA InitImplements == Init => Service!Init
  BY DEF Init, Service!Init

(* Every step is one of the service, or one it does not see. *)
LEMMA NextImplements ==
  IInv /\ [Next]_vars => [Service!Next]_(Service!serviceVars)
  <1> SUFFICES ASSUME IInv, [Next]_vars
               PROVE  Service!Next \/ UNCHANGED Service!serviceVars
    OBVIOUS
  <1>1. TypeOK
    BY DEF IInv
  <1>2. ASSUME NEW t \in Transactions, NEW c \in Credentials,
               SubmitCredentials(t, c)
        PROVE  Service!Submit(t)
    <2>1. Submitted' = Submitted \union {t} /\ Freed' = Freed
      BY <1>1, <1>2 DEF SubmitCredentials, TypeOK, Submitted, Freed
    <2>2. t \notin Submitted /\ UNCHANGED <<finished, answer>>
      BY <1>2 DEF SubmitCredentials, consumerVars, Submitted
    <2>3. QED BY <2>1, <2>2 DEF Service!Submit, Submitted, Freed
  <1>3. ASSUME Callback PROVE Service!Answer(current, result)
    <2>1. /\ current \in Transactions /\ answer[current] = NULL
          /\ transaction[current] = "DONE"
      BY <1>1, <1>3 DEF Callback, Thread, IInv, TypeOK, ThreadInv, Working
    <2>2. current \notin finished
      BY <1>1, <1>3, <2>1 DEF Callback, Thread, IInv, FinishInv
    <2>3. Submitted' = Submitted /\ Freed' = Freed /\ UNCHANGED finished
      BY <1>3 DEF Callback, transactionVars, consumerVars, Submitted, Freed
    <2>4. current \in Submitted \ finished
      BY <2>1, <2>2 DEF Submitted
    <2>5. QED
      BY <1>3, <2>1, <2>3, <2>4 DEF Callback, Service!Answer, Submitted, Freed
  <1>4. ASSUME FinishProcessing \/ FinishDone PROVE Service!Finish(finishing)
    <2>1. /\ finishing \in Transactions /\ finishing \notin finished
          /\ transaction[finishing] \in {"PROCESSING", "DONE"}
      BY <1>4 DEF FinishProcessing, FinishDone, FinishTo, IInv, FinishInv
    <2>2. QED
      BY <1>1, <1>4, <2>1, FinishImplements DEF FinishProcessing, FinishDone, FinishTo
  <1>5. ASSUME FinishFree PROVE Service!Free(finishing)
    <2>1. /\ finishing \in Transactions /\ transaction[finishing] = "DONE"
          /\ finishing \in finished
      BY <1>5 DEF FinishFree, IInv, FinishInv
    <2>2. QED BY <1>1, <1>5, <2>1, FreeImplements DEF FinishFree, Service!Free
  <1>6. ASSUME Discard PROVE Service!Free(current)
    <2>1. /\ current \in Transactions /\ transaction[current] = "CANCELLED"
          /\ current \in finished
      BY <1>1, <1>6 DEF Discard, Thread, IInv, TypeOK, ThreadInv, FinishInv, Working
    <2>2. QED BY <1>1, <1>6, <2>1, FreeImplements
      DEF Discard, consumerVars, Service!Free
  <1>7. ASSUME Authenticate PROVE UNCHANGED Service!serviceVars
    <2>1. current \in Transactions
      BY <1>1, <1>7 DEF Authenticate, Thread, IInv, TypeOK, ThreadInv, Working
    <2>2. QED
      BY <1>1, <1>7, <2>1, Unseen DEF Authenticate, TypeOK, consumerVars
  <1>8. ASSUME \/ Open \/ Close \/ Destroy \/ \E t \in Transactions : FinishLock(t)
               \/ ThreadStart \/ GetCredentials \/ Lock \/ FindCancelled \/ Unlock
               \/ Release \/ GetClose \/ ThreadEnd \/ DatabaseFails
               \/ UNCHANGED vars
        PROVE  UNCHANGED Service!serviceVars
    <2>1. UNCHANGED <<transaction, finished, answer>>
      BY <1>8 DEF Open, Close, Destroy, FinishLock, ThreadStart, GetCredentials,
                  Lock, FindCancelled, Unlock, Release, GetClose, ThreadEnd,
                  DatabaseFails, vars, transactionVars, consumerVars
    <2>2. QED BY <2>1, Unseen
  <1>9. QED
    <2>1. CASE \E t \in Transactions : \E c \in Credentials : SubmitCredentials(t, c)
      BY <1>2, <2>1 DEF Service!Next
    <2>2. CASE Callback
      <3>1. current \in Transactions /\ result \in Results
        BY <1>1, <2>2 DEF Callback, Thread, IInv, TypeOK, ThreadInv, Working
      <3>2. QED BY <1>3, <2>2, <3>1 DEF Service!Next
    <2>3. CASE FinishProcessing \/ FinishDone
      <3>1. finishing \in Transactions
        BY <2>3 DEF FinishProcessing, FinishDone, FinishTo, IInv, FinishInv
      <3>2. QED BY <1>4, <2>3, <3>1 DEF Service!Next
    <2>4. CASE FinishFree
      <3>1. finishing \in Transactions
        BY <2>4 DEF FinishFree, IInv, FinishInv
      <3>2. QED BY <1>5, <2>4, <3>1 DEF Service!Next, Service!Free
    <2>5. CASE Discard
      <3>1. current \in Transactions
        BY <1>1, <2>5 DEF Discard, Thread, IInv, TypeOK, ThreadInv, Working
      <3>2. QED BY <1>6, <2>5, <3>1 DEF Service!Next, Service!Free
    <2>6. QED
      BY <1>7, <1>8, <2>1, <2>2, <2>3, <2>4, <2>5
      DEF Next, ConsumerCall, ConsumerStep, ThreadStep

(* chat_auth is the service chat_server relies on: every transaction is
   answered at most once, none after finish_transaction has returned, and its
   memory is freed once, when both sides have done with it. *)
THEOREM AuthImplementsService == Spec => ImplementsService
  BY InitImplements, NextImplements, InductiveInvariant, PTL
  DEF Spec, ImplementsService, Service!Spec
=============================================================================
