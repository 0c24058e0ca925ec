------------------------- MODULE ChatClientsProofs -------------------------
(***************************************************************************)
(* Proofs about the clients of the server, for any number of clients and   *)
(* transactions, any peers and any sizes of the queues: references are     *)
(* counted, one login at a time, and who was announced is taken back.      *)
(***************************************************************************)
EXTENDS ChatClients, FiniteSetTheorems, SequenceTheorems, WellFoundedInduction, TLAPS

-----------------------------------------------------------------------------
(* The inductive invariant. *)

(* How many messages there are of each kind about a client, and of the rest of
   what refers to it.  *)
OpensOf(c)     == Cardinality(About(message_queue, {"OPEN_CLIENT"}, c))
ClosesOf(c)    == Cardinality(About(message_queue, {"CLIENT_CONNECTION_CLOSED"}, c))
AnswersOf(c)   == Cardinality(Answered(c))
ToldOf(c)      == Cardinality(ToldClients(c))
ToldToClose    == Cardinality(About(message_queue, {"CLOSE"}, NULL))
StartsOf(c)    == Cardinality(Starting(c))
OnServer(c)    == Cardinality(ToldServer(c))
SubmittedOf(c) == Cardinality(Submitted(c))
KeepersOf(c)   == Cardinality(Keepers(c))

(* A transaction that is not free has an owner. *)
OwnerInv == \A t \in Transactions : transaction[t] # "free" => owner[t] \in Clients

(* chat_clients is told to close by chat_server, when that closes. *)
CloseInv == state # "OPEN" \/ ToldToClose # 0 => server_state = "CLOSING"

New(c) == connection[c] \in {"none", "accepted"}

(* A client comes once and goes once: it is in the list from its OPEN_CLIENT to
   its CLIENT_CONNECTION_CLOSED, and there is one of each.  *)
Arrival(c) ==
  /\ New(c) => /\ client[c].state = "UNUSED" /\ kept[c] = {}
               /\ References(c) = 0 /\ c \notin announced
  /\ client[c].state = "UNUSED" => New(c)
  /\ connection[c] \in {"open", "closing", "stuck"} => Listed(c)
  /\ Listed(c) => kept[c] = {}
  /\ OpensOf(c) <= IF connection[c] = "accepted" THEN 1 ELSE 0
  /\ ClosesOf(c) <= IF Listed(c) /\ connection[c] \in {"closed", "released"} THEN 1 ELSE 0

(* The references there are to a client are counted. *)
Counted(c) ==
  /\ client[c].state = "DESTROYED" => References(c) = 0
  /\ use_count[c] >= References(c)
  /\ server_state = "OPEN" => use_count[c] = References(c)

(* Where a login is under way, the state or auth_transaction says so. *)
Login(c) ==
  /\ LoginsOf(c) <= 1
  /\ client[c].state \in {"UNUSED", "AUTHENTICATING_USERNAME"} => LoginsOf(c) = 0
  /\ client[c].state = "AUTHENTICATING_PASSWORD" /\ LoginsOf(c) # 0 =>
       StartsOf(c) # 0 \/ client[c].auth_transaction # NULL

(* Who is known to the others has no credentials to submit... *)
Known(c) == client[c].state \in {"ACTIVE", "DISCONNECTING_FROM_ACTIVE"}
KnownInv(c) == Known(c) => client[c].credentials = "none"

(* ... and who was announced to them and is in the list is known, and logs in no
   more, unless it left a second time.  *)
Announced(c) == c \in announced \ (overlapped \union again) /\ Listed(c) => Known(c) /\ LoginsOf(c) = 0

NumberInv(c) ==
  /\ Arrival(c) /\ KnownInv(c)
  /\ ~refused => Counted(c) /\ (c \notin overlapped => Login(c))
  /\ state = "OPEN" /\ ~refused => Announced(c)

IInv == /\ TypeOK /\ OwnerInv
        /\ Running => \A c \in Clients : CloseInv /\ NumberInv(c)

-----------------------------------------------------------------------------
(* Counting. *)

(* The messages about a client are finitely many. *)
LEMMA AboutFinite ==
  ASSUME NEW M, NEW queue \in Seq(M), NEW types, NEW c
  PROVE  /\ IsFiniteSet(About(queue, types, c))
         /\ Cardinality(About(queue, types, c)) \in Nat
PROOF
  <1>1. Len(queue) \in Nat /\ DOMAIN queue = 1 .. Len(queue)
    BY LenProperties
  <1>2. IsFiniteSet(1 .. Len(queue))
    BY <1>1, FS_Interval
  <1>3. About(queue, types, c) \in SUBSET (1 .. Len(queue))
    BY <1>1 DEF About
  <1>4. IsFiniteSet(About(queue, types, c))
    BY <1>2, <1>3, FS_Subset
  <1>5. QED BY <1>4, FS_CardinalityType

(* A message put into a queue is one more about its client. *)
LEMMA AboutAppend ==
  ASSUME NEW M, NEW queue \in Seq(M), NEW m \in M, NEW types, NEW c
  PROVE  Cardinality(About(Append(queue, m), types, c))
           = Cardinality(About(queue, types, c))
             + (IF m.type \in types /\ m.client = c THEN 1 ELSE 0)
PROOF
  <1> DEFINE n == Len(queue)
             Q == Append(queue, m)
             A == About(queue, types, c)
  <1>1. n \in Nat /\ DOMAIN queue = 1 .. n /\ DOMAIN Q = 1 .. n + 1
    BY LenProperties, AppendProperties
  <1>2. Q[n + 1] = m /\ \A i \in 1 .. n : Q[i] = queue[i]
    BY AppendProperties
  <1>3. IsFiniteSet(A) /\ Cardinality(A) \in Nat
    BY AboutFinite
  <1>4. n + 1 \notin A
    BY <1>1 DEF About
  <1>5. CASE m.type \in types /\ m.client = c
    <2>1. About(Q, types, c) = A \union {n + 1}
      BY <1>1, <1>2, <1>5 DEF About
    <2>2. Cardinality(A \union {n + 1}) = Cardinality(A) + 1
      BY <1>3, <1>4, FS_AddElement
    <2>3. QED BY <1>5, <2>1, <2>2
  <1>6. CASE ~(m.type \in types /\ m.client = c)
    <2>1. About(Q, types, c) = A
      BY <1>1, <1>2, <1>6 DEF About
    <2>2. QED BY <1>3, <1>6, <2>1
  <1>7. QED BY <1>5, <1>6

(* The message taken from a queue is one less about its client. *)
LEMMA AboutTail ==
  ASSUME NEW M, NEW queue \in Seq(M), queue # <<>>, NEW types, NEW c
  PROVE  Cardinality(About(queue, types, c))
           = Cardinality(About(Tail(queue), types, c))
             + (IF Head(queue).type \in types /\ Head(queue).client = c THEN 1 ELSE 0)
PROOF
  <1> DEFINE n == Len(queue)
             T == Tail(queue)
             A == About(queue, types, c)
             B == About(T, types, c)
             later == [i \in B |-> i + 1]
  <1>1. n \in Nat \ {0} /\ DOMAIN queue = 1 .. n /\ Head(queue) = queue[1]
    BY LenProperties, EmptySeq
  <1>2. /\ T \in Seq(M) /\ DOMAIN T = 1 .. n - 1
        /\ \A i \in 1 .. n - 1 : T[i] = queue[i + 1]
    BY <1>1, HeadTailProperties, LenProperties
  <1>3. IsFiniteSet(A) /\ IsFiniteSet(B) /\ Cardinality(A) \in Nat /\ Cardinality(B) \in Nat
    BY <1>2, AboutFinite
  <1>4. Cardinality(A \ {1}) = Cardinality(B)
    <2>1. \A i \in B : i \in 1 .. n - 1 /\ i + 1 \in A \ {1}
      BY <1>1, <1>2 DEF About
    <2>2. \A j \in A \ {1} : j \in Int /\ j - 1 \in B /\ j = (j - 1) + 1
      BY <1>1, <1>2 DEF About
    <2>3. later \in [B -> A \ {1}]
      BY <2>1
    <2>4. \A i, j \in B : later[i] = later[j] => i = j
      BY <2>1
    <2>5. \A j \in A \ {1} : \E i \in B : later[i] = j
      BY <2>2
    <2>6. later \in Bijection(B, A \ {1})
      BY <2>3, <2>4, <2>5 DEF Bijection, Injection, Surjection, IsInjective
    <2>7. ExistsBijection(B, A \ {1})
      BY <2>6 DEF ExistsBijection
    <2>8. QED BY <1>3, <2>7, FS_Bijection
  <1>5. 1 \in A <=> Head(queue).type \in types /\ Head(queue).client = c
    BY <1>1 DEF About
  <1>6. Cardinality(A \ {1}) = IF 1 \in A THEN Cardinality(A) - 1 ELSE Cardinality(A)
    BY <1>3, FS_RemoveElement
  <1>7. QED BY <1>3, <1>4, <1>5, <1>6

(* What the numbers are. *)
LEMMA NumbersAreNatural ==
  ASSUME TypeOK, NEW c \in Clients
  PROVE  /\ OpensOf(c) \in Nat /\ ClosesOf(c) \in Nat /\ AnswersOf(c) \in Nat
         /\ ToldOf(c) \in Nat /\ ToldToClose \in Nat
         /\ StartsOf(c) \in Nat /\ OnServer(c) \in Nat
         /\ IsFiniteSet(Submitted(c)) /\ SubmittedOf(c) \in Nat
         /\ IsFiniteSet(Keepers(c)) /\ KeepersOf(c) \in Nat
PROOF
  <1>1. message_queue \in Seq(ClientsMessages) /\ server_queue \in Seq(ServerMessages)
    BY DEF TypeOK
  <1>2. /\ OpensOf(c) \in Nat /\ ClosesOf(c) \in Nat /\ AnswersOf(c) \in Nat
        /\ ToldOf(c) \in Nat /\ ToldToClose \in Nat
    BY <1>1, AboutFinite
    DEF OpensOf, ClosesOf, AnswersOf, ToldOf, ToldToClose, Answered, ToldClients
  <1>3. StartsOf(c) \in Nat /\ OnServer(c) \in Nat
    BY <1>1, AboutFinite DEF StartsOf, OnServer, Starting, ToldServer
  <1>4. IsFiniteSet(Transactions) /\ IsFiniteSet(Clients)
    BY BoundsAssumption, FS_Interval DEF Transactions, Clients
  <1>5. Submitted(c) \in SUBSET Transactions /\ Keepers(c) \in SUBSET Clients
    BY DEF Submitted, Keepers
  <1>6. IsFiniteSet(Submitted(c)) /\ IsFiniteSet(Keepers(c))
    BY <1>4, <1>5, FS_Subset
  <1>7. SubmittedOf(c) \in Nat /\ KeepersOf(c) \in Nat
    BY <1>6, FS_CardinalityType DEF SubmittedOf, KeepersOf
  <1>8. QED BY <1>2, <1>3, <1>6, <1>7

LEMMA ReferencesAre ==
  ASSUME NEW c \in Clients
  PROVE  /\ References(c) = InList(c) + InConnection(c) + KeepersOf(c) + ToldOf(c)
                            + OnServer(c) + SubmittedOf(c)
         /\ LoginsOf(c) = OnServer(c) + SubmittedOf(c) + AnswersOf(c)
         /\ References(c)' = InList(c)' + InConnection(c)' + KeepersOf(c)' + ToldOf(c)'
                             + OnServer(c)' + SubmittedOf(c)'
         /\ LoginsOf(c)' = OnServer(c)' + SubmittedOf(c)' + AnswersOf(c)'
  BY DEF References, LoginsOf, KeepersOf, ToldOf, OnServer, SubmittedOf, AnswersOf

(* A message for chat_clients is put, is taken, or none is. *)
LEMMA Put ==
  ASSUME TypeOK, NEW m \in ClientsMessages, message_queue' = Append(message_queue, m),
         NEW d
  PROVE  /\ OpensOf(d)' = OpensOf(d) + (IF m.type = "OPEN_CLIENT" /\ m.client = d THEN 1 ELSE 0)
         /\ ClosesOf(d)' = ClosesOf(d) + (IF m.type = "CLIENT_CONNECTION_CLOSED" /\ m.client = d
                                          THEN 1 ELSE 0)
         /\ AnswersOf(d)' = AnswersOf(d) + (IF m.type = "AUTH_EVENT" /\ m.client = d THEN 1 ELSE 0)
         /\ ToldOf(d)' = ToldOf(d)
              + (IF /\ m.type \in {"INCOMING_EVENT", "CLIENT_CONNECTION_CLOSED", "AUTH_EVENT"}
                    /\ m.client = d THEN 1 ELSE 0)
         /\ ToldToClose' = ToldToClose + (IF m.type = "CLOSE" /\ m.client = NULL THEN 1 ELSE 0)
PROOF
  <1>1. message_queue \in Seq(ClientsMessages)
    BY DEF TypeOK
  <1>2. \A types, c : Cardinality(About(message_queue', types, c))
                        = Cardinality(About(message_queue, types, c))
                          + (IF m.type \in types /\ m.client = c THEN 1 ELSE 0)
    BY <1>1, AboutAppend
  <1>3. /\ OpensOf(d)' = OpensOf(d) + (IF m.type \in {"OPEN_CLIENT"} /\ m.client = d
                                       THEN 1 ELSE 0)
        /\ ClosesOf(d)' = ClosesOf(d) + (IF m.type \in {"CLIENT_CONNECTION_CLOSED"}
                                            /\ m.client = d THEN 1 ELSE 0)
        /\ AnswersOf(d)' = AnswersOf(d) + (IF m.type \in {"AUTH_EVENT"} /\ m.client = d
                                           THEN 1 ELSE 0)
        /\ ToldOf(d)' = ToldOf(d)
              + (IF /\ m.type \in {"INCOMING_EVENT", "CLIENT_CONNECTION_CLOSED", "AUTH_EVENT"}
                    /\ m.client = d THEN 1 ELSE 0)
        /\ ToldToClose' = ToldToClose + (IF m.type \in {"CLOSE"} /\ m.client = NULL
                                         THEN 1 ELSE 0)
    BY <1>2, Zenon
    DEF OpensOf, ClosesOf, AnswersOf, ToldOf, ToldToClose, Answered, ToldClients
  <1>4. QED BY <1>3

LEMMA Taken ==
  ASSUME TypeOK, message_queue # <<>>, message_queue' = Tail(message_queue), NEW d
  PROVE  LET m == Head(message_queue) IN
         /\ OpensOf(d) = OpensOf(d)' + (IF m.type = "OPEN_CLIENT" /\ m.client = d THEN 1 ELSE 0)
         /\ ClosesOf(d) = ClosesOf(d)' + (IF m.type = "CLIENT_CONNECTION_CLOSED" /\ m.client = d
                                          THEN 1 ELSE 0)
         /\ AnswersOf(d) = AnswersOf(d)' + (IF m.type = "AUTH_EVENT" /\ m.client = d
                                            THEN 1 ELSE 0)
         /\ ToldOf(d) = ToldOf(d)'
              + (IF /\ m.type \in {"INCOMING_EVENT", "CLIENT_CONNECTION_CLOSED", "AUTH_EVENT"}
                    /\ m.client = d THEN 1 ELSE 0)
         /\ ToldToClose = ToldToClose' + (IF m.type = "CLOSE" /\ m.client = NULL
                                          THEN 1 ELSE 0)
PROOF
  <1> DEFINE m == Head(message_queue)
  <1>1. message_queue \in Seq(ClientsMessages)
    BY DEF TypeOK
  <1>2. \A types, c : Cardinality(About(message_queue, types, c))
                        = Cardinality(About(message_queue', types, c))
                          + (IF m.type \in types /\ m.client = c THEN 1 ELSE 0)
    BY <1>1, AboutTail
  <1> HIDE DEF m
  <1>3. /\ OpensOf(d) = OpensOf(d)' + (IF m.type \in {"OPEN_CLIENT"} /\ m.client = d
                                       THEN 1 ELSE 0)
        /\ ClosesOf(d) = ClosesOf(d)' + (IF m.type \in {"CLIENT_CONNECTION_CLOSED"}
                                            /\ m.client = d THEN 1 ELSE 0)
        /\ AnswersOf(d) = AnswersOf(d)' + (IF m.type \in {"AUTH_EVENT"} /\ m.client = d
                                           THEN 1 ELSE 0)
        /\ ToldOf(d) = ToldOf(d)'
              + (IF /\ m.type \in {"INCOMING_EVENT", "CLIENT_CONNECTION_CLOSED", "AUTH_EVENT"}
                    /\ m.client = d THEN 1 ELSE 0)
        /\ ToldToClose = ToldToClose' + (IF m.type \in {"CLOSE"} /\ m.client = NULL
                                         THEN 1 ELSE 0)
    BY <1>2, Zenon
    DEF OpensOf, ClosesOf, AnswersOf, ToldOf, ToldToClose, Answered, ToldClients
  <1>4. QED BY <1>3 DEF m

LEMMA NoneMoved ==
  ASSUME message_queue' = message_queue, NEW d
  PROVE  /\ OpensOf(d)' = OpensOf(d) /\ ClosesOf(d)' = ClosesOf(d)
         /\ AnswersOf(d)' = AnswersOf(d) /\ ToldOf(d)' = ToldOf(d)
         /\ ToldToClose' = ToldToClose
  BY DEF OpensOf, ClosesOf, AnswersOf, ToldOf, ToldToClose, Answered, ToldClients

(* The same for the messages for chat_server. *)
LEMMA ServerPut ==
  ASSUME TypeOK, NEW m \in ServerMessages, server_queue' = Append(server_queue, m), NEW d
  PROVE  /\ StartsOf(d)' = StartsOf(d) + (IF m.type = "START" /\ m.client = d THEN 1 ELSE 0)
         /\ OnServer(d)' = OnServer(d) + (IF m.type \in {"START", "AUTH_RESULT"} /\ m.client = d
                                          THEN 1 ELSE 0)
PROOF
  <1>1. server_queue \in Seq(ServerMessages)
    BY DEF TypeOK
  <1>2. \A types, c : Cardinality(About(server_queue', types, c))
                        = Cardinality(About(server_queue, types, c))
                          + (IF m.type \in types /\ m.client = c THEN 1 ELSE 0)
    BY <1>1, AboutAppend
  <1>3. /\ StartsOf(d)' = StartsOf(d) + (IF m.type \in {"START"} /\ m.client = d THEN 1 ELSE 0)
        /\ OnServer(d)' = OnServer(d) + (IF m.type \in {"START", "AUTH_RESULT"} /\ m.client = d
                                         THEN 1 ELSE 0)
    BY <1>2, Zenon DEF StartsOf, OnServer, Starting, ToldServer
  <1>4. QED BY <1>3

LEMMA ServerTaken ==
  ASSUME TypeOK, server_queue # <<>>, server_queue' = Tail(server_queue), NEW d
  PROVE  LET m == Head(server_queue) IN
         /\ StartsOf(d) = StartsOf(d)' + (IF m.type = "START" /\ m.client = d THEN 1 ELSE 0)
         /\ OnServer(d) = OnServer(d)' + (IF m.type \in {"START", "AUTH_RESULT"} /\ m.client = d
                                          THEN 1 ELSE 0)
PROOF
  <1> DEFINE m == Head(server_queue)
  <1>1. server_queue \in Seq(ServerMessages)
    BY DEF TypeOK
  <1>2. \A types, c : Cardinality(About(server_queue, types, c))
                        = Cardinality(About(server_queue', types, c))
                          + (IF m.type \in types /\ m.client = c THEN 1 ELSE 0)
    BY <1>1, AboutTail
  <1> HIDE DEF m
  <1>3. /\ StartsOf(d) = StartsOf(d)' + (IF m.type \in {"START"} /\ m.client = d THEN 1 ELSE 0)
        /\ OnServer(d) = OnServer(d)' + (IF m.type \in {"START", "AUTH_RESULT"} /\ m.client = d
                                         THEN 1 ELSE 0)
    BY <1>2, Zenon DEF StartsOf, OnServer, Starting, ToldServer
  <1>4. QED BY <1>3 DEF m

LEMMA NoneMovedOnServer ==
  ASSUME server_queue' = server_queue, NEW d
  PROVE  StartsOf(d)' = StartsOf(d) /\ OnServer(d)' = OnServer(d)
  BY DEF StartsOf, OnServer, Starting, ToldServer

(* A client has as many transactions and neighbours as before. *)
LEMMA SameTransactions ==
  ASSUME UNCHANGED <<transaction, owner>>, NEW d
  PROVE  SubmittedOf(d)' = SubmittedOf(d)
  BY DEF SubmittedOf, Submitted

LEMMA SameKeepers ==
  ASSUME kept' = kept, NEW d
  PROVE  KeepersOf(d)' = KeepersOf(d)
  BY DEF KeepersOf, Keepers

-----------------------------------------------------------------------------
(* Messages, and the list. *)

LEMMA ClientsMessageIs ==
  ASSUME NEW m \in ClientsMessages
  PROVE  /\ m.type \in {"OPEN_CLIENT", "CLIENT_CONNECTION_CLOSED", "INCOMING_EVENT", "AUTH_EVENT",
                        "CLOSE"}
         /\ m.type # "CLOSE" => m.client \in Clients
         /\ m.type = "CLOSE" => m.client = NULL
         /\ m.type = "INCOMING_EVENT" => m.arg \in Events
         /\ m.type = "AUTH_EVENT" => m.arg \in Steps
  BY DEF ClientsMessages, CloseMessage, Message

LEMMA ServerMessageIs ==
  ASSUME NEW m \in ServerMessages
  PROVE  /\ m.type \in {"START", "AUTH_RESULT", "FINISH"}
         /\ m.type # "FINISH" => m.client \in Clients
         /\ m.type = "AUTH_RESULT" => m.arg \in Steps
         /\ m.type = "FINISH" => m.arg \in Transactions \union {NULL}
  BY DEF ServerMessages

LEMMA MessagesAre ==
  ASSUME NEW c \in Clients
  PROVE  /\ Message("OPEN_CLIENT", c, NULL) \in ClientsMessages
         /\ Message("CLIENT_CONNECTION_CLOSED", c, NULL) \in ClientsMessages
         /\ \A e \in Events : Message("INCOMING_EVENT", c, e) \in ClientsMessages
         /\ \A step \in Steps : /\ Message("AUTH_EVENT", c, step) \in ClientsMessages
                                /\ Message("AUTH_RESULT", c, step) \in ServerMessages
         /\ CloseMessage \in ClientsMessages
         /\ Message("START", c, NULL) \in ServerMessages
         /\ \A t \in Transactions \union {NULL} : Message("FINISH", NULL, t) \in ServerMessages
  BY DEF ClientsMessages, ServerMessages, CloseMessage, Message

(* What a message received, or put, does to its queue *)
LEMMA AtReceived ==
  ASSUME TypeOK, NEW type, Received(type)
  PROVE  /\ Running /\ message_queue # <<>> /\ message_queue' = Tail(message_queue)
         /\ Head(message_queue) \in ClientsMessages /\ Head(message_queue).type = type
         /\ message_queue' \in Seq(ClientsMessages)
         /\ Len(message_queue') <= CLIENTS_QUEUE_SIZE
PROOF
  <1>1. message_queue \in Seq(ClientsMessages) /\ Len(message_queue) \in Nat
        /\ Len(message_queue) <= CLIENTS_QUEUE_SIZE
    BY LenProperties DEF TypeOK
  <1>2. /\ Running /\ message_queue # <<>> /\ Head(message_queue).type = type
        /\ message_queue' = Tail(message_queue)
    BY DEF Received
  <1>3. /\ Head(message_queue) \in ClientsMessages
        /\ Tail(message_queue) \in Seq(ClientsMessages)
        /\ Len(Tail(message_queue)) = Len(message_queue) - 1
    BY <1>1, <1>2, HeadTailProperties
  <1>4. QED BY <1>1, <1>2, <1>3, QueuesAssumption

LEMMA AtServerReceived ==
  ASSUME TypeOK, NEW type, ServerReceived(type)
  PROVE  /\ Running /\ server_queue # <<>> /\ server_queue' = Tail(server_queue)
         /\ Head(server_queue) \in ServerMessages /\ Head(server_queue).type = type
         /\ server_queue' \in Seq(ServerMessages)
         /\ Len(server_queue') <= SERVER_QUEUE_SIZE
PROOF
  <1>1. server_queue \in Seq(ServerMessages) /\ Len(server_queue) \in Nat
        /\ Len(server_queue) <= SERVER_QUEUE_SIZE
    BY LenProperties DEF TypeOK
  <1>2. /\ Running /\ server_queue # <<>> /\ Head(server_queue).type = type
        /\ server_queue' = Tail(server_queue)
    BY DEF ServerReceived
  <1>3. /\ Head(server_queue) \in ServerMessages
        /\ Tail(server_queue) \in Seq(ServerMessages)
        /\ Len(Tail(server_queue)) = Len(server_queue) - 1
    BY <1>1, <1>2, HeadTailProperties
  <1>4. QED BY <1>1, <1>2, <1>3, QueuesAssumption

LEMMA AtToClients ==
  ASSUME TypeOK, NEW m \in ClientsMessages, ToClients(m)
  PROVE  /\ message_queue' \in Seq(ClientsMessages)
         /\ Len(message_queue') <= CLIENTS_QUEUE_SIZE
         /\ Running' => message_queue' = Append(message_queue, m)
PROOF
  <1>1. message_queue \in Seq(ClientsMessages) /\ Len(message_queue) \in Nat
        /\ Len(message_queue) <= CLIENTS_QUEUE_SIZE
    BY LenProperties DEF TypeOK
  <1>2. /\ Append(message_queue, m) \in Seq(ClientsMessages)
        /\ Len(Append(message_queue, m)) = Len(message_queue) + 1
    BY <1>1, AppendProperties
  <1>3. QED BY <1>1, <1>2, QueuesAssumption DEF ToClients, Running

LEMMA AtToServer ==
  ASSUME TypeOK, NEW m \in ServerMessages, ToServer(m)
  PROVE  /\ server_queue' \in Seq(ServerMessages)
         /\ Len(server_queue') <= SERVER_QUEUE_SIZE
         /\ Running' => server_queue' = Append(server_queue, m)
PROOF
  <1>1. server_queue \in Seq(ServerMessages) /\ Len(server_queue) \in Nat
        /\ Len(server_queue) <= SERVER_QUEUE_SIZE
    BY LenProperties DEF TypeOK
  <1>2. /\ Append(server_queue, m) \in Seq(ServerMessages)
        /\ Len(Append(server_queue, m)) = Len(server_queue) + 1
    BY <1>1, AppendProperties
  <1>3. QED BY <1>1, <1>2, QueuesAssumption DEF ToServer, Running

(* A client that is put at the end of the list, and one that is taken out of it *)
LEMMA ListWith ==
  ASSUME TypeOK, NEW c \in Clients, ~Listed(c), list' = Append(list, c)
  PROVE  /\ list' \in Seq(Clients) /\ IsInjective(list')
         /\ \A d : Listed(d)' <=> Listed(d) \/ d = c
PROOF
  <1> DEFINE n == Len(list)
  <1>1. /\ list \in Seq(Clients) /\ n \in Nat /\ DOMAIN list = 1 .. n
        /\ \A i, j \in 1 .. n : list[i] = list[j] => i = j
    BY LenProperties DEF TypeOK, IsInjective
  <1>2. /\ list' \in Seq(Clients) /\ DOMAIN list' = 1 .. n + 1
        /\ \A i \in 1 .. n : list'[i] = list[i]
        /\ list'[n + 1] = c
    BY <1>1, AppendProperties, LenProperties
  <1> HIDE DEF n
  <1>3. \A d : Listed(d) <=> \E i \in 1 .. n : list[i] = d
    BY <1>1 DEF Listed, ToSet
  <1>4. \A d : Listed(d)' <=> \E i \in 1 .. n + 1 : list'[i] = d
    BY <1>2 DEF Listed, ToSet
  <1>5. 1 .. n + 1 = (1 .. n) \union {n + 1}
    BY <1>1
  <1>6. \A d : Listed(d)' <=> Listed(d) \/ d = c
    BY <1>2, <1>3, <1>4, <1>5
  <1>7. \A i, j \in 1 .. n + 1 : list'[i] = list'[j] => i = j
    BY <1>1, <1>2, <1>3, <1>5
  <1>8. QED BY <1>2, <1>6, <1>7 DEF IsInjective

LEMMA ListWithout ==
  ASSUME TypeOK, NEW c, Listed(c), list' = RemoveAt(list, Place(c))
  PROVE  /\ Place(c) \in 1 .. Len(list) /\ list[Place(c)] = c
         /\ list' \in Seq(Clients) /\ IsInjective(list')
         /\ \A d : Listed(d)' <=> Listed(d) /\ d # c
PROOF
  <1> DEFINE n == Len(list)
             p == Place(c)
             before == SubSeq(list, 1, p - 1)
             after  == SubSeq(list, p + 1, n)
  <1>1. /\ list \in Seq(Clients) /\ n \in Nat /\ DOMAIN list = 1 .. n
        /\ \A i, j \in 1 .. n : list[i] = list[j] => i = j
        /\ \A i \in 1 .. n : list[i] \in Clients
    BY LenProperties, ElementOfSeq DEF TypeOK, IsInjective
  <1>2. p \in 1 .. n /\ list[p] = c
    <2>1. \E i \in DOMAIN list : list[i] = c
      BY DEF Listed, ToSet
    <2>2. QED BY <1>1, <2>1 DEF Place
  <1>3. list' = before \o after
    BY DEF RemoveAt
  <1> HIDE DEF p, n
  <1>4. /\ before \in Seq(Clients) /\ Len(before) = p - 1
        /\ \A i \in 1 .. p - 1 : before[i] = list[i]
    <2>1. \A i \in 1 .. p - 1 : list[i] \in Clients
      BY <1>1, <1>2
    <2>2. 1 \in Int /\ p - 1 \in Int /\ (p - 1) - 1 + 1 = p - 1
          /\ (1 <= p - 1 \/ p - 1 = 0)
      BY <1>1, <1>2
    <2>3. \A i \in 1 .. p - 1 : 1 + i - 1 = i
      BY <1>1, <1>2
    <2>4. /\ before \in Seq(Clients)
          /\ Len(before) = IF 1 <= p - 1 THEN (p - 1) - 1 + 1 ELSE 0
          /\ \A i \in 1 .. (p - 1) - 1 + 1 : before[i] = list[1 + i - 1]
      BY <2>1, <2>2, SubSeqProperties
    <2>5. QED BY <2>2, <2>3, <2>4
  <1>5. /\ after \in Seq(Clients) /\ Len(after) = n - p
        /\ \A i \in 1 .. n - p : after[i] = list[i + p]
    <2>1. \A i \in p + 1 .. n : list[i] \in Clients
      BY <1>1, <1>2
    <2>2. p + 1 \in Int /\ n \in Int /\ n - (p + 1) + 1 = n - p
          /\ (p + 1 <= n \/ n - p = 0)
      BY <1>1, <1>2
    <2>3. \A i \in 1 .. n - p : (p + 1) + i - 1 = i + p
      BY <1>1, <1>2
    <2>4. /\ after \in Seq(Clients)
          /\ Len(after) = IF p + 1 <= n THEN n - (p + 1) + 1 ELSE 0
          /\ \A i \in 1 .. n - (p + 1) + 1 : after[i] = list[(p + 1) + i - 1]
      BY <2>1, <2>2, SubSeqProperties
    <2>5. QED BY <2>2, <2>3, <2>4
  <1> HIDE DEF before, after
  <1>6. /\ list' \in Seq(Clients) /\ Len(list') = (p - 1) + (n - p)
        /\ \A i \in 1 .. (p - 1) + (n - p) :
             list'[i] = IF i <= p - 1 THEN before[i] ELSE after[i - (p - 1)]
    BY <1>3, <1>4, <1>5, ConcatProperties
  <1>7. /\ DOMAIN list' = 1 .. n - 1
        /\ \A i \in 1 .. n - 1 : list'[i] = IF i <= p - 1 THEN list[i] ELSE list[i + 1]
    <2>1. (p - 1) + (n - p) = n - 1
      BY <1>1, <1>2
    <2>2. DOMAIN list' = 1 .. n - 1
      BY <1>1, <1>6, <2>1, LenProperties
    <2>3. ASSUME NEW i \in 1 .. n - 1
          PROVE  list'[i] = IF i <= p - 1 THEN list[i] ELSE list[i + 1]
      <3>1. list'[i] = IF i <= p - 1 THEN before[i] ELSE after[i - (p - 1)]
        BY <1>6, <2>1
      <3>2. CASE i <= p - 1
        BY <1>1, <1>2, <1>4, <3>1, <3>2
      <3>3. CASE ~(i <= p - 1)
        <4>1. i - (p - 1) \in 1 .. n - p /\ (i - (p - 1)) + p = i + 1
          BY <1>1, <1>2, <3>3
        <4>2. QED BY <1>5, <3>1, <3>3, <4>1
      <3>4. QED BY <3>2, <3>3
    <2>4. QED BY <2>2, <2>3
  <1>8. \A d : Listed(d) <=> \E i \in 1 .. n : list[i] = d
    BY <1>1 DEF Listed, ToSet
  <1>9. \A d : Listed(d)' <=> \E i \in 1 .. n - 1 : list'[i] = d
    BY <1>7 DEF Listed, ToSet
  <1>10. \A d : Listed(d)' => Listed(d) /\ d # c
    <2> SUFFICES ASSUME NEW i \in 1 .. n - 1
                 PROVE  Listed(list'[i]) /\ list'[i] # c
      BY <1>9
    <2>1. i \in 1 .. n /\ i + 1 \in 1 .. n /\ i + 1 # i
          /\ (i <= p - 1 => i # p) /\ (~(i <= p - 1) => i + 1 # p)
      BY <1>1, <1>2
    <2>2. QED BY <1>1, <1>2, <1>7, <1>8, <2>1
  <1>11. ASSUME NEW i \in 1 .. n, list[i] # c
         PROVE  \E j \in 1 .. n - 1 : list'[j] = list[i]
    <2>1. i # p
      BY <1>2, <1>11
    <2>2. CASE i <= p - 1
      <3>1. i \in 1 .. n - 1
        BY <1>1, <1>2, <2>2
      <3>2. QED BY <1>7, <2>2, <3>1
    <2>3. CASE ~(i <= p - 1)
      <3>1. i - 1 \in 1 .. n - 1 /\ ~(i - 1 <= p - 1) /\ (i - 1) + 1 = i
        BY <1>1, <1>2, <2>1, <2>3
      <3>2. QED BY <1>7, <3>1
    <2>4. QED BY <2>2, <2>3
  <1>12. \A d : Listed(d) /\ d # c => Listed(d)'
    BY <1>8, <1>9, <1>11
  <1>13. ASSUME NEW i \in 1 .. n - 1, NEW j \in 1 .. n - 1, list'[i] = list'[j]
         PROVE  i = j
    <2>1. i \in 1 .. n /\ i + 1 \in 1 .. n /\ j \in 1 .. n /\ j + 1 \in 1 .. n
      BY <1>1
    <2>2. \/ i <= p - 1 /\ j <= p - 1 /\ list[i] = list[j]
          \/ i <= p - 1 /\ ~(j <= p - 1) /\ list[i] = list[j + 1]
          \/ ~(i <= p - 1) /\ j <= p - 1 /\ list[i + 1] = list[j]
          \/ ~(i <= p - 1) /\ ~(j <= p - 1) /\ list[i + 1] = list[j + 1]
      BY <1>7, <1>13
    <2>3. \/ i <= p - 1 /\ j <= p - 1 /\ i = j
          \/ i <= p - 1 /\ ~(j <= p - 1) /\ i = j + 1
          \/ ~(i <= p - 1) /\ j <= p - 1 /\ i + 1 = j
          \/ ~(i <= p - 1) /\ ~(j <= p - 1) /\ i + 1 = j + 1
      BY <1>1, <2>1, <2>2
    <2>4. QED BY <1>1, <1>2, <2>1, <2>3
  <1>14. QED BY <1>2, <1>6, <1>7, <1>10, <1>12, <1>13 DEF IsInjective, n, p

-----------------------------------------------------------------------------
(* Types. *)

LEMMA InitTypes == Init => TypeOK /\ OwnerInv
PROOF
  <1> SUFFICES ASSUME Init
               PROVE  TypeOK /\ OwnerInv
    OBVIOUS
  <1>1. IsFiniteSet(Bystanders) /\ Bystanders \in SUBSET Clients
    <2>1. IsFiniteSet(Clients)
      BY BoundsAssumption, FS_Interval DEF Clients
    <2>2. Bystanders \in SUBSET Clients
      BY PeersAssumption
    <2>3. QED BY <2>1, <2>2, FS_Subset
  <1>2. list \in Seq(Clients) /\ IsInjective(list)
    <2> DEFINE n == Cardinality(Bystanders)
    <2>1. n \in Nat /\ ExistsBijection(1 .. n, Bystanders)
      BY <1>1, FS_CardinalityType
    <2>2. PICK f : f \in Bijection(1 .. n, Bystanders)
      BY <2>1 DEF ExistsBijection
    <2>3. f \in [1 .. n -> Bystanders] /\ IsInjective(f)
      BY <2>2 DEF Bijection, Injection
    <2>4. list \in [1 .. n -> Bystanders] /\ IsInjective(list)
      BY <2>3 DEF Init, SetToSeq
    <2>5. QED BY <1>1, <2>1, <2>4
  <1>3. TypeOK
    BY <1>2, BoundsAssumption, QueuesAssumption
    DEF Init, TypeOK, InitialClient, Records, ClientStates, Clients, Transactions
  <1>4. OwnerInv
    BY DEF Init, OwnerInv
  <1>5. QED BY <1>3, <1>4

(* A step that ends the program changes nothing but a queue. *)
LEMMA FailTypes ==
  ASSUME TypeOK, OwnerInv,
         \/ OpenClientFails \/ SubmitWithoutCredentials \/ NoStatus \/ DatabaseFails
         \/ UseAfterFree
  PROVE  TypeOK' /\ OwnerInv' /\ ~Running'
PROOF
  <1> USE DEF recordVars, peerVars, serverVars, authVars, history
  <1>1. CASE OpenClientFails
    BY <1>1, AtReceived DEF OpenClientFails, TypeOK, OwnerInv, Running
  <1>2. CASE SubmitWithoutCredentials
    BY <1>2, AtReceived DEF SubmitWithoutCredentials, TypeOK, OwnerInv, Running
  <1>3. CASE NoStatus
    BY <1>3, AtReceived DEF NoStatus, TypeOK, OwnerInv, Running
  <1>4. CASE DatabaseFails
    BY <1>4 DEF DatabaseFails, TypeOK, OwnerInv, Running
  <1>5. CASE UseAfterFree
    BY <1>5 DEF UseAfterFree, TypeOK, OwnerInv, Running
  <1>6. QED BY <1>1, <1>2, <1>3, <1>4, <1>5

LEMMA ConnectionTypes ==
  ASSUME TypeOK, OwnerInv, NEW c \in Clients,
         \/ Accept(c) \/ ConnectionClosed(c) \/ ConnectionStuck(c) \/ ConnectionReleases(c)
         \/ Destroy(c)
         \/ \E e \in Events : IncomingEvent(c, e)
  PROVE  TypeOK' /\ OwnerInv'
PROOF
  <1> USE DEF recordVars, serverVars, authVars, history
  <1>1. CASE Accept(c)
    BY <1>1, MessagesAre, AtToClients DEF Accept, TypeOK, OwnerInv
  <1>2. CASE ConnectionClosed(c)
    BY <1>2, MessagesAre, AtToClients DEF ConnectionClosed, Count, TypeOK, OwnerInv
  <1>3. CASE ConnectionReleases(c)
    BY <1>3 DEF ConnectionReleases, Count, TypeOK, OwnerInv
  <1>4. CASE Destroy(c)
    <2>1. /\ UNCHANGED <<state, message_queue, list, peerVars, serverVars, authVars>>
          /\ client' = [client EXCEPT ![c] = [state |-> "DESTROYED", auth_transaction |-> NULL,
                                             credentials |-> "none"]]
          /\ kept' = [kept EXCEPT ![c] = {}]
          /\ use_count' = [d \in Clients |-> use_count[d] - (IF d \in kept[c] THEN 1 ELSE 0)]
      BY <1>4 DEF Destroy
    <2>2. use_count' \in [Clients -> Int] /\ kept' \in [Clients -> SUBSET Clients]
      BY <2>1 DEF TypeOK
    <2>3. client' \in [Clients -> Records]
      BY <2>1 DEF TypeOK, Records, ClientStates
    <2>4. QED BY <2>1, <2>2, <2>3 DEF TypeOK, OwnerInv, peerVars
  <1>5. ASSUME NEW e \in Events, IncomingEvent(c, e)
        PROVE  TypeOK' /\ OwnerInv'
    <2>1. message_queue' \in Seq(ClientsMessages) /\ Len(message_queue') <= CLIENTS_QUEUE_SIZE
      BY <1>5, MessagesAre, AtToClients DEF IncomingEvent
    <2>2. use_count' \in [Clients -> Int]
      BY <1>5 DEF IncomingEvent, Count, TypeOK
    <2>3. prompt' \in [Clients -> {"none", "username", "password", "chat", "left"}]
      BY <1>5 DEF IncomingEvent, TypeOK
    <2>4. UNCHANGED <<state, client, list, kept, connection, serverVars, authVars>>
      BY <1>5 DEF IncomingEvent
    <2>5. QED BY <2>1, <2>2, <2>3, <2>4 DEF TypeOK, OwnerInv
  <1>6. CASE ConnectionStuck(c)
    BY <1>6 DEF ConnectionStuck, TypeOK, OwnerInv
  <1>7. QED BY <1>1, <1>2, <1>3, <1>4, <1>5, <1>6

(* The client of the message, and what it is told *)
LEMMA ReceivedFrom ==
  ASSUME TypeOK, NEW type, Received(type), type # "CLOSE"
  PROVE  /\ Head(message_queue).client \in Clients
         /\ type = "AUTH_EVENT" => Head(message_queue).arg \in Steps
         /\ type = "INCOMING_EVENT" => Head(message_queue).arg \in Events
  BY AtReceived, ClientsMessageIs

(* What messages there are about a client, after one is received... *)
LEMMA TakenAbout ==
  ASSUME TypeOK, NEW type, Received(type), NEW d \in Clients
  PROVE  LET c == Head(message_queue).client IN
         /\ OpensOf(d) = OpensOf(d)' + (IF type = "OPEN_CLIENT" /\ d = c THEN 1 ELSE 0)
         /\ ClosesOf(d) = ClosesOf(d)' + (IF type = "CLIENT_CONNECTION_CLOSED" /\ d = c
                                          THEN 1 ELSE 0)
         /\ AnswersOf(d) = AnswersOf(d)' + (IF type = "AUTH_EVENT" /\ d = c THEN 1 ELSE 0)
         /\ ToldOf(d) = ToldOf(d)'
              + (IF /\ type \in {"INCOMING_EVENT", "CLIENT_CONNECTION_CLOSED", "AUTH_EVENT"}
                    /\ d = c THEN 1 ELSE 0)
         /\ OpensOf(d)' \in Nat /\ ClosesOf(d)' \in Nat /\ AnswersOf(d)' \in Nat
         /\ ToldOf(d)' \in Nat
         /\ ToldToClose' # 0 => ToldToClose # 0
         /\ type = "CLOSE" => ToldToClose # 0
PROOF
  <1> DEFINE m == Head(message_queue)
             c == m.client
  <1>1. /\ message_queue # <<>> /\ message_queue' = Tail(message_queue) /\ m.type = type
        /\ message_queue' \in Seq(ClientsMessages)
        /\ m \in ClientsMessages
    BY AtReceived
  <1>2. \A types, e : Cardinality(About(message_queue', types, e)) \in Nat
    BY <1>1, AboutFinite
  <1>3. /\ OpensOf(d)' \in Nat /\ ClosesOf(d)' \in Nat /\ AnswersOf(d)' \in Nat
        /\ ToldOf(d)' \in Nat /\ ToldToClose' \in Nat
    BY <1>2, Zenon DEF OpensOf, ClosesOf, AnswersOf, ToldOf, ToldToClose, Answered, ToldClients
  <1>4. /\ OpensOf(d) = OpensOf(d)' + (IF m.type = "OPEN_CLIENT" /\ m.client = d THEN 1 ELSE 0)
        /\ ClosesOf(d) = ClosesOf(d)' + (IF m.type = "CLIENT_CONNECTION_CLOSED" /\ m.client = d
                                         THEN 1 ELSE 0)
        /\ AnswersOf(d) = AnswersOf(d)' + (IF m.type = "AUTH_EVENT" /\ m.client = d
                                           THEN 1 ELSE 0)
        /\ ToldOf(d) = ToldOf(d)'
             + (IF /\ m.type \in {"INCOMING_EVENT", "CLIENT_CONNECTION_CLOSED", "AUTH_EVENT"}
                   /\ m.client = d THEN 1 ELSE 0)
        /\ ToldToClose = ToldToClose' + (IF m.type = "CLOSE" /\ m.client = NULL
                                         THEN 1 ELSE 0)
    BY <1>1, Taken
  <1>5. type = "CLOSE" => m.client = NULL
    BY <1>1, ClientsMessageIs
  <1> HIDE DEF m
  <1>6. /\ ToldToClose = ToldToClose' + (IF m.type = "CLOSE" /\ m.client = NULL THEN 1 ELSE 0)
        /\ ToldToClose' \in Nat /\ m.type = type
    BY <1>1, <1>3, <1>4, Zenon
  <1>7. /\ ToldToClose' # 0 => ToldToClose # 0
        /\ type = "CLOSE" => ToldToClose # 0
    BY <1>5, <1>6 DEF ToldToClose
  <1>8. QED BY <1>1, <1>3, <1>4, <1>7, Zenon DEF m

LEMMA ServerTakenAbout ==
  ASSUME TypeOK, NEW type, ServerReceived(type), NEW d \in Clients
  PROVE  LET c == Head(server_queue).client IN
         /\ StartsOf(d) = StartsOf(d)' + (IF type = "START" /\ d = c THEN 1 ELSE 0)
         /\ OnServer(d) = OnServer(d)' + (IF type \in {"START", "AUTH_RESULT"} /\ d = c
                                          THEN 1 ELSE 0)
         /\ StartsOf(d)' \in Nat /\ OnServer(d)' \in Nat
PROOF
  <1> DEFINE m == Head(server_queue)
  <1>1. /\ server_queue # <<>> /\ server_queue' = Tail(server_queue) /\ m.type = type
        /\ server_queue' \in Seq(ServerMessages)
    BY AtServerReceived
  <1>2. \A types, e : Cardinality(About(server_queue', types, e)) \in Nat
    BY <1>1, AboutFinite
  <1>3. StartsOf(d)' \in Nat /\ OnServer(d)' \in Nat
    BY <1>2, Zenon DEF StartsOf, OnServer, Starting, ToldServer
  <1>4. /\ StartsOf(d) = StartsOf(d)' + (IF m.type = "START" /\ m.client = d THEN 1 ELSE 0)
        /\ OnServer(d) = OnServer(d)' + (IF m.type \in {"START", "AUTH_RESULT"} /\ m.client = d
                                         THEN 1 ELSE 0)
    BY <1>1, ServerTaken
  <1> HIDE DEF m
  <1>5. QED BY <1>1, <1>3, <1>4 DEF m

(* ... and after one is put *)
LEMMA PutAbout ==
  ASSUME TypeOK, NEW type, NEW c, NEW arg, Message(type, c, arg) \in ClientsMessages,
         message_queue' = Append(message_queue, Message(type, c, arg)), NEW d \in Clients
  PROVE  /\ OpensOf(d)' = OpensOf(d) + (IF type = "OPEN_CLIENT" /\ d = c THEN 1 ELSE 0)
         /\ ClosesOf(d)' = ClosesOf(d) + (IF type = "CLIENT_CONNECTION_CLOSED" /\ d = c
                                          THEN 1 ELSE 0)
         /\ AnswersOf(d)' = AnswersOf(d) + (IF type = "AUTH_EVENT" /\ d = c THEN 1 ELSE 0)
         /\ ToldOf(d)' = ToldOf(d)
              + (IF /\ type \in {"INCOMING_EVENT", "CLIENT_CONNECTION_CLOSED", "AUTH_EVENT"}
                    /\ d = c THEN 1 ELSE 0)
         /\ type # "CLOSE" => ToldToClose' = ToldToClose
         /\ OpensOf(d) \in Nat /\ ClosesOf(d) \in Nat /\ AnswersOf(d) \in Nat
         /\ ToldOf(d) \in Nat
PROOF
  <1> DEFINE m == Message(type, c, arg)
  <1>1. m.type = type /\ m.client = c
    BY DEF Message
  <1>2. m \in ClientsMessages /\ message_queue' = Append(message_queue, m)
    OBVIOUS
  <1> HIDE DEF m
  <1>3. QED BY <1>1, <1>2, Put, NumbersAreNatural

LEMMA ServerPutAbout ==
  ASSUME TypeOK, NEW type, NEW c, NEW arg, Message(type, c, arg) \in ServerMessages,
         server_queue' = Append(server_queue, Message(type, c, arg)), NEW d \in Clients
  PROVE  /\ StartsOf(d)' = StartsOf(d) + (IF type = "START" /\ d = c THEN 1 ELSE 0)
         /\ OnServer(d)' = OnServer(d) + (IF type \in {"START", "AUTH_RESULT"} /\ d = c
                                          THEN 1 ELSE 0)
PROOF
  <1> DEFINE m == Message(type, c, arg)
  <1>1. m.type = type /\ m.client = c
    BY DEF Message
  <1>2. m \in ServerMessages /\ server_queue' = Append(server_queue, m)
    OBVIOUS
  <1> HIDE DEF m
  <1>3. QED BY <1>1, <1>2, ServerPut

LEMMA OpenClientTypes ==
  ASSUME TypeOK, OwnerInv, \A c \in Clients : Arrival(c), OpenClient
  PROVE  /\ TypeOK' /\ OwnerInv'
         /\ connection[Head(message_queue).client] = "accepted"
         /\ ~Listed(Head(message_queue).client)
PROOF
  <1> DEFINE c == Head(message_queue).client
  <1>1. Received("OPEN_CLIENT")
    BY DEF OpenClient
  <1>2. c \in Clients
    BY <1>1, ReceivedFrom
  <1>3. connection[c] = "accepted"
    <2>1. OpensOf(c) >= 1 /\ OpensOf(c) \in Nat
      BY <1>1, <1>2, TakenAbout, NumbersAreNatural
    <2>2. QED BY <1>2, <2>1 DEF Arrival
  <1>4. ~Listed(c)
    <2>1. New(c)
      BY <1>3 DEF New
    <2>2. References(c) = 0
      BY <1>2, <2>1 DEF Arrival
    <2>3. /\ KeepersOf(c) \in Nat /\ ToldOf(c) \in Nat /\ OnServer(c) \in Nat
          /\ SubmittedOf(c) \in Nat
      BY <1>2, NumbersAreNatural
    <2>4. InList(c) \in {0, 2} /\ InConnection(c) \in {0, 1}
      BY DEF InList, InConnection
    <2>5. InList(c) = 0
      BY <1>2, <2>2, <2>3, <2>4, ReferencesAre
    <2>6. QED BY <2>5 DEF InList
  <1>5. message_queue' \in Seq(ClientsMessages) /\ Len(message_queue') <= CLIENTS_QUEUE_SIZE
    BY <1>1, AtReceived
  <1>6. list' \in Seq(Clients) /\ IsInjective(list')
    <2>1. list' = Append(list, c)
      BY DEF OpenClient
    <2>2. QED BY <1>2, <1>4, <2>1, ListWith
  <1>7. server_queue' \in Seq(ServerMessages) /\ Len(server_queue') <= SERVER_QUEUE_SIZE
    <2>1. ToServer(Message("START", c, NULL))
      BY DEF OpenClient, Start
    <2>2. QED BY <1>2, <2>1, MessagesAre, AtToServer
  <1>8. client' \in [Clients -> Records]
    <2>1. client' = [client EXCEPT ![c].state = "AUTHENTICATING_INIT", ![c].credentials = "empty"]
      BY DEF OpenClient
    <2> HIDE DEF c
    <2>2. client[c] \in Records
      BY <1>2 DEF TypeOK
    <2>3. QED BY <1>2, <2>1, <2>2 DEF TypeOK, Records, ClientStates
  <1>9. /\ connection' \in [Clients -> {"none", "accepted", "open", "closing", "stuck", "closed",
                                      "released"}]
        /\ use_count' \in [Clients -> Int]
    <2>1. connection' = [connection EXCEPT ![c] = "open"] /\ Count(c, 4)
      BY DEF OpenClient
    <2> HIDE DEF c
    <2>2. QED BY <1>2, <2>1 DEF Count, TypeOK
  <1>10. UNCHANGED <<state, kept, prompt, server_state, authVars>>
    BY DEF OpenClient
  <1>11. QED BY <1>3, <1>4, <1>5, <1>6, <1>7, <1>8, <1>9, <1>10 DEF TypeOK, OwnerInv, authVars

LEMMA AuthEventTypes ==
  ASSUME TypeOK, OwnerInv, AuthEvent
  PROVE  TypeOK' /\ OwnerInv'
PROOF
  <1> DEFINE c == Head(message_queue).client
             step == Head(message_queue).arg
  <1>1. Received("AUTH_EVENT")
    BY DEF AuthEvent
  <1>2. c \in Clients /\ step \in Steps
    BY <1>1, ReceivedFrom
  <1>3. message_queue' \in Seq(ClientsMessages) /\ Len(message_queue') <= CLIENTS_QUEUE_SIZE
    BY <1>1, AtReceived
  <1>4. server_queue' \in Seq(ServerMessages) /\ Len(server_queue') <= SERVER_QUEUE_SIZE
    <2>1. ToServer(Message("FINISH", NULL, client[c].auth_transaction))
      BY DEF AuthEvent, Finish
    <2>2. client[c].auth_transaction \in Transactions \union {NULL}
      BY <1>2 DEF TypeOK, Records
    <2>3. QED BY <1>2, <2>1, <2>2, MessagesAre, AtToServer
  <1>5. client' \in [Clients -> Records]
    <2>1. \A current \in ClientStates : StateAfter(step, current) \in ClientStates
      BY <1>2 DEF StateAfter, Steps, ClientStates
    <2>2. client[c] \in Records
      BY <1>2 DEF TypeOK
    <2>3. client' = [client EXCEPT ![c].state = StateAfter(step, @),
                                   ![c].auth_transaction = NULL,
                                   ![c].credentials = IF step = "AUTHENTICATED" THEN "none" ELSE @]
      BY DEF AuthEvent
    <2> HIDE DEF c, step
    <2>4. QED BY <1>2, <2>1, <2>2, <2>3 DEF TypeOK, Records
  <1>6. prompt' \in [Clients -> {"none", "username", "password", "chat", "left"}]
    <2>1. AskedFor(step, prompt[c]) \in {"none", "username", "password", "chat", "left"}
      BY <1>2 DEF AskedFor, Steps, TypeOK
    <2>2. prompt' = [prompt EXCEPT ![c] = AskedFor(step, prompt[c])]
      BY DEF AuthEvent
    <2>3. QED BY <2>1, <2>2 DEF TypeOK
  <1>7. use_count' \in [Clients -> Int]
    <2>1. Count(c, -1)
      BY DEF AuthEvent
    <2> HIDE DEF c
    <2>2. QED BY <1>2, <2>1 DEF Count, TypeOK
  <1>8. UNCHANGED <<state, list, kept, connection, server_state, authVars>>
    BY DEF AuthEvent
  <1>9. QED BY <1>3, <1>4, <1>5, <1>6, <1>7, <1>8 DEF TypeOK, OwnerInv, authVars

LEMMA SubmitTypes ==
  ASSUME TypeOK, OwnerInv, NEW e \in {"USERNAME_SUBMIT", "PASSWORD_SUBMIT"}, Submit(e)
  PROVE  TypeOK' /\ OwnerInv'
PROOF
  <1> DEFINE c == Head(message_queue).client
  <1>1. Received("INCOMING_EVENT")
    BY DEF Submit
  <1>2. c \in Clients
    BY <1>1, ReceivedFrom
  <1>3. message_queue' \in Seq(ClientsMessages) /\ Len(message_queue') <= CLIENTS_QUEUE_SIZE
    BY <1>1, AtReceived
  <1>4. server_queue' \in Seq(ServerMessages) /\ Len(server_queue') <= SERVER_QUEUE_SIZE
    <2>1. ToServer(Message("START", c, NULL))
      BY DEF Submit, Start
    <2>2. QED BY <1>2, <2>1, MessagesAre, AtToServer
  <1>5. client' \in [Clients -> Records]
    <2>1. \A current \in ClientStates : StateSubmitted(e, current) \in ClientStates
      BY DEF StateSubmitted, ClientStates
    <2>2. client[c] \in Records
      BY <1>2 DEF TypeOK
    <2>3. client' = [client EXCEPT ![c].state = StateSubmitted(e, @),
                                   ![c].credentials = CredentialsSubmitted(e)]
      BY DEF Submit
    <2> HIDE DEF c
    <2>4. QED BY <1>2, <2>1, <2>2, <2>3 DEF TypeOK, Records, CredentialsSubmitted
  <1>6. UNCHANGED <<state, list, kept, use_count, peerVars, server_state, authVars>>
    BY DEF Submit
  <1>7. QED BY <1>3, <1>4, <1>5, <1>6 DEF TypeOK, OwnerInv, authVars, peerVars

LEMMA ClientConnectionClosedTypes ==
  ASSUME TypeOK, OwnerInv, \A c \in Clients : Arrival(c), ClientConnectionClosed
  PROVE  LET c == Head(message_queue).client IN
         /\ TypeOK' /\ OwnerInv'
         /\ c \in Clients /\ Listed(c) /\ connection[c] \in {"closed", "released"}
         /\ Neighbours(c) \in SUBSET Clients
         /\ \A d \in Neighbours(c) : Listed(d) /\ d # c
         /\ \A d : Listed(d)' <=> Listed(d) /\ d # c
PROOF
  <1> DEFINE c == Head(message_queue).client
  <1>1. Received("CLIENT_CONNECTION_CLOSED")
    BY DEF ClientConnectionClosed
  <1>2. c \in Clients
    BY <1>1, ReceivedFrom
  <1>3. Listed(c) /\ connection[c] \in {"closed", "released"}
    <2>1. ClosesOf(c) >= 1 /\ ClosesOf(c) \in Nat
      BY <1>1, <1>2, TakenAbout, NumbersAreNatural
    <2>2. QED BY <1>2, <2>1 DEF Arrival
  <1>4. message_queue' \in Seq(ClientsMessages) /\ Len(message_queue') <= CLIENTS_QUEUE_SIZE
    BY <1>1, AtReceived
  <1>5. /\ list' = RemoveAt(list, Place(c))
        /\ kept' = [kept EXCEPT ![c] = Neighbours(c)]
        /\ use_count' = [d \in Clients |-> use_count[d] - (IF d = c THEN 3 ELSE 0)
                                            + (IF d \in Neighbours(c) THEN 1 ELSE 0)]
    BY DEF ClientConnectionClosed, ClientClose
  <1>6. /\ Place(c) \in 1 .. Len(list) /\ list[Place(c)] = c
        /\ list' \in Seq(Clients) /\ IsInjective(list')
        /\ \A d : Listed(d)' <=> Listed(d) /\ d # c
    BY <1>3, <1>5, ListWithout
  <1>7. ASSUME NEW d \in Neighbours(c)
        PROVE  d \in Clients /\ Listed(d) /\ d # c
    <2> DEFINE p == Place(c)
    <2>1. /\ list \in Seq(Clients) /\ Len(list) \in Nat /\ DOMAIN list = 1 .. Len(list)
          /\ \A i, j \in 1 .. Len(list) : list[i] = list[j] => i = j
          /\ \A i \in 1 .. Len(list) : list[i] \in Clients
      BY LenProperties, ElementOfSeq DEF TypeOK, IsInjective
    <2>2. p \in 1 .. Len(list) /\ list[p] = c
      BY <1>6
    <2>3. p \in 2 .. Len(list) - 1 /\ d \in {list[p - 1], list[p + 1]}
      BY <1>7 DEF Neighbours
    <2> HIDE DEF p
    <2>4. /\ p - 1 \in 1 .. Len(list) /\ p - 1 # p
          /\ p + 1 \in 1 .. Len(list) /\ p + 1 # p
      BY <2>1, <2>2, <2>3
    <2>5. \E i \in 1 .. Len(list) : i # p /\ d = list[i]
      BY <2>3, <2>4
    <2>6. QED BY <2>1, <2>2, <2>5 DEF Listed, ToSet
  <1>8. kept' \in [Clients -> SUBSET Clients] /\ Neighbours(c) \in SUBSET Clients
    <2>1. Neighbours(c) \in SUBSET Clients
      BY <1>7
    <2>2. QED BY <1>5, <2>1 DEF TypeOK
  <1>9. use_count' \in [Clients -> Int]
    BY <1>5 DEF TypeOK
  <1>10. state' \in {"OPEN", "CLOSING", "CLOSED"}
    BY DEF ClientConnectionClosed, TypeOK
  <1>11. UNCHANGED <<client, peerVars, serverVars, authVars>>
    BY DEF ClientConnectionClosed
  <1>12. TypeOK' /\ OwnerInv'
    BY <1>4, <1>6, <1>8, <1>9, <1>10, <1>11
    DEF TypeOK, OwnerInv, peerVars, serverVars, authVars
  <1>13. QED BY <1>2, <1>3, <1>6, <1>7, <1>8, <1>12

LEMMA EventTypes ==
  ASSUME TypeOK, OwnerInv, OtherEvent \/ UserLeave \/ Close \/ Ignore
  PROVE  TypeOK' /\ OwnerInv'
PROOF
  <1> DEFINE c == Head(message_queue).client
  <1> USE DEF recordVars, peerVars, serverVars, authVars, history
  <1>1. CASE OtherEvent
    <2>1. Received("INCOMING_EVENT") /\ Count(c, -1)
          /\ UNCHANGED <<state, client, list, kept, peerVars, serverVars, authVars>>
      BY <1>1 DEF OtherEvent
    <2>2. message_queue' \in Seq(ClientsMessages) /\ Len(message_queue') <= CLIENTS_QUEUE_SIZE
          /\ c \in Clients
      BY <2>1, AtReceived, ReceivedFrom
    <2> HIDE DEF c
    <2>3. QED BY <2>1, <2>2 DEF Count, TypeOK, OwnerInv
  <1>2. CASE UserLeave
    <2>1. /\ Received("INCOMING_EVENT") /\ Count(c, -1)
          /\ client' = [client EXCEPT ![c].state = IF @ = "ACTIVE" THEN "DISCONNECTING_FROM_ACTIVE"
                                                                  ELSE "DISCONNECTING"]
          /\ connection' = [connection EXCEPT ![c] = IF @ = "open" THEN "closing" ELSE @]
          /\ UNCHANGED <<state, list, kept, prompt, unasked, serverVars, authVars>>
      BY <1>2 DEF UserLeave
    <2>2. message_queue' \in Seq(ClientsMessages) /\ Len(message_queue') <= CLIENTS_QUEUE_SIZE
          /\ c \in Clients
      BY <2>1, AtReceived, ReceivedFrom
    <2> HIDE DEF c
    <2>3. client' \in [Clients -> Records]
      <3>1. client[c] \in Records
        BY <2>2 DEF TypeOK
      <3>2. QED BY <2>1, <2>2, <3>1 DEF TypeOK, Records, ClientStates
    <2>4. /\ use_count' \in [Clients -> Int]
          /\ connection' \in [Clients -> {"none", "accepted", "open", "closing", "stuck", "closed",
                                      "released"}]
      BY <2>1, <2>2 DEF Count, TypeOK
    <2>5. QED BY <2>1, <2>2, <2>3, <2>4 DEF TypeOK, OwnerInv
  <1>3. CASE Close
    <2>1. message_queue' \in Seq(ClientsMessages) /\ Len(message_queue') <= CLIENTS_QUEUE_SIZE
      BY <1>3, AtReceived DEF Close
    <2>2. QED BY <1>3, <2>1 DEF Close, TypeOK, OwnerInv
  <1>4. CASE Ignore
    <2>1. message_queue' \in Seq(ClientsMessages) /\ Len(message_queue') <= CLIENTS_QUEUE_SIZE
      BY <1>4, AtReceived DEF Ignore
    <2>2. QED BY <1>4, <2>1 DEF Ignore, TypeOK, OwnerInv
  <1>5. QED BY <1>1, <1>2, <1>3, <1>4

(* The client or the transaction of a message for chat_server *)
LEMMA ServerReceivedFrom ==
  ASSUME TypeOK, NEW type, ServerReceived(type)
  PROVE  /\ type # "FINISH" => Head(server_queue).client \in Clients
         /\ type = "AUTH_RESULT" => Head(server_queue).arg \in Steps
         /\ type = "FINISH" => Head(server_queue).arg \in Transactions \union {NULL}
  BY AtServerReceived, ServerMessageIs

(* The transaction chat_auth takes is one that is free. *)
LEMMA FirstFree ==
  ASSUME FreeTransactions # {}
  PROVE  LET t == CHOOSE u \in FreeTransactions : \A v \in FreeTransactions : u <= v IN
         t \in Transactions /\ transaction[t] = "free"
PROOF
  <1> DEFINE less == OpToRel(<, Nat)
  <1>1. FreeTransactions \subseteq Nat
    BY BoundsAssumption DEF FreeTransactions, Transactions
  <1>2. IsWellFoundedOn(less, Nat)
    BY NatLessThanWellFounded
  <1>3. less = {ss \in Nat \X Nat : ss[1] < ss[2]}
    BY DEF OpToRel
  <1> HIDE DEF less
  <1>4. PICK u \in FreeTransactions : \A v \in FreeTransactions : <<v, u>> \notin less
    BY <1>1, <1>2, WFMin
  <1>5. ASSUME NEW v \in FreeTransactions
        PROVE  u <= v
    <2>1. u \in Nat /\ v \in Nat
      BY <1>1
    <2>2. <<v, u>> \in Nat \X Nat /\ <<v, u>>[1] = v /\ <<v, u>>[2] = u
      BY <2>1
    <2>3. ~(<<v, u>>[1] < <<v, u>>[2])
      BY <1>3, <1>4, <2>2
    <2>4. QED BY <2>1, <2>2, <2>3
  <1>6. \E w \in FreeTransactions : \A v \in FreeTransactions : w <= v
    BY <1>5
  <1>7. (CHOOSE w \in FreeTransactions : \A v \in FreeTransactions : w <= v) \in FreeTransactions
    BY <1>6
  <1>8. QED BY <1>7 DEF FreeTransactions

LEMMA ServerStartTypes ==
  ASSUME TypeOK, OwnerInv, ServerStart
  PROVE  LET c == Head(server_queue).client
             t == CHOOSE u \in FreeTransactions : \A v \in FreeTransactions : u <= v IN
         /\ TypeOK' /\ OwnerInv'
         /\ c \in Clients /\ t \in Transactions /\ transaction[t] = "free"
PROOF
  <1> DEFINE c == Head(server_queue).client
             t == CHOOSE u \in FreeTransactions : \A v \in FreeTransactions : u <= v
  <1>1. /\ ServerReceived("START") /\ FreeTransactions # {} /\ Len(auth_queue) < AUTH_QUEUE_SIZE
        /\ auth_queue' = Append(auth_queue, t)
        /\ transaction' = [transaction EXCEPT ![t] = "PROCESSING"]
        /\ owner' = [owner EXCEPT ![t] = c]
        /\ client' = [client EXCEPT ![c].auth_transaction = t]
        /\ UNCHANGED <<state, message_queue, list, kept, use_count, peerVars, server_state>>
    BY DEF ServerStart
  <1>2. c \in Clients
        /\ server_queue' \in Seq(ServerMessages) /\ Len(server_queue') <= SERVER_QUEUE_SIZE
    BY <1>1, AtServerReceived, ServerReceivedFrom
  <1>3. t \in Transactions /\ transaction[t] = "free"
    BY <1>1, FirstFree
  <1> HIDE DEF c, t
  <1>4. auth_queue' \in Seq(Transactions) /\ Len(auth_queue') <= AUTH_QUEUE_SIZE
    <2>1. auth_queue \in Seq(Transactions) /\ Len(auth_queue) \in Nat
      BY LenProperties DEF TypeOK
    <2>2. /\ Append(auth_queue, t) \in Seq(Transactions)
          /\ Len(Append(auth_queue, t)) = Len(auth_queue) + 1
      BY <1>3, <2>1, AppendProperties
    <2>3. QED BY <1>1, <2>1, <2>2, QueuesAssumption
  <1>5. client' \in [Clients -> Records]
    <2>1. client[c] \in Records
      BY <1>2 DEF TypeOK
    <2>2. QED BY <1>1, <1>2, <1>3, <2>1 DEF TypeOK, Records
  <1>6. /\ transaction' \in [Transactions -> {"free", "PROCESSING", "CANCELLED", "DONE"}]
        /\ owner' \in [Transactions -> Clients \union {NULL}]
        /\ OwnerInv'
    BY <1>1, <1>2, <1>3 DEF TypeOK, OwnerInv
  <1>7. TypeOK'
    BY <1>1, <1>2, <1>4, <1>5, <1>6 DEF TypeOK, peerVars
  <1>8. QED BY <1>2, <1>3, <1>6, <1>7 DEF c, t

LEMMA ServerStartRefusedTypes ==
  ASSUME TypeOK, OwnerInv, ServerStartRefused
  PROVE  TypeOK' /\ OwnerInv' /\ Head(server_queue).client \in Clients
PROOF
  <1> DEFINE c == Head(server_queue).client
  <1>1. /\ ServerReceived("START") /\ ToClients(Message("AUTH_EVENT", c, "CLOSED")) /\ Count(c, -1)
        /\ UNCHANGED <<state, client, list, kept, peerVars, server_state, authVars>>
    BY DEF ServerStartRefused
  <1>2. c \in Clients
        /\ server_queue' \in Seq(ServerMessages) /\ Len(server_queue') <= SERVER_QUEUE_SIZE
    BY <1>1, AtServerReceived, ServerReceivedFrom
  <1> HIDE DEF c
  <1>3. message_queue' \in Seq(ClientsMessages) /\ Len(message_queue') <= CLIENTS_QUEUE_SIZE
    BY <1>1, <1>2, MessagesAre, AtToClients DEF Steps
  <1>4. TypeOK' /\ OwnerInv'
    BY <1>1, <1>2, <1>3 DEF Count, TypeOK, OwnerInv, peerVars, authVars
  <1>5. QED BY <1>2, <1>4 DEF c

LEMMA ServerFinishTypes ==
  ASSUME TypeOK, OwnerInv, ServerFinish
  PROVE  TypeOK' /\ OwnerInv'
PROOF
  <1> DEFINE t == Head(server_queue).arg
  <1>1. /\ ServerReceived("FINISH")
        /\ transaction' = IF t = NULL THEN transaction
                          ELSE [transaction EXCEPT ![t] = Finished(t)]
        /\ owner' = [u \in Transactions |-> IF transaction'[u] = "free" THEN NULL ELSE owner[u]]
        /\ UNCHANGED <<state, message_queue, recordVars, peerVars, server_state, auth_queue>>
    BY DEF ServerFinish
  <1>2. t \in Transactions \union {NULL}
        /\ server_queue' \in Seq(ServerMessages) /\ Len(server_queue') <= SERVER_QUEUE_SIZE
    BY <1>1, AtServerReceived, ServerReceivedFrom
  <1> HIDE DEF t
  <1>3. /\ transaction' \in [Transactions -> {"free", "PROCESSING", "CANCELLED", "DONE"}]
        /\ \A u \in Transactions : transaction[u] = "free" => transaction'[u] = "free"
    BY <1>1, <1>2 DEF Finished, TypeOK
  <1>4. owner' \in [Transactions -> Clients \union {NULL}] /\ OwnerInv'
    BY <1>1, <1>3 DEF TypeOK, OwnerInv
  <1>5. TypeOK'
    BY <1>1, <1>2, <1>3, <1>4 DEF TypeOK, recordVars, peerVars
  <1>6. QED BY <1>4, <1>5

LEMMA ServerTypes ==
  ASSUME TypeOK, OwnerInv, ServerResult \/ ServerClose \/ ServerIgnore
  PROVE  TypeOK' /\ OwnerInv'
PROOF
  <1> USE DEF recordVars, peerVars, serverVars, authVars, history
  <1>1. CASE ServerResult
    <2> DEFINE m == Head(server_queue)
    <2>1. /\ ServerReceived("AUTH_RESULT") /\ ToClients(Message("AUTH_EVENT", m.client, m.arg))
          /\ UNCHANGED <<state, recordVars, peerVars, server_state, authVars>>
      BY <1>1 DEF ServerResult
    <2>2. m.client \in Clients /\ m.arg \in Steps
          /\ server_queue' \in Seq(ServerMessages) /\ Len(server_queue') <= SERVER_QUEUE_SIZE
      BY <2>1, AtServerReceived, ServerReceivedFrom
    <2> HIDE DEF m
    <2>3. message_queue' \in Seq(ClientsMessages) /\ Len(message_queue') <= CLIENTS_QUEUE_SIZE
      BY <2>1, <2>2, MessagesAre, AtToClients
    <2>4. QED BY <2>1, <2>2, <2>3 DEF TypeOK, OwnerInv
  <1>2. CASE ServerClose
    <2>1. CloseMessage \in ClientsMessages
      BY DEF ClientsMessages
    <2>2. message_queue' \in Seq(ClientsMessages) /\ Len(message_queue') <= CLIENTS_QUEUE_SIZE
      BY <1>2, <2>1, AtToClients DEF ServerClose
    <2>3. QED BY <1>2, <2>2 DEF ServerClose, TypeOK, OwnerInv
  <1>3. CASE ServerIgnore
    <2>1. server_queue' \in Seq(ServerMessages) /\ Len(server_queue') <= SERVER_QUEUE_SIZE
      BY <1>3, AtServerReceived DEF ServerIgnore
    <2>2. QED BY <1>3, <2>1 DEF ServerIgnore, TypeOK, OwnerInv
  <1>4. QED BY <1>1, <1>2, <1>3

LEMMA AuthTypes ==
  ASSUME TypeOK, OwnerInv, AuthAnswers \/ AuthDiscards
  PROVE  LET t == Head(auth_queue) IN
         /\ TypeOK' /\ OwnerInv'
         /\ t \in Transactions /\ owner[t] \in Clients
PROOF
  <1> DEFINE t == Head(auth_queue)
             c == owner[t]
  <1>1. auth_queue # <<>> /\ transaction[t] \in {"PROCESSING", "CANCELLED"}
        /\ auth_queue' = Tail(auth_queue)
    BY DEF AuthAnswers, AuthDiscards
  <1>2. /\ t \in Transactions /\ auth_queue' \in Seq(Transactions)
        /\ Len(auth_queue') <= AUTH_QUEUE_SIZE
    <2>1. auth_queue \in Seq(Transactions) /\ Len(auth_queue) \in Nat
          /\ Len(auth_queue) <= AUTH_QUEUE_SIZE
      BY LenProperties DEF TypeOK
    <2>2. QED BY <1>1, <2>1, HeadTailProperties, QueuesAssumption
  <1>3. c \in Clients
    BY <1>1, <1>2 DEF OwnerInv
  <1>4. CASE AuthAnswers
    <2>1. /\ transaction' = [transaction EXCEPT ![t] = "DONE"]
          /\ \E step \in Answers(client[c].credentials) : ToServer(Message("AUTH_RESULT", c, step))
          /\ UNCHANGED <<state, message_queue, recordVars, peerVars, server_state, owner>>
      BY <1>4 DEF AuthAnswers
    <2> HIDE DEF t, c
    <2>2. Answers(client[c].credentials) \subseteq Steps
      BY <1>3 DEF TypeOK, Records, Answers, Steps
    <2>3. server_queue' \in Seq(ServerMessages) /\ Len(server_queue') <= SERVER_QUEUE_SIZE
      BY <1>3, <2>1, <2>2, MessagesAre, AtToServer
    <2>4. OwnerInv'
      BY <1>2, <1>3, <2>1 DEF OwnerInv, TypeOK, c
    <2>5. TypeOK'
      BY <1>2, <2>1, <2>3 DEF TypeOK, recordVars, peerVars
    <2>6. QED BY <1>2, <1>3, <2>4, <2>5 DEF t, c
  <1>5. CASE AuthDiscards
    <2>1. /\ transaction' = [transaction EXCEPT ![t] = "free"]
          /\ owner' = [owner EXCEPT ![t] = NULL]
          /\ Count(c, -1)
          /\ UNCHANGED <<state, message_queue, client, list, kept, peerVars, serverVars>>
      BY <1>5 DEF AuthDiscards
    <2> HIDE DEF t, c
    <2>2. OwnerInv'
      BY <1>2, <2>1 DEF OwnerInv, TypeOK
    <2>3. TypeOK'
      BY <1>2, <1>3, <2>1 DEF Count, TypeOK, peerVars, serverVars
    <2>4. QED BY <1>2, <1>3, <2>2, <2>3 DEF t, c
  <1>6. QED BY <1>4, <1>5

-----------------------------------------------------------------------------
(* What is said of each client, after a step. *)

(* Nothing about the client changes. *)
LEMMA NothingAbout ==
  ASSUME TypeOK, NEW d \in Clients, NumberInv(d),
         connection'[d] = connection[d], client'[d] = client[d], kept'[d] = kept[d],
         use_count'[d] = use_count[d], Listed(d)' <=> Listed(d),
         d \in announced' => d \in announced, overlapped \subseteq overlapped', again \subseteq again',
         refused => refused', state' = "OPEN" => state = "OPEN",
         server_state' = "OPEN" => server_state = "OPEN",
         OpensOf(d)' = OpensOf(d), ClosesOf(d)' = ClosesOf(d), AnswersOf(d)' = AnswersOf(d),
         ToldOf(d)' = ToldOf(d), StartsOf(d)' = StartsOf(d), OnServer(d)' = OnServer(d),
         SubmittedOf(d)' = SubmittedOf(d), KeepersOf(d)' = KeepersOf(d)
  PROVE  NumberInv(d)'
PROOF
  <1>1. References(d)' = References(d) /\ LoginsOf(d)' = LoginsOf(d)
    BY ReferencesAre DEF InList, InConnection
  <1>2. Arrival(d)' /\ KnownInv(d)'
    BY <1>1 DEF NumberInv, Arrival, New, KnownInv, Known
  <1>3. ~refused' => Counted(d)' /\ (d \notin overlapped' => Login(d)')
    BY <1>1 DEF NumberInv, Counted, Login
  <1>4. state' = "OPEN" /\ ~refused' => Announced(d)'
    BY <1>1 DEF NumberInv, Announced, Known
  <1>5. QED BY <1>2, <1>3, <1>4 DEF NumberInv

(* What refers to a client is among its references. *)
LEMMA ReferencesAtLeast ==
  ASSUME TypeOK, NEW c \in Clients
  PROVE  /\ References(c) \in Nat /\ LoginsOf(c) \in Nat
         /\ Listed(c) => References(c) >= 2
         /\ connection[c] \in {"open", "closing", "stuck", "closed"} => References(c) >= 1
         /\ ToldOf(c) <= References(c) /\ OnServer(c) <= References(c)
         /\ SubmittedOf(c) <= References(c) /\ KeepersOf(c) <= References(c)
         /\ OnServer(c) <= LoginsOf(c) /\ SubmittedOf(c) <= LoginsOf(c)
         /\ AnswersOf(c) <= LoginsOf(c)
  BY NumbersAreNatural, ReferencesAre DEF InList, InConnection

LEMMA AcceptStep ==
  ASSUME IInv, NEW c \in Clients, Accept(c), Running', NEW d \in Clients
  PROVE  CloseInv' /\ NumberInv(d)'
PROOF
  <1>1. /\ TypeOK /\ CloseInv /\ NumberInv(d)
        /\ connection[c] = "none" /\ connection' = [connection EXCEPT ![c] = "accepted"]
        /\ UNCHANGED <<state, recordVars, serverVars, authVars, history>>
    BY DEF IInv, Accept
  <1>2. message_queue' = Append(message_queue, Message("OPEN_CLIENT", c, NULL))
    BY <1>1, MessagesAre, AtToClients DEF Accept
  <1>3. /\ OpensOf(d)' = OpensOf(d) + (IF d = c THEN 1 ELSE 0)
        /\ ClosesOf(d)' = ClosesOf(d) /\ AnswersOf(d)' = AnswersOf(d) /\ ToldOf(d)' = ToldOf(d)
        /\ ToldToClose' = ToldToClose
    <2>1. Message("OPEN_CLIENT", c, NULL) \in ClientsMessages
      BY MessagesAre
    <2>2. QED BY <1>1, <1>2, <2>1, PutAbout
  <1>4. /\ StartsOf(d)' = StartsOf(d) /\ OnServer(d)' = OnServer(d)
        /\ SubmittedOf(d)' = SubmittedOf(d) /\ KeepersOf(d)' = KeepersOf(d)
        /\ Listed(d)' <=> Listed(d)
    BY <1>1, NoneMovedOnServer, SameTransactions, SameKeepers
    DEF serverVars, authVars, recordVars, Listed
  <1>5. CloseInv'
    BY <1>1, <1>3 DEF CloseInv, serverVars
  <1>6. CASE d = c
    <2>1. References(d)' = References(d) /\ LoginsOf(d)' = LoginsOf(d)
      BY <1>1, <1>3, <1>4, <1>6, ReferencesAre DEF InList, InConnection, TypeOK
    <2>2. Arrival(d)' /\ KnownInv(d)'
      BY <1>1, <1>3, <1>4, <1>6, <2>1, NumbersAreNatural
      DEF NumberInv, Arrival, New, KnownInv, Known, TypeOK, recordVars, history
    <2>3. ~refused' => Counted(d)' /\ (d \notin overlapped' => Login(d)')
      BY <1>1, <1>4, <2>1 DEF NumberInv, Counted, Login, recordVars, serverVars, history
    <2>4. state' = "OPEN" /\ ~refused' => Announced(d)'
      BY <1>1, <1>4, <2>1 DEF NumberInv, Announced, Known, recordVars, history
    <2>5. QED BY <1>5, <2>2, <2>3, <2>4 DEF NumberInv
  <1>7. CASE d # c
    <2>1. connection'[d] = connection[d]
      BY <1>1, <1>7 DEF TypeOK
    <2>2. NumberInv(d)'
      BY <1>1, <1>3, <1>4, <1>7, <2>1, NumbersAreNatural, NothingAbout
      DEF recordVars, serverVars, history
    <2>3. QED BY <1>5, <2>2
  <1>8. QED BY <1>6, <1>7

LEMMA IncomingEventStep ==
  ASSUME IInv, NEW c \in Clients, NEW e \in Events, IncomingEvent(c, e), Running',
         NEW d \in Clients
  PROVE  CloseInv' /\ NumberInv(d)'
PROOF
  <1>1. /\ TypeOK /\ CloseInv /\ NumberInv(d)
        /\ connection[c] \in {"open", "closing"}
        /\ use_count' = [use_count EXCEPT ![c] = @ + 1]
        /\ UNCHANGED <<state, client, list, kept, connection, serverVars, authVars, history>>
    BY DEF IInv, IncomingEvent, Count
  <1>2. message_queue' = Append(message_queue, Message("INCOMING_EVENT", c, e))
        /\ Message("INCOMING_EVENT", c, e) \in ClientsMessages
    BY <1>1, MessagesAre, AtToClients DEF IncomingEvent
  <1>3. /\ OpensOf(d)' = OpensOf(d) /\ ClosesOf(d)' = ClosesOf(d) /\ AnswersOf(d)' = AnswersOf(d)
        /\ ToldOf(d)' = ToldOf(d) + (IF d = c THEN 1 ELSE 0)
        /\ ToldToClose' = ToldToClose /\ ToldOf(d) \in Nat
    BY <1>1, <1>2, PutAbout
  <1>4. /\ StartsOf(d)' = StartsOf(d) /\ OnServer(d)' = OnServer(d)
        /\ SubmittedOf(d)' = SubmittedOf(d) /\ KeepersOf(d)' = KeepersOf(d)
        /\ Listed(d)' <=> Listed(d)
    BY <1>1, NoneMovedOnServer, SameTransactions, SameKeepers DEF serverVars, authVars, Listed
  <1>5. CloseInv'
    BY <1>1, <1>3 DEF CloseInv, serverVars
  <1>6. CASE d = c
    <2>1. References(d) \in Nat /\ References(d) >= 1 /\ use_count[d] \in Int
      BY <1>1, <1>6, ReferencesAtLeast DEF TypeOK
    <2>2. References(d)' = References(d) + 1 /\ LoginsOf(d)' = LoginsOf(d)
      BY <1>1, <1>3, <1>4, <1>6, ReferencesAre, NumbersAreNatural DEF InList, InConnection
    <2>3. Arrival(d)' /\ KnownInv(d)'
      BY <1>1, <1>3, <1>4, <1>6 DEF NumberInv, Arrival, New, KnownInv, Known, history
    <2>4. ~refused' => Counted(d)' /\ (d \notin overlapped' => Login(d)')
      BY <1>1, <1>4, <1>6, <2>1, <2>2 DEF NumberInv, Counted, Login, serverVars, history, TypeOK
    <2>5. state' = "OPEN" /\ ~refused' => Announced(d)'
      BY <1>1, <1>4, <2>2 DEF NumberInv, Announced, Known, history
    <2>6. QED BY <1>5, <2>3, <2>4, <2>5 DEF NumberInv
  <1>7. CASE d # c
    <2>1. use_count'[d] = use_count[d]
      BY <1>1, <1>7 DEF TypeOK
    <2>2. NumberInv(d)'
      BY <1>1, <1>3, <1>4, <1>7, <2>1, NothingAbout DEF serverVars, history
    <2>3. QED BY <1>5, <2>2
  <1>8. QED BY <1>6, <1>7

LEMMA ConnectionClosedStep ==
  ASSUME IInv, NEW c \in Clients, ConnectionClosed(c), Running', NEW d \in Clients
  PROVE  CloseInv' /\ NumberInv(d)'
PROOF
  <1>1. /\ TypeOK /\ CloseInv /\ NumberInv(d)
        /\ connection[c] \in {"open", "closing"}
        /\ connection' = [connection EXCEPT ![c] = "closed"]
        /\ use_count' = [use_count EXCEPT ![c] = @ + 1]
        /\ UNCHANGED <<state, client, list, kept, serverVars, authVars, history>>
    BY DEF IInv, ConnectionClosed, Count
  <1>2. message_queue' = Append(message_queue, Message("CLIENT_CONNECTION_CLOSED", c, NULL))
        /\ Message("CLIENT_CONNECTION_CLOSED", c, NULL) \in ClientsMessages
    BY <1>1, MessagesAre, AtToClients DEF ConnectionClosed
  <1>3. /\ OpensOf(d)' = OpensOf(d) /\ AnswersOf(d)' = AnswersOf(d)
        /\ ClosesOf(d)' = ClosesOf(d) + (IF d = c THEN 1 ELSE 0)
        /\ ToldOf(d)' = ToldOf(d) + (IF d = c THEN 1 ELSE 0)
        /\ ToldToClose' = ToldToClose /\ ToldOf(d) \in Nat /\ ClosesOf(d) \in Nat
        /\ OpensOf(d) \in Nat
    BY <1>1, <1>2, PutAbout
  <1>4. /\ StartsOf(d)' = StartsOf(d) /\ OnServer(d)' = OnServer(d)
        /\ SubmittedOf(d)' = SubmittedOf(d) /\ KeepersOf(d)' = KeepersOf(d)
        /\ Listed(d)' <=> Listed(d)
    BY <1>1, NoneMovedOnServer, SameTransactions, SameKeepers DEF serverVars, authVars, Listed
  <1>5. CloseInv'
    BY <1>1, <1>3 DEF CloseInv, serverVars
  <1>6. CASE d = c
    <2>1. /\ References(d) \in Nat /\ References(d) >= 1 /\ use_count[d] \in Int
          /\ connection[d] \in {"open", "closing"} /\ connection'[d] = "closed"
          /\ use_count'[d] = use_count[d] + 1
      BY <1>1, <1>6, ReferencesAtLeast DEF TypeOK
    <2>2. References(d)' = References(d) + 1 /\ LoginsOf(d)' = LoginsOf(d)
      BY <1>1, <1>3, <1>4, <1>6, <2>1, ReferencesAre, NumbersAreNatural DEF InList, InConnection
    <2>3. Arrival(d)' /\ KnownInv(d)'
      BY <1>1, <1>3, <1>4, <1>6, <2>1 DEF NumberInv, Arrival, New, KnownInv, Known, history
    <2>4. ~refused' => Counted(d)' /\ (d \notin overlapped' => Login(d)')
      BY <1>1, <1>4, <1>6, <2>1, <2>2 DEF NumberInv, Counted, Login, serverVars, history
    <2>5. state' = "OPEN" /\ ~refused' => Announced(d)'
      BY <1>1, <1>4, <2>2 DEF NumberInv, Announced, Known, history
    <2>6. QED BY <1>5, <2>3, <2>4, <2>5 DEF NumberInv
  <1>7. CASE d # c
    <2>1. use_count'[d] = use_count[d] /\ connection'[d] = connection[d]
      BY <1>1, <1>7 DEF TypeOK
    <2>2. NumberInv(d)'
      BY <1>1, <1>3, <1>4, <1>7, <2>1, NothingAbout DEF serverVars, history
    <2>3. QED BY <1>5, <2>2
  <1>8. QED BY <1>6, <1>7

LEMMA ConnectionStuckStep ==
  ASSUME IInv, NEW c \in Clients, ConnectionStuck(c), Running', NEW d \in Clients
  PROVE  CloseInv' /\ NumberInv(d)'
PROOF
  <1>1. /\ TypeOK /\ CloseInv /\ NumberInv(d)
        /\ connection[c] = "closing"
        /\ connection' = [connection EXCEPT ![c] = "stuck"]
        /\ UNCHANGED <<state, message_queue, recordVars, serverVars, authVars, history>>
    BY DEF IInv, ConnectionStuck
  <1>2. /\ OpensOf(d)' = OpensOf(d) /\ ClosesOf(d)' = ClosesOf(d) /\ AnswersOf(d)' = AnswersOf(d)
        /\ ToldOf(d)' = ToldOf(d) /\ ToldToClose' = ToldToClose
        /\ StartsOf(d)' = StartsOf(d) /\ OnServer(d)' = OnServer(d)
        /\ SubmittedOf(d)' = SubmittedOf(d) /\ KeepersOf(d)' = KeepersOf(d)
        /\ Listed(d)' <=> Listed(d)
    BY <1>1, NoneMoved, NoneMovedOnServer, SameTransactions, SameKeepers
    DEF serverVars, authVars, recordVars, Listed
  <1>3. CloseInv'
    BY <1>1, <1>2 DEF CloseInv, serverVars
  <1>4. \/ connection[d] = "closing" /\ connection'[d] = "stuck"
        \/ connection'[d] = connection[d]
    BY <1>1 DEF TypeOK
  <1>5. References(d)' = References(d) /\ LoginsOf(d)' = LoginsOf(d)
    BY <1>2, <1>4, ReferencesAre DEF InList, InConnection
  <1>6. Arrival(d)' /\ KnownInv(d)'
    BY <1>1, <1>2, <1>4, <1>5 DEF NumberInv, Arrival, New, KnownInv, Known, recordVars, history
  <1>7. ~refused' => Counted(d)' /\ (d \notin overlapped' => Login(d)')
    BY <1>1, <1>2, <1>5 DEF NumberInv, Counted, Login, recordVars, serverVars, history
  <1>8. state' = "OPEN" /\ ~refused' => Announced(d)'
    BY <1>1, <1>2, <1>5 DEF NumberInv, Announced, Known, recordVars, history
  <1>9. QED BY <1>3, <1>6, <1>7, <1>8 DEF NumberInv

LEMMA ConnectionReleasesStep ==
  ASSUME IInv, NEW c \in Clients, ConnectionReleases(c), Running', NEW d \in Clients
  PROVE  CloseInv' /\ NumberInv(d)'
PROOF
  <1>1. /\ TypeOK /\ CloseInv /\ NumberInv(d)
        /\ connection[c] = "closed"
        /\ connection' = [connection EXCEPT ![c] = "released"]
        /\ use_count' = [use_count EXCEPT ![c] = @ + (-1)]
        /\ UNCHANGED <<state, message_queue, client, list, kept, serverVars, authVars, history>>
    BY DEF IInv, ConnectionReleases, Count
  <1>2. /\ OpensOf(d)' = OpensOf(d) /\ ClosesOf(d)' = ClosesOf(d) /\ AnswersOf(d)' = AnswersOf(d)
        /\ ToldOf(d)' = ToldOf(d) /\ ToldToClose' = ToldToClose
        /\ StartsOf(d)' = StartsOf(d) /\ OnServer(d)' = OnServer(d)
        /\ SubmittedOf(d)' = SubmittedOf(d) /\ KeepersOf(d)' = KeepersOf(d)
        /\ Listed(d)' <=> Listed(d)
    BY <1>1, NoneMoved, NoneMovedOnServer, SameTransactions, SameKeepers
    DEF serverVars, authVars, Listed
  <1>3. CloseInv'
    BY <1>1, <1>2 DEF CloseInv, serverVars
  <1>4. CASE d = c
    <2>1. /\ References(d) \in Nat /\ References(d) >= 1 /\ use_count[d] \in Int
          /\ connection[d] = "closed" /\ connection'[d] = "released"
          /\ use_count'[d] = use_count[d] - 1
      BY <1>1, <1>4, ReferencesAtLeast DEF TypeOK
    <2>2. References(d)' = References(d) - 1 /\ LoginsOf(d)' = LoginsOf(d)
      BY <1>1, <1>2, <1>4, <2>1, ReferencesAre, NumbersAreNatural DEF InList, InConnection
    <2>3. Arrival(d)' /\ KnownInv(d)'
      BY <1>1, <1>2, <1>4, <2>1 DEF NumberInv, Arrival, New, KnownInv, Known, history
    <2>4. ~refused' => Counted(d)' /\ (d \notin overlapped' => Login(d)')
      BY <1>1, <1>2, <1>4, <2>1, <2>2 DEF NumberInv, Counted, Login, serverVars, history
    <2>5. state' = "OPEN" /\ ~refused' => Announced(d)'
      BY <1>1, <1>2, <2>2 DEF NumberInv, Announced, Known, history
    <2>6. QED BY <1>3, <2>3, <2>4, <2>5 DEF NumberInv
  <1>5. CASE d # c
    <2>1. use_count'[d] = use_count[d] /\ connection'[d] = connection[d]
      BY <1>1, <1>5 DEF TypeOK
    <2>2. NumberInv(d)'
      BY <1>1, <1>2, <1>5, <2>1, NothingAbout DEF serverVars, history
    <2>3. QED BY <1>3, <2>2
  <1>6. QED BY <1>4, <1>5

LEMMA DestroyStep ==
  ASSUME IInv, NEW c \in Clients, Destroy(c), Running', NEW d \in Clients
  PROVE  CloseInv' /\ NumberInv(d)'
PROOF
  <1> DEFINE n == IF d \in kept[c] THEN 1 ELSE 0
  <1>1. /\ TypeOK /\ CloseInv /\ NumberInv(d) /\ use_count[d] \in Int
        /\ use_count[c] = 0 /\ client[c].state # "UNUSED"
        /\ client' = [client EXCEPT ![c] = [state |-> "DESTROYED", auth_transaction |-> NULL,
                                           credentials |-> "none"]]
        /\ kept' = [kept EXCEPT ![c] = {}]
        /\ use_count' = [x \in Clients |-> use_count[x] - (IF x \in kept[c] THEN 1 ELSE 0)]
        /\ UNCHANGED <<state, message_queue, list, peerVars, serverVars, authVars, history>>
    BY DEF IInv, Destroy, TypeOK
  <1>2. /\ OpensOf(d)' = OpensOf(d) /\ ClosesOf(d)' = ClosesOf(d) /\ AnswersOf(d)' = AnswersOf(d)
        /\ ToldOf(d)' = ToldOf(d) /\ ToldToClose' = ToldToClose
        /\ StartsOf(d)' = StartsOf(d) /\ OnServer(d)' = OnServer(d)
        /\ SubmittedOf(d)' = SubmittedOf(d) /\ (Listed(d)' <=> Listed(d))
    BY <1>1, NoneMoved, NoneMovedOnServer, SameTransactions DEF serverVars, authVars, Listed
  <1>3. /\ KeepersOf(d)' = KeepersOf(d) - n
        /\ KeepersOf(d) >= n
    <2>1. Keepers(d)' = Keepers(d) \ {c} /\ (c \in Keepers(d) <=> d \in kept[c])
      BY <1>1 DEF Keepers, TypeOK
    <2>2. /\ IsFiniteSet(Keepers(d)) /\ IsFiniteSet(Keepers(d) \ {c})
          /\ Cardinality(Keepers(d) \ {c}) = IF c \in Keepers(d) THEN Cardinality(Keepers(d)) - 1
                                             ELSE Cardinality(Keepers(d))
      BY <1>1, NumbersAreNatural, FS_RemoveElement
    <2>3. Cardinality(Keepers(d) \ {c}) \in Nat /\ Cardinality(Keepers(d)) \in Nat
      BY <2>2, FS_CardinalityType
    <2>4. QED BY <2>1, <2>2, <2>3 DEF KeepersOf
  <1>4. n \in {0, 1} /\ use_count'[d] = use_count[d] - n
    BY <1>1
  <1> HIDE DEF n
  <1>5. /\ References(d) \in Nat /\ References(d) >= n
        /\ References(d)' = References(d) - n /\ LoginsOf(d)' = LoginsOf(d)
    <2>1. References(d) \in Nat /\ KeepersOf(d) <= References(d) /\ KeepersOf(d) \in Nat
      BY <1>1, ReferencesAtLeast, NumbersAreNatural
    <2>2. References(d)' = References(d) - n /\ LoginsOf(d)' = LoginsOf(d)
      BY <1>1, <1>2, <1>3, <1>4, ReferencesAre, NumbersAreNatural
      DEF InList, InConnection, peerVars
    <2>3. QED BY <1>3, <1>4, <2>1, <2>2
  <1>6. CloseInv'
    BY <1>1, <1>2 DEF CloseInv, serverVars
  <1>7. ~refused => Counted(d)'
    BY <1>1, <1>4, <1>5 DEF NumberInv, Counted, serverVars, TypeOK
  <1>8. CASE d = c
    <2>1. client'[d].state = "DESTROYED" /\ kept'[d] = {}
      BY <1>1, <1>8 DEF TypeOK
    <2>2. Arrival(d)' /\ KnownInv(d)'
      BY <1>1, <1>2, <1>8, <2>1 DEF NumberInv, Arrival, New, KnownInv, Known, peerVars
    <2>3. d \notin overlapped /\ ~refused => Login(d)'
      BY <1>1, <1>5, <2>1 DEF NumberInv, Login
    <2>4. ~refused => ~Listed(d)'
      BY <1>1, <1>2, <1>8, ReferencesAtLeast DEF NumberInv, Counted
    <2>5. QED BY <1>1, <1>6, <1>7, <2>2, <2>3, <2>4 DEF NumberInv, Announced, history
  <1>9. CASE d # c
    <2>1. client'[d] = client[d] /\ kept'[d] = kept[d]
      BY <1>1, <1>9 DEF TypeOK
    <2>2. Arrival(d)' /\ KnownInv(d)'
      BY <1>1, <1>2, <1>4, <1>5, <2>1
      DEF NumberInv, Arrival, New, KnownInv, Known, peerVars, history
    <2>3. d \notin overlapped /\ ~refused => Login(d)'
      BY <1>1, <1>2, <1>5, <2>1 DEF NumberInv, Login
    <2>4. state = "OPEN" /\ ~refused => Announced(d)'
      BY <1>1, <1>2, <1>5, <2>1 DEF NumberInv, Announced, Known, history
    <2>5. QED BY <1>1, <1>6, <1>7, <2>2, <2>3, <2>4 DEF NumberInv, history
  <1>10. QED BY <1>8, <1>9

LEMMA OpenClientStep ==
  ASSUME IInv, OpenClient, Running', NEW d \in Clients
  PROVE  CloseInv' /\ NumberInv(d)'
PROOF
  <1> DEFINE c == Head(message_queue).client
  <1>1. /\ TypeOK /\ CloseInv /\ NumberInv(d) /\ Received("OPEN_CLIENT")
        /\ \A x \in Clients : Arrival(x)
    BY DEF IInv, OpenClient, Received, NumberInv
  <1>2. /\ connection[c] = "accepted" /\ ~Listed(c) /\ c \in Clients
    BY <1>1, OpenClientTypes, ReceivedFrom DEF IInv
  <1>3. server_queue' = Append(server_queue, Message("START", c, NULL))
        /\ Message("START", c, NULL) \in ServerMessages
    <2>1. ToServer(Message("START", c, NULL))
      BY DEF OpenClient, Start
    <2>2. QED BY <1>1, <1>2, <2>1, MessagesAre, AtToServer
  <1>4. /\ OpensOf(d) = OpensOf(d)' + (IF d = c THEN 1 ELSE 0)
        /\ ClosesOf(d)' = ClosesOf(d) /\ AnswersOf(d)' = AnswersOf(d) /\ ToldOf(d)' = ToldOf(d)
        /\ OpensOf(d)' \in Nat /\ (ToldToClose' # 0 => ToldToClose # 0)
    BY <1>1, TakenAbout
  <1>5. /\ StartsOf(d)' = StartsOf(d) + (IF d = c THEN 1 ELSE 0)
        /\ OnServer(d)' = OnServer(d) + (IF d = c THEN 1 ELSE 0)
    BY <1>1, <1>3, ServerPutAbout
  <1>6. /\ list' = Append(list, c)
        /\ client' = [client EXCEPT ![c].state = "AUTHENTICATING_INIT", ![c].credentials = "empty"]
        /\ connection' = [connection EXCEPT ![c] = "open"]
        /\ use_count' = [use_count EXCEPT ![c] = @ + 4]
        /\ state = "OPEN"
        /\ UNCHANGED <<state, kept, server_state, authVars, history>>
    BY DEF OpenClient, Count
  <1> HIDE DEF c
  <1>7. /\ SubmittedOf(d)' = SubmittedOf(d) /\ KeepersOf(d)' = KeepersOf(d)
        /\ (Listed(d)' <=> Listed(d) \/ d = c)
    BY <1>1, <1>2, <1>6, SameTransactions, SameKeepers, ListWith DEF authVars
  <1>8. CloseInv'
    BY <1>1, <1>4, <1>6 DEF CloseInv
  <1>9. CASE d = c
    <2>1. /\ client'[d].state = "AUTHENTICATING_INIT" /\ connection'[d] = "open"
          /\ use_count'[d] = use_count[d] + 4 /\ use_count[d] \in Int
      BY <1>1, <1>2, <1>6, <1>9 DEF TypeOK, Records
    <2>2. /\ client[d].state = "UNUSED" /\ References(d) = 0 /\ kept[d] = {}
          /\ d \notin announced /\ OpensOf(d) <= 1 /\ ClosesOf(d) <= 0
      BY <1>1, <1>2, <1>9 DEF Arrival, New
    <2>3. References(d)' = References(d) + 4 /\ LoginsOf(d)' = LoginsOf(d) + 1
      BY <1>1, <1>2, <1>4, <1>5, <1>7, <1>9, <2>1, ReferencesAre, NumbersAreNatural
      DEF InList, InConnection
    <2>4. Arrival(d)' /\ KnownInv(d)'
      BY <1>1, <1>4, <1>6, <1>7, <1>9, <2>1, <2>2, NumbersAreNatural
      DEF Arrival, New, KnownInv, Known
    <2>5. ~refused' => Counted(d)' /\ (d \notin overlapped' => Login(d)')
      BY <1>1, <1>6, <2>1, <2>2, <2>3 DEF NumberInv, Counted, Login, history
    <2>6. Announced(d)'
      BY <1>6, <2>2 DEF Announced, history
    <2>7. QED BY <1>8, <2>4, <2>5, <2>6 DEF NumberInv
  <1>10. CASE d # c
    <2>1. /\ use_count'[d] = use_count[d] /\ connection'[d] = connection[d]
          /\ client'[d] = client[d]
      BY <1>1, <1>2, <1>6, <1>10 DEF TypeOK
    <2>2. StartsOf(d)' = StartsOf(d) /\ OnServer(d)' = OnServer(d) /\ OpensOf(d)' = OpensOf(d)
      BY <1>1, <1>4, <1>5, <1>10, NumbersAreNatural
    <2>3. NumberInv(d)'
      BY <1>1, <1>4, <1>6, <1>7, <1>10, <2>1, <2>2, NothingAbout DEF history
    <2>4. QED BY <1>8, <2>3
  <1>11. QED BY <1>9, <1>10

LEMMA AuthEventStep ==
  ASSUME IInv, AuthEvent, Running', NEW d \in Clients
  PROVE  CloseInv' /\ NumberInv(d)'
PROOF
  <1> DEFINE c == Head(message_queue).client
             step == Head(message_queue).arg
  <1>1. /\ TypeOK /\ CloseInv /\ NumberInv(d) /\ Received("AUTH_EVENT")
    BY DEF IInv, AuthEvent, Received
  <1>2. c \in Clients /\ step \in Steps
    BY <1>1, ReceivedFrom
  <1>3. server_queue' = Append(server_queue, Message("FINISH", NULL, client[c].auth_transaction))
        /\ Message("FINISH", NULL, client[c].auth_transaction) \in ServerMessages
    <2>1. ToServer(Message("FINISH", NULL, client[c].auth_transaction))
      BY DEF AuthEvent, Finish
    <2>2. client[c].auth_transaction \in Transactions \union {NULL}
      BY <1>1, <1>2 DEF TypeOK, Records
    <2>3. Message("FINISH", NULL, client[c].auth_transaction) \in ServerMessages
      BY <1>2, <2>2, MessagesAre
    <2>4. QED BY <1>1, <2>1, <2>3, AtToServer
  <1>4. /\ OpensOf(d)' = OpensOf(d) /\ ClosesOf(d)' = ClosesOf(d)
        /\ AnswersOf(d) = AnswersOf(d)' + (IF d = c THEN 1 ELSE 0)
        /\ ToldOf(d) = ToldOf(d)' + (IF d = c THEN 1 ELSE 0)
        /\ AnswersOf(d)' \in Nat /\ ToldOf(d)' \in Nat
        /\ (ToldToClose' # 0 => ToldToClose # 0)
    BY <1>1, TakenAbout
  <1>5. StartsOf(d)' = StartsOf(d) /\ OnServer(d)' = OnServer(d)
    <2>1. /\ StartsOf(d)' = StartsOf(d) + 0
          /\ OnServer(d)' = OnServer(d) + 0
      BY <1>1, <1>3, ServerPutAbout
    <2>2. QED BY <1>1, <2>1, NumbersAreNatural
  <1>6. /\ client' = [client EXCEPT ![c].state = StateAfter(step, @),
                                    ![c].auth_transaction = NULL,
                                    ![c].credentials = IF step = "AUTHENTICATED" THEN "none" ELSE @]
        /\ announced' = announced \union (IF step = "AUTHENTICATED" THEN {c} ELSE {})
        /\ use_count' = [use_count EXCEPT ![c] = @ + (-1)]
        /\ state = "OPEN"
        /\ UNCHANGED <<state, list, kept, connection, server_state, authVars, refused, overlapped,
                       again>>
    BY DEF AuthEvent, Count
  <1> HIDE DEF c, step
  <1>7. /\ SubmittedOf(d)' = SubmittedOf(d) /\ KeepersOf(d)' = KeepersOf(d)
        /\ (Listed(d)' <=> Listed(d))
    BY <1>6, SameTransactions, SameKeepers DEF authVars, Listed
  <1>8. CloseInv'
    BY <1>1, <1>4, <1>6 DEF CloseInv
  <1>9. CASE d = c
    <2>1. /\ client[d] \in Records
          /\ client'[d].state = StateAfter(step, client[d].state)
          /\ client'[d].credentials = IF step = "AUTHENTICATED" THEN "none"
                                      ELSE client[d].credentials
          /\ use_count'[d] = use_count[d] - 1 /\ use_count[d] \in Int
      BY <1>1, <1>2, <1>6, <1>9 DEF TypeOK, Records
    <2>2. AnswersOf(d) >= 1 /\ ToldOf(d) >= 1
      BY <1>4, <1>9
    <2>3. /\ References(d) \in Nat /\ References(d) >= 1
          /\ LoginsOf(d) \in Nat /\ LoginsOf(d) >= 1
      BY <1>1, <2>2, ReferencesAtLeast, NumbersAreNatural
    <2>4. References(d)' = References(d) - 1 /\ LoginsOf(d)' = LoginsOf(d) - 1
      BY <1>1, <1>4, <1>5, <1>6, <1>7, <1>9, ReferencesAre, NumbersAreNatural
      DEF InList, InConnection
    <2>5. ~New(d) /\ client[d].state # "UNUSED"
      BY <1>1, <2>3 DEF NumberInv, Arrival
    <2>6. client'[d].state # "UNUSED" /\ (client'[d].state = "DESTROYED" => client[d].state = "DESTROYED")
      BY <1>2, <2>1, <2>5 DEF StateAfter, Steps
    <2>7. Arrival(d)'
      BY <1>1, <1>4, <1>6, <1>7, <2>5, <2>6 DEF NumberInv, Arrival, New
    <2>8. KnownInv(d)' /\ (step = "AUTHENTICATED" => Known(d)')
      BY <1>1, <1>2, <2>1 DEF NumberInv, KnownInv, Known, StateAfter, Steps
    <2>9. ~refused' => Counted(d)'
      BY <1>1, <1>6, <2>1, <2>3, <2>4, <2>6 DEF NumberInv, Counted
    <2>10. ~refused' /\ d \notin overlapped' => LoginsOf(d)' = 0
      BY <1>1, <1>6, <2>3, <2>4 DEF NumberInv, Login
    <2>11. ~refused' /\ d \notin overlapped' => Login(d)'
      BY <2>10 DEF Login
    <2>12. ~refused' => Announced(d)'
      BY <1>1, <1>6, <1>7, <2>3, <2>8, <2>10 DEF NumberInv, Announced
    <2>13. QED BY <1>8, <2>7, <2>8, <2>9, <2>11, <2>12 DEF NumberInv
  <1>10. CASE d # c
    <2>1. /\ use_count'[d] = use_count[d] /\ client'[d] = client[d]
          /\ (d \in announced' => d \in announced)
      BY <1>1, <1>2, <1>6, <1>10 DEF TypeOK
    <2>2. AnswersOf(d)' = AnswersOf(d) /\ ToldOf(d)' = ToldOf(d)
      BY <1>4, <1>10
    <2>3. NumberInv(d)'
      BY <1>1, <1>4, <1>5, <1>6, <1>7, <2>1, <2>2, NothingAbout
    <2>4. QED BY <1>8, <2>3
  <1>11. QED BY <1>9, <1>10

LEMMA SubmitStep ==
  ASSUME IInv, NEW e \in {"USERNAME_SUBMIT", "PASSWORD_SUBMIT"}, Submit(e), Running',
         NEW d \in Clients
  PROVE  CloseInv' /\ NumberInv(d)'
PROOF
  <1> DEFINE c == Head(message_queue).client
  <1>1. /\ TypeOK /\ CloseInv /\ NumberInv(d) /\ Received("INCOMING_EVENT")
    BY DEF IInv, Submit, Received
  <1>2. c \in Clients
    BY <1>1, ReceivedFrom
  <1>3. server_queue' = Append(server_queue, Message("START", c, NULL))
        /\ Message("START", c, NULL) \in ServerMessages
    <2>1. ToServer(Message("START", c, NULL))
      BY DEF Submit, Start
    <2>2. QED BY <1>1, <1>2, <2>1, MessagesAre, AtToServer
  <1>4. /\ OpensOf(d)' = OpensOf(d) /\ ClosesOf(d)' = ClosesOf(d) /\ AnswersOf(d)' = AnswersOf(d)
        /\ ToldOf(d) = ToldOf(d)' + (IF d = c THEN 1 ELSE 0)
        /\ ToldOf(d)' \in Nat /\ (ToldToClose' # 0 => ToldToClose # 0)
    BY <1>1, TakenAbout
  <1>5. /\ StartsOf(d)' = StartsOf(d) + (IF d = c THEN 1 ELSE 0)
        /\ OnServer(d)' = OnServer(d) + (IF d = c THEN 1 ELSE 0)
    BY <1>1, <1>3, ServerPutAbout
  <1>6. /\ client' = [client EXCEPT ![c].state = StateSubmitted(e, @),
                                    ![c].credentials = CredentialsSubmitted(e)]
        /\ client[c].credentials # "none" /\ client[c].state \in Accepting(e)
        /\ overlapped' = overlapped \union
             (IF /\ client[c].state = "AUTHENTICATING_PASSWORD"
                 /\ client[c].auth_transaction # NULL \/ Starting(c) # {} THEN {c} ELSE {})
        /\ state = "OPEN"
        /\ UNCHANGED <<state, list, kept, use_count, peerVars, server_state, authVars, announced,
                       refused, again>>
    BY DEF Submit
  <1> HIDE DEF c
  <1>7. /\ SubmittedOf(d)' = SubmittedOf(d) /\ KeepersOf(d)' = KeepersOf(d)
        /\ (Listed(d)' <=> Listed(d))
    BY <1>6, SameTransactions, SameKeepers DEF authVars, Listed
  <1>8. CloseInv'
    BY <1>1, <1>4, <1>6 DEF CloseInv
  <1>9. CASE d = c
    <2>1. /\ client[d] \in Records /\ use_count[d] \in Int
          /\ client'[d].state = StateSubmitted(e, client[d].state)
          /\ client'[d].auth_transaction = client[d].auth_transaction
      BY <1>1, <1>2, <1>6, <1>9 DEF TypeOK, Records
    <2>2. ToldOf(d) >= 1
      BY <1>4, <1>9
    <2>3. /\ References(d) \in Nat /\ References(d) >= 1 /\ LoginsOf(d) \in Nat
      BY <1>1, <2>2, ReferencesAtLeast, NumbersAreNatural
    <2>4. References(d)' = References(d) /\ LoginsOf(d)' = LoginsOf(d) + 1
      BY <1>1, <1>4, <1>5, <1>6, <1>7, <1>9, ReferencesAre, NumbersAreNatural
      DEF InList, InConnection, peerVars
    <2>5. ~New(d) /\ client[d].state # "UNUSED"
      BY <1>1, <2>3 DEF NumberInv, Arrival
    <2>6. /\ client[d].state \in {"AUTHENTICATING_USERNAME", "AUTHENTICATING_PASSWORD"}
          /\ client'[d].state \in {"AUTHENTICATING_PROCESSING", "AUTHENTICATING_PASSWORD"}
          /\ client[d].credentials # "none"
          /\ client'[d].state = "AUTHENTICATING_PASSWORD" => client[d].state = "AUTHENTICATING_PASSWORD"
      BY <1>6, <1>9, <2>1 DEF Accepting, StateSubmitted
    <2>7. Arrival(d)' /\ KnownInv(d)'
      BY <1>1, <1>4, <1>6, <1>7, <2>5, <2>6
      DEF NumberInv, Arrival, New, KnownInv, Known, peerVars
    <2>8. ~refused' => Counted(d)'
      BY <1>1, <1>6, <2>1, <2>3, <2>4, <2>6 DEF NumberInv, Counted
    <2>9. ASSUME ~refused', d \notin overlapped'
          PROVE  LoginsOf(d) = 0
      <3>1. ~refused /\ d \notin overlapped
        BY <1>6, <2>9
      <3>2. client[d].state = "AUTHENTICATING_PASSWORD" =>
              client[d].auth_transaction = NULL /\ StartsOf(d) = 0
        BY <1>6, <1>9, <2>9, FS_EmptySet DEF StartsOf
      <3>3. QED BY <1>1, <2>6, <3>1, <3>2 DEF NumberInv, Login
    <2>10. ~refused' /\ d \notin overlapped' => Login(d)'
      <3>1. StartsOf(d) \in Nat /\ StartsOf(d)' = StartsOf(d) + 1
        BY <1>1, <1>5, <1>9, NumbersAreNatural
      <3>2. QED BY <2>4, <2>6, <2>9, <3>1 DEF Login
    <2>11. ~refused' => Announced(d)'
      BY <1>1, <1>6, <1>7, <2>6 DEF NumberInv, Announced, KnownInv
    <2>12. QED BY <1>8, <2>7, <2>8, <2>10, <2>11 DEF NumberInv
  <1>10. CASE d # c
    <2>1. client'[d] = client[d] /\ overlapped \subseteq overlapped'
      BY <1>1, <1>2, <1>6, <1>10 DEF TypeOK
    <2>2. /\ ToldOf(d)' = ToldOf(d) /\ StartsOf(d)' = StartsOf(d) /\ OnServer(d)' = OnServer(d)
      BY <1>1, <1>4, <1>5, <1>10, NumbersAreNatural
    <2>3. NumberInv(d)'
      BY <1>1, <1>4, <1>6, <1>7, <2>1, <2>2, NothingAbout DEF peerVars
    <2>4. QED BY <1>8, <2>3
  <1>11. QED BY <1>9, <1>10

LEMMA OtherEventStep ==
  ASSUME IInv, OtherEvent, Running', NEW d \in Clients
  PROVE  CloseInv' /\ NumberInv(d)'
PROOF
  <1> DEFINE c == Head(message_queue).client
  <1>1. /\ TypeOK /\ CloseInv /\ NumberInv(d) /\ Received("INCOMING_EVENT")
        /\ use_count' = [use_count EXCEPT ![c] = @ + (-1)]
        /\ UNCHANGED <<state, client, list, kept, peerVars, serverVars, authVars, history>>
    BY DEF IInv, OtherEvent, Received, Count
  <1>2. c \in Clients
    BY <1>1, ReceivedFrom
  <1>3. /\ OpensOf(d)' = OpensOf(d) /\ ClosesOf(d)' = ClosesOf(d) /\ AnswersOf(d)' = AnswersOf(d)
        /\ ToldOf(d) = ToldOf(d)' + (IF d = c THEN 1 ELSE 0)
        /\ ToldOf(d)' \in Nat /\ (ToldToClose' # 0 => ToldToClose # 0)
    BY <1>1, TakenAbout
  <1> HIDE DEF c
  <1>4. /\ StartsOf(d)' = StartsOf(d) /\ OnServer(d)' = OnServer(d)
        /\ SubmittedOf(d)' = SubmittedOf(d) /\ KeepersOf(d)' = KeepersOf(d)
        /\ (Listed(d)' <=> Listed(d))
    BY <1>1, NoneMovedOnServer, SameTransactions, SameKeepers DEF serverVars, authVars, Listed
  <1>5. CloseInv'
    BY <1>1, <1>3 DEF CloseInv, serverVars
  <1>6. CASE d = c
    <2>1. use_count'[d] = use_count[d] - 1 /\ use_count[d] \in Int /\ ToldOf(d) >= 1
      BY <1>1, <1>3, <1>6 DEF TypeOK
    <2>2. References(d) \in Nat /\ References(d) >= 1
      BY <1>1, <2>1, ReferencesAtLeast, NumbersAreNatural
    <2>3. References(d)' = References(d) - 1 /\ LoginsOf(d)' = LoginsOf(d)
      BY <1>1, <1>3, <1>4, <1>6, ReferencesAre, NumbersAreNatural
      DEF InList, InConnection, peerVars
    <2>4. Arrival(d)' /\ KnownInv(d)'
      BY <1>1, <1>3, <1>4, <2>2 DEF NumberInv, Arrival, New, KnownInv, Known, peerVars
    <2>5. ~refused' => Counted(d)' /\ (d \notin overlapped' => Login(d)')
      BY <1>1, <1>4, <2>1, <2>2, <2>3 DEF NumberInv, Counted, Login, serverVars, history
    <2>6. state' = "OPEN" /\ ~refused' => Announced(d)'
      BY <1>1, <1>4, <2>3 DEF NumberInv, Announced, Known, history
    <2>7. QED BY <1>5, <2>4, <2>5, <2>6 DEF NumberInv
  <1>7. CASE d # c
    <2>1. use_count'[d] = use_count[d] /\ ToldOf(d)' = ToldOf(d)
      BY <1>1, <1>3, <1>7 DEF TypeOK
    <2>2. NumberInv(d)'
      BY <1>1, <1>3, <1>4, <2>1, NothingAbout DEF peerVars, serverVars, history
    <2>3. QED BY <1>5, <2>2
  <1>8. QED BY <1>6, <1>7

LEMMA UserLeaveStep ==
  ASSUME IInv, UserLeave, Running', NEW d \in Clients
  PROVE  CloseInv' /\ NumberInv(d)'
PROOF
  <1> DEFINE c == Head(message_queue).client
  <1>1. /\ TypeOK /\ CloseInv /\ NumberInv(d) /\ Received("INCOMING_EVENT")
        /\ client' = [client EXCEPT ![c].state = IF @ = "ACTIVE" THEN "DISCONNECTING_FROM_ACTIVE"
                                                                ELSE "DISCONNECTING"]
        /\ connection' = [connection EXCEPT ![c] = IF @ = "open" THEN "closing" ELSE @]
        /\ use_count' = [use_count EXCEPT ![c] = @ + (-1)]
        /\ state = "OPEN"
        /\ again' = again \union (IF client[c].state = "DISCONNECTING_FROM_ACTIVE" THEN {c} ELSE {})
        /\ UNCHANGED <<state, list, kept, serverVars, authVars, announced, refused, overlapped>>
    BY DEF IInv, UserLeave, Received, Count
  <1>2. c \in Clients
    BY <1>1, ReceivedFrom
  <1>3. /\ OpensOf(d)' = OpensOf(d) /\ ClosesOf(d)' = ClosesOf(d) /\ AnswersOf(d)' = AnswersOf(d)
        /\ ToldOf(d) = ToldOf(d)' + (IF d = c THEN 1 ELSE 0)
        /\ ToldOf(d)' \in Nat /\ (ToldToClose' # 0 => ToldToClose # 0)
    BY <1>1, TakenAbout
  <1> HIDE DEF c
  <1>4. /\ StartsOf(d)' = StartsOf(d) /\ OnServer(d)' = OnServer(d)
        /\ SubmittedOf(d)' = SubmittedOf(d) /\ KeepersOf(d)' = KeepersOf(d)
        /\ (Listed(d)' <=> Listed(d))
    BY <1>1, NoneMovedOnServer, SameTransactions, SameKeepers DEF serverVars, authVars, Listed
  <1>5. CloseInv'
    BY <1>1, <1>3 DEF CloseInv, serverVars
  <1>6. CASE d = c
    <2>1. /\ use_count'[d] = use_count[d] - 1 /\ use_count[d] \in Int /\ ToldOf(d) >= 1
          /\ connection'[d] = (IF connection[d] = "open" THEN "closing" ELSE connection[d])
          /\ d \in again' <=> \/ d \in again
                             \/ client[d].state = "DISCONNECTING_FROM_ACTIVE"
          /\ client'[d].state = IF client[d].state = "ACTIVE" THEN "DISCONNECTING_FROM_ACTIVE"
                                                              ELSE "DISCONNECTING"
          /\ client'[d].credentials = client[d].credentials
      BY <1>1, <1>2, <1>3, <1>6 DEF TypeOK, Records
    <2>2. References(d) \in Nat /\ References(d) >= 1
      BY <1>1, <2>1, ReferencesAtLeast, NumbersAreNatural
    <2>3. References(d)' = References(d) - 1 /\ LoginsOf(d)' = LoginsOf(d)
      BY <1>1, <1>3, <1>4, <1>6, <2>1, ReferencesAre, NumbersAreNatural DEF InList, InConnection
    <2>4. Arrival(d)' /\ KnownInv(d)'
      BY <1>1, <1>3, <1>4, <2>1, <2>2 DEF NumberInv, Arrival, New, KnownInv, Known
    <2>5. ~refused' => Counted(d)' /\ (d \notin overlapped' => Login(d)')
      BY <1>1, <1>4, <2>1, <2>2, <2>3 DEF NumberInv, Counted, Login, serverVars
    <2>6. state' = "OPEN" /\ ~refused' => Announced(d)'
      BY <1>1, <1>4, <2>1, <2>3 DEF NumberInv, Announced, Known
    <2>7. QED BY <1>5, <2>4, <2>5, <2>6 DEF NumberInv
  <1>7. CASE d # c
    <2>1. /\ use_count'[d] = use_count[d] /\ ToldOf(d)' = ToldOf(d)
          /\ connection'[d] = connection[d] /\ client'[d] = client[d]
      BY <1>1, <1>2, <1>3, <1>7 DEF TypeOK
    <2>2. NumberInv(d)'
      BY <1>1, <1>3, <1>4, <2>1, NothingAbout DEF serverVars
    <2>3. QED BY <1>5, <2>2
  <1>8. QED BY <1>6, <1>7

LEMMA ClientConnectionClosedStep ==
  ASSUME IInv, ClientConnectionClosed, Running', NEW d \in Clients
  PROVE  CloseInv' /\ NumberInv(d)'
PROOF
  <1> DEFINE c == Head(message_queue).client
             n == IF d \in Neighbours(c) THEN 1 ELSE 0
  <1>1. /\ TypeOK /\ CloseInv /\ NumberInv(d) /\ Received("CLIENT_CONNECTION_CLOSED")
        /\ \A x \in Clients : Arrival(x)
        /\ kept' = [kept EXCEPT ![c] = Neighbours(c)]
        /\ use_count' = [x \in Clients |-> use_count[x] - (IF x = c THEN 3 ELSE 0)
                                            + (IF x \in Neighbours(c) THEN 1 ELSE 0)]
        /\ announced' = (IF state = "OPEN" /\ Outroduced(c) THEN announced \ {c} ELSE announced)
        /\ state' = (IF state = "CLOSING" /\ list' = <<>> THEN "CLOSED" ELSE state)
        /\ UNCHANGED <<client, peerVars, serverVars, authVars, refused, overlapped, again>>
    BY DEF IInv, ClientConnectionClosed, ClientClose, Received, NumberInv
  <1>2. /\ c \in Clients /\ Listed(c) /\ connection[c] \in {"closed", "released"}
        /\ Neighbours(c) \in SUBSET Clients
        /\ \A x \in Neighbours(c) : Listed(x) /\ x # c
        /\ \A x : Listed(x)' <=> Listed(x) /\ x # c
    BY <1>1, ClientConnectionClosedTypes DEF IInv
  <1>3. /\ OpensOf(d)' = OpensOf(d) /\ AnswersOf(d)' = AnswersOf(d)
        /\ ClosesOf(d) = ClosesOf(d)' + (IF d = c THEN 1 ELSE 0)
        /\ ToldOf(d) = ToldOf(d)' + (IF d = c THEN 1 ELSE 0)
        /\ ClosesOf(d)' \in Nat /\ ToldOf(d)' \in Nat /\ (ToldToClose' # 0 => ToldToClose # 0)
    BY <1>1, TakenAbout
  <1> HIDE DEF c
  <1>4. /\ StartsOf(d)' = StartsOf(d) /\ OnServer(d)' = OnServer(d)
        /\ SubmittedOf(d)' = SubmittedOf(d)
    BY <1>1, NoneMovedOnServer, SameTransactions DEF serverVars, authVars
  <1>5. KeepersOf(d)' = KeepersOf(d) + n
    <2>1. /\ c \notin Keepers(d)
          /\ Keepers(d)' = Keepers(d) \union (IF d \in Neighbours(c) THEN {c} ELSE {})
      <3>1. kept[c] = {}
        BY <1>1, <1>2 DEF Arrival
      <3>2. QED BY <1>1, <1>2, <3>1 DEF Keepers, TypeOK
    <2>2. IsFiniteSet(Keepers(d)) /\ Cardinality(Keepers(d)) \in Nat
      BY <1>1, NumbersAreNatural DEF KeepersOf
    <2>3. Cardinality(Keepers(d) \union {c}) = Cardinality(Keepers(d)) + 1
      BY <2>1, <2>2, FS_AddElement
    <2>4. CASE d \in Neighbours(c)
      BY <2>1, <2>3, <2>4 DEF KeepersOf
    <2>5. CASE d \notin Neighbours(c)
      <3>1. Keepers(d)' = Keepers(d)
        BY <2>1, <2>5
      <3>2. QED BY <2>2, <2>5, <3>1 DEF KeepersOf
    <2>6. QED BY <2>4, <2>5
  <1>6. /\ n \in {0, 1} /\ (n = 1 => Listed(d) /\ d # c)
        /\ use_count[d] \in Int
        /\ use_count'[d] = use_count[d] - (IF d = c THEN 3 ELSE 0) + n
    BY <1>1, <1>2 DEF TypeOK
  <1> HIDE DEF n
  <1>7. CloseInv' /\ (state' = "OPEN" => state = "OPEN")
    BY <1>1, <1>3 DEF CloseInv, serverVars
  <1>8. CASE d = c
    <2>1. n = 0 /\ ~Listed(d)' /\ Listed(d) /\ connection'[d] = connection[d]
      BY <1>1, <1>2, <1>6, <1>8 DEF peerVars
    <2>2. References(d) \in Nat /\ References(d) >= 1
      BY <1>1, <2>1, ReferencesAtLeast
    <2>3. References(d)' = References(d) - 3 /\ LoginsOf(d)' = LoginsOf(d)
      <3>1. /\ InList(d) = 2 /\ InList(d)' = 0
            /\ InConnection(d) \in Int /\ InConnection(d)' = InConnection(d)
        BY <2>1 DEF InList, InConnection
      <3>2. KeepersOf(d) \in Nat /\ OnServer(d) \in Nat /\ SubmittedOf(d) \in Nat
        BY <1>1, NumbersAreNatural
      <3>3. KeepersOf(d)' = KeepersOf(d)
        BY <1>5, <2>1, <3>2
      <3>4. ToldOf(d) = ToldOf(d)' + 1 /\ ToldOf(d)' \in Nat /\ AnswersOf(d)' = AnswersOf(d)
        BY <1>3, <1>8
      <3>5. QED BY <1>4, <3>1, <3>2, <3>3, <3>4, ReferencesAre
    <2>4. ClosesOf(d)' <= 0
      BY <1>1, <1>2, <1>3, <1>8 DEF Arrival
    <2>5. Arrival(d)' /\ KnownInv(d)'
      BY <1>1, <1>2, <1>3, <1>8, <2>1, <2>4
      DEF NumberInv, Arrival, New, KnownInv, Known
    <2>6. ~refused' => Counted(d)' /\ (d \notin overlapped' => Login(d)')
      BY <1>1, <1>4, <1>6, <1>8, <2>1, <2>2, <2>3 DEF NumberInv, Counted, Login, serverVars
    <2>7. Announced(d)'
      BY <2>1 DEF Announced
    <2>8. QED BY <1>7, <2>5, <2>6, <2>7 DEF NumberInv
  <1>9. CASE d # c
    <2>1. (Listed(d)' <=> Listed(d)) /\ kept'[d] = kept[d] /\ connection'[d] = connection[d]
          /\ (d \in announced' => d \in announced) /\ client'[d] = client[d]
      BY <1>1, <1>2, <1>9 DEF TypeOK, peerVars
    <2>2. References(d) \in Nat /\ (n = 1 => References(d) >= 2)
      BY <1>1, <1>6, ReferencesAtLeast
    <2>3. References(d)' = References(d) + n /\ LoginsOf(d)' = LoginsOf(d)
      <3>1. /\ InList(d) \in Int /\ InList(d)' = InList(d)
            /\ InConnection(d) \in Int /\ InConnection(d)' = InConnection(d)
        BY <2>1 DEF InList, InConnection
      <3>2. KeepersOf(d) \in Nat /\ OnServer(d) \in Nat /\ SubmittedOf(d) \in Nat
        BY <1>1, NumbersAreNatural
      <3>3. ToldOf(d)' = ToldOf(d) /\ ToldOf(d) \in Nat /\ AnswersOf(d)' = AnswersOf(d)
        BY <1>3, <1>9
      <3>4. n \in Int
        BY <1>6
      <3>5. QED BY <1>4, <1>5, <3>1, <3>2, <3>3, <3>4, ReferencesAre
    <2>4. Arrival(d)' /\ KnownInv(d)'
      <3>1. Arrival(d) /\ KnownInv(d) /\ OpensOf(d)' = OpensOf(d) /\ ClosesOf(d)' = ClosesOf(d)
        BY <1>1, <1>3, <1>9 DEF NumberInv
      <3>2. New(d) => References(d)' = 0
        BY <1>6, <2>2, <2>3, <3>1 DEF Arrival
      <3>3. QED BY <2>1, <3>1, <3>2 DEF Arrival, New, KnownInv, Known
    <2>5. ~refused' => Counted(d)' /\ (d \notin overlapped' => Login(d)')
      BY <1>1, <1>4, <1>6, <1>9, <2>1, <2>2, <2>3 DEF NumberInv, Counted, Login, serverVars
    <2>6. state' = "OPEN" /\ ~refused' => Announced(d)'
      BY <1>1, <1>7, <2>1, <2>3 DEF NumberInv, Announced, Known
    <2>7. QED BY <1>7, <2>4, <2>5, <2>6 DEF NumberInv
  <1>10. QED BY <1>8, <1>9

-----------------------------------------------------------------------------
(* The steps that leave a client's record alone. *)
SameRecord(d) ==
  /\ connection'[d] = connection[d] /\ client'[d] = client[d] /\ kept'[d] = kept[d]
  /\ Listed(d)' <=> Listed(d)
  /\ d \in announced' => d \in announced
  /\ overlapped \subseteq overlapped' /\ again \subseteq again' /\ (refused => refused')
  /\ (state' = "OPEN" => state = "OPEN") /\ (server_state' = "OPEN" => server_state = "OPEN")
  /\ OpensOf(d)' = OpensOf(d) /\ ClosesOf(d)' = ClosesOf(d)

(* References are counted as they come and go, and no login begins. *)
LEMMA RecordStays ==
  ASSUME TypeOK, NEW d \in Clients, NumberInv(d), SameRecord(d),
         References(d) \in Nat, References(d)' \in Nat, References(d) = 0 => References(d)' = 0,
         ~refused' => /\ use_count'[d] - References(d)' >= use_count[d] - References(d)
                      /\ server_state' = "OPEN" =>
                           use_count'[d] - References(d)' = use_count[d] - References(d),
         use_count'[d] \in Int,
         LoginsOf(d) \in Nat, LoginsOf(d)' \in Nat,
         ~refused' => /\ LoginsOf(d)' <= LoginsOf(d)
                      /\ LoginsOf(d)' = LoginsOf(d) => StartsOf(d)' = StartsOf(d)
  PROVE  NumberInv(d)'
PROOF
  <1>1. use_count[d] \in Int
    BY DEF TypeOK
  <1>2. Arrival(d)' /\ KnownInv(d)'
    BY DEF NumberInv, Arrival, New, KnownInv, Known, SameRecord
  <1>3. ~refused' => Counted(d)'
    BY <1>1 DEF NumberInv, Counted, SameRecord
  <1>4. ~refused' /\ d \notin overlapped' => Login(d)'
    BY DEF NumberInv, Login, SameRecord
  <1>5. state' = "OPEN" /\ ~refused' => Announced(d)'
    BY DEF NumberInv, Announced, Known, SameRecord
  <1>6. QED BY <1>2, <1>3, <1>4, <1>5 DEF NumberInv

(* A transaction is begun for a client, or is done with. *)
LEMMA SubmittedWith ==
  ASSUME TypeOK, NEW t \in Transactions, transaction[t] = "free", NEW c \in Clients,
         transaction' = [transaction EXCEPT ![t] = "PROCESSING"],
         owner' = [owner EXCEPT ![t] = c], NEW d \in Clients
  PROVE  SubmittedOf(d)' = SubmittedOf(d) + (IF d = c THEN 1 ELSE 0)
PROOF
  <1>1. t \notin Submitted(d)
    BY DEF Submitted
  <1>2. Submitted(d)' = Submitted(d) \union (IF d = c THEN {t} ELSE {})
    BY DEF Submitted, TypeOK
  <1>3. IsFiniteSet(Submitted(d)) /\ Cardinality(Submitted(d)) \in Nat
    BY NumbersAreNatural DEF SubmittedOf
  <1>4. Cardinality(Submitted(d) \union {t}) = Cardinality(Submitted(d)) + 1
    BY <1>1, <1>3, FS_AddElement
  <1>5. CASE d = c
    BY <1>2, <1>4, <1>5 DEF SubmittedOf
  <1>6. CASE d # c
    <2>1. Submitted(d)' = Submitted(d)
      BY <1>2, <1>6
    <2>2. QED BY <1>3, <1>6, <2>1 DEF SubmittedOf
  <1>7. QED BY <1>5, <1>6

LEMMA SubmittedWithout ==
  ASSUME TypeOK, NEW t \in Transactions, transaction[t] \in {"PROCESSING", "CANCELLED"},
         NEW after \in {"DONE", "free"},
         transaction' = [transaction EXCEPT ![t] = after],
         \A u \in Transactions \ {t} : owner'[u] = owner[u], NEW d \in Clients
  PROVE  /\ SubmittedOf(d) = SubmittedOf(d)' + (IF d = owner[t] THEN 1 ELSE 0)
         /\ SubmittedOf(d)' \in Nat
PROOF
  <1>1. t \in Submitted(d) <=> d = owner[t]
    BY DEF Submitted
  <1>2. Submitted(d)' = Submitted(d) \ {t}
    BY DEF Submitted, TypeOK
  <1>3. IsFiniteSet(Submitted(d)) /\ Cardinality(Submitted(d)) \in Nat
    BY NumbersAreNatural DEF SubmittedOf
  <1>4. /\ IsFiniteSet(Submitted(d) \ {t})
        /\ Cardinality(Submitted(d) \ {t})
             = IF t \in Submitted(d) THEN Cardinality(Submitted(d)) - 1
                                     ELSE Cardinality(Submitted(d))
    BY <1>3, FS_RemoveElement
  <1>5. Cardinality(Submitted(d) \ {t}) \in Nat
    BY <1>4, FS_CardinalityType
  <1>6. QED BY <1>1, <1>2, <1>3, <1>4, <1>5 DEF SubmittedOf

LEMMA CloseStep ==
  ASSUME IInv, Close, Running', NEW d \in Clients
  PROVE  CloseInv' /\ NumberInv(d)'
PROOF
  <1>1. /\ TypeOK /\ CloseInv /\ NumberInv(d) /\ Received("CLOSE")
        /\ state' # "OPEN"
        /\ connection' = [x \in Clients |-> IF Listed(x) /\ connection[x] = "open"
                                            THEN "closing" ELSE connection[x]]
        /\ UNCHANGED <<recordVars, serverVars, authVars, history>>
    BY DEF IInv, Close, Received
  <1>2. /\ OpensOf(d)' = OpensOf(d) /\ ClosesOf(d)' = ClosesOf(d) /\ AnswersOf(d)' = AnswersOf(d)
        /\ ToldOf(d)' = ToldOf(d) /\ ToldToClose # 0
    <2>1. /\ OpensOf(d) = OpensOf(d)' + 0 /\ ClosesOf(d) = ClosesOf(d)' + 0
          /\ AnswersOf(d) = AnswersOf(d)' + 0 /\ ToldOf(d) = ToldOf(d)' + 0
          /\ OpensOf(d)' \in Nat /\ ClosesOf(d)' \in Nat /\ AnswersOf(d)' \in Nat
          /\ ToldOf(d)' \in Nat /\ ToldToClose # 0
      BY <1>1, TakenAbout
    <2>2. QED BY <2>1 DEF ToldToClose
  <1>3. /\ StartsOf(d)' = StartsOf(d) /\ OnServer(d)' = OnServer(d)
        /\ SubmittedOf(d)' = SubmittedOf(d) /\ KeepersOf(d)' = KeepersOf(d)
        /\ (Listed(d)' <=> Listed(d))
    BY <1>1, NoneMovedOnServer, SameTransactions, SameKeepers
    DEF serverVars, authVars, recordVars, Listed
  <1>4. CloseInv'
    BY <1>1, <1>2 DEF CloseInv, serverVars
  <1>5. connection'[d] = IF Listed(d) /\ connection[d] = "open" THEN "closing" ELSE connection[d]
    BY <1>1
  <1>6. References(d)' = References(d) /\ LoginsOf(d)' = LoginsOf(d)
    BY <1>2, <1>3, <1>5, ReferencesAre DEF InList, InConnection
  <1>7. Arrival(d)' /\ KnownInv(d)'
    BY <1>1, <1>2, <1>3, <1>5, <1>6
    DEF NumberInv, Arrival, New, KnownInv, Known, recordVars, history
  <1>8. ~refused' => Counted(d)' /\ (d \notin overlapped' => Login(d)')
    BY <1>1, <1>3, <1>6 DEF NumberInv, Counted, Login, recordVars, serverVars, history
  <1>9. QED BY <1>1, <1>4, <1>7, <1>8 DEF NumberInv

LEMMA IgnoreStep ==
  ASSUME IInv, Ignore, Running', NEW d \in Clients
  PROVE  CloseInv' /\ NumberInv(d)'
PROOF
  <1> DEFINE k == IF d = Head(message_queue).client THEN 1 ELSE 0
  <1>1. /\ TypeOK /\ CloseInv /\ NumberInv(d) /\ Received("INCOMING_EVENT")
        /\ state = "CLOSING"
        /\ UNCHANGED <<state, recordVars, peerVars, serverVars, authVars, history>>
    BY DEF IInv, Ignore, Received
  <1>2. /\ OpensOf(d)' = OpensOf(d) /\ ClosesOf(d)' = ClosesOf(d) /\ AnswersOf(d)' = AnswersOf(d)
        /\ ToldOf(d) = ToldOf(d)' + k /\ ToldOf(d)' \in Nat /\ k \in {0, 1}
        /\ (ToldToClose' # 0 => ToldToClose # 0)
    BY <1>1, TakenAbout
  <1> HIDE DEF k
  <1>3. /\ StartsOf(d)' = StartsOf(d) /\ OnServer(d)' = OnServer(d)
        /\ SubmittedOf(d)' = SubmittedOf(d) /\ KeepersOf(d)' = KeepersOf(d)
    BY <1>1, NoneMovedOnServer, SameTransactions, SameKeepers DEF serverVars, authVars, recordVars
  <1>4. SameRecord(d)
    BY <1>1, <1>2 DEF SameRecord, recordVars, peerVars, serverVars, history, Listed
  <1>5. CloseInv'
    BY <1>1, <1>2 DEF CloseInv, serverVars
  <1>6. References(d)' = References(d) - k /\ LoginsOf(d)' = LoginsOf(d)
    BY <1>1, <1>2, <1>3, ReferencesAre, NumbersAreNatural
    DEF InList, InConnection, recordVars, peerVars, Listed
  <1>7. References(d) \in Nat /\ References(d) >= k /\ LoginsOf(d) \in Nat
    BY <1>1, <1>2, ReferencesAtLeast
  <1>8. server_state' # "OPEN" /\ use_count'[d] = use_count[d] /\ use_count[d] \in Int
    BY <1>1 DEF CloseInv, serverVars, recordVars, TypeOK
  <1>9. NumberInv(d)'
    BY <1>1, <1>2, <1>3, <1>4, <1>6, <1>7, <1>8, RecordStays
  <1>10. QED BY <1>5, <1>9
LEMMA ServerStartStep ==
  ASSUME IInv, ServerStart, Running', NEW d \in Clients
  PROVE  CloseInv' /\ NumberInv(d)'
PROOF
  <1> DEFINE c == Head(server_queue).client
             t == CHOOSE u \in FreeTransactions : \A v \in FreeTransactions : u <= v
             k == IF d = c THEN 1 ELSE 0
  <1>1. /\ TypeOK /\ CloseInv /\ NumberInv(d) /\ ServerReceived("START")
        /\ transaction' = [transaction EXCEPT ![t] = "PROCESSING"]
        /\ owner' = [owner EXCEPT ![t] = c]
        /\ client' = [client EXCEPT ![c].auth_transaction = t]
        /\ UNCHANGED <<state, message_queue, list, kept, use_count, peerVars, server_state, history>>
    BY DEF IInv, ServerStart, ServerReceived
  <1>2. c \in Clients
    BY <1>1, ServerReceivedFrom
  <1>3. t \in Transactions /\ transaction[t] = "free"
    BY FirstFree DEF ServerStart
  <1>4. /\ StartsOf(d) = StartsOf(d)' + k /\ OnServer(d) = OnServer(d)' + k
        /\ StartsOf(d)' \in Nat /\ OnServer(d)' \in Nat /\ k \in {0, 1}
    BY <1>1, ServerTakenAbout
  <1> HIDE DEF c, t
  <1>5. SubmittedOf(d)' = SubmittedOf(d) + k
    BY <1>1, <1>2, <1>3, SubmittedWith
  <1>6. /\ OpensOf(d)' = OpensOf(d) /\ ClosesOf(d)' = ClosesOf(d) /\ AnswersOf(d)' = AnswersOf(d)
        /\ ToldOf(d)' = ToldOf(d) /\ ToldToClose' = ToldToClose
        /\ KeepersOf(d)' = KeepersOf(d) /\ (Listed(d)' <=> Listed(d))
    BY <1>1, NoneMoved, SameKeepers DEF Listed
  <1>7. CloseInv'
    BY <1>1, <1>6 DEF CloseInv
  <1>8. k = 1 <=> d = c
    OBVIOUS
  <1> HIDE DEF k
  <1>9. References(d)' = References(d) /\ LoginsOf(d)' = LoginsOf(d)
    BY <1>1, <1>4, <1>5, <1>6, ReferencesAre, NumbersAreNatural DEF InList, InConnection, peerVars
  <1>10. CASE d = c
    <2>1. /\ client'[d].state = client[d].state /\ client'[d].credentials = client[d].credentials
          /\ client'[d].auth_transaction = t /\ t # NULL
      BY <1>1, <1>2, <1>3, <1>10, NullAssumption DEF TypeOK, Records
    <2>2. Arrival(d)' /\ KnownInv(d)'
      BY <1>1, <1>6, <1>9, <2>1 DEF NumberInv, Arrival, New, KnownInv, Known, peerVars, history
    <2>3. ~refused' => Counted(d)' /\ (d \notin overlapped' => Login(d)')
      BY <1>1, <1>9, <2>1 DEF NumberInv, Counted, Login, history
    <2>4. state' = "OPEN" /\ ~refused' => Announced(d)'
      BY <1>1, <1>6, <1>9, <2>1 DEF NumberInv, Announced, Known, history
    <2>5. QED BY <1>7, <2>2, <2>3, <2>4 DEF NumberInv
  <1>11. CASE d # c
    <2>1. client'[d] = client[d]
      BY <1>1, <1>2, <1>11 DEF TypeOK
    <2>2. k = 0
      BY <1>4, <1>8, <1>11
    <2>3. /\ StartsOf(d)' = StartsOf(d) /\ OnServer(d)' = OnServer(d)
          /\ SubmittedOf(d)' = SubmittedOf(d)
      BY <1>1, <1>4, <1>5, <2>2, NumbersAreNatural
    <2>4. NumberInv(d)'
      BY <1>1, <1>6, <2>1, <2>3, NothingAbout DEF peerVars, history
    <2>5. QED BY <1>7, <2>4
  <1>12. QED BY <1>10, <1>11

LEMMA ServerStartRefusedStep ==
  ASSUME IInv, ServerStartRefused, Running', NEW d \in Clients
  PROVE  CloseInv' /\ NumberInv(d)'
PROOF
  <1> DEFINE c == Head(server_queue).client
             k == IF d = c THEN 1 ELSE 0
  <1>1. /\ TypeOK /\ CloseInv /\ NumberInv(d) /\ ServerReceived("START")
        /\ use_count' = [use_count EXCEPT ![c] = @ + (-1)]
        /\ refused' = TRUE
        /\ UNCHANGED <<state, client, list, kept, peerVars, server_state, authVars, announced,
                       overlapped, again>>
    BY DEF IInv, ServerStartRefused, ServerReceived, Count
  <1>2. c \in Clients
    BY <1>1, ServerReceivedFrom
  <1>3. StartsOf(d) = StartsOf(d)' + k /\ OnServer(d) = OnServer(d)' + k
        /\ StartsOf(d)' \in Nat /\ OnServer(d)' \in Nat
    BY <1>1, ServerTakenAbout
  <1>4. /\ message_queue' = Append(message_queue, Message("AUTH_EVENT", c, "CLOSED"))
        /\ Message("AUTH_EVENT", c, "CLOSED") \in ClientsMessages
    <2>1. ToClients(Message("AUTH_EVENT", c, "CLOSED"))
      BY DEF ServerStartRefused
    <2>2. Message("AUTH_EVENT", c, "CLOSED") \in ClientsMessages
      BY <1>2, MessagesAre DEF Steps
    <2>3. QED BY <1>1, <2>1, <2>2, AtToClients
  <1> HIDE DEF c
  <1>5. /\ OpensOf(d)' = OpensOf(d) /\ ClosesOf(d)' = ClosesOf(d)
        /\ AnswersOf(d)' = AnswersOf(d) + k /\ ToldOf(d)' = ToldOf(d) + k
        /\ ToldToClose' = ToldToClose /\ AnswersOf(d) \in Nat /\ ToldOf(d) \in Nat
    <2>1. /\ OpensOf(d)' = OpensOf(d) + 0 /\ ClosesOf(d)' = ClosesOf(d) + 0
          /\ AnswersOf(d)' = AnswersOf(d) + k /\ ToldOf(d)' = ToldOf(d) + k
          /\ ToldToClose' = ToldToClose
          /\ OpensOf(d) \in Nat /\ ClosesOf(d) \in Nat /\ AnswersOf(d) \in Nat
          /\ ToldOf(d) \in Nat
      BY <1>1, <1>4, PutAbout
    <2>2. QED BY <2>1 DEF ToldToClose
  <1>6. k \in {0, 1}
    OBVIOUS
  <1> HIDE DEF k
  <1>7. SubmittedOf(d)' = SubmittedOf(d) /\ KeepersOf(d)' = KeepersOf(d)
    BY <1>1, SameTransactions, SameKeepers DEF authVars
  <1>8. SameRecord(d)
    BY <1>1, <1>5 DEF SameRecord, peerVars, Listed
  <1>9. CloseInv'
    BY <1>1, <1>5 DEF CloseInv
  <1>10. References(d)' = References(d) /\ LoginsOf(d)' = LoginsOf(d)
    BY <1>1, <1>3, <1>5, <1>6, <1>7, ReferencesAre, NumbersAreNatural
    DEF InList, InConnection, peerVars, Listed
  <1>11. References(d) \in Nat /\ LoginsOf(d) \in Nat
    BY <1>1, ReferencesAtLeast
  <1>12. use_count'[d] \in Int
    BY <1>1, <1>2 DEF TypeOK
  <1>13. NumberInv(d)'
    BY <1>1, <1>8, <1>10, <1>11, <1>12, RecordStays
  <1>14. QED BY <1>9, <1>13

LEMMA ServerFinishStep ==
  ASSUME IInv, ServerFinish, Running', NEW d \in Clients
  PROVE  CloseInv' /\ NumberInv(d)'
PROOF
  <1> DEFINE t == Head(server_queue).arg
  <1>1. /\ TypeOK /\ CloseInv /\ NumberInv(d) /\ ServerReceived("FINISH")
        /\ t # NULL
        /\ transaction' = [transaction EXCEPT ![t] = Finished(t)]
        /\ owner' = [u \in Transactions |-> IF transaction'[u] = "free" THEN NULL ELSE owner[u]]
        /\ UNCHANGED <<state, message_queue, recordVars, peerVars, server_state, history>>
    <2>1. t # NULL
      BY DEF ServerFinish, Running
    <2>2. QED BY <2>1 DEF IInv, ServerFinish, ServerReceived
  <1>2. t \in Transactions
    BY <1>1, ServerReceivedFrom
  <1>3. StartsOf(d)' = StartsOf(d) /\ OnServer(d)' = OnServer(d)
    <2>1. /\ StartsOf(d) = StartsOf(d)' + 0 /\ OnServer(d) = OnServer(d)' + 0
          /\ StartsOf(d)' \in Nat /\ OnServer(d)' \in Nat
      BY <1>1, ServerTakenAbout
    <2>2. QED BY <2>1
  <1> HIDE DEF t
  <1>4. SubmittedOf(d)' = SubmittedOf(d)
    <2>1. Finished(t) \in {"PROCESSING", "CANCELLED"}
            <=> transaction[t] \in {"PROCESSING", "CANCELLED"}
      BY DEF Finished
    <2>2. \A u \in Transactions : transaction'[u] \in {"PROCESSING", "CANCELLED"}
                                    <=> transaction[u] \in {"PROCESSING", "CANCELLED"}
      BY <1>1, <1>2, <2>1 DEF TypeOK
    <2>3. Submitted(d)' = Submitted(d)
      BY <1>1, <2>2 DEF Submitted
    <2>4. QED BY <2>3 DEF SubmittedOf
  <1>5. /\ OpensOf(d)' = OpensOf(d) /\ ClosesOf(d)' = ClosesOf(d) /\ AnswersOf(d)' = AnswersOf(d)
        /\ ToldOf(d)' = ToldOf(d) /\ ToldToClose' = ToldToClose
        /\ KeepersOf(d)' = KeepersOf(d) /\ (Listed(d)' <=> Listed(d))
    BY <1>1, NoneMoved, SameKeepers DEF recordVars, Listed
  <1>6. CloseInv'
    BY <1>1, <1>5 DEF CloseInv
  <1>7. NumberInv(d)'
    BY <1>1, <1>3, <1>4, <1>5, NothingAbout DEF recordVars, peerVars, history
  <1>8. QED BY <1>6, <1>7

LEMMA ServerResultStep ==
  ASSUME IInv, ServerResult, Running', NEW d \in Clients
  PROVE  CloseInv' /\ NumberInv(d)'
PROOF
  <1> DEFINE c == Head(server_queue).client
             step == Head(server_queue).arg
             k == IF d = c THEN 1 ELSE 0
  <1>1. /\ TypeOK /\ CloseInv /\ NumberInv(d) /\ ServerReceived("AUTH_RESULT")
        /\ UNCHANGED <<state, recordVars, peerVars, server_state, authVars, history>>
    BY DEF IInv, ServerResult, ServerReceived
  <1>2. c \in Clients /\ step \in Steps
    BY <1>1, ServerReceivedFrom
  <1>3. StartsOf(d)' = StartsOf(d) /\ OnServer(d) = OnServer(d)' + k /\ OnServer(d)' \in Nat
    <2>1. /\ StartsOf(d) = StartsOf(d)' + 0 /\ OnServer(d) = OnServer(d)' + k
          /\ StartsOf(d)' \in Nat /\ OnServer(d)' \in Nat
      BY <1>1, ServerTakenAbout
    <2>2. QED BY <2>1
  <1>4. /\ message_queue' = Append(message_queue, Message("AUTH_EVENT", c, step))
        /\ Message("AUTH_EVENT", c, step) \in ClientsMessages
    <2>1. ToClients(Message("AUTH_EVENT", c, step))
      BY DEF ServerResult
    <2>2. Message("AUTH_EVENT", c, step) \in ClientsMessages
      BY <1>2, MessagesAre
    <2>3. QED BY <1>1, <2>1, <2>2, AtToClients
  <1> HIDE DEF c, step
  <1>5. /\ OpensOf(d)' = OpensOf(d) /\ ClosesOf(d)' = ClosesOf(d)
        /\ AnswersOf(d)' = AnswersOf(d) + k /\ ToldOf(d)' = ToldOf(d) + k
        /\ ToldToClose' = ToldToClose /\ AnswersOf(d) \in Nat /\ ToldOf(d) \in Nat
    <2>1. /\ OpensOf(d)' = OpensOf(d) + 0 /\ ClosesOf(d)' = ClosesOf(d) + 0
          /\ AnswersOf(d)' = AnswersOf(d) + k /\ ToldOf(d)' = ToldOf(d) + k
          /\ ToldToClose' = ToldToClose
          /\ OpensOf(d) \in Nat /\ ClosesOf(d) \in Nat /\ AnswersOf(d) \in Nat
          /\ ToldOf(d) \in Nat
      BY <1>1, <1>4, PutAbout
    <2>2. QED BY <2>1 DEF ToldToClose
  <1>6. k \in {0, 1}
    OBVIOUS
  <1> HIDE DEF k
  <1>7. SubmittedOf(d)' = SubmittedOf(d) /\ KeepersOf(d)' = KeepersOf(d)
    BY <1>1, SameTransactions, SameKeepers DEF authVars, recordVars
  <1>8. SameRecord(d)
    BY <1>1, <1>5 DEF SameRecord, recordVars, peerVars, history, Listed
  <1>9. CloseInv'
    BY <1>1, <1>5 DEF CloseInv
  <1>10. References(d)' = References(d) /\ LoginsOf(d)' = LoginsOf(d)
    BY <1>1, <1>3, <1>5, <1>6, <1>7, ReferencesAre, NumbersAreNatural
    DEF InList, InConnection, recordVars, peerVars, Listed
  <1>11. References(d) \in Nat /\ LoginsOf(d) \in Nat
    BY <1>1, ReferencesAtLeast
  <1>12. use_count'[d] = use_count[d] /\ use_count[d] \in Int
    BY <1>1 DEF TypeOK, recordVars
  <1>13. NumberInv(d)'
    BY <1>1, <1>3, <1>8, <1>10, <1>11, <1>12, RecordStays
  <1>14. QED BY <1>9, <1>13

LEMMA ServerCloseStep ==
  ASSUME IInv, ServerClose, Running', NEW d \in Clients
  PROVE  CloseInv' /\ NumberInv(d)'
PROOF
  <1>1. /\ TypeOK /\ NumberInv(d)
        /\ server_state' = "CLOSING"
        /\ UNCHANGED <<state, recordVars, peerVars, server_queue, authVars, history>>
    BY DEF IInv, ServerClose
  <1>2. /\ message_queue' = Append(message_queue, Message("CLOSE", NULL, NULL))
        /\ Message("CLOSE", NULL, NULL) \in ClientsMessages
    BY <1>1, MessagesAre, AtToClients DEF ServerClose, CloseMessage
  <1>3. /\ OpensOf(d)' = OpensOf(d) /\ ClosesOf(d)' = ClosesOf(d) /\ AnswersOf(d)' = AnswersOf(d)
        /\ ToldOf(d)' = ToldOf(d)
    <2>1. /\ OpensOf(d)' = OpensOf(d) + 0 /\ ClosesOf(d)' = ClosesOf(d) + 0
          /\ AnswersOf(d)' = AnswersOf(d) + 0 /\ ToldOf(d)' = ToldOf(d) + 0
          /\ OpensOf(d) \in Nat /\ ClosesOf(d) \in Nat /\ AnswersOf(d) \in Nat
          /\ ToldOf(d) \in Nat
      BY <1>1, <1>2, PutAbout
    <2>2. QED BY <2>1
  <1>4. /\ StartsOf(d)' = StartsOf(d) /\ OnServer(d)' = OnServer(d)
        /\ SubmittedOf(d)' = SubmittedOf(d) /\ KeepersOf(d)' = KeepersOf(d)
        /\ (Listed(d)' <=> Listed(d))
    BY <1>1, NoneMovedOnServer, SameTransactions, SameKeepers DEF authVars, recordVars, Listed
  <1>5. NumberInv(d)'
    BY <1>1, <1>3, <1>4, NothingAbout DEF recordVars, peerVars, history
  <1>6. QED BY <1>1, <1>5 DEF CloseInv

LEMMA ServerIgnoreStep ==
  ASSUME IInv, ServerIgnore, Running', NEW d \in Clients
  PROVE  CloseInv' /\ NumberInv(d)'
PROOF
  <1>1. /\ TypeOK /\ NumberInv(d) /\ server_state' = "CLOSING"
        /\ UNCHANGED <<state, message_queue, recordVars, peerVars, server_state, authVars, history>>
    BY DEF IInv, ServerIgnore, ServerReceived
  <1>2. PICK type \in {"START", "FINISH", "AUTH_RESULT"} : ServerReceived(type)
    BY DEF ServerIgnore
  <1>3. /\ OnServer(d)' <= OnServer(d) /\ OnServer(d)' \in Nat /\ OnServer(d) \in Nat
        /\ OnServer(d)' = OnServer(d) => StartsOf(d)' = StartsOf(d)
    <2>1. /\ StartsOf(d) = StartsOf(d)' + (IF type = "START" /\ d = Head(server_queue).client
                                           THEN 1 ELSE 0)
          /\ OnServer(d) = OnServer(d)'
               + (IF type \in {"START", "AUTH_RESULT"} /\ d = Head(server_queue).client
                  THEN 1 ELSE 0)
          /\ StartsOf(d)' \in Nat /\ OnServer(d)' \in Nat
      BY <1>1, <1>2, ServerTakenAbout
    <2>2. QED BY <2>1
  <1>4. /\ OpensOf(d)' = OpensOf(d) /\ ClosesOf(d)' = ClosesOf(d) /\ AnswersOf(d)' = AnswersOf(d)
        /\ ToldOf(d)' = ToldOf(d)
        /\ SubmittedOf(d)' = SubmittedOf(d) /\ KeepersOf(d)' = KeepersOf(d)
    BY <1>1, NoneMoved, SameTransactions, SameKeepers DEF authVars, recordVars
  <1>5. SameRecord(d)
    BY <1>1, <1>4 DEF SameRecord, recordVars, peerVars, history, Listed
  <1>6. /\ References(d) \in Nat /\ References(d)' \in Nat /\ References(d)' <= References(d)
        /\ LoginsOf(d) \in Nat /\ LoginsOf(d)' \in Nat /\ LoginsOf(d)' <= LoginsOf(d)
        /\ LoginsOf(d)' = LoginsOf(d) => OnServer(d)' = OnServer(d)
    <2>1. /\ InList(d)' = InList(d) /\ InList(d) \in Nat
          /\ InConnection(d)' = InConnection(d) /\ InConnection(d) \in Nat
      BY <1>1 DEF InList, InConnection, recordVars, peerVars, Listed
    <2>2. /\ KeepersOf(d) \in Nat /\ ToldOf(d) \in Nat /\ SubmittedOf(d) \in Nat
          /\ AnswersOf(d) \in Nat
      BY <1>1, NumbersAreNatural
    <2>3. QED BY <1>3, <1>4, <2>1, <2>2, ReferencesAre
  <1>7. use_count'[d] = use_count[d] /\ use_count[d] \in Int
    BY <1>1 DEF TypeOK, recordVars
  <1>8. NumberInv(d)'
    BY <1>1, <1>3, <1>5, <1>6, <1>7, RecordStays
  <1>9. QED BY <1>1, <1>8 DEF CloseInv

LEMMA AuthAnswersStep ==
  ASSUME IInv, AuthAnswers, Running', NEW d \in Clients
  PROVE  CloseInv' /\ NumberInv(d)'
PROOF
  <1> DEFINE t == Head(auth_queue)
             c == owner[t]
             k == IF d = c THEN 1 ELSE 0
  <1>1. /\ TypeOK /\ OwnerInv /\ CloseInv /\ NumberInv(d)
        /\ transaction[t] = "PROCESSING"
        /\ transaction' = [transaction EXCEPT ![t] = "DONE"]
        /\ UNCHANGED <<state, message_queue, recordVars, peerVars, server_state, owner, history>>
    BY DEF IInv, AuthAnswers
  <1>2. t \in Transactions /\ c \in Clients
    BY <1>1, AuthTypes
  <1>3. PICK step \in Answers(client[c].credentials) : ToServer(Message("AUTH_RESULT", c, step))
    BY DEF AuthAnswers
  <1>4. /\ server_queue' = Append(server_queue, Message("AUTH_RESULT", c, step))
        /\ Message("AUTH_RESULT", c, step) \in ServerMessages
    <2>1. step \in Steps
      BY <1>1, <1>2, <1>3 DEF TypeOK, Records, Answers, Steps
    <2>2. Message("AUTH_RESULT", c, step) \in ServerMessages
      BY <1>2, <2>1, MessagesAre
    <2>3. QED BY <1>1, <1>3, <2>2, AtToServer
  <1>5. SubmittedOf(d) = SubmittedOf(d)' + k /\ SubmittedOf(d)' \in Nat
    BY <1>1, <1>2, SubmittedWithout
  <1>6. StartsOf(d)' = StartsOf(d) /\ OnServer(d)' = OnServer(d) + k /\ OnServer(d) \in Nat
    <2>1. StartsOf(d)' = StartsOf(d) + 0 /\ OnServer(d)' = OnServer(d) + k
      BY <1>1, <1>4, ServerPutAbout
    <2>2. StartsOf(d) \in Nat /\ OnServer(d) \in Nat
      BY <1>1, NumbersAreNatural
    <2>3. QED BY <2>1, <2>2
  <1>7. k \in {0, 1}
    OBVIOUS
  <1> HIDE DEF t, c, k
  <1>8. /\ OpensOf(d)' = OpensOf(d) /\ ClosesOf(d)' = ClosesOf(d) /\ AnswersOf(d)' = AnswersOf(d)
        /\ ToldOf(d)' = ToldOf(d) /\ ToldToClose' = ToldToClose /\ KeepersOf(d)' = KeepersOf(d)
    BY <1>1, NoneMoved, SameKeepers DEF recordVars
  <1>9. SameRecord(d)
    BY <1>1, <1>8 DEF SameRecord, recordVars, peerVars, history, Listed
  <1>10. CloseInv'
    BY <1>1, <1>8 DEF CloseInv
  <1>11. References(d)' = References(d) /\ LoginsOf(d)' = LoginsOf(d)
    BY <1>1, <1>5, <1>6, <1>7, <1>8, ReferencesAre, NumbersAreNatural
    DEF InList, InConnection, recordVars, peerVars, Listed
  <1>12. References(d) \in Nat /\ LoginsOf(d) \in Nat
    BY <1>1, ReferencesAtLeast
  <1>13. use_count'[d] = use_count[d] /\ use_count[d] \in Int
    BY <1>1 DEF TypeOK, recordVars
  <1>14. NumberInv(d)'
    BY <1>1, <1>6, <1>9, <1>11, <1>12, <1>13, RecordStays
  <1>15. QED BY <1>10, <1>14

LEMMA AuthDiscardsStep ==
  ASSUME IInv, AuthDiscards, Running', NEW d \in Clients
  PROVE  CloseInv' /\ NumberInv(d)'
PROOF
  <1> DEFINE t == Head(auth_queue)
             c == owner[t]
             k == IF d = c THEN 1 ELSE 0
  <1>1. /\ TypeOK /\ OwnerInv /\ CloseInv /\ NumberInv(d)
        /\ transaction[t] = "CANCELLED"
        /\ transaction' = [transaction EXCEPT ![t] = "free"]
        /\ owner' = [owner EXCEPT ![t] = NULL]
        /\ use_count' = [use_count EXCEPT ![c] = @ + (-1)]
        /\ UNCHANGED <<state, message_queue, client, list, kept, peerVars, serverVars, history>>
    BY DEF IInv, AuthDiscards, Count
  <1>2. t \in Transactions /\ c \in Clients
    BY <1>1, AuthTypes
  <1>3. SubmittedOf(d) = SubmittedOf(d)' + k /\ SubmittedOf(d)' \in Nat
    <2>1. \A u \in Transactions \ {t} : owner'[u] = owner[u]
      BY <1>1 DEF TypeOK
    <2>2. QED BY <1>1, <1>2, <2>1, SubmittedWithout
  <1>4. use_count'[d] = use_count[d] - k /\ use_count[d] \in Int
    BY <1>1, <1>2 DEF TypeOK
  <1>5. k \in {0, 1}
    OBVIOUS
  <1> HIDE DEF t, c, k
  <1>6. /\ OpensOf(d)' = OpensOf(d) /\ ClosesOf(d)' = ClosesOf(d) /\ AnswersOf(d)' = AnswersOf(d)
        /\ ToldOf(d)' = ToldOf(d) /\ ToldToClose' = ToldToClose /\ KeepersOf(d)' = KeepersOf(d)
        /\ StartsOf(d)' = StartsOf(d) /\ OnServer(d)' = OnServer(d)
    BY <1>1, NoneMoved, NoneMovedOnServer, SameKeepers DEF serverVars
  <1>7. SameRecord(d)
    BY <1>1, <1>6 DEF SameRecord, peerVars, serverVars, history, Listed
  <1>8. CloseInv'
    BY <1>1, <1>6 DEF CloseInv, serverVars
  <1>9. /\ References(d)' = References(d) - k /\ LoginsOf(d)' = LoginsOf(d) - k
    BY <1>1, <1>3, <1>5, <1>6, ReferencesAre, NumbersAreNatural
    DEF InList, InConnection, peerVars, Listed
  <1>10. /\ References(d) \in Nat /\ LoginsOf(d) \in Nat
         /\ References(d) >= k /\ LoginsOf(d) >= k
    <2>1. SubmittedOf(d) >= k /\ SubmittedOf(d) \in Nat
      BY <1>3, <1>5
    <2>2. QED BY <1>1, <1>5, <2>1, ReferencesAtLeast
  <1>11. NumberInv(d)'
    BY <1>1, <1>4, <1>5, <1>6, <1>7, <1>9, <1>10, RecordStays
  <1>12. QED BY <1>8, <1>11

-----------------------------------------------------------------------------
(* No step is taken once the program has ended, and chat_clients does not open
   again.  *)
LEMMA NextFrom ==
  ASSUME Next
  PROVE  Running /\ (state' = "OPEN" => state = "OPEN")
PROOF
  <1> DEFINE From == Running /\ (state' = "OPEN" => state = "OPEN")
  <1> SUFFICES From
    OBVIOUS
  <1>1. CASE ClientsThread
    BY <1>1
    DEF ClientsThread, OpenClient, OpenClientFails, AuthEvent, Submit, SubmitWithoutCredentials,
        OtherEvent, UserLeave, ClientConnectionClosed, NoStatus, Close, Ignore, Received
  <1>2. CASE ServerThread \/ ServerClose
    BY <1>2
    DEF ServerThread, ServerStart, ServerStartRefused, ServerFinish, ServerResult, ServerIgnore,
        ServerReceived, ServerClose
  <1>3. CASE AuthThread \/ UseAfterFree
    BY <1>3 DEF AuthThread, AuthAnswers, DatabaseFails, AuthDiscards, UseAfterFree
  <1>4. CASE \E c \in Clients : Accept(c) \/ ConnectionClosed(c)
    BY <1>4 DEF Accept, ConnectionClosed
  <1>5. CASE \E c \in Clients : ConnectionStuck(c) \/ ConnectionReleases(c) \/ Destroy(c)
    BY <1>5 DEF ConnectionStuck, ConnectionReleases, Destroy
  <1>6. CASE \E c \in Clients : \E e \in Events : IncomingEvent(c, e)
    BY <1>6 DEF IncomingEvent
  <1> HIDE DEF From
  <1>7. QED BY <1>1, <1>2, <1>3, <1>4, <1>5, <1>6, Zenon DEF Next

-----------------------------------------------------------------------------
(* The invariant is inductive. *)

(* The list is of the Bystanders at first. *)
LEMMA InitList ==
  ASSUME Init
  PROVE  \A c \in Clients : Listed(c) <=> c \in Bystanders
PROOF
  <1> DEFINE n == Cardinality(Bystanders)
  <1>1. IsFiniteSet(Bystanders)
    <2>1. IsFiniteSet(Clients)
      BY BoundsAssumption, FS_Interval DEF Clients
    <2>2. Bystanders \in SUBSET Clients
      BY PeersAssumption
    <2>3. QED BY <2>1, <2>2, FS_Subset
  <1>2. n \in Nat /\ ExistsBijection(1 .. n, Bystanders)
    BY <1>1, FS_CardinalityType
  <1>3. PICK f : f \in Bijection(1 .. n, Bystanders)
    BY <1>2 DEF ExistsBijection
  <1>4. f \in [1 .. n -> Bystanders] /\ IsInjective(f)
    BY <1>3 DEF Bijection, Injection
  <1>5. list \in [1 .. n -> Bystanders] /\ IsInjective(list)
    BY <1>4 DEF Init, SetToSeq
  <1>6. Cardinality(1 .. n) = n
    BY <1>2, FS_Interval
  <1>7. list \in Surjection(1 .. n, Bystanders)
    <2>1. list \in Injection(1 .. n, Bystanders)
      BY <1>5 DEF Injection
    <2>2. QED BY <1>1, <1>6, <2>1, FS_Injection
  <1>8. list \in Seq(Bystanders) /\ Len(list) = n
    BY <1>2, <1>5, SeqDef, LenProperties
  <1>9. \A c : Listed(c) <=> \E i \in 1 .. n : list[i] = c
    BY <1>8 DEF Listed, ToSet
  <1> HIDE DEF n
  <1>10. QED BY <1>5, <1>7, <1>9 DEF Surjection

LEMMA InitIInv == Init => IInv
PROOF
  <1> SUFFICES ASSUME Init
               PROVE  IInv
    OBVIOUS
  <1>1. TypeOK /\ OwnerInv
    BY InitTypes
  <1>2. CloseInv
    <2>1. About(message_queue, {"CLOSE"}, NULL) = {}
      BY DEF Init, About
    <2>2. QED BY <2>1, FS_EmptySet DEF Init, CloseInv, ToldToClose
  <1>3. ASSUME NEW c \in Clients
        PROVE  NumberInv(c)
    <2>1. /\ OpensOf(c) = 0 /\ ClosesOf(c) = 0 /\ AnswersOf(c) = 0 /\ ToldOf(c) = 0
          /\ StartsOf(c) = 0 /\ OnServer(c) = 0
      <3>1. \A types : About(message_queue, types, c) = {} /\ About(server_queue, types, c) = {}
        BY DEF Init, About
      <3>2. QED BY <3>1, FS_EmptySet, Zenon
            DEF OpensOf, ClosesOf, AnswersOf, ToldOf, StartsOf, OnServer, Answered, ToldClients,
                Starting, ToldServer
    <2>2. SubmittedOf(c) = 0 /\ KeepersOf(c) = 0
      <3>1. Submitted(c) = {} /\ Keepers(c) = {}
        BY DEF Init, Submitted, Keepers
      <3>2. QED BY <3>1, FS_EmptySet DEF SubmittedOf, KeepersOf
    <2>3. Listed(c) <=> c \in Bystanders
      BY InitList
    <2>4. /\ connection[c] = (IF c \in Bystanders THEN "open" ELSE "none")
          /\ client[c].state = (IF c \in Bystanders THEN "AUTHENTICATING_USERNAME" ELSE "UNUSED")
          /\ kept[c] = {} /\ announced = {}
          /\ use_count[c] = (IF c \in Bystanders THEN 3 ELSE 0)
      BY DEF Init, InitialClient
    <2>5. /\ References(c) = (IF c \in Bystanders THEN 3 ELSE 0)
          /\ LoginsOf(c) = 0
      BY <2>1, <2>2, <2>3, <2>4, ReferencesAre DEF InList, InConnection
    <2>6. Arrival(c) /\ KnownInv(c)
      BY <2>1, <2>3, <2>4, <2>5 DEF Arrival, New, KnownInv, Known
    <2>7. Counted(c) /\ Login(c) /\ Announced(c)
      BY <2>4, <2>5 DEF Counted, Login, Announced
    <2>8. QED BY <2>6, <2>7 DEF NumberInv
  <1>4. QED BY <1>1, <1>2, <1>3 DEF IInv

LEMMA TypeStep ==
  ASSUME IInv, Next
  PROVE  TypeOK' /\ OwnerInv'
PROOF
  <1>1. TypeOK /\ OwnerInv /\ \A c \in Clients : Arrival(c)
    BY NextFrom DEF IInv, NumberInv
  <1>2. CASE \/ OpenClientFails \/ SubmitWithoutCredentials \/ NoStatus \/ DatabaseFails
             \/ UseAfterFree
    BY <1>1, <1>2, FailTypes
  <1>3. CASE OpenClient
    BY <1>1, <1>3, OpenClientTypes
  <1>4. CASE AuthEvent
    BY <1>1, <1>4, AuthEventTypes
  <1>5. CASE \E e \in {"USERNAME_SUBMIT", "PASSWORD_SUBMIT"} : Submit(e)
    BY <1>1, <1>5, SubmitTypes
  <1>6. CASE OtherEvent \/ UserLeave \/ Close \/ Ignore
    BY <1>1, <1>6, EventTypes
  <1>7. CASE ClientConnectionClosed
    BY <1>1, <1>7, ClientConnectionClosedTypes
  <1>8. CASE ServerThread \/ ServerClose
    BY <1>1, <1>8, ServerStartTypes, ServerStartRefusedTypes, ServerFinishTypes, ServerTypes
    DEF ServerThread
  <1>9. CASE AuthAnswers \/ AuthDiscards
    BY <1>1, <1>9, AuthTypes
  <1>10. ASSUME NEW c \in Clients,
                \/ Accept(c) \/ ConnectionClosed(c) \/ ConnectionStuck(c)
                \/ ConnectionReleases(c) \/ Destroy(c)
                \/ \E e \in Events : IncomingEvent(c, e)
         PROVE  TypeOK' /\ OwnerInv'
    BY <1>1, <1>10, ConnectionTypes
  <1>11. QED BY <1>2, <1>3, <1>4, <1>5, <1>6, <1>7, <1>8, <1>9, <1>10, Zenon
         DEF Next, ClientsThread, AuthThread

LEMMA NumberStep ==
  ASSUME IInv, Next, Running', NEW d \in Clients
  PROVE  CloseInv' /\ NumberInv(d)'
PROOF
  <1>1. CASE \/ OpenClientFails \/ SubmitWithoutCredentials \/ NoStatus \/ DatabaseFails
             \/ UseAfterFree
    BY <1>1, FailTypes DEF IInv
  <1>2. CASE \/ OpenClient \/ AuthEvent \/ OtherEvent \/ UserLeave \/ ClientConnectionClosed
             \/ Close \/ Ignore
    BY <1>2, OpenClientStep, AuthEventStep, OtherEventStep, UserLeaveStep,
       ClientConnectionClosedStep, CloseStep, IgnoreStep
  <1>3. CASE \E e \in {"USERNAME_SUBMIT", "PASSWORD_SUBMIT"} : Submit(e)
    BY <1>3, SubmitStep
  <1>4. CASE ServerThread \/ ServerClose
    BY <1>4, ServerStartStep, ServerStartRefusedStep, ServerFinishStep, ServerResultStep,
       ServerIgnoreStep, ServerCloseStep DEF ServerThread
  <1>5. CASE AuthAnswers \/ AuthDiscards
    BY <1>5, AuthAnswersStep, AuthDiscardsStep
  <1>6. ASSUME NEW c \in Clients,
               \/ Accept(c) \/ ConnectionClosed(c) \/ ConnectionStuck(c)
               \/ ConnectionReleases(c) \/ Destroy(c)
               \/ \E e \in Events : IncomingEvent(c, e)
        PROVE  CloseInv' /\ NumberInv(d)'
    BY <1>6, AcceptStep, ConnectionClosedStep, ConnectionStuckStep, ConnectionReleasesStep,
       DestroyStep, IncomingEventStep
  <1>7. QED BY <1>1, <1>2, <1>3, <1>4, <1>5, <1>6, Zenon DEF Next, ClientsThread, AuthThread

LEMMA NextIInv == IInv /\ [Next]_vars => IInv'
PROOF
  <1> SUFFICES ASSUME IInv, [Next]_vars
               PROVE  IInv'
    OBVIOUS
  <1>1. CASE Next
    <2>1. TypeOK' /\ OwnerInv'
      BY <1>1, TypeStep
    <2>2. Running' => \A d \in Clients : CloseInv' /\ NumberInv(d)'
      BY <1>1, NumberStep
    <2>3. QED BY <2>1, <2>2 DEF IInv
  <1>2. CASE UNCHANGED vars
    <2> USE <1>2 DEF vars, recordVars, peerVars, serverVars, authVars, history
    <2>1. TypeOK' /\ OwnerInv' /\ (Running' <=> Running)
      BY DEF IInv, TypeOK, OwnerInv, Running
    <2>2. ASSUME NEW d \in Clients, Running
          PROVE  CloseInv' /\ NumberInv(d)'
      <3>1. /\ OpensOf(d)' = OpensOf(d) /\ ClosesOf(d)' = ClosesOf(d)
            /\ AnswersOf(d)' = AnswersOf(d) /\ ToldOf(d)' = ToldOf(d)
            /\ StartsOf(d)' = StartsOf(d) /\ OnServer(d)' = OnServer(d)
            /\ SubmittedOf(d)' = SubmittedOf(d) /\ KeepersOf(d)' = KeepersOf(d)
            /\ ToldToClose' = ToldToClose /\ (Listed(d)' <=> Listed(d))
        BY NoneMoved, NoneMovedOnServer, SameTransactions, SameKeepers DEF Listed
      <3>2. TypeOK /\ CloseInv /\ NumberInv(d)
        BY <2>2 DEF IInv
      <3>3. NumberInv(d)'
        BY <3>1, <3>2, NothingAbout
      <3>4. CloseInv'
        BY <3>1, <3>2 DEF CloseInv
      <3>5. QED BY <3>3, <3>4
    <2>3. QED BY <2>1, <2>2 DEF IInv
  <1>3. QED BY <1>1, <1>2

(* What is said of a state, above, holds in all of them. *)
THEOREM InductiveInvariant == Spec => []IInv
  BY InitIInv, NextIInv, PTL DEF Spec

-----------------------------------------------------------------------------
(* The safety properties. *)

(* Every variable keeps its type: no queue ever holds more than its size, and no
   client is twice in the list.  *)
THEOREM TypeCorrect == Spec => []TypeOK
  <1>1. IInv => TypeOK BY DEF IInv
  <1>2. QED BY <1>1, InductiveInvariant, PTL

(* A record is not freed while anything refers to it, and while the server is open
   its count is exactly the references there are.  *)
THEOREM CountsAllReferences == Spec => []CountsReferences
  <1>1. IInv => CountsReferences
    BY DEF IInv, NumberInv, Counted, CountsReferences
  <1>2. QED BY <1>1, InductiveInvariant, PTL

(* However its peer crosses what it is asked, a client has one login under way. *)
THEOREM OneLoginAtATime == Spec => []OneLogin
  <1>1. IInv => OneLogin
    BY DEF IInv, NumberInv, Login, OneLogin
  <1>2. QED BY <1>1, InductiveInvariant, PTL

(* Only what the closed connection says takes a client out of the list. *)
LEMMA TakenOutWhenClosed ==
  ASSUME IInv, Next, NEW c \in Clients, Listed(c), ~Listed(c)'
  PROVE  ClientConnectionClosed /\ c = Head(message_queue).client
PROOF
  <1>1. TypeOK /\ OwnerInv /\ \A d \in Clients : Arrival(d)
    BY NextFrom DEF IInv, NumberInv
  <1>2. list' # list
    BY DEF Listed
  <1>3. CASE OpenClient
    <2> DEFINE d == Head(message_queue).client
    <2>1. Received("OPEN_CLIENT") /\ list' = Append(list, d)
      BY <1>3 DEF OpenClient
    <2>2. d \in Clients /\ ~Listed(d)
      BY <1>1, <1>3, <2>1, ReceivedFrom, OpenClientTypes
    <2> HIDE DEF d
    <2>3. QED BY <1>1, <2>1, <2>2, ListWith
  <1>4. CASE ClientConnectionClosed
    <2> DEFINE d == Head(message_queue).client
    <2>1. \A x : Listed(x)' <=> Listed(x) /\ x # d
      BY <1>1, <1>4, ClientConnectionClosedTypes, Zenon
    <2>2. c = d
      BY <2>1, Zenon
    <2>3. QED BY <1>4, <2>2
  <1>5. CASE ClientsThread /\ ~OpenClient /\ ~ClientConnectionClosed
    BY <1>2, <1>5
    DEF ClientsThread, OpenClientFails, AuthEvent, Submit, SubmitWithoutCredentials, OtherEvent,
        UserLeave, NoStatus, Close, Ignore, recordVars
  <1>6. CASE ServerThread \/ ServerClose
    BY <1>2, <1>6
    DEF ServerThread, ServerStart, ServerStartRefused, ServerFinish, ServerResult, ServerIgnore,
        ServerClose, recordVars
  <1>7. CASE AuthThread \/ UseAfterFree
    BY <1>2, <1>7 DEF AuthThread, AuthAnswers, DatabaseFails, AuthDiscards, UseAfterFree, recordVars
  <1>8. ASSUME NEW d \in Clients,
               \/ Accept(d) \/ ConnectionClosed(d) \/ ConnectionStuck(d)
               \/ ConnectionReleases(d) \/ Destroy(d)
               \/ \E e \in Events : IncomingEvent(d, e)
        PROVE  FALSE
    BY <1>2, <1>8
    DEF Accept, ConnectionClosed, ConnectionStuck, ConnectionReleases, Destroy, IncomingEvent,
        recordVars
  <1>9. QED BY <1>3, <1>4, <1>5, <1>6, <1>7, <1>8, Zenon DEF Next

(* Whoever was announced is taken back when its record leaves the list, unless it
   left twice: if it is still announced then, its state is one that
   chat_clients_outroduce_user looks for.  *)
THEOREM TakesBackAnnounced == Spec => LeavesAnnounced
PROOF
  <1>1. ASSUME IInv, Next, ~refused, NEW c \in Clients \ (overlapped \union again),
               Listed(c), ~Listed(c)', state = "OPEN"
        PROVE  c \notin announced'
    <2>1. ClientConnectionClosed /\ c = Head(message_queue).client
      BY <1>1, TakenOutWhenClosed
    <2>2. announced' = IF Outroduced(c) THEN announced \ {c} ELSE announced
      BY <1>1, <2>1 DEF ClientConnectionClosed
    <2>3. c \in announced => Known(c)
      BY <1>1, NextFrom DEF IInv, NumberInv, Announced
    <2>4. QED BY <2>2, <2>3 DEF Known, Outroduced
  <1>2. IInv /\ [Next]_vars =>
          [~refused =>
             \A c \in Clients \ (overlapped \union again) :
               Listed(c) /\ ~Listed(c)' /\ state = "OPEN" => c \notin announced']_vars
    BY <1>1
  <1>3. QED BY <1>2, InductiveInvariant, PTL DEF Spec, LeavesAnnounced
=============================================================================
