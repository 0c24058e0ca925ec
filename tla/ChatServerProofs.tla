-------------------------- MODULE ChatServerProofs --------------------------
(***************************************************************************)
(* Proofs about the server program, for any sizes of its queues and any    *)
(* numbers of connections and signals: chat_server is destroyed after all  *)
(* of its parts, and never waits for a connection that is not there.       *)
(***************************************************************************)
EXTENDS ChatServer, FiniteSetTheorems, SequenceTheorems, TLAPS

-----------------------------------------------------------------------------
(* The inductive invariant. *)

Contents == {message_queue[i] : i \in DOMAIN message_queue}

(* Where the threads are. *)
LifeInv ==
  /\ program \in {"starting", "opening"} => state = "INIT"
  /\ holder = "main" => main_queue # <<>>
  /\ holder = "server" => state \in {"CLOSED", "destroyed"}
  /\ connected \in 0 .. MaxConnections /\ backlog <= connected

Working(p) == part[p] \in {"open", "closing", "stuck"}

(* A part that works counts as open until its report is handled, and reports
   only when it has ended. *)
PartsInv ==
  /\ state = "INIT" => \A p \in Parts : part[p] = "init"
  /\ state = "OPEN" => \/ \A p \in Parts : part[p] = "init"
                       \/ \A p \in Parts : part[p] = "open"
  /\ \A p \in Parts : Working(p) => dependants_states[p]
  /\ \A p \in Parts : ClosedMessage(p) \in Contents => part[p] = "closed"
  /\ state \in {"CLOSED", "reported", "destroyed"} => \A p \in Parts : ~Working(p)

(* A watch, or one message of the listener and a connection that waits. *)
AcceptInv ==
  /\ \A i, j \in Incoming : i = j
  /\ watch => Incoming = {}
  /\ Incoming # {} => backlog > 0
  /\ part["listener"] = "init" => ~watch /\ Incoming = {}

IInv == TypeOK /\ LifeInv /\ PartsInv /\ AcceptInv

-----------------------------------------------------------------------------
(* Messages. *)

LEMMA Messages ==
  /\ {"CLOSE", "INCOMING_CONNECTION", "LISTENER_ERROR", "LISTENER_CANCELLED"}
       \subseteq Message
  /\ \A p \in Parts :
       /\ ClosedMessage(p) \in Message
       /\ ClosedMessage(p) \notin {"CLOSE", "INCOMING_CONNECTION", "LISTENER_ERROR",
                                   "LISTENER_CANCELLED"}
       /\ \A q \in Parts : ClosedMessage(p) = ClosedMessage(q) => p = q
  BY DEF Message, Parts, ClosedMessage

(* Taking a message moves the others up by one. *)
LEMMA TakeFacts ==
  ASSUME TypeOK, message_queue # <<>>, message_queue' = Tail(message_queue)
  PROVE  /\ message_queue' \in Seq(Message)
         /\ Len(message_queue') <= SERVER_QUEUE_SIZE
         /\ DOMAIN message_queue = 1 .. Len(message_queue)
         /\ DOMAIN message_queue' = 1 .. Len(message_queue) - 1
         /\ Len(message_queue) \in Nat \ {0}
         /\ \A i \in DOMAIN message_queue' :
              message_queue'[i] = message_queue[i + 1] /\ i + 1 \in DOMAIN message_queue
         /\ Head(message_queue) = message_queue[1]
         /\ Head(message_queue) \in Contents /\ Contents' \subseteq Contents
  <1>1. /\ message_queue' \in Seq(Message)
        /\ Len(message_queue) \in Nat \ {0}
        /\ Len(message_queue') = Len(message_queue) - 1
        /\ \A i \in 1 .. Len(message_queue') : message_queue'[i] = message_queue[i + 1]
        /\ Head(message_queue) = message_queue[1]
    BY HeadTailProperties DEF TypeOK
  <1>2. /\ DOMAIN message_queue = 1 .. Len(message_queue)
        /\ DOMAIN message_queue' = 1 .. Len(message_queue')
        /\ Len(message_queue) <= SERVER_QUEUE_SIZE
    BY <1>1, LenProperties DEF TypeOK
  <1>3. \A i \in DOMAIN message_queue' : i + 1 \in DOMAIN message_queue
    BY <1>1, <1>2
  <1>4. Head(message_queue) \in Contents /\ Contents' \subseteq Contents
    BY <1>1, <1>2, <1>3 DEF Contents
  <1>5. QED BY <1>1, <1>2, <1>3, <1>4, SizesAssumption

(* The one message about a connection, when it is taken, was the only one. *)
LEMMA TakeIncoming ==
  ASSUME TypeOK, AcceptInv, message_queue # <<>>,
         message_queue' = Tail(message_queue)
  PROVE  /\ Head(message_queue) = "INCOMING_CONNECTION" =>
              Incoming # {} /\ Incoming' = {}
         /\ \A i, j \in Incoming' : i = j
         /\ Incoming = {} => Incoming' = {}
  <1>1. \A i \in Incoming' : i + 1 \in Incoming /\ i \in Nat \ {0}
    BY TakeFacts DEF Incoming
  <1>2. Head(message_queue) = "INCOMING_CONNECTION" => 1 \in Incoming
    BY TakeFacts DEF Incoming
  <1>3. \A i, j \in Incoming' : i = j
    BY <1>1 DEF AcceptInv
  <1>4. QED BY <1>1, <1>2, <1>3 DEF AcceptInv

(* main's queue. *)
LEMMA MainQueueFacts ==
  ASSUME TypeOK
  PROVE  LET messages == {"CLOSE", "SERVER_CLOSED"} IN
         /\ Len(main_queue) \in Nat
         /\ main_queue # <<>> => /\ Tail(main_queue) \in Seq(messages)
                                 /\ Len(Tail(main_queue)) <= MAIN_QUEUE_SIZE
         /\ \A m \in messages :
              /\ Append(main_queue, m) \in Seq(messages) /\ Append(main_queue, m) # <<>>
              /\ Len(main_queue) < MAIN_QUEUE_SIZE =>
                   Len(Append(main_queue, m)) <= MAIN_QUEUE_SIZE
  <1> DEFINE messages == {"CLOSE", "SERVER_CLOSED"}
  <1>1. main_queue \in Seq(messages) /\ Len(main_queue) <= MAIN_QUEUE_SIZE
    BY DEF TypeOK
  <1> HIDE DEF messages
  <1>2. Len(main_queue) \in Nat
    BY <1>1, LenProperties
  <1>3. main_queue # <<>> => /\ Tail(main_queue) \in Seq(messages)
                             /\ Len(Tail(main_queue)) = Len(main_queue) - 1
    BY <1>1, HeadTailProperties
  <1>4. \A m \in messages : /\ Append(main_queue, m) \in Seq(messages)
                            /\ Len(Append(main_queue, m)) = Len(main_queue) + 1
                            /\ Append(main_queue, m) # <<>>
    BY <1>1, AppendProperties
  <1>5. main_queue # <<>> => Len(Tail(main_queue)) <= MAIN_QUEUE_SIZE
    BY <1>1, <1>2, <1>3, SizesAssumption
  <1>6. \A m \in messages : Len(main_queue) < MAIN_QUEUE_SIZE =>
          Len(Append(main_queue, m)) <= MAIN_QUEUE_SIZE
    BY <1>2, <1>4, SizesAssumption
  <1>7. QED BY <1>2, <1>3, <1>4, <1>5, <1>6 DEF messages

(* Messages that do not fit are not put. *)
LEMMA PutFacts ==
  ASSUME TypeOK, NEW messages \in Seq(Message), Put(messages)
  PROVE  /\ message_queue' \in Seq(Message)
         /\ Len(message_queue') <= SERVER_QUEUE_SIZE
         /\ \A i \in DOMAIN message_queue' :
              \/ i \in DOMAIN message_queue /\ message_queue'[i] = message_queue[i]
              \/ \E j \in DOMAIN messages :
                   i = Len(message_queue) + j /\ message_queue'[i] = messages[j]
         /\ \A i \in DOMAIN message_queue :
              i \in DOMAIN message_queue' /\ message_queue'[i] = message_queue[i]
  <1>1. CASE UNCHANGED message_queue
    BY <1>1 DEF TypeOK
  <1>2. CASE /\ message_queue' = message_queue \o messages
             /\ Len(message_queue \o messages) <= SERVER_QUEUE_SIZE
    <2>1. /\ message_queue \o messages \in Seq(Message)
          /\ Len(message_queue \o messages) = Len(message_queue) + Len(messages)
          /\ \A i \in 1 .. Len(message_queue) + Len(messages) :
               (message_queue \o messages)[i]
                 = IF i <= Len(message_queue) THEN message_queue[i]
                   ELSE messages[i - Len(message_queue)]
      BY ConcatProperties DEF TypeOK
    <2>2. /\ message_queue' \in Seq(Message)
          /\ Len(message_queue') = Len(message_queue) + Len(messages)
          /\ Len(message_queue') <= SERVER_QUEUE_SIZE
      BY <1>2, <2>1
    <2>3. /\ DOMAIN message_queue' = 1 .. Len(message_queue) + Len(messages)
          /\ DOMAIN message_queue = 1 .. Len(message_queue)
          /\ DOMAIN messages = 1 .. Len(messages)
          /\ Len(message_queue) \in Nat /\ Len(messages) \in Nat
      BY <2>2, LenProperties DEF TypeOK
    <2>4. \A i \in DOMAIN message_queue' :
            message_queue'[i] = IF i <= Len(message_queue) THEN message_queue[i]
                                ELSE messages[i - Len(message_queue)]
      BY <1>2, <2>1, <2>3
    <2>5. \A i \in DOMAIN message_queue' : i <= Len(message_queue) =>
            i \in DOMAIN message_queue
      BY <2>3
    <2>6. ASSUME NEW i \in DOMAIN message_queue', ~(i <= Len(message_queue))
          PROVE  \E j \in DOMAIN messages :
                   i = Len(message_queue) + j /\ message_queue'[i] = messages[j]
      <3>1. /\ i - Len(message_queue) \in DOMAIN messages
            /\ i = Len(message_queue) + (i - Len(message_queue))
        BY <2>3, <2>6
      <3>2. QED BY <2>4, <2>6, <3>1
    <2>7. \A i \in DOMAIN message_queue :
            i \in DOMAIN message_queue' /\ i <= Len(message_queue)
      BY <2>3
    <2>8. QED BY <2>2, <2>4, <2>5, <2>6, <2>7
  <1>3. QED BY <1>1, <1>2 DEF Put

(* Messages that say nothing of a connection. *)
LEMMA PutOthers ==
  ASSUME TypeOK, NEW S \in SUBSET Message, "INCOMING_CONNECTION" \notin S,
         NEW messages \in Seq(S), Put(messages)
  PROVE  /\ message_queue' \in Seq(Message)
         /\ Len(message_queue') <= SERVER_QUEUE_SIZE
         /\ Contents' \subseteq Contents \union S
         /\ Incoming' = Incoming
  <1>0. messages \in Seq(Message) /\ \A j \in DOMAIN messages : messages[j] \in S
    OBVIOUS
  <1> USE <1>0
  <1>1. Contents' \subseteq Contents \union S
    <2>1. SUFFICES ASSUME NEW i \in DOMAIN message_queue'
                   PROVE  message_queue'[i] \in Contents \union S
      BY DEF Contents
    <2>2. QED BY PutFacts DEF Contents
  <1>2. \A i \in Incoming' : i \in Incoming
    BY PutFacts DEF Incoming
  <1>3. \A i \in Incoming : i \in Incoming'
    BY PutFacts DEF Incoming
  <1>4. QED BY <1>1, <1>2, <1>3, PutFacts

(* The message about a connection, if it is put, is the only one. *)
LEMMA PutIncoming ==
  ASSUME TypeOK, Put(<<"INCOMING_CONNECTION">>), Incoming = {}
  PROVE  /\ message_queue' \in Seq(Message)
         /\ Len(message_queue') <= SERVER_QUEUE_SIZE
         /\ Contents' \subseteq Contents \union {"INCOMING_CONNECTION"}
         /\ \A i, j \in Incoming' : i = j
  <1> DEFINE messages == <<"INCOMING_CONNECTION">>
  <1>1. /\ messages \in Seq(Message) /\ DOMAIN messages = {1}
        /\ messages[1] = "INCOMING_CONNECTION"
    BY Messages
  <1> HIDE DEF messages
  <1>2. /\ message_queue' \in Seq(Message)
        /\ Len(message_queue') <= SERVER_QUEUE_SIZE
        /\ \A i \in DOMAIN message_queue' :
             \/ i \in DOMAIN message_queue /\ message_queue'[i] = message_queue[i]
             \/ i = Len(message_queue) + 1 /\ message_queue'[i] = messages[1]
    <2>1. Put(messages)
      BY DEF messages
    <2>2. /\ message_queue' \in Seq(Message)
          /\ Len(message_queue') <= SERVER_QUEUE_SIZE
          /\ \A i \in DOMAIN message_queue' :
               \/ i \in DOMAIN message_queue /\ message_queue'[i] = message_queue[i]
               \/ \E j \in {1} : /\ i = Len(message_queue) + j
                                /\ message_queue'[i] = messages[j]
      BY <1>1, <2>1, PutFacts
    <2>3. QED BY <2>2
  <1>3. Contents' \subseteq Contents \union {"INCOMING_CONNECTION"}
    <2>1. SUFFICES ASSUME NEW i \in DOMAIN message_queue'
                   PROVE  message_queue'[i] \in Contents \union {"INCOMING_CONNECTION"}
      BY DEF Contents
    <2>2. CASE i \in DOMAIN message_queue /\ message_queue'[i] = message_queue[i]
      BY <2>2 DEF Contents
    <2>3. CASE message_queue'[i] = messages[1]
      BY <1>1, <2>3
    <2>4. QED BY <1>2, <2>2, <2>3
  <1>4. \A i \in Incoming' : i = Len(message_queue) + 1
    BY <1>2 DEF Incoming
  <1>5. QED BY <1>2, <1>3, <1>4

-----------------------------------------------------------------------------
(* Steps. *)

LEMMA InitIInv == Init => IInv
  <1> SUFFICES ASSUME Init PROVE IInv
    OBVIOUS
  <1>1. /\ message_queue = <<>> /\ Len(message_queue) = 0 /\ DOMAIN message_queue = {}
        /\ message_queue \in Seq(Message)
        /\ main_queue \in Seq({"CLOSE", "SERVER_CLOSED"}) /\ Len(main_queue) = 0
    BY DEF Init
  <1>2. Contents = {} /\ Incoming = {}
    BY <1>1 DEF Contents, Incoming
  <1>3. TypeOK
    <2>1. /\ 0 <= MAIN_QUEUE_SIZE /\ 0 <= SERVER_QUEUE_SIZE
          /\ 0 \in 0 .. MaxConnections
      BY SizesAssumption, BoundsAssumption
    <2>2. QED BY <1>1, <2>1 DEF Init, TypeOK
  <1>4. LifeInv
    BY NullAssumption, BoundsAssumption DEF Init, LifeInv, Threads
  <1>5. PartsInv /\ AcceptInv
    BY <1>2 DEF Init, PartsInv, AcceptInv, Working, Parts
  <1>6. QED BY <1>3, <1>4, <1>5 DEF IInv

(* Every step of the program's threads, of its parts and of the world around it
   preserves the invariant. *)
LEMMA NextIInv == IInv /\ [Next]_vars => IInv'
  <1> SUFFICES ASSUME IInv, [Next]_vars PROVE IInv'
    OBVIOUS
  <1> USE DEF IInv, Running, Working, Parts, mainVars, serverVars, partVars, counters
  <1>1. ASSUME Create PROVE IInv'
    <2>1. Contents' = Contents /\ Incoming' = Incoming
      BY <1>1 DEF Create, Contents, Incoming
    <2>2. TypeOK'
      BY <1>1 DEF Create, TypeOK
    <2>3. LifeInv'
      BY <1>1, SizesAssumption, BoundsAssumption DEF Create, TypeOK, LifeInv
    <2>4. PartsInv'
      BY <1>1, <2>1 DEF Create, TypeOK, PartsInv
    <2>5. AcceptInv'
      BY <1>1, <2>1 DEF Create, TypeOK, AcceptInv
    <2>6. QED BY <2>2, <2>3, <2>4, <2>5
  <1>2. ASSUME Open PROVE IInv'
    <2>1. Contents' = Contents /\ Incoming' = Incoming
      BY <1>2 DEF Open, Contents, Incoming
    <2>2. TypeOK'
      BY <1>2 DEF Open, TypeOK
    <2>3. LifeInv'
      BY <1>2, SizesAssumption, BoundsAssumption DEF Open, TypeOK, LifeInv
    <2>4. PartsInv'
      BY <1>2, <2>1 DEF Open, TypeOK, PartsInv, LifeInv
    <2>5. AcceptInv'
      BY <1>2, <2>1 DEF Open, TypeOK, AcceptInv
    <2>6. QED BY <2>2, <2>3, <2>4, <2>5
  <1>3. ASSUME NEW th \in Threads, Lock(th) PROVE IInv'
    <2>1. Contents' = Contents /\ Incoming' = Incoming
      BY <1>3 DEF Lock, InCall, Contents, Incoming
    <2>2. TypeOK'
      BY <1>3 DEF Lock, InCall, TypeOK
    <2>3. LifeInv'
      BY <1>3, NullAssumption DEF Lock, InCall, TypeOK, LifeInv
    <2>4. PartsInv'
      BY <1>3, <2>1 DEF Lock, InCall, TypeOK, PartsInv
    <2>5. AcceptInv'
      BY <1>3, <2>1 DEF Lock, InCall, TypeOK, AcceptInv
    <2>6. QED BY <2>2, <2>3, <2>4, <2>5
  <1>4. ASSUME MainServerClosed PROVE IInv'
    <2>1. Contents' = Contents /\ Incoming' = Incoming
      BY <1>4 DEF MainServerClosed, Contents, Incoming
    <2>2. TypeOK'
      BY <1>4, MainQueueFacts DEF MainServerClosed, TypeOK, LifeInv
    <2>3. LifeInv'
      BY <1>4, NullAssumption DEF MainServerClosed, TypeOK, LifeInv, Threads
    <2>4. PartsInv'
      BY <1>4, <2>1 DEF MainServerClosed, TypeOK, PartsInv
    <2>5. AcceptInv'
      BY <1>4, <2>1 DEF MainServerClosed, TypeOK, AcceptInv
    <2>6. QED BY <2>2, <2>3, <2>4, <2>5
  <1>5. ASSUME MainClose PROVE IInv'
    <2>1. Put(<<"CLOSE">>)
      BY <1>5 DEF MainClose
    <2>2. /\ message_queue' \in Seq(Message)
          /\ Len(message_queue') <= SERVER_QUEUE_SIZE
          /\ Contents' \subseteq Contents \union {"CLOSE"}
          /\ Incoming' = Incoming
      <3>1. /\ {"CLOSE"} \in SUBSET Message
            /\ <<"CLOSE">> \in Seq({"CLOSE"})
            /\ "INCOMING_CONNECTION" \notin {"CLOSE"}
        BY Messages
      <3>2. QED BY <2>1, <3>1, PutOthers
    <2>3. UNCHANGED assertion \/ assertion' = "server_queue"
      BY <1>5, <2>1 DEF Put
    <2>4. TypeOK'
      BY <1>5, <2>2, <2>3, MainQueueFacts DEF MainClose, TypeOK, LifeInv
    <2>5. LifeInv'
      BY <1>5, NullAssumption DEF MainClose, TypeOK, LifeInv, Threads
    <2>6. PartsInv'
      BY <1>5, <2>2, Messages DEF MainClose, TypeOK, PartsInv
    <2>7. AcceptInv'
      BY <1>5, <2>2 DEF MainClose, TypeOK, AcceptInv
    <2>8. QED BY <2>4, <2>5, <2>6, <2>7
  <1>6. ASSUME MainLeaves PROVE IInv'
    <2>1. Contents' = Contents /\ Incoming' = Incoming
      BY <1>6 DEF MainLeaves, Contents, Incoming
    <2>2. TypeOK'
      BY <1>6 DEF MainLeaves, TypeOK
    <2>3. LifeInv'
      BY <1>6, SizesAssumption, BoundsAssumption DEF MainLeaves, TypeOK, LifeInv
    <2>4. PartsInv'
      BY <1>6, <2>1 DEF MainLeaves, TypeOK, PartsInv
    <2>5. AcceptInv'
      BY <1>6, <2>1 DEF MainLeaves, TypeOK, AcceptInv
    <2>6. QED BY <2>2, <2>3, <2>4, <2>5
  <1>7. ASSUME MainEnds PROVE IInv'
    <2>1. Contents' = Contents /\ Incoming' = Incoming
      BY <1>7 DEF MainEnds, Destroys, Contents, Incoming
    <2>2. TypeOK'
      BY <1>7 DEF MainEnds, Destroys, TypeOK
    <2>3. LifeInv'
      BY <1>7, SizesAssumption, BoundsAssumption
      DEF MainEnds, Destroys, TypeOK, LifeInv
    <2>4. PartsInv'
      BY <1>7, <2>1 DEF MainEnds, Destroys, TypeOK, PartsInv
    <2>5. AcceptInv'
      BY <1>7, <2>1 DEF MainEnds, Destroys, TypeOK, AcceptInv
    <2>6. QED BY <2>2, <2>3, <2>4, <2>5
  <1>8. ASSUME InputClose PROVE IInv'
    <2>1. Contents' = Contents /\ Incoming' = Incoming
      BY <1>8 DEF InputClose, Contents, Incoming
    <2>2. TypeOK'
      BY <1>8 DEF InputClose, TypeOK
    <2>3. LifeInv'
      BY <1>8, SizesAssumption, BoundsAssumption DEF InputClose, TypeOK, LifeInv
    <2>4. PartsInv'
      BY <1>8, <2>1 DEF InputClose, TypeOK, PartsInv
    <2>5. AcceptInv'
      BY <1>8, <2>1 DEF InputClose, TypeOK, AcceptInv
    <2>6. QED BY <2>2, <2>3, <2>4, <2>5
  <1>9. ASSUME EndOfInput PROVE IInv'
    <2>1. Contents' = Contents /\ Incoming' = Incoming
      BY <1>9 DEF EndOfInput, Contents, Incoming
    <2>2. TypeOK'
      BY <1>9 DEF EndOfInput, TypeOK
    <2>3. LifeInv'
      BY <1>9, SizesAssumption, BoundsAssumption DEF EndOfInput, TypeOK, LifeInv
    <2>4. PartsInv'
      BY <1>9, <2>1 DEF EndOfInput, TypeOK, PartsInv
    <2>5. AcceptInv'
      BY <1>9, <2>1 DEF EndOfInput, TypeOK, AcceptInv
    <2>6. QED BY <2>2, <2>3, <2>4, <2>5
  <1>10. ASSUME InputPut PROVE IInv'
    <2>1. Contents' = Contents /\ Incoming' = Incoming
      BY <1>10 DEF InputPut, MainPut, Contents, Incoming
    <2>2. TypeOK'
      BY <1>10, MainQueueFacts DEF InputPut, MainPut, TypeOK
    <2>3. LifeInv'
      BY <1>10, NullAssumption DEF InputPut, MainPut, TypeOK, LifeInv, Threads
    <2>4. PartsInv'
      BY <1>10, <2>1 DEF InputPut, MainPut, TypeOK, PartsInv
    <2>5. AcceptInv'
      BY <1>10, <2>1 DEF InputPut, MainPut, TypeOK, AcceptInv
    <2>6. QED BY <2>2, <2>3, <2>4, <2>5
  <1>11. ASSUME ServerReports PROVE IInv'
    <2>1. Contents' = Contents /\ Incoming' = Incoming
      BY <1>11 DEF ServerReports, MainPut, Contents, Incoming
    <2>2. TypeOK'
      BY <1>11, MainQueueFacts DEF ServerReports, MainPut, TypeOK
    <2>3. LifeInv'
      BY <1>11, NullAssumption DEF ServerReports, MainPut, TypeOK, LifeInv,
                                   Threads
    <2>4. PartsInv'
      BY <1>11, <2>1 DEF ServerReports, MainPut, TypeOK, PartsInv, LifeInv
    <2>5. AcceptInv'
      BY <1>11, <2>1 DEF ServerReports, MainPut, TypeOK, AcceptInv
    <2>6. QED BY <2>2, <2>3, <2>4, <2>5
  <1>12. ASSUME NEW th \in Threads, Signal(th) PROVE IInv'
    <2>1. Contents' = Contents /\ Incoming' = Incoming
      BY <1>12 DEF Signal, Contents, Incoming
    <2>2. TypeOK'
      BY <1>12, MainQueueFacts DEF Signal, TypeOK
    <2>3. LifeInv'
      BY <1>12, NullAssumption, MainQueueFacts
      DEF Signal, TypeOK, LifeInv, Threads
    <2>4. PartsInv'
      BY <1>12, <2>1 DEF Signal, TypeOK, PartsInv
    <2>5. AcceptInv'
      BY <1>12, <2>1 DEF Signal, TypeOK, AcceptInv
    <2>6. QED BY <2>2, <2>3, <2>4, <2>5
  <1>13. ASSUME ServerOpens PROVE IInv'
    <2>1. Contents' = Contents /\ Incoming' = Incoming
      BY <1>13 DEF ServerOpens, ServerThreadStarts, Contents, Incoming
    <2>2. TypeOK'
      BY <1>13 DEF ServerOpens, ServerThreadStarts, TypeOK
    <2>3. LifeInv'
      BY <1>13, SizesAssumption, BoundsAssumption
      DEF ServerOpens, ServerThreadStarts, TypeOK, LifeInv
    <2>4. PartsInv'
      BY <1>13, <2>1 DEF ServerOpens, ServerThreadStarts, TypeOK, PartsInv
    <2>5. AcceptInv'
      BY <1>13, <2>1 DEF ServerOpens, ServerThreadStarts, TypeOK, AcceptInv
    <2>6. QED BY <2>2, <2>3, <2>4, <2>5
  <1>14. ASSUME NEW p \in Parts, ServerOpenFails(p) PROVE IInv'
    <2>1. Contents' = Contents /\ Incoming' = Incoming
      BY <1>14 DEF ServerOpenFails, ServerThreadStarts, Before, Contents,
                   Incoming
    <2>2. TypeOK'
      BY <1>14 DEF ServerOpenFails, ServerThreadStarts, Before, TypeOK
    <2>3. LifeInv'
      BY <1>14, SizesAssumption, BoundsAssumption
      DEF ServerOpenFails, ServerThreadStarts, Before, TypeOK, LifeInv
    <2>4. PartsInv'
      BY <1>14, <2>1 DEF ServerOpenFails, ServerThreadStarts, Before, TypeOK,
                         PartsInv
    <2>5. AcceptInv'
      BY <1>14, <2>1 DEF ServerOpenFails, ServerThreadStarts, Before, TypeOK,
                         AcceptInv
    <2>6. QED BY <2>2, <2>3, <2>4, <2>5
  <1>15. ASSUME ServerClose PROVE IInv'
    <2>1. message_queue # <<>> /\ message_queue' = Tail(message_queue)
      BY <1>15 DEF ServerClose, ServerReceived
    <2>2. /\ message_queue' \in Seq(Message)
          /\ Len(message_queue') <= SERVER_QUEUE_SIZE
          /\ Head(message_queue) \in Contents /\ Contents' \subseteq Contents
      BY <1>15, <2>1, TakeFacts
    <2>3. /\ Head(message_queue) = "INCOMING_CONNECTION" =>
               Incoming # {} /\ Incoming' = {}
          /\ \A i, j \in Incoming' : i = j
          /\ Incoming = {} => Incoming' = {}
      BY <1>15, <2>1, TakeIncoming
    <2>4. TypeOK'
      BY <1>15, <2>2 DEF ServerClose, ServerReceived, TypeOK
    <2>5. LifeInv'
      BY <1>15 DEF ServerClose, ServerReceived, TypeOK, LifeInv
    <2>6. PartsInv'
      BY <1>15, <2>2 DEF ServerClose, ServerReceived, TypeOK, PartsInv
    <2>7. AcceptInv'
      BY <1>15, <2>3 DEF ServerClose, ServerReceived, TypeOK, AcceptInv
    <2>8. QED BY <2>4, <2>5, <2>6, <2>7
  <1>16. ASSUME IncomingConnection PROVE IInv'
    <2>1. message_queue # <<>> /\ message_queue' = Tail(message_queue)
      BY <1>16 DEF IncomingConnection, ServerReceived
    <2>2. /\ message_queue' \in Seq(Message)
          /\ Len(message_queue') <= SERVER_QUEUE_SIZE
          /\ Head(message_queue) \in Contents /\ Contents' \subseteq Contents
      BY <1>16, <2>1, TakeFacts
    <2>3. /\ Head(message_queue) = "INCOMING_CONNECTION" =>
               Incoming # {} /\ Incoming' = {}
          /\ \A i, j \in Incoming' : i = j
          /\ Incoming = {} => Incoming' = {}
      BY <1>16, <2>1, TakeIncoming
    <2>4. TypeOK'
      BY <1>16, <2>2, BoundsAssumption DEF IncomingConnection, ServerReceived,
                                           TypeOK
    <2>5. LifeInv'
      BY <1>16 DEF IncomingConnection, ServerReceived, TypeOK, LifeInv
    <2>6. PartsInv'
      BY <1>16, <2>2 DEF IncomingConnection, ServerReceived, TypeOK, PartsInv
    <2>7. AcceptInv'
      BY <1>16, <2>3 DEF IncomingConnection, ServerReceived, TypeOK, AcceptInv
    <2>8. QED BY <2>4, <2>5, <2>6, <2>7
  <1>17. ASSUME AcceptFails PROVE IInv'
    <2>1. message_queue # <<>> /\ message_queue' = Tail(message_queue)
      BY <1>17 DEF AcceptFails, ServerReceived
    <2>2. /\ message_queue' \in Seq(Message)
          /\ Len(message_queue') <= SERVER_QUEUE_SIZE
          /\ Head(message_queue) \in Contents /\ Contents' \subseteq Contents
      BY <1>17, <2>1, TakeFacts
    <2>3. /\ Head(message_queue) = "INCOMING_CONNECTION" =>
               Incoming # {} /\ Incoming' = {}
          /\ \A i, j \in Incoming' : i = j
          /\ Incoming = {} => Incoming' = {}
      BY <1>17, <2>1, TakeIncoming
    <2>4. TypeOK'
      BY <1>17, <2>2 DEF AcceptFails, ServerReceived, TypeOK
    <2>5. LifeInv'
      BY <1>17 DEF AcceptFails, ServerReceived, TypeOK, LifeInv
    <2>6. PartsInv'
      BY <1>17, <2>2 DEF AcceptFails, ServerReceived, TypeOK, PartsInv
    <2>7. AcceptInv'
      BY <1>17, <2>3 DEF AcceptFails, ServerReceived, TypeOK, AcceptInv
    <2>8. QED BY <2>4, <2>5, <2>6, <2>7
  <1>18. ASSUME NEW p \in Parts, DependantClosed(p) PROVE IInv'
    <2>1. message_queue # <<>> /\ message_queue' = Tail(message_queue)
      BY <1>18 DEF DependantClosed, ServerReceived, CheckClosed
    <2>2. /\ message_queue' \in Seq(Message)
          /\ Len(message_queue') <= SERVER_QUEUE_SIZE
          /\ Head(message_queue) \in Contents /\ Contents' \subseteq Contents
      BY <1>18, <2>1, TakeFacts
    <2>3. /\ Head(message_queue) = "INCOMING_CONNECTION" =>
               Incoming # {} /\ Incoming' = {}
          /\ \A i, j \in Incoming' : i = j
          /\ Incoming = {} => Incoming' = {}
      BY <1>18, <2>1, TakeIncoming
    <2>4. TypeOK'
      BY <1>18, <2>2 DEF DependantClosed, ServerReceived, CheckClosed, TypeOK
    <2>5. LifeInv'
      BY <1>18 DEF DependantClosed, ServerReceived, CheckClosed, TypeOK, LifeInv
    <2>6. PartsInv'
      BY <1>18, <2>2 DEF DependantClosed, ServerReceived, CheckClosed, TypeOK,
                         PartsInv
    <2>7. AcceptInv'
      BY <1>18, <2>3 DEF DependantClosed, ServerReceived, CheckClosed, TypeOK,
                         AcceptInv
    <2>8. QED BY <2>4, <2>5, <2>6, <2>7
  <1>19. ASSUME ServerIgnores PROVE IInv'
    <2>1. message_queue # <<>> /\ message_queue' = Tail(message_queue)
      BY <1>19 DEF ServerIgnores, ServerReceived
    <2>2. /\ message_queue' \in Seq(Message)
          /\ Len(message_queue') <= SERVER_QUEUE_SIZE
          /\ Head(message_queue) \in Contents /\ Contents' \subseteq Contents
      BY <1>19, <2>1, TakeFacts
    <2>3. /\ Head(message_queue) = "INCOMING_CONNECTION" =>
               Incoming # {} /\ Incoming' = {}
          /\ \A i, j \in Incoming' : i = j
          /\ Incoming = {} => Incoming' = {}
      BY <1>19, <2>1, TakeIncoming
    <2>4. TypeOK'
      BY <1>19, <2>2 DEF ServerIgnores, ServerReceived, TypeOK
    <2>5. LifeInv'
      BY <1>19 DEF ServerIgnores, ServerReceived, TypeOK, LifeInv
    <2>6. PartsInv'
      BY <1>19, <2>2 DEF ServerIgnores, ServerReceived, TypeOK, PartsInv
    <2>7. AcceptInv'
      BY <1>19, <2>3 DEF ServerIgnores, ServerReceived, TypeOK, AcceptInv
    <2>8. QED BY <2>4, <2>5, <2>6, <2>7
  <1>20. ASSUME WatchCompletes PROVE IInv'
    <2>1. Put(<<"INCOMING_CONNECTION">>) /\ Incoming = {}
      BY <1>20 DEF WatchCompletes, AcceptInv
    <2>2. /\ message_queue' \in Seq(Message)
          /\ Len(message_queue') <= SERVER_QUEUE_SIZE
          /\ Contents' \subseteq Contents \union {"INCOMING_CONNECTION"}
          /\ \A i, j \in Incoming' : i = j
      BY <1>20, <2>1, PutIncoming
    <2>3. TypeOK'
      BY <1>20, <2>2 DEF WatchCompletes, ListenerRuns, TypeOK
    <2>4. LifeInv'
      BY <1>20 DEF WatchCompletes, ListenerRuns, TypeOK, LifeInv
    <2>5. PartsInv'
      BY <1>20, <2>2, Messages DEF WatchCompletes, ListenerRuns, TypeOK,
                                   PartsInv
    <2>6. AcceptInv'
      BY <1>20, <2>2 DEF WatchCompletes, ListenerRuns, TypeOK, AcceptInv
    <2>7. QED BY <2>3, <2>4, <2>5, <2>6
  <1>21. ASSUME WatchError PROVE IInv'
    <2>1. Put(<<"LISTENER_ERROR">>)
      BY <1>21 DEF WatchError, ListenerRuns
    <2>2. /\ message_queue' \in Seq(Message)
          /\ Len(message_queue') <= SERVER_QUEUE_SIZE
          /\ Contents' \subseteq Contents \union {"LISTENER_ERROR"}
          /\ Incoming' = Incoming
      <3>1. /\ {"LISTENER_ERROR"} \in SUBSET Message
            /\ <<"LISTENER_ERROR">> \in Seq({"LISTENER_ERROR"})
            /\ "INCOMING_CONNECTION" \notin {"LISTENER_ERROR"}
        BY Messages
      <3>2. QED BY <2>1, <3>1, PutOthers
    <2>3. UNCHANGED assertion \/ assertion' = "server_queue"
      BY <1>21, <2>1 DEF Put
    <2>4. TypeOK'
      BY <1>21, <2>2 DEF WatchError, ListenerRuns, TypeOK
    <2>5. LifeInv'
      BY <1>21 DEF WatchError, ListenerRuns, TypeOK, LifeInv
    <2>6. PartsInv'
      BY <1>21, <2>2, Messages DEF WatchError, ListenerRuns, TypeOK, PartsInv
    <2>7. AcceptInv'
      BY <1>21, <2>2 DEF WatchError, ListenerRuns, TypeOK, AcceptInv
    <2>8. QED BY <2>4, <2>5, <2>6, <2>7
  <1>22. ASSUME NEW p \in Parts, PartCloses(p) PROVE IInv'
    <2>1. /\ message_queue' \in Seq(Message)
          /\ Len(message_queue') <= SERVER_QUEUE_SIZE
          /\ Contents' \subseteq Contents \union {"LISTENER_CANCELLED", ClosedMessage(p)}
          /\ Incoming' = Incoming
      <3> DEFINE S  == {"LISTENER_CANCELLED", ClosedMessage(p)}
                 m1 == IF watch /\ p = "listener" THEN <<"LISTENER_CANCELLED">> ELSE <<>>
                 m2 == <<ClosedMessage(p)>>
      <3>1. Put(m1 \o m2)
        BY <1>22 DEF PartCloses
      <3>2. m1 \in Seq(S) /\ m2 \in Seq(S)
        <4>1. /\ <<>> \in Seq(S) /\ <<"LISTENER_CANCELLED">> \in Seq(S)
              /\ <<ClosedMessage(p)>> \in Seq(S)
          OBVIOUS
        <4>2. m1 = <<>> \/ m1 = <<"LISTENER_CANCELLED">>
          OBVIOUS
        <4>3. QED BY <4>1, <4>2
      <3>3. S \in SUBSET Message /\ "INCOMING_CONNECTION" \notin S
        BY Messages
      <3> HIDE DEF S, m1, m2
      <3>4. m1 \o m2 \in Seq(S)
        BY <3>2, ConcatProperties
      <3>5. PICK messages \in Seq(S) : Put(messages)
        BY <3>1, <3>4
      <3>6. QED BY <3>3, <3>5, PutOthers DEF S
    <2>2. TypeOK'
      BY <1>22, <2>1 DEF PartCloses, TypeOK
    <2>3. LifeInv'
      BY <1>22 DEF PartCloses, TypeOK, LifeInv
    <2>4. PartsInv'
      BY <1>22, <2>1, Messages DEF PartCloses, TypeOK, PartsInv
    <2>5. AcceptInv'
      BY <1>22, <2>1 DEF PartCloses, TypeOK, AcceptInv
    <2>6. QED BY <2>2, <2>3, <2>4, <2>5
  <1>23. ASSUME Connect PROVE IInv'
    <2>1. Contents' = Contents /\ Incoming' = Incoming
      BY <1>23 DEF Connect, Contents, Incoming
    <2>2. TypeOK'
      BY <1>23, BoundsAssumption DEF Connect, TypeOK, LifeInv
    <2>3. LifeInv'
      BY <1>23, SizesAssumption, BoundsAssumption DEF Connect, TypeOK, LifeInv
    <2>4. PartsInv'
      BY <1>23, <2>1 DEF Connect, TypeOK, PartsInv
    <2>5. AcceptInv'
      BY <1>23, <2>1 DEF Connect, TypeOK, AcceptInv
    <2>6. QED BY <2>2, <2>3, <2>4, <2>5
  <1>24. ASSUME ClientsStuck PROVE IInv'
    <2>1. Contents' = Contents /\ Incoming' = Incoming
      BY <1>24 DEF ClientsStuck, Contents, Incoming
    <2>2. TypeOK'
      BY <1>24 DEF ClientsStuck, TypeOK
    <2>3. LifeInv'
      BY <1>24 DEF ClientsStuck, TypeOK, LifeInv
    <2>4. PartsInv'
      BY <1>24, <2>1 DEF ClientsStuck, TypeOK, PartsInv
    <2>5. AcceptInv'
      BY <1>24, <2>1 DEF ClientsStuck, TypeOK, AcceptInv
    <2>6. QED BY <2>2, <2>3, <2>4, <2>5
  <1>25. CASE UNCHANGED vars
    <2>1. Contents' = Contents /\ Incoming' = Incoming
      BY <1>25 DEF vars, Contents, Incoming
    <2>2. QED BY <1>25, <2>1 DEF vars, TypeOK, LifeInv, PartsInv, AcceptInv
  <1>26. QED
    BY <1>1, <1>2, <1>3, <1>4, <1>5, <1>6, <1>7, <1>8, <1>9, <1>10, <1>11,
       <1>12, <1>13, <1>14, <1>15, <1>16, <1>17, <1>18, <1>19, <1>20, <1>21,
       <1>22, <1>23, <1>24, <1>25
    DEF Next, MainThread, InputCalls, ServerThread, Threads

THEOREM InductiveInvariant == Spec => []IInv
  BY InitIInv, NextIInv, PTL DEF Spec

-----------------------------------------------------------------------------
(* The safety properties. *)

(* Every variable keeps its type: no queue ever holds more than its size. *)
THEOREM TypeCorrect == Spec => []TypeOK
  <1>1. IInv => TypeOK BY DEF IInv
  <1>2. QED BY <1>1, InductiveInvariant, PTL

(* chat_server is destroyed after its parts, and accepts only connections that
   wait. *)
THEOREM DestroysLast == Spec => []DestroyedLast
  <1>1. ASSUME IInv PROVE DestroyedLast
    <2>1. state = "destroyed" =>
            \A p \in Parts : part[p] \in {"init", "failed", "closed"}
      BY <1>1 DEF IInv, TypeOK, PartsInv, Working
    <2>2. CASE Incoming = {}
      <3>1. Cardinality(Incoming) = 0
        BY <2>2, FS_EmptySet
      <3>2. QED BY <1>1, <2>1, <3>1, BoundsAssumption DEF IInv, TypeOK, DestroyedLast
    <2>3. CASE Incoming # {}
      <3>1. \E i \in Incoming : Incoming = {i}
        BY <1>1, <2>3 DEF IInv, AcceptInv
      <3>2. Cardinality(Incoming) = 1
        BY <3>1, FS_Singleton
      <3>3. backlog \in Nat /\ backlog > 0
        BY <1>1, <2>3, BoundsAssumption DEF IInv, TypeOK, AcceptInv
      <3>4. QED BY <2>1, <3>2, <3>3 DEF DestroyedLast
    <2>4. QED BY <2>2, <2>3
  <1>2. QED BY <1>1, InductiveInvariant, PTL
=============================================================================
