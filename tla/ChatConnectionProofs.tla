------------------------ MODULE ChatConnectionProofs ------------------------
(***************************************************************************)
(* Proofs about the chat connection, for any sizes of its queues and any   *)
(* numbers of events and closes: it keeps the protocol of its watcher, is  *)
(* never left without a watch nor with two, passes the events on in order, *)
(* cancels a watch only in order to write, and closes after its watcher.   *)
(***************************************************************************)
EXTENDS ChatConnection, FiniteSetTheorems, SequenceTheorems, TLAPS

-----------------------------------------------------------------------------
(* The inductive invariant. *)

(* The states in which a watch is out or being answered, and those that accept
   events. *)
Watching  == {"READING", "READING_WRITING", "CANCELLING", "FLUSHING"}
Accepting == {"INIT", "READING", "READING_WRITING", "CANCELLING"}

Contents == {message_queue[i] : i \in DOMAIN message_queue}

(* The thread and the state go together with the service of the watcher. *)
LifeInv ==
  /\ state = "INIT" => thread = "none" /\ service = "INIT"
  /\ thread = "none" => message_queue = <<>> /\ service \in {"INIT", "OPEN"}
  /\ thread = "created" => state = "READING" /\ service = "OPEN"
  /\ thread = "running" =>
       \/ state \in Watching /\ service = "OPEN"
       \/ state = "CLOSING" /\ service \in {"CLOSING", "CLOSED"}
       \/ state = "CLOSED" /\ service = "CLOSED"
  /\ thread = "done" => state \in {"CLOSED", "DESTROYED"} /\ service = "CLOSED"
  /\ service = "CLOSED" => asked = {}
  /\ W!WatcherClosed \in Contents => service = "CLOSED"
  /\ assertion # "unreachable"

(* At most one answer is out or queued. *)
AnswerInv ==
  /\ \A i, j \in Answered : i = j
  /\ asked # {} => Answered = {}
  /\ thread \in {"none", "created"} => asked = {} /\ Answered = {}
  /\ /\ thread = "running" /\ state \in {"READING", "READING_WRITING"}
     /\ ~poll_failed /\ assertion = "none"
     => asked # {} \/ Answered # {}

(* The thread has cancelled its watch only in the states that expect it. *)
StopInv ==
  /\ stop => asked # {}
  /\ state \in {"READING", "READING_WRITING"} =>
       ~stop /\ W!WatchCancelled \notin Contents

(* Until that watch is answered the thread has asked to read alone. *)
ModesInv ==
  state \in {"READING", "CANCELLING"} =>
    /\ asked \subseteq {READ}
    /\ \A m \in Contents :
         m.type = "WATCH_COMPLETE" => m.modes_ready \subseteq {READ}

(* The events not yet kept are queued, each once, in order. *)
QueuedInv ==
  /\ {message_queue[i].event : i \in Queued} = Len(Kept) + 1 .. accepted
  /\ \A i, j \in Queued : i < j => message_queue[i].event < message_queue[j].event

EventInv ==
  /\ Len(Kept) <= accepted
  /\ \A n \in 1 .. Len(Kept) : Kept[n] = n
  /\ state \in Accepting => QueuedInv

IInv == /\ TypeOK /\ LifeInv /\ AnswerInv /\ StopInv /\ ModesInv
        /\ EventInv /\ CancelsToWrite

-----------------------------------------------------------------------------
(* Messages. *)

(* A message is told by its type. *)
LEMMA MessageFacts ==
  ASSUME NEW m \in Message
  PROVE  /\ m \in W!Answers <=>
              m.type \in {"WATCH_COMPLETE", "WATCH_CANCELLED", "WATCH_ERROR"}
         /\ m.type = "WATCH_COMPLETE" => m.modes_ready \in SUBSET Modes
         /\ m.type = "WATCH_CANCELLED" <=> m = W!WatchCancelled
         /\ m.type = "QUEUE_EVENT" => m.event \in Event
         /\ m.type = "WATCHER_CLOSED" <=> m = W!WatcherClosed
  BY DEF Message, Event, QueueEventMessage, CloseMessage, W!Answers,
         W!WatchComplete, W!WatchCancelled, W!WatchError, W!WatcherClosed

(* The messages that are put, and the callbacks. *)
LEMMA NewMessages ==
  /\ CloseMessage \in Message /\ CloseMessage.type = "CLOSE"
  /\ W!WatcherClosed \in Message /\ W!WatcherClosed.type = "WATCHER_CLOSED"
  /\ W!WatchCancelled \in W!Answers /\ W!WatchCancelled.type = "WATCH_CANCELLED"
  /\ W!WatchError \in W!Answers
  /\ \A modes \in SUBSET Modes :
       /\ W!WatchComplete(modes) \in W!Answers
       /\ W!WatchComplete(modes).type = "WATCH_COMPLETE"
       /\ W!WatchComplete(modes).modes_ready = modes
  /\ \A e \in Event : /\ QueueEventMessage(e) \in Message
                      /\ QueueEventMessage(e).type = "QUEUE_EVENT"
                      /\ QueueEventMessage(e).event = e
  /\ W!Answers \subseteq Message
  BY DEF Message, Event, QueueEventMessage, CloseMessage, W!Answers,
         W!WatchComplete, W!WatchCancelled, W!WatchError, W!WatcherClosed

(* Taking a message moves the others up by one. *)
LEMMA TakeFacts ==
  ASSUME TypeOK, message_queue # <<>>, message_queue' = Tail(message_queue)
  PROVE  /\ message_queue' \in Seq(Message)
         /\ Len(message_queue') <= CHAT_CONNECTION_MESSAGE_QUEUE_SIZE
         /\ Len(message_queue) \in Nat \ {0}
         /\ DOMAIN message_queue = 1 .. Len(message_queue)
         /\ DOMAIN message_queue' = 1 .. Len(message_queue) - 1
         /\ \A i \in DOMAIN message_queue' :
              message_queue'[i] = message_queue[i + 1]
         /\ Head(message_queue) = message_queue[1]
         /\ Head(message_queue) \in Message
         /\ Head(message_queue) \in Contents /\ Contents' \subseteq Contents
  <1>1. /\ message_queue' \in Seq(Message)
        /\ Len(message_queue) \in Nat \ {0}
        /\ Len(message_queue') = Len(message_queue) - 1
        /\ \A i \in 1 .. Len(message_queue') : message_queue'[i] = message_queue[i + 1]
        /\ Head(message_queue) = message_queue[1]
    BY HeadTailProperties DEF TypeOK
  <1>2. /\ DOMAIN message_queue = 1 .. Len(message_queue)
        /\ DOMAIN message_queue' = 1 .. Len(message_queue')
        /\ Len(message_queue) <= CHAT_CONNECTION_MESSAGE_QUEUE_SIZE
    BY <1>1, LenProperties DEF TypeOK
  <1>3. Head(message_queue) \in Message
    BY <1>1, <1>2 DEF TypeOK
  <1>4. \A i \in DOMAIN message_queue' : i + 1 \in DOMAIN message_queue
    BY <1>1, <1>2
  <1>5. Head(message_queue) \in Contents /\ Contents' \subseteq Contents
    BY <1>1, <1>2, <1>4 DEF Contents
  <1>6. QED BY <1>1, <1>2, <1>3, <1>5, QueueAssumption

(* A message put does not move the others. *)
LEMMA PutFacts ==
  ASSUME TypeOK, NEW m \in Message, Put(m)
  PROVE  /\ message_queue' \in Seq(Message)
         /\ Len(message_queue') <= CHAT_CONNECTION_MESSAGE_QUEUE_SIZE
         /\ Len(message_queue) \in Nat
         /\ DOMAIN message_queue = 1 .. Len(message_queue)
         /\ DOMAIN message_queue' = 1 .. Len(message_queue) + 1
         /\ \A i \in DOMAIN message_queue : message_queue'[i] = message_queue[i]
         /\ message_queue'[Len(message_queue) + 1] = m
         /\ Contents' = Contents \union {m}
  <1>1. /\ message_queue' \in Seq(Message)
        /\ Len(message_queue) \in Nat
        /\ Len(message_queue') = Len(message_queue) + 1
        /\ DOMAIN message_queue = 1 .. Len(message_queue)
        /\ DOMAIN message_queue' = 1 .. Len(message_queue')
        /\ \A i \in 1 .. Len(message_queue) : message_queue'[i] = message_queue[i]
        /\ message_queue'[Len(message_queue) + 1] = m
    BY AppendProperties, LenProperties DEF TypeOK, Put
  <1>2. Len(message_queue') <= CHAT_CONNECTION_MESSAGE_QUEUE_SIZE
    BY <1>1, QueueAssumption DEF Put
  <1>3. Contents' = Contents \union {m}
    BY <1>1 DEF Contents
  <1>4. QED BY <1>1, <1>2, <1>3

-----------------------------------------------------------------------------
(* Answers. *)

(* The thread that takes an answer has no other to come. *)
LEMMA TakeAnswer ==
  ASSUME TypeOK, AnswerInv, message_queue # <<>>,
         message_queue' = Tail(message_queue), Head(message_queue) \in W!Answers
  PROVE  Answered' = {} /\ asked = {}
  <1>1. 1 \in Answered
    BY TakeFacts DEF Answered
  <1>2. \A i \in DOMAIN message_queue' : i + 1 \in DOMAIN message_queue /\ i # 0
    BY TakeFacts
  <1>3. \A i \in Answered' : i + 1 \in Answered
    BY <1>2, TakeFacts DEF Answered
  <1>4. \A i \in Answered' : i \in Nat \ {0}
    BY TakeFacts DEF Answered
  <1>5. Answered' = {}
    BY <1>1, <1>3, <1>4 DEF AnswerInv
  <1>6. QED BY <1>1, <1>5 DEF AnswerInv

(* Another message taken leaves the answers as they are. *)
LEMMA TakeOther ==
  ASSUME TypeOK, AnswerInv, message_queue # <<>>,
         message_queue' = Tail(message_queue), Head(message_queue) \notin W!Answers
  PROVE  /\ \A i, j \in Answered' : i = j
         /\ Answered' = {} <=> Answered = {}
  <1>1. \A i \in Answered' : i + 1 \in Answered /\ i \in Nat
    BY TakeFacts DEF Answered
  <1>2. \A i \in Answered : i # 1 /\ i \in DOMAIN message_queue
    BY TakeFacts DEF Answered
  <1>3. \A i \in Answered : i - 1 \in DOMAIN message_queue' /\ (i - 1) + 1 = i
    BY <1>2, TakeFacts
  <1>4. \A i \in Answered : message_queue'[i - 1] = message_queue[i]
    BY <1>3, TakeFacts
  <1>5. \A i \in Answered : i - 1 \in Answered'
    BY <1>3, <1>4 DEF Answered
  <1>6. \A i, j \in Answered' : i = j
    BY <1>1 DEF AnswerInv
  <1>7. QED BY <1>1, <1>5, <1>6

(* An answer put is the only one, another message put is none. *)
LEMMA PutAnswer ==
  ASSUME TypeOK, NEW m \in Message, Put(m)
  PROVE  /\ m \notin W!Answers => Answered' = Answered
         /\ m \in W!Answers /\ Answered = {} => Answered' = {Len(message_queue) + 1}
  BY PutFacts DEF Answered

-----------------------------------------------------------------------------
(* Events. *)

(* What may come out of the queues of events is of the right type. *)
OutType == /\ event_queue \in Seq(Event)
           /\ Len(event_queue) <= CHAT_CONNECTION_EVENT_QUEUE_SIZE
           /\ writer \in {<<>>} \union {<<e>> : e \in Event}
           /\ halfway \in BOOLEAN
           /\ finished \in Seq(Event)

LEMMA KeptType ==
  ASSUME OutType
  PROVE  /\ {finished, writer, event_queue, finished \o writer, Kept} \subseteq Seq(Event)
         /\ Len(Kept) \in Nat
  <1>1. finished \in Seq(Event) /\ writer \in Seq(Event) /\ event_queue \in Seq(Event)
    <2>1. <<>> \in Seq(Event) /\ \A e \in Event : <<e>> \in Seq(Event)
      OBVIOUS
    <2>2. QED BY <2>1 DEF OutType
  <1>2. finished \o writer \in Seq(Event)
    BY <1>1, ConcatProperties
  <1>3. Kept \in Seq(Event)
    BY <1>1, <1>2, ConcatProperties DEF Kept
  <1>4. QED BY <1>1, <1>2, <1>3, LenProperties

LEMMA TypeFacts ==
  ASSUME TypeOK
  PROVE  OutType /\ accepted \in Nat /\ Event \subseteq Nat
  BY BoundAssumption DEF TypeOK, OutType, Event

(* A message that is no event changes nothing about the events, taken or put;
   nor does one when none is accepted any more. *)
LEMMA TakeKeepsEvents ==
  ASSUME TypeOK, EventInv, message_queue # <<>>,
         message_queue' = Tail(message_queue),
         Head(message_queue).type # "QUEUE_EVENT" \/ state' \notin Accepting,
         Kept' = Kept, accepted' = accepted,
         state' \in Accepting => state \in Accepting
  PROVE  EventInv'
  <1>1. SUFFICES ASSUME Head(message_queue).type # "QUEUE_EVENT", QueuedInv
                 PROVE  QueuedInv'
    BY DEF EventInv
  <1>2. \A i \in Queued' : /\ i + 1 \in Queued /\ i \in Nat
                           /\ message_queue'[i] = message_queue[i + 1]
    BY TakeFacts DEF Queued
  <1>3. \A i \in Queued : i # 1 /\ i \in DOMAIN message_queue
    BY <1>1, TakeFacts DEF Queued
  <1>4. \A i \in Queued : i - 1 \in DOMAIN message_queue' /\ (i - 1) + 1 = i
    BY <1>3, TakeFacts
  <1>5. \A i \in Queued : message_queue'[i - 1] = message_queue[i]
    BY <1>4, TakeFacts
  <1>6. \A i \in Queued : i - 1 \in Queued'
    BY <1>4, <1>5 DEF Queued
  <1>7. {message_queue'[i].event : i \in Queued'} = Len(Kept) + 1 .. accepted
    <2>1. \A i \in Queued' : message_queue'[i].event \in Len(Kept) + 1 .. accepted
      BY <1>1, <1>2 DEF QueuedInv
    <2>2. ASSUME NEW e \in Len(Kept) + 1 .. accepted
          PROVE  \E i \in Queued' : message_queue'[i].event = e
      <3>1. PICK i \in Queued : message_queue[i].event = e
        BY <1>1 DEF QueuedInv
      <3>2. QED BY <1>5, <1>6, <3>1
    <2>3. QED BY <2>1, <2>2
  <1>8. ASSUME NEW i \in Queued', NEW j \in Queued', i < j
        PROVE  message_queue'[i].event < message_queue'[j].event
    <2>1. i + 1 < j + 1
      BY <1>2, <1>8
    <2>2. QED BY <1>1, <1>2, <2>1 DEF QueuedInv
  <1>9. QED BY <1>1, <1>7, <1>8 DEF QueuedInv

LEMMA PutKeepsEvents ==
  ASSUME TypeOK, EventInv, NEW m \in Message, Put(m), m.type # "QUEUE_EVENT",
         Kept' = Kept, accepted' = accepted, state' = state
  PROVE  EventInv'
  <1>1. Queued' = Queued /\ \A i \in Queued : message_queue'[i] = message_queue[i]
    BY PutFacts DEF Queued
  <1>2. QED BY <1>1 DEF EventInv, QueuedInv

(* An event accepted is put behind the others. *)
LEMMA PutEvent ==
  ASSUME TypeOK, EventInv, accepted + 1 \in Event,
         Put(QueueEventMessage(accepted + 1)),
         Kept' = Kept, accepted' = accepted + 1, state' = state
  PROVE  EventInv'
  <1> DEFINE n == Len(message_queue) + 1
  <1>1. /\ Queued' = Queued \union {n}
        /\ \A i \in Queued : message_queue'[i] = message_queue[i] /\ i < n
        /\ message_queue'[n].event = accepted + 1
    BY PutFacts, NewMessages DEF Queued
  <1>2. Kept \in Seq(Event) /\ Len(Kept) \in Nat /\ accepted \in Nat
    BY KeptType, TypeFacts
  <1>3. ASSUME QueuedInv PROVE QueuedInv'
    <2>1. \A i \in Queued : message_queue[i].event \in Len(Kept) + 1 .. accepted
      BY <1>3 DEF QueuedInv
    <2>2. {message_queue'[i].event : i \in Queued'}
            = {message_queue[i].event : i \in Queued} \union {accepted + 1}
      BY <1>1
    <2>3. (Len(Kept) + 1 .. accepted) \union {accepted + 1}
            = Len(Kept) + 1 .. accepted + 1
      BY <1>2 DEF EventInv
    <2>4. \A i, j \in Queued' :
            i < j => message_queue'[i].event < message_queue'[j].event
      <3>1. \A i \in Queued : i \in Nat
        BY PutFacts, NewMessages DEF Queued
      <3>2. \A i \in Queued : ~(n < i)
        BY <1>1, <3>1, PutFacts, NewMessages
      <3>3. QED BY <1>1, <1>2, <1>3, <2>1, <3>2 DEF QueuedInv
    <2>5. QED BY <1>3, <2>2, <2>3, <2>4 DEF QueuedInv
  <1>4. QED BY <1>2, <1>3 DEF EventInv

(* The first event queued is the next one after those kept. *)
LEMMA TakeEvent ==
  ASSUME TypeOK, EventInv, state \in Accepting, message_queue # <<>>,
         message_queue' = Tail(message_queue),
         Head(message_queue).type = "QUEUE_EVENT",
         Kept' = Append(Kept, Head(message_queue).event), accepted' = accepted
  PROVE  EventInv'
  <1> DEFINE e == Head(message_queue).event
  <1>1. Kept \in Seq(Event) /\ Len(Kept) \in Nat /\ accepted \in Nat
    BY KeptType, TypeFacts
  <1>2. QueuedInv
    BY DEF EventInv
  <1>3. 1 \in Queued /\ message_queue[1].event = e
    BY TakeFacts DEF Queued
  <1>4. e \in Len(Kept) + 1 .. accepted
    BY <1>2, <1>3 DEF QueuedInv
  <1>5. Len(Kept) + 1 \in Len(Kept) + 1 .. accepted
    BY <1>1, <1>4
  <1>6. PICK i \in Queued : message_queue[i].event = Len(Kept) + 1
    BY <1>2, <1>5 DEF QueuedInv
  <1>7. e = Len(Kept) + 1
    <2>1. i \in Nat \ {0}
      BY TakeFacts DEF Queued
    <2>2. 1 < i => e < Len(Kept) + 1
      BY <1>2, <1>3, <1>6 DEF QueuedInv
    <2>3. QED BY <1>1, <1>3, <1>4, <1>6, <2>1, <2>2
  <1>8. e \in Event
    BY MessageFacts, TakeFacts
  <1>9. Len(Kept') = Len(Kept) + 1 /\ \A n \in 1 .. Len(Kept') : Kept'[n] = n
    BY <1>1, <1>7, <1>8, AppendProperties DEF EventInv
  <1>10. QueuedInv'
    <2>1. \A j \in Queued' : /\ j + 1 \in Queued /\ j \in Nat
                             /\ message_queue'[j] = message_queue[j + 1] /\ 1 < j + 1
      BY TakeFacts DEF Queued
    <2>2. \A j \in Queued : j # 1 =>
            j - 1 \in DOMAIN message_queue' /\ (j - 1) + 1 = j
      BY TakeFacts DEF Queued
    <2>3. \A j \in Queued : j # 1 =>
            j - 1 \in Queued' /\ message_queue'[j - 1] = message_queue[j]
      BY <2>2, TakeFacts DEF Queued
    <2>4. \A j \in Queued' : message_queue'[j].event \in Len(Kept) + 2 .. accepted
      <3>1. SUFFICES ASSUME NEW j \in Queued'
                     PROVE  message_queue[j + 1].event \in Len(Kept) + 2 .. accepted
        BY <2>1
      <3>2. message_queue[j + 1].event \in Len(Kept) + 1 .. accepted
        BY <1>2, <2>1 DEF QueuedInv
      <3>3. e < message_queue[j + 1].event
        BY <1>2, <1>3, <2>1 DEF QueuedInv
      <3>4. QED BY <1>1, <1>7, <3>2, <3>3
    <2>5. ASSUME NEW k \in Len(Kept) + 2 .. accepted
          PROVE  \E j \in Queued' : message_queue'[j].event = k
      <3>1. k \in Len(Kept) + 1 .. accepted /\ k # e
        BY <1>1, <1>7
      <3>2. PICK j \in Queued : message_queue[j].event = k
        BY <1>2, <3>1 DEF QueuedInv
      <3>3. QED BY <1>3, <2>3, <3>1, <3>2
    <2>6. {message_queue'[j].event : j \in Queued'} = Len(Kept) + 2 .. accepted
      BY <2>4, <2>5
    <2>7. ASSUME NEW j \in Queued', NEW k \in Queued', j < k
          PROVE  message_queue'[j].event < message_queue'[k].event
      <3>1. j + 1 < k + 1
        BY <2>1, <2>7
      <3>2. QED BY <1>2, <2>1, <3>1 DEF QueuedInv
    <2>8. Len(Kept') + 1 = Len(Kept) + 2
      BY <1>1, <1>9
    <2>9. QED BY <2>6, <2>7, <2>8 DEF QueuedInv
  <1>11. Len(Kept') <= accepted
    BY <1>1, <1>4, <1>9
  <1>12. QED BY <1>9, <1>10, <1>11 DEF EventInv

(* enqueue: the event taken from message_queue is kept at the end. *)
LEMMA EnqueueKeeps ==
  ASSUME TypeOK, Head(message_queue).event \in Event, EnqueueEvent,
         Len(event_queue) < CHAT_CONNECTION_EVENT_QUEUE_SIZE
  PROVE  OutType' /\ Kept' = Append(Kept, Head(message_queue).event) /\ ~AllWritten'
  <1> DEFINE e == Head(message_queue).event
  <1>1. /\ finished \o writer \in Seq(Event) /\ Kept \in Seq(Event)
        /\ event_queue \in Seq(Event) /\ <<e>> \in Seq(Event)
    BY KeptType, TypeFacts
  <1>2. event_queue' = Append(event_queue, e)
    BY DEF EnqueueEvent
  <1>3. /\ event_queue' = event_queue \o <<e>>
        /\ Append(Kept, e) = Kept \o <<e>>
    BY <1>1, <1>2, AppendIsConcat
  <1>4. Kept' = Append(Kept, e)
    <2>1. Kept' = (finished \o writer) \o (event_queue \o <<e>>)
      BY <1>3 DEF Kept, EnqueueEvent
    <2>2. (finished \o writer) \o (event_queue \o <<e>>)
            = ((finished \o writer) \o event_queue) \o <<e>>
      BY <1>1, ConcatAssociative, SMTT(60)
    <2>3. QED BY <1>3, <2>1, <2>2 DEF Kept
  <1>5. /\ event_queue' \in Seq(Event) /\ Len(event_queue') = Len(event_queue) + 1
        /\ Len(event_queue) \in Nat
    BY <1>1, <1>2, AppendProperties, LenProperties
  <1>6. OutType'
    BY <1>5, QueueAssumption DEF TypeOK, OutType, EnqueueEvent
  <1>7. event_queue' # <<>>
    BY <1>5
  <1>8. QED BY <1>4, <1>6, <1>7 DEF AllWritten

(* Sequences put together. *)
LEMMA ConcatFacts ==
  ASSUME NEW S, NEW a \in Seq(S), NEW b \in Seq(S)
  PROVE  /\ a \o b \in Seq(S) /\ Len(a \o b) = Len(a) + Len(b)
         /\ \A i \in 1 .. Len(a) : (a \o b)[i] = a[i]
         /\ \A i \in 1 .. Len(b) : (a \o b)[Len(a) + i] = b[i]
  <1>1. a \o b \in Seq(S) /\ Len(a \o b) = Len(a) + Len(b)
    BY ConcatProperties
  <1>2. \A i \in 1 .. Len(a) + Len(b) :
          (a \o b)[i] = IF i <= Len(a) THEN a[i] ELSE b[i - Len(a)]
    BY ConcatProperties
  <1>3. Len(a) \in Nat /\ Len(b) \in Nat
    BY LenProperties
  <1>4. \A i \in 1 .. Len(a) : (a \o b)[i] = a[i]
    BY <1>2, <1>3
  <1>5. ASSUME NEW i \in 1 .. Len(b) PROVE (a \o b)[Len(a) + i] = b[i]
    <2>1. /\ Len(a) + i \in 1 .. Len(a) + Len(b)
          /\ ~(Len(a) + i <= Len(a)) /\ (Len(a) + i) - Len(a) = i
      BY <1>3
    <2>2. QED BY <1>2, <2>1
  <1>6. QED BY <1>1, <1>4, <1>5

Join(a, b) == a \o b

LEMMA JoinAssociative ==
  ASSUME NEW a \in Seq(Event), NEW b \in Seq(Event), NEW c \in Seq(Event)
  PROVE  Join(Join(a, b), c) = Join(a, Join(b, c))
  BY ConcatAssociative, SMTT(60) DEF Join

(* s is a, then the one element of b, then c. *)
Parts(s, a, b, c) == /\ Len(b) = 1 /\ Len(s) = Len(a) + 1 + Len(c)
                     /\ \A i \in 1 .. Len(a) : a[i] = s[i]
                     /\ b[1] = s[Len(a) + 1]
                     /\ \A i \in 1 .. Len(c) : c[i] = s[Len(a) + 1 + i]

LEMMA Glue ==
  ASSUME NEW s \in Seq(Event), NEW a \in Seq(Event),
         NEW b \in Seq(Event), NEW c \in Seq(Event), Parts(s, a, b, c)
  PROVE  Join(Join(a, b), c) = s
  <1> USE DEF Parts
  <1>1. Len(a) \in Nat /\ Len(c) \in Nat
    BY LenProperties
  <1>2. PICK ab \in Seq(Event) :
          /\ ab = a \o b /\ Len(ab) = Len(a) + Len(b)
          /\ \A i \in 1 .. Len(a) : ab[i] = a[i]
          /\ \A i \in 1 .. Len(b) : ab[Len(a) + i] = b[i]
    <2>1. /\ a \o b \in Seq(Event) /\ Len(a \o b) = Len(a) + Len(b)
          /\ \A i \in 1 .. Len(a) : (a \o b)[i] = a[i]
          /\ \A i \in 1 .. Len(b) : (a \o b)[Len(a) + i] = b[i]
      BY ONLY ConcatFacts, a \in Seq(Event), b \in Seq(Event)
    <2>2. QED BY <2>1
  <1>3. ASSUME NEW i \in 1 .. Len(ab) PROVE ab[i] = s[i]
    <2>1. i \in 1 .. Len(a) \/ i = Len(a) + 1
      BY <1>1, <1>2
    <2>2. 1 \in 1 .. Len(b)
      OBVIOUS
    <2>3. QED BY <1>2, <2>1, <2>2
  <1>4. PICK abc \in Seq(Event) :
          /\ abc = ab \o c /\ Len(abc) = Len(ab) + Len(c)
          /\ \A i \in 1 .. Len(ab) : abc[i] = ab[i]
          /\ \A i \in 1 .. Len(c) : abc[Len(ab) + i] = c[i]
    <2>1. /\ ab \o c \in Seq(Event) /\ Len(ab \o c) = Len(ab) + Len(c)
          /\ \A i \in 1 .. Len(ab) : (ab \o c)[i] = ab[i]
          /\ \A i \in 1 .. Len(c) : (ab \o c)[Len(ab) + i] = c[i]
      BY ConcatFacts
    <2>2. QED BY <2>1
  <1>5. ASSUME NEW i \in 1 .. Len(abc) PROVE abc[i] = s[i]
    <2>1. CASE i <= Len(ab)
      BY <1>1, <1>2, <1>3, <1>4, <2>1
    <2>2. CASE ~(i <= Len(ab))
      <3> DEFINE j == i - Len(ab)
      <3>1. /\ j \in 1 .. Len(c) /\ Len(ab) + j = i /\ Len(a) + 1 + j = i
        BY <1>1, <1>2, <1>4, <2>2
      <3>2. abc[Len(ab) + j] = c[j] /\ c[j] = s[Len(a) + 1 + j]
        BY <1>4, <3>1
      <3>3. QED BY <3>1, <3>2
    <2>3. QED BY <2>1, <2>2
  <1>6. abc = s
    <2>1. Len(abc) = Len(s)
      BY <1>2, <1>4
    <2>2. QED BY <1>4, <1>5, <2>1, SeqEqual
  <1>7. QED BY <1>2, <1>4, <1>6 DEF Join

(* A sequence is what comes before an element, the element, and the rest. *)
LEMMA Cut ==
  ASSUME NEW s \in Seq(Event), NEW k \in Nat, k < Len(s)
  PROVE  /\ SubSeq(s, 1, k) \in Seq(Event) /\ s[k + 1] \in Event
         /\ SubSeq(s, k + 2, Len(s)) \in Seq(Event)
         /\ Len(SubSeq(s, k + 2, Len(s))) = Len(s) - (k + 1)
         /\ (SubSeq(s, 1, k) \o <<s[k + 1]>>) \o SubSeq(s, k + 2, Len(s)) = s
  <1>1. Len(s) \in Nat /\ s[k + 1] \in Event
    BY LenProperties
  <1>2. /\ SubSeq(s, 1, k) \in Seq(Event) /\ Len(SubSeq(s, 1, k)) = k
        /\ \A i \in 1 .. k : SubSeq(s, 1, k)[i] = s[i]
    <2>1. \A i \in 1 .. k : s[i] \in Event
      BY <1>1
    <2>2. QED BY <1>1, <2>1, SubSeqProperties
  <1>3. /\ SubSeq(s, k + 2, Len(s)) \in Seq(Event)
        /\ Len(SubSeq(s, k + 2, Len(s))) = Len(s) - (k + 1)
        /\ \A i \in 1 .. Len(s) - (k + 1) :
             SubSeq(s, k + 2, Len(s))[i] = s[k + 1 + i]
    <2>1. \A i \in k + 2 .. Len(s) : s[i] \in Event
      BY <1>1
    <2>2. QED BY <1>1, <2>1, SubSeqProperties
  <1>4. <<s[k + 1]>> \in Seq(Event) /\ Len(<<s[k + 1]>>) = 1
    BY <1>1
  <1>5. PICK a \in Seq(Event), b \in Seq(Event), c \in Seq(Event) :
          /\ a = SubSeq(s, 1, k) /\ b = <<s[k + 1]>>
          /\ c = SubSeq(s, k + 2, Len(s))
    BY <1>2, <1>3, <1>4
  <1>6. Len(a) = k /\ \A i \in 1 .. k : a[i] = s[i]
    BY <1>2, <1>5
  <1>7. Len(b) = 1 /\ b[1] = s[k + 1]
    BY <1>4, <1>5
  <1>8. Len(c) = Len(s) - (k + 1) /\ \A i \in 1 .. Len(c) : c[i] = s[k + 1 + i]
    BY <1>3, <1>5
  <1>9. Parts(s, a, b, c)
    <2>1. Len(s) = Len(a) + 1 + Len(c)
      BY <1>1, <1>6, <1>8
    <2>2. QED BY <1>6, <1>7, <1>8, <2>1 DEF Parts
  <1>10. Join(Join(a, b), c) = s
    BY <1>9, Glue
  <1>11. QED BY <1>1, <1>2, <1>3, <1>5, <1>10 DEF Join

(* Populating the writer moves an event from one queue to the next. *)
LEMMA PopulateKeeps ==
  ASSUME OutType, PopulateWriter
  PROVE  OutType' /\ Kept' = Kept
  <1>1. CASE event_queue = <<>>
    BY <1>1 DEF PopulateWriter, OutType, Kept
  <1>2. CASE event_queue # <<>>
    <2> DEFINE e == Head(event_queue)
    <2>1. /\ event_queue \in Seq(Event) /\ finished \in Seq(Event)
          /\ writer = <<>> /\ writer' = <<e>> /\ event_queue' = Tail(event_queue)
          /\ finished' = finished /\ halfway' = halfway
      BY <1>2 DEF PopulateWriter, OutType
    <2>2. /\ e \in Event /\ Tail(event_queue) \in Seq(Event)
          /\ Len(Tail(event_queue)) = Len(event_queue) - 1
          /\ Len(event_queue) \in Nat
          /\ <<e>> \o Tail(event_queue) = event_queue
      BY <1>2, <2>1, HeadTailProperties, LenProperties, Cut
    <2>3. <<e>> \in Seq(Event)
      BY <2>2
    <2>4. Kept' = finished \o (<<e>> \o Tail(event_queue))
      BY <2>1, <2>2, <2>3, ConcatAssociative, SMTT(60) DEF Kept
    <2>5. Kept' = finished \o event_queue /\ Kept = finished \o event_queue
      BY <2>1, <2>2, <2>4, ConcatEmptySeq DEF Kept
    <2>6. QED BY <2>1, <2>2, <2>5, QueueAssumption DEF OutType
  <1>3. QED BY <1>1, <1>2

(* Writing moves events to the socket, in the order of the queues. *)
LEMMA WriteKeeps ==
  ASSUME OutType, WriteEvents
  PROVE  OutType' /\ Kept' = Kept
  <1>1. /\ finished \in Seq(Event) /\ writer \in Seq(Event) /\ event_queue \in Seq(Event)
        /\ Len(event_queue) \in Nat
    BY KeptType, LenProperties
  <1>2. PICK pool \in Seq(Event) :
          pool = writer \o event_queue /\ Len(pool) = Len(event_queue) + 1
    <2>1. PICK e \in Event : writer = <<e>>
      BY DEF OutType, WriteEvents
    <2>2. Len(writer) = 1
      BY <2>1
    <2>3. /\ writer \o event_queue \in Seq(Event)
          /\ Len(writer \o event_queue) = Len(writer) + Len(event_queue)
      BY <1>1, ConcatProperties
    <2>4. Len(writer \o event_queue) = Len(event_queue) + 1
      BY <1>1, <2>2, <2>3
    <2>5. QED BY <2>3, <2>4
  <1>3. Kept = finished \o pool
    BY <1>1, <1>2, ConcatAssociative, SMTT(60) DEF Kept
  <1>4. PICK k \in 0 .. Len(pool) :
          /\ finished' = finished \o SubSeq(pool, 1, k)
          /\ writer' = IF k < Len(pool) THEN <<pool[k + 1]>> ELSE <<>>
          /\ event_queue' = SubSeq(pool, k + 2, Len(pool))
          /\ halfway' = (k < Len(pool))
    BY <1>2 DEF WriteEvents
  <1>5. CASE k < Len(pool)
    <2>1. k \in Nat
      BY <1>2
    <2>2. PICK a \in Seq(Event), b \in Seq(Event), c \in Seq(Event) :
            /\ a = SubSeq(pool, 1, k) /\ b = <<pool[k + 1]>> /\ pool[k + 1] \in Event
            /\ c = SubSeq(pool, k + 2, Len(pool)) /\ Len(c) = Len(pool) - (k + 1)
            /\ (a \o b) \o c = pool
      <3>1. /\ SubSeq(pool, 1, k) \in Seq(Event) /\ pool[k + 1] \in Event
            /\ SubSeq(pool, k + 2, Len(pool)) \in Seq(Event)
            /\ Len(SubSeq(pool, k + 2, Len(pool))) = Len(pool) - (k + 1)
            /\ (SubSeq(pool, 1, k) \o <<pool[k + 1]>>)
                  \o SubSeq(pool, k + 2, Len(pool)) = pool
        BY <1>5, <2>1, Cut
      <3>2. \A e \in Event : <<e>> \in Seq(Event)
        OBVIOUS
      <3>3. QED BY <3>1, <3>2
    <2>3. finished' = finished \o a /\ writer' = b /\ event_queue' = c
      BY <1>4, <1>5, <2>2
    <2>4. Kept' = ((finished \o a) \o b) \o c
      BY <2>3 DEF Kept
    <2>5. Kept' = finished \o pool
      <3>1. PICK ab \in Seq(Event) : ab = a \o b
        BY ConcatProperties
      <3>2. finished \in Seq(Event)
        BY <1>1
      <3>3. Join(Join(finished, a), b) = Join(finished, Join(a, b))
        BY <3>2, JoinAssociative
      <3>4. Join(Join(finished, ab), c) = Join(finished, Join(ab, c))
        BY <3>2, JoinAssociative
      <3>5. QED BY <2>2, <2>4, <3>1, <3>3, <3>4 DEF Join
    <2>6. finished' \in Seq(Event)
      BY <1>1, <2>2, <2>3, ConcatProperties
    <2>7. Len(c) <= CHAT_CONNECTION_EVENT_QUEUE_SIZE
      BY <1>1, <1>2, <2>1, <2>2, QueueAssumption DEF OutType
    <2>8. OutType'
      <3>1. writer' \in {<<e>> : e \in Event}
        BY <2>2, <2>3
      <3>2. halfway' \in BOOLEAN
        BY <1>4
      <3>3. QED BY <2>2, <2>3, <2>6, <2>7, <3>1, <3>2 DEF OutType
    <2>9. QED BY <1>3, <2>5, <2>8
  <1>6. CASE k = Len(pool)
    <2>1. SubSeq(pool, 1, k) = pool /\ SubSeq(pool, k + 2, Len(pool)) = <<>>
      BY <1>2, <1>6, SubSeqFull, SubSeqEmpty
    <2>2. ~(k < Len(pool))
      BY <1>1, <1>2, <1>6
    <2>3. /\ finished' = finished \o pool /\ writer' = <<>> /\ event_queue' = <<>>
          /\ halfway' \in BOOLEAN
      <3>1. finished' = finished \o pool /\ event_queue' = <<>>
        BY <1>4, <2>1
      <3>2. writer' = <<>>
        BY <1>4, <2>2
      <3>3. halfway' \in BOOLEAN
        BY <1>4
      <3>4. QED BY <3>1, <3>2, <3>3
    <2>4. finished' \in Seq(Event)
      BY <1>1, <1>2, <2>3, ConcatProperties
    <2>5. Kept' = finished \o pool
      BY <2>3, <2>4, ConcatEmptySeq DEF Kept
    <2>6. Len(<<>>) <= CHAT_CONNECTION_EVENT_QUEUE_SIZE
      BY QueueAssumption
    <2>7. OutType'
      <3>1. <<>> \in Seq(Event)
        OBVIOUS
      <3>2. QED BY <2>3, <2>4, <2>6, <3>1 DEF OutType
    <2>8. QED BY <1>3, <2>5, <2>7
  <1>7. k < Len(pool) \/ k = Len(pool)
    BY <1>1, <1>2
  <1>8. QED BY <1>5, <1>6, <1>7

(* write_ready keeps every event, whatever it writes. *)
LEMMA WriteReadyKeeps ==
  ASSUME TypeOK, NEW modes_ready, WriteReady(modes_ready)
  PROVE  OutType' /\ Kept' = Kept
  <1>1. CASE UNCHANGED outVars
    BY <1>1, TypeFacts DEF outVars, OutType, Kept
  <1>2. QED BY <1>1, TypeFacts, PopulateKeeps, WriteKeeps DEF WriteReady

-----------------------------------------------------------------------------
(* Steps. *)

AnswerTypes == {"WATCH_COMPLETE", "WATCH_CANCELLED", "WATCH_ERROR"}

(* What every handler leaves behind when it has taken a message. *)
Taken(type) ==
  /\ thread = "running" /\ assertion = "none" /\ message_queue # <<>>
  /\ message_queue' = Tail(message_queue)
  /\ message_queue' \in Seq(Message)
  /\ Len(message_queue') <= CHAT_CONNECTION_MESSAGE_QUEUE_SIZE
  /\ Head(message_queue) \in Message /\ Head(message_queue).type = type
  /\ Head(message_queue) \in Contents /\ Contents' \subseteq Contents
  /\ \A i, j \in Answered' : i = j
  /\ type \in AnswerTypes => /\ Answered' = {} /\ asked = {}
                             /\ \A m \in Contents' : m.type \notin AnswerTypes
  /\ type \notin AnswerTypes => (Answered' = {} <=> Answered = {})
  /\ UNCHANGED <<thread, cback, historyVars>>

LEMMA HandleFacts ==
  ASSUME IInv, NEW states, NEW type, Handle(states, type)
  PROVE  Taken(type) /\ state \in states
  <1>1. /\ message_queue # <<>> /\ message_queue' = Tail(message_queue)
        /\ Head(message_queue).type = type
    BY DEF Handle, Received
  <1>2. TypeOK /\ AnswerInv
    BY DEF IInv
  <1>3. Head(message_queue) \in Message
    BY <1>1, <1>2, TakeFacts
  <1>4. Head(message_queue) \in W!Answers <=> type \in AnswerTypes
    BY <1>1, <1>3, MessageFacts DEF AnswerTypes
  <1>5. CASE type \in AnswerTypes
    <2>1. Answered' = {} /\ asked = {}
      BY <1>1, <1>2, <1>4, <1>5, TakeAnswer
    <2>2. \A m \in Contents' : m.type \notin AnswerTypes
      BY <1>1, <1>2, <2>1, TakeFacts, MessageFacts
      DEF Contents, Answered, AnswerTypes, TypeOK
    <2>3. QED
      BY <1>1, <1>2, <1>5, <2>1, <2>2, TakeFacts DEF Handle, Running, Taken
  <1>6. CASE type \notin AnswerTypes
    <2>1. (\A i, j \in Answered' : i = j) /\ (Answered' = {} <=> Answered = {})
      BY <1>1, <1>2, <1>4, <1>6, TakeOther
    <2>2. QED BY <1>1, <1>2, <1>6, <2>1, TakeFacts DEF Handle, Running, Taken
  <1>7. QED BY <1>5, <1>6

LEMMA InitIInv == Init => IInv
  <1> SUFFICES ASSUME Init PROVE IInv
    OBVIOUS
  <1>1. /\ message_queue = <<>> /\ event_queue = <<>> /\ finished = <<>> /\ writer = <<>>
        /\ Len(Kept) = 0 /\ accepted = 0
    BY DEF Init, Kept
  <1>2. DOMAIN message_queue = {}
    BY <1>1
  <1>3. Contents = {} /\ Answered = {} /\ Queued = {}
    BY <1>2 DEF Contents, Answered, Queued
  <1>4. TypeOK
    <2>1. /\ message_queue \in Seq(Message) /\ Len(message_queue) = 0
          /\ event_queue \in Seq(Event) /\ Len(event_queue) = 0
          /\ finished \in Seq(Event)
      BY <1>1
    <2>2. /\ 0 <= CHAT_CONNECTION_MESSAGE_QUEUE_SIZE
          /\ 0 <= CHAT_CONNECTION_EVENT_QUEUE_SIZE
          /\ 0 \in 0 .. MaxEvents /\ 0 \in 0 .. MaxCloses
      BY QueueAssumption, BoundAssumption
    <2>3. QED BY <2>1, <2>2 DEF Init, W!Init, TypeOK, States, Assertions
  <1>5. LifeInv /\ AnswerInv /\ StopInv /\ ModesInv /\ CancelsToWrite
    BY <1>1, <1>3
    DEF Init, W!Init, LifeInv, AnswerInv, StopInv, ModesInv, CancelsToWrite
  <1>6. EventInv
    <2>1. 1 .. Len(Kept) = {} /\ Len(Kept) + 1 .. accepted = {}
      BY <1>1
    <2>2. QED BY <1>1, <1>3, <2>1 DEF EventInv, QueuedInv
  <1>7. QED BY <1>4, <1>5, <1>6 DEF IInv

(* A step that leaves the queues alone. *)
LEMMA UnchangedKeeps ==
  ASSUME EventInv, UNCHANGED <<message_queue, outVars, accepted>>,
         state' \in Accepting => state \in Accepting
  PROVE  /\ Contents' = Contents /\ Answered' = Answered
         /\ EventInv' /\ (AllWritten' <=> AllWritten)
  <1> USE DEF outVars
  <1>1. Contents' = Contents /\ Answered' = Answered /\ Queued' = Queued
    BY DEF Contents, Answered, Queued
  <1>2. Kept' = Kept /\ (AllWritten' <=> AllWritten)
    BY DEF Kept, AllWritten
  <1>3. QueuedInv' <=> QueuedInv
    BY <1>1, <1>2 DEF QueuedInv
  <1>4. QED BY <1>1, <1>2, <1>3 DEF EventInv

(* Every call of the user and every step of the two threads and of the peer
   preserves the invariant. *)
LEMMA NextIInv == IInv /\ [Next]_vars => IInv'
  <1> SUFFICES ASSUME IInv, [Next]_vars PROVE IInv'
    OBVIOUS
  <1> USE DEF IInv, outVars, callVars, historyVars
  <1>1. ASSUME Open PROVE IInv'
    <2>1. /\ Contents' = Contents /\ Answered' = Answered
             /\ EventInv' /\ (AllWritten' <=> AllWritten)
      BY <1>1, UnchangedKeeps DEF Open, W!Open, Accepting
    <2>2. Contents = {}
      BY <1>1 DEF Open, LifeInv, Contents
    <2>3. TypeOK'
      BY <1>1 DEF Open, W!Open, TypeOK, States, Modes, Assertions
    <2>4. LifeInv'
      BY <1>1, <2>1 DEF Open, W!Open, TypeOK, LifeInv, Watching
    <2>5. AnswerInv'
      BY <1>1, <2>1 DEF Open, W!Open, TypeOK, AnswerInv, LifeInv
    <2>6. StopInv'
      BY <1>1, <2>1, <2>2 DEF Open, W!Open, TypeOK, StopInv, LifeInv, AnswerInv
    <2>7. ModesInv'
      BY <1>1, <2>1, <2>2 DEF Open, W!Open, TypeOK, ModesInv, LifeInv, AnswerInv
    <2>8. EventInv'
      BY <2>1
    <2>9. CancelsToWrite'
      BY <1>1, <2>1 DEF Open, W!Open, TypeOK, CancelsToWrite
    <2>10. QED BY <2>3, <2>4, <2>5, <2>6, <2>7, <2>8, <2>9
  <1>2. ASSUME OpenFails PROVE IInv'
    <2>1. /\ Contents' = Contents /\ Answered' = Answered
             /\ EventInv' /\ (AllWritten' <=> AllWritten)
      BY <1>2, UnchangedKeeps DEF OpenFails, W!Open, Accepting
    <2>2. Contents = {}
      BY <1>2 DEF OpenFails, LifeInv, Contents
    <2>3. TypeOK'
      BY <1>2 DEF OpenFails, W!Open, TypeOK, States, Modes, Assertions
    <2>4. LifeInv'
      BY <1>2, <2>1 DEF OpenFails, W!Open, TypeOK, LifeInv, Watching
    <2>5. AnswerInv'
      BY <1>2, <2>1 DEF OpenFails, W!Open, TypeOK, AnswerInv, LifeInv
    <2>6. StopInv'
      BY <1>2, <2>1, <2>2 DEF OpenFails, W!Open, TypeOK, StopInv, LifeInv,
                              AnswerInv
    <2>7. ModesInv'
      BY <1>2, <2>1, <2>2 DEF OpenFails, W!Open, TypeOK, ModesInv, LifeInv,
                              AnswerInv
    <2>8. EventInv'
      BY <2>1
    <2>9. CancelsToWrite'
      BY <1>2, <2>1 DEF OpenFails, W!Open, TypeOK, CancelsToWrite
    <2>10. QED BY <2>3, <2>4, <2>5, <2>6, <2>7, <2>8, <2>9
  <1>3. ASSUME QueueEvent PROVE IInv'
    <2>1. /\ QueueEventMessage(accepted + 1) \in Message /\ Put(QueueEventMessage(accepted + 1))
             /\ QueueEventMessage(accepted + 1).type = "QUEUE_EVENT" /\ accepted + 1 \in Event
      BY <1>3, NewMessages, TypeFacts, BoundAssumption DEF QueueEvent, Event
    <2>2. /\ message_queue' \in Seq(Message)
             /\ Len(message_queue') <= CHAT_CONNECTION_MESSAGE_QUEUE_SIZE
             /\ Contents' = Contents \union {QueueEventMessage(accepted + 1)}
      BY <1>3, <2>1, PutFacts
    <2>3. Answered' = Answered
      BY <1>3, <2>1, PutAnswer, MessageFacts
    <2>4. Kept' = Kept
      BY <1>3 DEF QueueEvent, Kept
    <2>5. TypeOK'
      BY <1>3, <2>2, BoundAssumption DEF QueueEvent, TypeOK
    <2>6. LifeInv'
      BY <1>3, <2>1, <2>2, NewMessages DEF QueueEvent, TypeOK, LifeInv, Usable
    <2>7. AnswerInv'
      BY <1>3, <2>3 DEF QueueEvent, TypeOK, AnswerInv
    <2>8. StopInv'
      BY <1>3, <2>1, <2>2, MessageFacts DEF QueueEvent, TypeOK, StopInv
    <2>9. ModesInv'
      BY <1>3, <2>1, <2>2 DEF QueueEvent, TypeOK, ModesInv
    <2>10. EventInv'
      BY <1>3, <2>1, <2>4, PutEvent DEF QueueEvent
    <2>11. CancelsToWrite'
      BY <1>3 DEF QueueEvent, TypeOK, CancelsToWrite, AllWritten
    <2>12. QED BY <2>5, <2>6, <2>7, <2>8, <2>9, <2>10, <2>11
  <1>4. ASSUME Close PROVE IInv'
    <2>1. /\ CloseMessage \in Message /\ Put(CloseMessage)
             /\ CloseMessage.type = "CLOSE"
      BY <1>4, NewMessages DEF Close
    <2>2. /\ message_queue' \in Seq(Message)
             /\ Len(message_queue') <= CHAT_CONNECTION_MESSAGE_QUEUE_SIZE
             /\ Contents' = Contents \union {CloseMessage}
      BY <1>4, <2>1, PutFacts
    <2>3. Answered' = Answered
      BY <1>4, <2>1, PutAnswer, MessageFacts
    <2>4. Kept' = Kept
      BY <1>4 DEF Close, Kept
    <2>5. TypeOK'
      BY <1>4, <2>2, BoundAssumption DEF Close, TypeOK
    <2>6. LifeInv'
      BY <1>4, <2>1, <2>2, NewMessages DEF Close, TypeOK, LifeInv, Usable
    <2>7. AnswerInv'
      BY <1>4, <2>3 DEF Close, TypeOK, AnswerInv
    <2>8. StopInv'
      BY <1>4, <2>1, <2>2, MessageFacts DEF Close, TypeOK, StopInv
    <2>9. ModesInv'
      BY <1>4, <2>1, <2>2 DEF Close, TypeOK, ModesInv
    <2>10. EventInv'
      BY <1>4, <2>1, <2>4, PutKeepsEvents DEF Close
    <2>11. CancelsToWrite'
      BY <1>4 DEF Close, TypeOK, CancelsToWrite, AllWritten
    <2>12. QED BY <2>5, <2>6, <2>7, <2>8, <2>9, <2>10, <2>11
  <1>5. ASSUME Destroy PROVE IInv'
    <2>1. /\ Contents' = Contents /\ Answered' = Answered
             /\ EventInv' /\ (AllWritten' <=> AllWritten)
      BY <1>5, UnchangedKeeps DEF Destroy, Accepting
    <2>2. TypeOK'
      BY <1>5 DEF Destroy, TypeOK, States, Modes, Assertions
    <2>3. LifeInv'
      BY <1>5, <2>1 DEF Destroy, TypeOK, LifeInv, Watching
    <2>4. AnswerInv'
      BY <1>5, <2>1 DEF Destroy, TypeOK, AnswerInv, LifeInv
    <2>5. StopInv'
      BY <1>5, <2>1 DEF Destroy, TypeOK, StopInv, LifeInv
    <2>6. ModesInv'
      BY <1>5, <2>1 DEF Destroy, TypeOK, ModesInv, LifeInv
    <2>7. EventInv'
      BY <2>1
    <2>8. CancelsToWrite'
      BY <1>5, <2>1 DEF Destroy, TypeOK, CancelsToWrite
    <2>9. QED BY <2>2, <2>3, <2>4, <2>5, <2>6, <2>7, <2>8
  <1>6. ASSUME ThreadStart PROVE IInv'
    <2>1. /\ Contents' = Contents /\ Answered' = Answered
             /\ EventInv' /\ (AllWritten' <=> AllWritten)
      BY <1>6, UnchangedKeeps DEF ThreadStart, StartWatch, Accepting
    <2>2. TypeOK'
      BY <1>6 DEF ThreadStart, StartWatch, TypeOK, States, Modes, Assertions
    <2>3. LifeInv'
      BY <1>6, <2>1 DEF ThreadStart, StartWatch, TypeOK, LifeInv, Watching
    <2>4. AnswerInv'
      BY <1>6, <2>1 DEF ThreadStart, StartWatch, TypeOK, AnswerInv, LifeInv
    <2>5. StopInv'
      BY <1>6, <2>1 DEF ThreadStart, StartWatch, TypeOK, StopInv, LifeInv
    <2>6. ModesInv'
      BY <1>6, <2>1 DEF ThreadStart, StartWatch, TypeOK, ModesInv, LifeInv
    <2>7. EventInv'
      BY <2>1
    <2>8. CancelsToWrite'
      BY <1>6, <2>1 DEF ThreadStart, StartWatch, TypeOK, CancelsToWrite
    <2>9. QED BY <2>2, <2>3, <2>4, <2>5, <2>6, <2>7, <2>8
  <1>7. ASSUME ReadingComplete PROVE IInv'
    <2>1. Taken("WATCH_COMPLETE") /\ state = "READING"
      BY <1>7, HandleFacts DEF ReadingComplete
    <2>2. OutType' /\ Kept' = Kept
      BY <1>7, TypeFacts DEF ReadingComplete, OutType, Kept
    <2>3. TypeOK'
      BY <1>7, <2>1, <2>2 DEF ReadingComplete, ReadReady, StartWatch,
                              GoClosing, CloseWatcher, TypeOK, Taken, OutType,
                              States, Modes
    <2>4. LifeInv'
      BY <1>7, <2>1 DEF ReadingComplete, ReadReady, StartWatch, GoClosing,
                        CloseWatcher, TypeOK, LifeInv, Taken, Watching
    <2>5. AnswerInv'
      BY <1>7, <2>1 DEF ReadingComplete, ReadReady, StartWatch, GoClosing,
                        CloseWatcher, TypeOK, AnswerInv, Taken, LifeInv,
                        AnswerTypes
    <2>6. StopInv'
      BY <1>7, <2>1 DEF ReadingComplete, ReadReady, StartWatch, GoClosing,
                        CloseWatcher, TypeOK, StopInv, Taken, LifeInv,
                        AnswerTypes
    <2>7. ModesInv'
      BY <1>7, <2>1 DEF ReadingComplete, ReadReady, StartWatch, GoClosing,
                        CloseWatcher, TypeOK, ModesInv, Taken, AnswerTypes
    <2>8. EventInv'
      BY <1>7, <2>1, <2>2, TakeKeepsEvents
      DEF ReadingComplete, ReadReady, StartWatch, GoClosing, CloseWatcher,
          TypeOK, EventInv, Taken, Accepting
    <2>9. CancelsToWrite'
      BY <1>7, <2>1 DEF ReadingComplete, ReadReady, StartWatch, GoClosing,
                        CloseWatcher, TypeOK, CancelsToWrite, AllWritten
    <2>10. QED BY <2>3, <2>4, <2>5, <2>6, <2>7, <2>8, <2>9
  <1>8. ASSUME ReadingQueueEvent PROVE IInv'
    <2>1. Taken("QUEUE_EVENT") /\ state = "READING"
      BY <1>8, HandleFacts DEF ReadingQueueEvent
    <2>2. /\ Head(message_queue).event \in Event
             /\ Len(event_queue) < CHAT_CONNECTION_EVENT_QUEUE_SIZE
      <3>1. Len(event_queue) \in Nat
        BY LenProperties DEF TypeOK
      <3>2. ~Fails("event_queue")
        BY <1>8 DEF ReadingQueueEvent, Handle, HandlerAssertions
      <3>3. QED BY <2>1, <3>1, <3>2, MessageFacts, QueueAssumption
                DEF Taken, Fails, Received
    <2>3. OutType' /\ Kept' = Append(Kept, Head(message_queue).event) /\ ~AllWritten'
      BY <1>8, <2>2, EnqueueKeeps DEF ReadingQueueEvent
    <2>4. TypeOK'
      BY <1>8, <2>1, <2>2, <2>3 DEF ReadingQueueEvent, CancelWatch, TypeOK,
                                    Taken, OutType, States, Modes
    <2>5. LifeInv'
      BY <1>8, <2>1 DEF ReadingQueueEvent, CancelWatch, TypeOK, LifeInv, Taken,
                        Watching
    <2>6. AnswerInv'
      BY <1>8, <2>1 DEF ReadingQueueEvent, CancelWatch, TypeOK, AnswerInv,
                        Taken, LifeInv, AnswerTypes
    <2>7. StopInv'
      BY <1>8, <2>1 DEF ReadingQueueEvent, CancelWatch, TypeOK, StopInv, Taken,
                        LifeInv, AnswerTypes
    <2>8. ModesInv'
      BY <1>8, <2>1 DEF ReadingQueueEvent, CancelWatch, TypeOK, ModesInv,
                        Taken, AnswerTypes
    <2>9. EventInv'
      BY <1>8, <2>1, <2>2, <2>3, TakeEvent
      DEF ReadingQueueEvent, CancelWatch, TypeOK, EventInv, Taken, Accepting
    <2>10. CancelsToWrite'
      BY <1>8, <2>3 DEF ReadingQueueEvent, CancelWatch, TypeOK, CancelsToWrite
    <2>11. QED BY <2>4, <2>5, <2>6, <2>7, <2>8, <2>9, <2>10
  <1>9. ASSUME ReadingClose PROVE IInv'
    <2>1. Taken("CLOSE") /\ state = "READING"
      BY <1>9, HandleFacts DEF ReadingClose
    <2>2. OutType' /\ Kept' = Kept
      BY <1>9, TypeFacts DEF ReadingClose, OutType, Kept
    <2>3. TypeOK'
      BY <1>9, <2>1, <2>2 DEF ReadingClose, GoClosing, CloseWatcher, TypeOK,
                              Taken, OutType, States, Modes
    <2>4. LifeInv'
      BY <1>9, <2>1 DEF ReadingClose, GoClosing, CloseWatcher, TypeOK, LifeInv,
                        Taken, Watching
    <2>5. AnswerInv'
      BY <1>9, <2>1 DEF ReadingClose, GoClosing, CloseWatcher, TypeOK,
                        AnswerInv, Taken, LifeInv, AnswerTypes
    <2>6. StopInv'
      BY <1>9, <2>1 DEF ReadingClose, GoClosing, CloseWatcher, TypeOK, StopInv,
                        Taken, LifeInv, AnswerTypes
    <2>7. ModesInv'
      BY <1>9, <2>1 DEF ReadingClose, GoClosing, CloseWatcher, TypeOK,
                        ModesInv, Taken, AnswerTypes
    <2>8. EventInv'
      BY <1>9, <2>1, <2>2, TakeKeepsEvents
      DEF ReadingClose, GoClosing, CloseWatcher, TypeOK, EventInv, Taken,
          Accepting
    <2>9. CancelsToWrite'
      BY <1>9, <2>1 DEF ReadingClose, GoClosing, CloseWatcher, TypeOK,
                        CancelsToWrite, AllWritten
    <2>10. QED BY <2>3, <2>4, <2>5, <2>6, <2>7, <2>8, <2>9
  <1>10. ASSUME ReadingWritingComplete PROVE IInv'
    <2>1. Taken("WATCH_COMPLETE") /\ state = "READING_WRITING"
      BY <1>10, HandleFacts DEF ReadingWritingComplete
    <2>2. OutType' /\ Kept' = Kept
      BY <1>10, WriteReadyKeeps DEF ReadingWritingComplete
    <2>3. TypeOK'
      BY <1>10, <2>1, <2>2 DEF ReadingWritingComplete, ReadReady, StartWatch,
                               GoClosing, CloseWatcher, TypeOK, Taken, OutType,
                               States, Modes
    <2>4. LifeInv'
      BY <1>10, <2>1 DEF ReadingWritingComplete, ReadReady, StartWatch,
                         GoClosing, CloseWatcher, TypeOK, LifeInv, Taken,
                         Watching
    <2>5. AnswerInv'
      BY <1>10, <2>1 DEF ReadingWritingComplete, ReadReady, StartWatch,
                         GoClosing, CloseWatcher, TypeOK, AnswerInv, Taken,
                         LifeInv, AnswerTypes
    <2>6. StopInv'
      BY <1>10, <2>1 DEF ReadingWritingComplete, ReadReady, StartWatch,
                         GoClosing, CloseWatcher, TypeOK, StopInv, Taken,
                         LifeInv, AnswerTypes
    <2>7. ModesInv'
      BY <1>10, <2>1 DEF ReadingWritingComplete, ReadReady, StartWatch,
                         GoClosing, CloseWatcher, TypeOK, ModesInv, Taken,
                         AnswerTypes
    <2>8. EventInv'
      BY <1>10, <2>1, <2>2, TakeKeepsEvents
      DEF ReadingWritingComplete, ReadReady, StartWatch, GoClosing,
          CloseWatcher, TypeOK, EventInv, Taken, Accepting
    <2>9. CancelsToWrite'
      BY <1>10, <2>1 DEF ReadingWritingComplete, ReadReady, StartWatch,
                         GoClosing, CloseWatcher, TypeOK, CancelsToWrite,
                         AllWritten
    <2>10. QED BY <2>3, <2>4, <2>5, <2>6, <2>7, <2>8, <2>9
  <1>11. ASSUME LaterQueueEvent PROVE IInv'
    <2>1. Taken("QUEUE_EVENT") /\ (state = "READING_WRITING" \/ state = "CANCELLING")
      BY <1>11, HandleFacts DEF LaterQueueEvent
    <2>2. /\ Head(message_queue).event \in Event
             /\ Len(event_queue) < CHAT_CONNECTION_EVENT_QUEUE_SIZE
      <3>1. Len(event_queue) \in Nat
        BY LenProperties DEF TypeOK
      <3>2. ~Fails("event_queue")
        BY <1>11 DEF LaterQueueEvent, Handle, HandlerAssertions
      <3>3. QED BY <2>1, <3>1, <3>2, MessageFacts, QueueAssumption
                DEF Taken, Fails, Received
    <2>3. OutType' /\ Kept' = Append(Kept, Head(message_queue).event) /\ ~AllWritten'
      BY <1>11, <2>2, EnqueueKeeps DEF LaterQueueEvent
    <2>4. TypeOK'
      BY <1>11, <2>1, <2>2, <2>3 DEF LaterQueueEvent, TypeOK, Taken, OutType,
                                     States, Modes
    <2>5. LifeInv'
      BY <1>11, <2>1 DEF LaterQueueEvent, TypeOK, LifeInv, Taken, Watching
    <2>6. AnswerInv'
      BY <1>11, <2>1 DEF LaterQueueEvent, TypeOK, AnswerInv, Taken, LifeInv,
                         AnswerTypes
    <2>7. StopInv'
      BY <1>11, <2>1 DEF LaterQueueEvent, TypeOK, StopInv, Taken, LifeInv,
                         AnswerTypes
    <2>8. ModesInv'
      BY <1>11, <2>1 DEF LaterQueueEvent, TypeOK, ModesInv, Taken, AnswerTypes
    <2>9. EventInv'
      BY <1>11, <2>1, <2>2, <2>3, TakeEvent
      DEF LaterQueueEvent, TypeOK, EventInv, Taken, Accepting
    <2>10. CancelsToWrite'
      BY <1>11, <2>3 DEF LaterQueueEvent, TypeOK, CancelsToWrite
    <2>11. QED BY <2>4, <2>5, <2>6, <2>7, <2>8, <2>9, <2>10
  <1>12. ASSUME BeginFlushing PROVE IInv'
    <2>1. Taken("CLOSE") /\ (state = "READING_WRITING" \/ state = "CANCELLING")
      BY <1>12, HandleFacts DEF BeginFlushing
    <2>2. OutType' /\ Kept' = Kept
      BY <1>12, TypeFacts DEF BeginFlushing, OutType, Kept
    <2>3. TypeOK'
      BY <1>12, <2>1, <2>2 DEF BeginFlushing, TypeOK, Taken, OutType, States,
                               Modes
    <2>4. LifeInv'
      BY <1>12, <2>1 DEF BeginFlushing, TypeOK, LifeInv, Taken, Watching
    <2>5. AnswerInv'
      BY <1>12, <2>1 DEF BeginFlushing, TypeOK, AnswerInv, Taken, LifeInv,
                         AnswerTypes
    <2>6. StopInv'
      BY <1>12, <2>1 DEF BeginFlushing, TypeOK, StopInv, Taken, LifeInv,
                         AnswerTypes
    <2>7. ModesInv'
      BY <1>12, <2>1 DEF BeginFlushing, TypeOK, ModesInv, Taken, AnswerTypes
    <2>8. EventInv'
      BY <1>12, <2>1, <2>2, TakeKeepsEvents
      DEF BeginFlushing, TypeOK, EventInv, Taken, Accepting
    <2>9. CancelsToWrite'
      BY <1>12, <2>1 DEF BeginFlushing, TypeOK, CancelsToWrite, AllWritten
    <2>10. QED BY <2>3, <2>4, <2>5, <2>6, <2>7, <2>8, <2>9
  <1>13. ASSUME CancellingComplete PROVE IInv'
    <2>1. Taken("WATCH_COMPLETE") /\ state = "CANCELLING"
      BY <1>13, HandleFacts DEF CancellingComplete
    <2>2. OutType' /\ Kept' = Kept
      BY <1>13, WriteReadyKeeps DEF CancellingComplete
    <2>3. TypeOK'
      BY <1>13, <2>1, <2>2 DEF CancellingComplete, ReadReady, GoClosing,
                               CloseWatcher, TypeOK, Taken, OutType, States,
                               Modes
    <2>4. LifeInv'
      BY <1>13, <2>1 DEF CancellingComplete, ReadReady, GoClosing,
                         CloseWatcher, TypeOK, LifeInv, Taken, Watching
    <2>5. AnswerInv'
      BY <1>13, <2>1 DEF CancellingComplete, ReadReady, GoClosing,
                         CloseWatcher, TypeOK, AnswerInv, Taken, LifeInv,
                         AnswerTypes
    <2>6. StopInv'
      BY <1>13, <2>1 DEF CancellingComplete, ReadReady, GoClosing,
                         CloseWatcher, TypeOK, StopInv, Taken, LifeInv,
                         AnswerTypes
    <2>7. ModesInv'
      BY <1>13, <2>1 DEF CancellingComplete, ReadReady, GoClosing,
                         CloseWatcher, TypeOK, ModesInv, Taken, AnswerTypes
    <2>8. EventInv'
      BY <1>13, <2>1, <2>2, TakeKeepsEvents
      DEF CancellingComplete, ReadReady, GoClosing, CloseWatcher, TypeOK,
          EventInv, Taken, Accepting
    <2>9. CancelsToWrite'
      <3>1. WRITE \notin Head(message_queue).modes_ready
        BY <2>1, ModesAssumption DEF ModesInv, Taken
      <3>2. UNCHANGED outVars
        BY <1>13, <3>1 DEF CancellingComplete, WriteReady
      <3>3. QED BY <2>1, <3>2 DEF CancelsToWrite, AllWritten
    <2>10. QED BY <2>3, <2>4, <2>5, <2>6, <2>7, <2>8, <2>9
  <1>14. ASSUME CancellingCancelled PROVE IInv'
    <2>1. Taken("WATCH_CANCELLED") /\ state = "CANCELLING"
      BY <1>14, HandleFacts DEF CancellingCancelled
    <2>2. OutType' /\ Kept' = Kept
      BY <1>14, TypeFacts DEF CancellingCancelled, OutType, Kept
    <2>3. TypeOK'
      BY <1>14, <2>1, <2>2 DEF CancellingCancelled, StartWatch, TypeOK, Taken,
                               OutType, States, Modes
    <2>4. LifeInv'
      BY <1>14, <2>1 DEF CancellingCancelled, StartWatch, TypeOK, LifeInv,
                         Taken, Watching
    <2>5. AnswerInv'
      BY <1>14, <2>1 DEF CancellingCancelled, StartWatch, TypeOK, AnswerInv,
                         Taken, LifeInv, AnswerTypes
    <2>6. StopInv'
      BY <1>14, <2>1, NewMessages DEF CancellingCancelled, StartWatch, TypeOK,
                                      StopInv, Taken, LifeInv, AnswerTypes
    <2>7. ModesInv'
      BY <1>14, <2>1 DEF CancellingCancelled, StartWatch, TypeOK, ModesInv,
                         Taken, AnswerTypes
    <2>8. EventInv'
      BY <1>14, <2>1, <2>2, TakeKeepsEvents
      DEF CancellingCancelled, StartWatch, TypeOK, EventInv, Taken, Accepting
    <2>9. CancelsToWrite'
      BY <1>14, <2>1 DEF CancellingCancelled, StartWatch, TypeOK,
                         CancelsToWrite, AllWritten
    <2>10. QED BY <2>3, <2>4, <2>5, <2>6, <2>7, <2>8, <2>9
  <1>15. ASSUME FlushingComplete PROVE IInv'
    <2>1. Taken("WATCH_COMPLETE") /\ state = "FLUSHING"
      BY <1>15, HandleFacts DEF FlushingComplete
    <2>2. OutType' /\ Kept' = Kept
      BY <1>15, WriteReadyKeeps DEF FlushingComplete
    <2>3. TypeOK'
      BY <1>15, <2>1, <2>2 DEF FlushingComplete, StartWatch, GoClosing,
                               CloseWatcher, TypeOK, Taken, OutType, States,
                               Modes
    <2>4. LifeInv'
      BY <1>15, <2>1 DEF FlushingComplete, StartWatch, GoClosing, CloseWatcher,
                         TypeOK, LifeInv, Taken, Watching
    <2>5. AnswerInv'
      BY <1>15, <2>1 DEF FlushingComplete, StartWatch, GoClosing, CloseWatcher,
                         TypeOK, AnswerInv, Taken, LifeInv, AnswerTypes
    <2>6. StopInv'
      BY <1>15, <2>1 DEF FlushingComplete, StartWatch, GoClosing, CloseWatcher,
                         TypeOK, StopInv, Taken, LifeInv, AnswerTypes
    <2>7. ModesInv'
      BY <1>15, <2>1 DEF FlushingComplete, StartWatch, GoClosing, CloseWatcher,
                         TypeOK, ModesInv, Taken, AnswerTypes
    <2>8. EventInv'
      BY <1>15, <2>1, <2>2, TakeKeepsEvents
      DEF FlushingComplete, StartWatch, GoClosing, CloseWatcher, TypeOK,
          EventInv, Taken, Accepting
    <2>9. CancelsToWrite'
      BY <1>15, <2>1 DEF FlushingComplete, StartWatch, GoClosing, CloseWatcher,
                         TypeOK, CancelsToWrite, AllWritten
    <2>10. QED BY <2>3, <2>4, <2>5, <2>6, <2>7, <2>8, <2>9
  <1>16. ASSUME FlushingCancelled PROVE IInv'
    <2>1. Taken("WATCH_CANCELLED") /\ state = "FLUSHING"
      BY <1>16, HandleFacts DEF FlushingCancelled
    <2>2. OutType' /\ Kept' = Kept
      BY <1>16, TypeFacts DEF FlushingCancelled, OutType, Kept
    <2>3. TypeOK'
      BY <1>16, <2>1, <2>2 DEF FlushingCancelled, StartWatch, GoClosing,
                               CloseWatcher, TypeOK, Taken, OutType, States,
                               Modes
    <2>4. LifeInv'
      BY <1>16, <2>1 DEF FlushingCancelled, StartWatch, GoClosing,
                         CloseWatcher, TypeOK, LifeInv, Taken, Watching
    <2>5. AnswerInv'
      BY <1>16, <2>1 DEF FlushingCancelled, StartWatch, GoClosing,
                         CloseWatcher, TypeOK, AnswerInv, Taken, LifeInv,
                         AnswerTypes
    <2>6. StopInv'
      BY <1>16, <2>1 DEF FlushingCancelled, StartWatch, GoClosing,
                         CloseWatcher, TypeOK, StopInv, Taken, LifeInv,
                         AnswerTypes
    <2>7. ModesInv'
      BY <1>16, <2>1 DEF FlushingCancelled, StartWatch, GoClosing,
                         CloseWatcher, TypeOK, ModesInv, Taken, AnswerTypes
    <2>8. EventInv'
      BY <1>16, <2>1, <2>2, TakeKeepsEvents
      DEF FlushingCancelled, StartWatch, GoClosing, CloseWatcher, TypeOK,
          EventInv, Taken, Accepting
    <2>9. CancelsToWrite'
      BY <1>16, <2>1 DEF FlushingCancelled, StartWatch, GoClosing,
                         CloseWatcher, TypeOK, CancelsToWrite, AllWritten
    <2>10. QED BY <2>3, <2>4, <2>5, <2>6, <2>7, <2>8, <2>9
  <1>17. ASSUME ClosingClosed PROVE IInv'
    <2>1. Taken("WATCHER_CLOSED") /\ state = "CLOSING"
      BY <1>17, HandleFacts DEF ClosingClosed
    <2>2. OutType' /\ Kept' = Kept
      BY <1>17, TypeFacts DEF ClosingClosed, OutType, Kept
    <2>3. TypeOK'
      BY <1>17, <2>1, <2>2 DEF ClosingClosed, TypeOK, Taken, OutType, States,
                               Modes
    <2>4. LifeInv'
      BY <1>17, <2>1, MessageFacts DEF ClosingClosed, TypeOK, LifeInv, Taken,
                                       Watching
    <2>5. AnswerInv'
      BY <1>17, <2>1 DEF ClosingClosed, TypeOK, AnswerInv, Taken, LifeInv,
                         AnswerTypes
    <2>6. StopInv'
      BY <1>17, <2>1 DEF ClosingClosed, TypeOK, StopInv, Taken, LifeInv,
                         AnswerTypes
    <2>7. ModesInv'
      BY <1>17, <2>1 DEF ClosingClosed, TypeOK, ModesInv, Taken, AnswerTypes
    <2>8. EventInv'
      BY <1>17, <2>1, <2>2, TakeKeepsEvents
      DEF ClosingClosed, TypeOK, EventInv, Taken, Accepting
    <2>9. CancelsToWrite'
      BY <1>17, <2>1 DEF ClosingClosed, TypeOK, CancelsToWrite, AllWritten
    <2>10. QED BY <2>3, <2>4, <2>5, <2>6, <2>7, <2>8, <2>9
  <1>18. ASSUME ThreadEnd PROVE IInv'
    <2>1. /\ Contents' = Contents /\ Answered' = Answered
             /\ EventInv' /\ (AllWritten' <=> AllWritten)
      BY <1>18, UnchangedKeeps DEF ThreadEnd, Accepting
    <2>2. TypeOK'
      BY <1>18 DEF ThreadEnd, TypeOK, States, Modes, Assertions
    <2>3. LifeInv'
      BY <1>18, <2>1 DEF ThreadEnd, TypeOK, LifeInv, Watching
    <2>4. AnswerInv'
      BY <1>18, <2>1 DEF ThreadEnd, TypeOK, AnswerInv, LifeInv
    <2>5. StopInv'
      BY <1>18, <2>1 DEF ThreadEnd, TypeOK, StopInv, LifeInv
    <2>6. ModesInv'
      BY <1>18, <2>1 DEF ThreadEnd, TypeOK, ModesInv, LifeInv
    <2>7. EventInv'
      BY <2>1
    <2>8. CancelsToWrite'
      BY <1>18, <2>1 DEF ThreadEnd, TypeOK, CancelsToWrite
    <2>9. QED BY <2>2, <2>3, <2>4, <2>5, <2>6, <2>7, <2>8
  <1>19. ASSUME PollFails PROVE IInv'
    <2>1. /\ Contents' = Contents /\ Answered' = Answered
             /\ EventInv' /\ (AllWritten' <=> AllWritten)
      BY <1>19, UnchangedKeeps DEF PollFails, W!Failed, W!Answer, Accepting
    <2>2. TypeOK'
      <3>1. asked' = {} /\ stop' = FALSE /\ cback' = W!WatchError /\ service' = service
        BY <1>19 DEF PollFails, W!Failed, W!Answer
      <3>2. QED BY <1>19, <3>1, NewMessages DEF PollFails, TypeOK
    <2>3. LifeInv'
      BY <1>19, <2>1 DEF PollFails, W!Failed, W!Answer, TypeOK, LifeInv
    <2>4. AnswerInv'
      BY <1>19, <2>1 DEF PollFails, W!Failed, W!Answer, TypeOK, AnswerInv,
                         LifeInv
    <2>5. StopInv'
      BY <1>19, <2>1 DEF PollFails, W!Failed, W!Answer, TypeOK, StopInv, LifeInv
    <2>6. ModesInv'
      BY <1>19, <2>1 DEF PollFails, W!Failed, W!Answer, TypeOK, ModesInv,
                         LifeInv
    <2>7. EventInv'
      BY <2>1
    <2>8. CancelsToWrite'
      BY <1>19, <2>1 DEF PollFails, W!Failed, W!Answer, TypeOK, CancelsToWrite
    <2>9. QED BY <2>2, <2>3, <2>4, <2>5, <2>6, <2>7, <2>8
  <1>20. ASSUME Peer PROVE IInv'
    <2>1. /\ Contents' = Contents /\ Answered' = Answered
             /\ EventInv' /\ (AllWritten' <=> AllWritten)
      BY <1>20, UnchangedKeeps DEF Peer, Accepting
    <2>2. TypeOK'
      BY <1>20 DEF Peer, TypeOK, States, Modes, Assertions
    <2>3. LifeInv'
      BY <1>20, <2>1 DEF Peer, TypeOK, LifeInv, Watching
    <2>4. AnswerInv'
      BY <1>20, <2>1 DEF Peer, TypeOK, AnswerInv, LifeInv
    <2>5. StopInv'
      BY <1>20, <2>1 DEF Peer, TypeOK, StopInv, LifeInv
    <2>6. ModesInv'
      BY <1>20, <2>1 DEF Peer, TypeOK, ModesInv, LifeInv
    <2>7. EventInv'
      BY <2>1
    <2>8. CancelsToWrite'
      BY <1>20, <2>1 DEF Peer, TypeOK, CancelsToWrite
    <2>9. QED BY <2>2, <2>3, <2>4, <2>5, <2>6, <2>7, <2>8
  <1>21. ASSUME AssertionFails PROVE IInv'
    <2>1. /\ Contents' = Contents /\ Answered' = Answered
             /\ EventInv' /\ (AllWritten' <=> AllWritten)
      BY <1>21, UnchangedKeeps DEF AssertionFails, HandlerAssertions, Accepting
    <2>2. ~Fails("unreachable")
      <3>1. SUFFICES ASSUME Received("WATCHER_CLOSED") PROVE state = "CLOSING"
        BY DEF Fails
      <3>2. Head(message_queue) \in Message /\ Head(message_queue) \in Contents
        BY <3>1, HeadTailProperties, LenProperties DEF Received, TypeOK, Contents
      <3>3. QED BY <1>21, <3>1, <3>2, MessageFacts
                DEF AssertionFails, Running, Received, LifeInv, Watching
    <2>3. TypeOK'
      BY <1>21 DEF AssertionFails, HandlerAssertions, TypeOK, States, Modes,
                   Assertions
    <2>4. LifeInv'
      BY <1>21, <2>1, <2>2 DEF AssertionFails, HandlerAssertions, TypeOK,
                               LifeInv
    <2>5. AnswerInv'
      BY <1>21, <2>1 DEF AssertionFails, HandlerAssertions, TypeOK, AnswerInv,
                         LifeInv
    <2>6. StopInv'
      BY <1>21, <2>1 DEF AssertionFails, HandlerAssertions, TypeOK, StopInv,
                         LifeInv
    <2>7. ModesInv'
      BY <1>21, <2>1 DEF AssertionFails, HandlerAssertions, TypeOK, ModesInv,
                         LifeInv
    <2>8. EventInv'
      BY <2>1
    <2>9. CancelsToWrite'
      BY <1>21, <2>1 DEF AssertionFails, HandlerAssertions, TypeOK,
                         CancelsToWrite
    <2>10. QED BY <2>3, <2>4, <2>5, <2>6, <2>7, <2>8, <2>9
  <1>22. ASSUME Ignore PROVE IInv'
    <2>1. PICK type \in AnswerTypes \union {"QUEUE_EVENT", "CLOSE"} :
            /\ Taken(type)
            /\ \/ state \in {"FLUSHING", "CLOSING"}
               \/ state \in {"READING", "READING_WRITING"} /\ type = "WATCH_CANCELLED"
      <3>1. CASE Handle({"READING", "READING_WRITING", "CLOSING"}, "WATCH_CANCELLED")
        BY <3>1, HandleFacts DEF AnswerTypes
      <3>2. CASE Handle({"CLOSING"}, "WATCH_COMPLETE")
        BY <3>2, HandleFacts DEF AnswerTypes
      <3>3. CASE Handle({"FLUSHING", "CLOSING"}, "QUEUE_EVENT")
        BY <3>3, HandleFacts DEF AnswerTypes
      <3>4. CASE Handle({"FLUSHING", "CLOSING"}, "CLOSE")
        BY <3>4, HandleFacts DEF AnswerTypes
      <3>5. QED BY <1>22, <3>1, <3>2, <3>3, <3>4 DEF Ignore
    <2>2. state \in {"FLUSHING", "CLOSING"}
      BY <2>1, MessageFacts DEF Taken, StopInv
    <2>3. UNCHANGED <<state, outVars, readable, callVars>>
      BY <1>22 DEF Ignore
    <2>4. OutType' /\ Kept' = Kept
      BY <2>3, TypeFacts DEF OutType, Kept
    <2>5. TypeOK'
      BY <2>1, <2>3, <2>4 DEF TypeOK, Taken, OutType
    <2>6. LifeInv' /\ AnswerInv' /\ StopInv' /\ ModesInv' /\ CancelsToWrite'
      BY <2>1, <2>2, <2>3
      DEF LifeInv, AnswerInv, StopInv, ModesInv, CancelsToWrite, Taken, AnswerTypes
    <2>7. EventInv'
      BY <2>1, <2>2, <2>3, <2>4, TakeKeepsEvents DEF Taken, Accepting
    <2>8. QED BY <2>5, <2>6, <2>7
  <1>23. ASSUME Callback PROVE IInv'
    <2>1. PICK data \in Message :
            /\ data.type # "QUEUE_EVENT" /\ cback' = data
            /\ \/ /\ asked # {} /\ asked' = {} /\ stop' = FALSE
                  /\ service' = service
                  /\ data \in W!Answers
                  /\ data = W!WatchCancelled => stop
                  /\ data.type = "WATCH_COMPLETE" => data.modes_ready \subseteq asked
               \/ /\ service = "CLOSING" /\ service' = "CLOSED"
                  /\ asked = {} /\ asked' = {} /\ stop' = stop
                  /\ data = W!WatcherClosed
      <3>1. CASE \E modes \in SUBSET Modes : W!Complete(modes)
        <4>1. PICK modes \in SUBSET Modes : W!Complete(modes)
          BY <3>1
        <4>2. QED BY <4>1, NewMessages DEF W!Complete, W!Answer
      <3>2. CASE W!Cancelled
        BY <3>2, NewMessages DEF W!Cancelled, W!Answer
      <3>3. CASE W!Closed
        BY <3>3, NewMessages DEF W!Closed
      <3>4. QED BY <1>23, <3>1, <3>2, <3>3 DEF Callback
    <2>2. /\ thread = "running" /\ assertion = "none"
          /\ data = W!WatcherClosed => state = "CLOSING"
          /\ data \in W!Answers => Answered = {}
      BY <1>23, <2>1, NewMessages, MessageFacts
      DEF Callback, LifeInv, AnswerInv, TypeOK, Watching
    <2>3. UNCHANGED <<state, thread, outVars, readable, accepted, closes,
                      poll_failed>>
      BY <1>23 DEF Callback
    <2>4. OutType' /\ Kept' = Kept
      BY <2>3, TypeFacts DEF OutType, Kept
    <2>5. /\ asked' = {} /\ stop' \in BOOLEAN
          /\ service' \in {"OPEN", "CLOSING", "CLOSED"}
          /\ cback' \in W!Answers \union {W!WatcherClosed}
      BY <2>1, <2>2 DEF TypeOK, LifeInv, Watching
    <2>6. CASE Put(data) /\ UNCHANGED assertion
      <3>1. /\ message_queue' \in Seq(Message)
            /\ Len(message_queue') <= CHAT_CONNECTION_MESSAGE_QUEUE_SIZE
            /\ Contents' = Contents \union {data}
        BY <2>6, PutFacts
      <3>2. IF data \in W!Answers THEN Answered' = {Len(message_queue) + 1}
                                  ELSE Answered' = Answered
        BY <2>2, <2>6, PutAnswer
      <3>3. TypeOK'
        BY <2>3, <2>4, <2>5, <2>6, <3>1 DEF TypeOK, OutType
      <3>4. LifeInv'
        BY <2>1, <2>2, <2>3, <2>6, <3>1, MessageFacts, NewMessages
        DEF LifeInv, Watching
      <3>5. AnswerInv'
        BY <2>1, <2>2, <2>3, <3>2 DEF AnswerInv
      <3>6. StopInv' /\ ModesInv'
        BY <2>1, <2>3, <3>1, MessageFacts, NewMessages DEF StopInv, ModesInv
      <3>7. EventInv'
        BY <2>1, <2>3, <2>4, <2>6, PutKeepsEvents
      <3>8. CancelsToWrite'
        BY <2>3 DEF CancelsToWrite, AllWritten
      <3>9. QED BY <3>3, <3>4, <3>5, <3>6, <3>7, <3>8
    <2>7. CASE assertion' = "watcher_cback" /\ UNCHANGED message_queue
      <3>1. /\ Contents' = Contents /\ Answered' = Answered
            /\ EventInv' /\ (AllWritten' <=> AllWritten)
        BY <2>3, <2>7, UnchangedKeeps
      <3>2. TypeOK'
        BY <2>3, <2>4, <2>5, <2>7 DEF TypeOK, OutType, Assertions
      <3>3. LifeInv'
        BY <2>1, <2>2, <2>3, <2>7, <3>1, MessageFacts, NewMessages
        DEF LifeInv, Watching
      <3>4. AnswerInv'
        BY <2>2, <2>3, <2>5, <2>7, <3>1 DEF AnswerInv
      <3>5. StopInv' /\ ModesInv' /\ CancelsToWrite'
        BY <2>1, <2>3, <3>1, MessageFacts, NewMessages
        DEF StopInv, ModesInv, CancelsToWrite
      <3>6. QED BY <3>1, <3>2, <3>3, <3>4, <3>5
    <2>8. QED BY <1>23, <2>1, <2>6, <2>7 DEF Callback
  <1>24. CASE UNCHANGED vars
    <2>1. /\ Contents' = Contents /\ Answered' = Answered
          /\ EventInv' /\ (AllWritten' <=> AllWritten)
      BY <1>24, UnchangedKeeps DEF vars
    <2>2. QED BY <1>24, <2>1
              DEF vars, TypeOK, LifeInv, AnswerInv, StopInv, ModesInv, CancelsToWrite
  <1>25. QED
    BY <1>1, <1>2, <1>3, <1>4, <1>5, <1>6, <1>7, <1>8, <1>9, <1>10, <1>11,
       <1>12, <1>13, <1>14, <1>15, <1>16, <1>17, <1>18, <1>19, <1>20, <1>21,
       <1>22, <1>23, <1>24
    DEF Next, UserCall, Handler

THEOREM InductiveInvariant == Spec => []IInv
  BY InitIInv, NextIInv, PTL DEF Spec

-----------------------------------------------------------------------------
(* The safety properties. *)

(* Every variable keeps its type: neither queue of the connection ever holds
   more than its size. *)
THEOREM TypeCorrect == Spec => []TypeOK
  <1>1. IInv => TypeOK BY DEF IInv
  <1>2. QED BY <1>1, InductiveInvariant, PTL

(* The connection never waits for two answers, nor, while it reads or writes
   undisturbed, for none. *)
THEOREM NeverUnwatched == Spec => []AlwaysWatching
  <1>1. ASSUME IInv PROVE AlwaysWatching
    <2>1. AnswerInv /\ (Answered = {} \/ \E i \in Answered : Answered = {i})
      BY <1>1 DEF IInv, AnswerInv
    <2>2. CASE Answered = {}
      <3>1. Cardinality(Answered) = 0
        BY <2>2, FS_EmptySet
      <3>2. QED BY <2>1, <2>2, <3>1 DEF AnswerInv, AlwaysWatching
    <2>3. CASE Answered # {}
      <3>1. Cardinality(Answered) = 1
        BY <2>1, <2>3, FS_Singleton
      <3>2. QED BY <2>1, <2>3, <3>1 DEF AnswerInv, AlwaysWatching
    <2>4. QED BY <2>2, <2>3
  <1>2. QED BY <1>1, InductiveInvariant, PTL

(* No event is lost, doubled or overtaken, whatever watches are cancelled and
   writes cut short. *)
THEOREM EventsKeepOrder == Spec => []EventsInOrder
  <1>1. IInv => EventsInOrder
    BY DEF IInv, EventInv, QueuedInv, Accepting, EventsInOrder
  <1>2. QED BY <1>1, InductiveInvariant, PTL

(* The connection cancels a watch only when it has something to write. *)
THEOREM CancelsOnlyToWrite == Spec => []CancelsToWrite
  <1>1. IInv => CancelsToWrite BY DEF IInv
  <1>2. QED BY <1>1, InductiveInvariant, PTL

(* The thread is never told of a watcher closed behind its back, and ends when
   the watcher's thread has ended. *)
THEOREM ClosesAfterWatcher == Spec => []ClosedInOrder
  <1>1. IInv => ClosedInOrder
    BY DEF IInv, LifeInv, Watching, ClosedInOrder
  <1>2. QED BY <1>1, InductiveInvariant, PTL

-----------------------------------------------------------------------------
(* The use of the watcher: every step is one the service allows, or none. *)

(* A handler that calls the watcher does so while it is open, and starts a
   watch only when none is out. *)
LEMMA HandlerUses ==
  ASSUME IInv, Handler
  PROVE  W!Next \/ UNCHANGED W!serviceVars
  <1> USE DEF callVars, historyVars, W!serviceVars
  <1>1. ASSUME NEW modes \in SUBSET Modes, modes # {}, StartWatch(modes),
               asked = {}, service = "OPEN", UNCHANGED cback
        PROVE  W!Next
    BY <1>1 DEF StartWatch, W!Start, W!Next
  <1>2. ASSUME GoClosing, service = "OPEN", UNCHANGED cback PROVE W!Next
    BY <1>2 DEF GoClosing, CloseWatcher, W!Close, W!Next
  <1>3. \A modes \in {{READ}, {WRITE}, {READ, WRITE}} :
          modes \in SUBSET Modes /\ modes # {}
    BY DEF Modes
  <1>4. state \in Watching /\ thread = "running" => service = "OPEN"
    BY DEF IInv, LifeInv, Watching
  <1>5. CASE ReadingComplete
    <2>1. Taken("WATCH_COMPLETE") /\ state = "READING"
      BY <1>5, HandleFacts DEF ReadingComplete
    <2>2. asked = {} /\ service = "OPEN" /\ UNCHANGED cback
      BY <1>4, <2>1 DEF Taken, AnswerTypes, Watching
    <2>3. StartWatch({READ}) \/ GoClosing
      BY <1>5 DEF ReadingComplete, ReadReady
    <2>4. QED BY <1>1, <1>2, <1>3, <2>2, <2>3
  <1>6. CASE ReadingQueueEvent
    <2>1. service = "OPEN" /\ UNCHANGED cback
      BY <1>4, <1>6, HandleFacts DEF ReadingQueueEvent, Taken, Watching
    <2>2. QED BY <1>6, <2>1 DEF ReadingQueueEvent, CancelWatch, W!Cancel, W!Next
  <1>7. CASE ReadingClose
    <2>1. service = "OPEN" /\ UNCHANGED cback
      BY <1>4, <1>7, HandleFacts DEF ReadingClose, Taken, Watching
    <2>2. QED BY <1>2, <1>7, <2>1 DEF ReadingClose
  <1>8. CASE ReadingWritingComplete
    <2>1. Taken("WATCH_COMPLETE") /\ state = "READING_WRITING"
      BY <1>8, HandleFacts DEF ReadingWritingComplete
    <2>2. asked = {} /\ service = "OPEN" /\ UNCHANGED cback
      BY <1>4, <2>1 DEF Taken, AnswerTypes, Watching
    <2>3. StartWatch({READ}) \/ StartWatch({READ, WRITE}) \/ GoClosing
      BY <1>8 DEF ReadingWritingComplete, ReadReady
    <2>4. QED BY <1>1, <1>2, <1>3, <2>2, <2>3
  <1>9. CASE CancellingComplete
    <2>1. Taken("WATCH_COMPLETE") /\ state = "CANCELLING"
      BY <1>9, HandleFacts DEF CancellingComplete
    <2>2. service = "OPEN" /\ UNCHANGED cback
      BY <1>4, <2>1 DEF Taken, Watching
    <2>3. UNCHANGED callVars \/ GoClosing
      BY <1>9 DEF CancellingComplete, ReadReady
    <2>4. QED BY <1>2, <2>2, <2>3
  <1>10. CASE CancellingCancelled
    <2>1. Taken("WATCH_CANCELLED") /\ state = "CANCELLING"
      BY <1>10, HandleFacts DEF CancellingCancelled
    <2>2. asked = {} /\ service = "OPEN" /\ UNCHANGED cback
      BY <1>4, <2>1 DEF Taken, AnswerTypes, Watching
    <2>3. StartWatch({READ}) \/ StartWatch({READ, WRITE})
      BY <1>10 DEF CancellingCancelled
    <2>4. QED BY <1>1, <1>3, <2>2, <2>3
  <1>11. CASE FlushingComplete \/ FlushingCancelled
    <2>1. (Taken("WATCH_COMPLETE") \/ Taken("WATCH_CANCELLED")) /\ state = "FLUSHING"
      BY <1>11, HandleFacts DEF FlushingComplete, FlushingCancelled
    <2>2. asked = {} /\ service = "OPEN" /\ UNCHANGED cback
      BY <1>4, <2>1 DEF Taken, AnswerTypes, Watching
    <2>3. StartWatch({WRITE}) \/ GoClosing
      BY <1>11 DEF FlushingComplete, FlushingCancelled
    <2>4. QED BY <1>1, <1>2, <1>3, <2>2, <2>3
  <1>12. CASE \/ LaterQueueEvent \/ BeginFlushing \/ ClosingClosed \/ Ignore
              \/ AssertionFails
    BY <1>12
    DEF LaterQueueEvent, BeginFlushing, ClosingClosed, Ignore, AssertionFails, Handle
  <1>13. QED BY <1>5, <1>6, <1>7, <1>8, <1>9, <1>10, <1>11, <1>12 DEF Handler

LEMMA NextUses == IInv /\ [Next]_vars => [W!Next]_(W!serviceVars)
  <1> SUFFICES ASSUME IInv, [Next]_vars PROVE W!Next \/ UNCHANGED W!serviceVars
    OBVIOUS
  <1> USE DEF callVars, historyVars, W!serviceVars
  <1>1. CASE Open \/ OpenFails
    BY <1>1 DEF Open, OpenFails, W!Open, W!Next
  <1>2. CASE QueueEvent \/ Close \/ Destroy \/ ThreadEnd \/ Peer \/ UNCHANGED vars
    BY <1>2 DEF QueueEvent, Close, Destroy, ThreadEnd, Peer, vars
  <1>3. CASE ThreadStart
    <2>1. asked = {} /\ service = "OPEN"
      BY <1>3 DEF ThreadStart, IInv, LifeInv, AnswerInv
    <2>2. {READ} \in SUBSET Modes /\ W!Start({READ})
      BY <1>3, <2>1 DEF ThreadStart, StartWatch, W!Start, Modes
    <2>3. QED BY <2>2 DEF W!Next
  <1>4. CASE Callback
    BY <1>4 DEF Callback, W!Next
  <1>5. CASE PollFails
    BY <1>5 DEF PollFails, W!Next
  <1>6. QED BY <1>1, <1>2, <1>3, <1>4, <1>5, HandlerUses DEF Next, UserCall

(* The connection keeps the protocol network_watcher relies on and does not
   check: one watch at a time, nothing after close. *)
THEOREM UsesWatcher == Spec => UsesWatcherProperly
  <1>1. Init => W!Init
    BY DEF Init
  <1>2. QED BY <1>1, NextUses, InductiveInvariant, PTL
            DEF Spec, UsesWatcherProperly, W!Spec
=============================================================================
