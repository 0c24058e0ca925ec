------------------------ MODULE NetworkWatcherProofs ------------------------
(***************************************************************************)
(* Proofs about the network watcher, for any modes and any sizes of its    *)
(* queue and its pipe: it implements the service of WatcherService, and if *)
(* queue and pipe have two places each its owner never waits for it.       *)
(***************************************************************************)
EXTENDS NetworkWatcher, SequenceTheorems, TLAPS

-----------------------------------------------------------------------------
(* The inductive invariant. *)

(* WATCH, or CLOSE, has been put and not been taken. *)
WatchQueued == unanswered /\ thread_pc = "get"
CloseQueued == owner_pc = "closed" /\ thread_pc \notin {"closed", "done"}

(* Nothing else is ever in the queue. *)
QueueInv ==
  /\ WatchQueued /\ CloseQueued =>
       message_queue = <<Watch(owner_modes), CloseMessage>>
  /\ WatchQueued /\ ~CloseQueued => message_queue = <<Watch(owner_modes)>>
  /\ ~WatchQueued /\ CloseQueued => message_queue = <<CloseMessage>>
  /\ ~WatchQueued /\ ~CloseQueued => message_queue = <<>>

Answering == {"poll", "complete", "flush", "cancelled", "error"}

(* The thread serves one watch, the owner's, and serves it until it is
   answered. *)
WatchInv ==
  /\ thread_pc \in Answering => unanswered /\ events = owner_modes
  /\ thread_pc = "complete" => modes_ready \subseteq owner_modes
  /\ unanswered => thread_pc \in Answering \union {"get"} /\ owner_modes # {}
  /\ owner_pc = "start_put" => ~unanswered /\ owner_modes # {} /\ ~cancel_asked

(* What is in the pipe was written for the owner's latest watch: at most one
   cancel by cancel_watch, and one by close. *)
PipeInv ==
  /\ cancel_mutex = "owner" <=> owner_pc \in {"cancel_write", "close_write"}
  /\ owner_pc \notin {"close_put", "closed", "gone"} => cancel_pipe <= 1
  /\ cancel_pipe > 0 => cancel_asked
  /\ owner_pc = "cancel_write" => ~cancel_asked
  /\ thread_pc \in {"flush", "cancelled"} => cancel_asked
  /\ owner_pc \in {"close_put", "closed"} => cancel_asked

(* The thread ends only for a close, the owner lets go only afterwards. *)
LifeInv ==
  /\ state = "INIT" => thread_pc = "none" /\ owner_pc = "idle"
  /\ thread_pc = "none" =>
       owner_pc = "gone" \/ (owner_pc = "idle" /\ state = "INIT")
  /\ thread_pc \in {"closed", "done"} => owner_pc \in {"closed", "gone"}
  /\ owner_pc = "gone" => thread_pc \in {"none", "done"}
  /\ cback = WatcherClosed => thread_pc = "done"

IInv == TypeOK /\ QueueInv /\ WatchInv /\ PipeInv /\ LifeInv

-----------------------------------------------------------------------------
(* The messages are told apart by their type. *)
LEMMA Messages ==
  /\ CloseMessage \in Message /\ CloseMessage.type = "CLOSE"
  /\ \A modes \in SUBSET Modes :
       /\ Watch(modes) \in Message
       /\ Watch(modes).type = "WATCH" /\ Watch(modes).mode = modes
  BY DEF Message, CloseMessage, Watch

(* The callbacks are of the right type; only CLOSED is WatcherClosed, which
   no answer is. *)
LEMMA CallbackFacts ==
  /\ WatchCancelled # WatcherClosed /\ WatchError # WatcherClosed
  /\ NoCallback # WatcherClosed
  /\ \A modes : WatchComplete(modes) # WatcherClosed
  /\ {WatchCancelled, WatchError, WatcherClosed, NoCallback} \subseteq Callbacks
  /\ \A modes \in SUBSET Modes : WatchComplete(modes) \in Callbacks
  BY DEF Callbacks, WatchComplete, WatchCancelled, WatchError, WatcherClosed, NoCallback

(* Putting into and taking from the contents the queue can have. *)
LEMMA ShortQueues ==
  ASSUME NEW a, NEW b
  PROVE  /\ Append(<<>>, a) = <<a>> /\ Append(<<a>>, b) = <<a, b>>
         /\ Head(<<a>>) = a /\ Tail(<<a>>) = <<>>
         /\ Head(<<a, b>>) = a /\ Tail(<<a, b>>) = <<b>>
  <1> DEFINE s == Append(<<a>>, b)
  <1>1. <<a>> \in Seq({a, b}) /\ <<a, b>> \in Seq({a, b})
    OBVIOUS
  <1>2. s \in Seq({a, b}) /\ Len(s) = 2 /\ s[1] = a /\ s[2] = b
    BY <1>1, AppendProperties
  <1>3. \A i \in 1 .. 2 : s[i] = <<a, b>>[i]
    BY <1>2
  <1> HIDE DEF s
  <1>4. s = <<a, b>>
    BY <1>1, <1>2, <1>3, SeqEqual
  <1>5. Append(<<a>>, b) = <<a, b>>
    BY <1>4 DEF s
  <1>6. QED BY <1>5

(* The contents the invariant allows are of the right type. *)
LEMMA NextQueueType ==
  ASSUME QueueInv', owner_modes' \in SUBSET Modes
  PROVE  message_queue' \in Seq(Message)
  <1>1. CloseMessage \in Message /\ Watch(owner_modes') \in Message
    BY Messages
  <1> DEFINE w == Watch(owner_modes')
  <1>2. message_queue' \in {<<>>, <<CloseMessage>>, <<w>>, <<w, CloseMessage>>}
    BY DEF QueueInv, Watch, CloseMessage
  <1> HIDE DEF w
  <1>3. w \in Message
    BY <1>1 DEF w
  <1>4. /\ <<>> \in Seq(Message) /\ <<CloseMessage>> \in Seq(Message)
        /\ <<w>> \in Seq(Message) /\ <<w, CloseMessage>> \in Seq(Message)
    BY <1>1, <1>3
  <1>5. QED BY <1>2, <1>4

(* An empty pipe is within its bound. *)
LEMMA EmptyPipe == 0 \in 0 .. PIPE_SIZE
  BY SizesAssumption

(* The watcher as network_watcher_create leaves it satisfies the invariant. *)
LEMMA InitIInv == Init => IInv
  <1> SUFFICES ASSUME Init PROVE IInv
    OBVIOUS
  <1>1. TypeOK
    <2>1. cancel_pipe \in 0 .. PIPE_SIZE
      BY EmptyPipe DEF Init
    <2>2. message_queue \in Seq(Message) /\ cback \in Callbacks
      BY CallbackFacts DEF Init
    <2>3. QED BY <2>1, <2>2 DEF Init, TypeOK, OwnerSteps, ThreadSteps
  <1>2. QueueInv
    BY DEF Init, QueueInv, WatchQueued, CloseQueued
  <1>3. WatchInv /\ PipeInv /\ LifeInv
    BY CallbackFacts DEF Init, WatchInv, Answering, PipeInv, LifeInv
  <1>4. QED BY <1>1, <1>2, <1>3 DEF IInv

(* Every call of the owner, step of the thread and change of the descriptor
   preserves it. *)
LEMMA NextIInv == IInv /\ [Next]_vars => IInv'
  <1> SUFFICES ASSUME IInv, [Next]_vars PROVE IInv'
    OBVIOUS
  <1> USE DEF IInv, pipeVars, ownerVars, pollVars, answerVars,
              OwnerSteps, ThreadSteps, Answering, WatchQueued, CloseQueued
  <1> USE SizesAssumption
  <1>1. ASSUME Open PROVE IInv'
    <2>1. QueueInv'
      BY <1>1 DEF Open, QueueInv, WatchInv, LifeInv
    <2>2. TypeOK'
      BY <1>1, CallbackFacts DEF Open, TypeOK
    <2>3. WatchInv'
      BY <1>1 DEF Open, TypeOK, WatchInv, LifeInv
    <2>4. PipeInv'
      BY <1>1 DEF Open, TypeOK, PipeInv, LifeInv
    <2>5. LifeInv'
      BY <1>1, CallbackFacts DEF Open, LifeInv, WatchInv
    <2>6. QED BY <2>1, <2>2, <2>3, <2>4, <2>5
  <1>2. ASSUME OpenFails PROVE IInv'
    <2>1. QueueInv'
      BY <1>2 DEF OpenFails, QueueInv, WatchInv, LifeInv
    <2>2. TypeOK'
      BY <1>2, CallbackFacts DEF OpenFails, TypeOK
    <2>3. WatchInv'
      BY <1>2 DEF OpenFails, TypeOK, WatchInv, LifeInv
    <2>4. PipeInv'
      BY <1>2 DEF OpenFails, TypeOK, PipeInv, LifeInv
    <2>5. LifeInv'
      BY <1>2, CallbackFacts DEF OpenFails, LifeInv, WatchInv
    <2>6. QED BY <2>1, <2>2, <2>3, <2>4, <2>5
  <1>3. ASSUME NEW modes \in SUBSET Modes, StartFlush(modes) PROVE IInv'
    <2>1. QueueInv'
      BY <1>3 DEF StartFlush, QueueInv, WatchInv, LifeInv
    <2>2. TypeOK'
      BY <1>3, EmptyPipe, CallbackFacts DEF StartFlush, TypeOK
    <2>3. WatchInv'
      BY <1>3 DEF StartFlush, TypeOK, WatchInv, LifeInv
    <2>4. PipeInv'
      BY <1>3 DEF StartFlush, TypeOK, PipeInv, WatchInv
    <2>5. LifeInv'
      BY <1>3, CallbackFacts DEF StartFlush, LifeInv, WatchInv
    <2>6. QED BY <2>1, <2>2, <2>3, <2>4, <2>5
  <1>4. ASSUME Cancel PROVE IInv'
    <2>1. QueueInv'
      BY <1>4 DEF Cancel, CancelLock, QueueInv, WatchInv, LifeInv
    <2>2. TypeOK'
      BY <1>4, CallbackFacts DEF Cancel, CancelLock, TypeOK
    <2>3. WatchInv'
      BY <1>4 DEF Cancel, CancelLock, TypeOK, WatchInv, LifeInv
    <2>4. PipeInv'
      BY <1>4 DEF Cancel, CancelLock, TypeOK, PipeInv, LifeInv
    <2>5. LifeInv'
      BY <1>4, CallbackFacts DEF Cancel, CancelLock, LifeInv, WatchInv
    <2>6. QED BY <2>1, <2>2, <2>3, <2>4, <2>5
  <1>5. ASSUME Close PROVE IInv'
    <2>1. QueueInv'
      BY <1>5 DEF Close, CancelLock, QueueInv, WatchInv, LifeInv
    <2>2. TypeOK'
      BY <1>5, CallbackFacts DEF Close, CancelLock, TypeOK
    <2>3. WatchInv'
      BY <1>5 DEF Close, CancelLock, TypeOK, WatchInv, LifeInv
    <2>4. PipeInv'
      BY <1>5 DEF Close, CancelLock, TypeOK, PipeInv, LifeInv
    <2>5. LifeInv'
      BY <1>5, CallbackFacts DEF Close, CancelLock, LifeInv, WatchInv
    <2>6. QED BY <2>1, <2>2, <2>3, <2>4, <2>5
  <1>6. ASSUME Destroy PROVE IInv'
    <2>1. QueueInv'
      BY <1>6 DEF Destroy, QueueInv, WatchInv, LifeInv
    <2>2. TypeOK'
      BY <1>6, CallbackFacts DEF Destroy, TypeOK
    <2>3. WatchInv'
      BY <1>6 DEF Destroy, TypeOK, WatchInv, LifeInv
    <2>4. PipeInv'
      BY <1>6 DEF Destroy, TypeOK, PipeInv, LifeInv
    <2>5. LifeInv'
      BY <1>6, CallbackFacts DEF Destroy, LifeInv, WatchInv
    <2>6. QED BY <2>1, <2>2, <2>3, <2>4, <2>5
  <1>7. ASSUME StartPut PROVE IInv'
    <2>1. QueueInv'
      <3>1. ~unanswered /\ owner_pc # "closed" /\ message_queue = <<>>
        BY <1>7 DEF StartPut, QueueInv, WatchInv
      <3>2. message_queue' = <<Watch(owner_modes)>> /\ owner_modes' = owner_modes
        BY <1>7, <3>1, ShortQueues DEF StartPut, Put
      <3>3. thread_pc' = "get" /\ unanswered' /\ owner_pc' = "idle"
        BY <1>7, <3>1 DEF StartPut, TypeOK, WatchInv, LifeInv
      <3>4. QED BY <3>2, <3>3 DEF QueueInv
    <2>2. TypeOK'
      <3>1. owner_modes' \in SUBSET Modes
        BY <1>7 DEF StartPut, Put, TypeOK
      <3>2. message_queue' \in Seq(Message)
        BY <2>1, <3>1, NextQueueType
      <3>3. QED BY <1>7, <3>1, <3>2 DEF StartPut, Put, TypeOK
    <2>3. WatchInv'
      BY <1>7 DEF StartPut, Put, TypeOK, WatchInv, LifeInv
    <2>4. PipeInv'
      BY <1>7 DEF StartPut, Put, TypeOK, PipeInv, LifeInv
    <2>5. LifeInv'
      BY <1>7, CallbackFacts DEF StartPut, Put, LifeInv, WatchInv
    <2>6. QED BY <2>1, <2>2, <2>3, <2>4, <2>5
  <1>8. ASSUME CancelPipe PROVE IInv'
    <2>1. QueueInv'
      BY <1>8 DEF CancelPipe, CancelWrite, QueueInv, WatchInv, LifeInv
    <2>2. TypeOK'
      <3>1. cancel_pipe' \in 0 .. PIPE_SIZE
        BY <1>8 DEF CancelPipe, CancelWrite, TypeOK
      <3>2. QED BY <1>8, <3>1 DEF CancelPipe, CancelWrite, TypeOK
    <2>3. WatchInv'
      BY <1>8 DEF CancelPipe, CancelWrite, TypeOK, WatchInv, LifeInv
    <2>4. PipeInv'
      BY <1>8 DEF CancelPipe, CancelWrite, TypeOK, PipeInv, LifeInv
    <2>5. LifeInv'
      BY <1>8, CallbackFacts DEF CancelPipe, CancelWrite, LifeInv, WatchInv
    <2>6. QED BY <2>1, <2>2, <2>3, <2>4, <2>5
  <1>9. ASSUME ClosePut PROVE IInv'
    <2>1. QueueInv'
      <3>1. thread_pc \notin {"closed", "done"} /\ ~CloseQueued
        BY <1>9 DEF ClosePut, LifeInv
      <3>2. CloseQueued' /\ (WatchQueued' <=> WatchQueued)
        BY <1>9, <3>1 DEF ClosePut
      <3>3. /\ WatchQueued => message_queue = <<Watch(owner_modes)>>
            /\ ~WatchQueued => message_queue = <<>>
        BY <3>1 DEF QueueInv
      <3>4. /\ message_queue' = Append(message_queue, CloseMessage)
            /\ owner_modes' = owner_modes
        BY <1>9 DEF ClosePut, Put
      <3>5. /\ WatchQueued =>
                 message_queue' = <<Watch(owner_modes), CloseMessage>>
            /\ ~WatchQueued => message_queue' = <<CloseMessage>>
        BY <3>3, <3>4, ShortQueues
      <3>6. QED BY <3>2, <3>4, <3>5 DEF QueueInv
    <2>2. TypeOK'
      <3>1. owner_modes' \in SUBSET Modes
        BY <1>9 DEF ClosePut, Put, TypeOK
      <3>2. message_queue' \in Seq(Message)
        BY <2>1, <3>1, NextQueueType
      <3>3. QED BY <1>9, <3>1, <3>2 DEF ClosePut, Put, TypeOK
    <2>3. WatchInv'
      BY <1>9 DEF ClosePut, Put, TypeOK, WatchInv, LifeInv
    <2>4. PipeInv'
      BY <1>9 DEF ClosePut, Put, TypeOK, PipeInv, LifeInv
    <2>5. LifeInv'
      BY <1>9, CallbackFacts DEF ClosePut, Put, LifeInv, WatchInv
    <2>6. QED BY <2>1, <2>2, <2>3, <2>4, <2>5
  <1>10. ASSUME GetWatch PROVE IInv'
    <2>1. QueueInv'
      <3>1. WatchQueued
        BY <1>10, Messages, ShortQueues DEF GetWatch, Thread, QueueInv
      <3>2. ~WatchQueued' /\ (CloseQueued' <=> CloseQueued)
        BY <1>10 DEF GetWatch, Thread
      <3>3. message_queue' = Tail(message_queue)
        BY <1>10 DEF GetWatch
      <3>4. /\ CloseQueued =>
                 message_queue = <<Watch(owner_modes), CloseMessage>>
            /\ ~CloseQueued => message_queue = <<Watch(owner_modes)>>
        BY <3>1 DEF QueueInv
      <3>5. /\ CloseQueued => message_queue' = <<CloseMessage>>
            /\ ~CloseQueued => message_queue' = <<>>
        BY <3>3, <3>4, ShortQueues
      <3>6. QED BY <3>2, <3>5 DEF QueueInv
    <2>2. TypeOK'
      <3>1. owner_modes' \in SUBSET Modes
        BY <1>10 DEF GetWatch, Thread, TypeOK
      <3>2. message_queue' \in Seq(Message)
        BY <2>1, <3>1, NextQueueType
      <3>3. QED BY <1>10, <3>1, <3>2, Messages, ShortQueues DEF GetWatch, Thread, TypeOK, QueueInv
    <2>3. WatchInv'
      <3>1. unanswered /\ Head(message_queue) = Watch(owner_modes)
        BY <1>10, Messages, ShortQueues DEF GetWatch, Thread, QueueInv
      <3>2. events' = owner_modes
        BY <1>10, <3>1, Messages DEF GetWatch, TypeOK
      <3>3. QED BY <1>10, <3>1, <3>2 DEF GetWatch, Thread, WatchInv
    <2>4. PipeInv'
      BY <1>10 DEF GetWatch, Thread, TypeOK, PipeInv, LifeInv
    <2>5. LifeInv'
      BY <1>10, CallbackFacts DEF GetWatch, Thread, LifeInv, WatchInv
    <2>6. QED BY <2>1, <2>2, <2>3, <2>4, <2>5
  <1>11. ASSUME GetClose PROVE IInv'
    <2>1. QueueInv'
      <3>1. ~WatchQueued /\ CloseQueued
        BY <1>11, Messages, ShortQueues DEF GetClose, Thread, TypeOK, QueueInv
      <3>2. ~WatchQueued' /\ ~CloseQueued'
        BY <1>11 DEF GetClose, Thread
      <3>3. message_queue' = <<>>
        BY <1>11, <3>1, ShortQueues DEF GetClose, QueueInv
      <3>4. QED BY <3>2, <3>3 DEF QueueInv
    <2>2. TypeOK'
      <3>1. owner_modes' \in SUBSET Modes
        BY <1>11 DEF GetClose, Thread, TypeOK
      <3>2. message_queue' \in Seq(Message)
        BY <2>1, <3>1, NextQueueType
      <3>3. QED BY <1>11, <3>1, <3>2 DEF GetClose, Thread, TypeOK
    <2>3. WatchInv'
      <3>1. ~unanswered /\ owner_pc = "closed"
        BY <1>11, Messages, ShortQueues DEF GetClose, Thread, TypeOK, QueueInv
      <3>2. QED BY <1>11, <3>1 DEF GetClose, Thread, WatchInv
    <2>4. PipeInv'
      BY <1>11 DEF GetClose, Thread, TypeOK, PipeInv, LifeInv
    <2>5. LifeInv'
      <3>1. owner_pc = "closed"
        BY <1>11, Messages, ShortQueues DEF GetClose, Thread, TypeOK, QueueInv
      <3>2. QED BY <1>11, <3>1 DEF GetClose, Thread, LifeInv
    <2>6. QED BY <2>1, <2>2, <2>3, <2>4, <2>5
  <1>12. ASSUME PollCancelled PROVE IInv'
    <2>1. QueueInv'
      BY <1>12 DEF PollCancelled, Thread, QueueInv, WatchInv, LifeInv
    <2>2. TypeOK'
      BY <1>12, CallbackFacts DEF PollCancelled, Thread, TypeOK
    <2>3. WatchInv'
      BY <1>12 DEF PollCancelled, Thread, TypeOK, WatchInv, LifeInv
    <2>4. PipeInv'
      BY <1>12 DEF PollCancelled, Thread, TypeOK, PipeInv, LifeInv
    <2>5. LifeInv'
      BY <1>12, CallbackFacts DEF PollCancelled, Thread, LifeInv, WatchInv
    <2>6. QED BY <2>1, <2>2, <2>3, <2>4, <2>5
  <1>13. ASSUME PollReady PROVE IInv'
    <2>1. QueueInv'
      BY <1>13 DEF PollReady, Thread, QueueInv, WatchInv, LifeInv
    <2>2. TypeOK'
      BY <1>13, CallbackFacts DEF PollReady, Thread, TypeOK
    <2>3. WatchInv'
      BY <1>13 DEF PollReady, Thread, TypeOK, WatchInv, LifeInv
    <2>4. PipeInv'
      BY <1>13 DEF PollReady, Thread, TypeOK, PipeInv, LifeInv
    <2>5. LifeInv'
      BY <1>13, CallbackFacts DEF PollReady, Thread, LifeInv, WatchInv
    <2>6. QED BY <2>1, <2>2, <2>3, <2>4, <2>5
  <1>14. ASSUME PollFails PROVE IInv'
    <2>1. QueueInv'
      BY <1>14 DEF PollFails, Thread, QueueInv, WatchInv, LifeInv
    <2>2. TypeOK'
      BY <1>14, CallbackFacts DEF PollFails, Thread, TypeOK
    <2>3. WatchInv'
      BY <1>14 DEF PollFails, Thread, TypeOK, WatchInv, LifeInv
    <2>4. PipeInv'
      BY <1>14 DEF PollFails, Thread, TypeOK, PipeInv, LifeInv
    <2>5. LifeInv'
      BY <1>14, CallbackFacts DEF PollFails, Thread, LifeInv, WatchInv
    <2>6. QED BY <2>1, <2>2, <2>3, <2>4, <2>5
  <1>15. ASSUME FlushCancel PROVE IInv'
    <2>1. QueueInv'
      BY <1>15 DEF FlushCancel, Thread, QueueInv, WatchInv, LifeInv
    <2>2. TypeOK'
      BY <1>15, CallbackFacts DEF FlushCancel, Thread, TypeOK
    <2>3. WatchInv'
      BY <1>15 DEF FlushCancel, Thread, TypeOK, WatchInv, LifeInv
    <2>4. PipeInv'
      BY <1>15 DEF FlushCancel, Thread, TypeOK, PipeInv, LifeInv
    <2>5. LifeInv'
      BY <1>15, CallbackFacts DEF FlushCancel, Thread, LifeInv, WatchInv
    <2>6. QED BY <2>1, <2>2, <2>3, <2>4, <2>5
  <1>16. ASSUME Callback PROVE IInv'
    <2>1. QueueInv'
      BY <1>16 DEF Callback, Thread, QueueInv, WatchInv, LifeInv
    <2>2. TypeOK'
      BY <1>16, CallbackFacts DEF Callback, Thread, TypeOK
    <2>3. WatchInv'
      BY <1>16 DEF Callback, Thread, TypeOK, WatchInv, LifeInv
    <2>4. PipeInv'
      BY <1>16 DEF Callback, Thread, TypeOK, PipeInv, LifeInv
    <2>5. LifeInv'
      BY <1>16, CallbackFacts DEF Callback, Thread, LifeInv, WatchInv
    <2>6. QED BY <2>1, <2>2, <2>3, <2>4, <2>5
  <1>17. ASSUME ClosedCallback PROVE IInv'
    <2>1. QueueInv'
      BY <1>17 DEF ClosedCallback, Thread, QueueInv, WatchInv, LifeInv
    <2>2. TypeOK'
      BY <1>17, CallbackFacts DEF ClosedCallback, Thread, TypeOK
    <2>3. WatchInv'
      BY <1>17 DEF ClosedCallback, Thread, TypeOK, WatchInv, LifeInv
    <2>4. PipeInv'
      BY <1>17 DEF ClosedCallback, Thread, TypeOK, PipeInv, LifeInv
    <2>5. LifeInv'
      BY <1>17, CallbackFacts DEF ClosedCallback, Thread, LifeInv, WatchInv
    <2>6. QED BY <2>1, <2>2, <2>3, <2>4, <2>5
  <1>18. ASSUME Environment PROVE IInv'
    <2>1. QueueInv'
      BY <1>18 DEF Environment, QueueInv, WatchInv, LifeInv
    <2>2. TypeOK'
      BY <1>18, CallbackFacts DEF Environment, TypeOK
    <2>3. WatchInv'
      BY <1>18 DEF Environment, TypeOK, WatchInv, LifeInv
    <2>4. PipeInv'
      BY <1>18 DEF Environment, TypeOK, PipeInv, LifeInv
    <2>5. LifeInv'
      BY <1>18, CallbackFacts DEF Environment, LifeInv, WatchInv
    <2>6. QED BY <2>1, <2>2, <2>3, <2>4, <2>5
  <1>19. CASE UNCHANGED vars
    BY <1>19 DEF vars, TypeOK, QueueInv, WatchInv, PipeInv, LifeInv
  <1>20. QED
    BY <1>1, <1>2, <1>3, <1>4, <1>5, <1>6, <1>7, <1>8, <1>9, <1>10,
       <1>11, <1>12, <1>13, <1>14, <1>15, <1>16, <1>17, <1>18, <1>19
    DEF Next, OwnerCall, OwnerStep, ThreadStep

(* The control of owner and thread, the queue and the pipe keep to IInv. *)
THEOREM InductiveInvariant == Spec => []IInv
  <1>1. QED BY InitIInv, NextIInv, PTL DEF Spec

(* Every variable keeps its type: the pipe never holds more than fits, a
   completion never reports modes no watch has. *)
THEOREM TypeCorrect == Spec => []TypeOK
  <1>1. IInv => TypeOK BY DEF IInv
  <1>2. QED BY <1>1, InductiveInvariant, PTL

(* With two places in the queue and two in the pipe, start_watch and close
   find room for their message and cancel_watch for its byte, always. *)
THEOREM OwnerIsServed ==
  ASSUME NETWORK_WATCHER_MESSAGE_QUEUE_SIZE >= 2, PIPE_SIZE >= 2
  PROVE  Spec => []OwnerNeverStalls
  <1>1. ASSUME IInv PROVE OwnerNeverStalls
    <2>1. ASSUME owner_pc \in {"start_put", "close_put"}
          PROVE  Len(message_queue) < NETWORK_WATCHER_MESSAGE_QUEUE_SIZE
      <3>1. ~CloseQueued
        BY <2>1 DEF CloseQueued
      <3>2. message_queue = <<>> \/ message_queue = <<Watch(owner_modes)>>
        BY <1>1, <3>1 DEF IInv, QueueInv
      <3>3. Len(message_queue) \in {0, 1}
        BY <3>2
      <3>4. QED BY <3>3, SizesAssumption
    <2>2. ASSUME owner_pc \in {"cancel_write", "close_write"}
          PROVE  cancel_pipe < PIPE_SIZE
      <3>1. cancel_pipe \in Nat /\ cancel_pipe <= 1
        BY <1>1, <2>2, SizesAssumption DEF IInv, TypeOK, PipeInv
      <3>2. QED BY <3>1, SizesAssumption
    <2>3. QED BY <2>1, <2>2 DEF OwnerNeverStalls
  <1>2. QED BY <1>1, InductiveInvariant, PTL

-----------------------------------------------------------------------------
(* The refinement of the service. *)

(* A watcher just created is a service not yet opened. *)
LEMMA InitImplements == Init => Service!Init
  BY DEF Init, Service!Init, Asked, Stop, ServiceState, NoCallback,
         Service!NoCallback

(* Where the owner and the thread stand determines the state of the service. *)
LEMMA ServiceStates ==
  ASSUME IInv
  PROVE  ServiceState = IF thread_pc = "none" THEN "INIT"
                        ELSE IF thread_pc = "done" THEN "CLOSED"
                        ELSE IF owner_pc \in {"close_put", "closed"}
                             THEN "CLOSING" ELSE "OPEN"
  BY DEF ServiceState, IInv, LifeInv

(* ... and so after a step that preserves the invariant. *)
LEMMA NextServiceStates ==
  ASSUME IInv'
  PROVE  ServiceState' = IF thread_pc' = "none" THEN "INIT"
                         ELSE IF thread_pc' = "done" THEN "CLOSED"
                         ELSE IF owner_pc' \in {"close_put", "closed"}
                              THEN "CLOSING" ELSE "OPEN"
  BY DEF ServiceState, IInv, LifeInv

(* Every step of owner, thread and descriptor is a step of the service, or
   one the owner cannot tell from doing nothing. *)
LEMMA NextImplements ==
  IInv /\ IInv' /\ [Next]_vars => [Service!Next]_(Service!serviceVars)
  <1> SUFFICES ASSUME IInv, IInv', [Next]_vars
               PROVE  \/ Service!Next
                      \/ /\ Asked' = Asked /\ Stop' = Stop
                         /\ ServiceState' = ServiceState /\ cback' = cback
    BY DEF Service!serviceVars
  <1> USE ServiceStates, NextServiceStates
      DEF pipeVars, ownerVars, pollVars, answerVars, Asked, Stop
  <1>1. ASSUME Open PROVE Service!Open
    BY <1>1 DEF Open, Service!Open, IInv, LifeInv
  <1>2. ASSUME OpenFails \/ Destroy \/ Environment
        PROVE  /\ Asked' = Asked /\ Stop' = Stop
               /\ ServiceState' = ServiceState /\ cback' = cback
    BY <1>2 DEF OpenFails, Destroy, Environment, IInv, LifeInv
  <1>3. ASSUME NEW modes \in SUBSET Modes, StartFlush(modes)
        PROVE  /\ Asked' = Asked /\ Stop' = Stop
               /\ ServiceState' = ServiceState /\ cback' = cback
    BY <1>3 DEF StartFlush
  <1>4. ASSUME StartPut PROVE Service!Start(owner_modes)
    BY <1>4 DEF StartPut, Service!Start, IInv, WatchInv, LifeInv
  <1>5. ASSUME Cancel \/ Close \/ ClosePut
        PROVE  /\ Asked' = Asked /\ Stop' = Stop
               /\ ServiceState' = ServiceState /\ cback' = cback
    BY <1>5 DEF Cancel, Close, CancelLock, ClosePut
  <1>6. ASSUME CancelWrite("cancel_write", "idle") PROVE Service!Cancel
    BY <1>6 DEF CancelWrite, Service!Cancel, IInv, WatchInv, LifeInv
  <1>7. ASSUME CancelWrite("close_write", "close_put") PROVE Service!Close
    BY <1>7 DEF CancelWrite, Service!Close, IInv, WatchInv, LifeInv
  <1>8. ASSUME GetWatch \/ GetClose \/ PollCancelled \/ PollReady \/ PollFails
                 \/ FlushCancel
        PROVE  /\ Asked' = Asked /\ Stop' = Stop
               /\ ServiceState' = ServiceState /\ cback' = cback
    BY <1>8 DEF GetWatch, GetClose, PollCancelled, PollReady, PollFails,
                FlushCancel, Thread
  <1>9. ASSUME Callback PROVE Service!Next
    <2>1. /\ Asked # {} /\ Asked = owner_modes
          /\ Asked' = {} /\ Stop' = FALSE
          /\ ServiceState' = ServiceState
      BY <1>9 DEF Callback, Thread, IInv, WatchInv, Answering
    <2>2. ASSUME thread_pc = "complete", cback' = WatchComplete(modes_ready)
          PROVE  Service!Complete(modes_ready) /\ modes_ready \in SUBSET Modes
      BY <2>1, <2>2
      DEF Service!Complete, Service!Answer, IInv, WatchInv, TypeOK,
          WatchComplete, Service!WatchComplete
    <2>3. ASSUME thread_pc = "cancelled", cback' = WatchCancelled
          PROVE  Service!Cancelled
      BY <2>1, <2>3
      DEF Service!Cancelled, Service!Answer, IInv, WatchInv, PipeInv,
          Answering, WatchCancelled, Service!WatchCancelled
    <2>4. ASSUME thread_pc = "error", cback' = WatchError
          PROVE  Service!Failed
      BY <2>1, <2>4
      DEF Service!Failed, Service!Answer, WatchError, Service!WatchError
    <2>5. QED BY <1>9, <2>2, <2>3, <2>4 DEF Callback, Thread, Service!Next
  <1>10. ASSUME ClosedCallback PROVE Service!Closed
    BY <1>10 DEF ClosedCallback, Thread, Service!Closed, IInv, WatchInv,
                 LifeInv, Answering, WatcherClosed, Service!WatcherClosed
  <1>11. CASE UNCHANGED vars
    BY <1>11 DEF vars
  <1>12. QED
    BY <1>1, <1>2, <1>3, <1>4, <1>5, <1>6, <1>7, <1>8, <1>9, <1>10, <1>11
    DEF Next, OwnerCall, OwnerStep, ThreadStep, CancelPipe, Service!Next,
        IInv, TypeOK

(* Each watch is answered once, about modes it asked for; only its own cancel
   cancels it; CLOSED comes last and leaves nothing unanswered. *)
THEOREM WatcherImplementsService == Spec => ImplementsService
  <1>1. QED
    BY InitImplements, NextImplements, InductiveInvariant, PTL
    DEF Spec, ImplementsService, Service!Spec
=============================================================================
