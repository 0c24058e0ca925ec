------------------------- MODULE MessageQueueProofs -------------------------
(***************************************************************************)
(* Proofs about the message queue, for any sets of threads and messages    *)
(* and any number of slots.                                                *)
(***************************************************************************)
EXTENDS MessageQueue, FiniteSetTheorems, SequenceTheorems, TLAPS

-----------------------------------------------------------------------------
(* Arithmetic of the ring. *)

(* A slot number reduced modulo the number of slots is a slot. *)
LEMMA ModRange ==
  ASSUME NEW N \in Nat \ {0}, NEW a \in Nat
  PROVE  a % N \in 0 .. N - 1
  BY SMT

(* Two messages at different places of the ring are in different slots. *)
LEMMA ModInjective ==
  ASSUME NEW N \in Nat \ {0}, NEW f \in 0 .. N - 1,
         NEW i \in 0 .. N - 1, NEW j \in 0 .. N - 1, i # j
  PROVE  (f + i) % N # (f + j) % N
  <1>1. ASSUME NEW a \in 0 .. N - 1 PROVE a % N = a
    BY SMT
  <1>2. ASSUME NEW a \in N .. 2 * N - 1 PROVE a % N = a - N
    BY SMT
  <1>3. ASSUME NEW k \in 0 .. N - 1
        PROVE  (f + k) % N = IF f + k < N THEN f + k ELSE f + k - N
    <2>1. CASE f + k < N BY <2>1, <1>1
    <2>2. CASE ~(f + k < N)
      <3>1. f + k \in N .. 2 * N - 1 BY <2>2
      <3>2. QED BY <2>2, <3>1, <1>2
    <2>3. QED BY <2>1, <2>2
  <1>4. QED BY <1>3

(* Moving the front by one moves every later message one place forward. *)
LEMMA ModNext ==
  ASSUME NEW N \in Nat \ {0}, NEW f \in 0 .. N - 1, NEW i \in 0 .. N - 1
  PROVE  (((f + 1) % N) + i) % N = (f + (i + 1)) % N
  BY SMT

(* The front message is in the slot front_index. *)
LEMMA SlotAtZero ==
  ASSUME front_index \in Slots
  PROVE  SlotAt(0) = front_index
  BY SizeAssumption DEF SlotAt, Slots

(* Every place of the ring is a slot, and no two places share one. *)
LEMMA SlotAtRange ==
  ASSUME front_index \in Slots, NEW i \in Nat
  PROVE  SlotAt(i) \in Slots
  <1>1. front_index + i \in Nat BY DEF Slots
  <1>2. QED BY <1>1, ModRange, SizeAssumption DEF SlotAt, Slots

(* No two places of the ring are in the same slot. *)
LEMMA SlotAtInjective ==
  ASSUME front_index \in Slots,
         NEW i \in 0 .. QUEUE_SIZE - 1, NEW j \in 0 .. QUEUE_SIZE - 1, i # j
  PROVE  SlotAt(i) # SlotAt(j)
  BY ModInjective, SizeAssumption DEF SlotAt, Slots

-----------------------------------------------------------------------------
(* The initial state satisfies the inductive invariant. *)
LEMMA InitIInv == Init => IInv
  <1> SUFFICES ASSUME Init PROVE IInv
    OBVIOUS
  <1>1. TypeOK
    BY SizeAssumption, CallsAssumption
    DEF Init, TypeOK, Slots, Slot, Steps, Outcomes
  <1>2. MutexInv
    BY ThreadAssumption DEF Init, MutexInv, Locked, Putting, Getting
  <1>3. WaitersInv /\ PutInv /\ GetInv /\ FilledInv
    BY DEF Init, WaitersInv, PutInv, GetInv, FilledInv, Putting
  <1>4. QED BY <1>1, <1>2, <1>3 DEF IInv

-----------------------------------------------------------------------------
(* Every step preserves it: first the control part (types, mutex, waiters), *)
(* then the part about the ring's contents.                                 *)

(* The steps that begin a call. *)
LEMMA EnterIInv ==
  ASSUME IInv, NEW t \in Threads, NEW to \in {"put_copy", "get_check", "peek", "count"},
         Enter(t, to), message' \in [Threads -> Slot],
         \A u \in Threads \ {t} : message'[u] = message[u],
         to = "put_copy" => message'[t] \in Messages
  PROVE  IInv'
  <1> USE DEF IInv, Enter, Goto, Return, ring
  <1>1. TypeOK'
    <2>1. Pending \in Outcomes BY DEF Outcomes
    <2>2. to \in Steps BY DEF Steps, Locked, Putting, Getting
    <2>3. calls' \in 0 .. MaxCalls BY CallsAssumption DEF TypeOK
    <2>4. QED BY <2>1, <2>2, <2>3 DEF TypeOK
  <1>2. MutexInv'
    BY ThreadAssumption DEF TypeOK, MutexInv, Locked, Putting, Getting
  <1>3. WaitersInv'
    BY DEF TypeOK, WaitersInv
  <1>4. PutInv'
    <2> SUFFICES ASSUME NEW u \in Threads
                 PROVE  /\ pc'[u] \in Putting => message'[u] \in Messages
                        /\ pc'[u] = "put_commit" =>
                             /\ used_slots' < QUEUE_SIZE
                             /\ queue_buffer'[SlotAt(used_slots)'] = message'[u]
      BY DEF PutInv
    <2>1. CASE u = t BY <2>1 DEF TypeOK, Putting
    <2>2. CASE u # t BY <2>2 DEF TypeOK, PutInv, SlotAt
    <2>3. QED BY <2>1, <2>2
  <1>5. GetInv'
    BY DEF TypeOK, GetInv
  <1>6. FilledInv'
    BY DEF FilledInv, SlotAt
  <1>7. QED BY <1>1, <1>2, <1>3, <1>4, <1>5, <1>6

(* The steps that end a call without touching the ring. *)
LEMMA AnswerIInv ==
  ASSUME IInv, NEW t \in Threads, pc[t] \in Locked, Goto(t, pc[t], "unlock"),
         NEW o \in Outcomes, Return(t, o),
         message' \in [Threads -> Slot],
         \A u \in Threads \ {t} : message'[u] = message[u],
         UNCHANGED <<ring, queue_mutex, waiters, calls>>
  PROVE  IInv'
  <1> USE DEF IInv, Goto, Return, ring
  <1>1. TypeOK'
    BY DEF TypeOK, Steps, Locked
  <1>2. MutexInv'
    BY DEF TypeOK, MutexInv, Locked
  <1>3. WaitersInv'
    BY DEF TypeOK, WaitersInv, Locked, Putting, Getting
  <1>4. PutInv' /\ GetInv'
    <2> SUFFICES ASSUME NEW u \in Threads
                 PROVE  /\ pc'[u] \in Putting => message'[u] \in Messages
                        /\ pc'[u] = "put_commit" =>
                             /\ used_slots' < QUEUE_SIZE
                             /\ queue_buffer'[SlotAt(used_slots)'] = message'[u]
                        /\ pc'[u] = "get_commit" =>
                             /\ used_slots' > 0
                             /\ message'[u] = queue_buffer'[front_index']
      BY DEF PutInv, GetInv
    <2>1. CASE u = t BY <2>1 DEF TypeOK, Putting
    <2>2. CASE u # t BY <2>2 DEF TypeOK, PutInv, GetInv, SlotAt
    <2>3. QED BY <2>1, <2>2
  <1>5. FilledInv'
    BY DEF FilledInv, SlotAt
  <1>6. QED BY <1>1, <1>2, <1>3, <1>4, <1>5

(* The oldest message of a ring that is not empty is a real message. *)
LEMMA FrontIsMessage ==
  ASSUME IInv, used_slots > 0
  PROVE  queue_buffer[front_index] \in Messages
  <1>1. 0 \in 0 .. used_slots - 1 BY DEF IInv, TypeOK
  <1>2. QED BY <1>1, SlotAtZero DEF IInv, TypeOK, FilledInv

(* No thread but the holder of the mutex is in a critical section. *)
LEMMA Alone ==
  ASSUME IInv, NEW t \in Threads, pc[t] \in Locked, NEW u \in Threads, u # t
  PROVE  pc[u] \notin Locked
  BY DEF IInv, MutexInv

(* The slot behind the last message is filled. *)
LEMMA PutCopyIInv ==
  ASSUME IInv, NEW t \in Threads, PutCopy(t)
  PROVE  IInv'
  <1> USE DEF IInv, PutCopy, Goto
  <1> DEFINE slot == SlotAt(used_slots)
  <1>1. pc[t] \in Locked /\ pc[t] \in Putting /\ message[t] \in Messages
    BY DEF Locked, Putting, PutInv
  <1>2. slot \in Slots
    BY SlotAtRange, SizeAssumption DEF TypeOK
  <1>3. TypeOK'
    BY <1>1, <1>2 DEF TypeOK, Steps, Locked, Putting, Slot
  <1>4. MutexInv'
    BY <1>1 DEF TypeOK, MutexInv, Locked, Putting
  <1>5. WaitersInv'
    BY <1>1 DEF TypeOK, WaitersInv, Locked, Putting
  <1>6. queue_buffer'[slot] = message[t]
    BY <1>2 DEF TypeOK
  <1>7. PutInv'
    <2> SUFFICES ASSUME NEW u \in Threads
                 PROVE  /\ pc'[u] \in Putting => message'[u] \in Messages
                        /\ pc'[u] = "put_commit" =>
                             /\ used_slots' < QUEUE_SIZE
                             /\ queue_buffer'[SlotAt(used_slots)'] = message'[u]
      BY DEF PutInv
    <2>1. CASE u = t BY <2>1, <1>1, <1>6 DEF TypeOK, SlotAt
    <2>2. CASE u # t BY <2>2, <1>1, Alone DEF TypeOK, Putting, Locked
    <2>3. QED BY <2>1, <2>2
  <1>8. GetInv'
    BY <1>1, Alone DEF TypeOK, GetInv, Locked, Getting, Putting
  <1>9. FilledInv'
    <2> SUFFICES ASSUME NEW i \in 0 .. used_slots - 1
                 PROVE  queue_buffer'[SlotAt(i)] \in Messages
      BY DEF FilledInv, SlotAt
    <2> front_index \in Slots /\ i \in Nat
      BY DEF TypeOK
    <2>1. SlotAt(i) \in Slots
      BY SlotAtRange
    <2>2. SlotAt(i) # slot
      <3>1. /\ i \in 0 .. QUEUE_SIZE - 1
            /\ used_slots \in 0 .. QUEUE_SIZE - 1
            /\ i # used_slots
        BY SizeAssumption DEF TypeOK
      <3>2. QED BY <3>1, SlotAtInjective
    <2>3. QED BY <2>1, <2>2 DEF FilledInv, TypeOK
  <1>10. QED BY <1>3, <1>4, <1>5, <1>7, <1>8, <1>9

(* The slot just filled is taken into use, a waiter is woken. *)
LEMMA PutCommitIInv ==
  ASSUME IInv, NEW t \in Threads, PutCommit(t)
  PROVE  IInv'
  <1> USE DEF IInv, PutCommit, Goto, Return
  <1>1. pc[t] \in Locked /\ pc[t] \in Putting /\ message[t] \in Messages
    BY DEF Locked, Putting, PutInv
  <1>2. used_slots < QUEUE_SIZE /\ queue_buffer[SlotAt(used_slots)] = message[t]
    BY DEF PutInv
  <1>3. waiters' \subseteq waiters
    BY DEF Signal
  <1>4. TypeOK'
    BY <1>2, <1>3, SizeAssumption DEF TypeOK, Steps, Locked, Outcomes
  <1>5. MutexInv'
    BY <1>1 DEF TypeOK, MutexInv, Locked, Putting
  <1>6. WaitersInv'
    BY <1>1, <1>3 DEF TypeOK, WaitersInv, Locked, Putting
  <1>7. PutInv'
    BY <1>1, Alone DEF TypeOK, PutInv, Putting, Locked
  <1>8. GetInv'
    BY <1>1, Alone DEF TypeOK, GetInv, Locked, Getting, Putting
  <1>9. FilledInv'
    <2> SUFFICES ASSUME NEW i \in 0 .. used_slots
                 PROVE  queue_buffer[SlotAt(i)] \in Messages
      BY DEF FilledInv, SlotAt, TypeOK
    <2>1. CASE i = used_slots BY <2>1, <1>1, <1>2
    <2>2. CASE i # used_slots BY <2>2 DEF FilledInv, TypeOK
    <2>3. QED BY <2>1, <2>2
  <1>10. QED BY <1>4, <1>5, <1>6, <1>7, <1>8, <1>9

(* pthread_cond_wait and the two ways out of it. *)
LEMMA WaitIInv ==
  ASSUME IInv, NEW t \in Threads,
         GetWait(t) \/ SpuriousWakeup(t) \/ GetRelock(t)
  PROVE  IInv'
  <1> USE DEF IInv, GetWait, SpuriousWakeup, GetRelock, Goto, ring
  <1>1. TypeOK'
    BY DEF TypeOK, Steps, Locked, Getting
  <1>2. MutexInv'
    BY ThreadAssumption DEF TypeOK, MutexInv, Locked, Putting, Getting
  <1>3. WaitersInv'
    BY DEF TypeOK, WaitersInv
  <1>4. PutInv'
    BY DEF TypeOK, PutInv, Putting, SlotAt
  <1>5. GetInv'
    BY DEF TypeOK, GetInv
  <1>6. FilledInv'
    BY DEF FilledInv, SlotAt
  <1>7. QED BY <1>1, <1>2, <1>3, <1>4, <1>5, <1>6

(* The front slot is copied out. *)
LEMMA GetCopyIInv ==
  ASSUME IInv, NEW t \in Threads, GetCopy(t)
  PROVE  IInv'
  <1> USE DEF IInv, GetCopy, Goto, ring
  <1>1. queue_buffer[front_index] \in Messages
    BY FrontIsMessage DEF TypeOK
  <1>2. TypeOK'
    BY <1>1 DEF TypeOK, Steps, Locked, Getting, Slot
  <1>3. MutexInv'
    BY DEF TypeOK, MutexInv, Locked, Getting
  <1>4. WaitersInv'
    BY DEF TypeOK, WaitersInv
  <1>5. PutInv'
    BY DEF TypeOK, PutInv, Putting, SlotAt
  <1>6. GetInv'
    BY DEF TypeOK, GetInv
  <1>7. FilledInv'
    BY DEF FilledInv, SlotAt
  <1>8. QED BY <1>2, <1>3, <1>4, <1>5, <1>6, <1>7

(* The front slot is given back. *)
LEMMA GetCommitIInv ==
  ASSUME IInv, NEW t \in Threads, GetCommit(t)
  PROVE  IInv'
  <1> USE DEF IInv, GetCommit, Goto, Return
  <1>1. pc[t] \in Locked /\ used_slots > 0 /\ message[t] \in Messages
    <2>1. used_slots > 0 /\ message[t] = queue_buffer[front_index]
      <3> HIDE DEF IInv
      <3>1. pc[t] = "get_commit" BY DEF GetCommit, Goto
      <3>2. QED BY <3>1 DEF IInv, GetInv
    <2>2. message[t] \in Messages
      BY <2>1, FrontIsMessage
    <2>3. QED BY <2>1, <2>2 DEF Locked, Getting
  <1>2. front_index' \in Slots
    BY SlotAtRange DEF TypeOK
  <1>3. TypeOK'
    <2>1. Delivered(message[t]) \in Outcomes BY <1>1 DEF Outcomes
    <2>2. used_slots' \in 0 .. QUEUE_SIZE BY <1>1, SizeAssumption DEF TypeOK
    <2>3. QED BY <1>2, <2>1, <2>2 DEF TypeOK, Steps, Locked
  <1>4. MutexInv'
    BY <1>1 DEF TypeOK, MutexInv, Locked
  <1>5. WaitersInv'
    BY DEF TypeOK, WaitersInv
  <1>6. PutInv' /\ GetInv'
    BY <1>1, Alone DEF TypeOK, PutInv, GetInv, Putting, Getting, Locked
  <1>7. FilledInv'
    <2> SUFFICES ASSUME NEW i \in 0 .. used_slots - 2
                 PROVE  queue_buffer[SlotAt(i)'] \in Messages
      BY DEF FilledInv, TypeOK
    <2>1. SlotAt(i)' = SlotAt(i + 1)
      BY ModNext, SizeAssumption DEF SlotAt, TypeOK, Slots
    <2>2. i + 1 \in 0 .. used_slots - 1
      BY DEF TypeOK
    <2>3. QED BY <2>1, <2>2 DEF FilledInv
  <1>8. QED BY <1>3, <1>4, <1>5, <1>6, <1>7

(* The end of a call. *)
LEMMA UnlockIInv ==
  ASSUME IInv, NEW t \in Threads, Unlock(t)
  PROVE  IInv'
  <1> USE DEF IInv, Unlock, Goto, ring
  <1>1. TypeOK'
    BY DEF TypeOK, Steps
  <1>2. MutexInv'
    BY ThreadAssumption DEF TypeOK, MutexInv, Locked, Putting, Getting
  <1>3. WaitersInv'
    BY DEF TypeOK, WaitersInv
  <1>4. PutInv'
    BY DEF TypeOK, PutInv, Putting, SlotAt
  <1>5. GetInv'
    BY DEF TypeOK, GetInv
  <1>6. FilledInv'
    BY DEF FilledInv, SlotAt
  <1>7. QED BY <1>1, <1>2, <1>3, <1>4, <1>5, <1>6

-----------------------------------------------------------------------------
(* Every step of every thread preserves the invariant. *)
LEMMA NextIInv == IInv /\ [Next]_vars => IInv'
  <1> SUFFICES ASSUME IInv, [Next]_vars PROVE IInv'
    OBVIOUS
  <1>1. ASSUME NEW t \in Threads, Call(t) PROVE IInv'
    <2>1. ASSUME NEW m \in Messages, PutBegin(t, m) PROVE IInv'
      <3>1. /\ message' \in [Threads -> Slot]
            /\ message'[t] \in Messages
            /\ \A u \in Threads \ {t} : message'[u] = message[u]
        BY <2>1 DEF PutBegin, IInv, TypeOK, Slot
      <3>2. Enter(t, "put_copy") BY <2>1 DEF PutBegin
      <3>3. QED BY <3>1, <3>2, EnterIInv
    <2>2. CASE GetBegin(t)
      <3>1. message' \in [Threads -> Slot] /\ UNCHANGED message
        BY <2>2 DEF GetBegin, IInv, TypeOK
      <3>2. Enter(t, "get_check") BY <2>2 DEF GetBegin
      <3>3. QED BY <3>1, <3>2, EnterIInv
    <2>3. CASE PeekBegin(t)
      <3>1. message' \in [Threads -> Slot] /\ UNCHANGED message
        BY <2>3 DEF PeekBegin, IInv, TypeOK
      <3>2. Enter(t, "peek") BY <2>3 DEF PeekBegin
      <3>3. QED BY <3>1, <3>2, EnterIInv
    <2>4. CASE CountBegin(t)
      <3>1. message' \in [Threads -> Slot] /\ UNCHANGED message
        BY <2>4 DEF CountBegin, IInv, TypeOK
      <3>2. Enter(t, "count") BY <2>4 DEF CountBegin
      <3>3. QED BY <3>1, <3>2, EnterIInv
    <2>5. QED BY <1>1, <2>1, <2>2, <2>3, <2>4 DEF Call
  <1>2. ASSUME NEW t \in Threads, Proceed(t) PROVE IInv'
    <2>1. CASE PutFull(t)
      <3>1. Refused("NO_SPACE") \in Outcomes BY DEF Outcomes
      <3>2. message' \in [Threads -> Slot] BY <2>1 DEF PutFull, IInv, TypeOK
      <3>3. QED BY <2>1, <3>1, <3>2, AnswerIInv
                DEF PutFull, Goto, Locked, Putting
    <2>2. CASE PutCopy(t) BY <2>2, PutCopyIInv
    <2>3. CASE PutCommit(t) BY <2>3, PutCommitIInv
    <2>4. CASE GetWait(t) \/ GetRelock(t) BY <2>4, WaitIInv
    <2>5. CASE GetCopy(t) BY <2>5, GetCopyIInv
    <2>6. CASE GetCommit(t) BY <2>6, GetCommitIInv
    <2>7. CASE PeekEmpty(t)
      <3>1. Refused("EMPTY") \in Outcomes BY DEF Outcomes
      <3>2. message' \in [Threads -> Slot] BY <2>7 DEF PeekEmpty, IInv, TypeOK
      <3>3. QED BY <2>7, <3>1, <3>2, AnswerIInv DEF PeekEmpty, Goto, Locked
    <2>8. CASE PeekCopy(t)
      <3>1. queue_buffer[front_index] \in Messages
        BY <2>8, FrontIsMessage DEF PeekCopy
      <3>2. Delivered(queue_buffer[front_index]) \in Outcomes
        BY <3>1 DEF Outcomes
      <3>3. /\ message' \in [Threads -> Slot]
            /\ \A u \in Threads \ {t} : message'[u] = message[u]
        BY <2>8, <3>1 DEF PeekCopy, IInv, TypeOK, Slot
      <3>4. QED BY <2>8, <3>2, <3>3, AnswerIInv DEF PeekCopy, Goto, Locked
    <2>9. CASE GetCount(t)
      <3>1. Counted(used_slots) \in Outcomes BY DEF Outcomes, IInv, TypeOK
      <3>2. message' \in [Threads -> Slot] BY <2>9 DEF GetCount, IInv, TypeOK
      <3>3. QED BY <2>9, <3>1, <3>2, AnswerIInv DEF GetCount, Goto, Locked
    <2>10. CASE Unlock(t) BY <2>10, UnlockIInv
    <2>11. QED BY <1>2, <2>1, <2>2, <2>3, <2>4, <2>5, <2>6, <2>7, <2>8, <2>9,
                  <2>10 DEF Proceed
  <1>3. ASSUME NEW t \in Threads, SpuriousWakeup(t) PROVE IInv'
    BY <1>3, WaitIInv
  <1>4. CASE UNCHANGED vars
    BY <1>4 DEF vars, IInv, TypeOK, MutexInv, WaitersInv, PutInv, GetInv,
                FilledInv, SlotAt
  <1>5. QED BY <1>1, <1>2, <1>3, <1>4 DEF Next

(* The inductive invariant holds in every reachable state. *)
THEOREM InductiveInvariant == Spec => []IInv
  <1>1. QED BY InitIInv, NextIInv, PTL DEF Spec

(* Type correctness: whatever the threads do, the indices stay in the ring
   and every call returns one of the documented outcomes. *)
THEOREM TypeCorrect == Spec => []TypeOK
  <1>1. IInv => TypeOK BY DEF IInv
  <1>2. QED BY <1>1, InductiveInvariant, PTL

-----------------------------------------------------------------------------
(* No lost wakeups. *)

AwakeSet == {t \in Threads : Awake(t)}

(* The threads awake in get can be counted. *)
LEMMA AwakeSetFinite == IsFiniteSet(AwakeSet) /\ IsFiniteSet(AwakeSet')
  <1>1. IsFiniteSet(Threads)
    BY FiniteAssumption, FS_Union DEF Threads
  <1>2. AwakeSet \in SUBSET Threads /\ AwakeSet' \in SUBSET Threads
    BY DEF AwakeSet
  <1>3. QED BY <1>1, <1>2, FS_Subset

(* A step that puts no message and sends no awake getter to sleep. *)
LEMMA StillAwake ==
  ASSUME TypeOK, NoLostWakeup, used_slots' = used_slots, waiters' \subseteq waiters,
         AwakeSet \subseteq AwakeSet'
  PROVE  NoLostWakeup'
  <1>1. Cardinality(AwakeSet) <= Cardinality(AwakeSet')
    BY AwakeSetFinite, FS_Subset
  <1>2. Cardinality(AwakeSet) \in Nat /\ Cardinality(AwakeSet') \in Nat
    BY AwakeSetFinite, FS_CardinalityType
  <1>3. QED BY <1>1, <1>2 DEF NoLostWakeup, AwakeSet, TypeOK

(* A step that adds a message wakes a getter; one that puts a getter to sleep,
   or ends a get, leaves no message beside it. *)
LEMMA NextNoLostWakeup == IInv /\ NoLostWakeup /\ [Next]_vars => NoLostWakeup'
  <1> SUFFICES ASSUME IInv, NoLostWakeup, [Next]_vars PROVE NoLostWakeup'
    OBVIOUS
  <1> TypeOK BY DEF IInv
  <1> USE DEF Goto, ring
  <1>1. ASSUME NEW t \in Threads, Call(t) PROVE NoLostWakeup'
    <2>1. /\ used_slots' = used_slots
          /\ waiters' = waiters
          /\ pc[t] = "idle"
          /\ \A u \in Threads \ {t} : pc'[u] = pc[u]
      BY <1>1 DEF Call, PutBegin, GetBegin, PeekBegin, CountBegin, Enter, TypeOK
    <2>2. AwakeSet \subseteq AwakeSet'
      BY <2>1 DEF AwakeSet, Awake, Getting
    <2>3. QED BY <2>1, <2>2, StillAwake
  <1>2. ASSUME NEW t \in Threads,
               \/ PutFull(t) \/ PutCopy(t) \/ PeekEmpty(t) \/ PeekCopy(t)
               \/ GetCount(t) \/ Unlock(t) \/ GetCopy(t) \/ GetRelock(t)
        PROVE  NoLostWakeup'
    <2>1. /\ used_slots' = used_slots
          /\ waiters' = waiters
          /\ pc[t] \in Getting => pc'[t] \in Getting
          /\ pc[t] = "get_wake" => pc'[t] \in Getting
          /\ \A u \in Threads \ {t} : pc'[u] = pc[u]
      BY <1>2 DEF PutFull, PutCopy, PeekEmpty, PeekCopy, GetCount, Unlock,
                  GetCopy, GetRelock, TypeOK, Getting
    <2>2. AwakeSet \subseteq AwakeSet'
      BY <2>1 DEF AwakeSet, Awake
    <2>3. QED BY <2>1, <2>2, StillAwake
  <1>3. ASSUME NEW t \in Threads, PutCommit(t) PROVE NoLostWakeup'
    <2>1. CASE waiters = {}
      BY <1>3, <2>1 DEF PutCommit, Signal, NoLostWakeup
    <2>2. CASE waiters # {}
      <3>1. PICK w \in waiters : waiters' = waiters \ {w}
        BY <1>3, <2>2 DEF PutCommit, Signal
      <3>2. pc[w] = "get_wake" /\ w \in Threads
        BY DEF IInv, WaitersInv, TypeOK
      <3>3. w \notin AwakeSet
        BY <3>2 DEF AwakeSet, Awake, Getting
      <3>4. pc' = [pc EXCEPT ![t] = "unlock"] /\ pc[t] = "put_commit"
        BY <1>3 DEF PutCommit
      <3>5. AwakeSet' = AwakeSet \union {w}
        BY <3>1, <3>2, <3>4 DEF AwakeSet, Awake, Getting, TypeOK
      <3>6. Cardinality(AwakeSet') = Cardinality(AwakeSet) + 1
        BY <3>3, <3>5, AwakeSetFinite, FS_AddElement
      <3>7. used_slots' = used_slots + 1
        BY <1>3 DEF PutCommit
      <3>8. Cardinality(AwakeSet) \in Nat
        BY AwakeSetFinite, FS_CardinalityType
      <3>9. QED BY <2>2, <3>6, <3>7, <3>8 DEF NoLostWakeup, AwakeSet, TypeOK
    <2>3. QED BY <2>1, <2>2
  <1>4. ASSUME NEW t \in Threads, GetWait(t) PROVE NoLostWakeup'
    <2>1. used_slots' = 0
      BY <1>4 DEF GetWait, TypeOK
    <2>2. Cardinality(AwakeSet') \in Nat
      BY AwakeSetFinite, FS_CardinalityType
    <2>3. QED BY <2>1, <2>2 DEF NoLostWakeup, AwakeSet
  <1>5. ASSUME NEW t \in Threads, GetCommit(t) PROVE NoLostWakeup'
    <2>1. /\ used_slots' = used_slots - 1
          /\ waiters' = waiters
          /\ pc[t] = "get_commit"
          /\ pc' = [pc EXCEPT ![t] = "unlock"]
      BY <1>5 DEF GetCommit
    <2>2. t \in AwakeSet
      BY <2>1 DEF AwakeSet, Awake, Getting
    <2>3. AwakeSet' = AwakeSet \ {t}
      BY <2>1 DEF AwakeSet, Awake, Getting, TypeOK
    <2>4. Cardinality(AwakeSet') = Cardinality(AwakeSet) - 1
      BY <2>2, <2>3, AwakeSetFinite, FS_RemoveElement
    <2>5. Cardinality(AwakeSet) \in Nat
      BY AwakeSetFinite, FS_CardinalityType
    <2>6. QED BY <2>1, <2>4, <2>5 DEF NoLostWakeup, AwakeSet, TypeOK
  <1>6. ASSUME NEW t \in Threads, SpuriousWakeup(t) PROVE NoLostWakeup'
    <2>1. /\ used_slots' = used_slots
          /\ waiters' = waiters \ {t}
          /\ pc' = pc
      BY <1>6 DEF SpuriousWakeup
    <2>2. AwakeSet \subseteq AwakeSet'
      BY <2>1 DEF AwakeSet, Awake
    <2>3. QED BY <2>1, <2>2, StillAwake
  <1>7. CASE UNCHANGED vars
    BY <1>7 DEF vars, NoLostWakeup, Awake
  <1>8. QED BY <1>1, <1>2, <1>3, <1>4, <1>5, <1>6, <1>7 DEF Next, Proceed

(* No wakeup is lost: while a getter sleeps, every queued message has an
   awake getter of its own, for any number of threads, slots and calls. *)
THEOREM NoWakeupIsLost == Spec => []NoLostWakeup
  <1>1. Init => NoLostWakeup
    BY DEF Init, NoLostWakeup
  <1>2. QED BY <1>1, NextNoLostWakeup, InductiveInvariant, PTL DEF Spec

-----------------------------------------------------------------------------
(* The ring implements the bounded FIFO. *)

(* A call that has not returned yet has no outcome. *)
PendingInv ==
  \A t \in Threads : pc[t] \notin {"idle", "unlock"} => outcome[t] = Pending

(* A call stays unanswered until it commits or refuses. *)
LEMMA NextPending == TypeOK /\ PendingInv /\ [Next]_vars => PendingInv'
  <1> SUFFICES ASSUME TypeOK, PendingInv, [Next]_vars PROVE PendingInv'
    OBVIOUS
  <1> USE DEF PendingInv, Goto, Return
  <1>1. ASSUME NEW t \in Threads, Call(t) PROVE PendingInv'
    BY <1>1 DEF Call, PutBegin, GetBegin, PeekBegin, CountBegin, Enter, TypeOK
  <1>2. ASSUME NEW t \in Threads, Proceed(t) PROVE PendingInv'
    BY <1>2 DEF Proceed, PutFull, PutCopy, PutCommit, GetWait, GetRelock,
                GetCopy, GetCommit, PeekEmpty, PeekCopy, GetCount, Unlock, TypeOK
  <1>3. ASSUME NEW t \in Threads, SpuriousWakeup(t) PROVE PendingInv'
    BY <1>3 DEF SpuriousWakeup
  <1>4. CASE UNCHANGED vars
    BY <1>4 DEF vars
  <1>5. QED BY <1>1, <1>2, <1>3, <1>4 DEF Next

(* A thread that is about to report the outcome of a call has not yet done so. *)
THEOREM PendingInvariant == Spec => []PendingInv
  <1>1. Init => PendingInv BY DEF Init, PendingInv
  <1>2. QED BY <1>1, NextPending, TypeCorrect, PTL DEF Spec

(* The sequence of messages in the ring, and ... *)
LEMMA ContentsSeq ==
  ASSUME IInv
  PROVE  /\ Contents \in Seq(Messages)
         /\ Len(Contents) = used_slots
         /\ \A i \in 1 .. used_slots : Contents[i] = queue_buffer[SlotAt(i - 1)]
  <1>1. used_slots \in Nat BY DEF IInv, TypeOK
  <1>2. \A i \in 1 .. used_slots : queue_buffer[SlotAt(i - 1)] \in Messages
    <2> SUFFICES ASSUME NEW i \in 1 .. used_slots
                 PROVE  queue_buffer[SlotAt(i - 1)] \in Messages
      OBVIOUS
    <2>1. i - 1 \in 0 .. used_slots - 1 BY <1>1
    <2>2. QED BY <2>1 DEF IInv, FilledInv
  <1>3. Contents \in [1 .. used_slots -> Messages]
    BY <1>2 DEF Contents
  <1>4. Contents \in Seq(Messages)
    BY <1>1, <1>3, SeqDef
  <1>5. Len(Contents) = used_slots
    BY <1>1, <1>3, <1>4, LenProperties
  <1>6. QED BY <1>4, <1>5 DEF Contents

ContentsFacts ==
  /\ Contents \in Seq(Messages)
  /\ Len(Contents) = used_slots
  /\ \A i \in 1 .. used_slots : Contents[i] = queue_buffer[SlotAt(i - 1)]

(* ... the same after a step. *)
LEMMA NextContentsSeq == IInv' => ContentsFacts'
  <1>1. IInv => ContentsFacts BY ContentsSeq DEF ContentsFacts
  <1>2. QED BY <1>1, PTL

(* A step that leaves the ring alone leaves its contents alone. *)
LEMMA SameContents ==
  ASSUME UNCHANGED ring
  PROVE  Contents' = Contents
  BY DEF ring, Contents, SlotAt

(* Copying a message into the first free slot does not change the contents. *)
LEMMA PutCopyContents ==
  ASSUME IInv, NEW t \in Threads, PutCopy(t)
  PROVE  Contents' = Contents
  <1> TypeOK BY DEF IInv
  <1>1. ASSUME NEW i \in 1 .. used_slots
        PROVE  queue_buffer'[SlotAt(i - 1)] = queue_buffer[SlotAt(i - 1)]
    <2>1. /\ i - 1 \in 0 .. QUEUE_SIZE - 1
          /\ used_slots \in 0 .. QUEUE_SIZE - 1
          /\ i - 1 # used_slots
          /\ i - 1 \in Nat
      BY SizeAssumption DEF PutCopy, TypeOK
    <2>2. SlotAt(i - 1) # SlotAt(used_slots)
      BY <2>1, SlotAtInjective DEF TypeOK
    <2>3. SlotAt(i - 1) \in Slots
      BY <2>1, SlotAtRange DEF TypeOK
    <2>4. QED BY <2>2, <2>3 DEF PutCopy, TypeOK
  <1>2. used_slots' = used_slots /\ front_index' = front_index
    BY DEF PutCopy
  <1>3. QED BY <1>1, <1>2 DEF Contents, SlotAt

(* Moving used_slots appends the message the put copied. *)
LEMMA PutCommitContents ==
  ASSUME IInv, NEW t \in Threads, PutCommit(t)
  PROVE  /\ message[t] \in Messages
         /\ Len(Contents) < QUEUE_SIZE
         /\ Contents' = Append(Contents, message[t])
  <1>1. pc[t] = "put_commit" BY DEF PutCommit, Goto
  <1>2. /\ message[t] \in Messages
        /\ used_slots < QUEUE_SIZE
        /\ queue_buffer[SlotAt(used_slots)] = message[t]
    BY <1>1 DEF IInv, PutInv, Putting
  <1>3. IInv' BY PutCommitIInv
  <1>4. /\ used_slots' = used_slots + 1
        /\ front_index' = front_index
        /\ queue_buffer' = queue_buffer
    BY DEF PutCommit
  <1> used_slots \in Nat BY DEF IInv, TypeOK
  <1> DEFINE new == Append(Contents, message[t])
  <1>5. /\ new \in Seq(Messages)
        /\ Len(new) = used_slots + 1
        /\ \A i \in 1 .. used_slots : new[i] = Contents[i]
        /\ new[used_slots + 1] = message[t]
    BY <1>2, ContentsSeq, AppendProperties
  <1>6. /\ Contents' \in Seq(Messages)
        /\ Len(Contents') = used_slots + 1
        /\ \A i \in 1 .. used_slots + 1 :
             Contents'[i] = queue_buffer[SlotAt(i - 1)]
    <2>1. /\ Contents' \in Seq(Messages)
          /\ Len(Contents') = used_slots'
          /\ \A i \in 1 .. used_slots' :
                Contents'[i] = queue_buffer'[SlotAt(i - 1)']
      BY <1>3, NextContentsSeq DEF ContentsFacts
    <2>2. \A i \in 1 .. used_slots + 1 : SlotAt(i - 1)' = SlotAt(i - 1)
      BY <1>4 DEF SlotAt
    <2>3. QED BY <2>1, <2>2, <1>4
  <1>7. ASSUME NEW i \in 1 .. Len(Contents') PROVE Contents'[i] = new[i]
    <2>1. CASE i = used_slots + 1
      BY <2>1, <1>2, <1>5, <1>6
    <2>2. CASE i # used_slots + 1
      <3>1. i \in 1 .. used_slots BY <2>2, <1>6
      <3>2. QED BY <3>1, <1>5, <1>6, ContentsSeq
    <2>3. QED BY <2>1, <2>2
  <1>8. Contents' = new
    BY <1>5, <1>6, <1>7, SeqEqual
  <1>9. QED BY <1>2, <1>8, ContentsSeq

(* Moving front_index removes the message the get copied. *)
LEMMA GetCommitContents ==
  ASSUME IInv, NEW t \in Threads, GetCommit(t)
  PROVE  /\ Contents # <<>>
         /\ message[t] = Head(Contents)
         /\ Contents' = Tail(Contents)
  <1>1. pc[t] = "get_commit" BY DEF GetCommit, Goto
  <1>2. used_slots > 0 /\ message[t] = queue_buffer[front_index]
    BY <1>1 DEF IInv, GetInv
  <1>3. IInv' BY GetCommitIInv
  <1>4. /\ used_slots' = used_slots - 1
        /\ front_index' = (front_index + 1) % QUEUE_SIZE
        /\ queue_buffer' = queue_buffer
    BY DEF GetCommit, SlotAt
  <1> /\ used_slots \in 0 .. QUEUE_SIZE
      /\ front_index \in Slots
    BY DEF IInv, TypeOK
  <1>5. Contents # <<>> BY <1>2, ContentsSeq
  <1>6. Head(Contents) = Contents[1]
    BY <1>5, ContentsSeq
  <1>7. Contents[1] = queue_buffer[front_index]
    <2>1. 1 \in 1 .. used_slots BY <1>2
    <2>2. Contents[1] = queue_buffer[SlotAt(1 - 1)] BY <2>1, ContentsSeq
    <2>3. 1 - 1 = 0 OBVIOUS
    <2>4. QED BY <2>2, <2>3, SlotAtZero
  <1>8. /\ Tail(Contents) \in Seq(Messages)
        /\ Len(Tail(Contents)) = used_slots - 1
        /\ \A i \in 1 .. used_slots - 1 : Tail(Contents)[i] = Contents[i + 1]
    BY <1>5, ContentsSeq, HeadTailProperties
  <1>9. /\ Contents' \in Seq(Messages)
        /\ Len(Contents') = used_slots - 1
    BY <1>3, <1>4, NextContentsSeq DEF ContentsFacts
  <1>10. ASSUME NEW i \in 1 .. used_slots - 1
         PROVE  Contents'[i] = Tail(Contents)[i]
    <2>1. Contents'[i] = queue_buffer[SlotAt(i - 1)']
      BY <1>4 DEF Contents
    <2>2. i - 1 \in 0 .. QUEUE_SIZE - 1 /\ (i - 1) + 1 = i
      BY SizeAssumption
    <2>3. SlotAt(i - 1)' = SlotAt(i)
      BY <1>4, <2>2, ModNext, SizeAssumption DEF SlotAt, Slots
    <2>4. i + 1 \in 1 .. used_slots /\ (i + 1) - 1 = i
      OBVIOUS
    <2>5. Contents[i + 1] = queue_buffer[SlotAt(i)]
      BY <2>4, ContentsSeq
    <2>6. QED BY <2>1, <2>3, <2>5, <1>8
  <1>11. Contents' = Tail(Contents)
    BY <1>8, <1>9, <1>10, SeqEqual
  <1>12. QED BY <1>2, <1>5, <1>6, <1>7, <1>11

(* An empty ring is an empty FIFO. *)
LEMMA InitImplements == Init => Fifo!Init
  <1> SUFFICES ASSUME Init PROVE Fifo!Init
    OBVIOUS
  <1>1. IInv BY InitIInv
  <1>2. Len(Contents) = 0 /\ Contents \in Seq(Messages)
    BY <1>1, ContentsSeq DEF Init
  <1>3. Contents = <<>>
    BY <1>2, EmptySeq
  <1>4. QED BY <1>3 DEF Init, Fifo!Init, Accepted, Fifo!Accepted

(* Every step of the ring is a step of the FIFO, or changes nothing it sees. *)
LEMMA NextImplements ==
  IInv /\ PendingInv /\ [Next]_vars => [Fifo!Next]_(Fifo!fifoVars)
  <1> SUFFICES ASSUME IInv, PendingInv, [Next]_vars
               PROVE  Fifo!Next \/ (Contents' = Contents /\ outcome' = outcome)
    BY DEF Fifo!fifoVars
  <1> USE DEF Goto, Return, Fifo!Report, Pending, Fifo!Pending
  <1>1. ASSUME NEW t \in Threads, Call(t) PROVE Fifo!Next
    <2>1. UNCHANGED ring /\ outcome' = [outcome EXCEPT ![t] = Pending]
      BY <1>1 DEF Call, PutBegin, GetBegin, PeekBegin, CountBegin, Enter
    <2>2. Fifo!Begin(t)
      BY <2>1, SameContents DEF Fifo!Begin
    <2>3. QED BY <2>2 DEF Fifo!Next
  <1>2. ASSUME NEW t \in Threads, PutFull(t) PROVE Fifo!Next
    <2>1. /\ UNCHANGED ring
          /\ used_slots = QUEUE_SIZE
          /\ outcome[t] = Pending
          /\ outcome' = [outcome EXCEPT ![t] = Refused("NO_SPACE")]
      BY <1>2, SizeAssumption DEF PutFull, PendingInv, IInv, TypeOK
    <2>2. Fifo!PutRefused(t)
      BY <2>1, SameContents, ContentsSeq
      DEF Fifo!PutRefused, Refused, Fifo!Refused
    <2>3. QED BY <2>2 DEF Fifo!Next
  <1>3. ASSUME NEW t \in Threads, PutCopy(t)
        PROVE  Contents' = Contents /\ outcome' = outcome
    BY <1>3, PutCopyContents DEF PutCopy
  <1>4. ASSUME NEW t \in Threads, PutCommit(t) PROVE Fifo!Next
    <2>1. /\ outcome[t] = Pending
          /\ outcome' = [outcome EXCEPT ![t] = Accepted]
      BY <1>4 DEF PutCommit, PendingInv
    <2>2. Fifo!Put(t, message[t])
      BY <1>4, <2>1, PutCommitContents DEF Fifo!Put, Accepted, Fifo!Accepted
    <2>3. QED BY <1>4, <2>2, PutCommitContents DEF Fifo!Next
  <1>5. ASSUME NEW t \in Threads,
               GetWait(t) \/ GetRelock(t) \/ GetCopy(t) \/ Unlock(t)
                 \/ SpuriousWakeup(t)
        PROVE  Contents' = Contents /\ outcome' = outcome
    BY <1>5, SameContents
    DEF GetWait, GetRelock, GetCopy, Unlock, SpuriousWakeup
  <1>6. ASSUME NEW t \in Threads, GetCommit(t) PROVE Fifo!Next
    <2>1. /\ outcome[t] = Pending
          /\ outcome' = [outcome EXCEPT ![t] = Delivered(message[t])]
      BY <1>6 DEF GetCommit, PendingInv
    <2>2. Fifo!Get(t)
      BY <1>6, <2>1, GetCommitContents DEF Fifo!Get, Delivered, Fifo!Delivered
    <2>3. QED BY <2>2 DEF Fifo!Next
  <1>7. ASSUME NEW t \in Threads, PeekEmpty(t) PROVE Fifo!Next
    <2>1. /\ UNCHANGED ring
          /\ used_slots = 0
          /\ outcome[t] = Pending
          /\ outcome' = [outcome EXCEPT ![t] = Refused("EMPTY")]
      BY <1>7 DEF PeekEmpty, PendingInv, IInv, TypeOK
    <2>2. Contents = <<>>
      BY <2>1, ContentsSeq, EmptySeq
    <2>3. Fifo!PeekEmpty(t)
      BY <2>1, <2>2, SameContents DEF Fifo!PeekEmpty, Refused, Fifo!Refused
    <2>4. QED BY <2>3 DEF Fifo!Next
  <1>8. ASSUME NEW t \in Threads, PeekCopy(t) PROVE Fifo!Next
    <2>1. /\ UNCHANGED ring
          /\ used_slots > 0
          /\ outcome[t] = Pending
          /\ outcome' = [outcome EXCEPT ![t] = Delivered(queue_buffer[front_index])]
      BY <1>8 DEF PeekCopy, PendingInv
    <2>2. Contents # <<>> /\ Head(Contents) = queue_buffer[front_index]
      <3>1. 1 \in 1 .. used_slots /\ 1 - 1 = 0
        BY <2>1 DEF IInv, TypeOK
      <3>2. Contents[1] = queue_buffer[SlotAt(0)]
        BY <3>1, ContentsSeq
      <3>3. SlotAt(0) = front_index
        BY SlotAtZero DEF IInv, TypeOK
      <3>4. Contents # <<>>
        BY <2>1, ContentsSeq
      <3>5. QED BY <3>2, <3>3, <3>4, ContentsSeq
    <2>3. Fifo!Peek(t)
      BY <2>1, <2>2, SameContents DEF Fifo!Peek, Delivered, Fifo!Delivered
    <2>4. QED BY <2>3 DEF Fifo!Next
  <1>9. ASSUME NEW t \in Threads, GetCount(t) PROVE Fifo!Next
    <2>1. /\ UNCHANGED ring
          /\ outcome[t] = Pending
          /\ outcome' = [outcome EXCEPT ![t] = Counted(used_slots)]
      BY <1>9 DEF GetCount, PendingInv
    <2>2. Fifo!Count(t)
      BY <2>1, SameContents, ContentsSeq DEF Fifo!Count, Counted, Fifo!Counted
    <2>3. QED BY <2>2 DEF Fifo!Next
  <1>10. CASE UNCHANGED vars
    BY <1>10, SameContents DEF vars, ring
  <1>11. QED
    BY <1>1, <1>2, <1>3, <1>4, <1>5, <1>6, <1>7, <1>8, <1>9, <1>10
    DEF Next, Proceed

(* The ring buffer implements the bounded FIFO: calls are atomic, messages
   are delivered once and in the order they were accepted, a put is refused
   only when the queue is full. *)
THEOREM RingImplementsFifo == Spec => ImplementsFifo
  <1>1. QED
    BY InitImplements, NextImplements, InductiveInvariant, PendingInvariant, PTL
    DEF Spec, ImplementsFifo, Fifo!Spec
=============================================================================
