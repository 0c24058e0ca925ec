---------------------------- MODULE MessageQueue ----------------------------
(***************************************************************************)
(* common/message_queue: the bounded ring buffer, its mutex and condition  *)
(* variable, through which every component of the program is called.       *)
(*                                                                         *)
(* Every thread may call put, get, peek and get_count.  A call is one      *)
(* critical section of queue_mutex, taken apart into the steps another     *)
(* thread could see if the mutex did not exclude it: lock and check, copy  *)
(* the slot, move the indices, unlock.  A get that finds the ring empty    *)
(* releases the mutex in pthread_cond_wait, which POSIX lets return        *)
(* without a signal.  The size arguments, and STATUS_INVALID_ARG for a     *)
(* wrong one, are left out: every caller in the program passes the size    *)
(* the queue was created with.                                             *)
(***************************************************************************)
EXTENDS Naturals, Sequences, FiniteSets

CONSTANTS Producers,   \* the threads that put
          Consumers,   \* the threads that get and peek
          Messages,    \* the messages they put
          QUEUE_SIZE,  \* the number of slots of the ring
          MaxCalls,    \* bound: the calls all threads make
          NoThread,    \* queue_mutex is free
          NoMessage    \* a slot after the memset of message_queue_create

Threads == Producers \union Consumers

ASSUME ThreadAssumption  == NoThread \notin Threads
ASSUME MessageAssumption == NoMessage \notin Messages
ASSUME SizeAssumption    == QUEUE_SIZE \in Nat \ {0}
ASSUME FiniteAssumption  == IsFiniteSet(Producers) /\ IsFiniteSet(Consumers)
ASSUME CallsAssumption   == MaxCalls \in Nat

VARIABLES queue_buffer,  \* the slots, 0 .. QUEUE_SIZE - 1
          front_index,   \* the slot of the oldest message
          used_slots,    \* the number of slots in use
          queue_mutex,   \* the thread that holds the mutex, or NoThread
          waiters,       \* the threads blocked on queue_cond_var
          pc,            \* per thread, the next step of its call
          message,       \* per thread, its message argument or out buffer
          outcome,       \* per thread, what its latest call returned
          calls          \* the calls begun so far (a bound)

ring == <<queue_buffer, front_index, used_slots>>
vars == <<queue_buffer, front_index, used_slots, queue_mutex, waiters, pc,
          message, outcome, calls>>

Slots   == 0 .. QUEUE_SIZE - 1
Slot    == Messages \union {NoMessage}
Putting == {"put_copy", "put_commit"}
Getting == {"get_check", "get_commit"}
(* The steps at which a thread holds queue_mutex. *)
Locked  == {"peek", "count", "unlock"} \union Putting \union Getting
Steps   == {"idle", "get_wake"} \union Locked

Pending      == [status |-> "PENDING"]
Refused(why) == [status |-> why]
Accepted     == [status |-> "SUCCESS"]
Delivered(m) == [status |-> "SUCCESS", message |-> m]
Counted(n)   == [status |-> "SUCCESS", count |-> n]

Outcomes == {Pending, Accepted, Refused("NO_SPACE"), Refused("EMPTY")}
              \union {Delivered(m) : m \in Messages}
              \union {Counted(n) : n \in 0 .. QUEUE_SIZE}

(* The slot that holds message number i, counting from 0 at the front. *)
SlotAt(i) == (front_index + i) % QUEUE_SIZE

-----------------------------------------------------------------------------
(* Control flow of one thread. *)

Goto(t, from, to) == /\ pc[t] = from
                     /\ pc' = [pc EXCEPT ![t] = to]

Return(t, o) == outcome' = [outcome EXCEPT ![t] = o]

(* A thread enters a call and takes queue_mutex; `to` is its first step.   *)
Enter(t, to) ==
  /\ calls < MaxCalls
  /\ calls' = calls + 1
  /\ Goto(t, "idle", to)
  /\ queue_mutex = NoThread
  /\ queue_mutex' = t
  /\ Return(t, Pending)
  /\ UNCHANGED <<ring, waiters>>

Unlock(t) ==
  /\ Goto(t, "unlock", "idle")
  /\ queue_mutex' = NoThread
  /\ UNCHANGED <<ring, waiters, message, outcome, calls>>

-----------------------------------------------------------------------------
(* message_queue_put: never blocks. *)

PutBegin(t, m) ==
  /\ t \in Producers
  /\ Enter(t, "put_copy")
  /\ message' = [message EXCEPT ![t] = m]

PutFull(t) ==
  /\ used_slots >= QUEUE_SIZE
  /\ Goto(t, "put_copy", "unlock")
  /\ Return(t, Refused("NO_SPACE"))
  /\ UNCHANGED <<ring, queue_mutex, waiters, message, calls>>

(* Mutant: the put forgets that the ring may be full. *)
PutCopyUnguarded(t) ==
  /\ Goto(t, "put_copy", "put_commit")
  /\ queue_buffer' = [queue_buffer EXCEPT ![SlotAt(used_slots)] = message[t]]
  /\ UNCHANGED <<front_index, used_slots, queue_mutex, waiters, message,
                 outcome, calls>>

(* Mutant: the slot index is not counted from front_index. *)
PutCopyFromZero(t) ==
  /\ used_slots < QUEUE_SIZE
  /\ Goto(t, "put_copy", "put_commit")
  /\ queue_buffer' = [queue_buffer EXCEPT ![used_slots] = message[t]]
  /\ UNCHANGED <<front_index, used_slots, queue_mutex, waiters, message,
                 outcome, calls>>

PutCopy(t) ==
  /\ used_slots < QUEUE_SIZE
  /\ Goto(t, "put_copy", "put_commit")
  /\ queue_buffer' = [queue_buffer EXCEPT ![SlotAt(used_slots)] = message[t]]
  /\ UNCHANGED <<front_index, used_slots, queue_mutex, waiters, message,
                 outcome, calls>>

(* Mutants: signal only the put that makes the ring non-empty; never signal. *)
SignalIfWasEmpty ==
  IF waiters = {} \/ used_slots > 0
  THEN UNCHANGED waiters
  ELSE \E w \in waiters : waiters' = waiters \ {w}
SignalNobody == UNCHANGED waiters

(* pthread_cond_signal wakes one waiter, if there is one. *)
Signal ==
  IF waiters = {} THEN UNCHANGED waiters
                  ELSE \E w \in waiters : waiters' = waiters \ {w}

PutCommit(t) ==
  /\ Goto(t, "put_commit", "unlock")
  /\ used_slots' = used_slots + 1
  /\ Signal
  /\ Return(t, Accepted)
  /\ UNCHANGED <<queue_buffer, front_index, queue_mutex, message, calls>>

-----------------------------------------------------------------------------
(* message_queue_get: blocks while the ring is empty. *)

GetBegin(t) ==
  /\ t \in Consumers
  /\ Enter(t, "get_check")
  /\ UNCHANGED message

(* pthread_cond_wait: release the mutex and sleep, in one step. *)
GetWait(t) ==
  /\ used_slots < 1
  /\ Goto(t, "get_check", "get_wake")
  /\ waiters' = waiters \union {t}
  /\ queue_mutex' = NoThread
  /\ UNCHANGED <<ring, message, outcome, calls>>

SpuriousWakeup(t) ==
  /\ t \in waiters
  /\ waiters' = waiters \ {t}
  /\ UNCHANGED <<ring, queue_mutex, pc, message, outcome, calls>>

(* A woken thread takes the mutex back and tests used_slots again. *)
GetRelock(t) ==
  /\ t \notin waiters
  /\ Goto(t, "get_wake", "get_check")
  /\ queue_mutex = NoThread
  /\ queue_mutex' = t
  /\ UNCHANGED <<ring, waiters, message, outcome, calls>>

GetCopy(t) ==
  /\ used_slots >= 1
  /\ Goto(t, "get_check", "get_commit")
  /\ message' = [message EXCEPT ![t] = queue_buffer[front_index]]
  /\ UNCHANGED <<ring, queue_mutex, waiters, outcome, calls>>

GetCommit(t) ==
  /\ Goto(t, "get_commit", "unlock")
  /\ used_slots' = used_slots - 1
  /\ front_index' = SlotAt(1)
  /\ Return(t, Delivered(message[t]))
  /\ UNCHANGED <<queue_buffer, queue_mutex, waiters, message, calls>>

-----------------------------------------------------------------------------
(* message_queue_peek and message_queue_get_count: never block. *)

PeekBegin(t) ==
  /\ t \in Consumers
  /\ Enter(t, "peek")
  /\ UNCHANGED message

PeekEmpty(t) ==
  /\ used_slots <= 0
  /\ Goto(t, "peek", "unlock")
  /\ Return(t, Refused("EMPTY"))
  /\ UNCHANGED <<ring, queue_mutex, waiters, message, calls>>

PeekCopy(t) ==
  /\ used_slots > 0
  /\ Goto(t, "peek", "unlock")
  /\ message' = [message EXCEPT ![t] = queue_buffer[front_index]]
  /\ Return(t, Delivered(queue_buffer[front_index]))
  /\ UNCHANGED <<ring, queue_mutex, waiters, calls>>

CountBegin(t) ==
  /\ Enter(t, "count")
  /\ UNCHANGED message

GetCount(t) ==
  /\ Goto(t, "count", "unlock")
  /\ Return(t, Counted(used_slots))
  /\ UNCHANGED <<ring, queue_mutex, waiters, message, calls>>

-----------------------------------------------------------------------------
(* message_queue_create: zeroed slots, an empty ring, a free mutex. *)
Init ==
  /\ queue_buffer = [i \in Slots |-> NoMessage]
  /\ front_index = 0
  /\ used_slots = 0
  /\ queue_mutex = NoThread
  /\ waiters = {}
  /\ pc = [t \in Threads |-> "idle"]
  /\ message = [t \in Threads |-> NoMessage]
  /\ outcome = [t \in Threads |-> Accepted]
  /\ calls = 0

(* The calls a thread decides to make. *)
Call(t) == \/ \E m \in Messages : PutBegin(t, m)
           \/ GetBegin(t)
           \/ PeekBegin(t)
           \/ CountBegin(t)

(* The steps of a call in progress. *)
Proceed(t) == \/ PutFull(t) \/ PutCopy(t) \/ PutCommit(t)
              \/ GetWait(t) \/ GetRelock(t) \/ GetCopy(t) \/ GetCommit(t)
              \/ PeekEmpty(t) \/ PeekCopy(t)
              \/ GetCount(t)
              \/ Unlock(t)

Next == \E t \in Threads : Call(t) \/ Proceed(t) \/ SpuriousWakeup(t)

Spec == Init /\ [][Next]_vars

(* The scheduler runs every thread that can run: a call once begun goes on.
   Nothing is assumed of callers, nor of spurious wakeups.  *)
FairSpec == Spec /\ \A t \in Threads : WF_vars(Proceed(t))

-----------------------------------------------------------------------------
(* Type correctness.  front_index and used_slots never leave the ring: an
   unguarded put or get would push used_slots past QUEUE_SIZE or below 0. *)
TypeOK ==
  /\ queue_buffer \in [Slots -> Slot]
  /\ front_index \in Slots
  /\ used_slots \in 0 .. QUEUE_SIZE
  /\ queue_mutex \in Threads \union {NoThread}
  /\ waiters \subseteq Threads
  /\ pc \in [Threads -> Steps]
  /\ message \in [Threads -> Slot]
  /\ outcome \in [Threads -> Outcomes]
  /\ calls \in 0 .. MaxCalls

(* A thread is inside a get, and will look at the ring before it sleeps. *)
Awake(t) == pc[t] \in Getting \/ (pc[t] = "get_wake" /\ t \notin waiters)

(* No wakeup is lost.  put signals the condition variable once per message,
   and a get may take a message that was signalled to another thread: while
   some thread sleeps in get, every queued message still has an awake getter
   of its own (message_queue.c: the signal at 97, the loop at 187-192). *)
NoLostWakeup ==
  waiters # {} => used_slots <= Cardinality({t \in Threads : Awake(t)})

(***************************************************************************)
(* The inductive invariant behind the three safety properties.             *)
(***************************************************************************)

(* queue_mutex excludes: exactly its holder is inside a critical section. *)
MutexInv == \A t \in Threads : (pc[t] \in Locked) <=> (queue_mutex = t)

(* Only a thread inside pthread_cond_wait is on the condition variable. *)
WaitersInv == \A t \in waiters : pc[t] = "get_wake"

(* What a put has established when it is about to move used_slots. *)
PutInv ==
  \A t \in Threads :
    /\ pc[t] \in Putting => message[t] \in Messages
    /\ pc[t] = "put_commit" => /\ used_slots < QUEUE_SIZE
                               /\ queue_buffer[SlotAt(used_slots)] = message[t]

(* What a get has established when it is about to give up the front slot. *)
GetInv ==
  \A t \in Threads :
    pc[t] = "get_commit" => /\ used_slots > 0
                            /\ message[t] = queue_buffer[front_index]

(* Every slot in use was written by a put. *)
FilledInv == \A i \in 0 .. used_slots - 1 : queue_buffer[SlotAt(i)] \in Messages

IInv == TypeOK /\ MutexInv /\ WaitersInv /\ PutInv /\ GetInv /\ FilledInv

(***************************************************************************)
(* The queue as a FIFO, and what a sleeping getter may count on.           *)
(***************************************************************************)

(* The contents of the ring, oldest first: what the queue holds as a FIFO. *)
Contents == [i \in 1 .. used_slots |-> queue_buffer[SlotAt(i - 1)]]

Fifo == INSTANCE BoundedFifo
          WITH Capacity <- QUEUE_SIZE, fifo <- Contents

(* The ring implements the bounded FIFO: whatever the interleaving, each call
   takes effect at one instant, messages come out in the order they went in,
   none is lost, duplicated or read from a slot that was never written. *)
ImplementsFifo == Fifo!Spec

(* A message put while threads sleep in get is delivered or wakes the last of
   them: it never lies in the ring with a thread left asleep for good. *)
MessageWakesGetter ==
  (used_slots > 0 /\ waiters # {}) ~> (used_slots = 0 \/ waiters = {})
=============================================================================
