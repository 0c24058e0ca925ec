---------------------------- MODULE BoundedFifo ----------------------------
(***************************************************************************)
(* What a MESSAGE_QUEUE promises the threads that share it: a FIFO of at   *)
(* most Capacity messages whose calls take effect at one instant.  A put   *)
(* never blocks and is refused when the FIFO is full; a get returns the    *)
(* oldest message and only ever completes when there is one; a peek sees   *)
(* the oldest message without taking it.                                   *)
(***************************************************************************)
EXTENDS Naturals, Sequences

CONSTANTS Threads,   \* the threads that call the queue
          Messages,  \* the messages they exchange
          Capacity   \* the number of messages the FIFO holds

VARIABLES fifo,      \* the messages put and not yet taken, oldest first
          outcome    \* per thread, the outcome of its latest call

fifoVars == <<fifo, outcome>>

(* The outcome of a call in progress, of a refused one, and of a success. *)
Pending          == [status |-> "PENDING"]
Refused(why)     == [status |-> why]
Accepted         == [status |-> "SUCCESS"]
Delivered(m)     == [status |-> "SUCCESS", message |-> m]
Counted(n)       == [status |-> "SUCCESS", count |-> n]

Report(t, o) == outcome' = [outcome EXCEPT ![t] = o]

Init == /\ fifo = <<>>
        /\ outcome = [t \in Threads |-> Accepted]

Begin(t) == Report(t, Pending) /\ UNCHANGED fifo

Put(t, m) == /\ outcome[t] = Pending
             /\ Len(fifo) < Capacity
             /\ fifo' = Append(fifo, m)
             /\ Report(t, Accepted)

PutRefused(t) == /\ outcome[t] = Pending
                 /\ Len(fifo) = Capacity
                 /\ Report(t, Refused("NO_SPACE"))
                 /\ UNCHANGED fifo

Get(t) == /\ outcome[t] = Pending
          /\ fifo # <<>>
          /\ fifo' = Tail(fifo)
          /\ Report(t, Delivered(Head(fifo)))

Peek(t) == /\ outcome[t] = Pending
           /\ fifo # <<>>
           /\ Report(t, Delivered(Head(fifo)))
           /\ UNCHANGED fifo

PeekEmpty(t) == /\ outcome[t] = Pending
                /\ fifo = <<>>
                /\ Report(t, Refused("EMPTY"))
                /\ UNCHANGED fifo

Count(t) == /\ outcome[t] = Pending
            /\ Report(t, Counted(Len(fifo)))
            /\ UNCHANGED fifo

Next == \E t \in Threads :
          \/ Begin(t)
          \/ \E m \in Messages : Put(t, m)
          \/ PutRefused(t)
          \/ Get(t)
          \/ Peek(t)
          \/ PeekEmpty(t)
          \/ Count(t)

Spec == Init /\ [][Next]_fifoVars
=============================================================================
