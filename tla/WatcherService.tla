--------------------------- MODULE WatcherService ---------------------------
(***************************************************************************)
(* What a network watcher promises its owner.  The owner starts one watch  *)
(* at a time on a file descriptor, may cancel it, and closes the watcher   *)
(* once; the watcher's thread answers every watch with one callback and    *)
(* ends with a last CLOSED callback.  network_watcher implements this      *)
(* (NetworkWatcher), chat_connection is built on it (ChatConnection).      *)
(***************************************************************************)
CONSTANT Modes   \* NETWORK_WATCHER_MODE_READ, NETWORK_WATCHER_MODE_WRITE

VARIABLES asked,    \* the modes of the unanswered watch, {} if there is none
          stop,     \* the owner has cancelled the unanswered watch
          service,  \* "INIT", "OPEN", "CLOSING" (close called) or "CLOSED"
          cback     \* the latest callback and its data

serviceVars == <<asked, stop, service, cback>>

WatchComplete(modes) == [type |-> "WATCH_COMPLETE", modes_ready |-> modes]
WatchCancelled       == [type |-> "WATCH_CANCELLED"]
WatchError           == [type |-> "WATCH_ERROR"]
WatcherClosed        == [type |-> "WATCHER_CLOSED"]
NoCallback           == [type |-> "NONE"]

Answers == {WatchComplete(modes) : modes \in SUBSET Modes}
             \union {WatchCancelled, WatchError}

Init == /\ asked = {}
        /\ stop = FALSE
        /\ service = "INIT"
        /\ cback = NoCallback

-----------------------------------------------------------------------------
(* The owner's calls. *)

Open == /\ service = "INIT"
        /\ service' = "OPEN"
        /\ UNCHANGED <<asked, stop, cback>>

Start(modes) == /\ service = "OPEN"
                /\ asked = {}
                /\ modes # {}
                /\ asked' = modes
                /\ UNCHANGED <<stop, service, cback>>

(* A cancel that finds no watch to cancel has no effect. *)
Cancel == /\ service = "OPEN"
          /\ stop' = (asked # {})
          /\ UNCHANGED <<asked, service, cback>>

Close == /\ service = "OPEN"
         /\ service' = "CLOSING"
         /\ stop' = (asked # {})
         /\ UNCHANGED <<asked, cback>>

-----------------------------------------------------------------------------
(* The callbacks of the watcher's thread. *)

Answer(data) == /\ asked # {}
                /\ asked' = {}
                /\ stop' = FALSE
                /\ cback' = data
                /\ UNCHANGED service

(* Modes the watch asked for are ready (none, after a hang-up).  The answer
   may come although a cancel is under way.  *)
Complete(ready) == ready \subseteq asked /\ Answer(WatchComplete(ready))

(* Only the owner's own cancel, of this very watch, cancels it. *)
Cancelled == stop /\ Answer(WatchCancelled)

Failed == Answer(WatchError)

(* The last callback: nothing asked is left without its answer. *)
Closed == /\ service = "CLOSING"
          /\ asked = {}
          /\ service' = "CLOSED"
          /\ cback' = WatcherClosed
          /\ UNCHANGED <<asked, stop>>

-----------------------------------------------------------------------------
Next == \/ Open \/ Cancel \/ Close
        \/ \E modes \in SUBSET Modes : Start(modes) \/ Complete(modes)
        \/ Cancelled \/ Failed \/ Closed

Spec == Init /\ [][Next]_serviceVars
=============================================================================
