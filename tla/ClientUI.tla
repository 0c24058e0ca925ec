------------------------------ MODULE ClientUI ------------------------------
(***************************************************************************)
(* client/client_ui: the input thread reads keys and looks at the position *)
(* in the input line to decide whether a key counts; the interface's       *)
(* thread, behind a queue, writes the line and moves the position.  Nobody *)
(* locks it.  What ncurses draws is left out; client_ui_close is left out  *)
(* because main only calls it when chat_client closes by itself, which it  *)
(* never does (ChatClient).  The names that ChatClient has too, the other  *)
(* half of the client program, carry ui here: ClientProofs extends both.   *)
(***************************************************************************)
EXTENDS Integers, Sequences

CONSTANTS Chars,
          BUFFER_SIZE, \* sizeof(input_buffer)
          UI_QUEUE_SIZE,
          MaxKeys,     \* bound: the keys pressed
          MaxPosts,    \* bound: the events posted
          NUL

ASSUME BufferAssumption == BUFFER_SIZE \in Nat \ {0} /\ UI_QUEUE_SIZE \in Nat \ {0}
ASSUME KeysAssumption   == MaxKeys \in Nat /\ MaxPosts \in Nat
ASSUME NulAssumption    == NUL \notin Chars

VARIABLES ui_state,       \* CLIENT_UI_STATE_...
          input_thread,
          ui_queue,
          input_buffer, input_position,
          closed,         \* main has been told
          keys, posts,    \* how many there have been
          typed,          \* history: the line, as the user typed it
          sent,           \* history: the lines handed to main, each with what was typed
          erased,         \* history: the line has been shortened
          hurried,        \* history: a key came before the last one was handled
          ui_assertion    \* the assertion or the write that ended the program, or "none"

line     == <<input_buffer, input_position>>
ui_counters == <<keys, posts>>
history  == <<typed, sent, erased, hurried>>
ui_vars == <<ui_state, input_thread, ui_queue, line, closed, ui_counters, history,
             ui_assertion>>

Positions == 0 .. BUFFER_SIZE - 1
Empty     == [p \in Positions |-> NUL]

UIMessage(type, arg) == [type |-> type, arg |-> arg]

UIRunning == ui_assertion = "none"

(* message_queue_put, its status asserted *)
Put(message) ==
  IF Len(ui_queue) < UI_QUEUE_SIZE
  THEN ui_queue' = Append(ui_queue, message) /\ UNCHANGED ui_assertion
  ELSE ui_assertion' = "ui_queue" /\ UNCHANGED ui_queue

(* client_ui_open has succeeded. *)
UIInit ==
  /\ ui_state = "OPEN" /\ input_thread = "reading"
  /\ ui_queue = <<>>
  /\ input_buffer = Empty /\ input_position = 0
  /\ closed = FALSE
  /\ keys = 0 /\ posts = 0
  /\ typed = <<>> /\ sent = <<>> /\ erased = FALSE /\ hurried = FALSE
  /\ ui_assertion = "none"

-----------------------------------------------------------------------------
(* The input thread.  The position is compared as an unsigned number with the
   size of the buffer, as an int with 0.  *)

(* Mutant: no room is kept for the end of the string. *)
HasRoomForAll == input_position \in 0 .. BUFFER_SIZE - 1

HasRoom == input_position \in 0 .. BUFFER_SIZE - 2
HasText == input_position > 0

Unhandled == \E i \in DOMAIN ui_queue : ui_queue[i].type # "POST_EVENT"

Key ==
  /\ UIRunning /\ input_thread = "reading" /\ keys < MaxKeys
  /\ keys' = keys + 1
  /\ hurried' = (hurried \/ Unhandled)

InputChar(char) ==
  /\ Key /\ HasRoom
  /\ Put(UIMessage("INPUT_CHAR", char))
  /\ typed' = Append(typed, char)
  /\ UNCHANGED <<ui_state, input_thread, line, closed, posts, sent, erased>>

InputBackspace ==
  /\ Key /\ HasText
  /\ Put(UIMessage("INPUT_BACKSPACE", NUL))
  /\ typed' = IF typed = <<>> THEN typed ELSE SubSeq(typed, 1, Len(typed) - 1)
  /\ erased' = TRUE
  /\ UNCHANGED <<ui_state, input_thread, line, closed, posts, sent>>

InputSend ==
  /\ Key /\ HasText
  /\ Put(UIMessage("INPUT_SEND", [typed |-> typed, erased |-> erased]))
  /\ typed' = <<>> /\ erased' = FALSE
  /\ UNCHANGED <<ui_state, input_thread, line, closed, posts, sent>>

(* A key that does not count: the line is full or empty *)
InputRefused ==
  /\ Key /\ (~HasRoom \/ ~HasText)
  /\ UNCHANGED <<ui_state, input_thread, ui_queue, line, closed, posts, typed, sent, erased,
                 ui_assertion>>

(* ctrl-c, or a kill mode that cannot be set *)
InputThreadCloses ==
  /\ UIRunning /\ input_thread = "reading"
  /\ input_thread' = "over"
  /\ Put(UIMessage("INPUT_THREAD_CLOSED", NUL))
  /\ UNCHANGED <<ui_state, line, closed, ui_counters, history>>

-----------------------------------------------------------------------------
(* client_ui_post_event, asserted by main, which may be about to hear that the
   interface is closed  *)
PostEvent ==
  /\ UIRunning /\ posts < MaxPosts /\ ~closed
  /\ posts' = posts + 1
  /\ Put(UIMessage("POST_EVENT", NUL))
  /\ UNCHANGED <<ui_state, input_thread, line, closed, keys, history>>

(* The interface's thread *)
UIReceived(type) ==
  /\ UIRunning /\ ui_state = "OPEN"
  /\ ui_queue # <<>> /\ Head(ui_queue).type = type
  /\ ui_queue' = Tail(ui_queue)

Post ==
  /\ UIReceived("POST_EVENT")
  /\ UNCHANGED <<ui_state, input_thread, line, closed, ui_counters, history, ui_assertion>>

(* A write into the buffer, and where it leaves the position; one outside the
   buffer goes into what is kept beside it.  *)
Write(char, move) ==
  IF input_position \in Positions
  THEN /\ input_buffer' = [input_buffer EXCEPT ![input_position] = char]
       /\ input_position' = input_position + move
       /\ UNCHANGED ui_assertion
  ELSE ui_assertion' = "out_of_bounds" /\ UNCHANGED line

Char ==
  /\ UIReceived("INPUT_CHAR")
  /\ Write(Head(ui_queue).arg, 1)
  /\ UNCHANGED <<ui_state, input_thread, closed, ui_counters, history>>

(* The end of the string is written behind the last character, which stays. *)
Backspace ==
  /\ UIReceived("INPUT_BACKSPACE")
  /\ Write(NUL, -1)
  /\ UNCHANGED <<ui_state, input_thread, closed, ui_counters, history>>

(* print_string_to_buffer: the text up to its end *)
Text(buffer) ==
  LET n == CHOOSE p \in 0 .. BUFFER_SIZE :
             /\ p = BUFFER_SIZE \/ buffer[p] = NUL
             /\ \A q \in 0 .. p - 1 : buffer[q] # NUL
  IN  [i \in 1 .. n |-> buffer[i - 1]]

SendLine ==
  /\ UIReceived("INPUT_SEND")
  /\ sent' = Append(sent, [text |-> Text(input_buffer), line |-> Head(ui_queue).arg])
  /\ input_buffer' = Empty
  /\ input_position' = 0
  /\ UNCHANGED <<ui_state, input_thread, closed, ui_counters, typed, erased, hurried,
                 ui_assertion>>

ThreadClosed ==
  /\ UIReceived("INPUT_THREAD_CLOSED")
  /\ ui_state' = "CLOSED"
  /\ UNCHANGED <<input_thread, line, closed, ui_counters, history, ui_assertion>>

UIReports ==
  /\ UIRunning /\ ui_state = "CLOSED" /\ ~closed
  /\ closed' = TRUE
  /\ UNCHANGED <<ui_state, input_thread, ui_queue, line, ui_counters, history, ui_assertion>>

-----------------------------------------------------------------------------
InputThread == \/ (\E char \in Chars : InputChar(char))
               \/ InputBackspace \/ InputSend \/ InputRefused \/ InputThreadCloses

UIThread == Post \/ Char \/ Backspace \/ SendLine \/ ThreadClosed \/ UIReports

UINext == InputThread \/ PostEvent \/ UIThread

UISpec == UIInit /\ [][UINext]_ui_vars

-----------------------------------------------------------------------------
(* The line is what was typed, though one thread decides by a position the other
   moves: nothing is written beside the buffer, while the program runs the buffer
   holds the typed characters and an end behind them, and what is handed to main
   begins with them, and is nothing else if no key was erased.  This needs a user
   who types no key before the last one was handled; and a character that was
   erased is still sent, until another takes its place.  *)
Begins(text, start) == Len(start) <= Len(text) /\ SubSeq(text, 1, Len(start)) = start

LineIsTyped ==
  ~hurried =>
    /\ ui_assertion # "out_of_bounds"
    /\ UIRunning /\ ~Unhandled =>
         /\ input_position = Len(typed) /\ input_position \in Positions
         /\ Begins(Text(input_buffer), typed)
         /\ ~erased => Text(input_buffer) = typed
    /\ \A i \in DOMAIN sent : /\ Begins(sent[i].text, sent[i].line.typed)
                              /\ ~sent[i].line.erased => sent[i].text = sent[i].line.typed
=============================================================================
