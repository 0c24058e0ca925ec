---------------------------- MODULE ClientProofs -----------------------------
(***************************************************************************)
(* Proofs about the client program.  First the input line (ClientUI), for  *)
(* any characters, any sizes of the buffer and the queue, and any numbers  *)
(* of keys and events; then the login (ChatClient), for any sizes of the   *)
(* two queues and any numbers of lines and of events of others.            *)
(***************************************************************************)
EXTENDS ChatClient, ClientUI, SequenceTheorems, TLAPS

-----------------------------------------------------------------------------
(* The inductive invariant. *)

TypedLine == [typed : Seq(Chars), erased : BOOLEAN]

Messages ==
  [type : {"INPUT_CHAR"}, arg : Chars] \union [type : {"INPUT_SEND"}, arg : TypedLine]
    \union [type : {"INPUT_BACKSPACE", "INPUT_THREAD_CLOSED", "POST_EVENT"}, arg : {NUL}]

Buffers == [Positions -> Chars \union {NUL}]
Sent    == [text : {Text(buffer) : buffer \in Buffers}, line : TypedLine]

UITypes ==
  /\ ui_queue \in Seq(Messages)
  /\ input_buffer \in Buffers /\ input_position \in Int
  /\ typed \in Seq(Chars) /\ sent \in Seq(Sent)
  /\ erased \in BOOLEAN /\ hurried \in BOOLEAN

(* The buffer holds a text and nothing behind it, but for one character that was
   erased. *)
Holds(buffer, position, text, shortened) ==
  /\ position = Len(text) /\ position \in Positions
  /\ \A p \in Positions :
       /\ p < position => buffer[p] = text[p + 1]
       /\ p > position \/ (p = position /\ ~shortened) => buffer[p] = NUL

(* The keys that are not handled yet. *)
KeyTypes == {"INPUT_CHAR", "INPUT_BACKSPACE", "INPUT_SEND"}
Keys     == {i \in DOMAIN ui_queue : ui_queue[i].type \in KeyTypes}

(* What is left to do for a key: the buffer holds what was typed before it. *)
LeftToDo(message, buffer, position, text, shortened) ==
  \/ /\ message.type = "INPUT_CHAR"
     /\ \E before \in Seq(Chars) :
          /\ text = Append(before, message.arg) /\ Len(text) \in Positions
          /\ Holds(buffer, position, before, shortened)
  \/ /\ message.type = "INPUT_BACKSPACE" /\ shortened
     /\ \E char \in Chars, before \in BOOLEAN :
          Holds(buffer, position, Append(text, char), before)
  \/ /\ message.type = "INPUT_SEND" /\ text = <<>> /\ ~shortened
     /\ Holds(buffer, position, message.arg.typed, message.arg.erased)

Left(message) == LeftToDo(message, input_buffer, input_position, typed, erased)

(* A user who waits has at most one key to wait for. *)
LineInv ==
  /\ \A i, j \in Keys : i = j
  /\ ui_assertion # "out_of_bounds"
  /\ UIRunning /\ Keys = {} => Holds(input_buffer, input_position, typed, erased)
  /\ UIRunning => \A i \in Keys : Left(ui_queue[i])

(* A text that was sent, and the line it was sent for *)
IsLine(text, line_) ==
  Begins(text, line_.typed) /\ (~line_.erased => text = line_.typed)

SentInv == \A i \in DOMAIN sent : IsLine(sent[i].text, sent[i].line)

UIInv == UITypes /\ (~hurried => LineInv /\ SentInv)

-----------------------------------------------------------------------------
(* The buffer. *)

(* A character takes the place of the end, and of one that was erased. *)
LEMMA AfterChar ==
  ASSUME NEW b \in Buffers, NEW text \in Seq(Chars), NEW char \in Chars,
         NEW position, NEW shortened \in BOOLEAN,
         Holds(b, position, text, shortened), Len(Append(text, char)) \in Positions
  PROVE  /\ position \in Positions
         /\ Holds([b EXCEPT ![position] = char], position + 1, Append(text, char), shortened)
  <1> DEFINE longer == Append(text, char)
  <1>1. /\ longer \in Seq(Chars) /\ Len(longer) = Len(text) + 1
        /\ \A i \in 1 .. Len(text) : longer[i] = text[i]
        /\ longer[Len(text) + 1] = char /\ Len(text) \in Nat
    BY AppendProperties, LenProperties
  <1> HIDE DEF longer
  <1>2. /\ position = Len(text) /\ position \in Nat /\ position + 1 \in Positions
        /\ position + 1 = Len(longer) /\ position \in Positions
    BY <1>1 DEF Holds, longer
  <1>3. ASSUME NEW p \in Positions
        PROVE  /\ p < position + 1 => [b EXCEPT ![position] = char][p] = longer[p + 1]
               /\ p >= position + 1 => [b EXCEPT ![position] = char][p] = NUL
    <2>1. p \in Nat
      BY DEF Positions
    <2>2. CASE p < position
      <3>1. p + 1 \in 1 .. Len(text)
        BY <1>2, <2>1, <2>2
      <3>2. [b EXCEPT ![position] = char][p] = b[p] /\ b[p] = text[p + 1]
        BY <1>2, <2>1, <2>2 DEF Holds, Buffers
      <3>3. QED BY <1>1, <1>2, <2>1, <2>2, <3>1, <3>2
    <2>3. CASE p = position
      BY <1>1, <1>2, <2>3 DEF Buffers
    <2>4. CASE p > position
      BY <1>2, <2>1, <2>4 DEF Holds, Buffers
    <2>5. QED BY <1>2, <2>1, <2>2, <2>3, <2>4
  <1>4. \A p \in Positions : p > position + 1 \/ p = position + 1 => p >= position + 1
    BY <1>2 DEF Positions
  <1>5. QED BY <1>2, <1>3, <1>4 DEF Holds, longer

(* The end is written behind the character that goes, which stays. *)
LEMMA AfterBackspace ==
  ASSUME NEW b \in Buffers, NEW text \in Seq(Chars), NEW char \in Chars,
         NEW position, NEW shortened \in BOOLEAN,
         Holds(b, position, Append(text, char), shortened)
  PROVE  /\ position \in Positions
         /\ Holds([b EXCEPT ![position] = NUL], position + -1, text, TRUE)
  <1> DEFINE longer == Append(text, char)
  <1>1. /\ longer \in Seq(Chars) /\ Len(longer) = Len(text) + 1
        /\ \A i \in 1 .. Len(text) : longer[i] = text[i] /\ Len(text) \in Nat
    BY AppendProperties, LenProperties
  <1>2. Len(text) \in Nat
    BY LenProperties
  <1> HIDE DEF longer
  <1>3. /\ position \in Positions /\ position = Len(longer) /\ position \in Nat
        /\ position + -1 = Len(text) /\ position + -1 \in Positions
    BY <1>1, <1>2, BufferAssumption DEF Holds, longer, Positions
  <1>4. ASSUME NEW p \in Positions
        PROVE  /\ p < position + -1 => [b EXCEPT ![position] = NUL][p] = text[p + 1]
               /\ p > position + -1 => [b EXCEPT ![position] = NUL][p] = NUL
    <2>1. p \in Nat
      BY DEF Positions
    <2>2. CASE p < position + -1
      <3>1. p + 1 \in 1 .. Len(text) /\ p < position
        BY <1>3, <2>1, <2>2
      <3>2. [b EXCEPT ![position] = NUL][p] = b[p] /\ b[p] = longer[p + 1]
        BY <1>3, <2>1, <3>1 DEF Holds, Buffers, longer
      <3>3. QED BY <1>1, <1>3, <2>1, <2>2, <3>1, <3>2
    <2>3. CASE p = position
      BY <1>3, <2>3 DEF Buffers
    <2>4. CASE p > position
      BY <1>3, <2>1, <2>4 DEF Holds, Buffers
    <2>5. QED BY <1>3, <2>1, <2>2, <2>3, <2>4
  <1>5. QED BY <1>3, <1>4 DEF Holds

LEMMA EmptyLine == Empty \in Buffers /\ 0 \in Positions /\ Holds(Empty, 0, <<>>, FALSE)
  BY BufferAssumption DEF Empty, Buffers, Holds, Positions

(* The text of a buffer begins with the line it holds, and is that line if no
   character was erased. *)
LEMMA TextOfLine ==
  ASSUME NEW b \in Buffers, NEW text \in Seq(Chars), NEW position,
         NEW shortened \in BOOLEAN, Holds(b, position, text, shortened)
  PROVE  IsLine(Text(b), [typed |-> text, erased |-> shortened])
  <1> DEFINE n == IF b[position] = NUL THEN position ELSE position + 1
             Ends(p) == /\ p = BUFFER_SIZE \/ b[p] = NUL
                        /\ \A q \in 0 .. p - 1 : b[q] # NUL
             read == [i \in 1 .. n |-> b[i - 1]]
  <1>1. /\ position = Len(text) /\ position \in Nat /\ BUFFER_SIZE \in Nat
        /\ Positions = 0 .. BUFFER_SIZE - 1 /\ position \in Positions
    BY LenProperties, BufferAssumption DEF Holds, Positions
  <1>2. n \in 0 .. BUFFER_SIZE /\ n \in {position, position + 1}
    BY <1>1
  <1>3. \A p \in Positions : p < position => b[p] = text[p + 1] /\ b[p] \in Chars
    BY <1>1, ElementOfSeq DEF Holds
  <1>4. \A q \in 0 .. n - 1 : q \in Positions /\ b[q] # NUL /\ b[q] \in Chars
    <2>1. SUFFICES ASSUME NEW q \in 0 .. n - 1
                   PROVE  q \in Positions /\ b[q] # NUL /\ b[q] \in Chars
      OBVIOUS
    <2>2. q \in Positions /\ (q < position \/ (q = position /\ b[position] # NUL))
      BY <1>1, <1>2
    <2>3. b[q] \in Chars \union {NUL}
      BY <2>2 DEF Buffers
    <2>4. QED BY <1>3, <2>2, <2>3, NulAssumption
  <1>5. n = BUFFER_SIZE \/ b[n] = NUL
    BY <1>1, <1>2 DEF Holds
  <1> HIDE DEF n
  <1>6. Ends(n)
    BY <1>4, <1>5
  <1>7. ASSUME NEW p \in 0 .. BUFFER_SIZE, Ends(p) PROVE p = n
    <2>1. ~(p < n)
      BY <1>1, <1>2, <1>4, <1>7
    <2>2. ~(n < p)
      BY <1>1, <1>2, <1>5, <1>7
    <2>3. QED BY <1>1, <1>2, <2>1, <2>2
  <1>8. (CHOOSE p \in 0 .. BUFFER_SIZE : Ends(p)) = n
    BY <1>2, <1>6, <1>7
  <1>9. Text(b) = read
    BY <1>8 DEF Text
  <1>10. \A i \in 1 .. n : i - 1 \in 0 .. n - 1
    BY <1>1, <1>2
  <1>11. /\ read \in Seq(Chars) /\ Len(read) = n
         /\ \A i \in 1 .. n : read[i] = b[i - 1]
    BY <1>1, <1>2, <1>4, <1>10
  <1>12. \A i \in 1 .. Len(text) : read[i] = text[i]
    <2>1. SUFFICES ASSUME NEW i \in 1 .. Len(text) PROVE read[i] = text[i]
      OBVIOUS
    <2>2. /\ i \in 1 .. n /\ i - 1 \in Positions /\ i - 1 < position
          /\ (i - 1) + 1 = i
      BY <1>1, <1>2
    <2>3. read[i] = b[i - 1] /\ b[i - 1] = text[(i - 1) + 1]
      BY <1>3, <1>11, <2>2
    <2>4. QED BY <2>2, <2>3
  <1> HIDE DEF read
  <1>13. Begins(read, text)
    <2> DEFINE part == SubSeq(read, 1, Len(text))
    <2>1. \A i \in 1 .. Len(text) : read[i] \in Chars
      BY <1>12, ElementOfSeq
    <2>2. /\ part \in Seq(Chars) /\ Len(part) = Len(text)
          /\ \A i \in 1 .. Len(text) : part[i] = read[i]
      BY <1>1, <2>1, SubSeqProperties
    <2> HIDE DEF part
    <2>3. part = text
      BY <1>12, <2>2, SeqEqual
    <2>4. QED BY <1>1, <1>2, <1>11, <2>3 DEF Begins, part
  <1>14. ASSUME ~shortened PROVE read = text
    <2>1. b[position] = NUL /\ n = position
      BY <1>1, <1>14 DEF Holds, n
    <2>2. Len(read) = Len(text)
      BY <1>1, <1>11, <2>1
    <2>3. \A i \in 1 .. Len(read) : i \in 1 .. Len(text)
      BY <2>2
    <2>4. \A i \in 1 .. Len(read) : read[i] = text[i]
      BY <1>12, <2>3
    <2>5. QED BY <1>11, <2>2, <2>4, SeqEqual
  <1>15. QED BY <1>9, <1>13, <1>14 DEF IsLine

(* A text is its beginning and its last character. *)
LEMMA ShorterText ==
  ASSUME NEW text \in Seq(Chars), text # <<>>
  PROVE  LET left == SubSeq(text, 1, Len(text) - 1) IN
         /\ left \in Seq(Chars) /\ text[Len(text)] \in Chars
         /\ text = Append(left, text[Len(text)])
  <1> DEFINE n    == Len(text) - 1
             left == SubSeq(text, 1, n)
             c    == text[Len(text)]
  <1>1. n \in Nat /\ Len(text) = n + 1
    <2>1. Len(text) \in Nat \ {0}
      BY EmptySeq
    <2>2. QED BY <2>1
  <1> HIDE DEF n, left, c
  <1>2. c \in Chars /\ \A i \in 1 .. n : text[i] \in Chars
    BY <1>1, ElementOfSeq DEF c
  <1>3. left \in Seq(Chars) /\ Len(left) = n /\ \A i \in 1 .. n : left[i] = text[i]
    <2>1. /\ left \in Seq(Chars) /\ Len(left) = IF 1 <= n THEN n - 1 + 1 ELSE 0
          /\ \A i \in 1 .. n - 1 + 1 : left[i] = text[1 + i - 1]
      BY <1>1, <1>2, SubSeqProperties DEF left
    <2>2. Len(left) = n
      BY <1>1, <2>1
    <2>3. \A i \in 1 .. n : i \in 1 .. n - 1 + 1 /\ 1 + i - 1 = i
      BY <1>1
    <2>4. QED BY <2>1, <2>2, <2>3
  <1>4. /\ Append(left, c) \in Seq(Chars) /\ Len(Append(left, c)) = n + 1
        /\ \A i \in 1 .. n : Append(left, c)[i] = left[i]
        /\ Append(left, c)[n + 1] = c
    BY <1>2, <1>3, AppendProperties
  <1>5. \A i \in 1 .. n + 1 : Append(left, c)[i] = text[i]
    BY <1>1, <1>3, <1>4 DEF c
  <1>6. Append(left, c) = text
    BY <1>1, <1>4, <1>5, SeqEqual
  <1>7. QED BY <1>2, <1>3, <1>6 DEF n, left, c

-----------------------------------------------------------------------------
(* The queue. *)

IsKey(message) == message.type \in KeyTypes

(* Taking a message moves the others up by one. *)
LEMMA TakeFacts ==
  ASSUME UITypes, ui_queue # <<>>, ui_queue' = Tail(ui_queue)
  PROVE  /\ ui_queue' \in Seq(Messages)
         /\ Head(ui_queue) \in Messages
         /\ \A i \in Keys' : i + 1 \in Keys /\ i \in Nat \ {0}
                             /\ ui_queue'[i] = ui_queue[i + 1]
         /\ IsKey(Head(ui_queue)) => 1 \in Keys
         /\ ~IsKey(Head(ui_queue)) => (Keys' = {} => Keys = {})
         /\ ui_queue[1] = Head(ui_queue)
  <1>1. /\ ui_queue' \in Seq(Messages)
        /\ Head(ui_queue) \in Messages
        /\ Head(ui_queue) = ui_queue[1]
        /\ Len(ui_queue) \in Nat \ {0}
        /\ Len(ui_queue') = Len(ui_queue) - 1
        /\ \A i \in 1 .. Len(ui_queue') : ui_queue'[i] = ui_queue[i + 1]
    BY HeadTailProperties DEF UITypes
  <1>2. /\ DOMAIN ui_queue = 1 .. Len(ui_queue)
        /\ DOMAIN ui_queue' = 1 .. Len(ui_queue')
    BY <1>1, LenProperties DEF UITypes
  <1>3. \A i \in DOMAIN ui_queue' : i + 1 \in DOMAIN ui_queue /\ i \in Nat \ {0}
    BY <1>1, <1>2
  <1>4. ASSUME NEW i \in Keys, i # 1 PROVE i - 1 \in Keys'
    <2>1. i - 1 \in DOMAIN ui_queue' /\ (i - 1) + 1 = i
      BY <1>1, <1>2, <1>4 DEF Keys
    <2>2. ui_queue'[i - 1] = ui_queue[i]
      BY <1>1, <1>2, <2>1
    <2>3. QED BY <1>4, <2>1, <2>2 DEF Keys
  <1>5. 1 \in DOMAIN ui_queue
    BY <1>1, <1>2
  <1>6. \A i \in Keys' : i + 1 \in Keys /\ i \in Nat \ {0}
                         /\ ui_queue'[i] = ui_queue[i + 1]
    BY <1>1, <1>2, <1>3 DEF Keys
  <1>7. QED BY <1>1, <1>4, <1>5, <1>6 DEF Keys, IsKey

(* A message that does not fit ends the program. *)
LEMMA PutFacts ==
  ASSUME UITypes, NEW m \in Messages, Put(m)
  PROVE  /\ ui_queue' \in Seq(Messages)
         /\ \/ ui_assertion' = "ui_queue" /\ Keys' = Keys /\ UNCHANGED ui_queue
            \/ /\ ui_assertion' = ui_assertion
               /\ ui_queue'[Len(ui_queue) + 1] = m
               /\ \A i \in Keys : i \in Keys' /\ ui_queue'[i] = ui_queue[i]
               /\ \A i \in Keys' : \/ i \in Keys /\ ui_queue'[i] = ui_queue[i]
                                   \/ IsKey(m) /\ i = Len(ui_queue) + 1
               /\ IsKey(m) => Len(ui_queue) + 1 \in Keys'
  <1>1. CASE ui_assertion' = "ui_queue" /\ UNCHANGED ui_queue
    BY <1>1 DEF UITypes, Keys
  <1>2. CASE ui_queue' = Append(ui_queue, m) /\ UNCHANGED ui_assertion
    <2>1. /\ ui_queue' \in Seq(Messages)
          /\ Len(ui_queue') = Len(ui_queue) + 1
          /\ \A i \in 1 .. Len(ui_queue) : ui_queue'[i] = ui_queue[i]
          /\ ui_queue'[Len(ui_queue) + 1] = m
      BY <1>2, AppendProperties DEF UITypes
    <2>2. /\ DOMAIN ui_queue = 1 .. Len(ui_queue)
          /\ DOMAIN ui_queue' = 1 .. Len(ui_queue) + 1
          /\ Len(ui_queue) \in Nat
      BY <2>1, LenProperties DEF UITypes
    <2>3. \A i \in DOMAIN ui_queue' :
            i \in DOMAIN ui_queue \/ i = Len(ui_queue) + 1
      BY <2>2
    <2>4. /\ \A i \in DOMAIN ui_queue : i \in DOMAIN ui_queue'
          /\ Len(ui_queue) + 1 \in DOMAIN ui_queue'
      BY <2>2
    <2>5. \A i \in DOMAIN ui_queue : ui_queue'[i] = ui_queue[i]
      BY <2>1, <2>2
    <2>6. \A i \in Keys' : \/ i \in Keys /\ ui_queue'[i] = ui_queue[i]
                           \/ IsKey(m) /\ i = Len(ui_queue) + 1
      BY <2>1, <2>3, <2>5 DEF Keys, IsKey
    <2>7. QED BY <1>2, <2>1, <2>4, <2>5, <2>6 DEF Keys, IsKey
  <1>3. QED BY <1>1, <1>2 DEF Put

(* A step that leaves the line and what was typed alone, and handles no key. *)
LEMMA LineKept ==
  ASSUME LineInv, UNCHANGED <<input_buffer, input_position, typed, erased>>,
         ui_assertion' \in {ui_assertion, "ui_queue"},
         \A i, j \in Keys' : i = j,
         \A i \in Keys' : \E j \in Keys : ui_queue'[i] = ui_queue[j],
         Keys' = {} => Keys = {}
  PROVE  LineInv'
  <1>1. UIRunning' => UIRunning
    BY DEF UIRunning
  <1>2. ui_assertion' # "out_of_bounds"
    BY DEF LineInv
  <1>3. UIRunning' /\ Keys' = {} => Holds(input_buffer, input_position, typed, erased)'
    BY <1>1 DEF LineInv, Holds
  <1>4. ASSUME UIRunning', NEW i \in Keys'
        PROVE  LeftToDo(ui_queue'[i], input_buffer', input_position', typed',
                        erased')
    <2>1. PICK j \in Keys : ui_queue'[i] = ui_queue[j]
      BY <1>4
    <2>2. Left(ui_queue[j])
      BY <1>1, <1>4 DEF LineInv
    <2>3. QED BY <2>1, <2>2 DEF Left
  <1>5. QED BY <1>2, <1>3, <1>4 DEF LineInv, Left

(* A key that waits alone. *)
LEMMA NewKey ==
  ASSUME UITypes, LineInv, Keys = {}, NEW m \in Messages, IsKey(m), Put(m),
         LeftToDo(m, input_buffer', input_position', typed', erased')
  PROVE  LineInv'
  <1>1. CASE ui_assertion' = "ui_queue" /\ Keys' = Keys
    BY <1>1 DEF LineInv, UIRunning
  <1>2. CASE /\ ui_assertion' = ui_assertion
             /\ ui_queue'[Len(ui_queue) + 1] = m
             /\ Len(ui_queue) + 1 \in Keys'
             /\ \A i \in Keys' : i = Len(ui_queue) + 1
    <2>1. \A i \in Keys' : ui_queue'[i] = m
      BY <1>2
    <2>2. \A i \in Keys' : LeftToDo(ui_queue'[i], input_buffer',
                                     input_position', typed', erased')
      BY <2>1
    <2>3. Keys' # {}
      BY <1>2
    <2>4. QED BY <1>2, <2>2, <2>3 DEF LineInv, Left
  <1>3. QED BY <1>1, <1>2, PutFacts

(* A key is counted when the user waited for the one before. *)
LEMMA KeyFacts ==
  ASSUME UITypes, ~hurried => LineInv /\ SentInv, Key, ~hurried'
  PROVE  /\ ~hurried /\ Keys = {} /\ LineInv /\ SentInv
         /\ Holds(input_buffer, input_position, typed, erased)
         /\ input_position = Len(typed) /\ Len(typed) \in Nat
  <1>1. ~hurried /\ ~Unhandled
    BY DEF Key, UITypes
  <1>2. Keys = {}
    BY <1>1 DEF Unhandled, Keys, KeyTypes
  <1>3. Holds(input_buffer, input_position, typed, erased)
    BY <1>1, <1>2 DEF LineInv, Key
  <1>4. QED BY <1>1, <1>2, <1>3, LenProperties DEF Holds, UITypes

(* The one key that waits is handled. *)
LEMMA KeyTaken ==
  ASSUME UITypes, LineInv, UIRunning, ui_queue # <<>>, IsKey(Head(ui_queue)),
         ui_queue' = Tail(ui_queue)
  PROVE  Keys' = {} /\ Left(Head(ui_queue))
  <1>1. 1 \in Keys /\ ui_queue[1] = Head(ui_queue)
    BY TakeFacts
  <1>2. \A i \in Keys' : i + 1 \in Keys /\ i + 1 # 1
    BY TakeFacts
  <1>3. \A i, j \in Keys : i = j
    BY DEF LineInv
  <1>4. Keys' = {}
    BY <1>1, <1>2, <1>3
  <1>5. QED BY <1>1, <1>4 DEF LineInv

-----------------------------------------------------------------------------
(* Steps. *)

LEMMA InitUIInv == UIInit => UIInv
  <1> SUFFICES ASSUME UIInit PROVE UIInv
    OBVIOUS
  <1>1. UITypes
    <2>1. <<>> \in Seq(Messages) /\ <<>> \in Seq(Chars) /\ <<>> \in Seq(Sent)
      BY EmptySeq
    <2>2. Empty \in Buffers /\ 0 \in Int
      BY EmptyLine
    <2>3. QED BY <2>1, <2>2 DEF UIInit, UITypes
  <1>2. Keys = {} /\ SentInv
    BY DEF UIInit, Keys, SentInv
  <1>3. LineInv
    BY <1>2, EmptyLine DEF UIInit, LineInv
  <1>4. QED BY <1>1, <1>2, <1>3 DEF UIInv

LEMMA NextUIInv == UIInv /\ [UINext]_ui_vars => UIInv'
  <1> SUFFICES ASSUME UIInv, [UINext]_ui_vars PROVE UIInv'
    OBVIOUS
  <1> USE DEF UIInv
  <1>1. ASSUME NEW char \in Chars, InputChar(char) PROVE UIInv'
    <2> DEFINE m == UIMessage("INPUT_CHAR", char)
    <2>1. m \in Messages /\ IsKey(m) /\ Put(m) /\ m.arg = char /\ m.type = "INPUT_CHAR"
      BY <1>1 DEF InputChar, UIMessage, Messages, IsKey, KeyTypes
    <2> HIDE DEF m
    <2>2. /\ typed' \in Seq(Chars) /\ typed' = Append(typed, char)
          /\ Len(typed') = Len(typed) + 1
      BY <1>1, AppendProperties DEF InputChar, UITypes
    <2>3. UITypes'
      <3>1. ui_queue' \in Seq(Messages)
        BY <2>1, PutFacts
      <3>2. hurried' \in BOOLEAN
        BY <1>1 DEF InputChar, Key, Unhandled, UITypes
      <3>3. QED BY <1>1, <2>2, <3>1, <3>2 DEF InputChar, UITypes, line
    <2>4. ASSUME ~hurried' PROVE LineInv' /\ SentInv'
      <3>1. /\ Keys = {} /\ LineInv /\ SentInv
            /\ Holds(input_buffer, input_position, typed, erased)
            /\ input_position = Len(typed) /\ Len(typed) \in Nat
        BY <1>1, <2>4, KeyFacts DEF InputChar
      <3>2. Len(typed') \in Positions
        BY <1>1, <2>2, <3>1, BufferAssumption DEF InputChar, HasRoom, Positions
      <3>3. /\ typed \in Seq(Chars)
            /\ UNCHANGED <<input_buffer, input_position, erased>>
        BY <1>1 DEF InputChar, line, UITypes
      <3>4. LeftToDo(m, input_buffer', input_position', typed', erased')
        <4>1. \E text \in Seq(Chars) :
                /\ typed' = Append(text, char) /\ Len(typed') \in Positions
                /\ Holds(input_buffer', input_position', text, erased')
          BY <2>2, <3>1, <3>2, <3>3
        <4>2. QED BY <2>1, <4>1 DEF LeftToDo, m
      <3>5. LineInv'
        BY <2>1, <3>1, <3>4, NewKey
      <3>6. QED BY <1>1, <3>1, <3>5 DEF InputChar, SentInv
    <2>5. QED BY <2>3, <2>4
  <1>2. ASSUME InputBackspace PROVE UIInv'
    <2> DEFINE m    == UIMessage("INPUT_BACKSPACE", NUL)
               left == SubSeq(typed, 1, Len(typed) - 1)
    <2>1. m \in Messages /\ IsKey(m) /\ Put(m) /\ m.type = "INPUT_BACKSPACE"
      BY <1>2 DEF InputBackspace, UIMessage, Messages, IsKey, KeyTypes
    <2> HIDE DEF m
    <2>2. typed # <<>> => /\ left \in Seq(Chars) /\ typed[Len(typed)] \in Chars
                          /\ typed = Append(left, typed[Len(typed)])
      BY ShorterText DEF UITypes
    <2>3. typed' = IF typed = <<>> THEN typed ELSE left
      BY <1>2 DEF InputBackspace
    <2> HIDE DEF left
    <2>4. typed' \in Seq(Chars)
      BY <2>2, <2>3 DEF UITypes
    <2>5. UITypes'
      <3>1. ui_queue' \in Seq(Messages)
        BY <2>1, PutFacts
      <3>2. hurried' \in BOOLEAN
        BY <1>2 DEF InputBackspace, Key, Unhandled, UITypes
      <3>3. QED BY <1>2, <2>4, <3>1, <3>2 DEF InputBackspace, UITypes, line
    <2>6. ASSUME ~hurried' PROVE LineInv' /\ SentInv'
      <3>1. /\ Keys = {} /\ LineInv /\ SentInv
            /\ Holds(input_buffer, input_position, typed, erased)
            /\ input_position = Len(typed)
        BY <1>2, <2>6, KeyFacts DEF InputBackspace
      <3>2. typed # <<>>
        BY <1>2, <3>1, EmptySeq DEF InputBackspace, HasText
      <3>3. UNCHANGED <<input_buffer, input_position>> /\ erased' = TRUE /\ typed' = left
        BY <1>2, <2>3, <3>2 DEF InputBackspace, line
      <3>4. LeftToDo(m, input_buffer', input_position', typed', erased')
        <4>1. \E char \in Chars, shortened \in BOOLEAN :
                Holds(input_buffer', input_position', Append(typed', char), shortened)
          <5> DEFINE c == typed[Len(typed)]
          <5>1. c \in Chars /\ Append(typed', c) = typed
            BY <2>2, <3>2, <3>3
          <5> HIDE DEF c
          <5>2. erased \in BOOLEAN
            BY DEF UITypes
          <5>3. Holds(input_buffer', input_position', Append(typed', c), erased)
            BY <3>1, <3>3, <5>1
          <5>4. QED BY <5>1, <5>2, <5>3
        <4>2. QED BY <2>1, <3>3, <4>1 DEF LeftToDo, m
      <3>5. LineInv'
        BY <2>1, <3>1, <3>4, NewKey
      <3>6. QED BY <1>2, <3>1, <3>5 DEF InputBackspace, SentInv
    <2>7. QED BY <2>5, <2>6
  <1>3. ASSUME InputSend PROVE UIInv'
    <2> DEFINE m == UIMessage("INPUT_SEND", [typed |-> typed, erased |-> erased])
    <2>1. /\ m \in Messages /\ IsKey(m) /\ Put(m) /\ m.type = "INPUT_SEND"
          /\ m.arg.typed = typed /\ m.arg.erased = erased
      BY <1>3 DEF InputSend, UIMessage, Messages, TypedLine, IsKey, KeyTypes, UITypes
    <2>2. PICK n \in Messages : /\ IsKey(n) /\ Put(n) /\ n.type = "INPUT_SEND"
                                /\ n.arg.typed = typed /\ n.arg.erased = erased
      BY <2>1
    <2> HIDE DEF m
    <2>3. UITypes'
      <3>1. ui_queue' \in Seq(Messages)
        BY <2>2, PutFacts
      <3>2. hurried' \in BOOLEAN
        BY <1>3 DEF InputSend, Key, Unhandled, UITypes
      <3>3. QED BY <1>3, <3>1, <3>2, EmptySeq DEF InputSend, UITypes, line
    <2>4. ASSUME ~hurried' PROVE LineInv' /\ SentInv'
      <3>1. /\ Keys = {} /\ LineInv /\ SentInv
            /\ Holds(input_buffer, input_position, typed, erased)
        BY <1>3, <2>4, KeyFacts DEF InputSend
      <3>2. /\ UNCHANGED <<input_buffer, input_position>>
            /\ typed' = <<>> /\ ~erased'
        BY <1>3 DEF InputSend, line
      <3>3. LeftToDo(n, input_buffer', input_position', typed', erased')
        BY <2>2, <3>1, <3>2 DEF LeftToDo
      <3>4. LineInv'
        BY <2>2, <3>1, <3>3, NewKey
      <3>5. QED BY <1>3, <3>1, <3>4 DEF InputSend, SentInv
    <2>5. QED BY <2>3, <2>4
  <1>4. ASSUME InputRefused PROVE UIInv'
    <2>1. Keys' = Keys
      BY <1>4 DEF InputRefused, Keys
    <2>2. UITypes'
      BY <1>4 DEF InputRefused, Key, Unhandled, UITypes, line
    <2>3. ASSUME ~hurried' PROVE LineInv' /\ SentInv'
      <3>1. LineInv /\ SentInv
        BY <1>4, <2>3 DEF InputRefused, Key, UITypes
      <3>2. LineInv'
        BY <1>4, <2>1, <3>1, LineKept DEF InputRefused, line, LineInv
      <3>3. QED BY <1>4, <3>1, <3>2 DEF InputRefused, SentInv
    <2>4. QED BY <2>2, <2>3
  <1>5. ASSUME InputThreadCloses PROVE UIInv'
    <2> DEFINE m == UIMessage("INPUT_THREAD_CLOSED", NUL)
    <2>1. m \in Messages /\ ~IsKey(m) /\ Put(m)
      BY <1>5 DEF InputThreadCloses, UIMessage, Messages, IsKey, KeyTypes
    <2> HIDE DEF m
    <2>2. /\ ui_queue' \in Seq(Messages) /\ ui_assertion' \in {ui_assertion, "ui_queue"}
          /\ Keys' = Keys /\ \A i \in Keys : ui_queue'[i] = ui_queue[i]
      BY <2>1, PutFacts
    <2>3. UITypes'
      BY <1>5, <2>2 DEF InputThreadCloses, UITypes, line, history
    <2>4. ASSUME ~hurried' PROVE LineInv' /\ SentInv'
      <3>1. LineInv /\ SentInv
        BY <1>5, <2>4 DEF InputThreadCloses, history
      <3>2. LineInv'
        BY <1>5, <2>2, <3>1, LineKept DEF InputThreadCloses, line, history, LineInv
      <3>3. QED BY <1>5, <3>1, <3>2 DEF InputThreadCloses, SentInv, history
    <2>5. QED BY <2>3, <2>4
  <1>6. ASSUME PostEvent PROVE UIInv'
    <2> DEFINE m == UIMessage("POST_EVENT", NUL)
    <2>1. m \in Messages /\ ~IsKey(m) /\ Put(m)
      BY <1>6 DEF PostEvent, UIMessage, Messages, IsKey, KeyTypes
    <2> HIDE DEF m
    <2>2. /\ ui_queue' \in Seq(Messages) /\ ui_assertion' \in {ui_assertion, "ui_queue"}
          /\ Keys' = Keys /\ \A i \in Keys : ui_queue'[i] = ui_queue[i]
      BY <2>1, PutFacts
    <2>3. UITypes'
      BY <1>6, <2>2 DEF PostEvent, UITypes, line, history
    <2>4. ASSUME ~hurried' PROVE LineInv' /\ SentInv'
      <3>1. LineInv /\ SentInv
        BY <1>6, <2>4 DEF PostEvent, history
      <3>2. LineInv'
        BY <1>6, <2>2, <3>1, LineKept DEF PostEvent, line, history, LineInv
      <3>3. QED BY <1>6, <3>1, <3>2 DEF PostEvent, SentInv, history
    <2>5. QED BY <2>3, <2>4
  <1>7. ASSUME Post PROVE UIInv'
    <2>1. /\ ui_queue # <<>> /\ ui_queue' = Tail(ui_queue)
          /\ ~IsKey(Head(ui_queue))
      BY <1>7 DEF Post, UIReceived, IsKey, KeyTypes
    <2>2. /\ ui_queue' \in Seq(Messages)
          /\ \A i \in Keys' : /\ i + 1 \in Keys /\ i \in Nat \ {0}
                              /\ ui_queue'[i] = ui_queue[i + 1]
          /\ Keys' = {} => Keys = {}
      BY <2>1, TakeFacts
    <2>3. UITypes'
      BY <1>7, <2>2 DEF Post, UITypes, line, history
    <2>4. ASSUME ~hurried' PROVE LineInv' /\ SentInv'
      <3>1. LineInv /\ SentInv
        BY <1>7, <2>4 DEF Post, history
      <3>2. \A i, j \in Keys' : i = j
        BY <2>2, <3>1 DEF LineInv
      <3>3. LineInv'
        BY <1>7, <2>2, <3>1, <3>2, LineKept DEF Post, line, history
      <3>4. QED BY <1>7, <3>1, <3>3 DEF Post, SentInv, history
    <2>5. QED BY <2>3, <2>4
  <1>8. ASSUME ThreadClosed PROVE UIInv'
    <2>1. /\ ui_queue # <<>> /\ ui_queue' = Tail(ui_queue)
          /\ ~IsKey(Head(ui_queue))
      BY <1>8 DEF ThreadClosed, UIReceived, IsKey, KeyTypes
    <2>2. /\ ui_queue' \in Seq(Messages)
          /\ \A i \in Keys' : /\ i + 1 \in Keys /\ i \in Nat \ {0}
                              /\ ui_queue'[i] = ui_queue[i + 1]
          /\ Keys' = {} => Keys = {}
      BY <2>1, TakeFacts
    <2>3. UITypes'
      BY <1>8, <2>2 DEF ThreadClosed, UITypes, line, history
    <2>4. ASSUME ~hurried' PROVE LineInv' /\ SentInv'
      <3>1. LineInv /\ SentInv
        BY <1>8, <2>4 DEF ThreadClosed, history
      <3>2. \A i, j \in Keys' : i = j
        BY <2>2, <3>1 DEF LineInv
      <3>3. LineInv'
        BY <1>8, <2>2, <3>1, <3>2, LineKept DEF ThreadClosed, line, history
      <3>4. QED BY <1>8, <3>1, <3>3 DEF ThreadClosed, SentInv, history
    <2>5. QED BY <2>3, <2>4
  <1>9. ASSUME Char PROVE UIInv'
    <2> DEFINE c == Head(ui_queue).arg
    <2>1. /\ ui_queue # <<>> /\ ui_queue' = Tail(ui_queue)
          /\ IsKey(Head(ui_queue)) /\ Head(ui_queue).type = "INPUT_CHAR"
          /\ UIRunning /\ Write(c, 1) /\ UNCHANGED history
      BY <1>9 DEF Char, UIReceived, IsKey, KeyTypes
    <2>2. ui_queue' \in Seq(Messages) /\ c \in Chars
      BY <2>1, TakeFacts DEF Messages
    <2>3. UITypes'
      <3>1. input_buffer' \in Buffers /\ input_position' \in Int
        <4> HIDE DEF c
        <4>1. QED BY <2>1, <2>2 DEF UITypes, Write, line, Buffers
      <3>2. QED BY <2>1, <2>2, <3>1 DEF UITypes, history
    <2>4. ASSUME ~hurried' PROVE LineInv' /\ SentInv'
      <3>1. LineInv /\ SentInv /\ UNCHANGED <<typed, sent, erased>>
        BY <2>1, <2>4 DEF history
      <3>2. Keys' = {} /\ Left(Head(ui_queue))
        BY <2>1, <3>1, KeyTaken
      <3>3. PICK text \in Seq(Chars) :
              /\ typed = Append(text, c) /\ Len(typed) \in Positions
              /\ Holds(input_buffer, input_position, text, erased)
        BY <2>1, <3>2 DEF Left, LeftToDo
      <3> HIDE DEF c
      <3>4. /\ input_position \in Positions
            /\ Holds([input_buffer EXCEPT ![input_position] = c], input_position + 1,
                     typed, erased)
        BY <2>2, <3>3, AfterChar DEF UITypes
      <3>5. /\ input_buffer' = [input_buffer EXCEPT ![input_position] = c]
            /\ input_position' = input_position + 1 /\ UNCHANGED ui_assertion
        BY <2>1, <3>4 DEF Write
      <3>6. Holds(input_buffer, input_position, typed, erased)'
        BY <3>1, <3>4, <3>5 DEF Holds
      <3>7. LineInv'
        BY <3>1, <3>2, <3>5, <3>6 DEF LineInv
      <3>8. QED BY <3>1, <3>7 DEF SentInv
    <2>5. QED BY <2>3, <2>4
  <1>10. ASSUME Backspace PROVE UIInv'
    <2>1. /\ ui_queue # <<>> /\ ui_queue' = Tail(ui_queue)
          /\ IsKey(Head(ui_queue)) /\ Head(ui_queue).type = "INPUT_BACKSPACE"
          /\ UIRunning /\ Write(NUL, -1) /\ UNCHANGED history
      BY <1>10 DEF Backspace, UIReceived, IsKey, KeyTypes
    <2>2. ui_queue' \in Seq(Messages)
      BY <2>1, TakeFacts
    <2>3. UITypes'
      BY <2>1, <2>2 DEF UITypes, history, Write, line, Buffers, Positions
    <2>4. ASSUME ~hurried' PROVE LineInv' /\ SentInv'
      <3>1. LineInv /\ SentInv /\ UNCHANGED <<typed, sent, erased>>
        BY <2>1, <2>4 DEF history
      <3>2. Keys' = {} /\ Left(Head(ui_queue))
        BY <2>1, <3>1, KeyTaken
      <3>3. PICK char \in Chars, shortened \in BOOLEAN :
              erased /\ Holds(input_buffer, input_position, Append(typed, char), shortened)
        BY <2>1, <3>2 DEF Left, LeftToDo
      <3>4. /\ input_position \in Positions
            /\ Holds([input_buffer EXCEPT ![input_position] = NUL], input_position + -1,
                     typed, TRUE)
        BY <3>3, AfterBackspace DEF UITypes
      <3>5. /\ input_buffer' = [input_buffer EXCEPT ![input_position] = NUL]
            /\ input_position' = input_position + -1 /\ UNCHANGED ui_assertion
        BY <2>1, <3>4 DEF Write
      <3>6. Holds(input_buffer, input_position, typed, erased)'
        BY <3>1, <3>3, <3>4, <3>5 DEF Holds
      <3>7. LineInv'
        BY <3>1, <3>2, <3>5, <3>6 DEF LineInv
      <3>8. QED BY <3>1, <3>7 DEF SentInv
    <2>5. QED BY <2>3, <2>4
  <1>11. ASSUME SendLine PROVE UIInv'
    <2> DEFINE arg   == Head(ui_queue).arg
               entry == [text |-> Text(input_buffer), line |-> arg]
    <2>1. /\ ui_queue # <<>> /\ ui_queue' = Tail(ui_queue)
          /\ IsKey(Head(ui_queue)) /\ Head(ui_queue).type = "INPUT_SEND"
          /\ UIRunning /\ UNCHANGED <<typed, erased, hurried, ui_assertion>>
          /\ sent' = Append(sent, entry)
          /\ input_buffer' = Empty /\ input_position' = 0
      BY <1>11 DEF SendLine, UIReceived, IsKey, KeyTypes
    <2>2. ui_queue' \in Seq(Messages) /\ arg \in TypedLine
      BY <2>1, TakeFacts DEF Messages
    <2> HIDE DEF arg
    <2>3. entry \in Sent /\ entry.text = Text(input_buffer) /\ entry.line = arg
      BY <2>2 DEF Sent, UITypes
    <2> HIDE DEF entry
    <2>4. /\ sent' \in Seq(Sent) /\ Len(sent') = Len(sent) + 1 /\ Len(sent) \in Nat
          /\ \A i \in 1 .. Len(sent) : sent'[i] = sent[i]
          /\ sent'[Len(sent) + 1] = entry
          /\ DOMAIN sent' = 1 .. Len(sent') /\ DOMAIN sent = 1 .. Len(sent)
      BY <2>1, <2>3, AppendProperties, LenProperties DEF UITypes
    <2>5. UITypes'
      BY <2>1, <2>2, <2>4, EmptyLine DEF UITypes
    <2>6. ASSUME ~hurried' PROVE LineInv' /\ SentInv'
      <3>1. LineInv /\ SentInv
        BY <2>1, <2>6
      <3>2. Keys' = {} /\ Left(Head(ui_queue))
        BY <2>1, <3>1, KeyTaken
      <3>3. /\ typed = <<>> /\ ~erased
            /\ Holds(input_buffer, input_position, arg.typed, arg.erased)
        BY <2>1, <3>2 DEF Left, LeftToDo, arg
      <3>4. IsLine(Text(input_buffer), arg)
        <4>1. /\ arg.typed \in Seq(Chars) /\ arg.erased \in BOOLEAN
              /\ arg = [typed |-> arg.typed, erased |-> arg.erased]
          BY <2>2 DEF TypedLine
        <4>2. IsLine(Text(input_buffer), [typed |-> arg.typed, erased |-> arg.erased])
          BY <3>3, <4>1, TextOfLine DEF UITypes
        <4>3. QED BY <4>1, <4>2
      <3>5. SentInv'
        <4>1. SUFFICES ASSUME NEW i \in DOMAIN sent'
                       PROVE  IsLine(sent'[i].text, sent'[i].line)
          BY DEF SentInv, IsLine, Begins
        <4>2. i \in DOMAIN sent \/ i = Len(sent) + 1
          BY <2>4
        <4>3. CASE i \in DOMAIN sent
          BY <2>4, <3>1, <4>3 DEF SentInv
        <4>4. CASE i = Len(sent) + 1
          BY <2>3, <2>4, <3>4, <4>4
        <4>5. QED BY <4>2, <4>3, <4>4
      <3>6. Holds(input_buffer, input_position, typed, erased)'
        BY <2>1, <3>3, EmptyLine DEF Holds
      <3>7. LineInv'
        BY <2>1, <3>1, <3>2, <3>6 DEF LineInv
      <3>8. QED BY <3>5, <3>7
    <2>7. QED BY <2>5, <2>6
  <1>12. ASSUME \/ UIReports
                \/ UNCHANGED ui_vars
         PROVE  UIInv'
    <2>1. UNCHANGED <<ui_queue, line, history, ui_assertion>>
      BY <1>12 DEF UIReports, ui_vars
    <2>2. Keys' = Keys /\ UITypes'
      BY <2>1 DEF Keys, UITypes, line, history
    <2>3. ASSUME ~hurried' PROVE LineInv' /\ SentInv'
      <3>1. LineInv /\ SentInv
        BY <2>1, <2>3 DEF history
      <3>2. LineInv'
        BY <2>1, <2>2, <3>1, LineKept DEF line, history, LineInv
      <3>3. QED BY <2>1, <3>1, <3>2 DEF SentInv, history
    <2>4. QED BY <2>2, <2>3
  <1>13. QED
    BY <1>1, <1>2, <1>3, <1>4, <1>5, <1>6, <1>7, <1>8, <1>9, <1>10, <1>11, <1>12
    DEF UINext, InputThread, UIThread

THEOREM LineInductiveInvariant == UISpec => []UIInv
  BY InitUIInv, NextUIInv, PTL DEF UISpec

-----------------------------------------------------------------------------
(* The line is what was typed, whatever the size of the buffer, if the user
   waits for each key: no write misses the buffer, and what is sent begins with
   what was typed.  *)
THEOREM SendsWhatWasTyped == UISpec => []LineIsTyped
  <1>1. ASSUME UIInv PROVE LineIsTyped
    <2>1. SUFFICES ASSUME ~hurried PROVE /\ ui_assertion # "out_of_bounds"
                                         /\ UIRunning /\ ~Unhandled =>
                                              /\ input_position = Len(typed)
                                              /\ input_position \in Positions
                                              /\ IsLine(Text(input_buffer),
                                                        [typed |-> typed, erased |-> erased])
                                         /\ SentInv
      BY DEF LineIsTyped, IsLine, SentInv
    <2>2. LineInv /\ SentInv /\ UITypes
      BY <1>1, <2>1 DEF UIInv
    <2>3. ASSUME UIRunning, ~Unhandled
          PROVE  Holds(input_buffer, input_position, typed, erased)
      <3>1. Keys = {}
        BY <2>3 DEF Unhandled, Keys, KeyTypes
      <3>2. QED BY <2>2, <2>3, <3>1 DEF LineInv
    <2>4. ASSUME UIRunning, ~Unhandled
          PROVE  IsLine(Text(input_buffer), [typed |-> typed, erased |-> erased])
      BY <2>2, <2>3, <2>4, TextOfLine DEF UITypes
    <2>5. QED BY <2>2, <2>3, <2>4 DEF LineInv, Holds
  <1>2. QED BY <1>1, LineInductiveInvariant, PTL

(***************************************************************************)
(* The login: ChatClient.                                                  *)
(***************************************************************************)

(* The events of the server, and the messages they become. *)
ServerEvents == {"USERNAME_REQUEST", "PASSWORD_REQUEST", "AUTHENTICATED",
                 "USERNAME_SUBMIT", "CHAT_MESSAGE", "SERVER_SHUTDOWN"}
ClientEvents == {"USERNAME_REQUEST", "USERNAME_SUBMIT", "PASSWORD_SUBMIT",
                 "CHAT_MESSAGE", "USER_LEAVE"}
ClientMessages ==
  [type : {"INCOMING_EVENT"}, event : ServerEvents]
    \union [type : {"USER_INPUT", "CLOSE", "CONNECTION_CLOSED"}, event : {""}]
MainMessages ==
  [type : {"USER_INPUT", "UI_CLOSED", "PRINT_EVENT", "CLIENT_CLOSED"},
   event : ServerEvents \union {"", "CONNECTION_FAILED"}]

ClosingStates == [ui : BOOLEAN, client : BOOLEAN]

(* TypeOK, without the queues and what counts as open *)
ControlTypes ==
  /\ program \in {"opening", "opening_ui", "running", "over"}
  /\ main_state \in {"OPEN", "CLOSING", "CLOSED"}
  /\ ui \in {"init", "open", "failed", "closed"}
  /\ state \in Live \union {"INIT", "DISCONNECTED", "CLOSING", "CLOSED", "reported"}
  /\ connection \in {"init", "open", "closing", "stuck", "closed"}
  /\ server \in {"INIT", "USERNAME", "USERNAME_PROCESSING", "PASSWORD",
                 "PASSWORD_PROCESSING", "ACTIVE", "failed", "closing"}
  /\ lost \in BOOLEAN

(* The queues hold messages, and no more than their size. *)
MainQueueOK   == main_queue \in Seq(MainMessages) /\ Len(main_queue) <= MAIN_QUEUE_SIZE
ClientQueueOK ==
  message_queue \in Seq(ClientMessages) /\ Len(message_queue) <= CLIENT_QUEUE_SIZE
WiresOK       == to_client \in Seq(ServerEvents) /\ to_server \in Seq(ClientEvents)

ClientTypes == ControlTypes /\ MainQueueOK /\ ClientQueueOK /\ WiresOK

(* Where the answers of the server to this client are, among what others say: taken
   by the client's thread next, or still on the wire. *)
IsAnswer(message) == message.type = "INCOMING_EVENT" /\ message.event # "CHAT_MESSAGE"

Heard == {i \in DOMAIN message_queue : IsAnswer(message_queue[i])}
Said  == {i \in DOMAIN to_client : to_client[i] # "CHAT_MESSAGE"}

NoAnswer == Heard = {} /\ Said = {}

OneAnswer(event) ==
  /\ \A i, j \in Heard : i = j
  /\ \A i, j \in Said : i = j
  /\ Heard = {} <=> Said # {}
  /\ \A i \in Heard : message_queue[i].event = event
  /\ \A i \in Said : to_client[i] = event

(* Whose turn it is: the server has answered, nobody has said anything, or the
   client has submitted something.  *)
Answered(event)  == OneAnswer(event) /\ to_server = <<>>
Silent           == NoAnswer /\ to_server = <<>>
Submitted(event) == NoAnswer /\ to_server = <<event>>

LoginInv ==
  \/ server \in {"failed", "closing"}
  \/ server = "INIT" /\ state = "CONNECTED" /\ Silent
  \/ /\ server = "USERNAME"
     /\ \/ /\ state \in {"CONNECTED", "USERNAME_VERIFYING"}
           /\ Answered("USERNAME_REQUEST")
        \/ state = "USERNAME_ENTRY" /\ Silent
        \/ state = "USERNAME_VERIFYING" /\ Submitted("USERNAME_SUBMIT")
  \/ server = "USERNAME_PROCESSING" /\ state = "USERNAME_VERIFYING" /\ Silent
  \/ /\ server = "PASSWORD"
     /\ \/ state \in Verifying /\ Answered("PASSWORD_REQUEST")
        \/ state = "PASSWORD_ENTRY" /\ Silent
        \/ state = "PASSWORD_VERIFYING" /\ Submitted("PASSWORD_SUBMIT")
  \/ server = "PASSWORD_PROCESSING" /\ state = "PASSWORD_VERIFYING" /\ Silent
  \/ /\ server = "ACTIVE"
     /\ \/ state = "PASSWORD_VERIFYING" /\ Answered("AUTHENTICATED")
        \/ state = "AUTHENTICATED" /\ Submitted("USERNAME_REQUEST")
        \/ state = "AUTHENTICATED" /\ Answered("USERNAME_SUBMIT")
        \/ /\ state = "ACTIVE" /\ NoAnswer
           /\ \A i \in DOMAIN to_server : to_server[i] = "CHAT_MESSAGE"

(* Nothing happens before the connection is open... *)
StartInv ==
  /\ program = "opening" => connection = "init"
  /\ connection = "init" =>
       /\ program \in {"opening", "over"} /\ ui = "init"
       /\ state = "INIT" /\ server = "INIT"
       /\ message_queue = <<>> /\ to_client = <<>> /\ to_server = <<>>

(* ... and its end is told when it has ended. *)
OpenInv ==
  connection # "closed" =>
    \A i \in DOMAIN message_queue : message_queue[i].type # "CONNECTION_CLOSED"

WireInv == /\ ClientTypes /\ closing_states \in ClosingStates /\ StartInv
           /\ Running => OpenInv /\ (connection = "open" /\ ~lost => LoginInv)

-----------------------------------------------------------------------------
(* Queues. *)
LEMMA TailIs ==
  ASSUME NEW M, NEW queue \in Seq(M), queue # <<>>
  PROVE  /\ Tail(queue) \in Seq(M) /\ Head(queue) \in M /\ Head(queue) = queue[1]
         /\ Len(queue) \in Nat \ {0} /\ DOMAIN queue = 1 .. Len(queue)
         /\ Len(Tail(queue)) = Len(queue) - 1
         /\ DOMAIN Tail(queue) = 1 .. Len(queue) - 1
         /\ \A i \in 1 .. Len(queue) - 1 : Tail(queue)[i] = queue[i + 1]
  <1>1. /\ Tail(queue) \in Seq(M) /\ Len(Tail(queue)) = Len(queue) - 1
        /\ \A i \in 1 .. Len(Tail(queue)) : Tail(queue)[i] = queue[i + 1]
        /\ Head(queue) \in M /\ Head(queue) = queue[1]
    BY HeadTailProperties
  <1>2. Len(queue) \in Nat \ {0} /\ DOMAIN queue = 1 .. Len(queue)
    BY EmptySeq, LenProperties
  <1>3. DOMAIN Tail(queue) = 1 .. Len(Tail(queue))
    BY <1>1, LenProperties
  <1>4. QED BY <1>1, <1>2, <1>3

LEMMA AppendIs ==
  ASSUME NEW M, NEW queue \in Seq(M), NEW m \in M
  PROVE  /\ Append(queue, m) \in Seq(M)
         /\ Len(queue) \in Nat /\ DOMAIN queue = 1 .. Len(queue)
         /\ Len(Append(queue, m)) = Len(queue) + 1
         /\ DOMAIN Append(queue, m) = 1 .. Len(queue) + 1
         /\ \A i \in 1 .. Len(queue) : Append(queue, m)[i] = queue[i]
         /\ Append(queue, m)[Len(queue) + 1] = m
  <1>1. /\ Append(queue, m) \in Seq(M) /\ Len(Append(queue, m)) = Len(queue) + 1
        /\ \A i \in 1 .. Len(queue) : Append(queue, m)[i] = queue[i]
        /\ Append(queue, m)[Len(queue) + 1] = m
    BY AppendProperties
  <1>2. Len(queue) \in Nat /\ DOMAIN queue = 1 .. Len(queue)
    BY LenProperties
  <1>3. DOMAIN Append(queue, m) = 1 .. Len(Append(queue, m))
    BY <1>1, LenProperties
  <1>4. QED BY <1>1, <1>2, <1>3

(* The messages are told apart. *)
LEMMA MessageIs ==
  /\ \A m \in ClientMessages :
       /\ m.type \in {"INCOMING_EVENT", "USER_INPUT", "CLOSE", "CONNECTION_CLOSED"}
       /\ m.type = "INCOMING_EVENT" => m.event \in ServerEvents
  /\ \A event \in ServerEvents :
       /\ Message("INCOMING_EVENT", event) \in ClientMessages
       /\ Message("INCOMING_EVENT", event).type = "INCOMING_EVENT"
       /\ Message("INCOMING_EVENT", event).event = event
       /\ Message("PRINT_EVENT", event) \in MainMessages
  /\ \A type \in {"USER_INPUT", "CLOSE", "CONNECTION_CLOSED"} :
       Message(type, "") \in ClientMessages /\ Message(type, "").type = type
  /\ \A type \in {"USER_INPUT", "UI_CLOSED", "CLIENT_CLOSED"} :
       Message(type, "") \in MainMessages
  /\ Message("PRINT_EVENT", "CONNECTION_FAILED") \in MainMessages
  BY DEF ClientMessages, MainMessages, Message

-----------------------------------------------------------------------------
(* What happens to the answers. *)

(* Nothing, if neither queue changes, ... *)
LEMMA AnswersKept ==
  ASSUME UNCHANGED <<message_queue, to_client>>
  PROVE  /\ NoAnswer' = NoAnswer
         /\ \A event \in ServerEvents : OneAnswer(event)' = OneAnswer(event)
  BY DEF NoAnswer, OneAnswer, Heard, Said, IsAnswer

(* ... if another message is put, ... *)
LEMMA OtherPut ==
  ASSUME ClientTypes, NEW m \in ClientMessages, ~IsAnswer(m),
         message_queue' = Append(message_queue, m), UNCHANGED to_client
  PROVE  /\ NoAnswer => NoAnswer'
         /\ \A event \in ServerEvents : OneAnswer(event) => OneAnswer(event)'
  <1>1. /\ DOMAIN message_queue = 1 .. Len(message_queue)
        /\ Len(message_queue) \in Nat
        /\ DOMAIN message_queue' = 1 .. Len(message_queue) + 1
        /\ \A i \in 1 .. Len(message_queue) : message_queue'[i] = message_queue[i]
        /\ message_queue'[Len(message_queue) + 1] = m
    BY AppendIs DEF ClientTypes, ClientQueueOK, WiresOK
  <1>2. Heard' = Heard /\ Heard \subseteq 1 .. Len(message_queue)
    BY <1>1 DEF Heard, IsAnswer
  <1>3. Said' = Said
    BY DEF Said
  <1>4. QED BY <1>1, <1>2, <1>3 DEF NoAnswer, OneAnswer

(* ... or taken, ... *)
LEMMA OtherTaken ==
  ASSUME ClientTypes, message_queue # <<>>, ~IsAnswer(Head(message_queue)),
         message_queue' = Tail(message_queue), UNCHANGED to_client
  PROVE  /\ NoAnswer => NoAnswer'
         /\ \A event \in ServerEvents : OneAnswer(event) => OneAnswer(event)'
  <1>1. /\ Head(message_queue) = message_queue[1]
        /\ DOMAIN message_queue = 1 .. Len(message_queue)
        /\ Len(message_queue) \in Nat \ {0}
        /\ DOMAIN message_queue' = 1 .. Len(message_queue) - 1
        /\ \A i \in 1 .. Len(message_queue) - 1 : message_queue'[i] = message_queue[i + 1]
    BY TailIs DEF ClientTypes, ClientQueueOK, WiresOK
  <1>2. /\ \A i \in Heard' : i + 1 \in Heard /\ i \in Nat
        /\ \A i \in Heard : i - 1 \in Heard' /\ i \in Nat
        /\ \A i \in Heard' : message_queue'[i] = message_queue[i + 1]
    BY <1>1 DEF Heard, IsAnswer
  <1>3. Said' = Said
    BY DEF Said
  <1>4. ASSUME NEW event \in ServerEvents, OneAnswer(event)
        PROVE  OneAnswer(event)'
    <2>1. \A i, j \in Heard' : i = j
      <3>1. \A i, j \in Heard' : i + 1 = j + 1 /\ i \in Nat /\ j \in Nat
        <4>1. \A k, l \in Heard : k = l
          BY <1>4 DEF OneAnswer
        <4>2. QED BY <1>2, <4>1
      <3>2. QED BY <3>1
    <2>2. Heard' = {} <=> Heard = {}
      <3>1. (\E i : i \in Heard) => \E i : i \in Heard'
        BY <1>2
      <3>2. (\E i : i \in Heard') => \E i : i \in Heard
        BY <1>2
      <3>3. QED BY <3>1, <3>2
    <2>3. \A i \in Heard' : message_queue'[i].event = event
      <3>1. \A k \in Heard : message_queue[k].event = event
        BY <1>4 DEF OneAnswer
      <3>2. QED BY <1>2, <3>1
    <2>4. QED BY <1>3, <1>4, <2>1, <2>2, <2>3 DEF OneAnswer
  <1>5. NoAnswer => NoAnswer'
    BY <1>2, <1>3 DEF NoAnswer
  <1>6. QED BY <1>4, <1>5

(* ... or if the server passes on what another client said. *)
LEMMA OtherSaid ==
  ASSUME ClientTypes, to_client' = Append(to_client, "CHAT_MESSAGE"),
         UNCHANGED message_queue
  PROVE  /\ NoAnswer => NoAnswer'
         /\ \A event \in ServerEvents : OneAnswer(event) => OneAnswer(event)'
  <1>1. /\ DOMAIN to_client = 1 .. Len(to_client)
        /\ Len(to_client) \in Nat
        /\ DOMAIN to_client' = 1 .. Len(to_client) + 1
        /\ \A i \in 1 .. Len(to_client) : to_client'[i] = to_client[i]
        /\ to_client'[Len(to_client) + 1] = "CHAT_MESSAGE"
    BY AppendIs DEF ClientTypes, ClientQueueOK, WiresOK, ServerEvents
  <1>2. Said' = Said /\ Said \subseteq 1 .. Len(to_client)
    BY <1>1 DEF Said
  <1>3. Heard' = Heard
    BY DEF Heard, IsAnswer
  <1>4. QED BY <1>1, <1>2, <1>3 DEF NoAnswer, OneAnswer

(* An answer that is given is the only one, ... *)
LEMMA AnswerSaid ==
  ASSUME ClientTypes, NoAnswer, NEW event \in ServerEvents \ {"CHAT_MESSAGE"},
         to_client' = Append(to_client, event), UNCHANGED message_queue
  PROVE  OneAnswer(event)'
  <1>1. /\ DOMAIN to_client = 1 .. Len(to_client)
        /\ Len(to_client) \in Nat
        /\ DOMAIN to_client' = 1 .. Len(to_client) + 1
        /\ \A i \in 1 .. Len(to_client) : to_client'[i] = to_client[i]
        /\ to_client'[Len(to_client) + 1] = event
    BY AppendIs DEF ClientTypes, ClientQueueOK, WiresOK
  <1>2. Said' = {Len(to_client) + 1}
    BY <1>1 DEF Said, NoAnswer
  <1>3. Heard' = {}
    BY DEF Heard, IsAnswer, NoAnswer
  <1>4. QED BY <1>1, <1>2, <1>3 DEF OneAnswer

(* ... reaches the client's queue as the only one, ... *)
LEMMA AnswerDelivered ==
  ASSUME ClientTypes, to_client # <<>>, to_client' = Tail(to_client),
         message_queue' =
           Append(message_queue, Message("INCOMING_EVENT", Head(to_client)))
  PROVE  /\ NoAnswer => NoAnswer'
         /\ \A event \in ServerEvents : OneAnswer(event) => OneAnswer(event)'
  <1> DEFINE m == Message("INCOMING_EVENT", Head(to_client))
  <1>1. /\ Head(to_client) \in ServerEvents /\ Head(to_client) = to_client[1]
        /\ DOMAIN to_client = 1 .. Len(to_client)
        /\ Len(to_client) \in Nat \ {0}
        /\ DOMAIN to_client' = 1 .. Len(to_client) - 1
        /\ \A i \in 1 .. Len(to_client) - 1 : to_client'[i] = to_client[i + 1]
    BY TailIs DEF ClientTypes, ClientQueueOK, WiresOK
  <1>2. m \in ClientMessages /\ m.event = Head(to_client) /\ m.type = "INCOMING_EVENT"
    BY <1>1, MessageIs
  <1> HIDE DEF m
  <1>3. /\ DOMAIN message_queue = 1 .. Len(message_queue)
        /\ Len(message_queue) \in Nat
        /\ DOMAIN message_queue' = 1 .. Len(message_queue) + 1
        /\ \A i \in 1 .. Len(message_queue) : message_queue'[i] = message_queue[i]
        /\ message_queue'[Len(message_queue) + 1] = m
    BY <1>2, AppendIs DEF ClientTypes, ClientQueueOK, m
  <1>4. /\ Heard \subseteq 1 .. Len(message_queue)
        /\ Heard' = IF Head(to_client) = "CHAT_MESSAGE" THEN Heard
                    ELSE Heard \union {Len(message_queue) + 1}
    BY <1>2, <1>3 DEF Heard, IsAnswer
  <1>5. /\ \A i \in Said' : i + 1 \in Said /\ i \in 1 .. Len(to_client) - 1
        /\ \A i \in Said : i \in 1 .. Len(to_client) /\ (i # 1 => i - 1 \in Said')
        /\ 1 \in Said <=> Head(to_client) # "CHAT_MESSAGE"
    BY <1>1 DEF Said
  <1>6. NoAnswer => NoAnswer'
    BY <1>4, <1>5 DEF NoAnswer
  <1>7. ASSUME NEW event \in ServerEvents, OneAnswer(event)
        PROVE  OneAnswer(event)'
    <2>1. CASE Head(to_client) = "CHAT_MESSAGE"
      <3>1. Heard' = Heard /\ 1 \notin Said
        BY <1>4, <1>5, <2>1
      <3>2. Said' = {} <=> Said = {}
        BY <1>5, <3>1
      <3>3. \A i, j \in Said' : i = j
        BY <1>5, <1>7 DEF OneAnswer
      <3>4. \A i \in Said' : to_client'[i] = event
        BY <1>1, <1>5, <1>7 DEF OneAnswer
      <3>5. \A i \in Heard' : message_queue'[i].event = event
        BY <1>3, <1>4, <1>7, <3>1 DEF OneAnswer
      <3>6. QED BY <1>7, <3>1, <3>2, <3>3, <3>4, <3>5 DEF OneAnswer
    <2>2. CASE Head(to_client) # "CHAT_MESSAGE"
      <3>1. 1 \in Said /\ Heard = {}
        BY <1>5, <1>7, <2>2 DEF OneAnswer
      <3>2. Heard' = {Len(message_queue) + 1}
        BY <1>4, <2>2, <3>1
      <3>3. Said' = {}
        <4>1. \A i \in Said' : i + 1 = 1 /\ i \in Nat /\ i > 0
          BY <1>5, <1>7, <3>1 DEF OneAnswer
        <4>2. QED BY <4>1
      <3>4. message_queue'[Len(message_queue) + 1].event = event
        BY <1>1, <1>2, <1>3, <1>7, <3>1 DEF OneAnswer
      <3>5. QED BY <3>2, <3>3, <3>4 DEF OneAnswer
    <2>3. QED BY <2>1, <2>2
  <1>8. QED BY <1>6, <1>7

(* ... is where it was when what another client said is dropped, ... *)
LEMMA OtherDropped ==
  ASSUME ClientTypes, to_client # <<>>, Head(to_client) = "CHAT_MESSAGE",
         to_client' = Tail(to_client), UNCHANGED message_queue
  PROVE  /\ NoAnswer => NoAnswer'
         /\ \A event \in ServerEvents : OneAnswer(event) => OneAnswer(event)'
  <1>1. /\ to_client[1] = "CHAT_MESSAGE"
        /\ DOMAIN to_client = 1 .. Len(to_client)
        /\ Len(to_client) \in Nat \ {0}
        /\ DOMAIN to_client' = 1 .. Len(to_client) - 1
        /\ \A i \in 1 .. Len(to_client) - 1 : to_client'[i] = to_client[i + 1]
    BY TailIs DEF ClientTypes, WiresOK
  <1>2. /\ \A i \in Said' : i + 1 \in Said /\ i \in Nat
        /\ \A i \in Said : i - 1 \in Said' /\ i \in Nat
        /\ \A i \in Said' : to_client'[i] = to_client[i + 1]
    BY <1>1 DEF Said
  <1>3. Heard' = Heard
    BY DEF Heard, IsAnswer
  <1>4. NoAnswer => NoAnswer'
    BY <1>2, <1>3 DEF NoAnswer
  <1>5. ASSUME NEW event \in ServerEvents, OneAnswer(event)
        PROVE  OneAnswer(event)'
    <2>1. Said' = {} <=> Said = {}
      <3>1. (\E i : i \in Said) => \E i : i \in Said'
        BY <1>2
      <3>2. (\E i : i \in Said') => \E i : i \in Said
        BY <1>2
      <3>3. QED BY <3>1, <3>2
    <2>2. \A i, j \in Said' : i = j
      <3>1. \A i, j \in Said' : i + 1 = j + 1 /\ i \in Nat /\ j \in Nat
        <4>1. \A k, l \in Said : k = l
          BY <1>5 DEF OneAnswer
        <4>2. QED BY <1>2, <4>1
      <3>2. QED BY <3>1
    <2>3. \A i \in Said' : to_client'[i] = event
      BY <1>2, <1>5 DEF OneAnswer
    <2>4. \A i \in Heard' : message_queue'[i].event = event
      BY <1>3, <1>5 DEF OneAnswer
    <2>5. QED BY <1>3, <1>5, <2>1, <2>2, <2>3, <2>4 DEF OneAnswer
  <1>6. QED BY <1>4, <1>5

(* ... and is none any more once it is taken. *)
LEMMA AnswerTaken ==
  ASSUME ClientTypes, message_queue # <<>>, IsAnswer(Head(message_queue)),
         message_queue' = Tail(message_queue), UNCHANGED to_client
  PROVE  /\ ~NoAnswer
         /\ \A event \in ServerEvents :
              OneAnswer(event) => NoAnswer' /\ Head(message_queue).event = event
  <1>1. /\ Head(message_queue) = message_queue[1]
        /\ DOMAIN message_queue = 1 .. Len(message_queue)
        /\ Len(message_queue) \in Nat \ {0}
        /\ DOMAIN message_queue' = 1 .. Len(message_queue) - 1
        /\ \A i \in 1 .. Len(message_queue) - 1 : message_queue'[i] = message_queue[i + 1]
    BY TailIs DEF ClientTypes, ClientQueueOK, WiresOK
  <1>2. 1 \in Heard /\ \A i \in Heard' : i + 1 \in Heard /\ i \in Nat /\ i > 0
    BY <1>1 DEF Heard, IsAnswer
  <1>3. Said' = Said
    BY DEF Said
  <1>4. ASSUME NEW event \in ServerEvents, OneAnswer(event)
        PROVE  NoAnswer' /\ Head(message_queue).event = event
    <2>1. \A i \in Heard' : i + 1 = 1 /\ i \in Nat /\ i > 0
      BY <1>2, <1>4 DEF OneAnswer
    <2>2. Heard' = {} /\ Said' = {}
      BY <1>2, <1>3, <1>4, <2>1 DEF OneAnswer
    <2>3. QED BY <1>1, <1>2, <1>4, <2>2 DEF OneAnswer, NoAnswer
  <1>5. QED BY <1>2, <1>4 DEF NoAnswer

-----------------------------------------------------------------------------
(* Types. *)
LEMMA ToMainTypes ==
  ASSUME MainQueueOK, NEW m \in MainMessages, ToMain(m)
  PROVE  MainQueueOK'
  <1> DEFINE longer == Append(main_queue, m)
  <1>1. /\ longer \in Seq(MainMessages)
        /\ Len(longer) = Len(main_queue) + 1 /\ Len(main_queue) \in Nat
    BY AppendIs DEF MainQueueOK
  <1>2. \/ Len(main_queue) < MAIN_QUEUE_SIZE /\ main_queue' = longer
        \/ main_queue' = main_queue
    BY DEF ToMain
  <1> HIDE DEF longer
  <1>3. QED BY <1>1, <1>2, SizesAssumption DEF MainQueueOK

LEMMA ToChatClientTypes ==
  ASSUME ClientQueueOK, NEW m \in ClientMessages, ToChatClient(m)
  PROVE  ClientQueueOK'
  <1> DEFINE longer == Append(message_queue, m)
  <1>1. /\ longer \in Seq(ClientMessages)
        /\ Len(longer) = Len(message_queue) + 1 /\ Len(message_queue) \in Nat
    BY AppendIs DEF ClientQueueOK
  <1>2. \/ Len(message_queue) < CLIENT_QUEUE_SIZE /\ message_queue' = longer
        \/ message_queue' = message_queue
    BY DEF ToChatClient
  <1> HIDE DEF longer
  <1>3. QED BY <1>1, <1>2, SizesAssumption DEF ClientQueueOK

LEMMA MainReceivedTypes ==
  ASSUME MainQueueOK, NEW type, MainReceived(type)
  PROVE  MainQueueOK'
  <1>1. /\ main_queue' \in Seq(MainMessages) /\ Len(main_queue') = Len(main_queue) - 1
        /\ Len(main_queue) \in Nat
    BY TailIs DEF MainQueueOK, MainReceived
  <1>2. QED BY <1>1, SizesAssumption DEF MainQueueOK

LEMMA ReceivedTypes ==
  ASSUME ClientQueueOK, NEW type, Received(type)
  PROVE  /\ ClientQueueOK'
         /\ Head(message_queue) \in ClientMessages /\ Head(message_queue).type = type
         /\ type = "INCOMING_EVENT" => Head(message_queue).event \in ServerEvents
  <1>1. /\ message_queue' \in Seq(ClientMessages)
        /\ Len(message_queue') = Len(message_queue) - 1 /\ Len(message_queue) \in Nat
        /\ Head(message_queue) \in ClientMessages /\ Head(message_queue).type = type
    BY TailIs DEF ClientQueueOK, Received
  <1>2. ClientQueueOK'
    BY <1>1, SizesAssumption DEF ClientQueueOK
  <1>3. QED BY <1>1, <1>2, MessageIs

LEMMA SendTypes ==
  ASSUME WiresOK, NEW event \in ClientEvents, Send(event)
  PROVE  to_server' \in Seq(ClientEvents)
  <1>1. Append(to_server, event) \in Seq(ClientEvents)
    BY AppendIs DEF WiresOK
  <1>2. QED BY <1>1 DEF Send, WiresOK

(* What is followed by something is something. *)
LEMMA MoreIsSome ==
  /\ Len(to_client) > 1 => to_client # <<>>
  /\ Len(to_server) > 1 => to_server # <<>>
  <1>1. Len(<<>>) = 0
    BY EmptySeq
  <1>2. QED BY <1>1

LEMMA WireIs ==
  ASSUME WiresOK
  PROVE  /\ \A event \in ServerEvents : Append(to_client, event) \in Seq(ServerEvents)
         /\ to_client # <<>> => /\ Tail(to_client) \in Seq(ServerEvents)
                                /\ Head(to_client) \in ServerEvents
         /\ to_server # <<>> => Tail(to_server) \in Seq(ClientEvents)
         /\ <<>> \in Seq(ServerEvents) /\ <<>> \in Seq(ClientEvents)
  <1>1. \A event \in ServerEvents : Append(to_client, event) \in Seq(ServerEvents)
    BY AppendIs DEF WiresOK
  <1>2. to_client # <<>> => /\ Tail(to_client) \in Seq(ServerEvents)
                            /\ Head(to_client) \in ServerEvents
    BY TailIs DEF WiresOK
  <1>3. to_server # <<>> => Tail(to_server) \in Seq(ClientEvents)
    BY TailIs DEF WiresOK
  <1>4. QED BY <1>1, <1>2, <1>3, EmptySeq

(* What counts as open is a record of two. *)
LEMMA ClosingStatesKept ==
  ASSUME closing_states \in ClosingStates, [Next]_vars
  PROVE  closing_states' \in ClosingStates
  <1>1. \/ UNCHANGED closing_states
        \/ closing_states' = [closing_states EXCEPT !.ui = TRUE]
        \/ closing_states' = [closing_states EXCEPT !.ui = FALSE]
        \/ closing_states' = [closing_states EXCEPT !.client = TRUE]
        \/ closing_states' = [closing_states EXCEPT !.client = FALSE]
    BY Zenon
    DEF Next, MainThread, ClientThread, Server, vars, mainVars, OpenClient,
        OpenClientFails, OpenUI, MainUserInput, MainUIClosed, MainOther,
        MainClientClosed, MainEnds, Line, UICloses, EntryInput, ActiveInput,
        IncomingEvent, Ignored, ConnectionClosed, ClosingDone, Close, CloseDisconnected,
        Reports, Deliver, ConnectionEnds, ServerAnswers, ServerFails, ServerReceives,
        ServerBroadcasts, ServerShutsDown, Wire, ReadTogether, ServerReadsTogether,
        ConnectionStuck
  <1>2. QED BY <1>1 DEF ClosingStates

LEMMA TypesKept ==
  ASSUME ClientTypes, [Next]_vars
  PROVE  ClientTypes'
  <1> USE DEF ClientTypes, mainVars, clientVars, wireVars, counters
  <1>1. CASE OpenClient \/ OpenClientFails \/ MainEnds
    <2>1. UNCHANGED <<main_queue, message_queue, to_client, to_server>> /\ ControlTypes'
      BY <1>1 DEF OpenClient, OpenClientFails, MainEnds, ControlTypes, Live
    <2>2. QED BY <2>1 DEF MainQueueOK, ClientQueueOK, WiresOK
  <1>2. CASE OpenUI
    <2>1. UNCHANGED <<main_queue, to_client, to_server>> /\ ControlTypes'
      BY <1>2 DEF OpenUI, ControlTypes
    <2>2. ClientQueueOK'
      <3> DEFINE m == Message("CLOSE", "")
                 longer == Append(message_queue, m)
      <3>1. \/ UNCHANGED message_queue
            \/ Len(message_queue) < CLIENT_QUEUE_SIZE /\ message_queue' = longer
        BY <1>2 DEF OpenUI
      <3>2. m \in ClientMessages
        BY MessageIs
      <3> HIDE DEF m
      <3>3. /\ longer \in Seq(ClientMessages) /\ Len(longer) = Len(message_queue) + 1
            /\ Len(message_queue) \in Nat
        BY <3>2, AppendIs DEF ClientQueueOK
      <3> HIDE DEF longer
      <3>4. QED BY <3>1, <3>3, SizesAssumption DEF ClientQueueOK
    <2>3. QED BY <2>1, <2>2 DEF MainQueueOK, WiresOK
  <1>3. CASE MainUserInput \/ MainUIClosed
    <2>1. MainQueueOK' /\ ClientQueueOK'
      BY <1>3, MainReceivedTypes, ToChatClientTypes, MessageIs
      DEF MainUserInput, MainUIClosed
    <2>2. /\ UNCHANGED <<program, ui, state, connection, server, lost>>
          /\ UNCHANGED <<to_client, to_server>>
          /\ main_state' \in {main_state, "CLOSING"}
      BY <1>3 DEF MainUserInput, MainUIClosed
    <2>3. ControlTypes'
      BY <2>2 DEF ControlTypes
    <2>4. QED BY <2>1, <2>2, <2>3 DEF WiresOK
  <1>4. CASE MainOther \/ MainClientClosed
    <2>1. MainQueueOK'
      BY <1>4, MainReceivedTypes DEF MainOther, MainClientClosed
    <2>2. UNCHANGED <<message_queue, to_client, to_server>> /\ ControlTypes'
      BY <1>4 DEF MainOther, MainClientClosed, ControlTypes
    <2>3. QED BY <2>1, <2>2 DEF ClientQueueOK, WiresOK
  <1>5. CASE Line \/ UICloses \/ Reports
    <2>1. MainQueueOK'
      BY <1>5, ToMainTypes, MessageIs DEF Line, UICloses, Reports
    <2>2. /\ UNCHANGED <<program, main_state, connection, server, lost>>
          /\ UNCHANGED <<message_queue, to_client, to_server>>
          /\ ui' \in {ui, "closed"} /\ state' \in {state, "reported"}
      BY <1>5 DEF Line, UICloses, Reports
    <2>3. ControlTypes'
      BY <2>2 DEF ControlTypes
    <2>4. QED BY <2>1, <2>2, <2>3 DEF ClientQueueOK, WiresOK
  <1>6. CASE EntryInput
    <2>1. ClientQueueOK' /\ to_server' \in Seq(ClientEvents)
      BY <1>6, ReceivedTypes, SendTypes DEF EntryInput, ClientEvents
    <2>2. UNCHANGED <<main_queue, to_client>> /\ ControlTypes'
      BY <1>6 DEF EntryInput, ControlTypes, Live, Verifying
    <2>3. QED BY <2>1, <2>2 DEF MainQueueOK, WiresOK
  <1>7. CASE ActiveInput
    <2>1. ClientQueueOK' /\ to_server' \in Seq(ClientEvents) /\ MainQueueOK'
      BY <1>7, ReceivedTypes, SendTypes, ToMainTypes, MessageIs
      DEF ActiveInput, PrintEvent, ClientEvents, ServerEvents
    <2>2. UNCHANGED to_client /\ ControlTypes'
      BY <1>7 DEF ActiveInput, ControlTypes
    <2>3. QED BY <2>1, <2>2 DEF WiresOK
  <1>8. CASE IncomingEvent
    <2> DEFINE event == Head(message_queue).event
    <2>1. ClientQueueOK' /\ event \in ServerEvents
      BY <1>8, ReceivedTypes DEF IncomingEvent
    <2>2. /\ UNCHANGED <<program, main_state, ui, connection, to_client, server, lost>>
          /\ state \in Live /\ state' = StateAfter(event)
          /\ UNCHANGED main_queue \/ PrintEvent(event)
          /\ UNCHANGED to_server \/ Send("USERNAME_REQUEST")
      BY <1>8 DEF IncomingEvent
    <2> HIDE DEF event
    <2>3. MainQueueOK'
      BY <2>1, <2>2, ToMainTypes, MessageIs DEF PrintEvent, MainQueueOK
    <2>4. to_server' \in Seq(ClientEvents)
      BY <2>2, SendTypes DEF ClientEvents, WiresOK
    <2>5. state' \in Live
      BY <2>2 DEF StateAfter, Live, Entry
    <2>6. QED BY <2>1, <2>2, <2>3, <2>4, <2>5 DEF ControlTypes, WiresOK
  <1>9. CASE Ignored \/ ClosingDone \/ CloseDisconnected
    <2>1. ClientQueueOK'
      BY <1>9, ReceivedTypes DEF Ignored, ClosingDone, CloseDisconnected
    <2>2. UNCHANGED <<main_queue, to_client, to_server>> /\ ControlTypes'
      BY <1>9 DEF Ignored, ClosingDone, CloseDisconnected, ControlTypes
    <2>3. QED BY <2>1, <2>2 DEF MainQueueOK, WiresOK
  <1>10. CASE ConnectionClosed
    <2>1. ClientQueueOK' /\ MainQueueOK'
      BY <1>10, ReceivedTypes, ToMainTypes, MessageIs
      DEF ConnectionClosed, PrintEvent
    <2>2. UNCHANGED <<to_client, to_server>> /\ ControlTypes'
      BY <1>10 DEF ConnectionClosed, ControlTypes
    <2>3. QED BY <2>1, <2>2 DEF WiresOK
  <1>11. CASE Close
    <2>1. ClientQueueOK' /\ to_server' \in Seq(ClientEvents)
      BY <1>11, ReceivedTypes, SendTypes DEF Close, ClientEvents
    <2>2. UNCHANGED <<main_queue, to_client>> /\ ControlTypes'
      BY <1>11 DEF Close, ControlTypes
    <2>3. QED BY <2>1, <2>2 DEF MainQueueOK, WiresOK
  <1>12. CASE Deliver
    <2>1. ClientQueueOK' /\ to_client' \in Seq(ServerEvents)
      BY <1>12, WireIs, ToChatClientTypes, MessageIs DEF Deliver
    <2>2. UNCHANGED <<main_queue, to_server>> /\ ControlTypes'
      BY <1>12 DEF Deliver, ControlTypes
    <2>3. QED BY <2>1, <2>2 DEF MainQueueOK, WiresOK
  <1>13. CASE ConnectionEnds
    <2>1. ClientQueueOK' /\ WiresOK'
      BY <1>13, WireIs, ToChatClientTypes, MessageIs DEF ConnectionEnds, WiresOK
    <2>2. /\ UNCHANGED <<program, main_state, ui, state, server, lost, main_queue>>
          /\ connection' = "closed"
      BY <1>13 DEF ConnectionEnds
    <2>3. ControlTypes'
      BY <2>2 DEF ControlTypes
    <2>4. QED BY <2>1, <2>2, <2>3 DEF MainQueueOK
  <1>14. CASE Server
    <2>1. UNCHANGED <<main_queue, message_queue>> /\ ControlTypes'
      BY <1>14
      DEF Server, ServerAnswers, ServerFails, ServerReceives, ServerBroadcasts,
          ServerShutsDown, ControlTypes
    <2>2. /\ \/ UNCHANGED to_client
             \/ \E event \in ServerEvents : to_client' = Append(to_client, event)
          /\ UNCHANGED to_server \/ (to_server # <<>> /\ to_server' = Tail(to_server))
      BY <1>14
      DEF Server, ServerAnswers, ServerFails, ServerReceives, ServerBroadcasts,
          ServerShutsDown, ServerEvents
    <2>3. WiresOK'
      BY <2>2, WireIs DEF WiresOK
    <2>4. QED BY <2>1, <2>3 DEF MainQueueOK, ClientQueueOK
  <1>15. CASE ReadTogether \/ ServerReadsTogether \/ ConnectionStuck
    <2>1. UNCHANGED <<main_queue, message_queue>> /\ ControlTypes'
      BY <1>15 DEF ReadTogether, ServerReadsTogether, ConnectionStuck, Drop, ControlTypes
    <2>2. /\ UNCHANGED to_client \/ (to_client # <<>> /\ to_client' = Tail(to_client))
          /\ UNCHANGED to_server \/ (to_server # <<>> /\ to_server' = Tail(to_server))
      BY <1>15, MoreIsSome DEF ReadTogether, ServerReadsTogether, ConnectionStuck
    <2>3. WiresOK'
      BY <2>2, WireIs DEF WiresOK
    <2>4. QED BY <2>1, <2>3 DEF MainQueueOK, ClientQueueOK
  <1>16. CASE UNCHANGED vars
    BY <1>16 DEF vars, ControlTypes, MainQueueOK, ClientQueueOK, WiresOK
  <1>17. QED
    BY <1>1, <1>2, <1>3, <1>4, <1>5, <1>6, <1>7, <1>8, <1>9, <1>10, <1>11, <1>12, <1>13,
       <1>14, <1>15, <1>16
    DEF Next, MainThread, ClientThread, Wire

-----------------------------------------------------------------------------
(* The beginning and the end of the connection. *)
LEMMA StartKept ==
  ASSUME ClientTypes, StartInv, [Next]_vars
  PROVE  StartInv'
  <1> USE DEF StartInv, mainVars, clientVars, wireVars, counters
  <1>1. CASE OpenClient
    BY <1>1 DEF OpenClient
  <1>2. CASE OpenClientFails
    BY <1>2 DEF OpenClientFails
  <1>3. CASE OpenUI
    BY <1>3 DEF OpenUI
  <1>4. CASE \/ MainUserInput \/ MainUIClosed \/ MainOther \/ MainClientClosed
             \/ MainEnds
    <2>1. program = "running" /\ program' # "opening" /\ UNCHANGED connection
      BY <1>4
      DEF MainUserInput, MainUIClosed, MainOther, MainClientClosed, MainEnds,
          MainReceived
    <2>2. QED BY <2>1
  <1>5. CASE Line \/ UICloses
    BY <1>5 DEF Line, UICloses
  <1>6. CASE ClientThread
    <2>1. /\ state # "INIT" /\ UNCHANGED program
          /\ connection' = "init" => connection = "init"
      BY <1>6
      DEF ClientThread, EntryInput, ActiveInput, IncomingEvent, Ignored,
          ConnectionClosed, ClosingDone, Close, CloseDisconnected, Reports, Received
    <2>2. QED BY <2>1
  <1>7. CASE Wire \/ Server
    <2>1. /\ connection \in {"open", "closing"} /\ connection' # "init"
          /\ UNCHANGED program
      BY <1>7
      DEF Wire, ReadTogether, ServerReadsTogether, ConnectionStuck, Deliver,
          ConnectionEnds, Server, ServerAnswers, ServerFails, ServerReceives,
          ServerBroadcasts, ServerShutsDown, Serving
    <2>2. QED BY <2>1
  <1>8. CASE UNCHANGED vars
    BY <1>8 DEF vars
  <1>9. QED
    BY <1>1, <1>2, <1>3, <1>4, <1>5, <1>6, <1>7, <1>8 DEF Next, MainThread

(* A step after which the program runs is one of a program that runs, and opens the
   connection only when it starts.  *)
LEMMA StillRunning ==
  ASSUME StartInv, [Next]_vars, Running'
  PROVE  /\ Running
         /\ connection' # "closed" => connection # "closed"
         /\ connection' = "open" => connection = "open" \/ OpenClient
         /\ ~lost' => ~lost
  <1> USE DEF mainVars, clientVars, wireVars, counters
  <1>1. CASE Next
    <2>1. Running
      BY <1>1
      DEF Next, MainThread, ClientThread, Server, OpenClient, OpenClientFails, OpenUI,
          MainUserInput, MainUIClosed, MainOther, MainClientClosed, MainEnds, Line,
          UICloses, EntryInput, ActiveInput, IncomingEvent, Ignored, ConnectionClosed,
          ClosingDone, Close, CloseDisconnected, Reports, Deliver, ConnectionEnds,
          ServerAnswers, ServerFails, ServerReceives, ServerBroadcasts, ServerShutsDown,
          Serving, Received, MainReceived, Wire, ReadTogether, ServerReadsTogether,
          ConnectionStuck
    <2>2. /\ connection' # "closed" => connection # "closed"
          /\ connection' = "open" => connection = "open" \/ OpenClient
      BY <1>1
      DEF Next, MainThread, ClientThread, Server, StartInv, OpenClient, OpenClientFails,
          OpenUI, MainUserInput, MainUIClosed, MainOther, MainClientClosed, MainEnds,
          Line, UICloses, EntryInput, ActiveInput, IncomingEvent, Ignored,
          ConnectionClosed, ClosingDone, Close, CloseDisconnected, Reports, Deliver,
          ConnectionEnds, ServerAnswers, ServerFails, ServerReceives, ServerBroadcasts,
          ServerShutsDown, Wire, ReadTogether, ServerReadsTogether, ConnectionStuck
    <2>3. ~lost' => ~lost
      <3>1. UNCHANGED lost \/ ReadTogether \/ ServerReadsTogether
        BY <1>1
        DEF Next, MainThread, ClientThread, Server, Wire, OpenClient, OpenClientFails,
            OpenUI, MainUserInput, MainUIClosed, MainOther, MainClientClosed, MainEnds,
            Line, UICloses, EntryInput, ActiveInput, IncomingEvent, Ignored,
            ConnectionClosed, ClosingDone, Close, CloseDisconnected, Reports, Deliver,
            ConnectionEnds, ServerAnswers, ServerFails, ServerReceives,
            ServerBroadcasts, ServerShutsDown, ConnectionStuck
      <3>2. QED BY <3>1 DEF ReadTogether, ServerReadsTogether, Drop
    <2>4. QED BY <2>1, <2>2, <2>3
  <1>2. CASE UNCHANGED vars
    BY <1>2 DEF vars, Running
  <1>3. QED BY <1>1, <1>2

(* What is put into chat_client's queue, while the program runs on. *)
LEMMA PutOf ==
  ASSUME Running', NEW m, ToChatClient(m)
  PROVE  message_queue' = Append(message_queue, m)
  BY DEF Running, ToChatClient

LEMMA QueueChanges ==
  ASSUME ClientTypes, [Next]_vars, Running'
  PROVE  \/ UNCHANGED message_queue
         \/ message_queue # <<>> /\ message_queue' = Tail(message_queue)
         \/ \E m \in ClientMessages :
              /\ message_queue' = Append(message_queue, m)
              /\ m.type = "CONNECTION_CLOSED" => connection' = "closed"
  <1> USE DEF mainVars, clientVars, wireVars, counters
  <1>1. CASE OpenUI
    BY <1>1, MessageIs DEF OpenUI
  <1>2. CASE MainUserInput
    BY <1>2, PutOf, MessageIs DEF MainUserInput
  <1>3. CASE MainUIClosed
    BY <1>3, PutOf, MessageIs DEF MainUIClosed
  <1>4. CASE Deliver
    <2>1. Head(to_client) \in ServerEvents
      BY <1>4, WireIs DEF Deliver, ClientTypes
    <2> DEFINE m == Message("INCOMING_EVENT", Head(to_client))
    <2>2. m \in ClientMessages /\ m.type = "INCOMING_EVENT"
      BY <2>1, MessageIs
    <2>3. ToChatClient(m)
      BY <1>4 DEF Deliver
    <2> HIDE DEF m
    <2>4. QED BY <2>2, <2>3, PutOf
  <1>5. CASE ConnectionEnds
    BY <1>5, PutOf, MessageIs DEF ConnectionEnds
  <1>6. CASE ClientThread
    BY <1>6
    DEF ClientThread, EntryInput, ActiveInput, IncomingEvent, Ignored, ConnectionClosed,
        ClosingDone, Close, CloseDisconnected, Reports, Received
  <1>7. CASE \/ OpenClient \/ OpenClientFails \/ MainOther \/ MainClientClosed
             \/ MainEnds \/ Line \/ UICloses \/ Server \/ ReadTogether
             \/ ServerReadsTogether \/ ConnectionStuck
    BY <1>7
    DEF ReadTogether, ServerReadsTogether, ConnectionStuck, OpenClient, OpenClientFails, MainOther, MainClientClosed, MainEnds, Line,
        UICloses, Server, ServerAnswers, ServerFails, ServerReceives, ServerBroadcasts,
        ServerShutsDown
  <1>8. CASE UNCHANGED vars
    BY <1>8 DEF vars
  <1>9. QED
    BY <1>1, <1>2, <1>3, <1>4, <1>5, <1>6, <1>7, <1>8 DEF Next, MainThread, Wire

LEMMA OpenKept ==
  ASSUME ClientTypes, StartInv, OpenInv, [Next]_vars, Running'
  PROVE  OpenInv'
  <1> SUFFICES ASSUME connection' # "closed"
               PROVE  \A i \in DOMAIN message_queue' :
                        message_queue'[i].type # "CONNECTION_CLOSED"
    BY DEF OpenInv
  <1>1. \A i \in DOMAIN message_queue : message_queue[i].type # "CONNECTION_CLOSED"
    BY StillRunning DEF OpenInv
  <1>2. message_queue \in Seq(ClientMessages)
    BY DEF ClientTypes, ClientQueueOK
  <1>3. CASE UNCHANGED message_queue
    BY <1>1, <1>3
  <1>4. CASE message_queue # <<>> /\ message_queue' = Tail(message_queue)
    BY <1>1, <1>2, <1>4, TailIs
  <1>5. ASSUME NEW m \in ClientMessages, message_queue' = Append(message_queue, m),
               m.type # "CONNECTION_CLOSED"
        PROVE  \A i \in DOMAIN message_queue' :
                 message_queue'[i].type # "CONNECTION_CLOSED"
    BY <1>1, <1>2, <1>5, AppendIs
  <1>6. QED BY <1>3, <1>4, <1>5, QueueChanges

-----------------------------------------------------------------------------
(* The login. *)

(* Client and server stay where they are, and the answer is where it was or
   further on. *)
LEMMA LoginStays ==
  ASSUME LoginInv, UNCHANGED <<server, state, to_server>>,
         NoAnswer => NoAnswer',
         \A event \in ServerEvents : OneAnswer(event) => OneAnswer(event)'
  PROVE  LoginInv'
  BY DEF LoginInv, Silent, Answered, Submitted, ServerEvents

(* The first of the messages is taken. *)
LEMMA FirstTaken ==
  ASSUME ClientTypes, NEW type, Received(type), UNCHANGED to_client
  PROVE  /\ type # "INCOMING_EVENT" \/ Head(message_queue).event = "CHAT_MESSAGE" =>
              /\ NoAnswer => NoAnswer'
              /\ \A event \in ServerEvents : OneAnswer(event) => OneAnswer(event)'
         /\ type = "INCOMING_EVENT" /\ Head(message_queue).event # "CHAT_MESSAGE" =>
              /\ ~NoAnswer
              /\ \A event \in ServerEvents :
                   OneAnswer(event) => NoAnswer' /\ Head(message_queue).event = event
  <1>1. /\ message_queue # <<>> /\ message_queue' = Tail(message_queue)
        /\ Head(message_queue).type = type
    BY DEF Received
  <1>2. IsAnswer(Head(message_queue)) <=>
          type = "INCOMING_EVENT" /\ Head(message_queue).event # "CHAT_MESSAGE"
    BY <1>1 DEF IsAnswer
  <1>3. CASE IsAnswer(Head(message_queue))
    BY <1>1, <1>2, <1>3, AnswerTaken
  <1>4. CASE ~IsAnswer(Head(message_queue))
    BY <1>1, <1>2, <1>4, OtherTaken
  <1>5. QED BY <1>3, <1>4

(* The client waits for the answer it is given. *)
LEMMA AnswerAwaited ==
  ASSUME LoginInv, server \notin {"failed", "closing"}, NEW event \in ServerEvents,
         ~NoAnswer, \A e \in ServerEvents : OneAnswer(e) => event = e
  PROVE  /\ Answered(event) /\ Handles(event)
         /\ \/ server = "USERNAME" /\ event = "USERNAME_REQUEST"
            \/ server = "PASSWORD" /\ event = "PASSWORD_REQUEST"
            \/ server = "ACTIVE" /\ event \in {"AUTHENTICATED", "USERNAME_SUBMIT"}
  <1>1. \/ /\ server = "USERNAME"
           /\ state \in {"CONNECTED", "USERNAME_VERIFYING"}
           /\ Answered("USERNAME_REQUEST")
        \/ /\ server = "PASSWORD" /\ state \in Verifying
           /\ Answered("PASSWORD_REQUEST")
        \/ /\ server = "ACTIVE" /\ state = "PASSWORD_VERIFYING"
           /\ Answered("AUTHENTICATED")
        \/ /\ server = "ACTIVE" /\ state = "AUTHENTICATED"
           /\ Answered("USERNAME_SUBMIT")
    BY DEF LoginInv, Silent, Submitted
  <1>2. QED BY <1>1 DEF Handles, Expecting, Verifying, ServerEvents, Answered

LEMMA ClientEventIs == \A event \in ClientEvents : Append(<<>>, event) = <<event>>
  OBVIOUS

LEMMA LoginKept ==
  ASSUME ClientTypes, StartInv, OpenInv,
         connection = "open" /\ ~lost => LoginInv,
         [Next]_vars, Running', connection' = "open", ~lost'
  PROVE  LoginInv'
  <1> USE DEF mainVars, clientVars, wireVars, counters
  <1>1. CASE OpenClient
    <2>1. connection = "init"
      BY <1>1 DEF OpenClient, StartInv
    <2>2. /\ message_queue' = <<>> /\ to_client' = <<>> /\ to_server' = <<>>
          /\ server' = "INIT" /\ state' = "CONNECTED"
      BY <1>1, <2>1 DEF OpenClient, StartInv
    <2>3. QED BY <2>2 DEF LoginInv, Silent, NoAnswer, Heard, Said
  <1> SUFFICES ASSUME connection = "open", LoginInv
               PROVE  LoginInv'
    BY <1>1, StillRunning
  <1>2. CASE server' \in {"failed", "closing"}
    BY <1>2 DEF LoginInv
  <1>3. CASE \/ OpenClientFails \/ MainOther \/ MainClientClosed \/ MainEnds
             \/ Line \/ UICloses \/ UNCHANGED vars
    <2>1. UNCHANGED <<server, state, to_server, message_queue, to_client>>
      BY <1>3
      DEF OpenClientFails, MainOther, MainClientClosed, MainEnds, Line, UICloses, vars
    <2>2. QED BY <2>1, AnswersKept, LoginStays
  <1>4. CASE OpenUI \/ MainUserInput \/ MainUIClosed
    <2>1. UNCHANGED <<server, state, to_server, to_client>>
      BY <1>4 DEF OpenUI, MainUserInput, MainUIClosed
    <2>2. \/ UNCHANGED message_queue
          \/ \E type \in {"CLOSE", "USER_INPUT"} :
               message_queue' = Append(message_queue, Message(type, ""))
      BY <1>4, PutOf DEF OpenUI, MainUserInput, MainUIClosed
    <2>3. ASSUME NEW type \in {"CLOSE", "USER_INPUT"},
                 message_queue' = Append(message_queue, Message(type, ""))
          PROVE  LoginInv'
      <3>1. Message(type, "") \in ClientMessages /\ ~IsAnswer(Message(type, ""))
        BY MessageIs DEF IsAnswer
      <3>2. QED BY <2>1, <2>3, <3>1, OtherPut, LoginStays
    <2>4. CASE UNCHANGED message_queue
      BY <2>1, <2>4, AnswersKept, LoginStays
    <2>5. QED BY <2>2, <2>3, <2>4
  <1>5. CASE EntryInput
    <2>1. /\ NoAnswer => NoAnswer'
          /\ state \in Entry /\ UNCHANGED server
      BY <1>5, FirstTaken DEF EntryInput
    <2>2. /\ to_server' = Append(to_server, IF state = "USERNAME_ENTRY"
                                            THEN "USERNAME_SUBMIT"
                                            ELSE "PASSWORD_SUBMIT")
          /\ state' = IF state = "USERNAME_ENTRY" THEN "USERNAME_VERIFYING"
                                                  ELSE "PASSWORD_VERIFYING"
      BY <1>5 DEF EntryInput, Send
    <2>3. CASE server = "USERNAME" /\ state = "USERNAME_ENTRY" /\ Silent
      <3>1. to_server' = <<"USERNAME_SUBMIT">>
        BY <2>2, <2>3, ClientEventIs DEF Silent, ClientEvents
      <3>2. QED BY <2>1, <2>2, <2>3, <3>1 DEF LoginInv, Silent, Submitted
    <2>4. CASE server = "PASSWORD" /\ state = "PASSWORD_ENTRY" /\ Silent
      <3>1. to_server' = <<"PASSWORD_SUBMIT">>
        BY <2>2, <2>4, ClientEventIs DEF Silent, ClientEvents
      <3>2. QED BY <2>1, <2>2, <2>4, <3>1 DEF LoginInv, Silent, Submitted
    <2>5. QED BY <1>2, <2>1, <2>3, <2>4 DEF LoginInv, Entry, Verifying
  <1>6. CASE ActiveInput
    <2>1. /\ NoAnswer => NoAnswer'
          /\ state = "ACTIVE" /\ state' = state /\ UNCHANGED server
      BY <1>6, FirstTaken DEF ActiveInput
    <2>2. to_server' = Append(to_server, "CHAT_MESSAGE")
      BY <1>6 DEF ActiveInput, Send
    <2>3. CASE server = "ACTIVE" /\ NoAnswer
               /\ \A i \in DOMAIN to_server : to_server[i] = "CHAT_MESSAGE"
      <3>1. \A i \in DOMAIN to_server' : to_server'[i] = "CHAT_MESSAGE"
        BY <2>2, <2>3, AppendIs DEF ClientTypes, WiresOK, ClientEvents
      <3>2. QED BY <2>1, <2>3, <3>1 DEF LoginInv
    <2>4. QED BY <1>2, <2>1, <2>3 DEF LoginInv, Verifying
  <1>7. CASE IncomingEvent
    <2> DEFINE event == Head(message_queue).event
    <2>1. /\ event \in ServerEvents /\ UNCHANGED <<server, to_client>>
          /\ Handles(event) /\ state' = StateAfter(event)
          /\ IF event = "AUTHENTICATED"
             THEN to_server' = Append(to_server, "USERNAME_REQUEST")
             ELSE UNCHANGED to_server
      BY <1>7, ReceivedTypes DEF IncomingEvent, Send, ClientTypes
    <2>2. CASE event = "CHAT_MESSAGE"
      <3>1. UNCHANGED <<state, to_server>>
        BY <2>1, <2>2 DEF StateAfter
      <3>2. /\ NoAnswer => NoAnswer'
            /\ \A e \in ServerEvents : OneAnswer(e) => OneAnswer(e)'
        BY <1>7, <2>2, FirstTaken DEF IncomingEvent
      <3>3. QED BY <2>1, <3>1, <3>2, LoginStays
    <2>3. CASE event # "CHAT_MESSAGE" /\ server \notin {"failed", "closing"}
      <3>1. /\ ~NoAnswer
            /\ \A e \in ServerEvents : OneAnswer(e) => NoAnswer' /\ event = e
        BY <1>7, <2>3, FirstTaken DEF IncomingEvent
      <3> HIDE DEF event
      <3>2. /\ Answered(event)
            /\ \/ server = "USERNAME" /\ event = "USERNAME_REQUEST"
               \/ server = "PASSWORD" /\ event = "PASSWORD_REQUEST"
               \/ server = "ACTIVE" /\ event \in {"AUTHENTICATED", "USERNAME_SUBMIT"}
        BY <2>1, <2>3, <3>1, AnswerAwaited
      <3>3. NoAnswer' /\ to_server = <<>>
        BY <2>1, <3>1, <3>2 DEF Answered
      <3>4. event = "AUTHENTICATED" => to_server' = <<"USERNAME_REQUEST">>
        BY <2>1, <3>3, ClientEventIs DEF ClientEvents
      <3>5. event # "AUTHENTICATED" => to_server' = <<>>
        BY <2>1, <3>3
      <3>6. QED BY <2>1, <3>2, <3>3, <3>4, <3>5
                DEF LoginInv, Silent, Submitted, StateAfter
    <2>4. QED BY <1>2, <2>1, <2>2, <2>3
  <1>8. CASE Ignored
    <2>1. UNCHANGED <<server, state, to_server, to_client>>
      BY <1>8 DEF Ignored
    <2>2. CASE Received("USER_INPUT") \/ Received("CLOSE")
      BY <2>1, <2>2, FirstTaken, LoginStays
    <2>3. CASE Received("INCOMING_EVENT") /\ server \notin {"failed", "closing"}
      <3>1. Head(message_queue).event \in ServerEvents
        BY <2>3, ReceivedTypes DEF ClientTypes
      <3>2. CASE Head(message_queue).event = "CHAT_MESSAGE"
        BY <2>1, <2>3, <3>2, FirstTaken, LoginStays
      <3>3. CASE Head(message_queue).event # "CHAT_MESSAGE"
        <4>1. /\ ~NoAnswer
              /\ \A e \in ServerEvents : OneAnswer(e) => Head(message_queue).event = e
          BY <2>1, <2>3, <3>3, FirstTaken
        <4>2. Handles(Head(message_queue).event)
          BY <2>3, <3>1, <4>1, AnswerAwaited
        <4>3. state \in Live
          BY <2>3 DEF LoginInv, Live, Entry, Verifying
        <4>4. ~(state \in Live /\ Handles(Head(message_queue).event))
          BY <1>8, <2>3 DEF Ignored, Received
        <4>5. QED BY <4>2, <4>3, <4>4
      <3>4. QED BY <3>2, <3>3
    <2>4. QED BY <1>2, <1>8, <2>1, <2>2, <2>3 DEF Ignored
  <1>9. CASE ConnectionClosed \/ ClosingDone
    <2>1. /\ message_queue # <<>> /\ Head(message_queue).type = "CONNECTION_CLOSED"
          /\ message_queue \in Seq(ClientMessages)
      BY <1>9
      DEF ConnectionClosed, ClosingDone, Received, ClientTypes, ClientQueueOK
    <2>2. 1 \in DOMAIN message_queue /\ message_queue[1].type = "CONNECTION_CLOSED"
      BY <2>1, TailIs
    <2>3. QED BY <2>2 DEF OpenInv
  <1>10. CASE Close \/ ConnectionEnds \/ ConnectionStuck
    BY <1>10 DEF Close, ConnectionEnds, ConnectionStuck
  <1>11. CASE CloseDisconnected \/ Reports
    <2>1. state \in {"DISCONNECTED", "CLOSED"} /\ UNCHANGED server
      BY <1>11 DEF CloseDisconnected, Reports
    <2>2. QED BY <1>2, <2>1 DEF LoginInv, Verifying
  <1>12. CASE Deliver
    <2>1. /\ UNCHANGED <<server, state, to_server>>
          /\ to_client # <<>> /\ to_client' = Tail(to_client)
          /\ message_queue' =
               Append(message_queue, Message("INCOMING_EVENT", Head(to_client)))
      BY <1>12, PutOf DEF Deliver
    <2>2. QED BY <2>1, AnswerDelivered, LoginStays
  <1>13. ASSUME NEW step \in {"USERNAME_REQUEST", "PASSWORD_REQUEST", "AUTHENTICATED"},
                ServerAnswers(step)
         PROVE  LoginInv'
    <2>1. /\ UNCHANGED <<state, message_queue, to_server>>
          /\ to_client' = Append(to_client, step)
          /\ server' = CASE step = "USERNAME_REQUEST" -> "USERNAME"
                         [] step = "PASSWORD_REQUEST" -> "PASSWORD"
                         [] step = "AUTHENTICATED" -> "ACTIVE"
      BY <1>13 DEF ServerAnswers
    <2>2. /\ Silent
          /\ \/ /\ server = "INIT" /\ state = "CONNECTED"
                /\ step = "USERNAME_REQUEST"
             \/ /\ server = "USERNAME_PROCESSING" /\ state = "USERNAME_VERIFYING"
                /\ step \in {"USERNAME_REQUEST", "PASSWORD_REQUEST"}
             \/ /\ server = "PASSWORD_PROCESSING" /\ state = "PASSWORD_VERIFYING"
                /\ step \in {"PASSWORD_REQUEST", "AUTHENTICATED"}
      BY <1>13 DEF ServerAnswers, LoginInv
    <2>3. OneAnswer(step)' /\ to_server' = <<>>
      BY <2>1, <2>2, AnswerSaid DEF Silent, ServerEvents
    <2>4. QED BY <2>1, <2>2, <2>3 DEF LoginInv, Answered, Verifying
  <1>14. CASE ServerFails \/ ServerShutsDown
    BY <1>2, <1>14 DEF ServerFails, ServerShutsDown
  <1>15. CASE ServerReceives
    <2> DEFINE event == Head(to_server)
    <2>1. /\ UNCHANGED <<state, message_queue>> /\ to_server # <<>>
          /\ event \in Awaited /\ to_server' = Tail(to_server)
          /\ server' = CASE event = "USERNAME_SUBMIT" -> "USERNAME_PROCESSING"
                         [] event = "PASSWORD_SUBMIT" -> "PASSWORD_PROCESSING"
                         [] OTHER -> server
          /\ to_client' = IF event = "USERNAME_REQUEST"
                          THEN Append(to_client, "USERNAME_SUBMIT") ELSE to_client
      BY <1>15 DEF ServerReceives
    <2>2. ASSUME NEW e \in ClientEvents, to_server = <<e>>
          PROVE  event = e /\ to_server' = <<>>
      BY <2>1, <2>2
    <2>3. server \notin {"failed", "closing"}
      BY <2>1 DEF Awaited
    <2> HIDE DEF event
    <2>4. CASE server = "USERNAME" /\ state = "USERNAME_VERIFYING"
               /\ Submitted("USERNAME_SUBMIT")
      <3>1. event = "USERNAME_SUBMIT" /\ to_server' = <<>>
        BY <2>2, <2>4 DEF Submitted, ClientEvents
      <3>2. NoAnswer'
        BY <2>1, <2>4, <3>1, AnswersKept DEF Submitted
      <3>3. QED BY <2>1, <2>4, <3>1, <3>2 DEF LoginInv, Silent
    <2>5. CASE server = "PASSWORD" /\ state = "PASSWORD_VERIFYING"
               /\ Submitted("PASSWORD_SUBMIT")
      <3>1. event = "PASSWORD_SUBMIT" /\ to_server' = <<>>
        BY <2>2, <2>5 DEF Submitted, ClientEvents
      <3>2. NoAnswer'
        BY <2>1, <2>5, <3>1, AnswersKept DEF Submitted
      <3>3. QED BY <2>1, <2>5, <3>1, <3>2 DEF LoginInv, Silent
    <2>6. CASE server = "ACTIVE" /\ state = "AUTHENTICATED"
               /\ Submitted("USERNAME_REQUEST")
      <3>1. event = "USERNAME_REQUEST" /\ to_server' = <<>>
        BY <2>2, <2>6 DEF Submitted, ClientEvents
      <3>2. OneAnswer("USERNAME_SUBMIT")'
        BY <2>1, <2>6, <3>1, AnswerSaid DEF Submitted, ServerEvents
      <3>3. server' = "ACTIVE"
        BY <2>1, <2>6, <3>1
      <3>4. QED BY <2>1, <2>6, <3>1, <3>2, <3>3 DEF LoginInv, Answered
    <2>7. CASE server = "ACTIVE" /\ state = "ACTIVE" /\ NoAnswer
               /\ \A i \in DOMAIN to_server : to_server[i] = "CHAT_MESSAGE"
      <3>1. to_server \in Seq(ClientEvents)
        BY DEF ClientTypes, WiresOK
      <3>2. event = "CHAT_MESSAGE"
        BY <2>1, <2>7, <3>1, TailIs DEF event
      <3>3. \A i \in DOMAIN to_server' : to_server'[i] = "CHAT_MESSAGE"
        BY <2>1, <2>7, <3>1, TailIs
      <3>4. NoAnswer' /\ server' = "ACTIVE"
        BY <2>1, <2>7, <3>2, AnswersKept
      <3>5. QED BY <2>1, <2>7, <3>3, <3>4 DEF LoginInv
    <2>8. QED BY <2>1, <2>3, <2>4, <2>5, <2>6, <2>7 DEF LoginInv, Silent, Answered
  <1>16. CASE ServerBroadcasts
    <2>1. /\ UNCHANGED <<server, state, to_server, message_queue>>
          /\ to_client' = Append(to_client, "CHAT_MESSAGE")
      BY <1>16 DEF ServerBroadcasts
    <2>2. QED BY <2>1, OtherSaid, LoginStays
  <1>17. CASE ReadTogether
    <2>1. /\ UNCHANGED <<server, state, to_server, message_queue>>
          /\ to_client # <<>> /\ to_client' = Tail(to_client)
          /\ Head(to_client) = "CHAT_MESSAGE"
      BY <1>17, MoreIsSome DEF ReadTogether, Drop
    <2>2. QED BY <2>1, OtherDropped, LoginStays
  <1>18. CASE ServerReadsTogether
    <2>1. /\ UNCHANGED <<server, state, to_client, message_queue>>
          /\ Len(to_server) > 1 /\ to_server' = Tail(to_server)
      BY <1>18 DEF ServerReadsTogether
    <2>2. \A event \in ClientEvents : to_server # <<event>>
      BY <2>1
    <2>3. to_server # <<>> /\ to_server \in Seq(ClientEvents)
      BY <2>1, MoreIsSome DEF ClientTypes, WiresOK
    <2>4. CASE /\ server = "ACTIVE" /\ state = "ACTIVE" /\ NoAnswer
               /\ \A i \in DOMAIN to_server : to_server[i] = "CHAT_MESSAGE"
      <3>1. \A i \in DOMAIN to_server' : to_server'[i] = "CHAT_MESSAGE"
        BY <2>1, <2>3, <2>4, TailIs
      <3>2. QED BY <2>1, <2>4, <3>1, AnswersKept DEF LoginInv
    <2>5. server \in {"failed", "closing"} \/ (server = "ACTIVE" /\ state = "ACTIVE"
            /\ NoAnswer /\ \A i \in DOMAIN to_server : to_server[i] = "CHAT_MESSAGE")
      BY <2>2, <2>3 DEF LoginInv, Silent, Answered, Submitted, ClientEvents
    <2>6. QED BY <1>2, <2>1, <2>4, <2>5
  <1>19. QED
    BY <1>1, <1>3, <1>4, <1>5, <1>6, <1>7, <1>8, <1>9, <1>10, <1>11, <1>12, <1>13, <1>14,
       <1>15, <1>16, <1>17, <1>18
    DEF Next, MainThread, ClientThread, Server, Wire

-----------------------------------------------------------------------------
(* Both programs, before they meet, satisfy the invariant, and every step keeps it. *)
LEMMA InitWireInv == Init => WireInv
  <1>1. ASSUME Init PROVE ClientTypes /\ closing_states \in ClosingStates
    <2>1. /\ <<>> \in Seq(MainMessages) /\ <<>> \in Seq(ClientMessages)
          /\ <<>> \in Seq(ServerEvents) /\ <<>> \in Seq(ClientEvents)
          /\ Len(<<>>) = 0
      BY EmptySeq
    <2>2. MainQueueOK /\ ClientQueueOK /\ WiresOK
      BY <1>1, <2>1, SizesAssumption DEF Init, MainQueueOK, ClientQueueOK, WiresOK
    <2>3. ControlTypes /\ closing_states \in ClosingStates
      BY <1>1 DEF Init, ControlTypes, ClosingStates
    <2>4. QED BY <2>2, <2>3 DEF ClientTypes
  <1>2. ASSUME Init PROVE StartInv /\ OpenInv /\ connection # "open"
    BY <1>2 DEF Init, StartInv, OpenInv
  <1>3. QED BY <1>1, <1>2 DEF WireInv

LEMMA NextWireInv == WireInv /\ [Next]_vars => WireInv'
  <1> SUFFICES ASSUME WireInv, [Next]_vars
               PROVE  WireInv'
    OBVIOUS
  <1>1. ClientTypes' /\ closing_states' \in ClosingStates /\ StartInv'
    BY TypesKept, ClosingStatesKept, StartKept DEF WireInv
  <1>2. ASSUME Running'
        PROVE  OpenInv' /\ (connection' = "open" /\ ~lost' => LoginInv')
    <2>1. Running
      BY <1>2, StillRunning DEF WireInv
    <2>2. QED BY <1>2, <2>1, OpenKept, LoginKept DEF WireInv
  <1>3. QED BY <1>1, <1>2 DEF WireInv

(* The login's invariant, in every reachable state: whatever the order in which the
   server answers, the user types and others speak, and whatever events are read
   together, until one of the login is dropped it is known whose turn it is, and at
   most one answer is on its way to this client.  *)
THEOREM ClientInductiveInvariant == Spec => []WireInv
  BY InitWireInv, NextWireInv, PTL DEF Spec

(* Type correctness of the client program, for any sizes of main's and chat_client's
   queues and any numbers of lines typed and of events: neither queue ever holds more
   than its slots (message_queue_put refuses, and main or the client stops).  *)
THEOREM ClientTypeCorrect == Spec => []TypeOK
  <1>1. WireInv => TypeOK
    BY DEF WireInv, ClientTypes, ControlTypes, MainQueueOK, ClientQueueOK, ClosingStates,
           TypeOK
  <1>2. QED BY <1>1, ClientInductiveInvariant, PTL

(* Client and server agree on the login, for any number of lines typed too early, too
   late or not at all and any number of events of other clients between the answers,
   as long as no event of the login is read together with one behind it: the server
   never receives a submission it is not waiting for, and once everything
   said is handled the client waits for exactly the input the server waits for
   (chat_client_fsm.c's handlers against chat_clients_fsm.c's).  *)
THEOREM LoginInStep == Spec => []InStep
  <1>1. ASSUME WireInv PROVE InStep
    <2> SUFFICES ASSUME Running, connection = "open", ~lost,
                        server \notin {"failed", "closing"}
                 PROVE  /\ to_server # <<>> => Head(to_server) \in Awaited
                        /\ Quiet => state = UsersTurn
      BY DEF InStep
    <2>1. LoginInv /\ to_server \in Seq(ClientEvents)
      BY <1>1 DEF WireInv, ClientTypes, WiresOK
    <2>2. ASSUME to_server # <<>> PROVE Head(to_server) \in Awaited
      <3>1. Head(to_server) = to_server[1] /\ 1 \in DOMAIN to_server
        BY <2>1, <2>2, TailIs
      <3>2. QED BY <2>1, <2>2, <3>1
                DEF LoginInv, Awaited, Silent, Answered, Submitted
    <2>3. ASSUME Quiet PROVE state = UsersTurn
      <3>1. NoAnswer /\ to_server = <<>>
        BY <2>3 DEF Quiet, NoAnswer, Heard, Said
      <3>2. \A event : ~OneAnswer(event)
        BY <3>1 DEF NoAnswer, OneAnswer
      <3>3. QED BY <2>1, <3>1, <3>2
                DEF LoginInv, UsersTurn, Silent, Answered, Submitted
    <2>4. QED BY <2>2, <2>3
  <1>2. QED BY <1>1, ClientInductiveInvariant, PTL
=============================================================================
