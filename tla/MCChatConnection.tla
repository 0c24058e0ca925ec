------------------------- MODULE MCChatConnection -------------------------
(* Queues of four messages and two events, shorter than the program's 8 and
   32, so that both overflow; four events, so that one can be in the writer,
   two in event_queue and one in message_queue; a second close. *)
EXTENDS ChatConnection
===========================================================================
