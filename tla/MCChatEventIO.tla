--------------------------- MODULE MCChatEventIO ---------------------------
(* A header of two bytes and one to four of data, so that a frame can arrive with
   the header cut in two, with the data cut in two, filling the buffer, and with
   the start of the next; and two frames of the shortest can be in the buffer
   together, so that read_ready drops the first (EXTRACT_MORE).  With three events
   there are bytes enough behind a write cut short for the reader to take data for
   a length, to flush, and to read past the end of its buffer.  *)
EXTENDS ChatEventIO
============================================================================
