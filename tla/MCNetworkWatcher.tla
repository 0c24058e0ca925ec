------------------------- MODULE MCNetworkWatcher -------------------------
(* A queue and a pipe of two places each: the fewest with which the owner
   never stalls.  Both modes, and a descriptor that may hang up. *)
EXTENDS NetworkWatcher

CONSTANTS READ, WRITE

MCModes == {READ, WRITE}
===========================================================================
