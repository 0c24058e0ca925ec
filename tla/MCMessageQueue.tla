-------------------------- MODULE MCMessageQueue --------------------------
(* Three threads on a ring of two slots: one puts, one gets, and one does
   both, so that there are two of each. *)
EXTENDS MessageQueue, TLC

CONSTANTS t1, t2, t3, m1, m2

MCProducers == {t1, t2}
MCConsumers == {t2, t3}
MCMessages  == {m1, m2}
===========================================================================
