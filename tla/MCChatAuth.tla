---------------------------- MODULE MCChatAuth ----------------------------
(* Two transactions, so that two clients can claim one name; one name that is
   allowed and one that is too long; two passwords, so that one can be wrong. *)
EXTENDS ChatAuth

CONSTANTS t1, t2, alice, long, p1, p2

MCTransactions == {t1, t2}
MCUsernames    == {alice, long}
MCLongNames    == {long}
MCPasswords    == {p1, p2}
===========================================================================
