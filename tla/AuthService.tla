----------------------------- MODULE AuthService -----------------------------
(***************************************************************************)
(* What chat_auth promises about transactions.  A transaction has two      *)
(* sides, the authentication thread that answers it and the consumer that  *)
(* submitted it and finishes it, once, before the answer or after.  Its    *)
(* memory goes when both are done with it; a consumer that has finished    *)
(* hears no more of it.                                                    *)
(***************************************************************************)
CONSTANTS Transactions,
          Results,  \* eCHAT_AUTH_RESULT, without the FAILURE that is no answer
          NULL      \* no answer

VARIABLES submitted,  \* the transactions begun
          finished,   \* those the consumer has finished
          answer,     \* the result each was answered with, or NULL
          freed       \* those that are gone

serviceVars == <<submitted, finished, answer, freed>>

Init == /\ submitted = {}
        /\ finished = {}
        /\ answer = [t \in Transactions |-> NULL]
        /\ freed = {}

Submit(t) == /\ t \notin submitted
             /\ submitted' = submitted \union {t}
             /\ UNCHANGED <<finished, answer, freed>>

Answer(t, result) == /\ t \in submitted \ finished
                     /\ answer[t] = NULL
                     /\ answer' = [answer EXCEPT ![t] = result]
                     /\ UNCHANGED <<submitted, finished, freed>>

Finish(t) == /\ t \in submitted \ finished
             /\ finished' = finished \union {t}
             /\ UNCHANGED <<submitted, answer, freed>>

Free(t) == /\ t \in finished \ freed
           /\ freed' = freed \union {t}
           /\ UNCHANGED <<submitted, finished, answer>>

Next == \E t \in Transactions : \/ Submit(t) \/ Finish(t) \/ Free(t)
                                \/ \E result \in Results : Answer(t, result)

Spec == Init /\ [][Next]_serviceVars
=============================================================================
