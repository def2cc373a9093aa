---------------------------- MODULE LookupService ----------------------------
(***************************************************************************)
(* What dht_client_lookup_async promises to its callers                    *)
(* (src/src/dht-client.h): whoever asks is answered, once, with an outcome *)
(* that stays, whatever becomes of the lookup, the network and the other   *)
(* callers.                                                                *)
(***************************************************************************)
CONSTANTS Result,    \* the calls of dht_client_lookup_async
          Outcome    \* what its callback can be told

VARIABLE answer      \* per call: "none", "owed", or the outcome it was told

Init == answer = [r \in Result |-> "none"]

Request(r) == /\ answer[r] = "none"
              /\ answer' = [answer EXCEPT ![r] = "owed"]

Answer(r) == /\ answer[r] = "owed"
             /\ \E outcome \in Outcome : answer' = [answer EXCEPT ![r] = outcome]

Next == \E r \in Result : Request(r) \/ Answer(r)

\* Callers need not ask; who has asked is answered.
Spec == Init /\ [][Next]_answer /\ \A r \in Result : WF_answer(Answer(r))
=============================================================================
