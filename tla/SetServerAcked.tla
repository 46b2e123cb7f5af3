--------------------------- MODULE SetServerAcked ---------------------------
(* SetServer with a history of the acknowledgements clients have seen. *)
EXTENDS MCSetServer

VARIABLE acked     \* a PUT of the name was answered 201, and no DELETE since

AckedInit == Init /\ acked = [n \in Name |-> FALSE]

Acknowledged(n) ==
  \E w \in Worker : /\ pc[w] = "answer" /\ pc'[w] = "replied"
                    /\ req[w].op = "put" /\ Target(w) = n

Deleted(n) == \E w \in Worker : DelStore(w) /\ Target(w) = n

AckedNext ==
  /\ Next
  /\ acked' = [n \in Name |-> \/ Acknowledged(n)
                              \/ acked[n] /\ ~Deleted(n)]

AckedSpec == AckedInit /\ [][AckedNext]_<<vars, acked>>

\* A set whose PUT was answered with "persisted": true stays in the store,
\* over any number of kills and restarts, until a DELETE (README.md:264-265).
AckedSetSurvives == \A n \in Name : up /\ acked[n] => sets[n] # NoSet
=============================================================================
