---------------------------- MODULE OverrideLease ----------------------------
(***************************************************************************)
(* What the override scheduler promises, without its threads: a row of     *)
(* session_action_override is granted to a flow that has none, is never    *)
(* turned from one action into the other in place, and does not stay for   *)
(* ever ("silently leak never-expiring overrides" is the defect the shared *)
(* expiry heap was written against).                                       *)
(***************************************************************************)
CONSTANT Flows
VARIABLE row

Init == row = [f \in Flows |-> "none"]

Grant(f, a) == row[f] = "none" /\ row' = [row EXCEPT ![f] = a]

(* One flow expires, or a reset or a restart of the controller clears several. *)
Revoke(S) == /\ \A f \in S : row[f] # "none"
             /\ row' = [f \in Flows |-> IF f \in S THEN "none" ELSE row[f]]

Next == \/ \E f \in Flows, a \in {"allow", "deny"} : Grant(f, a)
        \/ \E S \in SUBSET Flows : Revoke(S)

Ends == \A f \in Flows : row[f] # "none" ~> row[f] = "none"

Spec == Init /\ [][Next]_row /\ Ends
=============================================================================
