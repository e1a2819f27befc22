-------------------------- MODULE RequestDecision --------------------------
(***************************************************************************)
(* What the request workflow promises: a request is decided once, and the  *)
(* tenant it asks for exists exactly when it was approved.                 *)
(***************************************************************************)
CONSTANT Requests

VARIABLES decision,  \* of each request
          founded    \* requests whose tenant exists

Init == /\ decision = [r \in Requests |-> "absent"]
        /\ founded = {}

Submit(r) == /\ decision[r] = "absent"
             /\ decision' = [decision EXCEPT ![r] = "pending"]
             /\ UNCHANGED founded

Approve(r) == /\ decision[r] = "pending"
              /\ decision' = [decision EXCEPT ![r] = "approved"]
              /\ founded' = founded \cup {r}

Reject(r) == /\ decision[r] = "pending"
             /\ decision' = [decision EXCEPT ![r] = "rejected"]
             /\ UNCHANGED founded

Next == \E r \in Requests : Submit(r) \/ Approve(r) \/ Reject(r)

Spec == Init /\ [][Next]_<<decision, founded>>
=============================================================================
