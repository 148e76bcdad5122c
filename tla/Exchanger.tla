----------------------------- MODULE Exchanger -----------------------------
(* What a transport promises the callers of ExchangeContext: a call returns *)
(* once, with an error or with the answer to its own query.                 *)
EXTENDS Naturals

CONSTANT Queries   \* calls of ExchangeContext

VARIABLE outcome   \* what each call has returned

Init == outcome = [q \in Queries |-> "pending"]

Return(q) ==
    /\ outcome[q] = "pending"
    /\ \E r \in {"answered", "failed"} : outcome' = [outcome EXCEPT ![q] = r]

Next == \E q \in Queries : Return(q)

Spec == Init /\ [][Next]_outcome
=============================================================================
