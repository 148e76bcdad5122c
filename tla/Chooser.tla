------------------------------ MODULE Chooser ------------------------------
(* What an executable that asks several branches at a time promises: it     *)
(* returns once, with the reply of a branch that has one; it fails only     *)
(* when all of its branches have failed, or when its caller's ctx ends.     *)
EXTENDS Naturals

CONSTANT Branches

VARIABLES ended,    \* what each branch has come to
          outcome   \* what the call has returned

(* A branch the call does not use counts as one that has failed. *)
Init == ended \in [Branches -> {"running", "failed"}] /\ outcome = "pending"

BranchEnds(b) ==
    /\ ended[b] = "running"
    /\ \E e \in {"replied", "failed"} : ended' = [ended EXCEPT ![b] = e]
    /\ UNCHANGED outcome

Answer(b) ==
    /\ outcome = "pending" /\ ended[b] = "replied"
    /\ outcome' = "answered"
    /\ UNCHANGED ended

Fail ==
    /\ outcome = "pending" /\ \A b \in Branches : ended[b] = "failed"
    /\ outcome' = "failed"
    /\ UNCHANGED ended

GiveUp ==
    /\ outcome = "pending"
    /\ outcome' = "ctx"
    /\ UNCHANGED ended

Next == Fail \/ GiveUp \/ \E b \in Branches : BranchEnds(b) \/ Answer(b)

Spec == Init /\ [][Next]_<<ended, outcome>>
=============================================================================
