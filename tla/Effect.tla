------------------------------- MODULE Effect -------------------------------
(***************************************************************************)
(* What the dispatch machinery promises about an external effect, with no  *)
(* row, lease, worker or clock in sight.                                   *)
(*                                                                         *)
(* A proposal is decided once.  Only an approved effect may be carried     *)
(* out, and at most once; "done" is said only after it was, "failed" only  *)
(* when it was not and never will be.  An approved effect may also stay    *)
(* open for ever: the code gives up asking about an uncertain one.         *)
(***************************************************************************)
EXTENDS Naturals

CONSTANT Proposals

VARIABLES
    verdict,     \* what the durable records say of each proposal
    executions   \* how often the provider carried the effect out

vars == <<verdict, executions>>

Init ==
    /\ verdict = [p \in Proposals |-> "undecided"]
    /\ executions = [p \in Proposals |-> 0]

Decide(p) ==
    /\ verdict[p] = "undecided"
    /\ \E v \in {"approved", "rejected"} : verdict' = [verdict EXCEPT ![p] = v]
    /\ UNCHANGED executions

CarryOut(p) ==
    /\ verdict[p] = "approved"
    /\ executions[p] = 0
    /\ executions' = [executions EXCEPT ![p] = 1]
    /\ UNCHANGED verdict

Conclude(p) ==
    /\ verdict[p] = "approved"
    /\ verdict' = [verdict EXCEPT ![p] = IF executions[p] = 1 THEN "done" ELSE "failed"]
    /\ UNCHANGED executions

Next == \E p \in Proposals : Decide(p) \/ CarryOut(p) \/ Conclude(p)

Spec == Init /\ [][Next]_vars
=============================================================================
