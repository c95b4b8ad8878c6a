----------------------------- MODULE Coalescing -----------------------------
(***************************************************************************)
(* What the agenda promises, without workers, leases and wake cycles:      *)
(* causes arrive at their source in some order, and every decision settles *)
(* all causes of one source up to a point, beyond the point reached before.*)
(***************************************************************************)
EXTENDS Naturals, Sequences

CONSTANTS Triggers, Items, SourceOf

VARIABLES causes, decided, batches

coalescing == <<causes, decided, batches>>

Init == /\ causes = [i \in Items |-> <<>>]
        /\ decided = [i \in Items |-> 0]
        /\ batches = {}

Arrive(t) ==
    /\ \A k \in 1..Len(causes[SourceOf[t]]) : causes[SourceOf[t]][k] # t
    /\ causes' = [causes EXCEPT ![SourceOf[t]] = Append(@, t)]
    /\ UNCHANGED <<decided, batches>>

\* The batch is known by its last cause.
Decide(i, upTo) ==
    /\ upTo \in decided[i] + 1 .. Len(causes[i])
    /\ decided' = [decided EXCEPT ![i] = upTo]
    /\ batches' = batches \cup {[item |-> i, generation |-> upTo, wake |-> causes[i][upTo]]}
    /\ UNCHANGED causes

Next == \/ \E t \in Triggers : Arrive(t)
        \/ \E i \in Items : \E upTo \in 1..Len(causes[i]) : Decide(i, upTo)

Spec == Init /\ [][Next]_coalescing
=============================================================================
