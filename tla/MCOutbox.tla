------------------------------ MODULE MCOutbox ------------------------------
(* Outbox for the model checker: interchangeable workers and proposals.      *)
EXTENDS Outbox, TLC

Interchangeable == Permutations(Workers) \cup Permutations(Proposals)
=============================================================================
