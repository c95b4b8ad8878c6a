---------------------------- MODULE MCGovernance ----------------------------
(* Governance for the model checker: what a membership change may propose.   *)
EXTENDS Governance

Remove == [role |-> "admin", status |-> "revoked", scope |-> "tenant"]
Narrow == [role |-> "admin", status |-> "active", scope |-> "colleague"]

Changing == {FullAdmin, Remove, Narrow}
=============================================================================
