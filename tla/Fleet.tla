-------------------------------- MODULE Fleet --------------------------------
(***************************************************************************)
(* What the registry of packages and deployments promises: a deployment    *)
(* runs one package that was vetted, no more than Limit of them run, one   *)
(* never changes its package while it runs, and withdrawing a package      *)
(* stops it everywhere at once and for good.                               *)
(***************************************************************************)
EXTENDS Naturals, FiniteSets

CONSTANTS Packages, Deployments, Nothing, Limit

VARIABLES
    vetted, withdrawn,   \* packages
    running              \* what each deployment runs

fleet == <<vetted, withdrawn, running>>

Busy == {d \in Deployments : running[d] # Nothing}

Init == /\ vetted = {} /\ withdrawn = {}
        /\ running = [d \in Deployments |-> Nothing]

Vet(p) == /\ p \notin vetted \cup withdrawn
          /\ vetted' = vetted \cup {p}
          /\ UNCHANGED <<withdrawn, running>>

Withdraw(p) == /\ p \notin withdrawn
               /\ withdrawn' = withdrawn \cup {p}
               /\ vetted' = vetted \ {p}
               /\ running' = [d \in Deployments |-> IF running[d] = p THEN Nothing
                                                    ELSE running[d]]

Start(d, p) == /\ running[d] = Nothing
               /\ p \in vetted'
               /\ Cardinality(Busy) < Limit
               /\ running' = [running EXCEPT ![d] = p]
               /\ UNCHANGED withdrawn

\* A package from before there were any is vetted with its deployment.
StartFirst(d, p) == Start(d, p) /\ Busy = {} /\ vetted' = vetted \cup {p} /\ p \notin withdrawn

Stop(d) == /\ running[d] # Nothing
           /\ running' = [running EXCEPT ![d] = Nothing]
           /\ UNCHANGED <<vetted, withdrawn>>

Next == \/ \E p \in Packages : Vet(p) \/ Withdraw(p)
        \/ \E d \in Deployments :
             \/ Stop(d)
             \/ \E p \in Packages : (Start(d, p) /\ UNCHANGED vetted) \/ StartFirst(d, p)

Spec == Init /\ [][Next]_fleet
=============================================================================
