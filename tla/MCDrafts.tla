------------------------------ MODULE MCDrafts ------------------------------
(* Drafts for the model checker: the contents first and swapped say the    *)
(* same in another order, other says something else.                       *)
EXTENDS Drafts, TLC

CONSTANTS first, swapped, other

Saying == (first :> "first") @@ (swapped :> "first") @@ (other :> "other")

Entered(p, m, y) == ("profile" :> p) @@ ("mandate" :> m) @@ ("policy" :> y)

\* From first everywhere: another mandate, and the mandate reordered beside a new
\* profile.  A first policy is proposed by every draft without one.
Before == Entered(first, first, first)
Entries == {Entered(first, other, first), Entered(other, swapped, first)}

Alike == Permutations(Admins)

\* What the rest of a behaviour depends on.  A draft that is cancelled or stale
\* stays so and answers nothing but that; the author of a confirmed one is not
\* asked again.  Of a change that was closed without being applied, only its
\* deadline counts, and whether a decision of it is on record and still names
\* what some open draft proposes.  Who agreed on an applied one was asked when
\* it was applied.
DraftLives(n) ==
    IF draft[n].state \in {"cancelled", "stale"} THEN [state |-> "closed"]
    ELSE IF draft[n].state = "confirmed" THEN [draft[n] EXCEPT !.author = None, !.authority = 0]
    ELSE draft[n]
ChangeLives(k) ==
    LET x == change[k] IN
    IF x.state \in {"rejected", "expired", "stale"}
    THEN IF x.approver = None THEN [state |-> "closed", late |-> x.late]
         ELSE [state |-> "refused", late |-> x.late,
               of |-> IF Binds(k, x.target) /\ Open(x.target) THEN x.target ELSE 0]
    ELSE IF x.state = "applied" THEN [x EXCEPT !.proposer = None, !.approver = None]
    ELSE x
Lives == <<head, revision, binds, [n \in Drafts |-> DraftLives(n)],
           [k \in Changes |-> ChangeLives(k)], marking, member>>
=============================================================================
