----------------------------- MODULE MCAdmission -----------------------------
(* Admission for the model checker: a few policies that differ in what stops. *)
EXTENDS Admission, TLC

\* No policy below tells the kinds apart.
Alike == Permutations(Keys) \cup Permutations(Kinds) \cup Permutations(Drafts)

\* What the rest of a behaviour depends on: nothing asks for the proposals made
\* so far, for the periods and counters of earlier revisions, for which of them a
\* request read or a wake was bound to, for anything of an outdated draft, or for
\* the revision under which a wake was decided, beyond whether there was one; under
\* the last revision there are no more drafts, and no reason to resume for.
Last == revision = MaxRevision
Live(r) == IF r \in 1..revision - 1 THEN 1 ELSE r
ChargesLive == {IF x.revision = revision THEN x
                ELSE [x EXCEPT !.bucket = 0, !.revision = 0] : x \in charged}
CountersLive == [b \in Buckets |-> IF revision = 0 THEN 0 ELSE counter[<<revision, b>>]]
BoundLive == [o \in Occurrences |-> IF o \in decided /\ bound[o] > 0 THEN 1 ELSE Live(bound[o])]
CallersLive == [c \in Callers |-> IF caller[c] = Idle THEN Idle
                                  ELSE [caller[c] EXCEPT !.revision = Live(@)]]
Outdated(d) == draft[d] # Closed /\ ~BaseCurrent(d)
DraftsLive == [d \in Drafts |-> IF Outdated(d)
                                THEN [state |-> IF Last THEN "closed" ELSE "outdated"]
                                ELSE draft[d]]
RunLive == IF Last THEN [state |-> run.state] ELSE run
Lives == <<bucket, revision, policy, RunLive, DraftsLive, {d \in asked : ~Outdated(d)},
           outcome, ChargesLive, CountersLive, BoundLive, CallersLive, worker, decided,
           {w \in outrun : worker[w] # Idle}>>

Once == [allowed |-> Kinds, limit |-> 1, stops |-> {"budget"}, escalates |-> {},
         outside |-> "refuse", state |-> "active"]
Careful == [Once EXCEPT !.stops = {"failure"}, !.escalates = {"blocked"}, !.outside = "stop"]
Halted == [Once EXCEPT !.state = "stopped"]

Few == {Once, Careful}
Several == {Once, Careful, Halted}
=============================================================================
