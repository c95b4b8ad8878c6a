----------------------------- MODULE Governance -----------------------------
(***************************************************************************)
(* Who may act for a tenant: memberships, sessions, the credentials that   *)
(* enrol or recover a person, and the changes two administrators agree on. *)
(*                                                                         *)
(* Every store method is one transaction, which repeats the checks of the  *)
(* service against the rows it finds: a request acts on the row it read or *)
(* not at all, so a request is one action.  A principal is known by the    *)
(* credential that enrolled it, the first administrator by 0.  Deadlines   *)
(* (30 and 15 minutes, 10 minutes, 8 hours) are flags that time may raise  *)
(* at any moment.  The role revision moves only with the membership        *)
(* revision and is compared beside it everywhere: one revision stands for  *)
(* both.                                                                   *)
(***************************************************************************)
EXTENDS Naturals, FiniteSets

CONSTANTS
    NumCredentials,
    NumChanges,
    Grants,      \* roles, statuses and scopes a membership change may propose
    MaxLate      \* bound: deadlines that pass

Credentials == 1..NumCredentials
Changes == 1..NumChanges
Principals == 0..NumCredentials

Roles == {"admin", "user"}
Scopes == {"tenant", "colleague"}
Statuses == {"active", "revoked"}
FullAdmin == [role |-> "admin", status |-> "active", scope |-> "tenant"]
Member == [role |-> "user", status |-> "active", scope |-> "colleague"]
Absent == [role |-> "none", status |-> "absent", scope |-> "none"]

ASSUME BoundsAssumption ==
    /\ NumCredentials \in Nat
    /\ NumChanges \in Nat
    /\ Grants \subseteq [role : Roles, status : Statuses, scope : Scopes]
    /\ MaxLate \in Nat

VARIABLES
    grant,       \* membership rows: what each principal is granted
    revision,    \* and at which membership revision
    transition,  \* the second-administrator exception
    credential,  \* enrolment and recovery credentials
    change,      \* change proposals, each with its decision
    session,     \* session rows not revoked
    late         \* deadlines that have passed

vars == <<grant, revision, transition, credential, change, session, late>>

NoCredential == [kind |-> "none", state |-> "absent", target |-> 0, targetRevision |-> 0,
                 change |-> 0, late |-> FALSE]
NoChange == [kind |-> "none", state |-> "absent", target |-> 0, targetRevision |-> 0,
             to |-> Absent, proposer |-> 0, proposerRevision |-> 0,
             approver |-> 0, approverRevision |-> 0, late |-> FALSE, lapsed |-> FALSE]

CredentialRow ==
    [kind : {"none", "second", "admin", "user", "recovery"},
     state : {"absent", "authorized", "retrieved", "consumed", "revoked", "expired"},
     target : Principals, targetRevision : Nat, change : 0..NumChanges, late : BOOLEAN]
ChangeRow ==
    [kind : {"none", "membership", "enrollment"},
     state : {"absent", "pending", "approved", "rejected", "expired", "stale", "applied"},
     target : Principals, targetRevision : Nat, to : Grants \cup {FullAdmin, Absent},
     proposer : Principals, proposerRevision : Nat,
     approver : Principals, approverRevision : Nat, late : BOOLEAN, lapsed : BOOLEAN]
SessionRow == [id : Principals, principal : Principals, revision : Nat, late : BOOLEAN]

TypeOK ==
    /\ grant \in [Principals -> [role : Roles, status : Statuses, scope : Scopes] \cup {Absent}]
    /\ revision \in [Principals -> Nat]
    /\ transition \in [state : {"absent", "available", "consumed"}, active : 0..NumCredentials]
    /\ credential \in [Credentials -> CredentialRow]
    /\ change \in [Changes -> ChangeRow]
    /\ session \subseteq SessionRow
    /\ late \in 0..MaxLate

Init ==
    /\ grant = [p \in Principals |-> Absent]
    /\ revision = [p \in Principals |-> 0]
    /\ transition = [state |-> "absent", active |-> 0]
    /\ credential = [c \in Credentials |-> NoCredential]
    /\ change = [k \in Changes |-> NoChange]
    /\ session = {}
    /\ late = 0

-----------------------------------------------------------------------------
(* Authority                                                               *)

Active(p) == grant[p].status = "active"
Admin(p) == Active(p) /\ grant[p].role = "admin"
Governor(p) == Admin(p) /\ grant[p].scope = "tenant"
Admins == {p \in Principals : Admin(p)}
Governors == {p \in Principals : Governor(p)}

\* A session counts while it is neither revoked nor expired and still binds
\* the current membership.
SignedIn(p) == \E s \in session : /\ s.principal = p /\ ~s.late
                                  /\ s.revision = revision[p]

\* Authorised for the tenant, by the service and again by the transaction.
MayGovern(p) == Governor(p) /\ SignedIn(p)

\* Identifiers are derived from requests; here they are taken in order.
Fresh(c) == /\ credential[c].state = "absent"
            /\ \A d \in 1..c - 1 : credential[d].state # "absent"
FreshChange(k) == /\ change[k].state = "absent"
                  /\ \A j \in 1..k - 1 : change[j].state # "absent"

NewSession(id, p) == [id |-> id, principal |-> p, revision |-> revision'[p], late |-> FALSE]
RevokedSessions(p) == {s \in session : s.principal = p}

\* The local operator's bootstrap exchange creates the first administrator.
ConsumeBootstrap ==
    /\ \A p \in Principals : grant[p] = Absent
    /\ grant' = [grant EXCEPT ![0] = FullAdmin]
    /\ revision' = [revision EXCEPT ![0] = 1]
    /\ transition' = [state |-> "available", active |-> 0]
    /\ session' = {NewSession(0, 0)}
    /\ UNCHANGED <<credential, change, late>>

-----------------------------------------------------------------------------
(* Credentials                                                             *)

AuthorizeSecond(p, c) ==
    /\ Fresh(c) /\ MayGovern(p)
    /\ transition.state = "available"
    /\ Cardinality(Admins) = 1
    /\ \A d \in Credentials :
         credential[d].kind = "second" => credential[d].state \notin {"authorized", "retrieved"}
    /\ credential' = [credential EXCEPT ![c] =
                        [NoCredential EXCEPT !.kind = "second", !.state = "authorized"]]
    /\ transition' = [transition EXCEPT !.active = c]
    /\ UNCHANGED <<grant, revision, change, session, late>>

AuthorizeUser(p, c) ==
    /\ Fresh(c) /\ MayGovern(p)
    /\ credential' = [credential EXCEPT ![c] =
                        [NoCredential EXCEPT !.kind = "user", !.state = "authorized"]]
    /\ UNCHANGED <<grant, revision, transition, change, session, late>>

AuthorizeRecovery(p, c, t) ==
    /\ Fresh(c) /\ MayGovern(p)
    /\ Active(t)
    /\ credential' = [credential EXCEPT ![c] =
                        [NoCredential EXCEPT !.kind = "recovery", !.state = "authorized",
                                             !.target = t, !.targetRevision = revision[t]]]
    /\ UNCHANGED <<grant, revision, transition, change, session, late>>

\* Fault: the principals' authority is not looked at again.
ConsumableUnchecked(k) ==
    /\ change[k].state = "approved"
    /\ ~change[k].late /\ ~change[k].lapsed
    /\ change[k].proposer # change[k].approver

\* An approval can be used once, in time, while both who agreed are still what
\* they were.
Consumable(k) ==
    LET x == change[k] IN
    /\ x.state = "approved"
    /\ ~x.late /\ ~x.lapsed
    /\ x.proposer # x.approver
    /\ Admin(x.proposer) /\ Admin(x.approver)
    /\ revision[x.proposer] = x.proposerRevision
    /\ revision[x.approver] = x.approverRevision

\* A further administrator: the approval is spent on the credential.
AuthorizeAdmin(p, c, k) ==
    /\ Fresh(c) /\ MayGovern(p)
    /\ change[k].kind = "enrollment"
    /\ Consumable(k)
    /\ change' = [change EXCEPT ![k].state = "applied"]
    /\ credential' = [credential EXCEPT ![c] =
                        [NoCredential EXCEPT !.kind = "admin", !.state = "authorized",
                                             !.change = k]]
    /\ UNCHANGED <<grant, revision, transition, session, late>>

\* Fault: a late credential gets a state of its own.
RetrievedOrLate(c) == IF credential[c].late THEN "late" ELSE "retrieved"

Retrieved(c) == IF credential[c].late THEN "expired" ELSE "retrieved"

\* The operator retrieves the secret once; a credential that is late closes.
Retrieve(c) ==
    /\ credential[c].state = "authorized"
    /\ credential' = [credential EXCEPT ![c].state = Retrieved(c)]
    /\ UNCHANGED <<grant, revision, transition, change, session, late>>

\* An exchange that comes too late closes the credential as well.
ExpireCredential(c) ==
    /\ credential[c].state = "retrieved" /\ credential[c].late
    /\ credential' = [credential EXCEPT ![c].state = "expired"]
    /\ UNCHANGED <<grant, revision, transition, change, session, late>>

RevokeCredential(p, c) ==
    /\ credential[c].state \in {"authorized", "retrieved"}
    /\ MayGovern(p)
    /\ credential' = [credential EXCEPT ![c].state = "revoked"]
    /\ UNCHANGED <<grant, revision, transition, change, session, late>>

Exchangeable(c) == credential[c].state = "retrieved" /\ ~credential[c].late

\* The exception serves the credential it named, while there is one administrator.
StillSecond(c) == /\ transition.state = "available" /\ transition.active = c
                  /\ Cardinality(Admins) = 1

ConsumeEnrollment(c) ==
    LET kind == credential[c].kind IN
    /\ kind \in {"second", "admin", "user"}
    /\ Exchangeable(c)
    /\ kind = "second" => StillSecond(c)
    /\ grant' = [grant EXCEPT ![c] = IF kind = "user" THEN Member ELSE FullAdmin]
    /\ revision' = [revision EXCEPT ![c] = 1]
    /\ session' = session \cup {NewSession(c, c)}
    /\ transition' = IF kind = "second" THEN [transition EXCEPT !.state = "consumed"]
                     ELSE transition
    /\ credential' = [credential EXCEPT ![c].state = "consumed"]
    /\ UNCHANGED <<change, late>>

Recoverable(c) == /\ Active(credential[c].target)
                  /\ revision[credential[c].target] = credential[c].targetRevision

\* A recovery replaces every session of its target by one.
ConsumeRecovery(c) ==
    LET t == credential[c].target IN
    /\ credential[c].kind = "recovery"
    /\ Exchangeable(c) /\ Recoverable(c)
    /\ session' = (session \ RevokedSessions(t)) \cup
                    {[id |-> c, principal |-> t, revision |-> credential[c].targetRevision,
                      late |-> FALSE]}
    /\ credential' = [credential EXCEPT ![c].state = "consumed"]
    /\ UNCHANGED <<grant, revision, transition, change, late>>

-----------------------------------------------------------------------------
(* Changes                                                                 *)

Proposed(p, kind, t, g) ==
    [NoChange EXCEPT !.kind = kind, !.state = "pending", !.target = t,
                     !.targetRevision = revision[t], !.to = g,
                     !.proposer = p, !.proposerRevision = revision[p]]

ProposeMembership(p, k, t, g) ==
    /\ FreshChange(k) /\ MayGovern(p)
    /\ grant[t] # Absent
    /\ change' = [change EXCEPT ![k] = Proposed(p, "membership", t, g)]
    /\ UNCHANGED <<grant, revision, transition, credential, session, late>>

ProposeEnrollment(p, k) ==
    /\ FreshChange(k) /\ MayGovern(p)
    /\ change' = [change EXCEPT ![k] =
                    [Proposed(p, "enrollment", 0, FullAdmin) EXCEPT !.targetRevision = 1]]
    /\ UNCHANGED <<grant, revision, transition, credential, session, late>>

\* Fault: the proposer may decide.
MayDecideAlone(p, k) == MayGovern(p)

MayDecide(p, k) == MayGovern(p) /\ p # change[k].proposer

Decide(p, k, verdict) ==
    /\ change[k].state = "pending" /\ ~change[k].late
    /\ MayDecide(p, k)
    /\ change' = [change EXCEPT ![k].state = verdict, ![k].approver = p,
                                ![k].approverRevision = revision[p]]
    /\ UNCHANGED <<grant, revision, transition, credential, session, late>>

\* A decision that comes too late, even the proposer's, closes the change.
ExpireChange(p, k) ==
    /\ change[k].state = "pending" /\ change[k].late
    /\ MayGovern(p)
    /\ change' = [change EXCEPT ![k].state = "expired"]
    /\ UNCHANGED <<grant, revision, transition, credential, session, late>>

\* Fault: the target's revision is not compared.
TargetUnchecked(k) == change[k].kind = "membership" /\ grant[change[k].target] # Absent

TargetCurrent(k) == /\ change[k].kind = "membership"
                    /\ revision[change[k].target] = change[k].targetRevision

\* Fault: off by one.
KeepsTwoNearly(k) ==
    LET x == change[k] IN
    (grant[x.target].role = "admin" /\ (x.to.role # "admin" \/ x.to.status = "revoked"))
        => Cardinality(Admins) >= 2

\* "membership change would break two-person governance".  Whether the target
\* is itself active is not asked, nor what the others are scoped to.
KeepsTwo(k) ==
    LET x == change[k] IN
    (grant[x.target].role = "admin" /\ (x.to.role # "admin" \/ x.to.status = "revoked"))
        => Cardinality(Admins) > 2

\* Only an administrator can hold the tenant scope: a membership cannot be
\* built otherwise, and the transaction is undone.
ApplyMembership(p, k) ==
    LET x == change[k] IN
    /\ Consumable(k) /\ TargetCurrent(k) /\ KeepsTwo(k)
    /\ MayGovern(p)
    /\ x.to.scope = "tenant" => x.to.role = "admin"
    /\ grant' = [grant EXCEPT ![x.target] = x.to]
    /\ revision' = [revision EXCEPT ![x.target] = @ + 1]
    /\ session' = session \ RevokedSessions(x.target)
    /\ change' = [change EXCEPT ![k].state = "applied"]
    /\ UNCHANGED <<transition, credential, late>>

MarkStale(p, k) ==
    /\ change[k].kind = "membership" /\ change[k].state = "approved"
    /\ MayGovern(p)
    /\ revision[change[k].target] # change[k].targetRevision
    /\ change' = [change EXCEPT ![k].state = "stale"]
    /\ UNCHANGED <<grant, revision, transition, credential, session, late>>

-----------------------------------------------------------------------------
(* Time                                                                    *)

\* A decision is valid no longer than the proposal it approves.
Lapse ==
    /\ late < MaxLate
    /\ late' = late + 1
    /\ \/ \E k \in Changes :
            /\ change[k].state \in {"pending", "approved"} /\ ~change[k].late
            /\ \/ change' = [change EXCEPT ![k].late = TRUE, ![k].lapsed = TRUE]
               \/ /\ change[k].state = "approved" /\ ~change[k].lapsed
                  /\ change' = [change EXCEPT ![k].lapsed = TRUE]
            /\ UNCHANGED <<credential, session>>
       \/ \E c \in Credentials :
            /\ credential[c].state \in {"authorized", "retrieved"} /\ ~credential[c].late
            /\ credential' = [credential EXCEPT ![c].late = TRUE]
            /\ UNCHANGED <<change, session>>
       \/ \E s \in session :
            /\ ~s.late
            /\ session' = (session \ {s}) \cup {[s EXCEPT !.late = TRUE]}
            /\ UNCHANGED <<change, credential>>
    /\ UNCHANGED <<grant, revision, transition>>

Next ==
    \/ ConsumeBootstrap
    \/ \E c \in Credentials :
         \/ Retrieve(c) \/ ExpireCredential(c)
         \/ ConsumeEnrollment(c) \/ ConsumeRecovery(c)
         \/ \E p \in Principals :
              \/ AuthorizeSecond(p, c) \/ AuthorizeUser(p, c) \/ RevokeCredential(p, c)
              \/ \E t \in Principals : AuthorizeRecovery(p, c, t)
              \/ \E k \in Changes : AuthorizeAdmin(p, c, k)
    \/ \E p \in Principals, k \in Changes :
         \/ ProposeEnrollment(p, k)
         \/ \E t \in Principals, g \in Grants : ProposeMembership(p, k, t, g)
         \/ \E verdict \in {"approved", "rejected"} : Decide(p, k, verdict)
         \/ ExpireChange(p, k) \/ ApplyMembership(p, k) \/ MarkStale(p, k)
    \/ Lapse

Spec == Init /\ [][Next]_vars

-----------------------------------------------------------------------------
(* What governance promises                                                *)

\* Two-person governance is never undone (authorize_enrollment,
\* apply_membership_change): one administrator until the exception is used,
\* at least two from then on, whatever changes were approved side by side.
TwoAdminsRemain ==
    /\ transition.state = "available" => Cardinality(Admins) = 1
    /\ transition.state = "consumed" => Cardinality(Admins) >= 2

\* Changes and recoveries never revoke the last session that may govern: some
\* administrator of the tenant keeps a session of its current revision, and
\* nobody keeps two or keeps one across a change of the membership.
SessionsFollowMemberships ==
    /\ transition.state # "absent" =>
         \E s \in session : s.principal \in Governors /\ s.revision = revision[s.principal]
    /\ \A s \in session : Active(s.principal) /\ s.revision = revision[s.principal]
    /\ \A s, u \in session : s.principal = u.principal => s = u

\* Every approval is used once (_consume_change_rows): a membership moved on
\* once for each change applied to it, from the revision it was approved at, and
\* each further administrator has an approval of its own.
AppliedOnce ==
    /\ \A p \in Principals :
         LET applied == {k \in Changes : change[k].kind = "membership"
                                         /\ change[k].state = "applied" /\ change[k].target = p} IN
         /\ grant[p] # Absent => revision[p] = 1 + Cardinality(applied)
         /\ \A j, k \in applied : change[j].targetRevision = change[k].targetRevision => j = k
    /\ \A c \in Credentials : credential[c].kind = "admin" =>
         /\ change[credential[c].change].kind = "enrollment"
         /\ change[credential[c].change].state = "applied"
         /\ \A d \in Credentials :
              credential[d].kind = "admin" /\ credential[d].change = credential[c].change => c = d

\* All of it is the two-person rule.
DroppedMotion == [state |-> "dropped", kind |-> "none", target |-> 0, to |-> Absent,
                  by |-> 0, with |-> 0]
MotionOf(x) ==
    IF x.state \in {"rejected", "expired", "stale"} THEN DroppedMotion
    ELSE [state |-> CASE x.state = "absent" -> "absent" [] x.state = "pending" -> "moved"
                      [] x.state = "approved" -> "agreed" [] x.state = "applied" -> "carried",
          kind |-> x.kind, target |-> x.target, to |-> x.to,
          by |-> x.proposer, with |-> x.approver]
Rule == INSTANCE TwoPersonRule WITH
    Motions <- Changes,
    Grants <- Grants \cup {Member},
    roster <- grant,
    motion <- [k \in Changes |-> MotionOf(change[k])],
    invited <- {<<c, credential[c].change>> : c \in {d \in Credentials : credential[d].kind = "admin"}},
    opened <- CASE transition.state = "absent" -> 0
                [] transition.state = "available" -> 1
                [] transition.state = "consumed" -> 2
FollowsTheRule == Rule!Spec
=============================================================================
