-------------------------- MODULE Governance_proofs --------------------------
(***************************************************************************)
(* Proofs about Governance for any number of credentials and changes, any  *)
(* grants a change may propose and any deadlines that pass.                *)
(***************************************************************************)
EXTENDS Governance, FiniteSetTheorems, TLAPS

\* There are members exactly from the bootstrap on.
Founded == transition.state = "absent" <=> \A p \in Principals : grant[p] = Absent

\* Only members authorise credentials; one is used by whom it enrols, and once;
\* one for a further administrator exists only when the exception has been used.
CredentialsStand == \A c \in Credentials :
    /\ credential[c].state = "absent" => credential[c].kind = "none"
    /\ credential[c].state # "absent" => transition.state # "absent"
    /\ grant[c] # Absent => credential[c].state = "consumed"
    /\ credential[c].kind = "admin" => /\ credential[c].change \in Changes
                                       /\ transition.state = "consumed"

\* Who governed at a revision still does as long as it is the current one, and
\* has kept a session of it.
StillGoverns(p, r) ==
    /\ grant[p] # Absent /\ r <= revision[p]
    /\ r = revision[p] => Governor(p) /\ \E s \in session : s.principal = p

\* Changes were proposed, and are agreed on, by administrators of the tenant, and
\* concern members; one applied has moved the membership on.
ChangesStand == \A k \in Changes :
    /\ change[k].state # "absent" => StillGoverns(change[k].proposer, change[k].proposerRevision)
    /\ change[k].state = "approved" => StillGoverns(change[k].approver, change[k].approverRevision)
    /\ change[k].kind = "membership" =>
         /\ change[k].to \in Grants /\ grant[change[k].target] # Absent
         /\ change[k].state = "applied" => change[k].targetRevision < revision[change[k].target]

IInv ==
    /\ TypeOK
    /\ Founded
    /\ CredentialsStand
    /\ ChangesStand
    /\ TwoAdminsRemain
    /\ SessionsFollowMemberships
    /\ AppliedOnce

-----------------------------------------------------------------------------
(* Who is there                                                            *)

LEMMA SetsFinite ==
    /\ IsFiniteSet(Principals) /\ IsFiniteSet(Changes)
    /\ 0 \in Principals /\ Credentials \subseteq Principals \ {0}
BY FS_Interval, BoundsAssumption DEF Principals, Credentials, Changes

LEMMA AdminsFinite ==
    /\ IsFiniteSet(Admins) /\ Cardinality(Admins) \in Nat
    /\ Governors \subseteq Admins
<1>1. Admins \subseteq Principals
  BY DEF Admins
<1>. QED  BY <1>1, SetsFinite, FS_Subset, FS_CardinalityType DEF Governors, Governor, Admins

LEMMA PairHasTwo == ASSUME NEW p, NEW q, p # q PROVE Cardinality({p, q}) = 2
<1>1. IsFiniteSet({p}) /\ Cardinality({p}) = 1
  BY FS_Singleton
<1>2. {p, q} = {p} \cup {q} /\ q \notin {p}
  OBVIOUS
<1>3. Cardinality({p} \cup {q}) = Cardinality({p}) + 1
  BY <1>1, <1>2, FS_AddElement
<1>. QED  BY <1>1, <1>2, <1>3

\* Nobody who may be a member, or be made one, is without a grant.
LEMMA GrantsAreGrants ==
    /\ FullAdmin # Absent /\ Member # Absent
    /\ \A g \in Grants : g # Absent /\ g \in [role : Roles, status : Statuses, scope : Scopes]
    /\ FullAdmin \in [role : Roles, status : Statuses, scope : Scopes]
    /\ Member \in [role : Roles, status : Statuses, scope : Scopes]
<1>1. \A g \in [role : Roles, status : Statuses, scope : Scopes] : g # Absent
  <2>. SUFFICES ASSUME NEW g \in [role : Roles, status : Statuses, scope : Scopes]
       PROVE  g.role # Absent.role
    OBVIOUS
  <2>. QED  BY DEF Roles, Absent
<1>2. /\ FullAdmin \in [role : Roles, status : Statuses, scope : Scopes]
      /\ Member \in [role : Roles, status : Statuses, scope : Scopes]
  BY DEF FullAdmin, Member, Roles, Statuses, Scopes
<1>. QED  BY <1>1, <1>2, BoundsAssumption

\* A principal with an active membership is a member.
LEMMA ActiveIsMember == \A p : Active(p) => grant[p] # Absent
BY DEF Active, Absent

\* One more administrator, one fewer, or the same ones.
LEMMA OneMoreAdmin ==
    ASSUME NEW p \in Principals, ~Admin(p), Admin(p)',
           \A q \in Principals : q # p => grant'[q] = grant[q]
    PROVE  Cardinality(Admins)' = Cardinality(Admins) + 1
<1>1. Admins' = Admins \cup {p} /\ p \notin Admins
  BY DEF Admins, Admin, Active
<1>. QED  BY <1>1, AdminsFinite, FS_AddElement

LEMMA OneFewerAdmin ==
    ASSUME NEW p \in Principals, Admin(p), ~Admin(p)',
           \A q \in Principals : q # p => grant'[q] = grant[q]
    PROVE  Cardinality(Admins)' = Cardinality(Admins) - 1
<1>1. Admins' = Admins \ {p} /\ p \in Admins
  BY DEF Admins, Admin, Active
<1>. QED  BY <1>1, AdminsFinite, FS_RemoveElement

LEMMA SameAdmins ==
    ASSUME NEW p \in Principals, Admin(p)' <=> Admin(p),
           \A q \in Principals : q # p => grant'[q] = grant[q]
    PROVE  Admins' = Admins
BY DEF Admins, Admin, Active

\* The membership changes applied to a principal.
Applied(p) == {k \in Changes : change[k].kind = "membership"
                               /\ change[k].state = "applied" /\ change[k].target = p}

LEMMA AppliedFinite ==
    ASSUME NEW p PROVE IsFiniteSet(Applied(p)) /\ Cardinality(Applied(p)) \in Nat
<1>1. Applied(p) \subseteq Changes
  BY DEF Applied
<1>. QED  BY <1>1, SetsFinite, FS_Subset, FS_CardinalityType

\* AppliedOnce in parts: revisions count what was applied, nothing was applied
\* twice to one revision, and an administrator's credential has an approval of
\* its own.
Counted == \A p \in Principals : grant[p] # Absent => revision[p] = 1 + Cardinality(Applied(p))
EachOnce == \A j, k \in Changes :
    /\ change[j].kind = "membership" /\ change[j].state = "applied"
    /\ change[k].kind = "membership" /\ change[k].state = "applied"
    /\ change[j].target = change[k].target
    /\ change[j].targetRevision = change[k].targetRevision
    => j = k
OwnApproval == \A c \in Credentials : credential[c].kind = "admin" =>
    /\ change[credential[c].change].kind = "enrollment"
    /\ change[credential[c].change].state = "applied"
    /\ \A d \in Credentials :
         credential[d].kind = "admin" /\ credential[d].change = credential[c].change => c = d

LEMMA AppliedOnceParts ==
    ASSUME TypeOK PROVE AppliedOnce <=> Counted /\ EachOnce /\ OwnApproval
<1>1. \A k \in Changes : change[k].target \in Principals
  BY DEF TypeOK, ChangeRow
<1>. QED  BY <1>1, ZenonT(90) DEF AppliedOnce, Counted, EachOnce, OwnApproval, Applied

LEMMA AppliedOncePartsNext ==
    ASSUME TypeOK' PROVE AppliedOnce' <=> Counted' /\ EachOnce' /\ OwnApproval'
<1>1. \A k \in Changes : change'[k].target \in Principals
  BY DEF TypeOK, ChangeRow
<1>. QED  BY <1>1, ZenonT(90) DEF AppliedOnce, Counted, EachOnce, OwnApproval, Applied

\* What the invariant says at first.
LEMMA Initially == Init => IInv
<1>. SUFFICES ASSUME Init PROVE IInv
  OBVIOUS
<1>1. TypeOK
  <2>1. NoCredential \in CredentialRow
    BY SetsFinite, BoundsAssumption DEF NoCredential, CredentialRow
  <2>2. NoChange \in ChangeRow
    BY SetsFinite, BoundsAssumption DEF NoChange, ChangeRow
  <2>. QED  BY <2>1, <2>2, BoundsAssumption DEF Init, TypeOK
<1>2. Founded
  BY DEF Init, Founded
<1>3. CredentialsStand
  BY SetsFinite DEF Init, CredentialsStand, NoCredential
<1>4. ChangesStand
  BY DEF Init, ChangesStand, NoChange
<1>5. TwoAdminsRemain
  BY DEF Init, TwoAdminsRemain
<1>6. SessionsFollowMemberships
  BY DEF Init, SessionsFollowMemberships
<1>7. Counted /\ EachOnce /\ OwnApproval
  BY SetsFinite DEF Init, Counted, EachOnce, OwnApproval, NoChange, NoCredential
<1>. QED  BY <1>1, <1>2, <1>3, <1>4, <1>5, <1>6, <1>7, AppliedOnceParts DEF IInv

-----------------------------------------------------------------------------
(* Steps                                                                   *)

\* An approval that can be used is of two administrators of the tenant, each
\* with a session.
LEMMA ConsumableIsAgreed ==
    ASSUME IInv, NEW k \in Changes, Consumable(k)
    PROVE  /\ change[k].proposer \in Governors /\ change[k].approver \in Governors
           /\ change[k].proposer # change[k].approver
           /\ \E s \in session : s.principal = change[k].proposer
           /\ \E s \in session : s.principal = change[k].approver
           /\ Cardinality(Admins) >= 2
           /\ transition.state = "consumed"
<1>. DEFINE p == change[k].proposer
            q == change[k].approver
<1>1. p \in Principals /\ q \in Principals /\ p # q
  BY DEF IInv, TypeOK, ChangeRow, Consumable
<1>2. /\ Governor(p) /\ (\E s \in session : s.principal = p)
      /\ Governor(q) /\ (\E s \in session : s.principal = q)
  BY DEF IInv, ChangesStand, StillGoverns, Consumable
<1>3. p \in Governors /\ q \in Governors
  BY <1>1, <1>2 DEF Governors
<1>4. Cardinality(Admins) >= 2
  <2>1. {p, q} \subseteq Admins
    BY <1>3, AdminsFinite
  <2>2. Cardinality({p, q}) = 2
    BY <1>1, PairHasTwo
  <2>. QED  BY <2>1, <2>2, AdminsFinite, FS_Subset
<1>5. transition.state = "consumed"
  <2>1. transition.state # "available"
    BY <1>4 DEF IInv, TwoAdminsRemain
  <2>2. transition.state # "absent"
    BY <1>1, <1>2, ActiveIsMember DEF Governor, Admin, IInv, Founded
  <2>. QED  BY <2>1, <2>2 DEF IInv, TypeOK
<1>. QED  BY <1>1, <1>2, <1>3, <1>4, <1>5

\* Whoever may govern does so since the bootstrap.
LEMMA GovernorsAreMembers ==
    ASSUME IInv, NEW p \in Principals, MayGovern(p)
    PROVE  /\ transition.state # "absent" /\ grant[p] # Absent
           /\ StillGoverns(p, revision[p])
<1>1. Governor(p) /\ \E s \in session : s.principal = p
  BY DEF MayGovern, SignedIn
<1>2. grant[p] # Absent
  BY <1>1, ActiveIsMember DEF Governor, Admin
<1>. QED  BY <1>1, <1>2 DEF IInv, Founded, TypeOK, StillGoverns

\* A credential moves on, and nobody's authority changes.
LEMMA CredentialMoves ==
    ASSUME IInv, NEW c \in Credentials, NEW row \in CredentialRow,
           credential' = [credential EXCEPT ![c] = row],
           row.state # "absent", credential[c].state = "consumed" => row.state = "consumed",
           row.kind = "admin" => /\ credential[c].kind = "admin"
                                 /\ row.change = credential[c].change,
           transition' \in [state : {"absent", "available", "consumed"},
                            active : 0..NumCredentials],
           transition'.state = transition.state, transition.state # "absent",
           late' \in 0..MaxLate, UNCHANGED <<grant, revision, change, session>>
    PROVE  IInv'
<1>u. grant' = grant /\ revision' = revision /\ change' = change /\ session' = session
  OBVIOUS
<1>c. /\ credential'[c] = row
      /\ \A d \in Credentials : d # c => credential'[d] = credential[d]
  BY DEF IInv, TypeOK
<1>1. TypeOK'
  BY <1>u DEF IInv, TypeOK
<1>2. Founded'
  BY <1>u DEF IInv, Founded
<1>3. CredentialsStand'
  BY <1>u, <1>c DEF IInv, CredentialsStand
<1>4. ChangesStand'
  BY <1>u DEF IInv, ChangesStand, StillGoverns, Governor, Admin, Active
<1>5. TwoAdminsRemain'
  BY <1>u DEF IInv, TwoAdminsRemain, Admins, Admin, Active
<1>6. SessionsFollowMemberships'
  BY <1>u DEF IInv, SessionsFollowMemberships, Governors, Governor, Admin, Active
<1>7. AppliedOnce'
  <2>1. Counted /\ EachOnce /\ OwnApproval
    BY AppliedOnceParts DEF IInv
  <2>2. Counted' /\ EachOnce'
    BY <1>u, <2>1 DEF Counted, Applied, EachOnce
  <2>3. OwnApproval'
    BY <1>u, <1>c, <2>1 DEF OwnApproval
  <2>. QED  BY <1>1, <2>2, <2>3, AppliedOncePartsNext
<1>. QED  BY <1>1, <1>2, <1>3, <1>4, <1>5, <1>6, <1>7 DEF IInv

\* A change moves on without being applied.
LEMMA ChangeMoves ==
    ASSUME IInv, NEW k \in Changes, NEW row \in ChangeRow,
           change' = [change EXCEPT ![k] = row],
           change[k].state # "applied", row.state # "applied",
           StillGoverns(row.proposer, row.proposerRevision),
           row.state = "approved" => StillGoverns(row.approver, row.approverRevision),
           row.kind = "membership" => row.to \in Grants /\ grant[row.target] # Absent,
           late' \in 0..MaxLate,
           UNCHANGED <<grant, revision, transition, credential, session>>
    PROVE  IInv'
<1>u. /\ grant' = grant /\ revision' = revision /\ transition' = transition
      /\ credential' = credential /\ session' = session
  OBVIOUS
<1>c. /\ change'[k] = row
      /\ \A j \in Changes : j # k => change'[j] = change[j]
  BY DEF IInv, TypeOK
<1>1. TypeOK'
  BY <1>u DEF IInv, TypeOK
<1>2. Founded'
  BY <1>u DEF IInv, Founded
<1>3. CredentialsStand'
  BY <1>u DEF IInv, CredentialsStand
<1>4. ChangesStand'
  <2>1. \A p, r : StillGoverns(p, r)' <=> StillGoverns(p, r)
    BY <1>u DEF StillGoverns, Governor, Admin, Active
  <2>. QED  BY <1>u, <1>c, <2>1 DEF IInv, ChangesStand
<1>5. TwoAdminsRemain'
  BY <1>u DEF IInv, TwoAdminsRemain, Admins, Admin, Active
<1>6. SessionsFollowMemberships'
  BY <1>u DEF IInv, SessionsFollowMemberships, Governors, Governor, Admin, Active
<1>7. AppliedOnce'
  <2>1. Counted /\ EachOnce /\ OwnApproval
    BY AppliedOnceParts DEF IInv
  <2>2. \A p : Applied(p)' = Applied(p)
    BY <1>c DEF Applied
  <2>3. Counted'
    BY <1>u, <2>1, <2>2 DEF Counted
  <2>4. EachOnce'
    BY <1>c, <2>1 DEF EachOnce
  <2>5. OwnApproval'
    <3>1. ASSUME NEW c \in Credentials, credential[c].kind = "admin"
          PROVE  change'[credential[c].change] = change[credential[c].change]
      BY <1>c, <2>1, <3>1 DEF OwnApproval, IInv, CredentialsStand
    <3>. QED  BY <1>u, <2>1, <3>1 DEF OwnApproval
  <2>. QED  BY <1>1, <2>3, <2>4, <2>5, AppliedOncePartsNext
<1>. QED  BY <1>1, <1>2, <1>3, <1>4, <1>5, <1>6, <1>7 DEF IInv

LEMMA NoCredentialRow == NoCredential \in CredentialRow
BY SetsFinite, BoundsAssumption DEF NoCredential, CredentialRow

\* A credential is authorised by one administrator: for the second one, for a
\* member or for a recovery.
LEMMA AuthorizedRow ==
    ASSUME IInv, NEW p \in Principals, NEW c \in Credentials,
           \/ AuthorizeSecond(p, c) \/ AuthorizeUser(p, c)
           \/ \E t \in Principals : AuthorizeRecovery(p, c, t)
    PROVE  \E row \in CredentialRow :
             /\ credential' = [credential EXCEPT ![c] = row]
             /\ row.state = "authorized" /\ row.kind # "admin"
<1>1. CASE AuthorizeSecond(p, c)
  <2>. DEFINE row == [NoCredential EXCEPT !.kind = "second", !.state = "authorized"]
  <2>. row \in CredentialRow
    BY NoCredentialRow DEF CredentialRow
  <2>1. row.state = "authorized" /\ row.kind = "second"
    BY NoCredentialRow DEF CredentialRow
  <2>. WITNESS row \in CredentialRow
  <2>. QED  BY <1>1, <2>1 DEF AuthorizeSecond
<1>2. CASE AuthorizeUser(p, c)
  <2>. DEFINE row == [NoCredential EXCEPT !.kind = "user", !.state = "authorized"]
  <2>. row \in CredentialRow
    BY NoCredentialRow DEF CredentialRow
  <2>1. row.state = "authorized" /\ row.kind = "user"
    BY NoCredentialRow DEF CredentialRow
  <2>. WITNESS row \in CredentialRow
  <2>. QED  BY <1>2, <2>1 DEF AuthorizeUser
<1>3. CASE \E t \in Principals : AuthorizeRecovery(p, c, t)
  <2>1. PICK t \in Principals : AuthorizeRecovery(p, c, t)
    BY <1>3
  <2>2. revision[t] \in Nat
    BY DEF IInv, TypeOK
  <2>. DEFINE row == [NoCredential EXCEPT !.kind = "recovery", !.state = "authorized",
                                          !.target = t, !.targetRevision = revision[t]]
  <2>. row \in CredentialRow
    BY <2>2, NoCredentialRow DEF CredentialRow
  <2>3. row.state = "authorized" /\ row.kind = "recovery"
    BY NoCredentialRow DEF CredentialRow
  <2>. WITNESS row \in CredentialRow
  <2>. QED  BY <2>1, <2>3 DEF AuthorizeRecovery
<1>. QED  BY <1>1, <1>2, <1>3

LEMMA AuthorizeStep ==
    ASSUME IInv, NEW p \in Principals, NEW c \in Credentials,
           \/ AuthorizeSecond(p, c) \/ AuthorizeUser(p, c)
           \/ \E t \in Principals : AuthorizeRecovery(p, c, t)
    PROVE  IInv'
<1>1. PICK row \in CredentialRow :
        /\ credential' = [credential EXCEPT ![c] = row]
        /\ row.state = "authorized" /\ row.kind # "admin"
  BY AuthorizedRow
<1>2. /\ credential[c].state = "absent"
      /\ UNCHANGED <<grant, revision, change, session, late>>
      /\ transition' = transition \/ transition' = [transition EXCEPT !.active = c]
  BY DEF AuthorizeSecond, AuthorizeUser, AuthorizeRecovery, Fresh
<1>3. /\ transition' \in [state : {"absent", "available", "consumed"}, active : 0..NumCredentials]
      /\ transition'.state = transition.state
  <2>1. c \in 0..NumCredentials
    BY SetsFinite DEF Principals
  <2>. QED  BY <1>2, <2>1 DEF IInv, TypeOK
<1>4. late' \in 0..MaxLate
  BY <1>2 DEF IInv, TypeOK
<1>5. transition.state # "absent"
  BY GovernorsAreMembers DEF AuthorizeSecond, AuthorizeUser, AuthorizeRecovery
<1>. QED  BY <1>1, <1>2, <1>3, <1>4, <1>5, CredentialMoves

\* A credential is retrieved, expires or is revoked.
LEMMA CloseCredentialStep ==
    ASSUME IInv, NEW c \in Credentials,
           Retrieve(c) \/ ExpireCredential(c) \/ \E p \in Principals : RevokeCredential(p, c)
    PROVE  IInv'
<1>1. PICK s \in {"retrieved", "expired", "revoked"} :
        /\ credential[c].state \notin {"absent", "consumed"}
        /\ credential' = [credential EXCEPT ![c].state = s]
        /\ UNCHANGED <<grant, revision, transition, change, session, late>>
  BY DEF Retrieve, ExpireCredential, RevokeCredential, Retrieved
<1>. DEFINE row == [credential[c] EXCEPT !.state = s]
<1>2. credential[c] \in CredentialRow
  BY DEF IInv, TypeOK
<1>3. /\ row \in CredentialRow /\ row.state = s
      /\ row.kind = credential[c].kind /\ row.change = credential[c].change
  BY <1>2 DEF CredentialRow
<1>4. credential' = [credential EXCEPT ![c] = row]
  BY <1>1
<1>. HIDE DEF row
<1>5. /\ transition' \in [state : {"absent", "available", "consumed"}, active : 0..NumCredentials]
      /\ late' \in 0..MaxLate
  BY <1>1 DEF IInv, TypeOK
<1>6. transition.state # "absent"
  BY <1>1 DEF IInv, CredentialsStand
<1>. QED  BY <1>1, <1>3, <1>4, <1>5, <1>6, CredentialMoves

\* What is known of a change that was proposed.
LEMMA ProposedChange ==
    ASSUME IInv, NEW k \in Changes, change[k].state \notin {"absent", "applied"}
    PROVE  /\ change[k] \in ChangeRow
           /\ StillGoverns(change[k].proposer, change[k].proposerRevision)
           /\ change[k].state = "approved"
                => StillGoverns(change[k].approver, change[k].approverRevision)
           /\ change[k].kind = "membership"
                => change[k].to \in Grants /\ grant[change[k].target] # Absent
BY DEF IInv, TypeOK, ChangesStand

\* A change of a membership, or a further administrator, is proposed.
LEMMA ProposeStep ==
    ASSUME IInv, NEW p \in Principals, NEW k \in Changes,
           \/ ProposeEnrollment(p, k)
           \/ \E t \in Principals, g \in Grants : ProposeMembership(p, k, t, g)
    PROVE  IInv'
<1>1. /\ change[k].state = "absent" /\ MayGovern(p)
      /\ late' \in 0..MaxLate /\ UNCHANGED <<grant, revision, transition, credential, session>>
  BY DEF ProposeEnrollment, ProposeMembership, FreshChange, IInv, TypeOK
<1>2. StillGoverns(p, revision[p]) /\ revision \in [Principals -> Nat]
  BY <1>1, GovernorsAreMembers DEF IInv, TypeOK
<1>3. CASE ProposeEnrollment(p, k)
  <2>. DEFINE row == [Proposed(p, "enrollment", 0, FullAdmin) EXCEPT !.targetRevision = 1]
  <2>1. /\ row \in ChangeRow /\ row.state = "pending" /\ row.kind = "enrollment"
        /\ row.proposer = p /\ row.proposerRevision = revision[p]
    BY <1>2, SetsFinite DEF Proposed, NoChange, ChangeRow
  <2>2. change' = [change EXCEPT ![k] = row]
    BY <1>3 DEF ProposeEnrollment
  <2>. HIDE DEF row
  <2>. QED  BY <1>1, <1>2, <2>1, <2>2, ChangeMoves
<1>4. ASSUME NEW t \in Principals, NEW g \in Grants, ProposeMembership(p, k, t, g) PROVE IInv'
  <2>. DEFINE row == Proposed(p, "membership", t, g)
  <2>1. /\ row \in ChangeRow /\ row.state = "pending" /\ row.to = g /\ row.target = t
        /\ row.proposer = p /\ row.proposerRevision = revision[p]
    BY <1>2, SetsFinite DEF Proposed, NoChange, ChangeRow
  <2>2. change' = [change EXCEPT ![k] = row] /\ grant[t] # Absent
    BY <1>4 DEF ProposeMembership
  <2>. HIDE DEF row
  <2>. QED  BY <1>1, <1>2, <2>1, <2>2, ChangeMoves
<1>. QED  BY <1>3, <1>4

\* A change is decided on.
LEMMA DecideStep ==
    ASSUME IInv, NEW p \in Principals, NEW k \in Changes,
           NEW verdict \in {"approved", "rejected"}, Decide(p, k, verdict)
    PROVE  IInv'
<1>. DEFINE row == [change[k] EXCEPT !.state = verdict, !.approver = p,
                                     !.approverRevision = revision[p]]
<1>1. /\ change[k].state = "pending" /\ MayGovern(p)
      /\ change' = [change EXCEPT ![k] = row]
      /\ late' \in 0..MaxLate /\ UNCHANGED <<grant, revision, transition, credential, session>>
  BY DEF Decide, MayDecide, IInv, TypeOK
<1>2. StillGoverns(p, revision[p]) /\ revision[p] \in Nat
  BY <1>1, GovernorsAreMembers DEF IInv, TypeOK
<1>3. /\ row \in ChangeRow /\ row.state = verdict
      /\ row.approver = p /\ row.approverRevision = revision[p]
      /\ row.proposer = change[k].proposer /\ row.proposerRevision = change[k].proposerRevision
      /\ row.kind = change[k].kind /\ row.to = change[k].to /\ row.target = change[k].target
  BY <1>1, <1>2, ProposedChange DEF ChangeRow
<1>. HIDE DEF row
<1>. QED  BY <1>1, <1>2, <1>3, ProposedChange, ChangeMoves

\* A change closes without being applied.
LEMMA CloseChangeStep ==
    ASSUME IInv, NEW p \in Principals, NEW k \in Changes, ExpireChange(p, k) \/ MarkStale(p, k)
    PROVE  IInv'
<1>1. PICK s \in {"expired", "stale"} :
        /\ change[k].state \in {"pending", "approved"}
        /\ change' = [change EXCEPT ![k].state = s]
        /\ UNCHANGED <<grant, revision, transition, credential, session, late>>
  BY DEF ExpireChange, MarkStale
<1>. DEFINE row == [change[k] EXCEPT !.state = s]
<1>2. change' = [change EXCEPT ![k] = row] /\ late' \in 0..MaxLate
  BY <1>1 DEF IInv, TypeOK
<1>3. /\ row \in ChangeRow /\ row.state = s
      /\ row.proposer = change[k].proposer /\ row.proposerRevision = change[k].proposerRevision
      /\ row.kind = change[k].kind /\ row.to = change[k].to /\ row.target = change[k].target
  BY <1>1, ProposedChange DEF ChangeRow
<1>. HIDE DEF row
<1>. QED  BY <1>1, <1>2, <1>3, ProposedChange, ChangeMoves

\* Sessions are replaced, one by one, and nothing else that authority rests on
\* changes.
LEMMA SessionsMove ==
    ASSUME IInv, TypeOK', CredentialsStand', OwnApproval',
           UNCHANGED <<grant, revision, transition, change>>,
           \A s \in session : \E u \in session' : u.principal = s.principal
                                                  /\ u.revision = s.revision,
           \A s \in session' : Active(s.principal) /\ s.revision = revision[s.principal],
           \A s, u \in session' : s.principal = u.principal => s = u
    PROVE  IInv'
<1>u. /\ grant' = grant /\ revision' = revision /\ transition' = transition
      /\ change' = change
  OBVIOUS
<1>1. Founded'
  BY <1>u DEF IInv, Founded
<1>2. Governors' = Governors
  BY <1>u DEF Governors, Governor, Admin, Active
<1>3. ChangesStand'
  <2>1. \A p, r : StillGoverns(p, r) => StillGoverns(p, r)'
    BY <1>u DEF StillGoverns, Governor, Admin, Active
  <2>. QED  BY <1>u, <2>1 DEF IInv, ChangesStand
<1>4. TwoAdminsRemain'
  BY <1>u DEF IInv, TwoAdminsRemain, Admins, Admin, Active
<1>5. SessionsFollowMemberships'
  <2>1. transition'.state # "absent" =>
          \E u \in session' : u.principal \in Governors /\ u.revision = revision[u.principal]
    BY <1>u DEF IInv, SessionsFollowMemberships
  <2>. QED  BY <1>u, <1>2, <2>1 DEF SessionsFollowMemberships, Active
<1>6. AppliedOnce'
  <2>1. Counted /\ EachOnce
    BY AppliedOnceParts DEF IInv
  <2>2. Counted' /\ EachOnce'
    BY <1>u, <2>1 DEF Counted, EachOnce, Applied
  <2>. QED  BY <2>2, AppliedOncePartsNext
<1>. QED  BY <1>1, <1>3, <1>4, <1>5, <1>6 DEF IInv

\* Time passes for a change, a credential or a session.
LEMMA LapseStep == ASSUME IInv, Lapse PROVE IInv'
<1>1. late' \in 0..MaxLate /\ grant' = grant /\ revision' = revision /\ transition' = transition
  BY BoundsAssumption DEF Lapse, IInv, TypeOK
<1>2. ASSUME NEW k \in Changes, change[k].state \in {"pending", "approved"},
             \/ change' = [change EXCEPT ![k].late = TRUE, ![k].lapsed = TRUE]
             \/ change' = [change EXCEPT ![k].lapsed = TRUE],
             UNCHANGED <<credential, session>>
      PROVE  IInv'
  <2>1. PICK row \in ChangeRow :
          /\ change' = [change EXCEPT ![k] = row] /\ row.state = change[k].state
          /\ row.proposer = change[k].proposer /\ row.proposerRevision = change[k].proposerRevision
          /\ row.approver = change[k].approver /\ row.approverRevision = change[k].approverRevision
          /\ row.kind = change[k].kind /\ row.to = change[k].to /\ row.target = change[k].target
    <3>. DEFINE late1 == [change[k] EXCEPT !.late = TRUE, !.lapsed = TRUE]
                lapsed1 == [change[k] EXCEPT !.lapsed = TRUE]
    <3>1. change[k] \in ChangeRow
      BY DEF IInv, TypeOK
    <3>2. CASE change' = [change EXCEPT ![k].late = TRUE, ![k].lapsed = TRUE]
      <4>. late1 \in ChangeRow
        BY <3>1 DEF ChangeRow
      <4>. WITNESS late1 \in ChangeRow
      <4>. QED  BY <3>1, <3>2 DEF ChangeRow
    <3>3. CASE change' = [change EXCEPT ![k].lapsed = TRUE]
      <4>. lapsed1 \in ChangeRow
        BY <3>1 DEF ChangeRow
      <4>. WITNESS lapsed1 \in ChangeRow
      <4>. QED  BY <3>1, <3>3 DEF ChangeRow
    <3>. QED  BY <1>2, <3>2, <3>3
  <2>2. /\ UNCHANGED <<grant, revision, transition, credential, session>>
        /\ change[k].state \in {"pending", "approved"}
    BY <1>1, <1>2
  <2>3. /\ StillGoverns(row.proposer, row.proposerRevision)
        /\ row.state = "approved" => StillGoverns(row.approver, row.approverRevision)
        /\ row.kind = "membership" => row.to \in Grants /\ grant[row.target] # Absent
    BY <2>1, <2>2, ProposedChange
  <2>. QED  BY <1>1, <2>1, <2>2, <2>3, ChangeMoves
<1>3. ASSUME NEW c \in Credentials, credential[c].state \in {"authorized", "retrieved"},
             credential' = [credential EXCEPT ![c].late = TRUE],
             UNCHANGED <<change, session>>
      PROVE  IInv'
  <2>. DEFINE row == [credential[c] EXCEPT !.late = TRUE]
  <2>1. credential[c] \in CredentialRow
    BY DEF IInv, TypeOK
  <2>2. /\ row \in CredentialRow /\ row.state = credential[c].state
        /\ row.kind = credential[c].kind /\ row.change = credential[c].change
    BY <2>1 DEF CredentialRow
  <2>3. credential' = [credential EXCEPT ![c] = row]
    BY <1>3
  <2>4. /\ transition' \in [state : {"absent", "available", "consumed"}, active : 0..NumCredentials]
        /\ transition.state # "absent" /\ transition'.state = transition.state
        /\ UNCHANGED <<grant, revision, change, session>>
    BY <1>1, <1>3 DEF IInv, TypeOK, CredentialsStand
  <2>5. credential[c].state \in {"authorized", "retrieved"} /\ late' \in 0..MaxLate
    BY <1>1, <1>3
  <2>. HIDE DEF row
  <2>. QED  BY <2>2, <2>3, <2>4, <2>5, CredentialMoves
<1>4. ASSUME NEW s \in session, session' = (session \ {s}) \cup {[s EXCEPT !.late = TRUE]},
             UNCHANGED <<change, credential>>
      PROVE  IInv'
  <2>. DEFINE n == [s EXCEPT !.late = TRUE]
  <2>1. n \in SessionRow /\ n.principal = s.principal /\ n.revision = s.revision
    BY DEF IInv, TypeOK, SessionRow
  <2>. HIDE DEF n
  <2>2. session' = (session \ {s}) \cup {n}
    BY <1>4 DEF n
  <2>3. TypeOK'
    BY <1>1, <1>4, <2>1, <2>2 DEF IInv, TypeOK
  <2>4. CredentialsStand' /\ OwnApproval'
    <3>1. OwnApproval
      BY AppliedOnceParts DEF IInv
    <3>. QED  BY <1>1, <1>4, <3>1 DEF IInv, CredentialsStand, OwnApproval
  <2>5. \A x \in session : \E u \in session' : u.principal = x.principal /\ u.revision = x.revision
    BY <2>1, <2>2
  <2>6. \A x \in session' : Active(x.principal) /\ x.revision = revision[x.principal]
    BY <2>1, <2>2 DEF IInv, SessionsFollowMemberships
  <2>7. \A x, u \in session' : x.principal = u.principal => x = u
    BY <2>1, <2>2 DEF IInv, SessionsFollowMemberships
  <2>. QED  BY <1>1, <1>4, <2>3, <2>4, <2>5, <2>6, <2>7, SessionsMove
<1>. QED  BY <1>2, <1>3, <1>4 DEF Lapse

\* A recovery replaces the sessions of its target.
LEMMA ConsumeRecoveryStep ==
    ASSUME IInv, NEW c \in Credentials, ConsumeRecovery(c) PROVE IInv'
<1>. DEFINE t == credential[c].target
            n == [id |-> c, principal |-> t, revision |-> credential[c].targetRevision,
                  late |-> FALSE]
            row == [credential[c] EXCEPT !.state = "consumed"]
<1>1. credential[c] \in CredentialRow
  BY DEF IInv, TypeOK
<1>2. /\ row \in CredentialRow /\ row.state = "consumed" /\ row.kind = "recovery"
      /\ credential' = [credential EXCEPT ![c] = row]
  BY <1>1 DEF ConsumeRecovery, CredentialRow
<1>3. /\ n \in SessionRow /\ n.principal = t /\ n.revision = revision[t] /\ Active(t)
  BY <1>1, SetsFinite DEF ConsumeRecovery, Recoverable, SessionRow, CredentialRow
<1>4. /\ session' = {s \in session : s.principal # t} \cup {n}
      /\ UNCHANGED <<grant, revision, transition, change, late>>
  BY DEF ConsumeRecovery, RevokedSessions
<1>c. /\ credential'[c] = row /\ credential[c].kind = "recovery"
      /\ \A d \in Credentials : d # c => credential'[d] = credential[d]
  BY <1>2 DEF IInv, TypeOK, ConsumeRecovery
<1>. HIDE DEF t, n, row
<1>5. TypeOK'
  BY <1>2, <1>3, <1>4 DEF IInv, TypeOK
<1>6. CredentialsStand'
  BY <1>2, <1>4, <1>c DEF IInv, CredentialsStand
<1>7. OwnApproval'
  <2>1. OwnApproval
    BY AppliedOnceParts DEF IInv
  <2>. QED  BY <1>2, <1>4, <1>c, <2>1 DEF OwnApproval
<1>8. \A s \in session : \E u \in session' : u.principal = s.principal /\ u.revision = s.revision
  BY <1>3, <1>4 DEF IInv, SessionsFollowMemberships
<1>9. \A s \in session' : Active(s.principal) /\ s.revision = revision[s.principal]
  BY <1>3, <1>4 DEF IInv, SessionsFollowMemberships
<1>10. \A s, u \in session' : s.principal = u.principal => s = u
  BY <1>3, <1>4 DEF IInv, SessionsFollowMemberships
<1>. QED  BY <1>4, <1>5, <1>6, <1>7, <1>8, <1>9, <1>10, SessionsMove

\* An approval is spent on a credential for a further administrator.
LEMMA AuthorizeAdminStep ==
    ASSUME IInv, NEW p \in Principals, NEW c \in Credentials, NEW k \in Changes,
           AuthorizeAdmin(p, c, k)
    PROVE  IInv'
<1>. DEFINE row == [NoCredential EXCEPT !.kind = "admin", !.state = "authorized", !.change = k]
            new == [change[k] EXCEPT !.state = "applied"]
<1>1. /\ row \in CredentialRow
      /\ row.state = "authorized" /\ row.kind = "admin" /\ row.change = k
  <2>1. k \in 0..NumChanges
    BY BoundsAssumption DEF Changes
  <2>. QED  BY <2>1, NoCredentialRow DEF CredentialRow
<1>2. change[k] \in ChangeRow /\ change[k].state = "approved" /\ change[k].kind = "enrollment"
  BY DEF IInv, TypeOK, AuthorizeAdmin, Consumable
<1>3. /\ new \in ChangeRow /\ new.state = "applied" /\ new.kind = "enrollment"
      /\ new.proposer = change[k].proposer /\ new.proposerRevision = change[k].proposerRevision
  BY <1>2 DEF ChangeRow
<1>c. /\ credential' = [credential EXCEPT ![c] = row] /\ credential[c].state = "absent"
      /\ credential'[c] = row
      /\ \A d \in Credentials : d # c => credential'[d] = credential[d]
  BY DEF AuthorizeAdmin, Fresh, IInv, TypeOK
<1>k. /\ change' = [change EXCEPT ![k] = new] /\ change'[k] = new
      /\ \A j \in Changes : j # k => change'[j] = change[j]
  BY DEF AuthorizeAdmin, IInv, TypeOK
<1>u. /\ grant' = grant /\ revision' = revision /\ transition' = transition
      /\ session' = session /\ late' = late
  BY DEF AuthorizeAdmin
<1>4. transition.state = "consumed"
  BY ConsumableIsAgreed DEF AuthorizeAdmin
<1>. HIDE DEF row, new
<1>5. TypeOK'
  BY <1>1, <1>3, <1>c, <1>k, <1>u DEF IInv, TypeOK
<1>6. Founded'
  BY <1>u DEF IInv, Founded
<1>7. CredentialsStand'
  BY <1>1, <1>4, <1>c, <1>u DEF IInv, CredentialsStand
<1>8. ChangesStand'
  <2>1. \A q, r : StillGoverns(q, r)' <=> StillGoverns(q, r)
    BY <1>u DEF StillGoverns, Governor, Admin, Active
  <2>. QED  BY <1>2, <1>3, <1>k, <1>u, <2>1 DEF IInv, ChangesStand
<1>9. TwoAdminsRemain'
  BY <1>u DEF IInv, TwoAdminsRemain, Admins, Admin, Active
<1>10. SessionsFollowMemberships'
  BY <1>u DEF IInv, SessionsFollowMemberships, Governors, Governor, Admin, Active
<1>11. AppliedOnce'
  <2>1. Counted /\ EachOnce /\ OwnApproval
    BY AppliedOnceParts DEF IInv
  <2>2. \A q : Applied(q)' = Applied(q)
    BY <1>2, <1>3, <1>k DEF Applied
  <2>3. Counted'
    BY <1>u, <2>1, <2>2 DEF Counted
  <2>4. EachOnce'
    BY <1>3, <1>k, <2>1 DEF EachOnce
  <2>5. ASSUME NEW d \in Credentials, d # c, credential[d].kind = "admin"
        PROVE  /\ credential[d].change # k /\ credential[d].change \in Changes
               /\ change'[credential[d].change] = change[credential[d].change]
    BY <1>2, <1>k, <2>1, <2>5 DEF OwnApproval, IInv, CredentialsStand
  <2>6. OwnApproval'
    BY <1>1, <1>3, <1>c, <1>k, <2>1, <2>5 DEF OwnApproval
  <2>. QED  BY <1>5, <2>3, <2>4, <2>6, AppliedOncePartsNext
<1>. QED  BY <1>5, <1>6, <1>7, <1>8, <1>9, <1>10, <1>11 DEF IInv

\* The first administrator finds nobody and nothing.
LEMMA ConsumeBootstrapStep == ASSUME IInv, ConsumeBootstrap PROVE IInv'
<1>. DEFINE n == NewSession(0, 0)
<1>1. /\ \A p \in Principals : grant[p] = Absent
      /\ grant' = [grant EXCEPT ![0] = FullAdmin] /\ revision' = [revision EXCEPT ![0] = 1]
      /\ transition' = [state |-> "available", active |-> 0]
      /\ session' = {n}
      /\ credential' = credential /\ change' = change /\ late' = late
  BY DEF ConsumeBootstrap
<1>g. /\ grant'[0] = FullAdmin /\ revision'[0] = 1
      /\ \A p \in Principals \ {0} : grant'[p] = Absent /\ revision'[p] = revision[p]
  BY <1>1, SetsFinite DEF IInv, TypeOK
<1>2. n \in SessionRow /\ n.principal = 0 /\ n.revision = 1
  BY <1>g, SetsFinite DEF NewSession, SessionRow
<1>. HIDE DEF n
<1>3. \A k \in Changes : change[k].state = "absent" /\ change[k].kind # "membership"
  <2>1. \A k \in Changes : change[k].proposer \in Principals /\ change[k].target \in Principals
    BY DEF IInv, TypeOK, ChangeRow
  <2>. QED  BY <1>1, <2>1 DEF IInv, ChangesStand, StillGoverns
<1>4. \A c \in Credentials : credential[c].kind # "admin"
  BY <1>1 DEF IInv, Founded, CredentialsStand
<1>5. TypeOK'
  <2>1. FullAdmin \in [role : Roles, status : Statuses, scope : Scopes] \cup {Absent}
    BY GrantsAreGrants
  <2>2. /\ grant' \in [Principals -> [role : Roles, status : Statuses, scope : Scopes] \cup {Absent}]
        /\ revision' \in [Principals -> Nat]
    BY <1>1, <2>1, SetsFinite DEF IInv, TypeOK
  <2>3. transition' \in [state : {"absent", "available", "consumed"}, active : 0..NumCredentials]
    BY <1>1, BoundsAssumption
  <2>4. /\ credential' \in [Credentials -> CredentialRow] /\ change' \in [Changes -> ChangeRow]
        /\ session' \subseteq SessionRow /\ late' \in 0..MaxLate
    BY <1>1, <1>2 DEF IInv, TypeOK
  <2>. QED  BY <2>2, <2>3, <2>4 DEF TypeOK
<1>6. Founded'
  BY <1>1, <1>g, SetsFinite, GrantsAreGrants DEF Founded
<1>7. CredentialsStand'
  BY <1>1, <1>g, <1>4, SetsFinite DEF IInv, CredentialsStand
<1>8. ChangesStand'
  BY <1>1, <1>3 DEF ChangesStand
<1>9. Admins' = {0} /\ Governors' = {0}
  BY <1>g, SetsFinite DEF Admins, Governors, Governor, Admin, Active, FullAdmin, Absent
<1>10. TwoAdminsRemain'
  BY <1>1, <1>9, FS_Singleton DEF TwoAdminsRemain
<1>11. SessionsFollowMemberships'
  BY <1>1, <1>g, <1>2, <1>9 DEF SessionsFollowMemberships, Active, FullAdmin
<1>12. AppliedOnce'
  <2>1. \A p : Applied(p)' = {}
    BY <1>1, <1>3 DEF Applied
  <2>2. Counted'
    BY <1>g, <2>1, FS_EmptySet DEF Counted
  <2>3. EachOnce' /\ OwnApproval'
    BY <1>1, <1>3, <1>4 DEF EachOnce, OwnApproval
  <2>. QED  BY <1>5, <2>2, <2>3, AppliedOncePartsNext
<1>. QED  BY <1>5, <1>6, <1>7, <1>8, <1>10, <1>11, <1>12 DEF IInv

\* A person is enrolled, with one session of the first revision.
LEMMA ConsumeEnrollmentStep ==
    ASSUME IInv, NEW c \in Credentials, ConsumeEnrollment(c) PROVE IInv'
<1>. DEFINE kind == credential[c].kind
            g == IF kind = "user" THEN Member ELSE FullAdmin
            n == NewSession(c, c)
            row == [credential[c] EXCEPT !.state = "consumed"]
<1>1. /\ credential[c] \in CredentialRow /\ kind \in {"second", "admin", "user"}
      /\ credential[c].state = "retrieved" /\ (kind = "second" => StillSecond(c))
      /\ grant' = [grant EXCEPT ![c] = g] /\ revision' = [revision EXCEPT ![c] = 1]
      /\ session' = session \cup {n}
      /\ transition' = IF kind = "second" THEN [transition EXCEPT !.state = "consumed"]
                       ELSE transition
      /\ credential' = [credential EXCEPT ![c] = row]
      /\ change' = change /\ late' = late
  BY DEF IInv, TypeOK, ConsumeEnrollment, Exchangeable
<1>2. /\ row \in CredentialRow /\ row.state = "consumed" /\ row.kind = kind
      /\ row.change = credential[c].change
  BY <1>1 DEF CredentialRow
<1>c. /\ credential'[c] = row
      /\ \A d \in Credentials : d # c => credential'[d] = credential[d]
  BY <1>1 DEF IInv, TypeOK
<1>g. /\ c \in Principals /\ grant[c] = Absent /\ grant'[c] = g /\ revision'[c] = 1
      /\ g # Absent /\ g \in [role : Roles, status : Statuses, scope : Scopes]
      /\ \A p \in Principals : p # c => grant'[p] = grant[p] /\ revision'[p] = revision[p]
  BY <1>1, SetsFinite, GrantsAreGrants DEF IInv, TypeOK, CredentialsStand
<1>3. Active(c)' /\ ~Active(c) /\ (Admin(c)' <=> kind # "user")
  BY <1>1, <1>g DEF Active, Admin, Absent, Member, FullAdmin
<1>4. n \in SessionRow /\ n.principal = c /\ n.revision = 1
  BY <1>g DEF NewSession, SessionRow
<1>t. /\ transition.state # "absent" /\ transition'.state # "absent"
      /\ kind = "second" => transition.state = "available" /\ transition'.state = "consumed"
      /\ kind # "second" => transition'.state = transition.state
      /\ kind = "admin" => transition.state = "consumed"
  <2>1. kind = "admin" => transition.state = "consumed"
    BY DEF IInv, CredentialsStand
  <2>2. kind = "second" => transition.state = "available"
    BY <1>1 DEF StillSecond
  <2>3. transition'.state = IF kind = "second" THEN "consumed" ELSE transition.state
    BY <1>1 DEF IInv, TypeOK
  <2>4. transition.state # "absent"
    BY <1>1 DEF IInv, CredentialsStand
  <2>. QED  BY <1>1, <2>1, <2>2, <2>3, <2>4
<1>. HIDE DEF kind, g, n, row
<1>5. TypeOK'
  <2>1. /\ grant' \in [Principals -> [role : Roles, status : Statuses, scope : Scopes] \cup {Absent}]
        /\ revision' \in [Principals -> Nat]
    BY <1>1, <1>g DEF IInv, TypeOK
  <2>2. transition' \in [state : {"absent", "available", "consumed"}, active : 0..NumCredentials]
    BY <1>1 DEF IInv, TypeOK
  <2>3. /\ credential' \in [Credentials -> CredentialRow] /\ change' \in [Changes -> ChangeRow]
        /\ session' \subseteq SessionRow /\ late' \in 0..MaxLate
    BY <1>1, <1>2, <1>4 DEF IInv, TypeOK
  <2>. QED  BY <2>1, <2>2, <2>3 DEF TypeOK
<1>6. Founded'
  BY <1>g, <1>t DEF Founded
<1>7. CredentialsStand'
  <2>1. ASSUME NEW d \in Credentials, d # c
        PROVE  /\ credential'[d] = credential[d] /\ grant'[d] = grant[d]
               /\ transition.state = "consumed" => transition'.state = "consumed"
    BY <1>c, <1>g, <1>t, <2>1, SetsFinite
  <2>2. kind = "admin" => row.change \in Changes
    BY <1>2 DEF kind, IInv, CredentialsStand
  <2>. QED  BY <1>2, <1>c, <1>t, <2>1, <2>2 DEF IInv, CredentialsStand
<1>8. ChangesStand'
  <2>1. ASSUME NEW p \in Principals, NEW r, StillGoverns(p, r) PROVE StillGoverns(p, r)'
    <3>1. p # c /\ grant'[p] = grant[p] /\ revision'[p] = revision[p]
      BY <1>g, <2>1 DEF StillGoverns
    <3>. QED  BY <1>1, <2>1, <3>1 DEF StillGoverns, Governor, Admin, Active
  <2>2. \A k \in Changes : change[k].proposer \in Principals /\ change[k].approver \in Principals
                             /\ change[k].target \in Principals
    BY DEF IInv, TypeOK, ChangeRow
  <2>3. ASSUME NEW k \in Changes, change[k].kind = "membership"
        PROVE  /\ change[k].target # c
               /\ grant'[change[k].target] = grant[change[k].target]
               /\ revision'[change[k].target] = revision[change[k].target]
    BY <1>g, <2>2, <2>3 DEF IInv, ChangesStand
  <2>. QED  BY <1>1, <2>1, <2>2, <2>3 DEF IInv, ChangesStand
<1>9. TwoAdminsRemain'
  <2>1. CASE kind = "user"
    <3>1. Admins' = Admins
      BY <1>3, <1>g, <2>1, SameAdmins DEF Admin
    <3>. QED  BY <1>t, <2>1, <3>1 DEF IInv, TwoAdminsRemain
  <2>2. CASE kind # "user"
    <3>1. Cardinality(Admins)' = Cardinality(Admins) + 1
      BY <1>3, <1>g, <2>2, OneMoreAdmin DEF Admin
    <3>. QED  BY <1>1, <1>t, <2>2, <3>1, AdminsFinite DEF IInv, TwoAdminsRemain
  <2>. QED  BY <2>1, <2>2
<1>10. SessionsFollowMemberships'
  <2>1. ASSUME NEW s \in session
        PROVE  /\ s.principal \in Principals /\ s.principal # c
               /\ grant'[s.principal] = grant[s.principal]
               /\ revision'[s.principal] = revision[s.principal]
    <3>1. s.principal \in Principals /\ Active(s.principal)
      BY DEF IInv, TypeOK, SessionRow, SessionsFollowMemberships
    <3>. QED  BY <1>3, <1>g, <3>1
  <2>2. PICK s \in session : s.principal \in Governors /\ s.revision = revision[s.principal]
    BY <1>t DEF IInv, SessionsFollowMemberships
  <2>3. s \in session' /\ s.principal \in Governors' /\ s.revision = revision'[s.principal]
    BY <1>1, <2>1, <2>2 DEF Governors, Governor, Admin, Active
  <2>4. \A u \in session' : Active(u.principal)' /\ u.revision = revision'[u.principal]
    BY <1>1, <1>3, <1>4, <1>g, <2>1 DEF IInv, SessionsFollowMemberships, Active
  <2>5. \A u, v \in session' : u.principal = v.principal => u = v
    BY <1>1, <1>4, <2>1 DEF IInv, SessionsFollowMemberships
  <2>. QED  BY <2>3, <2>4, <2>5 DEF SessionsFollowMemberships
<1>11. AppliedOnce'
  <2>1. Counted /\ EachOnce /\ OwnApproval
    BY AppliedOnceParts DEF IInv
  <2>2. \A p : Applied(p)' = Applied(p)
    BY <1>1 DEF Applied
  <2>3. Applied(c) = {}
    BY <1>g DEF Applied, IInv, ChangesStand
  <2>4. Counted'
    BY <1>g, <2>1, <2>2, <2>3, FS_EmptySet DEF Counted
  <2>5. EachOnce'
    BY <1>1, <2>1 DEF EachOnce
  <2>6. \A d \in Credentials : /\ credential'[d].kind = credential[d].kind
                               /\ credential'[d].change = credential[d].change
    BY <1>2, <1>c DEF kind
  <2>7. OwnApproval'
    BY <1>1, <2>1, <2>6 DEF OwnApproval
  <2>. QED  BY <1>5, <2>4, <2>5, <2>7, AppliedOncePartsNext
<1>. QED  BY <1>5, <1>6, <1>7, <1>8, <1>9, <1>10, <1>11 DEF IInv

\* A change of a membership is applied to the one it is of.
LEMMA ApplyMembershipEffect ==
    ASSUME IInv, NEW p \in Principals, NEW k \in Changes, ApplyMembership(p, k)
    PROVE  \E t \in Principals, g \in Grants, new \in ChangeRow :
             /\ change[k].kind = "membership" /\ change[k].state = "approved"
             /\ change[k].target = t /\ change[k].to = g
             /\ change[k].targetRevision = revision[t] /\ grant[t] # Absent
             /\ (grant[t].role = "admin" /\ (g.role # "admin" \/ g.status = "revoked"))
                   => Cardinality(Admins) > 2
             /\ new.state = "applied" /\ new.kind = "membership"
             /\ new.target = t /\ new.to = g /\ new.targetRevision = revision[t]
             /\ new.proposer = change[k].proposer
             /\ new.proposerRevision = change[k].proposerRevision
             /\ new.approver = change[k].approver
             /\ grant' = [grant EXCEPT ![t] = g]
             /\ revision' = [revision EXCEPT ![t] = revision[t] + 1]
             /\ session' = {s \in session : s.principal # t}
             /\ change' = [change EXCEPT ![k] = new]
             /\ transition' = transition /\ credential' = credential /\ late' = late
<1>. DEFINE t == change[k].target
            g == change[k].to
            new == [change[k] EXCEPT !.state = "applied"]
<1>1. /\ change[k] \in ChangeRow /\ change[k].kind = "membership"
      /\ change[k].state = "approved" /\ change[k].targetRevision = revision[t]
      /\ g \in Grants /\ grant[t] # Absent
  BY DEF IInv, TypeOK, ApplyMembership, Consumable, TargetCurrent, ChangesStand
<1>2. /\ grant' = [grant EXCEPT ![t] = g] /\ revision' = [revision EXCEPT ![t] = revision[t] + 1]
      /\ session' = {s \in session : s.principal # t}
      /\ change' = [change EXCEPT ![k] = new]
      /\ transition' = transition /\ credential' = credential /\ late' = late
  BY DEF IInv, TypeOK, ApplyMembership, RevokedSessions
<1>3. /\ new.state = "applied" /\ new.kind = "membership"
      /\ new.target = t /\ new.to = g /\ new.targetRevision = revision[t]
      /\ new.proposer = change[k].proposer /\ new.proposerRevision = change[k].proposerRevision
      /\ new.approver = change[k].approver
  BY <1>1 DEF ChangeRow
<1>4. (grant[t].role = "admin" /\ (g.role # "admin" \/ g.status = "revoked"))
         => Cardinality(Admins) > 2
  BY DEF ApplyMembership, KeepsTwo
<1>5. t \in Principals /\ new \in ChangeRow
  BY <1>1 DEF ChangeRow
<1>. HIDE DEF new
<1>. QED  BY <1>1, <1>2, <1>3, <1>4, <1>5

LEMMA ApplyMembershipStep ==
    ASSUME IInv, NEW p \in Principals, NEW k \in Changes, ApplyMembership(p, k) PROVE IInv'
<1>0. PICK t \in Principals, g \in Grants, new \in ChangeRow :
        /\ change[k].kind = "membership" /\ change[k].state = "approved"
        /\ change[k].target = t /\ change[k].to = g
        /\ change[k].targetRevision = revision[t] /\ grant[t] # Absent
        /\ (grant[t].role = "admin" /\ (g.role # "admin" \/ g.status = "revoked"))
              => Cardinality(Admins) > 2
        /\ new.state = "applied" /\ new.kind = "membership"
        /\ new.target = t /\ new.to = g /\ new.targetRevision = revision[t]
        /\ new.proposer = change[k].proposer
        /\ new.proposerRevision = change[k].proposerRevision
        /\ new.approver = change[k].approver
        /\ grant' = [grant EXCEPT ![t] = g]
        /\ revision' = [revision EXCEPT ![t] = revision[t] + 1]
        /\ session' = {s \in session : s.principal # t}
        /\ change' = [change EXCEPT ![k] = new]
        /\ transition' = transition /\ credential' = credential /\ late' = late
  BY ApplyMembershipEffect
<1>1. /\ change[k].kind = "membership" /\ change[k].state = "approved"
      /\ change[k].target = t /\ change[k].targetRevision = revision[t] /\ grant[t] # Absent
  BY <1>0
<1>2. /\ grant' = [grant EXCEPT ![t] = g] /\ revision' = [revision EXCEPT ![t] = revision[t] + 1]
      /\ session' = {s \in session : s.principal # t}
      /\ change' = [change EXCEPT ![k] = new]
      /\ transition' = transition /\ credential' = credential /\ late' = late
  BY <1>0
<1>3. /\ new.state = "applied" /\ new.kind = "membership"
      /\ new.target = t /\ new.to = g /\ new.targetRevision = revision[t]
      /\ new.proposer = change[k].proposer /\ new.proposerRevision = change[k].proposerRevision
  BY <1>0
<1>5. /\ change[k].proposer \in Governors /\ change[k].approver \in Governors
      /\ change[k].proposer # change[k].approver
      /\ \E s \in session : s.principal = change[k].proposer
      /\ \E s \in session : s.principal = change[k].approver
      /\ Cardinality(Admins) >= 2 /\ transition.state = "consumed"
  BY ConsumableIsAgreed DEF ApplyMembership
<1>k. /\ change'[k] = new
      /\ \A j \in Changes : j # k => change'[j] = change[j]
  BY <1>2 DEF IInv, TypeOK
<1>g. /\ grant'[t] = g /\ revision[t] \in Nat /\ revision'[t] = revision[t] + 1
      /\ g # Absent /\ g \in [role : Roles, status : Statuses, scope : Scopes]
      /\ \A q \in Principals : q # t => grant'[q] = grant[q] /\ revision'[q] = revision[q]
  BY <1>2, GrantsAreGrants DEF IInv, TypeOK
<1>6. Admin(t) /\ ~Admin(t)' => Cardinality(Admins) > 2
  <2>1. Admin(t) => grant[t].role = "admin"
    BY DEF Admin
  <2>2. ~Admin(t)' => g.role # "admin" \/ g.status = "revoked"
    BY <1>g DEF Admin, Active, Statuses
  <2>. QED  BY <1>0, <2>1, <2>2
<1>7. TypeOK'
  <2>1. /\ grant' \in [Principals -> [role : Roles, status : Statuses, scope : Scopes] \cup {Absent}]
        /\ revision' \in [Principals -> Nat]
    BY <1>2, <1>g DEF IInv, TypeOK
  <2>2. /\ transition' \in [state : {"absent", "available", "consumed"}, active : 0..NumCredentials]
        /\ credential' \in [Credentials -> CredentialRow] /\ change' \in [Changes -> ChangeRow]
        /\ session' \subseteq SessionRow /\ late' \in 0..MaxLate
    BY <1>2, <1>3 DEF IInv, TypeOK
  <2>. QED  BY <2>1, <2>2 DEF TypeOK
<1>8. Founded'
  BY <1>2, <1>5, <1>g DEF Founded
<1>9. CredentialsStand'
  <2>1. \A c \in Credentials : grant'[c] # Absent => grant[c] # Absent
    BY <1>1, <1>g, SetsFinite
  <2>. QED  BY <1>2, <2>1 DEF IInv, CredentialsStand
<1>10. ChangesStand'
  <2>1. ASSUME NEW q \in Principals, NEW r \in Nat, StillGoverns(q, r) PROVE StillGoverns(q, r)'
    <3>1. CASE q = t
      BY <1>g, <2>1, <3>1 DEF StillGoverns
    <3>2. CASE q # t
      <4>1. grant'[q] = grant[q] /\ revision'[q] = revision[q]
        BY <1>g, <3>2
      <4>2. (\E s \in session : s.principal = q) => \E s \in session' : s.principal = q
        BY <1>2, <3>2
      <4>. QED  BY <2>1, <4>1, <4>2 DEF StillGoverns, Governor, Admin, Active
    <3>. QED  BY <3>1, <3>2
  <2>2. \A j \in Changes : /\ change[j].proposer \in Principals /\ change[j].approver \in Principals
                           /\ change[j].proposerRevision \in Nat /\ change[j].approverRevision \in Nat
                           /\ change[j].target \in Principals /\ change[j].targetRevision \in Nat
    BY DEF IInv, TypeOK, ChangeRow
  <2>3. \A q \in Principals : /\ revision[q] \in Nat /\ revision'[q] \in Nat
                              /\ revision[q] <= revision'[q]
                              /\ grant[q] # Absent => grant'[q] # Absent
    BY <1>g DEF IInv, TypeOK
  <2>4. ASSUME NEW j \in Changes, j # k
        PROVE  /\ change[j].state # "absent"
                    => StillGoverns(change[j].proposer, change[j].proposerRevision)'
               /\ change[j].state = "approved"
                    => StillGoverns(change[j].approver, change[j].approverRevision)'
               /\ change[j].kind = "membership" =>
                    /\ change[j].to \in Grants /\ grant'[change[j].target] # Absent
                    /\ change[j].state = "applied"
                         => change[j].targetRevision < revision'[change[j].target]
    <3>1. change'[j] = change[j]
      BY <1>k, <2>4
    <3>2. change[j].kind = "membership" =>
            /\ change[j].to \in Grants /\ grant[change[j].target] # Absent
            /\ change[j].state = "applied" => change[j].targetRevision < revision[change[j].target]
      BY DEF IInv, ChangesStand
    <3>3. /\ change[j].state # "absent"
               => StillGoverns(change[j].proposer, change[j].proposerRevision)
          /\ change[j].state = "approved"
               => StillGoverns(change[j].approver, change[j].approverRevision)
      BY DEF IInv, ChangesStand
    <3>4. change[j].kind = "membership" =>
            /\ change[j].to \in Grants /\ grant'[change[j].target] # Absent
            /\ change[j].state = "applied" => change[j].targetRevision < revision'[change[j].target]
      BY <2>2, <2>3, <3>2
    <3>. QED  BY <2>1, <2>2, <3>1, <3>3, <3>4
  <2>5. /\ StillGoverns(new.proposer, new.proposerRevision)'
        /\ new.to \in Grants /\ grant'[new.target] # Absent
        /\ new.targetRevision < revision'[new.target]
    BY <1>1, <1>3, <1>g, <1>k, <2>1, <2>2 DEF IInv, ChangesStand
  <2>. QED  BY <1>3, <1>k, <2>4, <2>5 DEF ChangesStand
<1>11. TwoAdminsRemain'
  <2>1. CASE Admin(t)' <=> Admin(t)
    BY <1>2, <1>5, <1>g, <2>1, SameAdmins DEF TwoAdminsRemain
  <2>2. CASE Admin(t)' /\ ~Admin(t)
    <3>1. Cardinality(Admins)' = Cardinality(Admins) + 1
      BY <1>g, <2>2, OneMoreAdmin
    <3>. QED  BY <1>2, <1>5, <3>1, AdminsFinite DEF TwoAdminsRemain
  <2>3. CASE ~Admin(t)' /\ Admin(t)
    <3>1. Cardinality(Admins)' = Cardinality(Admins) - 1
      BY <1>g, <2>3, OneFewerAdmin
    <3>. QED  BY <1>2, <1>5, <1>6, <2>3, <3>1, AdminsFinite DEF TwoAdminsRemain
  <2>. QED  BY <2>1, <2>2, <2>3
<1>12. SessionsFollowMemberships'
  <2>1. ASSUME NEW s \in session'
        PROVE  /\ s \in session /\ s.principal \in Principals /\ s.principal # t
               /\ grant'[s.principal] = grant[s.principal]
               /\ revision'[s.principal] = revision[s.principal]
    <3>1. s \in session /\ s.principal # t
      BY <1>2, <2>1
    <3>2. s.principal \in Principals
      BY <3>1 DEF IInv, TypeOK, SessionRow
    <3>. QED  BY <1>g, <3>1, <3>2
  <2>2. PICK s \in session : s.principal \in Governors /\ s.principal # t
    BY <1>5
  <2>3. s \in session' /\ s.principal \in Governors'
    <3>1. s \in session'
      BY <1>2, <2>2
    <3>. QED  BY <2>1, <2>2, <3>1 DEF Governors, Governor, Admin, Active
  <2>4. \A u \in session' : Active(u.principal)' /\ u.revision = revision'[u.principal]
    BY <2>1 DEF IInv, SessionsFollowMemberships, Active
  <2>5. \A u, v \in session' : u.principal = v.principal => u = v
    BY <2>1 DEF IInv, SessionsFollowMemberships
  <2>. QED  BY <2>3, <2>4, <2>5 DEF SessionsFollowMemberships
<1>13. AppliedOnce'
  <2>1. Counted /\ EachOnce /\ OwnApproval
    BY AppliedOnceParts DEF IInv
  <2>2. k \notin Applied(t)
    BY <1>1 DEF Applied
  <2>3. Applied(t)' = Applied(t) \cup {k}
    BY <1>1, <1>3, <1>k DEF Applied
  <2>4. \A q : q # t => Applied(q)' = Applied(q)
    BY <1>1, <1>3, <1>k DEF Applied
  <2>5. Counted'
    <3>1. revision[t] = 1 + Cardinality(Applied(t))
      BY <1>1, <2>1 DEF Counted
    <3>2. Cardinality(Applied(t)') = Cardinality(Applied(t)) + 1
      BY <2>2, <2>3, AppliedFinite, FS_AddElement
    <3>. QED  BY <1>g, <2>1, <2>4, <3>1, <3>2, AppliedFinite DEF Counted
  <2>6. EachOnce'
    <3>1. ASSUME NEW j \in Changes, j # k, change[j].kind = "membership",
                 change[j].state = "applied", change[j].target = t
          PROVE  change[j].targetRevision # revision[t]
      <4>1. change[j].targetRevision < revision[t] /\ change[j].targetRevision \in Nat
        BY <3>1 DEF IInv, ChangesStand, TypeOK, ChangeRow
      <4>. QED  BY <1>g, <4>1
    <3>. QED  BY <1>3, <1>k, <2>1, <3>1 DEF EachOnce
  <2>7. OwnApproval'
    <3>1. ASSUME NEW c \in Credentials, credential[c].kind = "admin"
          PROVE  /\ credential[c].change \in Changes
                 /\ change'[credential[c].change] = change[credential[c].change]
      BY <1>1, <1>k, <2>1, <3>1 DEF OwnApproval, IInv, CredentialsStand
    <3>. QED  BY <1>2, <2>1, <3>1 DEF OwnApproval
  <2>. QED  BY <1>7, <2>5, <2>6, <2>7, AppliedOncePartsNext
<1>. QED  BY <1>7, <1>8, <1>9, <1>10, <1>11, <1>12, <1>13 DEF IInv

-----------------------------------------------------------------------------
(* The theorems                                                            *)

LEMMA Step == IInv /\ [Next]_vars => IInv'
<1>. SUFFICES ASSUME IInv, [Next]_vars PROVE IInv'
  OBVIOUS
<1>1. CASE ConsumeBootstrap
  BY <1>1, ConsumeBootstrapStep
<1>2. ASSUME NEW c \in Credentials,
             \/ Retrieve(c) \/ ExpireCredential(c)
             \/ \E p \in Principals : RevokeCredential(p, c)
      PROVE  IInv'
  BY <1>2, CloseCredentialStep
<1>3. ASSUME NEW c \in Credentials, ConsumeEnrollment(c) \/ ConsumeRecovery(c) PROVE IInv'
  BY <1>3, ConsumeEnrollmentStep, ConsumeRecoveryStep
<1>4. ASSUME NEW c \in Credentials, NEW p \in Principals,
             \/ AuthorizeSecond(p, c) \/ AuthorizeUser(p, c)
             \/ \E t \in Principals : AuthorizeRecovery(p, c, t)
      PROVE  IInv'
  BY <1>4, AuthorizeStep
<1>5. ASSUME NEW c \in Credentials, NEW p \in Principals, NEW k \in Changes,
             AuthorizeAdmin(p, c, k)
      PROVE  IInv'
  BY <1>5, AuthorizeAdminStep
<1>6. ASSUME NEW p \in Principals, NEW k \in Changes,
             \/ ProposeEnrollment(p, k)
             \/ \E t \in Principals, g \in Grants : ProposeMembership(p, k, t, g)
      PROVE  IInv'
  BY <1>6, ProposeStep
<1>7. ASSUME NEW p \in Principals, NEW k \in Changes,
             \E verdict \in {"approved", "rejected"} : Decide(p, k, verdict)
      PROVE  IInv'
  BY <1>7, DecideStep
<1>8. ASSUME NEW p \in Principals, NEW k \in Changes,
             ExpireChange(p, k) \/ MarkStale(p, k) \/ ApplyMembership(p, k)
      PROVE  IInv'
  BY <1>8, CloseChangeStep, ApplyMembershipStep
<1>9. CASE Lapse
  BY <1>9, LapseStep
<1>10. CASE UNCHANGED vars
  <2>1. UNCHANGED <<grant, revision, transition, credential, change, session, late>>
    BY <1>10 DEF vars
  <2>2. TypeOK' /\ CredentialsStand' /\ OwnApproval'
    <3>1. OwnApproval
      BY AppliedOnceParts DEF IInv
    <3>. QED  BY <2>1, <3>1 DEF IInv, TypeOK, CredentialsStand, OwnApproval
  <2>3. /\ \A s \in session' : Active(s.principal) /\ s.revision = revision[s.principal]
        /\ \A s, u \in session' : s.principal = u.principal => s = u
    BY <2>1 DEF IInv, SessionsFollowMemberships
  <2>. QED  BY <2>1, <2>2, <2>3, SessionsMove
<1>. QED  BY <1>1, <1>2, <1>3, <1>4, <1>5, <1>6, <1>7, <1>8, <1>9, <1>10 DEF Next

THEOREM Invariance == Spec => []IInv
BY Initially, Step, PTL DEF Spec

\* TypeOK: memberships, credentials, changes and sessions have the fields and
\* states that the store gives them.
THEOREM TypeCorrect == Spec => []TypeOK
<1>1. IInv => TypeOK
  BY DEF IInv
<1>. QED  BY <1>1, Invariance, PTL

\* TwoAdminsRemain (authorize_enrollment, apply_membership_change): one
\* administrator until the exception is used, at least two from then on.
THEOREM NeverBackToOne == Spec => []TwoAdminsRemain
<1>1. IInv => TwoAdminsRemain
  BY DEF IInv
<1>. QED  BY <1>1, Invariance, PTL

\* SessionsFollowMemberships (apply_membership_change, consume_recovery): no
\* change or recovery leaves the tenant without a session that may govern it.
THEOREM SomebodyGoverns == Spec => []SessionsFollowMemberships
<1>1. IInv => SessionsFollowMemberships
  BY DEF IInv
<1>. QED  BY <1>1, Invariance, PTL

\* AppliedOnce (_consume_change_rows): an approval is used once, at the revision
\* it was given for.
THEOREM ApprovalsAreUsedOnce == Spec => []AppliedOnce
<1>1. IInv => AppliedOnce
  BY DEF IInv
<1>. QED  BY <1>1, Invariance, PTL

-----------------------------------------------------------------------------
(* The two-person rule                                                     *)

\* What TwoPersonRule sees.
Motion == [k \in Changes |-> MotionOf(change[k])]
Invited == {<<c, credential[c].change>> : c \in {d \in Credentials : credential[d].kind = "admin"}}
Opened == CASE transition.state = "absent" -> 0
            [] transition.state = "available" -> 1
            [] transition.state = "consumed" -> 2

\* It calls the same principals administrators, and those of the tenant.
LEMMA SameRoster ==
    /\ Rule!Absent = Absent /\ Rule!FullAdmin = FullAdmin
    /\ \A g : Rule!IsAdmin(g) <=> g.role = "admin" /\ g.status = "active"
    /\ Rule!Admins = Admins /\ Rule!Governors = Governors
    /\ Rule!Cardinality(Rule!Admins) = Cardinality(Admins)
<1>1. /\ Rule!Absent = Absent /\ Rule!FullAdmin = FullAdmin
      /\ \A g : Rule!IsAdmin(g) <=> g.role = "admin" /\ g.status = "active"
  BY Zenon DEF Rule!Absent, Absent, Rule!FullAdmin, FullAdmin, Rule!IsAdmin
<1>2. Rule!Admins = Admins
  BY <1>1 DEF Rule!Admins, Admins, Admin, Active
<1>3. Rule!Governors = Governors
  BY <1>2 DEF Rule!Governors, Governors, Governor, Admins
<1>4. Rule!Cardinality(Rule!Admins) = Cardinality(Admins)
  BY <1>2, Zenon DEF Cardinality, Rule!Cardinality
<1>. QED  BY <1>1, <1>2, <1>3, <1>4

\* The motion that a change is.
MotionRow == [state : {"absent", "moved", "agreed", "carried"},
              kind : {"none", "membership", "enrollment"}, target : Principals,
              to : Grants \cup {FullAdmin, Absent}, by : Principals, with : Principals]

LEMMA MotionFields ==
    ASSUME NEW x \in ChangeRow
    PROVE  /\ x.state \notin {"rejected", "expired", "stale"} =>
                /\ MotionOf(x) \in MotionRow
                /\ MotionOf(x).kind = x.kind /\ MotionOf(x).target = x.target
                /\ MotionOf(x).to = x.to
                /\ MotionOf(x).by = x.proposer /\ MotionOf(x).with = x.approver
           /\ x.state = "absent" => MotionOf(x).state = "absent"
           /\ x.state = "pending" => MotionOf(x).state = "moved"
           /\ x.state = "approved" => MotionOf(x).state = "agreed"
           /\ x.state = "applied" => MotionOf(x).state = "carried"
           /\ x.state \in {"rejected", "expired", "stale"} => MotionOf(x) = DroppedMotion
<1>1. CASE x.state \in {"rejected", "expired", "stale"}
  BY <1>1 DEF MotionOf
<1>2. CASE x.state \notin {"rejected", "expired", "stale"}
  <2>1. PICK st \in {"absent", "moved", "agreed", "carried"} :
          /\ MotionOf(x) = [state |-> st, kind |-> x.kind, target |-> x.target, to |-> x.to,
                            by |-> x.proposer, with |-> x.approver]
          /\ x.state = "absent" => st = "absent"
          /\ x.state = "pending" => st = "moved"
          /\ x.state = "approved" => st = "agreed"
          /\ x.state = "applied" => st = "carried"
    <3>1. x.state \in {"absent", "pending", "approved", "applied"}
      BY <1>2 DEF ChangeRow
    <3>. QED  BY <1>2, <3>1 DEF MotionOf
  <2>2. /\ x.kind \in {"none", "membership", "enrollment"} /\ x.target \in Principals
        /\ x.to \in Grants \cup {FullAdmin, Absent}
        /\ x.proposer \in Principals /\ x.approver \in Principals
    BY DEF ChangeRow
  <2>. QED  BY <1>2, <2>1, <2>2 DEF MotionRow
<1>. QED  BY <1>1, <1>2

LEMMA OneMotion ==
    ASSUME TypeOK, NEW k \in Changes, NEW row, change' = [change EXCEPT ![k] = row]
    PROVE  /\ Motion' = [Motion EXCEPT ![k] = MotionOf(row)]
           /\ Motion'[k] = MotionOf(row) /\ Motion[k] = MotionOf(change[k])
BY DEF TypeOK, Motion

\* What may happen to a motion, in terms of the change.
LEMMA Moves ==
    ASSUME TypeOK, NEW k \in Changes, NEW row \in ChangeRow,
           change' = [change EXCEPT ![k] = row],
           change[k].state = "absent", row.state = "pending", row.proposer \in Governors,
           grant' = grant, Invited' = Invited, Opened' = Opened
    PROVE  Rule!Move(k)
<1>1. change[k] \in ChangeRow
  BY DEF TypeOK
<1>2. /\ Motion[k].state = "absent"
      /\ Motion'[k].state = "moved" /\ Motion'[k].by \in Governors
      /\ Motion' = [Motion EXCEPT ![k] = Motion'[k]]
      /\ UNCHANGED <<grant, Invited, Opened>>
  BY <1>1, OneMotion, MotionFields
<1>. QED  BY <1>2, SameRoster, Zenon DEF Rule!Move, Motion, Invited, Opened

LEMMA Agrees ==
    ASSUME TypeOK, NEW k \in Changes, NEW row \in ChangeRow, NEW p \in Governors,
           change' = [change EXCEPT ![k] = row],
           change[k].state = "pending", row.state = "approved",
           row.approver = p, p # change[k].proposer, row.kind = change[k].kind,
           row.target = change[k].target, row.to = change[k].to,
           row.proposer = change[k].proposer,
           grant' = grant, Invited' = Invited, Opened' = Opened
    PROVE  Rule!Agree(k)
<1>1. change[k] \in ChangeRow /\ p \in Principals
  BY DEF TypeOK, Governors
<1>. DEFINE m == Motion[k]
            n == [m EXCEPT !.state = "agreed", !.with = p]
<1>2. /\ m \in MotionRow /\ m.state = "moved" /\ m.kind = row.kind /\ m.target = row.target
      /\ m.to = row.to /\ m.by = row.proposer
  <2>1. m = MotionOf(change[k])
    BY OneMotion
  <2>2. LET o == MotionOf(change[k]) IN
        /\ o \in MotionRow /\ o.state = "moved" /\ o.kind = change[k].kind
        /\ o.target = change[k].target /\ o.to = change[k].to /\ o.by = change[k].proposer
    BY <1>1, MotionFields
  <2>. QED  BY <2>1, <2>2
<1>. HIDE DEF m
<1>3. n \in MotionRow
  BY <1>1, <1>2 DEF MotionRow
<1>4. /\ n.state = "agreed" /\ n.kind = m.kind /\ n.target = m.target /\ n.to = m.to
      /\ n.by = m.by /\ n.with = p
  BY <1>2 DEF MotionRow
<1>5. /\ MotionOf(row) \in MotionRow /\ MotionOf(row).state = "agreed"
      /\ MotionOf(row).kind = row.kind /\ MotionOf(row).target = row.target
      /\ MotionOf(row).to = row.to /\ MotionOf(row).by = row.proposer /\ MotionOf(row).with = p
  BY MotionFields
<1>. HIDE DEF n
<1>6. n = MotionOf(row)
  BY <1>2, <1>3, <1>4, <1>5 DEF MotionRow
<1>7. Motion' = [Motion EXCEPT ![k].state = "agreed", ![k].with = p]
  <2>1. Motion' = [Motion EXCEPT ![k] = MotionOf(row)]
    BY OneMotion
  <2>2. MotionOf(row) = [Motion[k] EXCEPT !.state = "agreed", !.with = p]
    BY <1>6 DEF n, m
  <2>. QED  BY <2>1, <2>2
<1>8. /\ Motion[k].state = "moved" /\ p \in Governors \ {Motion[k].by}
      /\ UNCHANGED <<grant, Invited, Opened>>
  BY <1>2 DEF m
<1>. QED  BY <1>7, <1>8, SameRoster, Zenon DEF Rule!Agree, Motion, Invited, Opened

LEMMA Drops ==
    ASSUME TypeOK, NEW k \in Changes, NEW row \in ChangeRow,
           change' = [change EXCEPT ![k] = row],
           change[k].state \in {"pending", "approved"},
           row.state \in {"rejected", "expired", "stale"},
           grant' = grant, Invited' = Invited, Opened' = Opened
    PROVE  Rule!Drop(k)
<1>1. change[k] \in ChangeRow
  BY DEF TypeOK
<1>2. Motion[k].state \in {"moved", "agreed"} /\ Motion' = [Motion EXCEPT ![k] = DroppedMotion]
  <2>1. MotionOf(row) = DroppedMotion
    BY MotionFields
  <2>2. MotionOf(change[k]).state \in {"moved", "agreed"}
    BY <1>1, MotionFields
  <2>. QED  BY <2>1, <2>2, OneMotion
<1>3. DroppedMotion = [Rule!NoMotion EXCEPT !.state = "dropped"]
  <2>. DEFINE none == Rule!NoMotion
  <2>1. /\ none \in [state : {"absent", "dropped"}, kind : {"none"}, target : {0}, to : {Absent},
                     by : {0}, with : {0}]
    BY SameRoster DEF Rule!NoMotion
  <2>. HIDE DEF none
  <2>2. [none EXCEPT !.state = "dropped"]
          = [state |-> "dropped", kind |-> none.kind, target |-> none.target, to |-> none.to,
             by |-> none.by, with |-> none.with]
    BY <2>1
  <2>3. /\ none.kind = "none" /\ none.target = 0 /\ none.to = Absent
        /\ none.by = 0 /\ none.with = 0
    BY <2>1
  <2>. QED  BY <2>2, <2>3 DEF DroppedMotion, none
<1>. QED  BY <1>2, <1>3, Zenon DEF Rule!Drop, Motion, Invited, Opened

\* A motion that is carried was agreed by two who still govern.
LEMMA Carries ==
    ASSUME IInv, NEW k \in Changes, NEW row \in ChangeRow,
           change' = [change EXCEPT ![k] = row], Consumable(k), row.state = "applied",
           row.kind = change[k].kind, row.target = change[k].target, row.to = change[k].to,
           row.proposer = change[k].proposer, row.approver = change[k].approver,
           Opened' = Opened
    PROVE  Rule!Carry(k)
<1>1. TypeOK /\ change[k] \in ChangeRow /\ change[k].state = "approved"
  BY DEF IInv, TypeOK, Consumable
<1>. DEFINE m == Motion[k]
            n == [m EXCEPT !.state = "carried"]
<1>2. /\ m \in MotionRow /\ m.state = "agreed" /\ m.kind = row.kind /\ m.target = row.target
      /\ m.to = row.to /\ m.by = row.proposer /\ m.with = row.approver
  <2>1. m = MotionOf(change[k])
    BY <1>1, OneMotion
  <2>2. LET o == MotionOf(change[k]) IN
        /\ o \in MotionRow /\ o.state = "agreed" /\ o.kind = change[k].kind
        /\ o.target = change[k].target /\ o.to = change[k].to /\ o.by = change[k].proposer
        /\ o.with = change[k].approver
    BY <1>1, MotionFields
  <2>. QED  BY <2>1, <2>2
<1>. HIDE DEF m
<1>3. n \in MotionRow
  BY <1>1, <1>2 DEF MotionRow
<1>4. /\ n.state = "carried" /\ n.kind = m.kind /\ n.target = m.target /\ n.to = m.to
      /\ n.by = m.by /\ n.with = m.with
  BY <1>2 DEF MotionRow
<1>5. /\ MotionOf(row) \in MotionRow /\ MotionOf(row).state = "carried"
      /\ MotionOf(row).kind = row.kind /\ MotionOf(row).target = row.target
      /\ MotionOf(row).to = row.to /\ MotionOf(row).by = row.proposer
      /\ MotionOf(row).with = row.approver
  BY MotionFields
<1>. HIDE DEF n
<1>6. n = MotionOf(row)
  BY <1>2, <1>3, <1>4, <1>5 DEF MotionRow
<1>7. Motion' = [Motion EXCEPT ![k].state = "carried"]
  <2>1. Motion' = [Motion EXCEPT ![k] = MotionOf(row)]
    BY <1>1, OneMotion
  <2>2. MotionOf(row) = [Motion[k] EXCEPT !.state = "carried"]
    BY <1>6 DEF n, m
  <2>. QED  BY <2>1, <2>2
<1>8. Motion[k].state = "agreed" /\ {Motion[k].by, Motion[k].with} \subseteq Governors
  BY <1>2, ConsumableIsAgreed DEF m
<1>. QED  BY <1>7, <1>8, SameRoster, Zenon DEF Rule!Carry, Motion, Invited, Opened

\* The steps of governance that are none of the rule's.
LEMMA RuleStutters ==
    ASSUME UNCHANGED <<grant, change>>, transition'.state = transition.state, Invited' = Invited
    PROVE  UNCHANGED <<grant, Motion, Invited, Opened>>
BY DEF Motion, Opened

\* A credential that is no administrator's invites nobody.
LEMMA NobodyInvited ==
    ASSUME TypeOK, NEW c \in Credentials, NEW row, credential' = [credential EXCEPT ![c] = row],
           row.kind = "admin" <=> credential[c].kind = "admin",
           row.kind = "admin" => row.change = credential[c].change
    PROVE  Invited' = Invited
<1>1. /\ credential'[c] = row
      /\ \A d \in Credentials : d # c => credential'[d] = credential[d]
  BY DEF TypeOK
<1>2. \A d \in Credentials :
        /\ credential'[d].kind = "admin" <=> credential[d].kind = "admin"
        /\ credential[d].kind = "admin" => credential'[d].change = credential[d].change
  BY <1>1
<1>. QED  BY <1>2 DEF Invited

\* What the rule makes of each step.
RuleStep == \/ \E p \in Principals : Rule!Open(p) \/ Rule!Enrol(p) \/ Rule!Accept(p)
            \/ \E k \in Changes : \/ Rule!Move(k) \/ Rule!Agree(k) \/ Rule!Drop(k) \/ Rule!Change(k)
                                  \/ \E p \in Principals : Rule!Invite(k, p)
            \/ UNCHANGED <<grant, Motion, Invited, Opened>>

LEMMA BootstrapOpens == ASSUME IInv, ConsumeBootstrap PROVE RuleStep
<1>1. /\ 0 \in Principals /\ grant[0] = Absent /\ transition.state = "absent"
      /\ grant' = [grant EXCEPT ![0] = FullAdmin] /\ transition'.state = "available"
      /\ change' = change /\ credential' = credential
  BY SetsFinite DEF ConsumeBootstrap, IInv, Founded
<1>2. Opened = 0 /\ Opened' = 1
  BY <1>1 DEF Opened
<1>3. Cardinality(Admins) = 0
  <2>1. Admins = {}
    BY DEF Admins, Admin, Active, ConsumeBootstrap, Absent
  <2>. QED  BY <2>1, FS_EmptySet
<1>4. Opened < 2 /\ Cardinality(Admins) = Opened /\ Opened' = Opened + 1
  BY <1>2, <1>3
<1>5. UNCHANGED <<Motion, Invited>>
  BY <1>1 DEF Motion, Invited
<1>6. Rule!Open(0)
  BY <1>1, <1>4, <1>5, SameRoster, Zenon DEF Rule!Open, Motion, Invited, Opened
<1>. QED  BY <1>1, <1>6 DEF RuleStep

LEMMA EnrollmentMaps == ASSUME IInv, NEW c \in Credentials, ConsumeEnrollment(c) PROVE RuleStep
<1>. DEFINE kind == credential[c].kind
<1>1. /\ credential[c] \in CredentialRow /\ credential[c].state = "retrieved"
      /\ kind \in {"second", "admin", "user"} /\ (kind = "second" => StillSecond(c))
      /\ credential' = [credential EXCEPT ![c].state = "consumed"] /\ change' = change
      /\ transition' = IF kind = "second" THEN [transition EXCEPT !.state = "consumed"]
                       ELSE transition
      /\ c \in Principals /\ grant[c] = Absent
  BY SetsFinite DEF IInv, TypeOK, ConsumeEnrollment, Exchangeable, CredentialsStand
<1>2. UNCHANGED <<Motion, Invited>>
  <2>. DEFINE row == [credential[c] EXCEPT !.state = "consumed"]
  <2>1. row.kind = credential[c].kind /\ row.change = credential[c].change
    BY <1>1 DEF CredentialRow
  <2>2. credential' = [credential EXCEPT ![c] = row]
    BY <1>1
  <2>. HIDE DEF row
  <2>3. Invited' = Invited
    BY <2>1, <2>2, NobodyInvited DEF IInv
  <2>. QED  BY <1>1, <2>3 DEF Motion
<1>3. CASE kind = "second"
  <2>1. /\ grant' = [grant EXCEPT ![c] = FullAdmin] /\ transition.state = "available"
        /\ transition'.state = "consumed" /\ Cardinality(Admins) = 1
    BY <1>1, <1>3 DEF ConsumeEnrollment, StillSecond, IInv, TypeOK
  <2>2. Opened = 1 /\ Opened' = 2
    BY <2>1 DEF Opened
  <2>3. Opened < 2 /\ Cardinality(Admins) = Opened /\ Opened' = Opened + 1
    BY <2>1, <2>2
  <2>4. Rule!Open(c)
    BY <1>1, <1>2, <2>1, <2>3, SameRoster, Zenon DEF Rule!Open, Motion, Invited, Opened
  <2>. QED  BY <1>1, <2>4 DEF RuleStep
<1>4. CASE kind = "user"
  <2>1. grant' = [grant EXCEPT ![c] = Member] /\ Opened' = Opened
    BY <1>1, <1>4 DEF ConsumeEnrollment, Opened
  <2>2. Governors # {}
    <3>1. transition.state # "absent"
      BY <1>1 DEF IInv, CredentialsStand
    <3>. QED  BY <3>1 DEF IInv, SessionsFollowMemberships
  <2>3. Member \in Grants \cup {Member} /\ ~(Member.role = "admin" /\ Member.status = "active")
    BY DEF Member
  <2>4. Rule!Enrol(c)
    BY <1>1, <1>2, <2>1, <2>2, <2>3, SameRoster, Zenon DEF Rule!Enrol, Motion, Invited, Opened
  <2>. QED  BY <1>1, <2>4 DEF RuleStep
<1>5. CASE kind = "admin"
  <2>1. grant' = [grant EXCEPT ![c] = FullAdmin] /\ Opened' = Opened
    BY <1>1, <1>5 DEF ConsumeEnrollment, Opened
  <2>2. \E k \in Changes : <<c, k>> \in Invited
    BY <1>5 DEF IInv, CredentialsStand, Invited
  <2>3. Rule!Accept(c)
    BY <1>1, <1>2, <2>1, <2>2, SameRoster, Zenon DEF Rule!Accept, Motion, Invited, Opened
  <2>. QED  BY <1>1, <2>3 DEF RuleStep
<1>. QED  BY <1>1, <1>3, <1>4, <1>5

LEMMA AuthorizeAdminInvites ==
    ASSUME IInv, NEW p \in Principals, NEW c \in Credentials, NEW k \in Changes,
           AuthorizeAdmin(p, c, k)
    PROVE  RuleStep
<1>. DEFINE row == [NoCredential EXCEPT !.kind = "admin", !.state = "authorized", !.change = k]
            new == [change[k] EXCEPT !.state = "applied"]
<1>1. row.kind = "admin" /\ row.change = k
  <2>1. k \in 0..NumChanges
    BY BoundsAssumption DEF Changes
  <2>. QED  BY <2>1, NoCredentialRow DEF CredentialRow
<1>2. change[k] \in ChangeRow /\ change[k].kind = "enrollment" /\ Consumable(k)
  BY DEF IInv, TypeOK, AuthorizeAdmin
<1>3. /\ new \in ChangeRow /\ new.state = "applied" /\ new.kind = change[k].kind
      /\ new.target = change[k].target /\ new.to = change[k].to
      /\ new.proposer = change[k].proposer /\ new.approver = change[k].approver
  BY <1>2 DEF ChangeRow
<1>4. /\ change' = [change EXCEPT ![k] = new] /\ credential' = [credential EXCEPT ![c] = row]
      /\ grant' = grant /\ transition' = transition
      /\ credential[c].kind # "admin" /\ c \in Principals
  BY SetsFinite DEF AuthorizeAdmin, Fresh, IInv, CredentialsStand
<1>c. /\ credential'[c] = row
      /\ \A d \in Credentials : d # c => credential'[d] = credential[d]
  BY <1>4 DEF IInv, TypeOK
<1>. HIDE DEF row, new
<1>5. Opened' = Opened
  BY <1>4 DEF Opened
<1>6. Rule!Carry(k)
  BY <1>2, <1>3, <1>4, <1>5, Carries
<1>7. Invited' = Invited \cup {<<c, k>>}
  BY <1>1, <1>4, <1>c DEF Invited
<1>8. Motion[k].kind = "enrollment"
  BY <1>2, MotionFields DEF Motion, Consumable
<1>9. Rule!Invite(k, c)
  BY <1>4, <1>6, <1>7, <1>8, Zenon DEF Rule!Invite, Motion, Invited, Opened
<1>. QED  BY <1>4, <1>9 DEF RuleStep

LEMMA ApplyChanges ==
    ASSUME IInv, NEW p \in Principals, NEW k \in Changes, ApplyMembership(p, k)
    PROVE  RuleStep
<1>1. PICK t \in Principals, g \in Grants, new \in ChangeRow :
        /\ change[k].kind = "membership" /\ change[k].state = "approved"
        /\ change[k].target = t /\ change[k].to = g
        /\ change[k].targetRevision = revision[t] /\ grant[t] # Absent
        /\ (grant[t].role = "admin" /\ (g.role # "admin" \/ g.status = "revoked"))
              => Cardinality(Admins) > 2
        /\ new.state = "applied" /\ new.kind = "membership"
        /\ new.target = t /\ new.to = g /\ new.targetRevision = revision[t]
        /\ new.proposer = change[k].proposer
        /\ new.proposerRevision = change[k].proposerRevision
        /\ new.approver = change[k].approver
        /\ grant' = [grant EXCEPT ![t] = g]
        /\ revision' = [revision EXCEPT ![t] = revision[t] + 1]
        /\ session' = {s \in session : s.principal # t}
        /\ change' = [change EXCEPT ![k] = new]
        /\ transition' = transition /\ credential' = credential /\ late' = late
  BY ApplyMembershipEffect
<1>2. Opened' = Opened /\ Invited' = Invited
  BY <1>1 DEF Opened, Invited
<1>3. Rule!Carry(k)
  <2>1. Consumable(k)
    BY DEF ApplyMembership
  <2>. QED  BY <1>1, <1>2, <2>1, Carries
<1>4. Motion[k].kind = "membership" /\ Motion[k].target = t /\ Motion[k].to = g
  <2>1. change[k] \in ChangeRow
    BY DEF IInv, TypeOK
  <2>. QED  BY <1>1, <2>1, MotionFields DEF Motion
<1>5. /\ grant[Motion[k].target] # Absent
      /\ grant' = [grant EXCEPT ![Motion[k].target] = Motion[k].to]
  BY <1>1, <1>4
<1>6. /\ grant[Motion[k].target].role = "admin" /\ grant[Motion[k].target].status = "active"
      /\ ~(Motion[k].to.role = "admin" /\ Motion[k].to.status = "active")
      => Cardinality(Admins) > 2
  <2>1. g.status \in {"active", "revoked"}
    BY GrantsAreGrants DEF Statuses
  <2>. QED  BY <1>1, <1>4, <2>1
<1>7. Rule!Change(k)
  BY <1>2, <1>3, <1>4, <1>5, <1>6, SameRoster, Zenon DEF Rule!Change, Motion, Invited, Opened
<1>. QED  BY <1>7 DEF RuleStep

LEMMA ProposalsMove ==
    ASSUME IInv, NEW p \in Principals, NEW k \in Changes,
           \/ ProposeEnrollment(p, k)
           \/ \E t \in Principals, g \in Grants : ProposeMembership(p, k, t, g)
    PROVE  RuleStep
<1>1. /\ change[k].state = "absent" /\ grant' = grant
      /\ Invited' = Invited /\ Opened' = Opened
  <2>1. /\ change[k].state = "absent" /\ grant' = grant
        /\ credential' = credential /\ transition' = transition
    BY DEF ProposeEnrollment, ProposeMembership, FreshChange
  <2>. QED  BY <2>1 DEF Invited, Opened
<1>2. p \in Governors /\ revision \in [Principals -> Nat] /\ TypeOK
  BY DEF ProposeEnrollment, ProposeMembership, MayGovern, Governors, IInv, TypeOK
<1>3. CASE ProposeEnrollment(p, k)
  <2>. DEFINE row == [Proposed(p, "enrollment", 0, FullAdmin) EXCEPT !.targetRevision = 1]
  <2>1. row \in ChangeRow /\ row.state = "pending" /\ row.proposer = p
    BY <1>2, SetsFinite DEF Proposed, NoChange, ChangeRow
  <2>2. change' = [change EXCEPT ![k] = row]
    BY <1>3 DEF ProposeEnrollment
  <2>. HIDE DEF row
  <2>. QED  BY <1>1, <1>2, <2>1, <2>2, Moves DEF RuleStep
<1>4. ASSUME NEW t \in Principals, NEW g \in Grants, ProposeMembership(p, k, t, g) PROVE RuleStep
  <2>. DEFINE row == Proposed(p, "membership", t, g)
  <2>1. row \in ChangeRow /\ row.state = "pending" /\ row.proposer = p
    BY <1>2, SetsFinite DEF Proposed, NoChange, ChangeRow
  <2>2. change' = [change EXCEPT ![k] = row]
    BY <1>4 DEF ProposeMembership
  <2>. HIDE DEF row
  <2>. QED  BY <1>1, <1>2, <2>1, <2>2, Moves DEF RuleStep
<1>. QED  BY <1>3, <1>4

LEMMA DecisionsAgree ==
    ASSUME IInv, NEW p \in Principals, NEW k \in Changes,
           NEW verdict \in {"approved", "rejected"}, Decide(p, k, verdict)
    PROVE  RuleStep
<1>. DEFINE row == [change[k] EXCEPT !.state = verdict, !.approver = p,
                                     !.approverRevision = revision[p]]
<1>1. /\ TypeOK /\ change[k].state = "pending" /\ p # change[k].proposer /\ p \in Governors
      /\ change' = [change EXCEPT ![k] = row]
      /\ grant' = grant /\ Invited' = Invited /\ Opened' = Opened
  <2>1. credential' = credential /\ transition' = transition
    BY DEF Decide
  <2>2. Invited' = Invited /\ Opened' = Opened
    BY <2>1 DEF Invited, Opened
  <2>. QED  BY <2>2 DEF Decide, MayDecide, MayGovern, Governors, IInv
<1>2. change[k] \in ChangeRow /\ revision[p] \in Nat
  BY <1>1 DEF TypeOK
<1>3. /\ row \in ChangeRow /\ row.state = verdict /\ row.approver = p
      /\ row.proposer = change[k].proposer
      /\ row.kind = change[k].kind /\ row.to = change[k].to /\ row.target = change[k].target
  BY <1>2 DEF ChangeRow
<1>. HIDE DEF row
<1>4. CASE verdict = "approved"
  BY <1>1, <1>3, <1>4, Agrees DEF RuleStep
<1>5. CASE verdict = "rejected"
  BY <1>1, <1>3, <1>5, Drops DEF RuleStep
<1>. QED  BY <1>4, <1>5

LEMMA ClosedChangesDrop ==
    ASSUME IInv, NEW p \in Principals, NEW k \in Changes, ExpireChange(p, k) \/ MarkStale(p, k)
    PROVE  RuleStep
<1>1. PICK s \in {"expired", "stale"} :
        /\ change[k].state \in {"pending", "approved"}
        /\ change' = [change EXCEPT ![k].state = s]
        /\ grant' = grant /\ credential' = credential /\ transition' = transition
  BY DEF ExpireChange, MarkStale
<1>u. Invited' = Invited /\ Opened' = Opened
  BY <1>1 DEF Invited, Opened
<1>. DEFINE row == [change[k] EXCEPT !.state = s]
<1>2. TypeOK /\ change[k] \in ChangeRow /\ change' = [change EXCEPT ![k] = row]
  BY <1>1 DEF IInv, TypeOK
<1>3. row \in ChangeRow /\ row.state = s
  BY <1>2 DEF ChangeRow
<1>. HIDE DEF row
<1>. QED  BY <1>1, <1>u, <1>2, <1>3, Drops DEF RuleStep

\* Credentials come and go, sessions and deadlines too: the rule does not see it.
LEMMA QuietCredentials ==
    ASSUME IInv, NEW c \in Credentials,
           \/ Retrieve(c) \/ ExpireCredential(c) \/ ConsumeRecovery(c)
           \/ \E p \in Principals :
                \/ AuthorizeSecond(p, c) \/ AuthorizeUser(p, c) \/ RevokeCredential(p, c)
                \/ \E t \in Principals : AuthorizeRecovery(p, c, t)
    PROVE  RuleStep
<1>1. /\ TypeOK /\ credential[c] \in CredentialRow
      /\ UNCHANGED <<grant, change>> /\ transition'.state = transition.state
  BY DEF IInv, TypeOK, Retrieve, ExpireCredential, ConsumeRecovery, RevokeCredential,
         AuthorizeSecond, AuthorizeUser, AuthorizeRecovery
<1>2. CASE Retrieve(c) \/ ExpireCredential(c) \/ ConsumeRecovery(c)
           \/ \E p \in Principals : RevokeCredential(p, c)
  <2>1. PICK s : credential' = [credential EXCEPT ![c].state = s]
    BY <1>2 DEF Retrieve, ExpireCredential, ConsumeRecovery, RevokeCredential
  <2>. DEFINE row == [credential[c] EXCEPT !.state = s]
  <2>2. row.kind = credential[c].kind /\ row.change = credential[c].change
    BY <1>1 DEF CredentialRow
  <2>3. credential' = [credential EXCEPT ![c] = row]
    BY <2>1
  <2>. HIDE DEF row
  <2>4. Invited' = Invited
    BY <1>1, <2>2, <2>3, NobodyInvited
  <2>. QED  BY <1>1, <2>4, RuleStutters DEF RuleStep
<1>3. ASSUME NEW p \in Principals,
             \/ AuthorizeSecond(p, c) \/ AuthorizeUser(p, c)
             \/ \E t \in Principals : AuthorizeRecovery(p, c, t)
      PROVE  RuleStep
  <2>1. credential[c].kind = "none"
    BY <1>3 DEF AuthorizeSecond, AuthorizeUser, AuthorizeRecovery, Fresh, IInv, CredentialsStand
  <2>2. PICK row \in CredentialRow :
          credential' = [credential EXCEPT ![c] = row] /\ row.kind # "admin"
    BY <1>3, AuthorizedRow
  <2>3. Invited' = Invited
    BY <1>1, <2>1, <2>2, NobodyInvited
  <2>. QED  BY <1>1, <2>3, RuleStutters DEF RuleStep
<1>. QED  BY <1>2, <1>3

LEMMA QuietTime == ASSUME IInv, Lapse \/ UNCHANGED vars PROVE RuleStep
<1>1. /\ TypeOK /\ grant' = grant /\ transition' = transition
  BY DEF IInv, Lapse, vars
<1>2. UNCHANGED <<Motion, Invited>>
  <2>1. ASSUME NEW k \in Changes,
               \/ change' = [change EXCEPT ![k].late = TRUE, ![k].lapsed = TRUE]
               \/ change' = [change EXCEPT ![k].lapsed = TRUE],
               credential' = credential
        PROVE  UNCHANGED <<Motion, Invited>>
    <3>1. \A j \in Changes : /\ change'[j].state = change[j].state
                             /\ change'[j].kind = change[j].kind
                             /\ change'[j].target = change[j].target
                             /\ change'[j].to = change[j].to
                             /\ change'[j].proposer = change[j].proposer
                             /\ change'[j].approver = change[j].approver
      BY <1>1, <2>1 DEF TypeOK, ChangeRow
    <3>2. \A j \in Changes : MotionOf(change'[j]) = MotionOf(change[j])
      BY <3>1 DEF MotionOf
    <3>. QED  BY <2>1, <3>2 DEF Motion, Invited
  <2>2. ASSUME NEW c \in Credentials, credential' = [credential EXCEPT ![c].late = TRUE],
               change' = change
        PROVE  UNCHANGED <<Motion, Invited>>
    <3>1. \A d \in Credentials : /\ credential'[d].kind = credential[d].kind
                                 /\ credential'[d].change = credential[d].change
      BY <1>1, <2>2 DEF TypeOK, CredentialRow
    <3>. QED  BY <2>2, <3>1 DEF Motion, Invited
  <2>3. ASSUME UNCHANGED <<change, credential>> PROVE UNCHANGED <<Motion, Invited>>
    BY <2>3 DEF Motion, Invited
  <2>. QED  BY <2>1, <2>2, <2>3 DEF Lapse, vars
<1>. QED  BY <1>1, <1>2 DEF RuleStep, Opened

LEMMA RuleHolds == IInv /\ [Next]_vars => [Rule!Next]_(Rule!rule)
<1>. SUFFICES ASSUME IInv, [Next]_vars PROVE RuleStep
  BY Zenon DEF RuleStep, Rule!Next, Rule!rule, Motion, Invited, Opened
<1>1. CASE ConsumeBootstrap
  BY <1>1, BootstrapOpens
<1>2. ASSUME NEW c \in Credentials, ConsumeEnrollment(c) PROVE RuleStep
  BY <1>2, EnrollmentMaps
<1>3. ASSUME NEW c \in Credentials,
             \/ Retrieve(c) \/ ExpireCredential(c) \/ ConsumeRecovery(c)
             \/ \E p \in Principals :
                  \/ AuthorizeSecond(p, c) \/ AuthorizeUser(p, c) \/ RevokeCredential(p, c)
                  \/ \E t \in Principals : AuthorizeRecovery(p, c, t)
      PROVE  RuleStep
  BY <1>3, QuietCredentials
<1>4. ASSUME NEW c \in Credentials, NEW p \in Principals, NEW k \in Changes,
             AuthorizeAdmin(p, c, k)
      PROVE  RuleStep
  BY <1>4, AuthorizeAdminInvites
<1>5. ASSUME NEW p \in Principals, NEW k \in Changes,
             \/ ProposeEnrollment(p, k)
             \/ \E t \in Principals, g \in Grants : ProposeMembership(p, k, t, g)
      PROVE  RuleStep
  BY <1>5, ProposalsMove
<1>6. ASSUME NEW p \in Principals, NEW k \in Changes,
             \E verdict \in {"approved", "rejected"} : Decide(p, k, verdict)
      PROVE  RuleStep
  BY <1>6, DecisionsAgree
<1>7. ASSUME NEW p \in Principals, NEW k \in Changes, ApplyMembership(p, k) PROVE RuleStep
  BY <1>7, ApplyChanges
<1>8. ASSUME NEW p \in Principals, NEW k \in Changes, ExpireChange(p, k) \/ MarkStale(p, k)
      PROVE  RuleStep
  BY <1>8, ClosedChangesDrop
<1>9. CASE Lapse \/ UNCHANGED vars
  BY <1>9, QuietTime
<1>. QED  BY <1>1, <1>2, <1>3, <1>4, <1>5, <1>6, <1>7, <1>8, <1>9 DEF Next

\* FollowsTheRule: whatever happens to memberships is what the two-person rule
\* allows.
THEOREM ImplementsTwoPersonRule == Spec => FollowsTheRule
<1>1. Init => Rule!Init
  <2>. SUFFICES ASSUME Init PROVE Rule!Init
    OBVIOUS
  <2>1. grant = [p \in Principals |-> Absent] /\ Opened = 0
    BY DEF Init, Opened
  <2>2. Motion = [k \in Changes |-> Rule!NoMotion]
    <3>1. MotionOf(NoChange) = Rule!NoMotion
      BY SameRoster DEF MotionOf, NoChange, Rule!NoMotion
    <3>. QED  BY <3>1 DEF Init, Motion
  <2>3. Invited = {}
    BY DEF Init, Invited, NoCredential
  <2>. QED  BY <2>1, <2>2, <2>3, SameRoster, Zenon DEF Rule!Init, Motion, Invited, Opened
<1>. QED  BY <1>1, Invariance, RuleHolds, PTL DEF Spec, FollowsTheRule, Rule!Spec
=============================================================================
