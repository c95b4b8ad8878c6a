-------------------------- MODULE Deployment_proofs --------------------------
(***************************************************************************)
(* Proofs about Deployment for any number of packages, deployments, drafts *)
(* and requests, and any limit of active deployments.                      *)
(***************************************************************************)
EXTENDS Deployment, WellFoundedInduction, FiniteSetTheorems, TLAPS

USE ParametersAssumption

\* A set of natural numbers that is not empty has a least element.
LEMMA LeastOf ==
    ASSUME NEW T, T \subseteq Nat, T # {}
    PROVE  \E x \in T : \A y \in T : x <= y
<1> DEFINE R == OpToRel(<, Nat)
<1>1. \E x \in T : \A y \in T : ~(<<y, x>> \in R)
  <2>. HIDE DEF R
  <2>1. IsWellFoundedOn(R, Nat)
    BY NatLessThanWellFounded DEF R
  <2>. QED  BY <2>1, WFMin
<1>2. \A x, y \in T : ~(<<y, x>> \in R) => x <= y
  BY DEF OpToRel
<1>. QED  BY <1>1, <1>2

\* The slot that is handed out is one nobody holds.
LEMMA FreeSlotIsFree ==
    ASSUME FreeSlot # 0 PROVE FreeSlot \in Slots \ Occupied
<1>1. Slots \ Occupied # {}
  BY DEF FreeSlot
<1>2. Slots \ Occupied \subseteq Nat
  BY DEF Slots
<1>3. \E s \in Slots \ Occupied : \A t \in Slots \ Occupied : s <= t
  <2>. HIDE DEF Slots, Occupied
  <2>. QED  BY <1>1, <1>2, LeastOf
<1>. QED  BY <1>1, <1>3 DEF FreeSlot

-----------------------------------------------------------------------------
(* The parts of the invariant, per deployment, request and draft           *)

Package == [trust : {"unregistered", "untrusted", "trusted", "legacy_preserved", "revoked"},
            installed : BOOLEAN]
Bound == [lifecycle : Lifecycles, package : AllPackages,
          revision : 1..MaxRevision, slot : {0} \cup Slots]
Written == [state : {"draft", "reviewed", "confirmed"}, kind : {"create", "upgrade", "rollback"},
            deployment : Deployments, package : AllPackages, base : 0..MaxRevision]
Asked == [state : {"sent", "applied", "limit"}, deployment : Deployments, target : Lifecycles,
          package : AllPackages, revision : 1..MaxRevision]

IInv == TypeOK /\ SlotsHold /\ EachChangeSawTheLast /\ ActivatedAsSeen

LEMMA Initially == Init => IInv
<1>. SUFFICES ASSUME Init PROVE IInv
  OBVIOUS
<1>1. TypeOK
  BY DEF Init, TypeOK, NoDeployment, NoDraft, NoRequest
<1>2. Active = {}
  BY DEF Init, Active, NoDeployment
<1>3. SlotsHold
  BY <1>2 DEF Init, SlotsHold, NoDeployment
<1>4. EachChangeSawTheLast
  BY DEF Init, EachChangeSawTheLast, AppliedTo, ConfirmedFor, NoRequest, NoDraft
<1>. QED  BY <1>1, <1>2, <1>3, <1>4 DEF IInv, ActivatedAsSeen

\* What TypeOK says of one row of each table.
LEMMA Rows ==
    ASSUME TypeOK
    PROVE  /\ \A p \in AllPackages : package[p] \in Package
           /\ \A d \in Deployments :
                /\ deployment[d] \in {NoDeployment} \cup Bound
                /\ deployment[d].revision \in 0..MaxRevision
                /\ deployment[d].slot \in Nat
                /\ Exists(d) => deployment[d] \in Bound
                /\ deployment[d].lifecycle # "absent" => Exists(d)
           /\ \A n \in Drafts : draft[n].state # "absent" => draft[n] \in Written
           /\ \A r \in Requests : request[r].state # "absent" => request[r] \in Asked
<1>1. \A d \in Deployments : deployment[d] \in {NoDeployment} \cup Bound
  BY DEF TypeOK, Bound
<1>2. \A d \in Deployments : /\ deployment[d].revision \in 0..MaxRevision
                             /\ deployment[d].slot \in Nat
                             /\ Exists(d) => deployment[d] \in Bound
                             /\ deployment[d].lifecycle # "absent" => Exists(d)
  BY <1>1 DEF NoDeployment, Bound, Exists, Slots
<1>3. \A n \in Drafts : draft[n].state # "absent" => draft[n] \in Written
  BY DEF TypeOK, NoDraft, Written
<1>4. \A r \in Requests : request[r].state # "absent" => request[r] \in Asked
  BY DEF TypeOK, NoRequest, Asked
<1>. QED  BY <1>1, <1>2, <1>3, <1>4 DEF TypeOK, Package

-----------------------------------------------------------------------------
(* Types                                                                   *)

PackageStep == \E p \in AllPackages : Register(p) \/ Trust(p) \/ Install(p)
DraftStep == \/ \E d \in Deployments, n \in Drafts, p \in Packages :
                  \/ CreateDraft(n, d, p)
                  \/ \E kind \in {"upgrade", "rollback"} : RebindingDraft(n, d, p, kind)
             \/ \E n \in Drafts : ReviewDraft(n)
RequestStep == \/ \E d \in Deployments, r \in Requests, target \in Lifecycles :
                    AskTransition(r, d, target)
               \/ \E r \in Requests : RefuseAtLimit(r)

LEMMA TypesOfQuietSteps ==
    ASSUME TypeOK, PackageStep \/ DraftStep \/ RequestStep PROVE TypeOK'
<1>1. CASE PackageStep
  <2>. PICK p \in AllPackages : Register(p) \/ Trust(p) \/ Install(p)
    BY <1>1 DEF PackageStep
  <2>1. package[p] \in Package
    BY Rows
  <2>2. /\ [package[p] EXCEPT !.trust = "untrusted"] \in Package
        /\ [package[p] EXCEPT !.trust = "trusted"] \in Package
        /\ [package[p] EXCEPT !.installed = TRUE] \in Package
    BY <2>1 DEF Package
  <2>3. package' \in [AllPackages -> Package]
    BY <2>2 DEF TypeOK, Package, Register, Trust, Install
  <2>4. UNCHANGED <<deployment, history, draft, request>>
    BY DEF Register, Trust, Install
  <2>. QED  BY <2>3, <2>4 DEF TypeOK, Package
<1>2. ASSUME NEW n \in Drafts, NEW d \in Deployments, NEW p \in Packages,
             NEW kind \in {"create", "upgrade", "rollback"},
             NEW base \in 0..MaxRevision, Drafted(n, kind, d, p, base)
      PROVE  TypeOK'
  BY <1>2 DEF TypeOK, Drafted, AllPackages
<1>3. CASE DraftStep
  <2>1. CASE \E n \in Drafts : ReviewDraft(n)
    <3>. PICK n \in Drafts : ReviewDraft(n)
      BY <2>1
    <3>1. draft[n] \in Written
      BY Rows DEF ReviewDraft
    <3>2. [draft[n] EXCEPT !.state = "reviewed"] \in Written
      BY <3>1 DEF Written
    <3>3. draft' \in [Drafts -> {NoDraft} \cup Written]
      BY <3>2 DEF ReviewDraft, TypeOK, Written
    <3>. QED  BY <3>3 DEF ReviewDraft, TypeOK, Written
  <2>2. CASE \E d \in Deployments, n \in Drafts, p \in Packages : CreateDraft(n, d, p)
    BY <2>2, <1>2 DEF CreateDraft
  <2>3. CASE \E d \in Deployments, n \in Drafts, p \in Packages, kind \in {"upgrade", "rollback"} :
               RebindingDraft(n, d, p, kind)
    BY <2>3, <1>2, Rows DEF RebindingDraft
  <2>. QED  BY <1>3, <2>1, <2>2, <2>3 DEF DraftStep
<1>4. CASE RequestStep
  <2>1. ASSUME NEW d \in Deployments, NEW r \in Requests, NEW target \in Lifecycles,
               AskTransition(r, d, target)
        PROVE  TypeOK'
    <3>1. deployment[d] \in Bound
      BY <2>1, Rows DEF AskTransition
    <3>2. [state |-> "sent", deployment |-> d, target |-> target,
           package |-> deployment[d].package, revision |-> deployment[d].revision] \in Asked
      BY <3>1 DEF Bound, Asked
    <3>3. request' \in [Requests -> {NoRequest} \cup Asked]
      BY <2>1, <3>2 DEF AskTransition, TypeOK, Asked
    <3>. QED  BY <2>1, <3>3 DEF AskTransition, TypeOK, Asked
  <2>2. ASSUME NEW r \in Requests, RefuseAtLimit(r)
        PROVE  TypeOK'
    <3>1. request[r] \in Asked
      BY <2>2, Rows DEF RefuseAtLimit
    <3>2. [request[r] EXCEPT !.state = "limit"] \in Asked
      BY <3>1 DEF Asked
    <3>3. request' \in [Requests -> {NoRequest} \cup Asked]
      BY <2>2, <3>2 DEF RefuseAtLimit, TypeOK, Asked
    <3>. QED  BY <2>2, <3>3 DEF RefuseAtLimit, TypeOK, Asked
  <2>. QED  BY <1>4, <2>1, <2>2 DEF RequestStep
<1>. QED  BY <1>1, <1>3, <1>4

LEMMA TypesOfRevoke ==
    ASSUME TypeOK, NEW p \in AllPackages, Revoke(p) PROVE TypeOK'
<1>1. \A d \in BlockedBy(p) : d \in Deployments /\ Block(d) \in Bound
  <2>. TAKE d \in BlockedBy(p)
  <2>1. d \in Deployments /\ deployment[d].lifecycle = "active"
    BY DEF BlockedBy, Active
  <2>2. deployment[d] \in Bound /\ deployment[d].revision < MaxRevision
    BY <2>1, Rows DEF Revoke
  <2>3. deployment[d].revision + 1 \in 1..MaxRevision
    BY <2>2 DEF Bound
  <2>. QED  BY <2>1, <2>2, <2>3 DEF Block, Bound, Lifecycles
<1>2. deployment' \in [Deployments -> {NoDeployment} \cup Bound]
  BY <1>1 DEF Revoke, TypeOK, Bound
<1>3. package' \in [AllPackages -> Package]
  BY DEF Revoke, TypeOK, Package
<1>. QED  BY <1>2, <1>3 DEF Revoke, TypeOK, Bound, Package

LEMMA TypesOfCreateInitialColleague ==
    ASSUME TypeOK, NEW d \in Deployments, CreateInitialColleague(d) PROVE TypeOK'
<1>1. FreeSlot \in Slots
  BY FreeSlotIsFree DEF CreateInitialColleague
<1>2. [lifecycle |-> "active", package |-> Legacy, revision |-> 1, slot |-> FreeSlot] \in Bound
  BY <1>1 DEF Bound, Lifecycles, AllPackages
<1>3. deployment' \in [Deployments -> {NoDeployment} \cup Bound]
  BY <1>2 DEF CreateInitialColleague, TypeOK, Bound
<1>. QED  BY <1>3 DEF CreateInitialColleague, TypeOK, Bound, AllPackages

LEMMA TypesOfConfirmDraft ==
    ASSUME TypeOK, NEW n \in Drafts, ConfirmDraft(n) PROVE TypeOK'
<1> DEFINE d == draft[n].deployment
<1>1. draft[n] \in Written
  BY Rows DEF ConfirmDraft
<1>2. d \in Deployments /\ draft[n].package \in AllPackages
  BY <1>1 DEF Written
<1>3. deployment[d].revision \in 0..MaxRevision /\ deployment[d].revision < MaxRevision
  BY <1>2, Rows DEF ConfirmDraft
<1>4. [lifecycle |-> "draft", package |-> draft[n].package,
       revision |-> deployment[d].revision + 1, slot |-> 0] \in Bound
  BY <1>2, <1>3 DEF Bound, Lifecycles
<1>5. deployment' \in [Deployments -> {NoDeployment} \cup Bound]
  BY <1>2, <1>4 DEF ConfirmDraft, TypeOK, Bound
<1>6. [draft[n] EXCEPT !.state = "confirmed"] \in Written
  BY <1>1 DEF Written
<1>7. draft' \in [Drafts -> {NoDraft} \cup Written]
  BY <1>6 DEF ConfirmDraft, TypeOK, Written
<1>8. history' \in [Deployments -> SUBSET AllPackages]
  BY <1>2 DEF ConfirmDraft, TypeOK
<1>. QED  BY <1>5, <1>7, <1>8 DEF ConfirmDraft, TypeOK, Bound, Written

LEMMA TypesOfTransition ==
    ASSUME TypeOK, NEW r \in Requests, Transition(r) PROVE TypeOK'
<1> DEFINE d == request[r].deployment
           slot == IF request[r].target = "active" THEN FreeSlot ELSE 0
<1>1. request[r] \in Asked
  BY Rows DEF Transition
<1>2. d \in Deployments /\ request[r].target \in Lifecycles
  BY <1>1 DEF Asked
<1>3. Exists(d)
  BY <1>1, <1>2, Rows DEF Transition, AsSeen, Asked, Exists, NoDeployment
<1>4. deployment[d] \in Bound
  BY <1>2, <1>3, Rows
<1>5. slot \in {0} \cup Slots
  BY FreeSlotIsFree DEF Transition
<1>6. deployment[d].revision + 1 \in 1..MaxRevision
  BY <1>4 DEF Transition, Bound
<1>7. deployment' \in [Deployments -> {NoDeployment} \cup Bound]
  BY <1>2, <1>4, <1>5, <1>6 DEF Transition, TypeOK, Bound
<1>8. [request[r] EXCEPT !.state = "applied"] \in Asked
  BY <1>1 DEF Asked
<1>9. request' \in [Requests -> {NoRequest} \cup Asked]
  BY <1>8 DEF Transition, TypeOK, Asked
<1>. QED  BY <1>7, <1>9 DEF Transition, TypeOK, Bound, Asked

-----------------------------------------------------------------------------
(* Slots                                                                   *)

\* A step that leaves the other deployments alone, and gives d a free slot if it
\* activates it and none otherwise.
LEMMA SlotsOfOne ==
    ASSUME SlotsHold, NEW d \in Deployments,
           \A e \in Deployments \ {d} : deployment'[e] = deployment[e],
           \/ deployment'[d].lifecycle # "active" /\ deployment'[d].slot = 0
           \/ /\ deployment'[d].lifecycle = "active"
              /\ deployment'[d].slot \in Slots \ Occupied
    PROVE  SlotsHold'
<1>1. Active' \ {d} = Active \ {d}
  BY DEF Active
<1>2. d \in Active' <=> deployment'[d].lifecycle = "active"
  BY DEF Active
<1>3. \A e \in Deployments : deployment'[e].slot # 0 <=> e \in Active'
  BY <1>1, <1>2 DEF SlotsHold, Slots
<1>4. \A e \in Active \ {d} : d \in Active' => deployment'[e].slot # deployment'[d].slot
  BY <1>2 DEF Occupied, Active
<1>5. \A e, f \in Active' : deployment'[e].slot = deployment'[f].slot => e = f
  BY <1>1, <1>4 DEF SlotsHold, Active
<1>. QED  BY <1>3, <1>5 DEF SlotsHold

\* A revocation frees the slots of the deployments it blocks, and no other.
LEMMA SlotsOfRevoke ==
    ASSUME SlotsHold, TypeOK, NEW p \in AllPackages, Revoke(p) PROVE SlotsHold'
<1>1. \A d \in Deployments : deployment'[d] = IF d \in BlockedBy(p) THEN Block(d) ELSE deployment[d]
  BY DEF Revoke
<1>2. \A d \in BlockedBy(p) : /\ deployment'[d].lifecycle = "blocked"
                              /\ deployment'[d].slot = 0
  <2>. TAKE d \in BlockedBy(p)
  <2>1. d \in Deployments /\ deployment[d].lifecycle = "active"
    BY DEF BlockedBy, Active
  <2>2. deployment[d] \in Bound
    BY <2>1, Rows
  <2>. QED  BY <1>1, <2>1, <2>2 DEF Block, Bound
<1>3. \A d \in Deployments : d \in Active' <=> d \in Active \ BlockedBy(p)
  BY <1>1, <1>2 DEF Active
<1>. QED  BY <1>1, <1>2, <1>3 DEF SlotsHold, BlockedBy, Active

-----------------------------------------------------------------------------
(* Who changed a deployment, and what runs                                 *)

\* Nothing is applied or confirmed, and no deployment goes back.
LEMMA NoNewChange ==
    ASSUME EachChangeSawTheLast, TypeOK,
           \A d \in Deployments : /\ deployment'[d].revision \in Nat
                                  /\ deployment[d].revision <= deployment'[d].revision,
           \A r \in Requests : request'[r].state = "applied" => request'[r] = request[r],
           \A n \in Drafts : draft'[n].state = "confirmed" => draft'[n] = draft[n]
    PROVE  EachChangeSawTheLast'
<1>. SUFFICES ASSUME NEW d \in Deployments
     PROVE /\ \A r \in AppliedTo(d)' :
                /\ request'[r].revision < deployment'[d].revision
                /\ \A s \in AppliedTo(d)' : request'[r].revision = request'[s].revision => r = s
                /\ \A n \in ConfirmedFor(d)' : request'[r].revision # draft'[n].base
           /\ \A n \in ConfirmedFor(d)' :
                /\ draft'[n].base < deployment'[d].revision
                /\ \A m \in ConfirmedFor(d)' : draft'[n].base = draft'[m].base => n = m
  BY Zenon DEF EachChangeSawTheLast
<1>1. \A r \in AppliedTo(d)' : r \in AppliedTo(d) /\ request'[r] = request[r]
  BY DEF AppliedTo
<1>2. \A n \in ConfirmedFor(d)' : n \in ConfirmedFor(d) /\ draft'[n] = draft[n]
  BY DEF ConfirmedFor
<1>3. \A r \in AppliedTo(d) : request[r].revision \in Nat
  BY Rows DEF AppliedTo, Asked
<1>4. \A n \in ConfirmedFor(d) : draft[n].base \in Nat
  BY Rows DEF ConfirmedFor, Written
<1>5. deployment[d].revision \in Nat
  BY Rows
<1>. QED  BY <1>1, <1>2, <1>3, <1>4, <1>5 DEF EachChangeSawTheLast

\* What runs was running, and the requests that started it are still on record.
LEMMA NothingActivated ==
    ASSUME ActivatedAsSeen,
           \A d \in Deployments : deployment'[d].lifecycle = "active" =>
                                    deployment'[d] = deployment[d],
           \A r \in Requests : request[r].state = "applied" => request'[r] = request[r]
    PROVE  ActivatedAsSeen'
<1>. SUFFICES ASSUME NEW d \in Active'
     PROVE \/ deployment'[d].package = Legacy /\ deployment'[d].revision = 1
           \/ \E r \in Requests : /\ request'[r].state = "applied" /\ request'[r].target = "active"
                                  /\ request'[r].deployment = d
                                  /\ request'[r].package = deployment'[d].package
                                  /\ request'[r].revision + 1 = deployment'[d].revision
  BY Zenon DEF ActivatedAsSeen
<1>1. d \in Active /\ deployment'[d] = deployment[d]
  BY DEF Active
<1>. QED  BY <1>1 DEF ActivatedAsSeen

-----------------------------------------------------------------------------
(* Each step keeps the invariant                                           *)

LEMMA KeptByQuietSteps ==
    ASSUME IInv, PackageStep \/ DraftStep \/ RequestStep PROVE IInv'
<1>1. deployment' = deployment
  BY DEF PackageStep, DraftStep, RequestStep, Register, Trust, Install, CreateDraft,
         RebindingDraft, Drafted, ReviewDraft, AskTransition, RefuseAtLimit
<1>2. \A r \in Requests : (request[r].state = "applied" \/ request'[r].state = "applied")
                            => request'[r] = request[r]
  <2>1. CASE RequestStep
    BY <2>1 DEF RequestStep, AskTransition, RefuseAtLimit, NoRequest, IInv, TypeOK
  <2>2. CASE PackageStep \/ DraftStep
    BY <2>2 DEF PackageStep, DraftStep, Register, Trust, Install, CreateDraft,
                RebindingDraft, Drafted, ReviewDraft
  <2>. QED  BY <2>1, <2>2
<1>3. \A n \in Drafts : draft'[n].state = "confirmed" => draft'[n] = draft[n]
  <2>1. CASE DraftStep
    <3>. draft \in [Drafts -> {NoDraft} \cup Written]
      BY DEF IInv, TypeOK, Written
    <3>1. CASE \E m \in Drafts : ReviewDraft(m)
      <4>. PICK m \in Drafts : ReviewDraft(m)
        BY <3>1
      <4>1. draft'[m].state = "reviewed"
        BY Rows DEF IInv, ReviewDraft, Written
      <4>. QED  BY <4>1 DEF ReviewDraft
    <3>2. CASE ~\E m \in Drafts : ReviewDraft(m)
      <4>. PICK m \in Drafts : draft'[m].state = "draft" /\ draft' = [draft EXCEPT ![m] = draft'[m]]
        BY <2>1, <3>2 DEF DraftStep, CreateDraft, RebindingDraft, Drafted
      <4>. QED  OBVIOUS
    <3>. QED  BY <3>1, <3>2
  <2>2. CASE PackageStep \/ RequestStep
    BY <2>2 DEF PackageStep, RequestStep, Register, Trust, Install, AskTransition, RefuseAtLimit
  <2>. QED  BY <2>1, <2>2
<1>4. TypeOK'
  BY TypesOfQuietSteps DEF IInv
<1>5. SlotsHold'
  BY <1>1 DEF IInv, SlotsHold, Active
<1>6. EachChangeSawTheLast'
  <2>. \A d \in Deployments : deployment[d].revision \in Nat
    BY Rows DEF IInv
  <2>. QED  BY <1>1, <1>2, <1>3, NoNewChange DEF IInv
<1>7. ActivatedAsSeen'
  BY <1>1, <1>2, NothingActivated DEF IInv
<1>. QED  BY <1>4, <1>5, <1>6, <1>7 DEF IInv

LEMMA KeptByRevoke ==
    ASSUME IInv, NEW p \in AllPackages, Revoke(p) PROVE IInv'
<1>. TypeOK /\ SlotsHold /\ EachChangeSawTheLast /\ ActivatedAsSeen
  BY DEF IInv
<1>1. \A d \in Deployments :
        \/ deployment'[d] = deployment[d]
        \/ /\ deployment'[d].lifecycle = "blocked"
           /\ deployment'[d].revision = deployment[d].revision + 1
  <2>. TAKE d \in Deployments
  <2>1. CASE d \in BlockedBy(p)
    <3>1. deployment[d] \in Bound
      BY <2>1, Rows DEF BlockedBy, Active
    <3>. QED  BY <2>1, <3>1 DEF Revoke, Block, Bound
  <2>. QED  BY <2>1 DEF Revoke
<1>2. UNCHANGED <<draft, request>>
  BY DEF Revoke
<1>3. TypeOK' /\ SlotsHold'
  BY TypesOfRevoke, SlotsOfRevoke
<1>4. EachChangeSawTheLast'
  <2>. \A d \in Deployments : deployment[d].revision \in Nat
    BY Rows
  <2>. QED  BY <1>1, <1>2, NoNewChange
<1>5. ActivatedAsSeen'
  BY <1>1, <1>2, NothingActivated
<1>. QED  BY <1>3, <1>4, <1>5 DEF IInv

LEMMA KeptByCreateInitialColleague ==
    ASSUME IInv, NEW d \in Deployments, CreateInitialColleague(d) PROVE IInv'
<1>. TypeOK /\ SlotsHold /\ EachChangeSawTheLast /\ ActivatedAsSeen
  BY DEF IInv
<1>1. /\ deployment'[d] = [lifecycle |-> "active", package |-> Legacy, revision |-> 1,
                           slot |-> FreeSlot]
      /\ \A e \in Deployments \ {d} : deployment'[e] = deployment[e]
      /\ UNCHANGED <<draft, request>>
  BY DEF CreateInitialColleague, TypeOK
<1>2. \A e \in Deployments : deployment[e] = NoDeployment
  BY DEF CreateInitialColleague, Exists
<1>3. TypeOK'
  BY TypesOfCreateInitialColleague
<1>4. SlotsHold'
  <2>1. FreeSlot \in Slots \ Occupied
    BY FreeSlotIsFree DEF CreateInitialColleague
  <2>. QED  BY <1>1, <2>1, SlotsOfOne
<1>5. EachChangeSawTheLast'
  BY <1>1, <1>2, NoNewChange DEF NoDeployment
<1>6. ActivatedAsSeen'
  <2>1. Active' = {d}
    BY <1>1, <1>2 DEF Active, NoDeployment
  <2>. QED  BY <1>1, <2>1 DEF ActivatedAsSeen
<1>. QED  BY <1>3, <1>4, <1>5, <1>6 DEF IInv

LEMMA KeptByConfirmDraft ==
    ASSUME IInv, NEW n \in Drafts, ConfirmDraft(n) PROVE IInv'
<1>. TypeOK /\ SlotsHold /\ EachChangeSawTheLast /\ ActivatedAsSeen
  BY DEF IInv
<1> DEFINE d == draft[n].deployment
<1>1. draft[n] \in Written
  BY Rows DEF ConfirmDraft
<1>2. d \in Deployments
  BY <1>1 DEF Written
<1>3. deployment[d].revision \in Nat /\ draft[n].base = deployment[d].revision
  BY <1>2, Rows DEF ConfirmDraft, BaseCurrent
<1>4. /\ deployment'[d] = [lifecycle |-> "draft", package |-> draft[n].package,
                           revision |-> deployment[d].revision + 1, slot |-> 0]
      /\ \A e \in Deployments \ {d} : deployment'[e] = deployment[e]
  BY <1>2 DEF ConfirmDraft, TypeOK
<1>5. /\ draft'[n].state = "confirmed" /\ draft'[n].deployment = d
      /\ draft'[n].base = draft[n].base
      /\ \A m \in Drafts \ {n} : draft'[m] = draft[m]
      /\ UNCHANGED request
  BY <1>1 DEF ConfirmDraft, TypeOK, Written
<1>6. TypeOK'
  BY TypesOfConfirmDraft
<1>7. SlotsHold'
  BY <1>2, <1>4, SlotsOfOne
<1>8. EachChangeSawTheLast'
  <2>. SUFFICES ASSUME NEW e \in Deployments
       PROVE /\ \A r \in AppliedTo(e)' :
                  /\ request'[r].revision < deployment'[e].revision
                  /\ \A s \in AppliedTo(e)' : request'[r].revision = request'[s].revision => r = s
                  /\ \A m \in ConfirmedFor(e)' : request'[r].revision # draft'[m].base
             /\ \A m \in ConfirmedFor(e)' :
                  /\ draft'[m].base < deployment'[e].revision
                  /\ \A k \in ConfirmedFor(e)' : draft'[m].base = draft'[k].base => m = k
    BY Zenon DEF EachChangeSawTheLast
  <2>1. AppliedTo(e)' = AppliedTo(e)
    BY <1>5 DEF AppliedTo
  <2>2. ConfirmedFor(e)' = IF e = d THEN ConfirmedFor(e) \cup {n} ELSE ConfirmedFor(e)
    BY <1>5 DEF ConfirmedFor, ConfirmDraft
  <2>3. n \notin ConfirmedFor(e)
    BY DEF ConfirmedFor, ConfirmDraft
  <2>4. \A r \in AppliedTo(e) : request[r].revision \in Nat
    BY Rows DEF AppliedTo, Asked
  <2>5. \A m \in ConfirmedFor(e) : m \in Drafts \ {n} /\ draft[m].base \in Nat
    BY <2>3, Rows DEF ConfirmedFor, Written
  <2>6. CASE e # d
    BY <1>4, <1>5, <2>1, <2>2, <2>5, <2>6 DEF EachChangeSawTheLast
  <2>7. CASE e = d
    <3>1. /\ \A r \in AppliedTo(d) :
               /\ request[r].revision < deployment[d].revision
               /\ \A s \in AppliedTo(d) : request[r].revision = request[s].revision => r = s
               /\ \A m \in ConfirmedFor(d) : request[r].revision # draft[m].base
          /\ \A m \in ConfirmedFor(d) :
               /\ draft[m].base < deployment[d].revision
               /\ \A k \in ConfirmedFor(d) : draft[m].base = draft[k].base => m = k
      BY <1>2 DEF EachChangeSawTheLast
    <3>2. /\ deployment'[e].revision = deployment[d].revision + 1
          /\ draft'[n].base = deployment[d].revision
          /\ \A m \in ConfirmedFor(d) : draft'[m].base = draft[m].base
          /\ request' = request
      BY <1>3, <1>4, <1>5, <2>5, <2>7
    <3>. HIDE DEF d
    <3>. QED  BY <1>3, <2>1, <2>2, <2>4, <2>5, <2>7, <3>1, <3>2
  <2>. QED  BY <2>6, <2>7
<1>9. ActivatedAsSeen'
  BY <1>4, <1>5, NothingActivated
<1>. QED  BY <1>6, <1>7, <1>8, <1>9 DEF IInv

\* What a transition does to its deployment and its request.
LEMMA TransitionEffect ==
    ASSUME TypeOK, NEW r \in Requests, Transition(r), NEW d, d = request[r].deployment
    PROVE  /\ request[r] \in Asked
           /\ d \in Deployments /\ deployment[d] \in Bound
           /\ request[r].revision = deployment[d].revision
           /\ request[r].package = deployment[d].package
           /\ deployment'[d].lifecycle = request[r].target
           /\ deployment'[d].package = deployment[d].package
           /\ deployment'[d].revision = deployment[d].revision + 1
           /\ deployment'[d].slot = IF request[r].target = "active" THEN FreeSlot ELSE 0
           /\ \A e \in Deployments \ {d} : deployment'[e] = deployment[e]
           /\ request'[r].state = "applied"
           /\ request'[r].target = request[r].target /\ request'[r].deployment = d
           /\ request'[r].package = request[r].package
           /\ request'[r].revision = request[r].revision
           /\ \A s \in Requests \ {r} : request'[s] = request[s]
<1>1. request[r] \in Asked
  BY Rows DEF Transition
<1>2. d \in Deployments
  BY <1>1 DEF Asked
<1>3. request[r].revision = deployment[d].revision /\ request[r].package = deployment[d].package
  BY DEF Transition, AsSeen
<1>4. deployment[d] \in Bound
  BY <1>1, <1>2, <1>3, Rows DEF Asked, Exists, NoDeployment
<1>5. /\ deployment'[d].lifecycle = request[r].target
      /\ deployment'[d].package = deployment[d].package
      /\ deployment'[d].revision = deployment[d].revision + 1
      /\ deployment'[d].slot = IF request[r].target = "active" THEN FreeSlot ELSE 0
      /\ \A e \in Deployments \ {d} : deployment'[e] = deployment[e]
  BY <1>2, <1>4 DEF Transition, TypeOK, Bound
<1>6. /\ request'[r].state = "applied"
      /\ request'[r].target = request[r].target /\ request'[r].deployment = d
      /\ request'[r].package = request[r].package
      /\ request'[r].revision = request[r].revision
      /\ \A s \in Requests \ {r} : request'[s] = request[s]
  BY <1>1 DEF Transition, TypeOK, Asked
<1>. QED  BY <1>1, <1>2, <1>3, <1>4, <1>5, <1>6

LEMMA KeptByTransition ==
    ASSUME IInv, NEW r \in Requests, Transition(r) PROVE IInv'
<1>. TypeOK /\ SlotsHold /\ EachChangeSawTheLast /\ ActivatedAsSeen
  BY DEF IInv
<1> DEFINE d == request[r].deployment
<1>1. /\ request[r] \in Asked
      /\ d \in Deployments /\ deployment[d] \in Bound
      /\ request[r].revision = deployment[d].revision
      /\ request[r].package = deployment[d].package
      /\ deployment'[d].lifecycle = request[r].target
      /\ deployment'[d].package = deployment[d].package
      /\ deployment'[d].revision = deployment[d].revision + 1
      /\ deployment'[d].slot = IF request[r].target = "active" THEN FreeSlot ELSE 0
      /\ \A e \in Deployments \ {d} : deployment'[e] = deployment[e]
      /\ request'[r].state = "applied"
      /\ request'[r].target = request[r].target /\ request'[r].deployment = d
      /\ request'[r].package = request[r].package
      /\ request'[r].revision = request[r].revision
      /\ \A s \in Requests \ {r} : request'[s] = request[s]
      /\ request[r].state = "sent"
      /\ UNCHANGED draft
  BY TransitionEffect, ZenonT(60) DEF Transition
<1>2. TypeOK'
  BY TypesOfTransition
<1>3. SlotsHold'
  <2>1. request[r].target = "active" => FreeSlot \in Slots \ Occupied
    BY FreeSlotIsFree DEF Transition
  <2>. QED  BY <1>1, <2>1, SlotsOfOne
<1>4. EachChangeSawTheLast'
  <2>. SUFFICES ASSUME NEW e \in Deployments
       PROVE /\ \A s \in AppliedTo(e)' :
                  /\ request'[s].revision < deployment'[e].revision
                  /\ \A t \in AppliedTo(e)' : request'[s].revision = request'[t].revision => s = t
                  /\ \A m \in ConfirmedFor(e)' : request'[s].revision # draft'[m].base
             /\ \A m \in ConfirmedFor(e)' :
                  /\ draft'[m].base < deployment'[e].revision
                  /\ \A k \in ConfirmedFor(e)' : draft'[m].base = draft'[k].base => m = k
    BY Zenon DEF EachChangeSawTheLast
  <2>1. AppliedTo(e)' = IF e = d THEN AppliedTo(e) \cup {r} ELSE AppliedTo(e)
    BY <1>1 DEF AppliedTo
  <2>2. ConfirmedFor(e)' = ConfirmedFor(e)
    BY <1>1 DEF ConfirmedFor
  <2>3. \A s \in AppliedTo(e) : s \in Requests \ {r} /\ request[s].revision \in Nat
    BY <1>1, Rows DEF AppliedTo, Asked
  <2>4. \A m \in ConfirmedFor(e) : draft[m].base \in Nat
    BY Rows DEF ConfirmedFor, Written
  <2>5. /\ \A s \in AppliedTo(e) :
             /\ request[s].revision < deployment[e].revision
             /\ \A t \in AppliedTo(e) : request[s].revision = request[t].revision => s = t
             /\ \A m \in ConfirmedFor(e) : request[s].revision # draft[m].base
        /\ \A m \in ConfirmedFor(e) :
             /\ draft[m].base < deployment[e].revision
             /\ \A k \in ConfirmedFor(e) : draft[m].base = draft[k].base => m = k
    BY DEF EachChangeSawTheLast
  <2>6. \A s \in AppliedTo(e) : request'[s] = request[s]
    BY <1>1, <2>3
  <2>7. deployment[e].revision \in Nat
    BY Rows
  <2>. HIDE DEF d
  <2>8. CASE e # d
    BY <1>1, <2>1, <2>2, <2>5, <2>6, <2>8
  <2>9. CASE e = d
    BY <1>1, <2>1, <2>2, <2>3, <2>4, <2>5, <2>6, <2>7, <2>9
  <2>. QED  BY <2>8, <2>9
<1>5. ActivatedAsSeen'
  <2>. SUFFICES ASSUME NEW e \in Active'
       PROVE \/ deployment'[e].package = Legacy /\ deployment'[e].revision = 1
             \/ \E s \in Requests : /\ request'[s].state = "applied" /\ request'[s].target = "active"
                                    /\ request'[s].deployment = e
                                    /\ request'[s].package = deployment'[e].package
                                    /\ request'[s].revision + 1 = deployment'[e].revision
    BY Zenon DEF ActivatedAsSeen
  <2>1. CASE e = d
    BY <1>1, <2>1 DEF Active
  <2>2. CASE e # d
    <3>1. e \in Active /\ deployment'[e] = deployment[e]
      BY <1>1, <2>2 DEF Active
    <3>2. \A s \in Requests : request[s].state = "applied" => request'[s] = request[s]
      BY <1>1
    <3>. QED  BY <3>1, <3>2 DEF ActivatedAsSeen
  <2>. QED  BY <2>1, <2>2
<1>. QED  BY <1>2, <1>3, <1>4, <1>5 DEF IInv

LEMMA Kept == IInv /\ [Next]_vars => IInv'
<1>. SUFFICES ASSUME IInv, [Next]_vars PROVE IInv'
  OBVIOUS
<1>1. CASE UNCHANGED vars
  BY <1>1 DEF vars, IInv, TypeOK, SlotsHold, EachChangeSawTheLast, ActivatedAsSeen,
              Active, AppliedTo, ConfirmedFor
<1>2. CASE PackageStep \/ DraftStep \/ RequestStep
  BY <1>2, KeptByQuietSteps
<1>3. CASE \E p \in AllPackages : Revoke(p)
  BY <1>3, KeptByRevoke
<1>4. CASE \E d \in Deployments : CreateInitialColleague(d)
  BY <1>4, KeptByCreateInitialColleague
<1>5. CASE \E n \in Drafts : ConfirmDraft(n)
  BY <1>5, KeptByConfirmDraft
<1>6. CASE \E r \in Requests : Transition(r)
  BY <1>6, KeptByTransition
<1>. QED  BY <1>1, <1>2, <1>3, <1>4, <1>5, <1>6 DEF Next, PackageStep, DraftStep, RequestStep

LEMMA Always == Spec => []IInv
  BY Initially, Kept, PTL DEF Spec

-----------------------------------------------------------------------------
(* Theorems                                                                *)

\* Packages, deployments, drafts and requests keep their types.
THEOREM TypeCorrect == Spec => []TypeOK
<1>1. IInv => TypeOK
  BY DEF IInv
<1>. QED  BY <1>1, Always, PTL

\* Exactly the active deployments hold a slot each (transition_deployment,
\* change_package_state), in every order of activation and revocation.
THEOREM EachActiveHoldsASlot == Spec => []SlotsHold
<1>1. IInv => SlotsHold
  BY DEF IInv
<1>. QED  BY <1>1, Always, PTL

\* No two drafts or lifecycle requests that changed a deployment were based on the
\* same revision of it (confirm_deployment_draft, transition_deployment).
THEOREM NoChangeOverlooksAnother == Spec => []EachChangeSawTheLast
<1>1. IInv => EachChangeSawTheLast
  BY DEF IInv
<1>. QED  BY <1>1, Always, PTL

\* What is active is what an administrator saw when asking for it, except the
\* first colleague of a tenant (transition_deployment).
THEOREM NothingRunsUnseen == Spec => []ActivatedAsSeen
<1>1. IInv => ActivatedAsSeen
  BY DEF IInv
<1>. QED  BY <1>1, Always, PTL

-----------------------------------------------------------------------------
(* Deployment implements Fleet                                             *)

\* Before the tenant has a deployment, the legacy package is not registered.
LegacyComesWithTheFirst ==
    (\A d \in Deployments : ~Exists(d)) => package[Legacy].trust = "unregistered"

vetted == {p \in AllPackages : Runnable(p)}
withdrawn == {p \in AllPackages : package[p].trust = "revoked"}
running == [d \in Deployments |-> IF d \in Active THEN deployment[d].package ELSE Nothing]

LEMMA LegacyInit == Init => LegacyComesWithTheFirst
BY DEF Init, LegacyComesWithTheFirst, AllPackages

LEMMA LegacyKept ==
    ASSUME TypeOK, TypeOK', LegacyComesWithTheFirst, [Next]_vars PROVE LegacyComesWithTheFirst'
<1>. SUFFICES ASSUME \A d \in Deployments : ~Exists(d)'
     PROVE package'[Legacy].trust = "unregistered"
  BY DEF LegacyComesWithTheFirst
<1>0. \A d \in Deployments : deployment'[d] = NoDeployment
  BY DEF Exists
<1>1. CASE UNCHANGED vars
  BY <1>1 DEF vars, LegacyComesWithTheFirst, Exists
<1>2. CASE DraftStep \/ RequestStep
  BY <1>2 DEF DraftStep, RequestStep, CreateDraft, RebindingDraft, Drafted, ReviewDraft,
              AskTransition, RefuseAtLimit, LegacyComesWithTheFirst, Exists
<1>3. CASE PackageStep
  <2>1. deployment' = deployment
    BY <1>3 DEF PackageStep, Register, Trust, Install
  <2>2. package[Legacy].trust = "unregistered"
    BY <2>1 DEF LegacyComesWithTheFirst, Exists
  <2>3. PICK p \in AllPackages : Register(p) \/ Trust(p) \/ Install(p)
    BY <1>3 DEF PackageStep
  <2>4. p # Legacy
    BY <2>2, <2>3 DEF Register, Trust, Install
  <2>. QED  BY <2>2, <2>3, <2>4 DEF TypeOK, Register, Trust, Install, AllPackages
<1>4. ASSUME NEW p \in AllPackages, Revoke(p) PROVE package'[Legacy].trust = "unregistered"
  <2>1. \A d \in Deployments : ~Exists(d)
    <3>. TAKE d \in Deployments
    <3>1. d \notin BlockedBy(p)
      <4>. SUFFICES ASSUME d \in BlockedBy(p) PROVE FALSE
        OBVIOUS
      <4>1. deployment[d] \in Bound
        BY Rows DEF BlockedBy, Active
      <4>2. deployment'[d].lifecycle = "blocked"
        BY <1>4, <4>1 DEF Revoke, Block, Bound
      <4>. QED  BY <1>0, <4>2 DEF NoDeployment
    <3>. QED  BY <1>0, <1>4, <3>1 DEF Revoke, Exists
  <2>2. package[Legacy].trust = "unregistered"
    BY <2>1 DEF LegacyComesWithTheFirst
  <2>. QED  BY <1>4, <2>2 DEF Revoke, TypeOK, AllPackages
<1>5. ASSUME NEW d \in Deployments, CreateInitialColleague(d) PROVE FALSE
  <2>1. deployment'[d].lifecycle = "active"
    BY <1>5 DEF CreateInitialColleague, TypeOK
  <2>. QED  BY <1>0, <2>1 DEF NoDeployment
<1>6. ASSUME NEW n \in Drafts, ConfirmDraft(n) PROVE FALSE
  <2>1. draft[n].deployment \in Deployments
    BY <1>6, Rows DEF ConfirmDraft, Written
  <2>2. deployment'[draft[n].deployment].lifecycle = "draft"
    BY <1>6, <2>1 DEF ConfirmDraft, TypeOK
  <2>. QED  BY <1>0, <2>1, <2>2 DEF NoDeployment
<1>7. ASSUME NEW r \in Requests, Transition(r) PROVE FALSE
  <2>1. /\ request[r].deployment \in Deployments
        /\ deployment'[request[r].deployment].lifecycle = request[r].target
        /\ request[r] \in Asked
    BY <1>7, TransitionEffect
  <2>. QED  BY <1>0, <2>1 DEF NoDeployment, Asked, Lifecycles
<1>. QED  BY <1>1, <1>2, <1>3, <1>4, <1>5, <1>6, <1>7 DEF Next, PackageStep, DraftStep, RequestStep

\* As long as a slot is free, fewer deployments are active than the limit allows.
LEMMA RoomForOneMore ==
    ASSUME TypeOK, SlotsHold, FreeSlot # 0 PROVE Cardinality(Active) < ActiveLimit
<1> DEFINE Others == Slots \ {FreeSlot}
           slotOf == [d \in Active |-> deployment[d].slot]
<1>1. IsFiniteSet(Active)
  BY FS_Subset DEF Active
<1>2. IsFiniteSet(Slots) /\ Cardinality(Slots) = ActiveLimit
  BY FS_Interval DEF Slots
<1>3. IsFiniteSet(Others) /\ Cardinality(Others) = ActiveLimit - 1
  BY <1>2, FS_RemoveElement, FreeSlotIsFree
<1>4. slotOf \in [Active -> Others]
  <2>. SUFFICES ASSUME NEW d \in Active PROVE deployment[d].slot \in Others
    OBVIOUS
  <2>1. deployment[d] \in Bound
    BY Rows DEF Active
  <2>2. deployment[d].slot # 0 /\ deployment[d].slot \in Occupied
    BY DEF SlotsHold, Active, Occupied
  <2>. QED  BY <2>1, <2>2, FreeSlotIsFree DEF Bound
<1>5. ~\E d, e \in Active : d # e /\ slotOf[d] = slotOf[e]
  BY DEF SlotsHold
<1>6. ~(Cardinality(Others) < Cardinality(Active))
  <2>. HIDE DEF Others, slotOf
  <2>. QED  BY <1>1, <1>3, <1>4, <1>5, FS_PigeonHole
<1>. QED  BY <1>1, <1>3, <1>6, FS_CardinalityType

\* The abstract step, in the words of this module.
FleetStep ==
    \/ \E p \in AllPackages :
         \/ /\ p \notin vetted \cup withdrawn
            /\ vetted' = vetted \cup {p}
            /\ UNCHANGED <<withdrawn, running>>
         \/ /\ p \notin withdrawn
            /\ withdrawn' = withdrawn \cup {p}
            /\ vetted' = vetted \ {p}
            /\ running' = [d \in Deployments |-> IF running[d] = p THEN Nothing ELSE running[d]]
    \/ \E d \in Deployments :
         \/ /\ running[d] # Nothing
            /\ running' = [running EXCEPT ![d] = Nothing]
            /\ UNCHANGED <<vetted, withdrawn>>
         \/ \E p \in AllPackages :
              /\ running[d] = Nothing
              /\ p \in vetted'
              /\ Cardinality(Active) < ActiveLimit
              /\ running' = [running EXCEPT ![d] = p]
              /\ UNCHANGED withdrawn
              /\ \/ UNCHANGED vetted
                 \/ Active = {} /\ vetted' = vetted \cup {p} /\ p \notin withdrawn

LEMMA RunningIsActive ==
    ASSUME TypeOK
    PROVE  \A d \in Deployments : /\ running[d] # Nothing <=> d \in Active
                                  /\ d \in Active => deployment[d] \in Bound
<1>. TAKE d \in Deployments
<1>1. d \in Active => deployment[d] \in Bound
  BY Rows DEF Active
<1>. QED  BY <1>1 DEF running, Bound

LEMMA FleetStepIsAStep ==
    ASSUME TypeOK, FleetStep PROVE FleetOf!Next
<1>1. FleetOf!Busy = Active
  BY RunningIsActive DEF FleetOf!Busy, running, Active
<1>2. ASSUME NEW p \in AllPackages,
             p \notin vetted \cup withdrawn, vetted' = vetted \cup {p}, UNCHANGED <<withdrawn, running>>
      PROVE  FleetOf!Vet(p)
  BY <1>2 DEF FleetOf!Vet, vetted, withdrawn, running
<1>3. ASSUME NEW p \in AllPackages,
             p \notin withdrawn, withdrawn' = withdrawn \cup {p}, vetted' = vetted \ {p},
             running' = [d \in Deployments |-> IF running[d] = p THEN Nothing ELSE running[d]]
      PROVE  FleetOf!Withdraw(p)
  BY <1>3 DEF FleetOf!Withdraw, vetted, withdrawn, running
<1>4. ASSUME NEW d \in Deployments,
             running[d] # Nothing, running' = [running EXCEPT ![d] = Nothing],
             UNCHANGED <<vetted, withdrawn>>
      PROVE  FleetOf!Stop(d)
  BY <1>4 DEF FleetOf!Stop, vetted, withdrawn, running
<1>5. ASSUME NEW d \in Deployments, NEW p \in AllPackages,
             running[d] = Nothing, p \in vetted', Cardinality(Active) < ActiveLimit,
             running' = [running EXCEPT ![d] = p], UNCHANGED withdrawn
      PROVE  FleetOf!Start(d, p)
  <2>1. FleetOf!Cardinality(FleetOf!Busy) = Cardinality(Active)
    BY <1>1, Zenon DEF Cardinality, FleetOf!Cardinality
  <2>. QED  BY <1>5, <2>1 DEF FleetOf!Start, vetted, withdrawn, running
<1>6. ASSUME NEW p, UNCHANGED vetted PROVE UNCHANGED {q \in AllPackages : Runnable(q)}
  BY <1>6 DEF vetted
<1>7. ASSUME NEW d \in Deployments, NEW p \in AllPackages, FleetOf!Start(d, p),
             Active = {}, vetted' = vetted \cup {p}, p \notin withdrawn
      PROVE  FleetOf!StartFirst(d, p)
  BY <1>1, <1>7 DEF FleetOf!StartFirst, vetted, withdrawn
<1>. QED  BY <1>2, <1>3, <1>4, <1>5, <1>6, <1>7 DEF FleetStep, FleetOf!Next

Stutter == UNCHANGED <<vetted, withdrawn, running>>

\* A deployment that is not active after a change of it has stopped, or did not run.
LEMMA Stops ==
    ASSUME TypeOK, NEW d \in Deployments, UNCHANGED package,
           \A e \in Deployments \ {d} : deployment'[e] = deployment[e],
           deployment'[d].lifecycle # "active"
    PROVE  FleetStep \/ Stutter
<1>1. UNCHANGED <<vetted, withdrawn>>
  BY DEF vetted, withdrawn, Runnable
<1>2. running' = [running EXCEPT ![d] = Nothing]
  BY DEF running, Active
<1>3. CASE running[d] # Nothing
  BY <1>1, <1>2, <1>3 DEF FleetStep
<1>4. CASE running[d] = Nothing
  <2>1. running' = running
    BY <1>2, <1>4 DEF running
  <2>. QED  BY <1>1, <2>1 DEF Stutter
<1>. QED  BY <1>3, <1>4

LEMMA QuietStepsMap ==
    ASSUME TypeOK, PackageStep \/ DraftStep \/ RequestStep PROVE FleetStep \/ Stutter
<1>1. deployment' = deployment
  BY DEF PackageStep, DraftStep, RequestStep, Register, Trust, Install, CreateDraft,
         RebindingDraft, Drafted, ReviewDraft, AskTransition, RefuseAtLimit
<1>2. running' = running
  BY <1>1 DEF running, Active
<1>3. CASE DraftStep \/ RequestStep
  <2>1. package' = package
    BY <1>3 DEF DraftStep, RequestStep, CreateDraft, RebindingDraft, Drafted, ReviewDraft,
                AskTransition, RefuseAtLimit
  <2>. QED  BY <1>2, <2>1 DEF Stutter, vetted, withdrawn, Runnable
<1>4. CASE PackageStep
  <2>. PICK p \in AllPackages : Register(p) \/ Trust(p) \/ Install(p)
    BY <1>4 DEF PackageStep
  <2>1. package[p] \in Package
    BY Rows
  <2>2. \A q \in AllPackages \ {p} : package'[q] = package[q]
    BY DEF Register, Trust, Install, TypeOK
  <2>3. /\ package[p].trust # "revoked" /\ package'[p].trust # "revoked"
        /\ p \in vetted => p \in vetted'
    BY <2>1 DEF Register, Trust, Install, TypeOK, Package, vetted, Runnable
  <2>4. withdrawn' = withdrawn /\ p \notin withdrawn
    BY <2>2, <2>3 DEF withdrawn
  <2>5. vetted' \ {p} = vetted \ {p}
    BY <2>2 DEF vetted, Runnable
  <2>6. vetted' = vetted \/ (p \notin vetted /\ vetted' = vetted \cup {p})
    BY <2>3, <2>5
  <2>. QED  BY <1>2, <2>4, <2>6 DEF FleetStep, Stutter
<1>. QED  BY <1>3, <1>4

LEMMA RevokeMaps ==
    ASSUME TypeOK, NEW p \in AllPackages, Revoke(p) PROVE FleetStep
<1>1. package[p] \in Package
  BY Rows
<1>2. /\ package'[p].trust = "revoked"
      /\ \A q \in AllPackages \ {p} : package'[q] = package[q]
  BY <1>1 DEF Revoke, TypeOK, Package
<1>3. p \notin withdrawn /\ withdrawn' = withdrawn \cup {p}
  BY <1>2 DEF withdrawn, Revoke
<1>4. vetted' = vetted \ {p}
  BY <1>2 DEF vetted, Runnable
<1>5. \A d \in Deployments : running'[d] = IF running[d] = p THEN Nothing ELSE running[d]
  <2>. TAKE d \in Deployments
  <2>1. d \in BlockedBy(p) <=> running[d] = p
    BY DEF BlockedBy, running, AllPackages
  <2>2. CASE d \in BlockedBy(p)
    <3>1. deployment[d] \in Bound
      BY <2>2, RunningIsActive DEF BlockedBy
    <3>2. deployment'[d].lifecycle = "blocked"
      BY <2>2, <3>1 DEF Revoke, Block, Bound
    <3>. QED  BY <2>1, <2>2, <3>2 DEF running, Active
  <2>3. CASE d \notin BlockedBy(p)
    <3>1. deployment'[d] = deployment[d]
      BY <2>3 DEF Revoke
    <3>. QED  BY <2>1, <2>3, <3>1 DEF running, Active
  <2>. QED  BY <2>2, <2>3
<1>6. running' = [d \in Deployments |-> IF running[d] = p THEN Nothing ELSE running[d]]
  BY <1>5 DEF running
<1>. QED  BY <1>3, <1>4, <1>6 DEF FleetStep

\* A deployment that is active only after a change of it has started.
LEMMA Starts ==
    ASSUME TypeOK, SlotsHold, FreeSlot # 0, NEW d \in Deployments, d \notin Active,
           \A e \in Deployments \ {d} : deployment'[e] = deployment[e],
           deployment'[d].lifecycle = "active",
           deployment'[d].package \in vetted', UNCHANGED withdrawn,
           \/ UNCHANGED vetted
           \/ /\ Active = {} /\ vetted' = vetted \cup {deployment'[d].package}
              /\ deployment'[d].package \notin withdrawn
    PROVE  FleetStep
<1> DEFINE p == deployment'[d].package
<1>1. p \in AllPackages
  BY DEF vetted
<1>2. running[d] = Nothing
  BY DEF running
<1>3. running' = [running EXCEPT ![d] = p]
  BY DEF running, Active
<1>4. Cardinality(Active) < ActiveLimit
  BY RoomForOneMore
<1>. HIDE DEF p
<1>5. p \in vetted' /\ (UNCHANGED vetted \/ (Active = {} /\ vetted' = vetted \cup {p}
                                              /\ p \notin withdrawn))
  BY DEF p
<1>. QED  BY <1>1, <1>2, <1>3, <1>4, <1>5 DEF FleetStep

LEMMA CreateInitialColleagueMaps ==
    ASSUME IInv, LegacyComesWithTheFirst, NEW d \in Deployments, CreateInitialColleague(d)
    PROVE  FleetStep
<1>. TypeOK /\ SlotsHold
  BY DEF IInv
<1>1. /\ deployment'[d].lifecycle = "active" /\ deployment'[d].package = Legacy
      /\ \A e \in Deployments \ {d} : deployment'[e] = deployment[e]
  BY DEF CreateInitialColleague, TypeOK
<1>2. Active = {}
  BY DEF CreateInitialColleague, Exists, Active, NoDeployment
<1>3. package[Legacy].trust = "unregistered"
  BY DEF CreateInitialColleague, LegacyComesWithTheFirst
<1>4. /\ package'[Legacy].trust = "legacy_preserved" /\ package'[Legacy].installed
      /\ \A q \in AllPackages \ {Legacy} : package'[q] = package[q]
  BY DEF CreateInitialColleague, TypeOK, AllPackages
<1>5. Legacy \notin withdrawn /\ withdrawn' = withdrawn
  BY <1>3, <1>4 DEF withdrawn
<1>6. vetted' = vetted \cup {Legacy}
  BY <1>4 DEF vetted, Runnable, AllPackages
<1>. QED  BY <1>1, <1>2, <1>5, <1>6, Starts DEF CreateInitialColleague

LEMMA ConfirmDraftMaps ==
    ASSUME TypeOK, NEW n \in Drafts, ConfirmDraft(n) PROVE FleetStep \/ Stutter
<1> DEFINE d == draft[n].deployment
<1>1. d \in Deployments
  BY Rows DEF ConfirmDraft, Written
<1>2. /\ deployment'[d].lifecycle = "draft"
      /\ \A e \in Deployments \ {d} : deployment'[e] = deployment[e]
      /\ UNCHANGED package
  BY <1>1 DEF ConfirmDraft, TypeOK
<1>. QED  BY <1>1, <1>2, Stops

LEMMA TransitionMaps ==
    ASSUME IInv, NEW r \in Requests, Transition(r) PROVE FleetStep \/ Stutter
<1>. TypeOK /\ SlotsHold
  BY DEF IInv
<1> DEFINE d == request[r].deployment
<1>1. /\ d \in Deployments /\ deployment[d] \in Bound
      /\ deployment'[d].lifecycle = request[r].target
      /\ deployment'[d].package = deployment[d].package
      /\ \A e \in Deployments \ {d} : deployment'[e] = deployment[e]
      /\ UNCHANGED package
  BY TransitionEffect DEF Transition
<1>2. CASE request[r].target # "active"
  BY <1>1, <1>2, Stops
<1>3. CASE request[r].target = "active"
  <2>1. deployment[d].lifecycle # "active"
    <3>1. request[r].target \in ALLOWED_LIFECYCLE_TRANSITIONS[deployment[d].lifecycle]
      BY DEF Transition
    <3>2. "active" \notin ALLOWED_LIFECYCLE_TRANSITIONS["active"]
      BY DEF ALLOWED_LIFECYCLE_TRANSITIONS
    <3>. QED  BY <1>3, <3>1, <3>2
  <2>2. deployment[d].package \in vetted
    BY <1>1, <1>3 DEF Transition, vetted, Bound
  <2>3. UNCHANGED <<vetted, withdrawn>>
    BY <1>1 DEF vetted, withdrawn, Runnable
  <2>4. FreeSlot # 0 /\ d \notin Active
    BY <1>3, <2>1 DEF Transition, Active
  <2>. QED  BY <1>1, <1>3, <2>2, <2>3, <2>4, Starts
<1>. QED  BY <1>2, <1>3

LEMMA NextMaps ==
    IInv /\ LegacyComesWithTheFirst /\ [Next]_vars => [FleetOf!Next]_(FleetOf!fleet)
<1>. SUFFICES ASSUME IInv, LegacyComesWithTheFirst, [Next]_vars
     PROVE FleetStep \/ Stutter
  BY FleetStepIsAStep DEF IInv, Stutter, FleetOf!fleet, vetted, withdrawn, running
<1>. TypeOK
  BY DEF IInv
<1>1. CASE UNCHANGED vars
  BY <1>1 DEF vars, Stutter, vetted, withdrawn, running, Runnable, Active
<1>2. CASE PackageStep \/ DraftStep \/ RequestStep
  BY <1>2, QuietStepsMap
<1>3. CASE \E p \in AllPackages : Revoke(p)
  BY <1>3, RevokeMaps
<1>4. CASE \E d \in Deployments : CreateInitialColleague(d)
  BY <1>4, CreateInitialColleagueMaps
<1>5. CASE \E n \in Drafts : ConfirmDraft(n)
  BY <1>5, ConfirmDraftMaps
<1>6. CASE \E r \in Requests : Transition(r)
  BY <1>6, TransitionMaps
<1>. QED  BY <1>1, <1>2, <1>3, <1>4, <1>5, <1>6 DEF Next, PackageStep, DraftStep, RequestStep

LEMMA InitMaps == Init => FleetOf!Init
<1>. SUFFICES ASSUME Init PROVE FleetOf!Init
  OBVIOUS
<1>1. \A p \in AllPackages : package[p].trust = "unregistered"
  BY DEF Init
<1>2. Active = {}
  BY DEF Init, Active, NoDeployment
<1>. QED  BY <1>1, <1>2 DEF FleetOf!Init, Runnable

\* Deployments under revocation, rebinding, the lifecycle and the limit of slots
\* implement the promise of Fleet (p11_store.py).
THEOREM ImplementsFleet == Spec => RunsVetted
<1>1. IInv /\ IInv' /\ LegacyComesWithTheFirst /\ [Next]_vars => LegacyComesWithTheFirst'
  BY LegacyKept DEF IInv
<1>. QED  BY <1>1, LegacyInit, InitMaps, NextMaps, Always, PTL DEF Spec, RunsVetted, FleetOf!Spec
=============================================================================
