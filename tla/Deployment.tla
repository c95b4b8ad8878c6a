----------------------------- MODULE Deployment -----------------------------
(***************************************************************************)
(* Packages and deployments of one tenant: which package versions are      *)
(* trusted and installed, which of them a colleague is bound to, and       *)
(* whether it may run.                                                     *)
(*                                                                         *)
(* Every store method is one transaction.  What an administrator sends     *)
(* names the revision, digest or draft it was based on, and is refused,    *)
(* without effect, when that is no longer current; so a request is one     *)
(* action, taken when it is current.  A lifecycle request is two: between  *)
(* what the administrator saw and its arrival anything may happen, and it  *)
(* may arrive again.  Repeated with the same key, every operation returns  *)
(* what it did before.                                                     *)
(***************************************************************************)
EXTENDS Naturals, FiniteSets

CONSTANTS
    Packages,      \* exact package versions that may be registered
    Legacy,        \* the package of colleagues created before or without one
    Nothing,
    Deployments,   \* colleague namespaces
    NumDrafts,     \* bound: deployment drafts
    Requests,      \* bound: lifecycle requests
    ActiveLimit,   \* 10 in the code
    MaxRevision    \* bound: revisions of a deployment

Drafts == 1..NumDrafts
AllPackages == Packages \cup {Legacy}

ASSUME ParametersAssumption ==
    /\ Legacy \notin Packages
    /\ Nothing \notin AllPackages
    /\ IsFiniteSet(Deployments)
    /\ NumDrafts \in Nat
    /\ ActiveLimit \in Nat \ {0}
    /\ MaxRevision \in Nat \ {0}

VARIABLES
    package,      \* package versions
    deployment,   \* deployment rows
    history,      \* packages each deployment was ever bound to
    draft,        \* deployment drafts
    request       \* lifecycle requests and their recorded results

vars == <<package, deployment, history, draft, request>>

Lifecycles == {"draft", "active", "paused", "blocked", "retired"}

\* What an administrator may ask for.
ALLOWED_LIFECYCLE_TRANSITIONS ==
    [draft   |-> {"active", "retired"},
     active  |-> {"paused", "blocked", "retired"},
     paused  |-> {"active", "blocked", "retired"},
     blocked |-> {"paused", "retired"},
     retired |-> {}]

Slots == 1..ActiveLimit

NoDeployment == [lifecycle |-> "absent", package |-> Nothing, revision |-> 0, slot |-> 0]
NoDraft == [state |-> "absent"]
NoRequest == [state |-> "absent"]

TypeOK ==
    /\ package \in [AllPackages ->
         [trust : {"unregistered", "untrusted", "trusted", "legacy_preserved", "revoked"},
          installed : BOOLEAN]]
    /\ deployment \in [Deployments ->
         {NoDeployment} \cup [lifecycle : Lifecycles, package : AllPackages,
                              revision : 1..MaxRevision, slot : {0} \cup Slots]]
    /\ history \in [Deployments -> SUBSET AllPackages]
    /\ draft \in [Drafts -> {NoDraft} \cup
         [state : {"draft", "reviewed", "confirmed"}, kind : {"create", "upgrade", "rollback"},
          deployment : Deployments, package : AllPackages, base : 0..MaxRevision]]
    /\ request \in [Requests -> {NoRequest} \cup
         [state : {"sent", "applied", "limit"}, deployment : Deployments, target : Lifecycles,
          package : AllPackages, revision : 1..MaxRevision]]

Init ==
    /\ package = [p \in AllPackages |-> [trust |-> "unregistered", installed |-> FALSE]]
    /\ deployment = [d \in Deployments |-> NoDeployment]
    /\ history = [d \in Deployments |-> {}]
    /\ draft = [n \in Drafts |-> NoDraft]
    /\ request = [r \in Requests |-> NoRequest]

Exists(d) == deployment[d] # NoDeployment
Active == {d \in Deployments : deployment[d].lifecycle = "active"}
Occupied == {deployment[d].slot : d \in Active}

\* Fault: the slots are counted.
SlotAfterAll == Cardinality(Occupied) + 1

\* The lowest slot that is free, 0 if there is none.
FreeSlot == IF Slots \subseteq Occupied THEN 0
            ELSE CHOOSE s \in Slots \ Occupied : \A t \in Slots \ Occupied : s <= t

-----------------------------------------------------------------------------
(* Packages                                                                *)

Register(p) ==
    /\ p \in Packages /\ package[p].trust = "unregistered"
    /\ package' = [package EXCEPT ![p].trust = "untrusted"]
    /\ UNCHANGED <<deployment, history, draft, request>>

Trust(p) ==
    /\ package[p].trust = "untrusted"
    /\ package' = [package EXCEPT ![p].trust = "trusted"]
    /\ UNCHANGED <<deployment, history, draft, request>>

Install(p) ==
    /\ package[p].trust = "trusted" /\ ~package[p].installed
    /\ package' = [package EXCEPT ![p].installed = TRUE]
    /\ UNCHANGED <<deployment, history, draft, request>>

\* Fault: a deployment of the package goes on.
BlockedNone(p) == {}

\* Fault: the deployments are blocked in place.
BlockKeepsSlot(d) == [deployment[d] EXCEPT !.lifecycle = "blocked", !.revision = @ + 1]

BlockedBy(p) == {d \in Active : deployment[d].package = p}

Block(d) == [deployment[d] EXCEPT !.lifecycle = "blocked", !.slot = 0, !.revision = @ + 1]

Revoke(p) ==
    /\ package[p].trust \in {"untrusted", "trusted", "legacy_preserved"}
    /\ \A d \in BlockedBy(p) : deployment[d].revision < MaxRevision
    /\ package' = [package EXCEPT ![p].trust = "revoked"]
    /\ deployment' = [d \in Deployments |-> IF d \in BlockedBy(p) THEN Block(d)
                                            ELSE deployment[d]]
    /\ UNCHANGED <<history, draft, request>>

-----------------------------------------------------------------------------
(* Deployments and their drafts                                            *)

\* The tenant's first colleague is active from the start, with the legacy package.
CreateInitialColleague(d) ==
    /\ \A e \in Deployments : ~Exists(e)
    /\ FreeSlot # 0
    /\ package' = [package EXCEPT ![Legacy] = [trust |-> "legacy_preserved",
                                               installed |-> TRUE]]
    /\ deployment' = [deployment EXCEPT ![d] = [lifecycle |-> "active", package |-> Legacy,
                                                revision |-> 1, slot |-> FreeSlot]]
    /\ history' = [history EXCEPT ![d] = {Legacy}]
    /\ UNCHANGED <<draft, request>>

Ready(p) == package[p].trust = "trusted" /\ package[p].installed

Drafted(n, kind, d, p, base) ==
    /\ draft[n] = NoDraft
    /\ \A m \in 1..n - 1 : draft[m] # NoDraft
    /\ Ready(p)
    /\ draft' = [draft EXCEPT ![n] = [state |-> "draft", kind |-> kind, deployment |-> d,
                                      package |-> p, base |-> base]]
    /\ UNCHANGED <<package, deployment, history, request>>

\* Whether there is such a deployment is not asked before the confirmation.
CreateDraft(n, d, p) == Drafted(n, "create", d, p, 0)

\* A policy must be confirmed, as it is for every colleague created by a draft.
RebindingDraft(n, d, p, kind) ==
    /\ Exists(d)
    /\ deployment[d].package # p
    /\ kind = "rollback" => p \in history[d]
    /\ Drafted(n, kind, d, p, deployment[d].revision)

ReviewDraft(n) ==
    /\ draft[n].state = "draft"
    /\ draft' = [draft EXCEPT ![n].state = "reviewed"]
    /\ UNCHANGED <<package, deployment, history, request>>

\* Fault: the deployment need only exist.
BaseUnchecked(n) == Exists(draft[n].deployment) <=> draft[n].kind # "create"

\* The base of a creation is that there is no such deployment.
BaseCurrent(n) == deployment[draft[n].deployment].revision = draft[n].base

\* A deployment, new or bound anew, has to be activated on its own.
ConfirmDraft(n) ==
    LET d == draft[n].deployment
        p == draft[n].package
    IN
    /\ draft[n].state = "reviewed"
    /\ Ready(p)
    /\ BaseCurrent(n)
    /\ deployment[d].revision < MaxRevision
    /\ deployment' = [deployment EXCEPT ![d] = [lifecycle |-> "draft", package |-> p,
                                                revision |-> @.revision + 1, slot |-> 0]]
    /\ history' = [history EXCEPT ![d] = @ \cup {p}]
    /\ draft' = [draft EXCEPT ![n].state = "confirmed"]
    /\ UNCHANGED <<package, request>>

-----------------------------------------------------------------------------
(* Lifecycle                                                               *)

AskTransition(r, d, target) ==
    /\ request[r] = NoRequest
    /\ Exists(d)
    /\ request' = [request EXCEPT ![r] =
                     [state |-> "sent", deployment |-> d, target |-> target,
                      package |-> deployment[d].package, revision |-> deployment[d].revision]]
    /\ UNCHANGED <<package, deployment, history, draft>>

\* Fault: it is enough that the transition is still allowed.
AsSeenOrAllowed(r) == TRUE

AsSeen(r) ==
    LET d == deployment[request[r].deployment] IN
    d.revision = request[r].revision /\ d.package = request[r].package

Runnable(p) == package[p].trust \in {"trusted", "legacy_preserved"} /\ package[p].installed

Transition(r) ==
    LET d == request[r].deployment
        target == request[r].target
    IN
    /\ request[r].state = "sent"
    /\ AsSeen(r)
    /\ target \in ALLOWED_LIFECYCLE_TRANSITIONS[deployment[d].lifecycle]
    /\ deployment[d].revision < MaxRevision
    /\ target = "active" => Runnable(deployment[d].package) /\ FreeSlot # 0
    /\ deployment' = [deployment EXCEPT ![d].lifecycle = target, ![d].revision = @ + 1,
                                        ![d].slot = IF target = "active" THEN FreeSlot ELSE 0]
    /\ request' = [request EXCEPT ![r].state = "applied"]
    /\ UNCHANGED <<package, history, draft>>

\* active_deployment_limit_reached is recorded, and stays the answer.
RefuseAtLimit(r) ==
    /\ request[r].state = "sent" /\ request[r].target = "active"
    /\ AsSeen(r)
    /\ "active" \in ALLOWED_LIFECYCLE_TRANSITIONS[deployment[request[r].deployment].lifecycle]
    /\ Runnable(request[r].package)
    /\ FreeSlot = 0
    /\ request' = [request EXCEPT ![r].state = "limit"]
    /\ UNCHANGED <<package, deployment, history, draft>>

Next ==
    \/ \E p \in AllPackages : Register(p) \/ Trust(p) \/ Install(p) \/ Revoke(p)
    \/ \E d \in Deployments :
         \/ CreateInitialColleague(d)
         \/ \E n \in Drafts, p \in Packages :
              \/ CreateDraft(n, d, p)
              \/ \E kind \in {"upgrade", "rollback"} : RebindingDraft(n, d, p, kind)
         \/ \E r \in Requests, target \in Lifecycles : AskTransition(r, d, target)
    \/ \E n \in Drafts : ReviewDraft(n) \/ ConfirmDraft(n)
    \/ \E r \in Requests : Transition(r) \/ RefuseAtLimit(r)

Spec == Init /\ [][Next]_vars

-----------------------------------------------------------------------------
(* What the registry promises                                              *)

\* The active deployments, and no other, hold a slot each, in every order of
\* activation, revocation and rebinding (transition_deployment).
SlotsHold ==
    /\ \A d \in Deployments : deployment[d].slot # 0 <=> d \in Active
    /\ \A d, e \in Active : deployment[d].slot = deployment[e].slot => d = e

AppliedTo(d) == {r \in Requests : request[r].state = "applied" /\ request[r].deployment = d}
ConfirmedFor(d) == {n \in Drafts : draft[n].state = "confirmed" /\ draft[n].deployment = d}

\* Whoever changed a deployment had seen the change before (confirm_deployment_draft,
\* transition_deployment): no two applied requests or confirmed drafts started
\* from the same revision of it, whatever was drafted or asked for side by side.
EachChangeSawTheLast ==
    \A d \in Deployments :
        /\ \A r \in AppliedTo(d) :
             /\ request[r].revision < deployment[d].revision
             /\ \A s \in AppliedTo(d) : request[r].revision = request[s].revision => r = s
             /\ \A n \in ConfirmedFor(d) : request[r].revision # draft[n].base
        /\ \A n \in ConfirmedFor(d) :
             /\ draft[n].base < deployment[d].revision
             /\ \A m \in ConfirmedFor(d) : draft[n].base = draft[m].base => n = m

\* docs/p11: "requiring a distinct activation": what runs is what an
\* administrator saw when asking for it, and nothing has happened to the
\* deployment since; but for the first colleague.
ActivatedAsSeen ==
    \A d \in Active :
        \/ deployment[d].package = Legacy /\ deployment[d].revision = 1
        \/ \E r \in Requests : /\ request[r].state = "applied" /\ request[r].target = "active"
                               /\ request[r].deployment = d
                               /\ request[r].package = deployment[d].package
                               /\ request[r].revision + 1 = deployment[d].revision

\* Only vetted packages run, on no more than ActiveLimit deployments, and none
\* after its revocation.
FleetOf == INSTANCE Fleet WITH
    Packages <- AllPackages,
    Limit <- ActiveLimit,
    vetted <- {p \in AllPackages : Runnable(p)},
    withdrawn <- {p \in AllPackages : package[p].trust = "revoked"},
    running <- [d \in Deployments |-> IF d \in Active THEN deployment[d].package ELSE Nothing]
RunsVetted == FleetOf!Spec
=============================================================================
