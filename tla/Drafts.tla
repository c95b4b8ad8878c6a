-------------------------------- MODULE Drafts --------------------------------
(***************************************************************************)
(* How the profile, the mandate and the policy of one colleague are        *)
(* revised: an administrator drafts all three against the revisions that   *)
(* are current, has the draft reviewed and confirms it; what the diff      *)
(* shows to touch mandate or policy needs another administrator's          *)
(* approval of exactly that draft.                                         *)
(*                                                                         *)
(* Every store method is one transaction that repeats what the service     *)
(* read before it, so a request is one action.  The service's reading      *)
(* matters once: having been told that a change is stale, apply_draft      *)
(* marks the proposal in a second transaction.  A content is what was      *)
(* entered, in the order entered; Says is what the diff compares of a      *)
(* mandate or policy, which for a collection is its members.  A digest is  *)
(* the draft, its revision and its contents; the base never changes.       *)
(* Memberships move as in Governance; here every administrator is one of   *)
(* the whole tenant.  Repeated with the same key, each operation returns   *)
(* what it did before.                                                     *)
(***************************************************************************)
EXTENDS Naturals, FiniteSets

CONSTANTS
    Admins,
    NumDrafts,
    NumChanges,
    Contents,      \* what a section may be made to contain
    Says,          \* and what the diff sees of it
    Initially,     \* the contents to begin with
    Edits,         \* bound: the contents an editor may ask for
    None,
    MaxEdits,      \* bound: revisions of a draft
    MaxMarking,    \* bound: apply requests between their two transactions
    MaxUpsets      \* bound: membership changes and deadlines that pass, together

Drafts == 1..NumDrafts
Changes == 1..NumChanges
Sections == {"profile", "mandate", "policy"}

ASSUME ParametersAssumption ==
    /\ NumDrafts \in Nat
    /\ NumChanges \in Nat
    /\ None \notin Contents
    /\ DOMAIN Says = Contents /\ \A c \in Contents : Says[c] # None
    /\ {Initially} \cup Edits \subseteq [Sections -> Contents]
    /\ MaxEdits \in Nat
    /\ MaxMarking \in Nat
    /\ MaxUpsets \in Nat

VARIABLES
    head,      \* the active content of each section
    revision,  \* and its revision, 0 while there is none
    binds,     \* the mandate revision the active policy names
    draft,     \* drafts
    change,    \* change proposals of kind draft, each with its decision
    marking,   \* apply requests that were told their change is stale
    member     \* memberships

vars == <<head, revision, binds, draft, change, marking, member>>

NoDraft == [state |-> "absent"]
NoChange == [state |-> "absent"]
DraftStates == {"draft", "reviewable", "confirmed", "cancelled", "stale"}
ChangeStates == {"pending", "approved", "rejected", "expired", "stale", "applied"}

DraftRow ==
    [state : DraftStates, revision : 1..MaxEdits + 1, base : [Sections -> Nat],
     content : [Sections -> Contents], names : Nat, shows : SUBSET Sections,
     author : Admins, authority : Nat]
ChangeRow ==
    [state : ChangeStates, target : Drafts, revision : 1..MaxEdits + 1,
     content : [Sections -> Contents], proposer : Admins, proposerRevision : Nat,
     approver : Admins \cup {None}, approverRevision : Nat, late : BOOLEAN]
MemberRow == [active : BOOLEAN, revision : 1..MaxUpsets + 1]

TypeOK ==
    /\ head \in [Sections -> Contents \cup {None}]
    /\ revision \in [Sections -> Nat]
    /\ binds \in Nat
    /\ draft \in [Drafts -> {NoDraft} \cup DraftRow]
    /\ change \in [Changes -> {NoChange} \cup ChangeRow]
    /\ marking \subseteq Changes \X {"pending", "approved"}
    /\ member \in [Admins -> MemberRow]

\* The first colleague has no policy yet; one created with a package has.
Init ==
    /\ head \in {Initially, [Initially EXCEPT !["policy"] = None]}
    /\ revision = [s \in Sections |-> IF head[s] = None THEN 0 ELSE 1]
    /\ binds = revision["policy"]
    /\ draft = [n \in Drafts |-> NoDraft]
    /\ change = [k \in Changes |-> NoChange]
    /\ marking = {}
    /\ member = [a \in Admins |-> [active |-> TRUE, revision |-> 1]]

-----------------------------------------------------------------------------
(* Drafts                                                                  *)

Admin(a) == member[a].active
SomeAdmin == \E a \in Admins : Admin(a)

\* What the diff compares: a profile as it was entered, a mandate and a policy
\* without the order of their collections.
Compared(s, c) == IF c = None \/ s = "profile" THEN c ELSE Says[c]

\* What the diff shows as changed.
Shown(content) == {s \in Sections : Compared(s, content[s]) # Compared(s, head[s])}

\* A policy written with a mandate names the mandate's next revision.
Names(content) == IF content["mandate"] # head["mandate"] THEN revision["mandate"] + 1
                  ELSE revision["mandate"]

\* Fault: what is missing stays missing.
UntouchedAsIs == head

\* A policy the colleague does not have yet is proposed with its defaults.
Untouched == [s \in Sections |-> IF head[s] = None THEN Initially[s] ELSE head[s]]

CreateDraft(a, n) ==
    /\ Admin(a)
    /\ draft[n] = NoDraft /\ \A m \in 1..n - 1 : draft[m] # NoDraft
    /\ draft' = [draft EXCEPT ![n] =
                   [state |-> "draft", revision |-> 1, base |-> revision,
                    content |-> Untouched, shows |-> Shown(Untouched),
                    names |-> IF head["policy"] = None THEN revision["mandate"] ELSE binds,
                    author |-> a, authority |-> member[a].revision]]
    /\ UNCHANGED <<head, revision, binds, change, marking, member>>

Open(n) == draft[n].state \in {"draft", "reviewable"}

BaseCurrent(n) == draft[n].base = revision

\* The transaction asks whether the author is the administrator the author
\* was, not who is editing.
MayUpdate(n) ==
    /\ Open(n)
    /\ Admin(draft[n].author)
    /\ member[draft[n].author].revision = draft[n].authority

Edited(n, content) ==
    [draft[n] EXCEPT !.state = "draft", !.revision = @ + 1, !.content = content,
                     !.shows = Shown(content), !.names = Names(content)]

UpdateDraft(n, content) ==
    /\ MayUpdate(n) /\ BaseCurrent(n)
    /\ draft[n].revision <= MaxEdits
    /\ draft' = [draft EXCEPT ![n] = Edited(n, content)]
    /\ UNCHANGED <<head, revision, binds, change, marking, member>>

\* A draft without any change is not reviewable.
ReviewDraft(n) ==
    /\ SomeAdmin
    /\ draft[n].state = "draft" /\ BaseCurrent(n)
    /\ draft[n].shows # {}
    /\ draft' = [draft EXCEPT ![n].state = "reviewable"]
    /\ UNCHANGED <<head, revision, binds, change, marking, member>>

CancelDraft(n) ==
    /\ SomeAdmin
    /\ Open(n)
    /\ draft' = [draft EXCEPT ![n].state = "cancelled"]
    /\ UNCHANGED <<head, revision, binds, change, marking, member>>

\* Whoever edits, reviews or confirms a draft of another base finds it stale.
FindStale(n) ==
    /\ SomeAdmin
    /\ Open(n) /\ ~BaseCurrent(n)
    /\ draft' = [draft EXCEPT ![n].state = "stale"]
    /\ UNCHANGED <<head, revision, binds, change, marking, member>>

-----------------------------------------------------------------------------
(* Change proposals                                                        *)

Binds(k, n) == /\ change[k].target = n
               /\ change[k].revision = draft[n].revision
               /\ change[k].content = draft[n].content

ProposeDraft(a, k, n) ==
    /\ Admin(a)
    /\ change[k] = NoChange /\ \A j \in 1..k - 1 : change[j] # NoChange
    /\ draft[n].state = "reviewable"
    /\ change' = [change EXCEPT ![k] =
                    [state |-> "pending", target |-> n, revision |-> draft[n].revision,
                     content |-> draft[n].content,
                     proposer |-> a, proposerRevision |-> member[a].revision,
                     approver |-> None, approverRevision |-> 0, late |-> FALSE]]
    /\ UNCHANGED <<head, revision, binds, draft, marking, member>>

MayDecide(a, k) == Admin(a) /\ a # change[k].proposer

Decide(a, k, choice) ==
    /\ change[k].state = "pending" /\ ~change[k].late
    /\ MayDecide(a, k)
    /\ change' = [change EXCEPT ![k].state = choice, ![k].approver = a,
                                ![k].approverRevision = member[a].revision]
    /\ UNCHANGED <<head, revision, binds, draft, marking, member>>

\* Deciding too late; the proposer's own attempt expires it as well.
Expire(k) ==
    /\ SomeAdmin
    /\ change[k].state = "pending" /\ change[k].late
    /\ change' = [change EXCEPT ![k].state = "expired"]
    /\ UNCHANGED <<head, revision, binds, draft, marking, member>>

\* Fault: an approval outlives the authority of the two.
ApprovedOnce(k) ==
    /\ change[k].state = "approved" /\ ~change[k].late
    /\ change[k].proposer # change[k].approver

\* The approval is of an exact proposal, in time, and the two are still who
\* they were.
Approved(k) ==
    LET given == change[k] IN
    /\ given.state = "approved" /\ ~given.late
    /\ given.proposer # given.approver
    /\ Admin(given.proposer) /\ member[given.proposer].revision = given.proposerRevision
    /\ Admin(given.approver) /\ member[given.approver].revision = given.approverRevision

-----------------------------------------------------------------------------
(* Confirmation                                                            *)

\* Compared as entered, the policy with the mandate revision it names.
Changed(n) ==
    {s \in Sections : \/ draft[n].content[s] # head[s]
                      \/ s = "policy" /\ draft[n].names # binds}

NeedsApproval(n) == draft[n].shows \cap {"mandate", "policy"} # {}

\* Fault: the base is taken to be what it was at the review.
ApplicableAsReviewed(n) == draft[n].state = "reviewable" /\ Changed(n) # {}

Applicable(n) == draft[n].state = "reviewable" /\ BaseCurrent(n) /\ Changed(n) # {}

\* The proposal and its decision are consumed.
Consume(ks) ==
    change' = [k \in Changes |-> IF k \in ks THEN [change[k] EXCEPT !.state = "applied"]
                                 ELSE change[k]]

NamedAfter(n) == IF "policy" \in Changed(n) THEN revision'["mandate"] ELSE binds

\* Confirmed with the approvals ks: one where the diff needs it, otherwise none.
Confirm(n, ks) ==
    /\ SomeAdmin
    /\ Applicable(n)
    /\ IF NeedsApproval(n)
       THEN \E k \in Changes : ks = {k} /\ Approved(k) /\ Binds(k, n)
       ELSE ks = {}
    /\ head' = [s \in Sections |-> IF s \in Changed(n) THEN draft[n].content[s] ELSE head[s]]
    /\ revision' = [s \in Sections |-> IF s \in Changed(n) THEN revision[s] + 1
                                       ELSE revision[s]]
    /\ binds' = NamedAfter(n)
    /\ draft' = [draft EXCEPT ![n].state = "confirmed"]
    /\ Consume(ks)
    /\ UNCHANGED <<marking, member>>

\* apply_draft is told that the change is stale: its draft was edited, is no
\* longer reviewable or has an old base, or the decision named is another
\* draft's.
ToldStale(k) ==
    LET n == change[k].target IN
    \/ ~Binds(k, n)
    \/ draft[n].state # "reviewable"
    \/ ~BaseCurrent(n)
    \/ /\ NeedsApproval(n)
       /\ \E j \in Changes : /\ change[j] # NoChange /\ change[j].approver # None
                             /\ ~Binds(j, n)

ApplyStale(k) ==
    /\ SomeAdmin
    /\ change[k].state \in {"pending", "approved"}
    /\ ToldStale(k)
    /\ Cardinality(marking) < MaxMarking
    /\ LET n == change[k].target IN
       draft' = IF Binds(k, n) /\ draft[n].state = "reviewable" /\ ~BaseCurrent(n)
                THEN [draft EXCEPT ![n].state = "stale"] ELSE draft
    /\ marking' = marking \cup {<<k, change[k].state>>}
    /\ UNCHANGED <<head, revision, binds, change, member>>

\* Fault: whatever has become of it since.
MarksAnyway(m) == TRUE

\* The proposal must be as apply_draft had read it.
AsRead(m) == change[m[1]].state = m[2]

MarkChangeStale(m) ==
    /\ m \in marking
    /\ SomeAdmin
    /\ AsRead(m)
    /\ marking' = marking \ {m}
    /\ change' = [change EXCEPT ![m[1]].state = "stale"]
    /\ UNCHANGED <<head, revision, binds, draft, member>>

-----------------------------------------------------------------------------
(* What happens around them                                                *)

Lapsed == {k \in Changes : change[k] # NoChange /\ change[k].late}
Moved == {m \in Admins \X (1..MaxUpsets) : m[2] < member[m[1]].revision}
Upsets == Cardinality(Lapsed) + Cardinality(Moved)

\* Thirty minutes for a proposal, fifteen for its decision.
Late(k) ==
    /\ change[k].state \in {"pending", "approved"} /\ ~change[k].late
    /\ Upsets < MaxUpsets
    /\ change' = [change EXCEPT ![k].late = TRUE]
    /\ UNCHANGED <<head, revision, binds, draft, marking, member>>

\* A request that was to mark a proposal dies, or is refused.
Forget(m) ==
    /\ m \in marking
    /\ marking' = marking \ {m}
    /\ UNCHANGED <<head, revision, binds, draft, change, member>>

\* A membership is revised, revoked or restored.
MoveMember(a, active) ==
    /\ Upsets < MaxUpsets
    /\ member' = [member EXCEPT ![a] = [active |-> active, revision |-> @.revision + 1]]
    /\ UNCHANGED <<head, revision, binds, draft, change, marking>>

Next ==
    \/ \E n \in Drafts :
         \/ ReviewDraft(n) \/ CancelDraft(n) \/ FindStale(n)
         \/ \E content \in Edits : UpdateDraft(n, content)
         \/ \E ks \in SUBSET Changes : Confirm(n, ks)
    \/ \E a \in Admins :
         \/ \E n \in Drafts : CreateDraft(a, n)
         \/ \E n \in Drafts, k \in Changes : ProposeDraft(a, k, n)
         \/ \E k \in Changes, choice \in {"approved", "rejected"} : Decide(a, k, choice)
         \/ \E active \in BOOLEAN : MoveMember(a, active)
    \/ \E k \in Changes : Expire(k) \/ ApplyStale(k) \/ Late(k)
    \/ \E m \in marking : MarkChangeStale(m) \/ Forget(m)

Spec == Init /\ [][Next]_vars

-----------------------------------------------------------------------------
(* What the change authority promises                                      *)

\* Two current administrators agreed on what the section is made to contain,
\* and their approval is used up.
AgreedOn(s) ==
    \E k \in Changes :
        /\ change[k].state = "approved" /\ change'[k].state = "applied"
        /\ change[k].content[s] = head'[s]
        /\ \E a, b \in Admins :
             /\ a # b /\ change[k].proposer = a /\ change[k].approver = b
             /\ member[a] = [active |-> TRUE, revision |-> change[k].proposerRevision]
             /\ member[b] = [active |-> TRUE, revision |-> change[k].approverRevision]

\* What mandate and policy say changes only as two administrators, who still
\* are what they were, agreed (_authorize_draft_confirmation), however often
\* the draft was edited, proposed and approved before.
AuthorityAgreed ==
    [][\A s \in {"mandate", "policy"} :
         Compared(s, head'[s]) # Compared(s, head[s]) => AgreedOn(s)]_vars

Confirmed == {n \in Drafts : draft[n].state = "confirmed"}

\* docs/p5/acceptance.md: "Two drafts from the same complete base can yield at
\* most one success", so that the active sections together are what one draft
\* proposed, one revision after its base, and the policy is that of the mandate.
OneSnapshot ==
    /\ \A m, n \in Confirmed : draft[m].base = draft[n].base => m = n
    /\ revision["policy"] # 0 => binds = revision["mandate"]
    /\ Confirmed = {} \/ \E n \in Confirmed :
         /\ head = draft[n].content
         /\ \A s \in Sections : revision[s] \in {draft[n].base[s], draft[n].base[s] + 1}

AppliedTo(n) == {k \in Changes : change[k].state = "applied" /\ change[k].target = n}

\* A proposal is applied exactly when its draft is confirmed with it, as it was
\* proposed, whatever other proposals for the draft and late answers there are
\* (_consume_change_rows, mark_change_proposal_stale).
AppliedTogether ==
    /\ \A n \in Drafts : \A k \in AppliedTo(n) : n \in Confirmed /\ Binds(k, n)
    /\ \A n \in Confirmed :
         Cardinality(AppliedTo(n)) = IF NeedsApproval(n) THEN 1 ELSE 0
=============================================================================
