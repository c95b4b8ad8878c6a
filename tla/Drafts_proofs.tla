---------------------------- MODULE Drafts_proofs ----------------------------
(***************************************************************************)
(* Proofs about Drafts for any administrators, any number of drafts and    *)
(* proposals, any contents and any of what a diff sees of them.            *)
(***************************************************************************)
EXTENDS Drafts, FiniteSetTheorems, TLAPS

\* Only the policy may be missing, and it is as long as it has no revision.
HeadsExist == \A s \in Sections :
    /\ head[s] = None <=> revision[s] = 0
    /\ head[s] = None => s = "policy"

\* No draft is based on a revision still to come, and the base of a confirmed
\* one is past.
BasesArePast == \A n \in Drafts : draft[n] # NoDraft =>
    /\ \A s \in Sections : draft[n].base[s] <= revision[s]
    /\ draft[n].state = "confirmed" => draft[n].base # revision

\* What an open draft of the current base shows and names is still so.
WrittenForHead == \A n \in Drafts : Open(n) /\ BaseCurrent(n) =>
    /\ draft[n].shows = Shown(draft[n].content)
    /\ draft[n].names = Names(draft[n].content)

\* Administrators approve.
Deciders == \A k \in Changes : change[k].state = "approved" => change[k].approver \in Admins

IInv ==
    /\ TypeOK
    /\ HeadsExist
    /\ BasesArePast
    /\ WrittenForHead
    /\ Deciders
    /\ IsFiniteSet(Moved)
    /\ OneSnapshot
    /\ AppliedTogether

-----------------------------------------------------------------------------
(* Rows                                                                    *)

\* What is not absent has the fields of its kind.
LEMMA RowsHaveFields ==
    ASSUME TypeOK
    PROVE  /\ \A n \in Drafts : draft[n] # NoDraft => draft[n] \in DraftRow
           /\ \A n \in Drafts : draft[n].state # "absent" => draft[n] \in DraftRow
           /\ \A k \in Changes : change[k] # NoChange => change[k] \in ChangeRow
           /\ \A k \in Changes : change[k].state # "absent" => change[k] \in ChangeRow
<1>. NoDraft.state = "absent" /\ NoChange.state = "absent"
  BY DEF NoDraft, NoChange
<1>. QED  BY DEF TypeOK

LEMMA RowsAreThere ==
    /\ \A row \in DraftRow : row # NoDraft /\ row.state \in DraftStates
    /\ \A row \in ChangeRow : row # NoChange /\ row.state \in ChangeStates
<1>1. \A row \in DraftRow : row.state \in DraftStates
  BY DEF DraftRow
<1>2. \A row \in ChangeRow : row.state \in ChangeStates
  BY DEF ChangeRow
<1>3. NoDraft.state \notin DraftStates /\ NoChange.state \notin ChangeStates
  BY DEF NoDraft, NoChange, DraftStates, ChangeStates
<1>. QED  BY <1>1, <1>2, <1>3

\* What the invariant says at first.
LEMMA Initialised == Init => IInv
<1>. SUFFICES ASSUME Init PROVE IInv
  OBVIOUS
<1>1. /\ Initially \in [Sections -> Contents] /\ None \notin Contents
      /\ MaxUpsets \in Nat /\ MaxEdits \in Nat
  BY ParametersAssumption
<1>2. /\ head \in [Sections -> Contents \cup {None}]
      /\ \A s \in Sections : head[s] = None => s = "policy"
  BY <1>1 DEF Init, Sections
<1>3. \A s \in Sections : revision[s] = IF head[s] = None THEN 0 ELSE 1
  BY DEF Init
<1>4. TypeOK
  <2>1. revision \in [Sections -> Nat] /\ binds \in Nat
    BY <1>3 DEF Init, Sections
  <2>2. \A a \in Admins : member[a] \in MemberRow
    BY <1>1 DEF Init, MemberRow
  <2>3. member \in [Admins -> MemberRow]
    BY <2>2 DEF Init
  <2>. QED  BY <1>2, <2>1, <2>3 DEF Init, TypeOK
<1>5. HeadsExist
  BY <1>2, <1>3 DEF HeadsExist
<1>6. BasesArePast /\ WrittenForHead /\ Deciders
  BY DEF Init, BasesArePast, WrittenForHead, Deciders, Open, NoDraft, NoChange
<1>7. IsFiniteSet(Moved)
  <2>1. Moved = {}
    BY <1>1 DEF Init, Moved
  <2>. QED  BY <2>1, FS_EmptySet
<1>8. Confirmed = {} /\ \A n : AppliedTo(n) = {}
  BY DEF Init, Confirmed, AppliedTo, NoDraft, NoChange
<1>9. OneSnapshot
  <2>1. revision["policy"] # 0 => binds = revision["mandate"]
    BY <1>2, <1>3 DEF Init, Sections
  <2>. QED  BY <1>8, <2>1 DEF OneSnapshot
<1>10. AppliedTogether
  BY <1>8 DEF AppliedTogether
<1>. QED  BY <1>4, <1>5, <1>6, <1>7, <1>9, <1>10 DEF IInv

-----------------------------------------------------------------------------
(* Frames: what a step on one row keeps                                    *)

\* A draft that is not confirmed becomes another that is not, over the same
\* base or the current one; if it can still be confirmed it is written for head.
LEMMA DraftMoves ==
    ASSUME IInv, NEW n \in Drafts, NEW new \in DraftRow,
           draft' = [draft EXCEPT ![n] = new],
           UNCHANGED <<head, revision, binds, change, member>>,
           marking' \subseteq Changes \X {"pending", "approved"},
           draft[n].state # "confirmed", new.state # "confirmed",
           \A s \in Sections : new.base[s] <= revision[s],
           new.state \in {"draft", "reviewable"} /\ new.base = revision =>
             new.shows = Shown(new.content) /\ new.names = Names(new.content)
    PROVE  IInv'
<1>1. TypeOK /\ \A m \in Drafts : draft'[m] = IF m = n THEN new ELSE draft[m]
  BY DEF IInv, TypeOK
<1>2. TypeOK'
  BY <1>1 DEF TypeOK
<1>3. HeadsExist' /\ Deciders' /\ IsFiniteSet(Moved)'
  BY DEF IInv, HeadsExist, Deciders, Moved
<1>4. BasesArePast'
  BY <1>1 DEF IInv, BasesArePast
<1>5. \A c : Shown(c)' = Shown(c) /\ Names(c)' = Names(c)
  BY DEF Shown, Compared, Names
<1>6. WrittenForHead'
  BY <1>1, <1>5 DEF IInv, WrittenForHead, Open, BaseCurrent
<1>7. Confirmed' = Confirmed /\ n \notin Confirmed
  BY <1>1 DEF Confirmed
<1>8. \A m \in Confirmed : draft'[m] = draft[m]
  BY <1>1, <1>7 DEF Confirmed
<1>9. OneSnapshot'
  <2>1. OneSnapshot
    BY DEF IInv
  <2>2. \A m, o \in Confirmed' : draft'[m].base = draft'[o].base => m = o
    BY <1>7, <1>8, <2>1 DEF OneSnapshot
  <2>3. Confirmed' = {} \/ \E m \in Confirmed' :
           /\ head' = draft'[m].content
           /\ \A s \in Sections : revision'[s] \in {draft'[m].base[s], draft'[m].base[s] + 1}
    BY <1>7, <1>8, <2>1 DEF OneSnapshot
  <2>. QED  BY <2>1, <2>2, <2>3 DEF OneSnapshot
<1>10. AppliedTogether'
  <2>1. AppliedTogether /\ \A m : AppliedTo(m)' = AppliedTo(m)
    BY DEF IInv, AppliedTo
  <2>2. \A m \in Drafts : \A k \in AppliedTo(m)' : m \in Confirmed' /\ Binds(k, m)'
    BY <1>7, <1>8, <2>1 DEF AppliedTogether, Binds
  <2>3. \A m \in Confirmed' : NeedsApproval(m)' = NeedsApproval(m)
    BY <1>7, <1>8 DEF NeedsApproval
  <2>4. \A m \in Confirmed' :
          Cardinality(AppliedTo(m))' = IF NeedsApproval(m)' THEN 1 ELSE 0
    BY <1>7, <2>1, <2>3 DEF AppliedTogether
  <2>. QED  BY <2>2, <2>4 DEF AppliedTogether
<1>. QED  BY <1>2, <1>3, <1>4, <1>6, <1>9, <1>10 DEF IInv

\* A proposal that is not applied becomes another that is not.
LEMMA ChangeMoves ==
    ASSUME IInv, NEW k \in Changes, NEW new \in ChangeRow,
           change' = [change EXCEPT ![k] = new],
           UNCHANGED <<head, revision, binds, draft, member>>,
           marking' \subseteq Changes \X {"pending", "approved"},
           change[k].state # "applied", new.state # "applied",
           new.state = "approved" => new.approver \in Admins
    PROVE  IInv'
<1>1. TypeOK /\ \A j \in Changes : change'[j] = IF j = k THEN new ELSE change[j]
  BY DEF IInv, TypeOK
<1>2. TypeOK'
  BY <1>1 DEF TypeOK
<1>3. HeadsExist' /\ BasesArePast' /\ IsFiniteSet(Moved)'
  BY DEF IInv, HeadsExist, BasesArePast, Moved
<1>4. WrittenForHead'
  BY DEF IInv, WrittenForHead, Open, BaseCurrent, Shown, Compared, Names
<1>5. Deciders'
  BY <1>1 DEF IInv, Deciders
<1>6. Confirmed' = Confirmed
  BY DEF Confirmed
<1>7. OneSnapshot'
  BY <1>6 DEF IInv, OneSnapshot
<1>8. AppliedTogether'
  <2>1. \A m : AppliedTo(m)' = AppliedTo(m)
    BY <1>1 DEF AppliedTo
  <2>2. \A m : \A j \in AppliedTo(m) : change'[j] = change[j]
    BY <1>1 DEF AppliedTo
  <2>3. AppliedTogether /\ \A m : NeedsApproval(m)' = NeedsApproval(m)
    BY DEF IInv, NeedsApproval
  <2>4. \A m \in Drafts : \A j \in AppliedTo(m)' : m \in Confirmed' /\ Binds(j, m)'
    BY <1>6, <2>1, <2>2, <2>3 DEF AppliedTogether, Binds
  <2>5. \A m \in Confirmed' :
          Cardinality(AppliedTo(m))' = IF NeedsApproval(m)' THEN 1 ELSE 0
    BY <1>6, <2>1, <2>3 DEF AppliedTogether
  <2>. QED  BY <2>4, <2>5 DEF AppliedTogether
<1>. QED  BY <1>2, <1>3, <1>4, <1>5, <1>7, <1>8 DEF IInv

\* Only memberships and the requests under way move.
LEMMA OthersMove ==
    ASSUME IInv, UNCHANGED <<head, revision, binds, draft, change>>,
           marking' \subseteq Changes \X {"pending", "approved"},
           member' \in [Admins -> MemberRow], IsFiniteSet(Moved)'
    PROVE  IInv'
<1>1. TypeOK' /\ HeadsExist' /\ BasesArePast' /\ Deciders'
  BY DEF IInv, TypeOK, HeadsExist, BasesArePast, Deciders
<1>2. WrittenForHead'
  BY DEF IInv, WrittenForHead, Open, BaseCurrent, Shown, Compared, Names
<1>3. OneSnapshot'
  BY DEF IInv, OneSnapshot, Confirmed
<1>4. AppliedTogether'
  <2>1. AppliedTogether /\ Confirmed' = Confirmed
    BY DEF IInv, Confirmed
  <2>2. \A m : AppliedTo(m)' = AppliedTo(m) /\ NeedsApproval(m)' = NeedsApproval(m)
    BY DEF AppliedTo, NeedsApproval
  <2>3. \A j, m : Binds(j, m)' = Binds(j, m)
    BY DEF Binds
  <2>. QED  BY <2>1, <2>2, <2>3 DEF AppliedTogether
<1>. QED  BY <1>1, <1>2, <1>3, <1>4 DEF IInv

-----------------------------------------------------------------------------
(* Drafts                                                                  *)

\* The policy names the active mandate's revision, as long as there is one.
LEMMA PolicyOfMandate ==
    ASSUME IInv, head["policy"] # None PROVE binds = revision["mandate"]
<1>1. revision["policy"] # 0
  BY DEF IInv, HeadsExist, Sections
<1>. QED  BY <1>1 DEF IInv, OneSnapshot

\* A new draft is written for what is active.
LEMMA UntouchedContent ==
    ASSUME IInv
    PROVE  /\ Untouched \in [Sections -> Contents]
           /\ Names(Untouched) = IF head["policy"] = None THEN revision["mandate"] ELSE binds
<1>1. Initially \in [Sections -> Contents] /\ head \in [Sections -> Contents \cup {None}]
  BY ParametersAssumption DEF IInv, TypeOK
<1>2. head["mandate"] # None
  BY DEF IInv, HeadsExist, Sections
<1>3. Untouched["mandate"] = head["mandate"]
  BY <1>2 DEF Untouched, Sections
<1>. QED  BY <1>1, <1>3, PolicyOfMandate DEF Untouched, Names

LEMMA CreateDraftStep ==
    ASSUME IInv, NEW a \in Admins, NEW n \in Drafts, CreateDraft(a, n) PROVE IInv'
<1>. DEFINE names == IF head["policy"] = None THEN revision["mandate"] ELSE binds
            new == [state |-> "draft", revision |-> 1, base |-> revision,
                    content |-> Untouched, shows |-> Shown(Untouched), names |-> names,
                    author |-> a, authority |-> member[a].revision]
<1>1. TypeOK
  BY DEF IInv
<1>2. /\ draft[n] = NoDraft /\ draft' = [draft EXCEPT ![n] = new]
      /\ UNCHANGED <<head, revision, binds, change, marking, member>>
  BY DEF CreateDraft
<1>3. revision \in [Sections -> Nat] /\ names \in Nat /\ Shown(Untouched) \in SUBSET Sections
  BY <1>1 DEF TypeOK, Shown, Sections
<1>4. member[a].revision \in Nat /\ 1 \in 1..MaxEdits + 1
  BY <1>1, ParametersAssumption DEF TypeOK, MemberRow
<1>5. names = Names(Untouched) /\ Untouched \in [Sections -> Contents]
  BY UntouchedContent
<1>. HIDE DEF names
<1>6. new \in DraftRow /\ new.state = "draft" /\ new.base = revision
      /\ new.content = Untouched /\ new.shows = Shown(Untouched) /\ new.names = names
  BY <1>3, <1>4, <1>5 DEF DraftRow, DraftStates
<1>7. \A s \in Sections : new.base[s] <= revision[s]
  BY <1>3, <1>6
<1>8. draft[n].state # "confirmed"
  BY <1>2 DEF NoDraft
<1>9. marking' \subseteq Changes \X {"pending", "approved"}
  BY <1>1, <1>2 DEF TypeOK
<1>. HIDE DEF new
<1>. QED  BY <1>2, <1>5, <1>6, <1>7, <1>8, <1>9, DraftMoves

\* An edit of the current base is written for what is active.
LEMMA UpdateDraftStep ==
    ASSUME IInv, NEW n \in Drafts, NEW content \in Edits, UpdateDraft(n, content) PROVE IInv'
<1>. DEFINE new == Edited(n, content)
            up == draft[n].revision + 1
            shows == Shown(content)
            names == Names(content)
<1>1. TypeOK /\ Open(n) /\ draft[n] \in DraftRow /\ content \in [Sections -> Contents]
  BY RowsHaveFields, ParametersAssumption DEF IInv, UpdateDraft, MayUpdate, Open
<1>2. /\ draft[n].base = revision /\ draft[n].revision <= MaxEdits
      /\ draft' = [draft EXCEPT ![n] = new]
      /\ UNCHANGED <<head, revision, binds, change, marking, member>>
  BY DEF UpdateDraft, BaseCurrent
<1>3. up \in 1..MaxEdits + 1 /\ shows \in SUBSET Sections /\ names \in Nat
  <2>1. draft[n].revision \in 1..MaxEdits + 1 /\ MaxEdits \in Nat
    BY <1>1, ParametersAssumption DEF DraftRow
  <2>2. revision["mandate"] \in Nat
    BY <1>1 DEF TypeOK, Sections
  <2>. QED  BY <1>2, <2>1, <2>2 DEF Shown, Names
<1>4. new = [draft[n] EXCEPT !.state = "draft", !.revision = up, !.content = content,
                             !.shows = shows, !.names = names]
  BY DEF Edited
<1>. HIDE DEF new, up, shows, names
<1>5. new \in DraftRow /\ new.state = "draft" /\ new.base = draft[n].base
      /\ new.content = content /\ new.shows = shows /\ new.names = names
  BY <1>1, <1>3, <1>4 DEF DraftRow, DraftStates
<1>6. \A s \in Sections : new.base[s] <= revision[s]
  BY <1>1, <1>2, <1>5 DEF TypeOK
<1>7. new.shows = Shown(new.content) /\ new.names = Names(new.content)
  BY <1>5 DEF shows, names
<1>8. draft[n].state # "confirmed" /\ marking' \subseteq Changes \X {"pending", "approved"}
  BY <1>1, <1>2 DEF Open, TypeOK
<1>. QED  BY <1>2, <1>5, <1>6, <1>7, <1>8, DraftMoves

\* An open draft is reviewed or closed without being confirmed.
LEMMA DraftTransition ==
    ASSUME IInv, NEW n \in Drafts, Open(n), NEW st \in {"reviewable", "cancelled", "stale"},
           draft' = [draft EXCEPT ![n].state = st],
           UNCHANGED <<head, revision, binds, change, member>>,
           marking' \subseteq Changes \X {"pending", "approved"}
    PROVE  IInv'
<1>. DEFINE new == [draft[n] EXCEPT !.state = st]
<1>1. draft[n] \in DraftRow
  BY RowsHaveFields DEF IInv, Open
<1>2. new \in DraftRow /\ new.state = st /\ new.base = draft[n].base
      /\ new.content = draft[n].content /\ new.shows = draft[n].shows
      /\ new.names = draft[n].names
  BY <1>1 DEF DraftRow, DraftStates
<1>3. draft' = [draft EXCEPT ![n] = new]
  OBVIOUS
<1>. HIDE DEF new
<1>4. \A s \in Sections : new.base[s] <= revision[s]
  BY <1>1, <1>2, RowsAreThere DEF IInv, BasesArePast
<1>5. new.base = revision => new.shows = Shown(new.content) /\ new.names = Names(new.content)
  BY <1>2 DEF IInv, WrittenForHead, BaseCurrent
<1>6. draft[n].state # "confirmed" /\ new.state # "confirmed"
  BY <1>2 DEF Open
<1>. QED  BY <1>2, <1>3, <1>4, <1>5, <1>6, DraftMoves

LEMMA CloseOrReviewStep ==
    ASSUME IInv, NEW n \in Drafts, ReviewDraft(n) \/ CancelDraft(n) \/ FindStale(n) PROVE IInv'
<1>1. Open(n) /\ UNCHANGED <<head, revision, binds, change, marking, member>>
  BY DEF ReviewDraft, CancelDraft, FindStale, Open
<1>2. marking' \subseteq Changes \X {"pending", "approved"}
  BY <1>1 DEF IInv, TypeOK
<1>3. \E st \in {"reviewable", "cancelled", "stale"} : draft' = [draft EXCEPT ![n].state = st]
  BY DEF ReviewDraft, CancelDraft, FindStale
<1>. QED  BY <1>1, <1>2, <1>3, DraftTransition

-----------------------------------------------------------------------------
(* Change proposals                                                        *)

LEMMA ProposeDraftStep ==
    ASSUME IInv, NEW a \in Admins, NEW k \in Changes, NEW n \in Drafts, ProposeDraft(a, k, n)
    PROVE  IInv'
<1>. DEFINE new == [state |-> "pending", target |-> n, revision |-> draft[n].revision,
                    content |-> draft[n].content,
                    proposer |-> a, proposerRevision |-> member[a].revision,
                    approver |-> None, approverRevision |-> 0, late |-> FALSE]
<1>1. TypeOK /\ draft[n] \in DraftRow
  BY RowsHaveFields DEF IInv, ProposeDraft
<1>2. /\ change[k] = NoChange /\ change' = [change EXCEPT ![k] = new]
      /\ UNCHANGED <<head, revision, binds, draft, marking, member>>
  BY DEF ProposeDraft
<1>3. draft[n].revision \in 1..MaxEdits + 1 /\ draft[n].content \in [Sections -> Contents]
  BY <1>1 DEF DraftRow
<1>4. member[a].revision \in Nat
  BY <1>1, ParametersAssumption DEF TypeOK, MemberRow
<1>5. new \in ChangeRow /\ new.state = "pending"
  BY <1>3, <1>4 DEF ChangeRow, ChangeStates
<1>6. change[k].state # "applied" /\ marking' \subseteq Changes \X {"pending", "approved"}
  BY <1>1, <1>2 DEF NoChange, TypeOK
<1>. HIDE DEF new
<1>. QED  BY <1>2, <1>5, <1>6, ChangeMoves

LEMMA DecideStep ==
    ASSUME IInv, NEW a \in Admins, NEW k \in Changes, NEW choice \in {"approved", "rejected"},
           Decide(a, k, choice)
    PROVE  IInv'
<1>. DEFINE by == member[a].revision
            new == [change[k] EXCEPT !.state = choice, !.approver = a, !.approverRevision = by]
<1>1. TypeOK /\ change[k] \in ChangeRow /\ change[k].state = "pending"
  BY RowsHaveFields DEF IInv, Decide
<1>2. by \in Nat
  BY <1>1, ParametersAssumption DEF TypeOK, MemberRow
<1>3. change' = [change EXCEPT ![k] = new]
  BY DEF Decide
<1>. HIDE DEF by
<1>4. new \in ChangeRow /\ new.state = choice /\ new.approver = a
  BY <1>1, <1>2 DEF ChangeRow, ChangeStates
<1>5. /\ UNCHANGED <<head, revision, binds, draft, member>>
      /\ marking' \subseteq Changes \X {"pending", "approved"}
  BY <1>1 DEF TypeOK, Decide
<1>. HIDE DEF new
<1>. QED  BY <1>1, <1>3, <1>4, <1>5, ChangeMoves

\* A proposal is closed without being applied.
LEMMA ChangeTransition ==
    ASSUME IInv, NEW k \in Changes, change[k].state \in {"pending", "approved"},
           NEW st \in {"expired", "stale"}, change' = [change EXCEPT ![k].state = st],
           UNCHANGED <<head, revision, binds, draft, member>>,
           marking' \subseteq Changes \X {"pending", "approved"}
    PROVE  IInv'
<1>. DEFINE new == [change[k] EXCEPT !.state = st]
<1>1. change[k] \in ChangeRow
  BY RowsHaveFields DEF IInv
<1>2. new \in ChangeRow /\ new.state = st
  BY <1>1 DEF ChangeRow, ChangeStates
<1>3. change' = [change EXCEPT ![k] = new]
  OBVIOUS
<1>. HIDE DEF new
<1>. QED  BY <1>2, <1>3, ChangeMoves

LEMMA ExpireStep == ASSUME IInv, NEW k \in Changes, Expire(k) PROVE IInv'
BY ChangeTransition DEF Expire, IInv, TypeOK

\* What was read of a proposal to be marked, pending or approved, it still is.
LEMMA MarkChangeStaleStep == ASSUME IInv, NEW m \in marking, MarkChangeStale(m) PROVE IInv'
<1>1. m[1] \in Changes /\ m[2] \in {"pending", "approved"}
  BY DEF IInv, TypeOK
<1>2. change[m[1]].state \in {"pending", "approved"}
  BY <1>1 DEF MarkChangeStale, AsRead
<1>3. /\ change' = [change EXCEPT ![m[1]].state = "stale"]
      /\ UNCHANGED <<head, revision, binds, draft, member>>
      /\ marking' \subseteq Changes \X {"pending", "approved"}
  BY DEF MarkChangeStale, IInv, TypeOK
<1>. QED  BY <1>1, <1>2, <1>3, ChangeTransition

LEMMA LateStep == ASSUME IInv, NEW k \in Changes, Late(k) PROVE IInv'
<1>. DEFINE new == [change[k] EXCEPT !.late = TRUE]
<1>1. TypeOK /\ change[k] \in ChangeRow /\ change[k].state \in {"pending", "approved"}
  BY RowsHaveFields DEF IInv, Late
<1>2. new \in ChangeRow /\ new.state = change[k].state /\ new.approver = change[k].approver
  BY <1>1 DEF ChangeRow
<1>3. change' = [change EXCEPT ![k] = new]
  BY DEF Late
<1>4. /\ UNCHANGED <<head, revision, binds, draft, member>>
      /\ marking' \subseteq Changes \X {"pending", "approved"}
  BY <1>1 DEF TypeOK, Late
<1>5. new.state = "approved" => new.approver \in Admins
  BY <1>2 DEF IInv, Deciders
<1>. HIDE DEF new
<1>. QED  BY <1>1, <1>2, <1>3, <1>4, <1>5, ChangeMoves

LEMMA ApplyStaleStep == ASSUME IInv, NEW k \in Changes, ApplyStale(k) PROVE IInv'
<1>. DEFINE n == change[k].target
<1>1. TypeOK /\ change[k] \in ChangeRow /\ n \in Drafts
  BY RowsHaveFields DEF IInv, ApplyStale, ChangeRow
<1>2. /\ UNCHANGED <<head, revision, binds, change, member>>
      /\ marking' \subseteq Changes \X {"pending", "approved"}
  BY <1>1 DEF TypeOK, ApplyStale
<1>3. CASE Binds(k, n) /\ draft[n].state = "reviewable" /\ ~BaseCurrent(n)
  <2>1. draft' = [draft EXCEPT ![n].state = "stale"] /\ Open(n)
    BY <1>3 DEF ApplyStale, Open
  <2>. QED  BY <1>1, <1>2, <2>1, DraftTransition
<1>4. CASE ~(Binds(k, n) /\ draft[n].state = "reviewable" /\ ~BaseCurrent(n))
  <2>1. draft' = draft
    BY <1>4 DEF ApplyStale
  <2>2. member' \in [Admins -> MemberRow] /\ IsFiniteSet(Moved)'
    BY <1>1, <1>2 DEF IInv, TypeOK, Moved
  <2>. QED  BY <1>2, <2>1, <2>2, OthersMove
<1>. QED  BY <1>3, <1>4

LEMMA ForgetStep == ASSUME IInv, (\E m \in marking : Forget(m)) \/ UNCHANGED vars PROVE IInv'
<1>1. /\ UNCHANGED <<head, revision, binds, draft, change, member>>
      /\ marking' \subseteq Changes \X {"pending", "approved"}
  BY DEF Forget, vars, IInv, TypeOK
<1>2. member' \in [Admins -> MemberRow] /\ IsFiniteSet(Moved)'
  BY <1>1 DEF IInv, TypeOK, Moved
<1>. QED  BY <1>1, <1>2, OthersMove

\* A membership moves once for each element of Moved that is its own.
LEMMA MovesAreBounded ==
    ASSUME IInv, NEW a \in Admins, Upsets < MaxUpsets PROVE member[a].revision <= MaxUpsets
<1>. SUFFICES ASSUME member[a].revision > MaxUpsets PROVE FALSE
  BY ParametersAssumption DEF IInv, TypeOK, MemberRow
<1>1. {a} \X (1..MaxUpsets) \subseteq Moved
  BY ParametersAssumption DEF Moved, IInv, TypeOK, MemberRow
<1>2. IsFiniteSet(1..MaxUpsets) /\ Cardinality(1..MaxUpsets) = MaxUpsets
  BY FS_Interval, ParametersAssumption
<1>3. IsFiniteSet({a}) /\ Cardinality({a}) = 1
  BY FS_Singleton
<1>4. Cardinality({a} \X (1..MaxUpsets)) = MaxUpsets
  <2>1. Cardinality({a} \X (1..MaxUpsets)) = Cardinality({a}) * Cardinality(1..MaxUpsets)
    BY <1>2, <1>3, FS_Product
  <2>. QED  BY <1>2, <1>3, <2>1, ParametersAssumption
<1>5. Cardinality({a} \X (1..MaxUpsets)) <= Cardinality(Moved)
  BY <1>1, FS_Subset DEF IInv
<1>6. Cardinality(Moved) \in Nat
  BY FS_CardinalityType DEF IInv
<1>7. Cardinality(Lapsed) \in Nat
  <2>1. Lapsed \subseteq Changes /\ IsFiniteSet(Changes)
    BY FS_Interval, ParametersAssumption DEF Lapsed, Changes
  <2>. QED  BY <2>1, FS_Subset, FS_CardinalityType
<1>. QED  BY <1>4, <1>5, <1>6, <1>7, ParametersAssumption DEF Upsets

LEMMA MoveMemberStep ==
    ASSUME IInv, NEW a \in Admins, NEW active \in BOOLEAN, MoveMember(a, active) PROVE IInv'
<1>. DEFINE r == member[a].revision
            new == [active |-> active, revision |-> r + 1]
<1>1. TypeOK /\ r \in 1..MaxUpsets /\ MaxUpsets \in Nat
  BY MovesAreBounded, ParametersAssumption DEF IInv, TypeOK, MemberRow, MoveMember
<1>2. member' = [member EXCEPT ![a] = new]
  BY DEF MoveMember
<1>3. UNCHANGED <<head, revision, binds, draft, change, marking>>
  BY DEF MoveMember
<1>4. new \in MemberRow /\ new.revision = r + 1
  BY <1>1 DEF MemberRow
<1>. HIDE DEF new
<1>5. member' \in [Admins -> MemberRow]
  BY <1>1, <1>2, <1>4 DEF TypeOK
<1>6. \A b \in Admins : member'[b] = IF b = a THEN new ELSE member[b]
  BY <1>1, <1>2 DEF TypeOK
<1>7. \A b \in Admins : member[b].revision \in 1..MaxUpsets + 1
  BY <1>1 DEF TypeOK, MemberRow
<1>8. Moved' = Moved \cup {<<a, r>>}
  <2>1. ASSUME NEW b \in Admins, NEW i \in 1..MaxUpsets
        PROVE  i < member'[b].revision <=> i < member[b].revision \/ (b = a /\ i = r)
    BY <1>1, <1>4, <1>6, <1>7
  <2>. QED  BY <1>1, <2>1 DEF Moved
<1>9. IsFiniteSet(Moved)'
  BY <1>8, FS_AddElement DEF IInv
<1>10. marking' \subseteq Changes \X {"pending", "approved"}
  BY <1>1, <1>3 DEF TypeOK
<1>. QED  BY <1>3, <1>5, <1>9, <1>10, OthersMove

-----------------------------------------------------------------------------
(* Confirmation                                                            *)

\* What is confirmed is afterwards active as a whole: what the draft leaves as it
\* is was so when it was written, since its base is current.
LEMMA ConfirmEffect ==
    ASSUME IInv, NEW n \in Drafts, NEW ks \in SUBSET Changes, Confirm(n, ks)
    PROVE  /\ draft[n] \in DraftRow /\ draft[n].state = "reviewable" /\ draft[n].base = revision
           /\ draft[n].shows = Shown(draft[n].content)
           /\ draft' = [draft EXCEPT ![n].state = "confirmed"]
           /\ head' = draft[n].content
           /\ revision' \in [Sections -> Nat]
           /\ \A s \in Sections : revision'[s] \in {revision[s], revision[s] + 1}
           /\ \A s \in Sections : s \notin Changed(n) => revision'[s] = revision[s]
           /\ \A s \in Sections : revision'[s] = 0 => revision[s] = 0 /\ head[s] = draft[n].content[s]
           /\ \E s \in Sections : revision'[s] = revision[s] + 1
           /\ binds' = revision'["mandate"]
<1>1. TypeOK /\ draft[n] \in DraftRow /\ draft[n].state = "reviewable"
  BY RowsHaveFields DEF IInv, Confirm, Applicable
<1>2. draft[n].base = revision
  BY DEF Confirm, Applicable, BaseCurrent
<1>3. draft[n].shows = Shown(draft[n].content) /\ draft[n].names = Names(draft[n].content)
  BY <1>1, <1>2 DEF IInv, WrittenForHead, Open, BaseCurrent
<1>4. draft' = [draft EXCEPT ![n].state = "confirmed"]
  BY DEF Confirm
<1>5. \A s \in Sections : s \notin Changed(n) => head[s] = draft[n].content[s]
  BY DEF Changed
<1>6. head' = draft[n].content
  <2>1. head' = [s \in Sections |-> IF s \in Changed(n) THEN draft[n].content[s] ELSE head[s]]
    BY DEF Confirm
  <2>2. draft[n].content \in [Sections -> Contents]
    BY <1>1 DEF DraftRow
  <2>. QED  BY <1>5, <2>1, <2>2
<1>7. \A s \in Sections : revision[s] \in Nat
  BY <1>1 DEF TypeOK
<1>8. revision' = [s \in Sections |-> IF s \in Changed(n) THEN revision[s] + 1 ELSE revision[s]]
  BY DEF Confirm
<1>9. Changed(n) # {} /\ Changed(n) \subseteq Sections
  BY DEF Confirm, Applicable, Changed
<1>10. /\ revision' \in [Sections -> Nat]
       /\ \A s \in Sections : revision'[s] = IF s \in Changed(n) THEN revision[s] + 1
                                             ELSE revision[s]
  BY <1>7, <1>8
<1>11. binds' = revision'["mandate"]
  <2>1. CASE "policy" \in Changed(n)
    BY <2>1 DEF Confirm, NamedAfter
  <2>2. CASE "policy" \notin Changed(n)
    <3>1. binds' = binds
      BY <2>2 DEF Confirm, NamedAfter
    <3>2. draft[n].content["policy"] = head["policy"] /\ draft[n].names = binds
      BY <2>2 DEF Changed, Sections
    <3>3. head["policy"] # None
      BY <1>1, <3>2, ParametersAssumption DEF DraftRow, Sections
    <3>4. binds = revision["mandate"]
      BY <3>3, PolicyOfMandate
    <3>5. draft[n].content["mandate"] = head["mandate"]
      BY <1>3, <1>7, <3>2, <3>4 DEF Names, Sections
    <3>6. "mandate" \notin Changed(n)
      BY <3>5 DEF Changed
    <3>. QED  BY <1>10, <3>1, <3>4, <3>6 DEF Sections
  <2>. QED  BY <2>1, <2>2
<1>. QED  BY <1>1, <1>2, <1>3, <1>4, <1>5, <1>6, <1>7, <1>9, <1>10, <1>11

\* The proposals that are used up: none, or one that binds the draft.
LEMMA ConsumeEffect ==
    ASSUME IInv, NEW n \in Drafts, NEW ks \in SUBSET Changes, Confirm(n, ks)
    PROVE  /\ change' \in [Changes -> {NoChange} \cup ChangeRow]
           /\ \A k \in Changes : k \notin ks => change'[k] = change[k]
           /\ \A k \in ks : Binds(k, n) /\ Approved(k) /\ change[k] \in ChangeRow
           /\ \A k \in ks : change'[k].state = "applied" /\ change'[k].target = change[k].target
                            /\ change'[k].revision = change[k].revision
                            /\ change'[k].content = change[k].content
           /\ IF NeedsApproval(n) THEN \E k \in Changes : ks = {k} ELSE ks = {}
<1>1. IF NeedsApproval(n) THEN \E k \in Changes : ks = {k} /\ Approved(k) /\ Binds(k, n)
      ELSE ks = {}
  BY DEF Confirm
<1>2. change' = [k \in Changes |-> IF k \in ks THEN [change[k] EXCEPT !.state = "applied"]
                                   ELSE change[k]]
  BY DEF Confirm, Consume
<1>3. \A k \in ks : Binds(k, n) /\ Approved(k)
  BY <1>1
<1>4. \A k \in ks : change[k] \in ChangeRow
  BY <1>3, RowsHaveFields DEF IInv, Approved
<1>5. \A row \in ChangeRow : [row EXCEPT !.state = "applied"] \in ChangeRow
  BY DEF ChangeRow, ChangeStates
<1>6. change' \in [Changes -> {NoChange} \cup ChangeRow]
  BY <1>2, <1>4, <1>5 DEF IInv, TypeOK
<1>7. \A row \in ChangeRow : LET new == [row EXCEPT !.state = "applied"] IN
        /\ new.state = "applied" /\ new.target = row.target
        /\ new.revision = row.revision /\ new.content = row.content
  BY DEF ChangeRow
<1>8. \A k \in ks : change'[k] = [change[k] EXCEPT !.state = "applied"]
  BY <1>2
<1>9. \A k \in Changes : k \notin ks => change'[k] = change[k]
  BY <1>2
<1>10. ASSUME NEW k \in ks
       PROVE  change'[k].state = "applied" /\ change'[k].target = change[k].target
              /\ change'[k].revision = change[k].revision
              /\ change'[k].content = change[k].content
  <2>1. change[k] \in ChangeRow /\ change'[k] = [change[k] EXCEPT !.state = "applied"]
    BY <1>4, <1>8
  <2>. QED  BY <1>7, <2>1, Zenon
<1>. QED  BY <1>1, <1>3, <1>4, <1>6, <1>9, <1>10

LEMMA ConfirmStep ==
    ASSUME IInv, NEW n \in Drafts, NEW ks \in SUBSET Changes, Confirm(n, ks) PROVE IInv'
<1>. DEFINE new == [draft[n] EXCEPT !.state = "confirmed"]
<1>1. TypeOK /\ draft[n] \in DraftRow /\ draft[n].state = "reviewable"
  BY ConfirmEffect DEF IInv
<1>2. new \in DraftRow /\ new.state = "confirmed" /\ new.base = draft[n].base
      /\ new.content = draft[n].content /\ new.shows = draft[n].shows
      /\ new.revision = draft[n].revision
  BY <1>1 DEF DraftRow, DraftStates
<1>3. draft' = [draft EXCEPT ![n] = new]
  BY ConfirmEffect
<1>4. UNCHANGED <<marking, member>>
  BY DEF Confirm
<1>. HIDE DEF new
<1>5. \A m \in Drafts : draft'[m] = IF m = n THEN new ELSE draft[m]
  BY <1>1, <1>3 DEF TypeOK
<1>6. \A s \in Sections : revision[s] \in Nat /\ revision'[s] \in {revision[s], revision[s] + 1}
  BY <1>1, ConfirmEffect DEF TypeOK
<1>7. PICK grown \in Sections : revision'[grown] = revision[grown] + 1
  BY ConfirmEffect
<1>8. TypeOK'
  <2>1. head' \in [Sections -> Contents \cup {None}] /\ binds' \in Nat
    BY <1>1, ConfirmEffect DEF DraftRow, Sections
  <2>2. draft' \in [Drafts -> {NoDraft} \cup DraftRow]
    BY <1>1, <1>2, <1>3 DEF TypeOK
  <2>. QED  BY <1>1, <1>4, <2>1, <2>2, ConfirmEffect, ConsumeEffect DEF TypeOK
<1>9. HeadsExist'
  <2>1. \A s \in Sections : head'[s] # None
    BY <1>1, ConfirmEffect, ParametersAssumption DEF DraftRow
  <2>2. \A s \in Sections : revision'[s] # 0
    <3>. SUFFICES ASSUME NEW s \in Sections, revision'[s] = 0 PROVE FALSE
      OBVIOUS
    <3>1. revision[s] = 0 /\ head[s] = head'[s]
      BY ConfirmEffect
    <3>. QED  BY <2>1, <3>1 DEF IInv, HeadsExist
  <2>. QED  BY <2>1, <2>2 DEF HeadsExist
<1>10. \A m \in Drafts : draft'[m] # NoDraft =>
         /\ \A s \in Sections : draft'[m].base[s] <= revision[s]
         /\ \A s \in Sections : draft'[m].base[s] \in Nat
  <2>1. ASSUME NEW m \in Drafts, draft[m] # NoDraft
        PROVE  \A s \in Sections : draft[m].base[s] <= revision[s] /\ draft[m].base[s] \in Nat
    BY <1>1, <2>1, RowsHaveFields DEF IInv, BasesArePast, DraftRow
  <2>. QED  BY <1>1, <1>2, <1>5, <2>1, RowsAreThere
<1>11. \A m \in Drafts : draft'[m] # NoDraft => draft'[m].base # revision'
  BY <1>6, <1>7, <1>10
<1>12. BasesArePast'
  BY <1>6, <1>10, <1>11 DEF BasesArePast
<1>13. WrittenForHead'
  BY <1>11 DEF WrittenForHead, Open, BaseCurrent, NoDraft
<1>14. Deciders' /\ IsFiniteSet(Moved)'
  <2>1. \A k \in Changes : change'[k].state = "approved" => change'[k] = change[k]
    BY ConsumeEffect
  <2>. QED  BY <1>4, <2>1 DEF IInv, Deciders, Moved
<1>15. Confirmed' = Confirmed \cup {n} /\ n \notin Confirmed
  BY <1>1, <1>2, <1>5 DEF Confirmed
<1>16. OneSnapshot'
  <2>1. \A m \in Confirmed : draft[m].base # revision /\ draft'[m] = draft[m] /\ m \in Drafts
    BY <1>5, <1>15 DEF IInv, BasesArePast, Confirmed, NoDraft
  <2>2. draft'[n].base = revision /\ draft'[n].content = head'
    BY <1>2, <1>5, ConfirmEffect
  <2>3. \A m, o \in Confirmed' : draft'[m].base = draft'[o].base => m = o
    <3>1. \A m, o \in Confirmed : draft[m].base = draft[o].base => m = o
      BY DEF IInv, OneSnapshot
    <3>. QED  BY <1>15, <2>1, <2>2, <3>1
  <2>4. \E m \in Confirmed' :
          /\ head' = draft'[m].content
          /\ \A s \in Sections : revision'[s] \in {draft'[m].base[s], draft'[m].base[s] + 1}
    BY <1>6, <1>15, <2>2
  <2>5. revision'["policy"] # 0 => binds' = revision'["mandate"]
    BY ConfirmEffect
  <2>. QED  BY <2>3, <2>4, <2>5 DEF OneSnapshot
<1>17. AppliedTogether'
  <2>1. AppliedTogether
    BY DEF IInv
  <2>2. AppliedTo(n) = {}
    BY <1>15, <2>1 DEF AppliedTogether
  <2>3. \A k \in ks : change'[k].state = "applied" /\ change'[k].target = n
                      /\ change'[k].revision = draft[n].revision
                      /\ change'[k].content = draft[n].content
    BY ConsumeEffect DEF Binds
  <2>4. AppliedTo(n)' = ks
    <3>1. \A k \in Changes \ ks : ~(change'[k].state = "applied" /\ change'[k].target = n)
      BY <2>2, ConsumeEffect DEF AppliedTo
    <3>. QED  BY <2>3, <3>1 DEF AppliedTo
  <2>5. \A m : m # n => AppliedTo(m)' = AppliedTo(m)
    <3>1. \A k \in ks : change[k].target = n
      BY ConsumeEffect DEF Binds
    <3>. QED  BY <2>3, <3>1, ConsumeEffect DEF AppliedTo
  <2>6. \A m \in Drafts : \A k \in AppliedTo(m)' : m \in Confirmed' /\ Binds(k, m)'
    <3>1. \A k \in AppliedTo(n)' : Binds(k, n)'
      BY <1>2, <1>5, <2>3, <2>4 DEF Binds
    <3>2. \A m : \A k \in AppliedTo(m) : m # n => change'[k] = change[k]
      BY ConsumeEffect DEF AppliedTo, Binds
    <3>3. ASSUME NEW m \in Drafts, m # n, NEW k \in AppliedTo(m)
          PROVE  m \in Confirmed /\ Binds(k, m)'
      <4>1. m \in Confirmed /\ Binds(k, m)
        BY <2>1 DEF AppliedTogether
      <4>. QED  BY <1>5, <3>2, <3>3, <4>1 DEF Binds
    <3>. QED  BY <1>15, <2>5, <3>1, <3>3
  <2>7. \A m \in Confirmed' : NeedsApproval(m)' = NeedsApproval(m)
    BY <1>2, <1>5, <1>15 DEF NeedsApproval, Confirmed
  <2>8. Cardinality(AppliedTo(n))' = IF NeedsApproval(n) THEN 1 ELSE 0
    <3>1. IF NeedsApproval(n) THEN \E k \in Changes : ks = {k} ELSE ks = {}
      BY ConsumeEffect
    <3>2. Cardinality(ks) = IF NeedsApproval(n) THEN 1 ELSE 0
      BY <3>1, FS_EmptySet, FS_Singleton
    <3>. QED  BY <2>4, <3>2
  <2>9. \A m \in Confirmed' :
          Cardinality(AppliedTo(m))' = IF NeedsApproval(m)' THEN 1 ELSE 0
    BY <1>15, <2>1, <2>5, <2>7, <2>8 DEF AppliedTogether
  <2>. QED  BY <2>6, <2>9 DEF AppliedTogether
<1>. QED  BY <1>8, <1>9, <1>12, <1>13, <1>14, <1>16, <1>17 DEF IInv

-----------------------------------------------------------------------------
(* What always holds                                                       *)

LEMMA Step == IInv /\ [Next]_vars => IInv'
<1>. SUFFICES ASSUME IInv, [Next]_vars PROVE IInv'
  OBVIOUS
<1>1. ASSUME NEW n \in Drafts,
             \/ ReviewDraft(n) \/ CancelDraft(n) \/ FindStale(n)
             \/ \E content \in Edits : UpdateDraft(n, content)
             \/ \E ks \in SUBSET Changes : Confirm(n, ks)
      PROVE  IInv'
  BY <1>1, CloseOrReviewStep, UpdateDraftStep, ConfirmStep
<1>2. ASSUME NEW a \in Admins,
             \/ \E n \in Drafts : CreateDraft(a, n)
             \/ \E n \in Drafts, k \in Changes : ProposeDraft(a, k, n)
             \/ \E k \in Changes, choice \in {"approved", "rejected"} : Decide(a, k, choice)
             \/ \E active \in BOOLEAN : MoveMember(a, active)
      PROVE  IInv'
  BY <1>2, CreateDraftStep, ProposeDraftStep, DecideStep, MoveMemberStep
<1>3. ASSUME NEW k \in Changes, Expire(k) \/ ApplyStale(k) \/ Late(k) PROVE IInv'
  BY <1>3, ExpireStep, ApplyStaleStep, LateStep
<1>4. ASSUME NEW m \in marking, MarkChangeStale(m) \/ Forget(m) PROVE IInv'
  BY <1>4, MarkChangeStaleStep, ForgetStep
<1>5. CASE UNCHANGED vars
  BY <1>5, ForgetStep
<1>. QED  BY <1>1, <1>2, <1>3, <1>4, <1>5 DEF Next

THEOREM Invariance == Spec => []IInv
BY Initialised, Step, PTL DEF Spec

\* TypeOK: drafts, proposals and memberships have the states and fields of the
\* tables, what is drafted always has all three sections, and no deadline or
\* membership moves beyond its bound.
THEOREM TypeCorrect == Spec => []TypeOK
<1>1. IInv => TypeOK
  BY DEF IInv
<1>. QED  BY <1>1, Invariance, PTL

\* OneSnapshot (confirm_draft): of any number of drafts of one base one is
\* confirmed, and profile, mandate and policy are together what one of them said.
THEOREM ConfirmedAsAWhole == Spec => []OneSnapshot
<1>1. IInv => OneSnapshot
  BY DEF IInv
<1>. QED  BY <1>1, Invariance, PTL

\* AppliedTogether (_consume_change_rows): whatever proposals there are for a draft
\* and whatever is marked late, exactly the one it needs is used up with it.
THEOREM UsedUpTogether == Spec => []AppliedTogether
<1>1. IInv => AppliedTogether
  BY DEF IInv
<1>. QED  BY <1>1, Invariance, PTL

\* A confirmation that changes what a mandate or a policy says shows it, and so
\* needs an approval.
LEMMA ConfirmationIsAgreed ==
    ASSUME IInv, NEW n \in Drafts, NEW ks \in SUBSET Changes, Confirm(n, ks),
           NEW s \in {"mandate", "policy"}, Compared(s, head'[s]) # Compared(s, head[s])
    PROVE  AgreedOn(s)
<1>1. s \in draft[n].shows
  BY ConfirmEffect DEF Shown, Sections
<1>2. NeedsApproval(n)
  BY <1>1 DEF NeedsApproval
<1>3. PICK k \in Changes : ks = {k}
  BY <1>2, ConsumeEffect
<1>4. Binds(k, n) /\ Approved(k) /\ change[k] \in ChangeRow /\ change'[k].state = "applied"
  BY <1>3, ConsumeEffect
<1>5. change[k].state = "approved" /\ change[k].content[s] = head'[s]
  BY <1>4, ConfirmEffect DEF Binds, Approved
<1>6. change[k].proposer \in Admins /\ change[k].approver \in Admins
  BY <1>4, <1>5 DEF ChangeRow, IInv, Deciders
<1>7. \A a \in Admins : member[a] = [active |-> member[a].active, revision |-> member[a].revision]
                        /\ member[a].active \in BOOLEAN
  BY DEF IInv, TypeOK, MemberRow
<1>8. /\ change[k].proposer # change[k].approver
      /\ member[change[k].proposer].active
      /\ member[change[k].proposer].revision = change[k].proposerRevision
      /\ member[change[k].approver].active
      /\ member[change[k].approver].revision = change[k].approverRevision
  BY <1>4 DEF Approved, Admin
<1>9. /\ member[change[k].proposer] = [active |-> TRUE, revision |-> change[k].proposerRevision]
      /\ member[change[k].approver] = [active |-> TRUE, revision |-> change[k].approverRevision]
  BY <1>6, <1>7, <1>8
<1>. QED  BY <1>4, <1>5, <1>6, <1>8, <1>9 DEF AgreedOn

\* AuthorityAgreed (_authorize_draft_confirmation): however often a draft was
\* edited, proposed and approved before, and whoever of any number of
\* administrators came and went, what mandate and policy say changes as two who
\* are current agreed.
THEOREM AgreementOfTwo == Spec => AuthorityAgreed
<1>1. ASSUME IInv, [Next]_vars, NEW s \in {"mandate", "policy"},
             Compared(s, head'[s]) # Compared(s, head[s])
      PROVE  AgreedOn(s)
  <2>1. head' # head
    BY <1>1
  <2>2. \E n \in Drafts, ks \in SUBSET Changes : Confirm(n, ks)
    BY <1>1, <2>1 DEF Next, vars, ReviewDraft, CancelDraft, FindStale, UpdateDraft, CreateDraft,
       ProposeDraft, Decide, MoveMember, Expire, ApplyStale, Late, MarkChangeStale, Forget
  <2>. QED  BY <1>1, <2>2, ConfirmationIsAgreed
<1>2. IInv /\ [Next]_vars =>
        [\A s \in {"mandate", "policy"} :
           Compared(s, head'[s]) # Compared(s, head[s]) => AgreedOn(s)]_vars
  BY <1>1
<1>. QED  BY <1>2, Invariance, PTL DEF Spec, AuthorityAgreed
=============================================================================
