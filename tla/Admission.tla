------------------------------ MODULE Admission ------------------------------
(***************************************************************************)
(* Whether a submitted trigger may wake the colleague, under a policy that *)
(* is revised meanwhile, and whether the wake may end in a proposal.       *)
(*                                                                         *)
(* submit_trigger reads the policy, admits the trigger in one transaction, *)
(* which charges the wake budget, and ingests it in another; a caller may  *)
(* die between them and submit the same key again, also as the other kind  *)
(* of trigger.  Refusals may stop the colleague; only a confirmed revision *)
(* of the policy that asks for it resumes.  The intelligence adapter is    *)
(* asked between two looks at the policy, and the decision is committed    *)
(* after a third.                                                          *)
(***************************************************************************)
EXTENDS Naturals, FiniteSets

CONSTANTS
    Keys,          \* idempotency keys of submissions
    Kinds,         \* of trigger: event and timer
    MaxOccurrences,\* bound: different submissions
    Policies,      \* contents a policy revision may have
    NumBuckets,    \* bound: budget periods
    MaxRevision,   \* bound: policy revisions
    Callers,       \* requests in progress
    Workers,       \* wakes in progress
    Drafts         \* places for open policy drafts

Occurrences == Keys \X Kinds     \* submissions: the key is shared, the outcome is not
Buckets == 1..NumBuckets
Stops == {"budget", "failure", "terminal"}

\* A policy's content: the kinds of trigger it lets in (none when proactivity
\* is disabled), its wake budget, the conditions it stops and escalates on, what
\* it does outside working hours, and the run state it asks for.
Contents == [allowed : SUBSET Kinds, limit : Nat, stops : SUBSET Stops,
             escalates : SUBSET {"failure", "blocked"},
             outside : {"refuse", "stop"}, state : {"active", "stopped"}]

ASSUME ParametersAssumption ==
    /\ Policies \subseteq Contents
    /\ NumBuckets \in Nat \ {0}
    /\ {MaxRevision, MaxOccurrences} \subseteq Nat

VARIABLES
    bucket,     \* the current budget period
    revision,   \* of the active policy; 0 before the first confirmation
    policy,     \* its content
    run,        \* p5_run_states row
    outcome,    \* pre-wake policy outcomes
    charged,    \* wake-budget consumptions: by key, to a revision and a bucket
    counter,    \* wake-budget counters
    bound,      \* ingested triggers, and the policy revision they carry
    caller, worker, draft,
    decided, proposals,
    asked,      \* history: drafts that asked, during this stop, to resume
    outrun      \* history: wakes whose policy was revised while the model thought

vars == <<bucket, revision, policy, run, outcome, charged, counter, bound,
          caller, worker, draft, decided, proposals, asked, outrun>>

ungoverned == <<bucket, revision, policy, run, draft, asked>>
admission == <<outcome, charged, counter>>
wakes == <<worker, decided, proposals, outrun>>

Never == MaxRevision + 1     \* bound[o] of a trigger not ingested
NoPolicy == [allowed |-> Kinds, limit |-> 0, stops |-> {}, escalates |-> {},
             outside |-> "none", state |-> "active"]
Idle == [pc |-> "idle"]
Closed == [state |-> "closed"]

CallerRow == [pc : {"admit", "ingest"}, occurrence : Occurrences, revision : 0..MaxRevision]
WorkerRow == [pc : {"model", "answered", "commit"}, occurrence : Occurrences]
DraftRow == [state : {"open"}, content : Policies, base : 0..MaxRevision, resume : BOOLEAN]
RunState == [state : {"none", "active", "stopped"},
             reason : {"none", "admin", "outside"} \cup Stops]

TypeOK ==
    /\ bucket \in Buckets
    /\ revision \in 0..MaxRevision
    /\ policy \in Policies \cup {NoPolicy}
    /\ run \in RunState
    /\ outcome \in [Occurrences -> {"none", "allowed", "refused"}]
    /\ charged \subseteq [key : Keys, revision : 1..MaxRevision, bucket : Buckets]
    /\ counter \in [(1..MaxRevision) \X Buckets -> Nat]
    /\ bound \in [Occurrences -> 0..Never]
    /\ caller \in [Callers -> {Idle} \cup CallerRow]
    /\ worker \in [Workers -> {Idle} \cup WorkerRow]
    /\ draft \in [Drafts -> {Closed} \cup DraftRow]
    /\ decided \subseteq Occurrences
    /\ proposals \subseteq Occurrences \X (0..MaxRevision)
    /\ asked \subseteq Drafts
    /\ outrun \subseteq Workers

Init ==
    /\ bucket = 1
    /\ revision = 0
    /\ policy = NoPolicy
    /\ run = [state |-> "none", reason |-> "none"]
    /\ outcome = [o \in Occurrences |-> "none"]
    /\ charged = {}
    /\ counter = [r \in (1..MaxRevision) \X Buckets |-> 0]
    /\ bound = [o \in Occurrences |-> Never]
    /\ caller = [c \in Callers |-> Idle]
    /\ worker = [w \in Workers |-> Idle]
    /\ draft = [d \in Drafts |-> Closed]
    /\ decided = {}
    /\ proposals = {}
    /\ asked = {}
    /\ outrun = {}

-----------------------------------------------------------------------------
(* Submission                                                              *)

\* The policy is read outside any transaction.  Without one the trigger is
\* ingested ungoverned.
Submit(c, o) ==
    /\ caller[c] = Idle
    /\ Cardinality({u \in Occurrences \ {o} : outcome[u] # "none" \/ bound[u] # Never})
         < MaxOccurrences
    /\ caller' = [caller EXCEPT ![c] = [pc |-> IF revision = 0 THEN "ingest" ELSE "admit",
                                        occurrence |-> o, revision |-> revision]]
    /\ UNCHANGED <<ungoverned, admission, bound, wakes>>

Stopped == run.state = "stopped" \/ (revision > 0 /\ policy.state = "stopped")

\* Circumstances of a submission: within working hours or not, deterministic
\* failures at the policy's limit, the work finished or blocked.
Circumstances == {"normal", "outside", "failure", "terminal", "blocked"}

StopsOn(cause) == \/ cause = "outside" /\ policy.outside = "stop"
                  \/ cause \in policy.stops
RefusesOn(cause) == cause = "outside" \/ cause \in policy.stops \/ cause \in policy.escalates

\* Fault: only the occurrence itself is a duplicate.
NotChargedAsSuch(key) == TRUE

NotCharged(key) == \A x \in charged : x.key # key

\* Fault: the limit is reached one too late.
BudgetNearlyLeft == counter[<<revision, bucket>>] <= policy.limit

BudgetLeft == counter[<<revision, bucket>>] < policy.limit

\* Fault: the outcome is recorded in place of the reason that a resume looks for.
StoppingUnnamed(reason) == run' = [state |-> "stopped", reason |-> "refused"]

Stopping(reason) == run' = [state |-> "stopped", reason |-> reason]

Refuse(c, o) ==
    /\ outcome' = [outcome EXCEPT ![o] = "refused"]
    /\ caller' = [caller EXCEPT ![c] = Idle]
    /\ UNCHANGED <<charged, counter>>

\* A replay returns what was recorded, whatever the policy is by now.
AdmitReplay(c) ==
    LET o == caller[c].occurrence IN
    /\ caller[c].pc = "admit"
    /\ outcome[o] # "none"
    /\ caller' = [caller EXCEPT ![c] = IF outcome[o] = "allowed" THEN [@ EXCEPT !.pc = "ingest"]
                                                               ELSE Idle]
    /\ UNCHANGED <<ungoverned, admission, bound, wakes>>

AdmitRefused(c) ==
    LET o == caller[c].occurrence IN
    /\ caller[c].pc = "admit"
    /\ outcome[o] = "none"
    /\ \/ /\ caller[c].revision # revision \/ Stopped \/ o[2] \notin policy.allowed
          /\ UNCHANGED run
       \/ /\ caller[c].revision = revision /\ ~Stopped /\ o[2] \in policy.allowed
          /\ \E cause \in Circumstances :
               \/ /\ RefusesOn(cause)
                  /\ IF StopsOn(cause) THEN Stopping(cause) ELSE UNCHANGED run
               \/ /\ ~RefusesOn(cause) /\ ~NotCharged(o[1])
                  /\ UNCHANGED run
               \/ /\ ~RefusesOn(cause) /\ NotCharged(o[1]) /\ ~BudgetLeft
                  /\ IF "budget" \in policy.stops THEN Stopping("budget")
                     ELSE UNCHANGED run
    /\ Refuse(c, o)
    /\ UNCHANGED <<bucket, revision, policy, draft, asked, bound, wakes>>

AdmitAllowed(c) ==
    LET o == caller[c].occurrence IN
    /\ caller[c].pc = "admit"
    /\ outcome[o] = "none"
    /\ caller[c].revision = revision /\ ~Stopped /\ o[2] \in policy.allowed
    /\ \E cause \in Circumstances : ~RefusesOn(cause)
    /\ NotCharged(o[1]) /\ BudgetLeft
    /\ counter' = [counter EXCEPT ![<<revision, bucket>>] = @ + 1]
    /\ charged' = charged \cup {[key |-> o[1], revision |-> revision, bucket |-> bucket]}
    /\ outcome' = [outcome EXCEPT ![o] = "allowed"]
    /\ caller' = [caller EXCEPT ![c].pc = "ingest"]
    /\ UNCHANGED <<ungoverned, bound, wakes>>

\* The trigger carries the revision the caller read.  Ingesting it again
\* returns it, or refuses a drifted replay.
Ingest(c) ==
    LET o == caller[c].occurrence IN
    /\ caller[c].pc = "ingest"
    /\ bound' = IF bound[o] = Never THEN [bound EXCEPT ![o] = caller[c].revision] ELSE bound
    /\ caller' = [caller EXCEPT ![c] = Idle]
    /\ UNCHANGED <<ungoverned, admission, wakes>>

CrashCaller(c) ==
    /\ caller[c] # Idle
    /\ caller' = [caller EXCEPT ![c] = Idle]
    /\ UNCHANGED <<ungoverned, admission, bound, wakes>>

-----------------------------------------------------------------------------
(* The wake                                                                *)

\* Fault: whatever policy is active will do.
InForceAny(o) == TRUE

\* The policy the wake was bound to is still the active one.
InForce(o) == bound[o] = revision

\* Agenda claims keep two workers off one wake (module Wake).  Refused before
\* the model, the decision is a no-op.
Wake(w, o) ==
    /\ worker[w] = Idle
    /\ bound[o] # Never /\ o \notin decided
    /\ \A v \in Workers : worker[v] # Idle => worker[v].occurrence # o
    /\ IF InForce(o) /\ run.state # "stopped"
       THEN /\ worker' = [worker EXCEPT ![w] = [pc |-> "model", occurrence |-> o]]
            /\ UNCHANGED decided
       ELSE /\ decided' = decided \cup {o}
            /\ UNCHANGED worker
    /\ outrun' = outrun \ {w}
    /\ UNCHANGED <<ungoverned, admission, bound, caller, proposals>>

GoOn(w, pc) == worker' = [worker EXCEPT ![w].pc = pc] /\ UNCHANGED decided

\* The model made no proposal, or the policy refuses it or suppresses it.
NoProposal(w) ==
    /\ worker' = [worker EXCEPT ![w] = Idle]
    /\ decided' = decided \cup {worker[w].occurrence}

\* After the model the policy is read again, unless there was none before ...
Answer(w) ==
    LET o == worker[w].occurrence IN
    /\ worker[w].pc = "model"
    /\ \/ bound[o] = 0 /\ GoOn(w, "commit")
       \/ bound[o] # 0 /\ InForce(o) /\ GoOn(w, "answered")
       \/ NoProposal(w)
    /\ UNCHANGED <<ungoverned, admission, bound, caller, proposals, outrun>>

\* ... and then, in a query of its own, the run state.
Revalidate(w) ==
    /\ worker[w].pc = "answered"
    /\ \/ run.state # "stopped" /\ GoOn(w, "commit")
       \/ NoProposal(w)
    /\ UNCHANGED <<ungoverned, admission, bound, caller, proposals, outrun>>

\* Fault: the commit trusts the look after the model.
PersistsUnchecked == TRUE

Persists == ~Stopped

\* The commit looks at the run state once more, not at the revision.
CommitProposal(w) ==
    LET o == worker[w].occurrence IN
    /\ worker[w].pc = "commit"
    /\ proposals' = IF Persists THEN proposals \cup {<<o, bound[o]>>} ELSE proposals
    /\ decided' = decided \cup {o}
    /\ worker' = [worker EXCEPT ![w] = Idle]
    /\ UNCHANGED <<ungoverned, admission, bound, caller, outrun>>

CrashWorker(w) ==
    /\ worker[w] # Idle
    /\ worker' = [worker EXCEPT ![w] = Idle]
    /\ UNCHANGED <<ungoverned, admission, bound, caller, decided, proposals, outrun>>

-----------------------------------------------------------------------------
(* Policy revisions                                                        *)

\* A draft is prepared against the active revision; it may ask to resume only
\* while the colleague is stopped.
Prepare(d, p, resume) ==
    /\ draft[d] = Closed
    /\ revision < MaxRevision
    /\ p # policy
    /\ resume => run.state = "stopped" /\ p.state = "active"
    /\ draft' = [draft EXCEPT ![d] = [state |-> "open", content |-> p, base |-> revision,
                                      resume |-> resume]]
    /\ asked' = IF resume THEN asked \cup {d} ELSE asked
    /\ UNCHANGED <<bucket, revision, policy, run, admission, bound, caller, wakes>>

\* What a revision changes that lifts the stop.
LiftsStop(old, new) ==
    \/ old.state = "stopped" /\ new.state = "active"
    \/ /\ new.state = "active"
       /\ \/ run.reason = "budget" /\ \/ "budget" \in old.stops \ new.stops
                                      \/ new.limit > old.limit
          \/ run.reason = "outside" /\ new.outside # "stop"
          \/ run.reason = "failure" /\ "failure" \in old.stops \ new.stops
          \/ run.reason = "terminal" /\ "terminal" \in old.stops \ new.stops

\* Fault: a draft prepared against an earlier revision is confirmed.
BaseUnchecked(d) == TRUE

BaseCurrent(d) == draft[d].base = revision

\* Fault: any revision lifts a stop that it does not ask for itself.
RunAfterAny(d) ==
    LET new == draft[d].content IN
    IF new.state = "stopped" THEN [state |-> "stopped", reason |-> "admin"]
    ELSE [state |-> "active", reason |-> "none"]

\* The run state after a revision: a stop stays, with its reason, unless the
\* draft asks to resume.
RunAfter(d) ==
    LET new == draft[d].content IN
    IF run.state = "stopped"
    THEN IF draft[d].resume THEN [state |-> "active", reason |-> "none"] ELSE run
    ELSE IF new.state = "stopped" THEN [state |-> "stopped", reason |-> "admin"]
    ELSE [state |-> "active", reason |-> "none"]

Confirm(d) ==
    /\ draft[d] # Closed
    /\ BaseCurrent(d)
    /\ revision < MaxRevision
    /\ run.state = "stopped" /\ draft[d].resume => LiftsStop(policy, draft[d].content)
    /\ revision' = revision + 1
    /\ policy' = draft[d].content
    /\ run' = RunAfter(d)
    /\ asked' = IF run'.state = "stopped" THEN asked \ {d} ELSE {}
    /\ outrun' = outrun \cup {w \in Workers : worker[w].pc = "model"}
    /\ draft' = [draft EXCEPT ![d] = Closed]
    /\ UNCHANGED <<bucket, admission, bound, caller, worker, decided, proposals>>

\* A draft whose base has moved is marked, and of no more use.
ConfirmStale(d) ==
    /\ draft[d] # Closed
    /\ ~BaseCurrent(d)
    /\ draft' = [draft EXCEPT ![d] = Closed]
    /\ asked' = asked \ {d}
    /\ UNCHANGED <<bucket, revision, policy, run, admission, bound, caller, wakes>>

NextBucket ==
    /\ bucket < NumBuckets
    /\ bucket' = bucket + 1
    /\ UNCHANGED <<revision, policy, run, draft, asked, admission, bound, caller, wakes>>

Next ==
    \/ \E c \in Callers :
         \/ \E o \in Occurrences : Submit(c, o)
         \/ AdmitReplay(c) \/ AdmitRefused(c) \/ AdmitAllowed(c)
         \/ Ingest(c) \/ CrashCaller(c)
    \/ \E w \in Workers :
         \/ \E o \in Occurrences : Wake(w, o)
         \/ Answer(w) \/ Revalidate(w) \/ CommitProposal(w) \/ CrashWorker(w)
    \/ \E d \in Drafts :
         \/ \E p \in Policies, resume \in BOOLEAN : Prepare(d, p, resume)
         \/ Confirm(d) \/ ConfirmStale(d)
    \/ NextBucket

Spec == Init /\ [][Next]_vars

-----------------------------------------------------------------------------
(* What admission promises                                                 *)

\* The counters of a revision are the consumptions charged to it, and those of
\* the active policy are within its limit in every period (admit_trigger).
BudgetHolds ==
    /\ \A r \in 1..MaxRevision, b \in Buckets :
         counter[<<r, b>>] = Cardinality({x \in charged : x.revision = r /\ x.bucket = b})
    /\ revision > 0 => \A b \in Buckets : counter[<<revision, b>>] <= policy.limit

\* docs/p5: "count a unique accepted trigger occurrence at most once across
\* restarts and duplicate delivery, regardless of Event/Timer class": a governed
\* trigger was charged once, and not for the other kind as well.  (Of two requests
\* with one key, the later may be charged to the revision it read and the earlier
\* ingest under the one before.)
ChargedOnce ==
    /\ \A x, y \in charged : x.key = y.key => x = y
    /\ \A o \in Occurrences : bound[o] \in 1..MaxRevision =>
         /\ \E x \in charged : x.key = o[1]
         /\ \A u \in Occurrences : u[1] = o[1] /\ bound[u] \in 1..MaxRevision => u = o

\* docs/p5: "Nothing resumes implicitly": a stop ends only with the confirmation
\* of a draft that asked, during this very stop, to end it.
NothingResumesImplicitly ==
    [][run.state = "stopped" /\ run'.state = "active" =>
         revision' # revision /\ \E d \in asked : draft'[d] = Closed]_vars

\* docs/p5: "A durable stopped state rejects new wakes and proposals", and "Policy
\* is revalidated after model output but before proposal persistence": a stop that
\* comes while the model is thinking, or after it has answered, leaves no proposal,
\* and lifting it before the answer does not bring the proposal back, although the
\* colleague is active again: the revision that resumed it has overtaken the wake.
ProposesFor(w) == worker[w] # Idle /\ \E x \in proposals' \ proposals : x[1] = worker[w].occurrence
NoOvertakenProposal ==
    [][\A w \in Workers : ProposesFor(w) =>
         /\ run.state # "stopped"
         /\ w \in outrun => bound[worker[w].occurrence] = 0]_vars

\* docs/p5: "Restart, duplicate event, alternate trigger class, or replay cannot
\* evade the budget".  Wakes of the active revision stay within its limit.
WakesWithinBudget ==
    revision > 0 =>
      Cardinality({o \in Occurrences : bound[o] = revision}) <= policy.limit * NumBuckets
=============================================================================
