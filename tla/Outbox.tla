------------------------------- MODULE Outbox -------------------------------
(***************************************************************************)
(* From a proposed effect to its durable outcome.                          *)
(*                                                                         *)
(* A human decides a proposal; an approval inserts the first EffectAttempt *)
(* and the outbox row in one transaction.  Worker processes claim the row  *)
(* under a lease and a fencing token, revalidate the approval, mark the    *)
(* attempt started, call the external channel, and finalise.  An uncertain *)
(* call is parked as ambiguous and asked about later; only a call known    *)
(* not to have executed is tried again.                                    *)
(*                                                                         *)
(* Every store method is one BEGIN IMMEDIATE transaction, hence one        *)
(* action; what a worker read before a transaction lives in worker[w] and  *)
(* is lost by a crash.  The clock starts at 1, so that 0 stands for the    *)
(* NULL lease_until: both satisfy "lease_until IS NULL OR lease_until <    *)
(* now".  Every local process claims under the same lease_owner, so the    *)
(* owner tells nothing apart and is left out.                              *)
(***************************************************************************)
EXTENDS Naturals

CONSTANTS
    Proposals,          \* effect proposals of one namespace
    NoRow,              \* "this worker holds no claim"
    Workers,            \* processes that may call process_once
    Headless,           \* those of them that run the local worker loop
    MaximumAttempts,    \* proposal.constraints.maximum_attempts
    ReconciliationCap,  \* _RECONCILIATION_MAX_CALLS (8 in the code)
    LeaseDuration,      \* 30 seconds in the code
    ApprovalValidity,   \* 15 minutes in the code
    ProposalValidity,   \* 1 hour in the code
    Backoff,            \* base reconciliation delay (2 seconds)
    BackoffCap,         \* its ceiling (30 seconds)
    RecoversExpired,    \* does anything call DispatchService.recover_expired?
    SlowWorkers,        \* workers that may outlast their lease or miss a poll
    MaxTime,            \* bound: the clock stops here
    MaxRestarts,        \* restart: on-failure:3
    MaxMandate,         \* bound: mandate revisions
    MaxCrashes          \* bound: crashes

ASSUME ProposalsAssumption == NoRow \notin Proposals
ASSUME WorkersAssumption == Headless \subseteq Workers /\ SlowWorkers \subseteq Workers
ASSUME NumbersAssumption ==
    /\ MaximumAttempts \in Nat \ {0}
    /\ ReconciliationCap \in Nat \ {0}
    /\ LeaseDuration \in Nat \ {0}
    /\ ApprovalValidity \in Nat \ {0}
    /\ ProposalValidity \in Nat \ {0}
    /\ Backoff \in Nat
    /\ BackoffCap \in Nat
    /\ MaxTime \in Nat \ {0}
    /\ MaxMandate \in Nat \ {0}
    /\ MaxRestarts \in Nat
    /\ MaxCrashes \in Nat
ASSUME SwitchAssumption == RecoversExpired \in BOOLEAN

VARIABLES
    now,         \* the clock every process reads
    mandate,     \* current mandate revision
    revisedAt,   \* when each mandate revision took effect
    proposal,    \* effect_proposal records; mandate 0 stands for "no record"
    decision,    \* human_approval records
    attempt,     \* effect_attempt records: state of attempt n of proposal p
    outbox,      \* outbox rows
    worker,      \* volatile: what each process is in the middle of
    fate,        \* external: what became of the request of attempt n
    executions,  \* external: how often the effect was carried out
    crashes      \* how often each process has ended

durable == <<mandate, revisedAt, proposal, decision, attempt, outbox>>
external == <<fate, executions>>
vars == <<now, durable, worker, external, crashes>>

Attempts == 1..MaximumAttempts

AttemptStates == {"none", "planned", "started", "succeeded", "failed", "ambiguous"}
RowStates == {"absent", "pending", "retry", "claimed", "dispatching",
              "ambiguous", "ambiguous_claimed", "completed", "terminal_failed"}
Fates == {"none", "inflight", "executed", "refused"}
KnownAbsent == {"known_not_executed", "retryable_failure"}
Outcomes == KnownAbsent \cup {"succeeded", "permanent_failure", "ambiguous"}
Answers == {"confirmed_applied", "confirmed_absent", "still_unknown"}
\* What a worker holding a claim does next.
Reconciling == {"r_claimed", "r_valid", "r_answered", "r_final"}
Dispatching == {"d_claimed", "d_valid", "d_started", "d_waiting", "d_returned"}
PCs == {"idle", "wake", "reconcile", "dispatch", "ended"} \cup Reconciling \cup Dispatching

NoClaim(pc) == [pc |-> pc, row |-> NoRow, attempt |-> 0, fencing |-> 0,
                lease |-> 0, outcome |-> "none"]   \* no claim
NoOutbox == [state |-> "absent", attempt |-> 0, nextAt |-> 0,
             lease |-> 0, fencing |-> 0, unknowns |-> 0]

Least(a, b) == IF a <= b THEN a ELSE b

TypeOK ==
    /\ now \in 1..MaxTime
    /\ mandate \in 1..MaxMandate
    /\ revisedAt \in [1..MaxMandate -> Nat]
    /\ proposal \in [Proposals -> [mandate : Nat, validUntil : Nat]]
    /\ decision \in [Proposals -> [choice : {"none", "approve", "reject"}, validUntil : Nat]]
    /\ attempt \in [Proposals -> [Attempts -> AttemptStates]]
    /\ outbox \in [Proposals -> [state : RowStates, attempt : Nat, nextAt : Nat,
                                 lease : Nat, fencing : Nat, unknowns : Nat]]
    /\ worker \in [Workers -> [pc : PCs, row : Proposals \cup {NoRow}, attempt : Nat,
                               fencing : Nat, lease : Nat,
                               outcome : Outcomes \cup Answers \cup {"none"}]]
    /\ fate \in [Proposals -> [Attempts -> Fates]]
    /\ executions \in [Proposals -> Nat]
    /\ crashes \in [Workers -> Nat]

Init ==
    /\ now = 1
    /\ mandate = 1
    /\ revisedAt = [m \in 1..MaxMandate |-> 0]
    /\ proposal = [p \in Proposals |-> [mandate |-> 0, validUntil |-> 0]]
    /\ decision = [p \in Proposals |-> [choice |-> "none", validUntil |-> 0]]
    /\ attempt = [p \in Proposals |-> [n \in Attempts |-> "none"]]
    /\ outbox = [p \in Proposals |-> NoOutbox]
    /\ worker = [w \in Workers |-> NoClaim("idle")]
    /\ fate = [p \in Proposals |-> [n \in Attempts |-> "none"]]
    /\ executions = [p \in Proposals |-> 0]
    /\ crashes = [w \in Workers |-> 0]

-----------------------------------------------------------------------------
(* Proposals, the mandate, and the human decision                          *)

\* commit_semantic_decision with a proposal: bound to the mandate it was made under.
Propose(p) ==
    /\ proposal[p].mandate = 0
    /\ proposal' = [proposal EXCEPT ![p] =
                      [mandate |-> mandate, validUntil |-> now + ProposalValidity]]
    /\ UNCHANGED <<now, mandate, revisedAt, decision, attempt, outbox, worker, external, crashes>>

\* A new mandate revision supersedes the one every open proposal was bound to.
ReviseMandate ==
    /\ mandate < MaxMandate
    /\ mandate' = mandate + 1
    /\ revisedAt' = [revisedAt EXCEPT ![mandate + 1] = now]
    /\ UNCHANGED <<now, proposal, decision, attempt, outbox, worker, external, crashes>>

\* Fault: a second decision overwrites the first.
DecidableAgain(p) == proposal[p].mandate = mandate /\ now <= proposal[p].validUntil

\* What commit_approval_and_attempt requires of either choice.  A replay of the
\* same decision returns the stored one, and a second decision is a conflict:
\* neither changes anything.
Decidable(p) ==
    /\ proposal[p].mandate # 0
    /\ decision[p].choice = "none"
    /\ proposal[p].mandate = mandate
    /\ now <= proposal[p].validUntil

RecordDecision(p, choice) ==
    decision' = [decision EXCEPT ![p] =
        [choice |-> choice,
         validUntil |-> Least(now + ApprovalValidity, proposal[p].validUntil)]]

Approve(p) ==
    /\ Decidable(p)
    /\ RecordDecision(p, "approve")
    /\ attempt' = [attempt EXCEPT ![p][1] = "planned"]
    /\ outbox' = [outbox EXCEPT ![p] =
                    [state |-> "pending", attempt |-> 1, nextAt |-> now,
                     lease |-> 0, fencing |-> 0, unknowns |-> 0]]
    /\ UNCHANGED <<now, mandate, revisedAt, proposal, worker, external, crashes>>

Reject(p) ==
    /\ Decidable(p)
    /\ RecordDecision(p, "reject")
    /\ UNCHANGED <<now, mandate, revisedAt, proposal, attempt, outbox, worker, external, crashes>>

-----------------------------------------------------------------------------
(* Claiming a row                                                          *)

ReconciliationBudget == Least(MaximumAttempts, ReconciliationCap)

\* last_outcome is 'still_unknown_stopped:<count>'
Stopped(p) == outbox[p].unknowns >= ReconciliationBudget

\* Rows that _claim_outbox_state may select.
Claimable(states) == {p \in Proposals :
    /\ outbox[p].state \in states
    /\ outbox[p].nextAt <= now
    /\ outbox[p].lease < now
    /\ outbox[p].attempt <= MaximumAttempts}

\* Fault: one claimed row at a time.
DispatchableAlone == {p \in Claimable({"pending", "retry", "claimed"}) :
    \A q \in Proposals : outbox[q].state = "claimed" => q = p}

Dispatchable == Claimable({"pending", "retry", "claimed"})
Reconcilable == {p \in Claimable({"ambiguous", "ambiguous_claimed"}) : ~Stopped(p)}

\* Oldest next_attempt_at first; the outbox_id that breaks ties is a hash, so any.
Oldest(rows) == {p \in rows : \A q \in rows : outbox[p].nextAt <= outbox[q].nextAt}

Claim(w, p, state, pc) ==
    /\ outbox' = [outbox EXCEPT ![p] =
                    [state |-> state, attempt |-> outbox[p].attempt,
                     nextAt |-> outbox[p].nextAt, lease |-> now + LeaseDuration,
                     fencing |-> outbox[p].fencing + 1, unknowns |-> outbox[p].unknowns]]
    /\ worker' = [worker EXCEPT ![w] =
                    [pc |-> pc, row |-> p, attempt |-> outbox[p].attempt,
                     fencing |-> outbox[p].fencing + 1,
                     lease |-> now + LeaseDuration, outcome |-> "none"]]
    /\ UNCHANGED <<now, mandate, revisedAt, proposal, decision, attempt, external, crashes>>

\* _require_outbox_claim: the row is still exactly the one this worker claimed.
ClaimMatches(w, states) ==
    LET c == worker[w] IN
    /\ outbox[c.row].state \in states
    /\ outbox[c.row].fencing = c.fencing
    /\ outbox[c.row].lease = c.lease
    /\ outbox[c.row].attempt = c.attempt

AttemptState(w) == attempt[worker[w].row][worker[w].attempt]
LiveClaim(w) == now <= worker[w].lease

\* Fault: an approval is good for ever and under any mandate.
AuthorizedForEver(p) == decision[p].choice = "approve"

\* The human approval still authorises the effect.
Authorized(p) ==
    /\ proposal[p].mandate = mandate
    /\ decision[p].choice = "approve"
    /\ now <= decision[p].validUntil

\* load_dispatch_bundle and _validate_exact_effect.
ExactEffect(w) ==
    /\ ClaimMatches(w, {"claimed", "ambiguous_claimed"})
    /\ AttemptState(w) = IF outbox[worker[w].row].state = "claimed"
                         THEN "planned" ELSE "ambiguous"
    /\ Authorized(worker[w].row)

GoTo(w, pc) == worker' = [worker EXCEPT ![w].pc = pc]
Rest(w, pc) == worker' = [worker EXCEPT ![w] = NoClaim(pc)]
Stop(w) == Rest(w, "idle")
Hears(w, pc, said) ==
    worker' = [worker EXCEPT ![w] =
        [pc |-> pc, row |-> @.row, attempt |-> @.attempt, fencing |-> @.fencing,
         lease |-> @.lease, outcome |-> said]]
OnlyWorker == UNCHANGED <<now, durable, external, crashes>>

-----------------------------------------------------------------------------
(* A pass over the namespace: process_once wakes, reconciles, dispatches   *)

\* Fault: the scan sees only rows waiting for their dispatch.
NamespaceDueForDispatch == \E p \in Proposals :
    outbox[p].state \in {"pending", "retry"} /\ outbox[p].nextAt <= now

\* pending_namespaces, as far as the outbox makes a namespace due.
NamespaceDue == \E p \in Proposals :
    \/ outbox[p].state \in {"pending", "retry"} /\ outbox[p].nextAt <= now
    \/ p \in Reconcilable

\* The local worker loop enters the namespaces its scan returned.
Scan(w) ==
    /\ w \in Headless
    /\ worker[w].pc = "idle"
    /\ NamespaceDue
    /\ GoTo(w, "wake")
    /\ OnlyWorker

\* Any other reason for a pass: POST /runtime/process, or a pending trigger
\* that put this namespace into the scan.
Visit(w) ==
    /\ worker[w].pc = "idle"
    /\ GoTo(w, "wake")
    /\ OnlyWorker

\* materialize_next and run (module Wake) come to their end ...
WakeEnds(w) ==
    /\ worker[w].pc = "wake"
    /\ GoTo(w, "reconcile")
    /\ OnlyWorker

\* ... or raise a ConflictError or PermissionDeniedError: the pass is over.
WakeRaises(w) ==
    /\ worker[w].pc = "wake"
    /\ Stop(w)
    /\ OnlyWorker

-----------------------------------------------------------------------------
(* reconcile_once                                                          *)

ReconcileClaim(w) ==
    /\ worker[w].pc = "reconcile"
    /\ \E p \in Oldest(Reconcilable) : Claim(w, p, "ambiguous_claimed", "r_claimed")

ReconcileNothing(w) ==
    /\ worker[w].pc = "reconcile"
    /\ Reconcilable = {}
    /\ GoTo(w, "dispatch")
    /\ OnlyWorker

ReconcileValidate(w) ==
    /\ worker[w].pc = "r_claimed"
    /\ LiveClaim(w) /\ ExactEffect(w)
    /\ GoTo(w, "r_valid")
    /\ OnlyWorker

\* External: what a truthful provider may say of an effect key.
ProviderMayAnswer(p, answer) ==
    /\ answer = "confirmed_applied" => \E n \in Attempts : fate[p][n] = "executed"
    /\ answer = "confirmed_absent" => \A n \in Attempts : fate[p][n] \in {"none", "refused"}

\* channel.reconcile: provider I/O outside any transaction.
ReconcileAsk(w) ==
    /\ worker[w].pc = "r_valid"
    /\ LiveClaim(w)
    /\ \E answer \in Answers :
         /\ ProviderMayAnswer(worker[w].row, answer)
         /\ Hears(w, "r_answered", answer)
    /\ OnlyWorker

\* After the I/O: the lease again, and before a retry every binding again.
ReconcileRecheck(w) ==
    /\ worker[w].pc = "r_answered"
    /\ LiveClaim(w)
    /\ worker[w].outcome = "confirmed_absent" => ExactEffect(w)
    /\ GoTo(w, "r_final")
    /\ OnlyWorker

\* Delay after the k-th inconclusive answer: the base doubles up to the ceiling.
BackoffDelay(k) ==
    LET doubled == Backoff * 2^(k - 1)
    IN IF doubled \in 0..BackoffCap THEN doubled ELSE BackoffCap

\* The row leaves its claim with attempt n: lease cleared, due at once.
Released(p, state, n) ==
    [state |-> state, attempt |-> n, nextAt |-> now, lease |-> 0,
     fencing |-> outbox[p].fencing, unknowns |-> 0]

\* Fault: the states of the attempt and of the row change places.
ConcludeSwapped(p, n, s, rowState, again) ==
    /\ attempt' = [attempt EXCEPT ![p][n] = rowState]
    /\ outbox' = [outbox EXCEPT ![p] = Released(p, s, n)]

\* Fault: the retry row still names the attempt that failed.
ConcludeInPlace(p, n, s, rowState, again) ==
    /\ attempt' = [attempt EXCEPT ![p] = [m \in Attempts |->
                     CASE m = n -> s
                       [] again /\ m = n + 1 -> "planned"
                       [] OTHER -> attempt[p][m]]]
    /\ outbox' = [outbox EXCEPT ![p] = Released(p, IF again THEN "retry" ELSE rowState, n)]

\* Attempt n of p ends in state s; when it may be tried again, attempt n + 1
\* is planned in the same transaction.
Conclude(p, n, s, rowState, again) ==
    /\ attempt' = [attempt EXCEPT ![p] = [m \in Attempts |->
                     CASE m = n -> s
                       [] again /\ m = n + 1 -> "planned"
                       [] OTHER -> attempt[p][m]]]
    /\ outbox' = [outbox EXCEPT ![p] = IF again THEN Released(p, "retry", n + 1)
                                       ELSE Released(p, rowState, n)]

\* reconcile_ambiguous accepts the claim.
ReconcileAccepted(w) ==
    /\ LiveClaim(w)
    /\ ClaimMatches(w, {"ambiguous_claimed"})
    /\ AttemptState(w) = "ambiguous"

ReconcileFinalize(w) ==
    LET p == worker[w].row
        n == worker[w].attempt
        k == outbox[p].unknowns + 1
    IN
    /\ worker[w].pc = "r_final"
    /\ ReconcileAccepted(w)
    /\ \/ /\ worker[w].outcome = "still_unknown"
          /\ outbox' = [outbox EXCEPT ![p] =
               [state |-> "ambiguous", attempt |-> n, nextAt |-> now + BackoffDelay(k),
                lease |-> 0, fencing |-> outbox[p].fencing, unknowns |-> k]]
          /\ UNCHANGED attempt
       \/ /\ worker[w].outcome = "confirmed_applied"
          /\ Conclude(p, n, "succeeded", "completed", FALSE)
       \/ /\ worker[w].outcome = "confirmed_absent"
          /\ Conclude(p, n, "failed", "terminal_failed", n < MaximumAttempts)
    /\ Rest(w, "dispatch")
    /\ UNCHANGED <<now, mandate, revisedAt, proposal, decision, external, crashes>>

-----------------------------------------------------------------------------
(* dispatch_once                                                           *)

DispatchClaim(w) ==
    /\ worker[w].pc = "dispatch"
    /\ \E p \in Oldest(Dispatchable) : Claim(w, p, "claimed", "d_claimed")

DispatchNothing(w) ==
    /\ worker[w].pc = "dispatch"
    /\ Dispatchable = {}
    /\ Stop(w)
    /\ OnlyWorker

DispatchValidate(w) ==
    /\ worker[w].pc = "d_claimed"
    /\ ExactEffect(w)
    /\ GoTo(w, "d_valid")
    /\ OnlyWorker

\* Fault: a dispatch found already started is resumed, whoever started it.
StartAcceptedAgain(w) ==
    /\ outbox[worker[w].row].state \in {"claimed", "dispatching"}
    /\ AttemptState(w) \in {"planned", "started"}

StartAccepted(w) == ClaimMatches(w, {"claimed"}) /\ AttemptState(w) = "planned"

\* mark_dispatch_started does not look at the lease: an expired claim that
\* nobody took over still goes ahead.
MarkStarted(w) ==
    LET p == worker[w].row IN
    /\ worker[w].pc = "d_valid"
    /\ StartAccepted(w)
    /\ attempt' = [attempt EXCEPT ![p][worker[w].attempt] = "started"]
    /\ outbox' = [outbox EXCEPT ![p].state = "dispatching"]
    /\ GoTo(w, "d_started")
    /\ UNCHANGED <<now, mandate, revisedAt, proposal, decision, external, crashes>>

\* channel.apply hands the request to the provider ...
Submit(w) ==
    /\ worker[w].pc = "d_started"
    /\ fate' = [fate EXCEPT ![worker[w].row][worker[w].attempt] = "inflight"]
    /\ GoTo(w, "d_waiting")
    /\ UNCHANGED <<now, durable, executions, crashes>>

\* ... and returns a typed outcome.  A definite one is true; a timeout, a
\* disconnect or a malformed response is ambiguous whatever has happened.
ProviderMayReturn(p, n, outcome) ==
    /\ outcome = "succeeded" => fate[p][n] = "executed"
    /\ outcome \in KnownAbsent \cup {"permanent_failure"} => fate[p][n] = "refused"

ApplyReturns(w) ==
    /\ worker[w].pc = "d_waiting"
    /\ \E outcome \in Outcomes :
         /\ ProviderMayReturn(worker[w].row, worker[w].attempt, outcome)
         /\ Hears(w, "d_returned", outcome)
    /\ OnlyWorker

FinalizeAccepted(w) == ClaimMatches(w, {"dispatching"}) /\ AttemptState(w) = "started"

\* Fault: an uncertain call counts as one that was not carried out.
MayTryAgainIfUncertain(outcome) == outcome \in KnownAbsent \cup {"ambiguous"}

\* Outcomes after which _result_states asks for another attempt.
MayTryAgain(outcome) == outcome \in KnownAbsent

\* finalize_dispatch: no lease check either; state and fencing token decide.
DispatchFinalize(w) ==
    LET p == worker[w].row
        n == worker[w].attempt
        outcome == worker[w].outcome
    IN
    /\ worker[w].pc = "d_returned"
    /\ FinalizeAccepted(w)
    /\ \/ outcome = "succeeded" /\ Conclude(p, n, "succeeded", "completed", FALSE)
       \/ outcome = "ambiguous" /\ Conclude(p, n, "ambiguous", "ambiguous", FALSE)
       \/ outcome = "permanent_failure" /\ Conclude(p, n, "failed", "terminal_failed", FALSE)
       \/ /\ MayTryAgain(outcome)
          /\ Conclude(p, n, "failed", "terminal_failed", n < MaximumAttempts)
    /\ Stop(w)
    /\ UNCHANGED <<now, mandate, revisedAt, proposal, decision, external, crashes>>

\* A check failed.  The row keeps the state and the lease the claim gave it.
Refused(w) ==
    \/ worker[w].pc = "r_claimed" /\ ~(LiveClaim(w) /\ ExactEffect(w))
    \/ worker[w].pc = "r_valid" /\ ~LiveClaim(w)
    \/ worker[w].pc = "r_answered" /\ ~(/\ LiveClaim(w)
                                        /\ worker[w].outcome = "confirmed_absent" => ExactEffect(w))
    \/ worker[w].pc = "r_final" /\ ~ReconcileAccepted(w)
    \/ worker[w].pc = "d_claimed" /\ ~ExactEffect(w)
    \/ worker[w].pc = "d_valid" /\ ~StartAccepted(w)
    \/ worker[w].pc = "d_returned" /\ ~FinalizeAccepted(w)

\* Validation found the approval lapsed, an AuthorizationError of the core, which
\* the worker loop does not catch.  (It looks at the mandate first, at a policy,
\* which mandate stands for too, afterwards.)
Lapsed(w) ==
    LET c == worker[w] IN
    /\ c.pc \in {"r_claimed", "r_answered", "d_claimed"}
    /\ c.pc \in Reconciling => LiveClaim(w)
    /\ ClaimMatches(w, {"claimed", "ambiguous_claimed"})
    /\ now > decision[c.row].validUntil

\* ConflictError or PermissionDeniedError: the pass is over and the loop goes on,
\* as the API does after any error.
GiveUp(w) ==
    /\ Refused(w)
    /\ ~(w \in Headless /\ Lapsed(w) /\ proposal[worker[w].row].mandate = mandate)
    /\ Stop(w)
    /\ OnlyWorker

\* The process ends, and what it held in memory is lost.
End(w) ==
    /\ Rest(w, "ended")
    /\ crashes' = [crashes EXCEPT ![w] = @ + 1]
    /\ UNCHANGED <<now, durable, external>>

\* The exception leaves run_once, and the process with it.
Terminate(w) == w \in Headless /\ Refused(w) /\ Lapsed(w) /\ End(w)

\* The supervisor starts it again, so many times and no more.
Restart(w) ==
    /\ worker[w].pc = "ended"
    /\ crashes[w] <= MaxRestarts
    /\ GoTo(w, "idle")
    /\ OnlyWorker

-----------------------------------------------------------------------------
(* The provider, recovery, crashes and time                                *)

ProviderExecutes(p, n) ==
    /\ fate[p][n] = "inflight"
    /\ fate' = [fate EXCEPT ![p][n] = "executed"]
    /\ executions' = [executions EXCEPT ![p] = @ + 1]
    /\ UNCHANGED <<now, durable, worker, crashes>>

ProviderRefuses(p, n) ==
    /\ fate[p][n] = "inflight"
    /\ fate' = [fate EXCEPT ![p][n] = "refused"]
    /\ UNCHANGED <<now, durable, worker, executions, crashes>>

\* Fault: a dispatch whose lease still runs is recovered too.
RecoverLive ==
    /\ RecoversExpired
    /\ \E p \in Proposals :
         /\ outbox[p].state = "dispatching"
         /\ Conclude(p, outbox[p].attempt, "ambiguous", "ambiguous", FALSE)
    /\ UNCHANGED <<now, mandate, revisedAt, proposal, decision, worker, external, crashes>>

\* recover_expired_dispatches: the row with the oldest expired lease becomes ambiguous.
RecoverExpired ==
    /\ RecoversExpired
    /\ LET expired == {p \in Proposals : outbox[p].state = "dispatching" /\ outbox[p].lease < now}
       IN \E p \in expired :
            /\ \A q \in expired : outbox[p].lease <= outbox[q].lease
            /\ attempt[p][outbox[p].attempt] = "started"
            /\ Conclude(p, outbox[p].attempt, "ambiguous", "ambiguous", FALSE)
    /\ UNCHANGED <<now, mandate, revisedAt, proposal, decision, worker, external, crashes>>

\* The process dies, or an unexpected exception ends it.
Crash(w) ==
    /\ worker[w].pc \notin {"idle", "ended"}
    /\ \A v \in Workers : crashes[v] < MaxCrashes
    /\ End(w)

\* A worker that is not slow never overruns the lease it holds, and its loop takes
\* up due work, and is started again if it ended, before the next unit of time.
Prompt(w) ==
    /\ worker[w].row # NoRow => now < worker[w].lease
    /\ w \in Headless =>
         /\ worker[w].pc \notin {"wake", "reconcile", "dispatch"}
         /\ worker[w].pc = "idle" => ~NamespaceDue
         /\ worker[w].pc = "ended" => crashes[w] > MaxRestarts

Tick ==
    /\ now < MaxTime
    /\ \A w \in Workers \ SlowWorkers : Prompt(w)
    /\ now' = now + 1
    /\ UNCHANGED <<durable, worker, external, crashes>>

WorkerStep(w) ==
    \/ Scan(w) \/ WakeEnds(w)
    \/ ReconcileClaim(w) \/ ReconcileNothing(w) \/ ReconcileValidate(w)
    \/ ReconcileAsk(w) \/ ReconcileRecheck(w) \/ ReconcileFinalize(w)
    \/ DispatchClaim(w) \/ DispatchNothing(w) \/ DispatchValidate(w)
    \/ MarkStarted(w) \/ Submit(w) \/ ApplyReturns(w) \/ DispatchFinalize(w)
    \/ GiveUp(w) \/ Terminate(w) \/ Restart(w)

Next ==
    \/ \E p \in Proposals : Propose(p) \/ Approve(p) \/ Reject(p)
    \/ ReviseMandate
    \/ \E w \in Workers : WorkerStep(w) \/ Visit(w) \/ WakeRaises(w) \/ Crash(w)
    \/ \E p \in Proposals, n \in Attempts : ProviderExecutes(p, n) \/ ProviderRefuses(p, n)
    \/ RecoverExpired
    \/ Tick

Spec == Init /\ [][Next]_vars

-----------------------------------------------------------------------------
(* Safety                                                                  *)

\* An attempt that has not been concluded, and the row state that goes with it.
RowFits(s) ==
    CASE s = "planned"   -> {"pending", "retry", "claimed"}
      [] s = "started"   -> {"dispatching"}
      [] s = "ambiguous" -> {"ambiguous", "ambiguous_claimed"}
      [] s = "succeeded" -> {"completed"}
      [] s = "failed"    -> {"terminal_failed"}
      [] s = "none"      -> {}

\* The outbox row and the effect_attempt records, two tables that nothing but
\* the transactions keeps in step, tell one story: the row's attempt is in the
\* state the row says, every earlier one failed, and no later one exists.
AttemptsAgree == \A p \in Proposals :
    /\ outbox[p].state = "absent" => \A n \in Attempts : attempt[p][n] = "none"
    /\ outbox[p].state # "absent" =>
         /\ outbox[p].attempt \in Attempts
         /\ outbox[p].state \in RowFits(attempt[p][outbox[p].attempt])
         /\ \A n \in Attempts :
              /\ n < outbox[p].attempt => attempt[p][n] = "failed"
              /\ n > outbox[p].attempt => attempt[p][n] = "none"

\* An effect is never sent again blindly: when a later attempt exists, the
\* provider has refused the request of the earlier one for good, or that
\* request was never sent and no worker is left that could still send it.
NoBlindResend == \A p \in Proposals, n \in Attempts, m \in Attempts :
    n < m /\ attempt[p][m] # "none" =>
      /\ fate[p][n] \in {"none", "refused"}
      /\ \A w \in Workers : worker[w].pc = "d_started" =>
           worker[w].row # p \/ worker[w].attempt # n

\* The effect of one proposal is carried out at most once, over all attempts,
\* crashes, takeovers and late responses.
AtMostOnce == \A p \in Proposals : executions[p] <= 1

\* A terminal outbox row tells the truth about the world, and no request that
\* could still change it is under way.
VerdictTruthful == \A p \in Proposals :
    /\ outbox[p].state = "completed" => executions[p] = 1
    /\ outbox[p].state = "terminal_failed" => executions[p] = 0
    /\ outbox[p].state \in {"completed", "terminal_failed"} =>
         \A n \in Attempts : fate[p][n] # "inflight"

\* Two workers are never between marking one effect started and finalising it,
\* although mark_dispatch_started ignores the lease.
SingleFlight == \A v, w \in Workers :
    /\ v # w
    /\ {worker[v].pc, worker[w].pc} \subseteq {"d_started", "d_waiting", "d_returned"}
    => worker[v].row # worker[w].row

\* A row is dispatched only under an approval and a mandate revision that
\* were current when the dispatcher took its lease, however long the worker
\* then took to start.
AuthorizedAtClaim == \A p \in Proposals :
    LET claimedAt == outbox[p].lease - LeaseDuration
        next == proposal[p].mandate + 1
    IN outbox[p].state = "dispatching" =>
         /\ decision[p].choice = "approve"
         /\ claimedAt <= decision[p].validUntil
         /\ next <= mandate => claimedAt <= revisedAt[next]

-----------------------------------------------------------------------------
(* Refinement                                                              *)

\* What the durable records say of a proposal.
Verdict(p) ==
    CASE decision[p].choice = "none" -> "undecided"
      [] decision[p].choice = "reject" -> "rejected"
      [] outbox[p].state = "completed" -> "done"
      [] outbox[p].state = "terminal_failed" -> "failed"
      [] OTHER -> "approved"

Promise == INSTANCE Effect WITH verdict <- [p \in Proposals |-> Verdict(p)]

\* Claims, leases, retries, reconciliation and crashes together carry an
\* approved effect out at most once and never report a wrong outcome.
KeepsPromise == Promise!Spec

-----------------------------------------------------------------------------
(* Liveness of the local worker loop                                       *)

\* The loop repeats every half second, a pass under way runs on, and the supervisor starts an
\* ended process again; time passes, however often a worker is in the middle of a
\* step.  Nobody promises a visit from outside, a decision, a wake part that raises
\* nothing, or a provider that answers anything but "ambiguous" and "still_unknown".
Fairness ==
    /\ SF_vars(Tick)
    /\ \A w \in Workers : WF_vars(WorkerStep(w))

FairSpec == Spec /\ Fairness

\* What may keep a worker loop from its outbox for good: wakes that raise an
\* exception in pass after pass (wake_poisoned is one that does), and an end that
\* nobody starts the process again after.
WakesKeepFailing(w) == []<><<WakeRaises(w)>>_vars
StaysEnded(w) == <>[](worker[w].pc = "ended")
LoopServes == \E w \in Headless : ~WakesKeepFailing(w) /\ ~StaysEnded(w)

\* Room on the clock, and in the approval, for every reconciliation call, the waits
\* between them, and the leases that crashes leave behind.
Enough(p) == now + ReconciliationBudget * (LeaseDuration + BackoffCap)
               + MaxCrashes * (LeaseDuration + 1)
             <= Least(MaxTime, decision[p].validUntil) + BackoffCap

\* An ambiguous effect does not linger: with enough of its approval left a loop that
\* gets to its outbox resolves it or uses up the calls, although every call but the
\* first waits for its back-off and a worker dies with the claim.
AmbiguousSettles ==
    LoopServes => \A p \in Proposals :
        /\ outbox[p].state \in {"ambiguous", "ambiguous_claimed"}
        /\ Enough(p)
        ~> \/ outbox[p].state \notin {"ambiguous", "ambiguous_claimed"}
           \/ Stopped(p)
           \/ proposal[p].mandate # mandate

\* An effect that waits its turn gets it, even behind an older row that can never
\* be dispatched: one without a mandate, on which every pass fails that claims it,
\* or one with a lapsed approval, which ends the process each time, as long as
\* the process is started again.
PendingTaken ==
    LoopServes => \A p \in Proposals :
        outbox[p].state \in {"pending", "retry"} ~> outbox[p].state \notin {"pending", "retry"}

\* "An uncertain call becomes AMBIGUOUS": a dispatch whose lease has run out
\* does not stay in the state dispatching.
UncertainBecomesAmbiguous == \A p \in Proposals :
    outbox[p].state = "dispatching" /\ outbox[p].lease < now ~> outbox[p].state # "dispatching"
=============================================================================
