# Digital Colleagues: models and proofs

Digital Colleagues is a local-first control plane for AI coworkers. People give a colleague
a mandate, a policy and work; events and timers wake it; a model proposes an effect; a
person approves that exact effect; a worker carries it out through a channel, at most once.
Everything durable is in one SQLite file, every mutation is one `BEGIN IMMEDIATE`
transaction, and any number of worker processes and API requests use the file at once.
What is hard is everything *between* two transactions: model calls and channel calls that
outlast a lease, a worker that dies, a policy or a membership that is revised meanwhile.

This directory models that. Paths below are relative to `src/src/digital_colleagues/`
unless they start with `docs/`.

## The system

| Component | State it keeps | Operations | Talks to |
|---|---|---|---|
| Wake core (`application/services.py`, `adapters/sqlite/store.py`) | triggers (events, timer occurrences), wake cycles, one agenda item per source with generation, handled generation and starvation count, decisions | `ingest_event/_timer`, `claim_trigger`, `materialize_agenda`, `claim_agenda`, `commit_semantic_decision`, `release_agenda` | asks the intelligence adapter between two transactions; hands proposals to dispatch |
| Effect dispatch (`services.py`, `store.py`, `governance/approvals.py`) | proposals, decisions, attempts, outbox rows with claim, lease, fencing token, next time | `commit_approval_and_attempt`, `claim_outbox`, `mark_dispatch_started`, `finalize_dispatch`, `claim_ambiguous`, `reconcile_ambiguous`, `recover_expired` | calls the channel adapter between two transactions |
| Worker loop (`local/worker.py`, `p4_services.process_once`, `p4_store.pending_namespaces`) | none | scans for namespaces that are due, makes one pass in each: wake, reconcile, dispatch | the API's `process` route makes the same pass |
| Policy admission (`p5_services.py`, `p5_store.py`) | the active policy revision, run state, outcomes, budget counters and consumptions, escalations | `submit_trigger`, `admit_trigger`, `decide`, `_prepare_semantic_decision`, `confirm_draft` | wraps the wake core on both sides |
| Colleague drafts (`p5_services.py`, `p5_store.py`, `p6_store.py`) | drafts with base revisions and digest, review state | create, update, review, cancel, confirm | confirmation revises profile, mandate and policy, under a change two people agreed on |
| Local governance (`p6_services.py`, `p6_store.py`, `governance/rbac.py`) | memberships with revisions, sessions, enrolment and recovery credentials, the second-administrator exception, change proposals and decisions | bootstrap, authorise, retrieve, exchange, revoke, propose, decide, apply | every mutation of the layers below repeats its authority check |
| Deployments and packages (`p11_services.py`, `p11_store.py`, `core/agent_package.py`) | package versions with trust and installation, deployment drafts, deployments with a lifecycle | install, trust, remove, draft, review, confirm, transition | an inactive deployment refuses triggers and passes |
| Backup and restore (`operations/backup_restore.py`, `src/dc`) | archives, a staged file, the lock of the command line | backup, verify, restore, up, down, purge | copies and replaces the database file and removes the files beside it |
| Finite work, responsibilities (`core/work.py`) | state tables | `transition_work`, dependency graph check | named by triggers |
| Channel and intelligence adapters (`adapters/http_json`, `adapters/channel`, `adapters/intelligence`) | none | `apply`, `reconcile`, `decide` | external providers that may answer late, never or wrongly |
| API, CLI, studio, diagnostics, serialisation, migrations | none of their own | | |

The controllers nest: P11 (is the deployment active?) around P6 (may this session?) around
P5 (does the policy admit it?) around P4 (do it).

### What makes each component correct

- **Dispatch**: an approved effect is carried out at most once, whoever stalls, dies or
  takes over; rows that say how it ended say the truth; an uncertain effect is reconciled
  and not repeated; a due effect is taken up.
- **Wake**: each cause is retained, is decided once, and causes that arrive while the model
  thinks are not closed with it; no source is neglected for ever.
- **Governance**: once there are two administrators, only two different current ones
  together change who holds authority, each agreement counts once, and at least two remain.
- **Admission**: the budget is charged exactly and once per key, a stop is lifted only by
  somebody who asked for that, and nothing is proposed while stopped, nor from a policy
  that was revised while the model thought.
- **Deployments**: only vetted packages run, at most ten at once on a slot each; a
  revocation stops a package everywhere; nobody changes a deployment without having seen
  its last change.
- **Drafts**: the active profile, mandate and policy are together what one draft proposed,
  against the base it was written for; an agreement of two is used for the draft it was
  given for, once, and only such an agreement changes what mandate and policy say.
- **Backup**: with the services down, every acknowledged transaction is in the database or
  in an archive at any moment, wherever a command dies, and what a restore installs is
  exactly the archive.

The behaviours no test reaches easily are listed, at their lines, under `hazards` in
`PROJECT.json`, each with the properties that would catch it.

## The modules

| Module | Models | Shows |
|---|---|---|
| `Outbox` | an effect from its proposal to its verdict | the dispatch properties |
| `Effect` | nothing of the code: what dispatch promises, in three actions | `Outbox` implements it (`KeepsPromise`) |
| `Outbox_proofs` | | theorems about `Outbox` |
| `Wake` | a trigger from its arrival to the decision about it | the wake properties |
| `Coalescing` | the promise: causes gather per source and are decided in batches, in order | `Wake` implements it (`DecidesInBatches`) |
| `Wake_proofs` | | theorems about `Wake` |
| `Governance` | memberships, credentials, changes, sessions of one tenant | the governance properties |
| `TwoPersonRule` | the promise: a roster that changes by agreement of two | `Governance` implements it (`FollowsTheRule`) |
| `Governance_proofs` | | theorems about `Governance` |
| `Admission` | submission, budget, stop and resume of one colleague | the admission properties |
| `Admission_proofs` | | theorems about `Admission` |
| `Deployment` | packages, deployments and their lifecycle, of one tenant | the deployment properties |
| `Fleet` | the promise: vetted packages run within a limit until they are withdrawn | `Deployment` implements it (`RunsVetted`) |
| `Deployment_proofs` | | theorems about `Deployment` |
| `Drafts` | drafts of one colleague and the proposals about them | the draft properties |
| `Drafts_proofs` | | theorems about `Drafts` |
| `Restore` | the database file, its log, archives, services and commands | the backup properties |
| `Restore_proofs` | | theorems about `Restore` |
| `MC*` | instances for TLC: sets, policies, changes, symmetry | |

`Outbox` and `Wake` meet where a decision with a proposal is committed
(`Wake!CommitDecision` is `Outbox!Propose`), `Admission` and `Wake` where a trigger is
ingested and where the decision is committed. `Deployment` decides which colleagues make
passes at all; that gate (`_require_active`) is not composed. `Drafts` says when a revision
is confirmed, `Admission` what the confirmed policy does. They are checked apart, because
each owns its tables: the outbox never reads the agenda, the agenda never reads the outbox.

### Outbox

One action per store transaction and one per call of a provider. `worker[w]` is what a pass
of `process_once` holds in memory between them: the row, the attempt, the fencing token and
the lease of its claim, and the provider's answer. `fate` and `executions` are the
provider's side of each request, which no program variable shows. A pass begins because the
loop of a `Headless` worker found the namespace due (`Scan`) or for any other reason
(`Visit`: the API, a pending trigger), and has three parts, as `process_once` does
(`p4_services.py:864-878`): the wake, of which only the end is modelled here (`WakeEnds`, or
`WakeRaises`, after which nothing of the pass is left), then `reconcile_once`, then
`dispatch_once`. A check that fails raises. `ConflictError` and `PermissionDeniedError` end the
pass (`GiveUp`); the core's `AuthorizationError`, for an approval that has lapsed
(`governance/approvals.py:192`), is not among what `worker.py:25-32` catches and ends a looping
process (`Terminate`), whereas the API turns it into a response. `Restart` is the supervisor,
at most `MaxRestarts` times (`on-failure:3`, `compose.p10.yaml:73`).

Abstractions, and why they lose nothing the properties see:
- `decide` reads and commits in one action: the transaction repeats the reads.
- A lease owner is not kept: the owner string of a process is a constant
  (`worker:p4-dispatch`), so only the fencing token tells workers apart.
- A policy revision or a P6 authority change makes an approval unusable as a revised
  mandate does, and is folded into it. A mandate is looked at before the approval's deadline
  and a policy after it; where both have passed, either exception may be the one raised.
- A request that never left is a request the provider refused; the adapter reports both as
  known not executed.
- The provider's own de-duplication by idempotency key is *not* assumed: at most once is
  the outbox's doing.

### Wake

`trigger`, `item`, `wakes`, `decisions` are the tables, `worker[w]` the memory of a pass.
An item's `causes` is the sequence of triggers gathered under its source; `generation` is
its length, `handled` how much of it has been decided. `passed` and `faults` are history.
Idempotent replays of an ingestion are left out (they change nothing), priority is fixed
per source, and what a stopped policy makes of a decision is in `Admission`.

Under a confirmed policy `PolicyGovernedIntelligence.decide` records what the policy says of
the wake before the decision is committed: `RecordOutcome`, and `ReboundOutcome` where an
earlier claim of the same generation recorded the same outcome. A record carries the time
of its claim, and two claims have two times; the claim's fencing token stands for it.
`Unasked` are the items whose decisions need no record: those of a colleague without a
policy, deterministic no-ops, and answers that end in the DEFER decision for a failed
adapter. (In the code each claim finds out anew; here an item keeps its kind.) `Outcomes`
has one member, a policy that says the same of each claim; with another answer a later claim
records a row of its own. (`Admission` lets a wake be answered again whatever is on record,
so it allows more decisions than the code makes.)

### Governance

A request is one action: the service validates against what it read, and the transaction
repeats every check against the rows it finds, so an outdated request does nothing. A
principal is known by the credential that enrolled it (0 is the first administrator); the
role revision moves only with the membership revision, and one number stands for both;
deadlines are flags that time may raise at any moment (`Lapse`, at most `MaxLate` of them);
roles other than administrator are one role. `MotionOf`, `Rule` map the tables to
`TwoPersonRule`.

### Admission

`submit_trigger` is three steps: read the policy, admit (charges the budget), ingest. A
caller may die before each and submit the same key again, also as the other kind of
trigger. Whether a submission is within working hours, whether deterministic failures are
at the limit and whether the work is finished or blocked is chosen freely. A wake asks the
model between two looks at revision and run state, and commits after a third, at the run
state only. The look after the model is two queries of two snapshots (`p5_store.py:107-121`),
hence `Answer` and `Revalidate`; the one before the model is one action, because a
confirmation between its queries only lets a model be asked whose answer is refused. A wake
that began without a policy has no look after the model (`p5_services.py:936-938`). Disabled
proactivity is a policy that lets in no kind. A draft is open from its last edit to its
confirmation. `asked` and `outrun` are history: the drafts that asked, during this stop, to
end it, and the wakes whose policy was revised while their model thought. `LiftsStop` has the
changes of `_explicit_resume_change` that a content here can show, and not those of a budget
period, of working hours or of a failure limit, so that fewer revisions resume; that one which
does must have been asked for does not depend on it.

### Drafts

`head`, `revision` and `binds` are the active profile, mandate and policy, `draft` and
`change` the tables, `marking` the apply requests between their two transactions: told that
a change is stale, `apply_draft` marks the proposal in a second one. Everything else is one
action per request, because the transaction repeats what the service read. A content is a
value; `Says` gives what the diff compares of it, which for a collection is its members
without their order, so that a content and its reordering are two contents that say the
same. A change proposal and its decision are one record. Deadlines are flags that time may
raise (`Late`), and memberships move as they like (`MoveMember`); together at most
`MaxUpsets` of these. Every administrator is one of the whole tenant, and repeated requests
with the key of an earlier one are left out: they return what is recorded. Which drafts may
ask to resume a stopped colleague, and what that does, is in `Admission`.

### Restore

`main` and `log` are `state.sqlite` and its write-ahead log, each with an identity and the
transactions it holds; `archives` are what was backed up. `container[s]` and `opened[s]` say
whether a service runs and which two files it has open, which need not be those now at the
paths. `lock` is the directory `dc` makes, `op` the backup or restore under way with its
step. `Up`, `Down` and `Purge` are commands of `dc`; `Fail` and `Restart` are Docker's, whose
`on-failure` restart knows nothing of the lock; `Commit` and `Checkpoint` are SQLite's. A
backup is `BeginBackup`, `Save`, `End`; a restore `BeginRestore`, `Save` (the rollback
archive), `DropSidecars`, `Replace`, `End`, in the order of `restore_database`
(`backup_restore.py:407-496`), and its Python process may `Die` between any two, where the
trap of `dc` releases the lock, or be `Kill`ed with its script, where the lock stays until
`RemoveLock`. The same trap on a `Signal` removes the lock and does not exit; services may
then start beside the restore, while a second command beside the first is not modelled.
`kept` is a history of what was acknowledged and not purged; `careless`, that a restore and a
service's container coexisted, which `managed_stack_running` does not prevent (it asks
whether *all* services run): the properties are for an operator who takes the services down
first, as the guide says. Left out: the `-shm` file, which holds nothing of its own, the
private staging file, the temporary archive, and a power failure that loses what was
written and not yet synced.

### Deployment

`package`, `deployment`, `draft` are the tables, `history` the accepted bindings, `request`
the lifecycle requests under way and the results recorded for their keys. What an
administrator sends names a revision, digest or draft, and each transaction refuses it
unless that is current; so registering, vetting, drafting, reviewing and confirming are one
action each. A draft is written from what the service read just before; if that has changed
by the time of the insert, the draft is an outdated one, as it would be had the change come
right after. A lifecycle request is two actions, because what the administrator saw is what
the properties are about: `AskTransition` notes revision and package, and `Transition` or
`RefuseAtLimit` happens when it arrives, if ever, and at most once. Sent again, it returns
the recorded result.

A package's revision counts its changes of state, which only go one way, and is left out.
`Legacy` is the compatibility package of a tenant's first colleague, whose policy is taken
to be confirmed when it is bound anew. The slots belong to the host; one tenant stands for
all. Archives, attestations and permission diffs are data. Which colleague a session has
chosen is read by nothing here.

### Operators marked "Fault"

An operator whose comment begins with *Fault* is a plausible bug of the definition below
it: a dropped guard, an off-by-one, a missing reset. Nothing uses it. Each property is
known to fail when one of them takes the definition's place (`mutants` in `PROJECT.json`),
which shows that the run reaches the case the property is about.

## What is checked

| Run | Bounds | Result |
|---|---|---|
| `outbox_production` | 1 effect, 2 workers that may stall without limit, 2 attempts, a crash, a mandate revision, an approval and a proposal that lapse | all eight properties hold |
| `outbox_recovery` | 1 effect, the loop and another process, both keeping to their leases, 2 attempts and so 2 reconciliation calls with a back-off between them, a crash and a restart each, `recover_expired` called | at most once still holds; an ambiguous effect settles |
| `outbox_progress` | 2 effects, the loop, 1 attempt, a mandate revision, approvals that lapse, a restart | a due effect is taken up behind one that never will be |
| `outbox_stuck_dispatch` | | **violated**: a dead dispatcher's row stays `dispatching` |
| `wake` | 2 sources, one of them under a policy, 3 triggers, one a timer, 2 workers, 2 claims to a pass, 1 pass cut short | seven properties hold |
| `wake_poisoned` | 1 source under a policy, 2 workers | **violated**: what an overtaken or dead worker recorded turns away every later claim of the same causes |
| `governance` | 2 further people, 2 changes, 1 deadline that passes; promotions, removals and narrowings | five properties hold |
| `admission` | 2 of 4 submissions, 3 policies, 3 revisions, 2 budget periods, 2 open drafts, 1 caller and 1 worker that may crash | five properties hold |
| `admission_replay` | 2 policies, 2 revisions | **violated**: a retry after a crash wakes under a revision whose budget it does not touch |
| `deployment` | 3 colleagues for 2 slots, 2 packages and the legacy one, 2 drafts, 2 lifecycle requests, 4 revisions | five properties hold |
| `drafts` | 2 administrators, 2 drafts of one base or one after the other, 2 proposals, 1 edit each, 1 apply request between its transactions, 1 membership change or deadline | four properties hold |
| `restore` | 2 writing services and 1 other, 3 archive names, 3 commits, 7 files, 2 crashes | three properties hold |

Why these bounds are enough to be of use: a claim conflict needs two workers and one row,
and the row's third fencing token repeats the second; an effect that settles late needs two
reconciliation calls, a worker that dies with one of them, and the time for all this on the
clock and in the approval (`Enough`: 5 units are left, of 7, to an effect decided and found
ambiguous in the first two); blocking another effect needs one attempt of it, with its
mandate revised or its approval lapsed, and as many ends of the process as restarts; a pass
that leaves something behind needs one claim fewer than there are triggers; a lost cause
needs one arrival during a call and one after it; breaking two-person governance needs three
administrators (the first, the second and the one the last change enrols or removes) and two
changes side by side; charging twice needs two submissions, evading a budget needs two
revisions, and lifting the wrong stop needs three and two drafts; two deployments on one
slot need a third that left it, and undoing an unseen change needs two drafts or a draft and
a request; a proposal used for the wrong draft needs two of each; losing a transaction in a
restore needs one commit in the file, one in the log and one between two commands. Every
bound is a constant whose name begins with `Max` or `Num`, or is given in the MC module;
each is a guard of the action that would pass it, so temporal properties see no cut-off
behaviours. Some runs take interchangeable values as one: `admission` its keys, draft places
and the two kinds of trigger (its policies let in both), `drafts` the administrators,
`restore` the archive names and the writing services, `deployment` its own; only runs
without liveness do. `admission`, `drafts` and `restore` also use a view, defined in their
MC module: it forgets what no later guard reads and no property asks of a later state, such
as the proposals made so far, the text of a draft that is closed, or which number a file
has.

Deadlock is not checked: a bounded system stops when its bounds are used up, and the code
itself rests when nothing is due.

### Fairness

Safety runs use none. The liveness runs assume what the deployment provides and no more:
- time goes on (`Tick`; strongly in `Outbox`, where a worker's timely step holds it back);
- a pass that has begun goes on, whoever made it, a headless worker's loop repeats, and a
  process that ended is started again while restarts are left: weak fairness of
  `WorkerStep`, and strong fairness of `Scan` in `Wake`, because a namespace may be due only
  now and then;
- a pass takes its next step within its lease (`Prompt`) in runs that are not about slow
  workers, and crashes are bounded in number;
- no fairness of people, of API requests (`Visit`), of `recover_expired`, or of the provider:
  `apply` and `reconcile` end by their own timeout, with any answer.

The supervisor gives up after three restarts, and a wake may raise an exception in every
pass (disagreement 2 below is a way to). Neither is assumed away: `AmbiguousSettles` and
`PendingTaken` are for the case that some loop does not meet either for ever (`LoopServes`:
its wakes do not keep failing and its process does not stay ended), and promise nothing
otherwise. TLC refutes both without it, and `AmbiguousSettles` where the approval may lapse
before the last call (`Enough`). In `outbox_progress` the two approvals may lapse one after
the other, which ends the process once within `MaxRestarts` and once more for good.
`ArrivalsAreDecided` is for passes that go on (`PassesGoOn`), because a pass claims at most
`MaxItems` items (4, `services.py:283`) and an item it leaves pending makes no namespace
due.

### Where the code disagrees with its documents

1. *A dispatch whose worker died stays `dispatching`* (`outbox_stuck_dispatch`). Only tests
   call `DispatchService.recover_expired` (`application/services.py:570`).
   `docs/p3/acceptance.md:99` says an uncertain call becomes ambiguous.
2. *A recorded policy outcome poisons its agenda item* (`wake_poisoned`). The identity of an
   outcome is derived from the agenda item and its generation (`p5_services.py:829`,
   `services.py:294`), its content has the time of the claim (`p5_services.py:847`), and
   `_insert_policy_outcome` refuses a row of the same identity and another content
   (`p5_store.py:1064`). When the claim that recorded it does not commit, every later claim
   conflicts, is released, and ends the pass before reconciliation and dispatch; the
   worker loop swallows the error (`local/worker.py:28`). It ends with another cause of the
   same source or another answer of the policy. `docs/p5/golden-path.md:78-79` wants outcomes
   restart-safe. The record of a refused candidate has the same shape
   (`p4_store.py:686-729`).
3. *Admission and ingestion are two transactions* (`admission_replay`). A retry across a
   policy revision is admitted by the old outcome and ingested under the new revision
   (`p5_store.py:1371`, `p5_services.py:1090`); the same path ingests a trigger while the
   colleague is stopped, where the wake then ends as a no-op.

Seen while modelling, and not a run:

*Wake and dispatch*
- Only pending items age: one left selected by a dead worker does not (`store.py:1128`);
  `docs/p3/acceptance.md:90` promises that lower-priority work advances.
- `pending_namespaces` does not look at outbox rows left `claimed`, triggers left claimed, or
  agenda items, so that a namespace with only these waits for its next trigger
  (`p4_store.py:535`). No fault is needed for that: a pass claims at most four items
  (`services.py:283`), and a worker may spend all four on one source, whose next causes another
  worker coalesces meanwhile; then the item is pending and nobody is due. No document
  promises otherwise: `docs/p3/acceptance.md:91` bounds the work of a wake.
- The reconciliation budget counts finished calls: one whose claim is no longer live when it
  ends is not counted (`store.py:2048`), although `docs/p7/corrective-runtime-notes.md:13`
  calls it a call budget. Safety does not depend on the number of calls.
- The loop survives a `ConflictError` or a `PermissionDeniedError`. A lapsed approval is
  neither: `authorize_human_approval` raises an `AuthorizationError` of the core
  (`governance/approvals.py:192`), which ends the process, although the comment at
  `local/worker.py:29-31` says that changed authority fails the namespace closed without
  terminating the worker. The supervisor starts it again three times (`compose.p10.yaml:73`);
  the row stays claimed until its lease runs out and can end the process again, so that four
  such claims in a row leave every colleague of the host without a loop.
- A wake that raises ends the pass before reconciliation and dispatch (`p4_services.py:864-878`):
  under disagreement 2 an ambiguous effect of the same colleague waits with it.

*Admission*
- Of two requests with one key, the later may be charged to the revision it reads while the
  earlier ingests the trigger under the revision before (`p5_services.py:1043-1097`,
  `p5_store.py:1371`). The wake then ends as a no-op, although the budget was charged; so
  `ChargedOnce` asks for one charge of the key and not for one of the trigger's revision.
- "Policy is revalidated after model output but before proposal persistence"
  (`docs/p5/acceptance.md:49`) holds for what has changed by the first query after the model.
  A revision confirmed after that query is not noticed: the transaction that persists the
  proposal looks at the run state only (`p5_store.py:1175-1190`), so the proposal carries the
  revision that the wake began under. Nor is a policy noticed that is the first one, confirmed
  during a wake that began without any (`p5_services.py:936-938`). `NoOvertakenProposal` is about
  the rest, and about stops without exception.

*Authority*
- A draft that only reorders a collection of the mandate or the policy is shown as unchanged
  (`_collection_diff`, `p5_services.py:181`; `_classify_set`, `:136`), so that beside a change
  of the profile it needs no second administrator (`p6_store.py:2023`). `confirm_draft`
  compares in order (`p5_store.py:523`, `:543`) and gives the section a new revision, which
  withdraws pending proposals and approvals. `docs/p6/acceptance.md:188-190` wants the flow for
  each of these fields. `AuthorityAgreed` is therefore about what mandate and policy say.
- Narrowing an administrator is not removing one: `p6_store.py:2165` looks at role and
  status, not at scope; afterwards one administrator can act for the tenant and nobody can
  approve what they propose.
- `apply_draft` that names a decision about another draft marks its own, still applicable,
  proposal as stale. The transaction of an edit asks for the authority of the draft's author
  and not of its editor. A confirmation compares the stored digest with the one expected and
  does not compute it anew, as `docs/p5/acceptance.md` says.

*Deployments*
- A retired deployment comes back: `confirm_deployment_draft` makes every deployment it binds
  anew a draft (`p11_store.py:1260`), a retired one too; `docs/p11/acceptance.md:260` lists no
  transition from `retired`.
- `process_once` asks whether the deployment is active before the pass and not again
  (`p11_services.py:728`): a pass that has begun may still send one effect.
  `docs/p11/operations.md:29` says that paused and retired deployments do not execute.
- A rebinding draft's permission diff names revisions of profile, mandate and policy that its
  confirmation does not compare (`p11_services.py:515`, `p11_store.py:1253`).

*Backup and restore*
- `src/dc:405` takes the stack to run only if all four services do. A restore under a stack
  that runs in part loses its later commits or leaves its log beside another database; TLC
  refutes `NothingLost` without the operator who takes the services down first, as
  `docs/p10/operations.md:52` asks. A failing `compose ps` counts as not running.
- A crash between removing the log and replacing the database leaves the old file without
  what only the log held (`backup_restore.py:471`, against `docs/p8/operations.md:131`); only
  the rollback archive has it.
- The handler of HUP, INT and TERM releases the lock and lets the command go on; a killed
  command leaves the lock for ever, where `docs/p10/acceptance.md:237` speaks of a bounded one.
- `dc restore` always replaces, and so fails where no database is; without a database in
  place the files beside it are not removed (`backup_restore.py:457`). The directory of an
  archive is never synced. A purge insists on a verified backup, which it then deletes
  (`src/dc:611-632`).

## What is proved

`Outbox_proofs` proves, for every number of workers, effects, attempts and every length of
leases and back-off:

- `TypeCorrect` and `TablesAgree`: `TypeOK` and `AttemptsAgree` always hold, with or without
  recovery. The inductive invariant is `BaseInv` (types, and that each row, its attempts
  and the claims in memory fit) with `RowsAreApproved` (a row exists only for an approved
  proposal).
- `NeverResentBlindly`, `ExecutedAtMostOnce`, `VerdictsAreTruthful`, `OneDispatcherPerRow`,
  under `Punctual`: either nothing calls `recover_expired`, as is so in the code outside its
  tests, and workers may stall for as long as they like, or no worker outlives its lease
  (`SlowWorkers` is empty). Without either the four are false: TLC lets a slow worker send what
  was recovered. None of the four is inductive. At most once rests on what a worker in memory
  may still do: a worker that holds an old fencing token must not be able to send, and one
  that has sent must be the only one that may conclude. `SendInv` adds exactly this: who may
  be between start and finish of a row, what its fencing token is against the row's, and how
  the provider's `fate` of each attempt fits the attempt's state. With recovery it needs
  `TimelyClaims`, that no claim in memory has run out: a row whose lease has is nobody's any
  more, and its dispatcher can neither send nor conclude.
- `ImplementsPromise`, under the same assumption: every behaviour of `Outbox` is, through
  `Verdict`, a behaviour of `Effect`. Each step is shown to be a decision, an execution, a
  conclusion or a stutter of `Effect`, from `SendInv`.
- `DispatchedUnderAuthority`: `AuthorizedAtClaim` always holds, with or without recovery and
  however slow the workers. `mark_dispatch_started` looks at neither lease nor approval, so
  the property is about a check made earlier, by a worker that may have stalled since.
  `ClaimInv` says why the check still counts: a validated claim *that still matches its row*
  had its authority when the lease was taken (`ValidatedHeldAuthority`), which a claim that was
  taken over need not have had, and a lease is never counted from a future moment
  (`LeasesArePast`), so that a mandate revised later was revised after the claim.

`Wake_proofs` proves all six safety properties of the `wake` run, for every number of triggers,
sources and workers, every priority, due time and lease, with crashes and exceptions:
`TypeCorrect`, `CausesAreRetained`, `CheckpointsFollow`, `OneDecides`, `NeglectBounded` and
`ImplementsCoalescing`. `IInv` joins the properties with what the store and the services keep
up between two transactions:
- what a worker holds in memory exists (`ClaimsExist`);
- no two claims of an item ever had one fencing token, and none has a later one than the
  item (`Tokens`), so that the only claim a commit accepts is the newest;
- a claim that would be accepted is of causes not yet decided and names the newest of them
  (`ClaimsHold`, `NewestCause`), which is why a checkpoint never goes back;
- what a claim is about to commit is on record by that claim alone (`OutcomesStand`); without
  it `DecidedOnce` would not survive the commit.

Neglect is a counting argument. `Neglect` says more than `NeglectIsBounded`: the claims of
others that a pending item has seen are at most as many as there are items that starve less
than it does. A claim of another sets that item's starvation to zero and raises everybody
else's, so the claimed item joins that set, and it was not in it before, because the queue
takes the one that starves most. The item itself is never in its set, whence the bound.

The refinement goes step by step: `MaterializeAgenda` gathers a cause, `CommitDecision` decides
a batch up to the generation of its claim, everything else leaves causes and decisions as
they are.

`Governance_proofs` proves all five properties of the `governance` run, for every number of
people, credentials, changes and deadlines and every set of grants a change may propose:
`TypeCorrect`, `NeverBackToOne`, `SomebodyGoverns`, `ApprovalsAreUsedOnce` and
`ImplementsTwoPersonRule`. The conjunction of the first four is not inductive. That an applied
change never takes the last session of a governor rests on who agreed to it:
`ChangesStand` says of the proposer of every open change, and of the approver of every
approved one, that as long as the membership is at the revision noted in the change, its
owner still governs the tenant and still has a session (`StillGoverns`). Applying a change
asks for both revisions to be current, so two people with sessions govern at that moment
and one of them is not the target. `CredentialsStand` ties credentials to whom they enrol and
to the exception, `Founded` the tenant's start to its first member. The number of
administrators is followed action by action: one more, one fewer or the same ones
(`OneMoreAdmin`, `OneFewerAdmin`, `SameAdmins`); one fewer only where `KeepsTwo` held. In the
refinement each action is a motion, an agreement, an enrolment, an application of
`TwoPersonRule`, or a stutter.

`Deployment_proofs` proves all five properties of the `deployment` run, for every number of
packages, deployments, drafts and requests, and every limit: `TypeCorrect`,
`EachActiveHoldsASlot`, `NoChangeOverlooksAnother`, `NothingRunsUnseen` and
`ImplementsFleet`. The conjunction of the first four is inductive (`IInv`). It rests on
two facts: the slot handed out is free (`FreeSlotIsFree`, from the least element of a set of
numbers), and every change of a deployment raises its revision past whatever was based on
the one before. The limit follows by the pigeonhole principle: with a slot free, the active
deployments have pairwise different slots among the others (`RoomForOneMore`). The
refinement needs one more invariant, that a tenant without deployments has no legacy
package (`LegacyComesWithTheFirst`), since the first colleague brings it along.

`Restore_proofs` proves all three properties of the `restore` run, for every set of services
and every number of archives, files, commits and crashes: `TypeCorrect`, `NothingIsLost`,
`RestoresTheArchive`. That nothing is lost is not inductive by itself, because for a moment
of each restore the database lacks what its log held. `IInv` adds what the code arranges
around that moment: during a restore no service has a container (`Quiet`, unless
`careless`), from saving to replacing an archive holds all the database holds
(`RollbackKept`), once removed the log stays away until the end (`LogGone`), a running
service has open exactly the two files at the paths, so that what it commits is seen
(`Attached`), and a file that is not there holds nothing (`Grounded`).

`Admission_proofs` proves all five properties of the `admission` run, for every number of
callers (the run has one), keys, workers, drafts, policies, revisions and periods:
`TypeCorrect`, `BudgetIsKept`, `OneChargePerKey`, `ResumesOnlyAsAsked` and
`OvertakenProposesNothing`. A governed trigger is charged because of what its caller has in
memory between two transactions: `GovernedWasLetIn` says that a request about to ingest under
a revision holds an outcome that let it in, and `LetInIsCharged` that such an outcome goes
with a charge and belongs to one submission of its key. `ResumesWereAsked` says of a draft
that would end a stop if it were confirmed now that it was prepared during this stop: a
later stop, or any confirmation between, leaves it with an outdated base. That an overtaken
wake proposes nothing follows from where it can be: `OvertakenAreStale` says that, if it is
governed, it is still with the model and bound to an earlier revision, which the look after
the model will not pass. For that nothing may be bound to a revision still to come
(`NothingReadAhead`), and two wakes must not be of one trigger (`AwakeForATrigger`), or the
proposal of the one would be taken for the other's.

`Drafts_proofs` proves all four properties of the `drafts` run, for every number of
administrators, drafts and proposals, all contents, and every notion of what a diff sees of
them: `TypeCorrect`, `ConfirmedAsAWhole`, `UsedUpTogether` and `AgreementOfTwo`. One success for
each base needs `BasesArePast`: the base of a confirmed draft is no longer the current one,
and no base lies ahead, so none comes back. That a change of mandate or policy needs the
agreement rests on `WrittenForHead`: what a reviewable draft of the current base shows as
changed was compared with the very sections it would replace, and with the mandate revision
the policy would bind. The bound on deadlines and memberships that move is on their number, and bounds
the revision of each membership because what it counts is finite (`Moved`).

The only assumptions are those the modules state on their constants: positive numbers and
durations, finite sets.

Every safety property a run checks is thereby proved. Only model-checked are the liveness
properties (`AmbiguousSettles`, `PendingTaken`, `ArrivalsAreDecided`): TLAPS does not reason
about fairness with `ENABLED`, nor by induction over data.

## Not modelled

Escalation records, metrics, audit export, diagnostics and studio snapshots are projections
nothing reads back. HTTP details, TLS, tokens, CSRF, digests and canonical JSON are data:
an exact binding by digest is equality here. Migrations run before anything else does. The
studio and the CLI call the API. `transition_work` and the cycle check of `core/work.py` are
called by nothing in the application: work is assigned and stays as it is.

Parts that could be modelled and are not:
- the worker loop over several colleagues with its supervisor, and the gate in front of it;
- the adapters' classification of outcomes (`adapters/http_json/channel.py:106-146`), of which
  `Outbox` takes the result: any outcome that does not claim what did not happen. A
  time-out of a connection is a permanent failure there, an overloaded provider after the
  submission an ambiguous one;
- sessions before P6 and the choice of a session's colleague, which no other table reads.

## Plan

Done, in this order, the most important behaviour first: `Outbox` with its promise and its
proofs; `Wake` with its promise; `Governance` with its promise; `Admission`; `Deployment`
with its promise and its proofs; `Drafts`; `Restore` with its proofs; the policy outcomes of
`Wake`; the proofs of `Wake`, `Governance`, `Admission` and `Drafts`, of the authority at a
claim, and of `Outbox` with recovery.

Next:

1. `Worker`: the loop over several colleagues, composed with `Deployment`: what a pass that
   began under an active deployment may still do, and whether one colleague's errors hold up
   another's work under each restart policy.
2. A composition of `Admission` and `Wake`: budget consumption against wakes when several
   triggers coalesce under different policy revisions.
