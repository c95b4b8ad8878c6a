-------------------------------- MODULE Wake --------------------------------
(***************************************************************************)
(* From an event or a timer to a durable decision.                         *)
(*                                                                         *)
(* A trigger is claimed under a lease and a fencing token and materialised *)
(* into the agenda item of its source: causes of one source coalesce into  *)
(* one item, whose generation counts them.  A worker then claims the most  *)
(* neglected item, asks the intelligence adapter, and commits a decision   *)
(* for the generation it had claimed; causes that arrived meanwhile keep   *)
(* the item pending.  Of a colleague with a confirmed policy, the worker   *)
(* first records what the policy says of the wake.  Every store method is  *)
(* one transaction and one action.  A model call may take longer than the  *)
(* lease, so any worker may go on with a claim that another has taken over.*)
(***************************************************************************)
EXTENDS Naturals, Sequences

CONSTANTS
    NumTriggers,    \* triggers are numbered in the order of their identifiers
    Timers,         \* those that come from a timer, and may be due later
    NumItems,       \* agenda items, numbered in the order of their identifiers
    SourceOf,       \* the item a trigger's source key leads to
    Priority,       \* of each item, fixed when its first cause arrives
    Workers,        \* processes that may call process_once
    Headless,       \* those of them that run the local worker loop
    MaxItems,       \* items one run may select (4)
    LeaseDuration,  \* 30 seconds in the code
    Outcomes,       \* what a policy may say of a wake
    Unsaid,         \* that nothing is said
    Unasked,        \* items whose decisions need no word of a policy
    MaxTime,        \* bound: the clock stops here
    MaxFaults       \* bound: passes cut short by a crash or an exception

Triggers == 1..NumTriggers
Items == 1..NumItems

ASSUME ParametersAssumption ==
    /\ NumTriggers \in Nat
    /\ NumItems \in Nat
    /\ Timers \subseteq Triggers
    /\ SourceOf \in [Triggers -> Items]
    /\ Priority \in [Items -> Nat]
    /\ Headless \subseteq Workers
    /\ MaxItems \in Nat \ {0}
    /\ LeaseDuration \in Nat \ {0}
    /\ Unsaid \notin Outcomes
    /\ Unasked \subseteq Items
    /\ MaxTime \in Nat \ {0}
    /\ MaxFaults \in Nat

VARIABLES
    now,
    trigger,    \* triggers and timer_triggers rows
    item,       \* agenda_runtime rows
    wakes,      \* wake_cycle records
    decisions,  \* decision records
    recorded,   \* p5_policy_outcomes rows of wakes: by which claim
    worker,     \* volatile: what each process is in the middle of
    faults,
    passed      \* history: claims of other items since this one could be claimed

vars == <<now, trigger, item, wakes, decisions, recorded, worker, faults, passed>>

Idle == [pc |-> "idle", trigger |-> 0, item |-> 0, fencing |-> 0,
         generation |-> 0, wake |-> 0, outcome |-> Unsaid, left |-> 0]

\* What a policy said of a claim: the claim's fencing token stands for its time.
Verdicts == [item : Items, generation : Nat, outcome : Outcomes, claim : Nat]

TriggerRow == [state : {"absent", "pending", "claimed", "completed"},
               due : Nat, lease : Nat, fencing : Nat]
AgendaRow == [state : {"absent", "pending", "selected", "completed"},
              generation : Nat, handled : Nat, causes : Seq(Triggers),
              wake : Triggers \cup {0}, starvation : Nat, lease : Nat, fencing : Nat]
WakeCycle == [trigger : Triggers, fencing : Nat, generation : Nat,
              state : {"running", "completed"}]
Decision == [item : Items, generation : Nat, wake : Triggers,
             outcome : Outcomes \cup {Unsaid}, claim : Nat]
\* The claim a pass holds and what it knows of it.
Pass == [pc : {"idle", "materialize", "run", "decide", "commit"},
         trigger : Triggers \cup {0}, item : Items \cup {0},
         fencing : Nat, generation : Nat, wake : Triggers \cup {0},
         outcome : Outcomes \cup {Unsaid}, left : 0..MaxItems]

TypeOK ==
    /\ now \in 1..MaxTime
    /\ trigger \in [Triggers -> TriggerRow]
    /\ item \in [Items -> AgendaRow]
    /\ wakes \subseteq WakeCycle
    /\ decisions \subseteq Decision
    /\ recorded \subseteq Verdicts
    /\ worker \in [Workers -> Pass]
    /\ faults \in 0..MaxFaults
    /\ passed \in [Items -> Nat]

Init ==
    /\ now = 1
    /\ trigger = [t \in Triggers |->
                    [state |-> "absent", due |-> 0, lease |-> 0, fencing |-> 0]]
    /\ item = [i \in Items |->
                 [state |-> "absent", generation |-> 0, handled |-> 0, causes |-> <<>>,
                  wake |-> 0, starvation |-> 0, lease |-> 0, fencing |-> 0]]
    /\ wakes = {}
    /\ decisions = {}
    /\ recorded = {}
    /\ worker = [w \in Workers |-> Idle]
    /\ faults = 0
    /\ passed = [i \in Items |-> 0]

-----------------------------------------------------------------------------
(* Ingestion and scheduling                                                *)

\* An event is due as it arrives, a timer when its occurrence says.  A replay
\* of the same idempotency key changes nothing.
Ingest(t) ==
    /\ trigger[t].state = "absent"
    /\ \E due \in IF t \in Timers THEN now..MaxTime ELSE {now} :
         trigger' = [trigger EXCEPT ![t].state = "pending", ![t].due = due]
    /\ UNCHANGED <<now, item, wakes, decisions, recorded, worker, faults, passed>>

-----------------------------------------------------------------------------
(* A trigger becomes a cause of an agenda item                             *)

\* Fault: a timer can be claimed before it is due.
ClaimableEarly(t) ==
    \/ trigger[t].state = "pending"
    \/ trigger[t].state = "claimed" /\ trigger[t].lease < now

ClaimableTrigger(t) ==
    /\ trigger[t].due <= now
    /\ \/ trigger[t].state = "pending"
       \/ trigger[t].state = "claimed" /\ trigger[t].lease < now

\* ORDER BY due_at, trigger_id
Before(t, u) == \/ trigger[t].due < trigger[u].due
                \/ trigger[t].due = trigger[u].due /\ t <= u

ClaimTrigger(w) ==
    /\ worker[w].pc = "idle"
    /\ \E t \in Triggers :
         /\ ClaimableTrigger(t)
         /\ \A u \in Triggers : ClaimableTrigger(u) => Before(t, u)
         /\ trigger' = [trigger EXCEPT ![t].state = "claimed",
                                       ![t].lease = now + LeaseDuration,
                                       ![t].fencing = @ + 1]
         /\ worker' = [worker EXCEPT ![w] = [Idle EXCEPT !.pc = "materialize", !.trigger = t,
                                                        !.fencing = trigger[t].fencing + 1]]
    /\ UNCHANGED <<now, item, wakes, decisions, recorded, faults, passed>>

NoTrigger(w) ==
    /\ worker[w].pc = "idle"
    /\ \A t \in Triggers : ~ClaimableTrigger(t)
    /\ worker' = [worker EXCEPT ![w] = [Idle EXCEPT !.pc = "run", !.left = MaxItems]]
    /\ UNCHANGED <<now, trigger, item, wakes, decisions, recorded, faults, passed>>

\* A pass (process_once) begins with a trigger or without.
Begin(w) == ClaimTrigger(w) \/ NoTrigger(w)

\* The worker loop visits a namespace with a pending trigger, due or not.
\* (It also visits one with outbox work: module Outbox.)
NamespaceDue == \E t \in Triggers : trigger[t].state = "pending"
Scan(w) == w \in Headless /\ NamespaceDue /\ Begin(w)

\* POST /runtime/process, or a visit for the sake of the outbox.
Visit(w) == Begin(w)

\* The lease is not compared: an expired claim nobody took over still holds.
TriggerHeld(w) ==
    /\ trigger[worker[w].trigger].state = "claimed"
    /\ trigger[worker[w].trigger].fencing = worker[w].fencing

\* "Agenda cause replay was not coalesced safely"
Recorded(t) == \E k \in 1..Len(item[SourceOf[t]].causes) : item[SourceOf[t]].causes[k] = t

\* Fault: the cause is recorded without a new generation.
CoalescedSilently(row, t) ==
    [row EXCEPT !.generation = IF row.state = "absent" THEN 1 ELSE @,
                !.causes = Append(@, t), !.wake = t,
                !.state = IF @ = "selected" THEN @ ELSE "pending"]

\* Fault: the state of the wake cycle is written to the item.
CoalescedRunning(row, t) ==
    [row EXCEPT !.generation = @ + 1, !.causes = Append(@, t), !.wake = t,
                !.state = "running"]

\* Fault: the item is not opened for its cause.
CoalescedClosed(row, t) ==
    [row EXCEPT !.generation = @ + 1, !.causes = Append(@, t), !.wake = t]

\* The item with one more cause.  A worker that holds it keeps it.
Coalesced(row, t) ==
    [row EXCEPT !.generation = @ + 1, !.causes = Append(@, t), !.wake = t,
                !.state = IF @ = "selected" THEN @ ELSE "pending"]

Materialize(w) ==
    LET t == worker[w].trigger
        i == SourceOf[t]
        row == Coalesced(item[i], t) IN
    /\ worker[w].pc = "materialize"
    /\ TriggerHeld(w) /\ ~Recorded(t)
    /\ item' = [item EXCEPT ![i] = row]
    /\ wakes' = wakes \cup {[trigger |-> t, fencing |-> worker[w].fencing,
                             generation |-> row.generation, state |-> "running"]}
    /\ trigger' = [trigger EXCEPT ![t].state = "completed", ![t].lease = 0]
    /\ worker' = [worker EXCEPT ![w] = [Idle EXCEPT !.pc = "run", !.left = MaxItems]]
    /\ UNCHANGED <<now, decisions, recorded, faults, passed>>

\* ConflictError: the pass ends.
MaterializeStale(w) ==
    /\ worker[w].pc = "materialize"
    /\ ~TriggerHeld(w) \/ Recorded(worker[w].trigger)
    /\ worker' = [worker EXCEPT ![w] = Idle]
    /\ UNCHANGED <<now, trigger, item, wakes, decisions, recorded, faults, passed>>

-----------------------------------------------------------------------------
(* An agenda item is claimed and decided                                   *)

ClaimableItem(i) ==
    /\ item[i].generation > item[i].handled
    /\ \/ item[i].state = "pending"
       \/ item[i].state = "selected" /\ item[i].lease < now

\* Fault: attention goes to priority first.
PriorityFirst(i, j) ==
    \/ Priority[i] > Priority[j]
    \/ Priority[i] = Priority[j] /\ i <= j

\* ORDER BY starvation_count DESC, priority DESC, agenda_item_id
Precedes(i, j) ==
    \/ item[i].starvation > item[j].starvation
    \/ /\ item[i].starvation = item[j].starvation
       /\ \/ Priority[i] > Priority[j]
          \/ Priority[i] = Priority[j] /\ i <= j

\* The other pending items starve a little more; one whose lease has run out
\* is still selected and does not.
Starves(j, i) == j # i /\ item[j].generation > item[j].handled /\ item[j].state = "pending"

ClaimAgenda(w) ==
    /\ worker[w].pc = "run"
    /\ worker[w].left > 0
    /\ \E i \in Items :
         /\ ClaimableItem(i)
         /\ \A j \in Items : ClaimableItem(j) => Precedes(i, j)
         /\ item' = [j \in Items |->
              IF j = i
              THEN [item[i] EXCEPT !.state = "selected", !.starvation = 0,
                                   !.lease = now + LeaseDuration, !.fencing = @ + 1]
              ELSE [item[j] EXCEPT !.starvation = IF Starves(j, i) THEN @ + 1 ELSE @]]
         /\ passed' = [j \in Items |-> IF j = i THEN 0
                                       ELSE IF ClaimableItem(j) THEN passed[j] + 1
                                       ELSE passed[j]]
         /\ worker' = [worker EXCEPT ![w].pc = "decide", ![w].item = i,
                                     ![w].fencing = item[i].fencing + 1,
                                     ![w].generation = item[i].generation,
                                     ![w].wake = item[i].wake,
                                     ![w].left = @ - 1]
    /\ UNCHANGED <<now, trigger, wakes, decisions, recorded, faults>>

\* Nothing to claim, or the bound is reached; the pass goes on to the outbox.
EndRun(w) ==
    /\ worker[w].pc = "run"
    /\ worker[w].left = 0 \/ \A i \in Items : ~ClaimableItem(i)
    /\ worker' = [worker EXCEPT ![w] = Idle]
    /\ UNCHANGED <<now, trigger, item, wakes, decisions, recorded, faults, passed>>

\* Fault: the fencing token is not compared.
ItemHeldLoosely(w) == item[worker[w].item].state = "selected"

\* As for a trigger, the lease is not compared.
ItemHeld(w) ==
    /\ item[worker[w].item].state = "selected"
    /\ item[worker[w].item].fencing = worker[w].fencing

\* The outcome's identity names the generation and what the policy says of it.
OnRecord(w, o) == {v \in recorded : v.item = worker[w].item /\ v.outcome = o
                                     /\ v.generation = worker[w].generation}

\* Fault: a second claim records what the policy said of the first again.
RecordedAgain(w, o) == TRUE

Recordable(w, o) == OnRecord(w, o) = {}

\* A policy is asked, unless there is none, the item is a deterministic no-op,
\* or the adapter fails.
Asks(w) == worker[w].pc = "decide" /\ worker[w].item \notin Unasked

\* Once the adapter has answered (or, for a stale or stopped policy, before it
\* is asked) the outcome is recorded in a transaction of its own.
RecordOutcome(w) ==
    /\ Asks(w)
    /\ \E o \in Outcomes :
         /\ Recordable(w, o)
         /\ recorded' = recorded \cup {[item |-> worker[w].item, outcome |-> o,
                                        generation |-> worker[w].generation,
                                        claim |-> worker[w].fencing]}
         /\ worker' = [worker EXCEPT ![w].pc = "commit", ![w].outcome = o]
    /\ UNCHANGED <<now, trigger, item, wakes, decisions, faults, passed>>

\* Fault: the checkpoint moves to the newest generation.
CheckpointNewest(row, claimed) ==
    [row EXCEPT !.handled = row.generation, !.lease = 0, !.state = "completed"]

\* Fault: the item is completed although a cause arrived meanwhile.
CheckpointClosed(row, claimed) ==
    [row EXCEPT !.handled = claimed, !.lease = 0, !.state = "completed"]

Checkpoint(row, claimed) ==
    [row EXCEPT !.handled = IF @ > claimed THEN @ ELSE claimed,
                !.lease = 0,
                !.state = IF row.generation > claimed THEN "pending" ELSE "completed"]

\* The decision, or the DEFER decision for an adapter failure, is written with
\* the checkpoint and the wake cycle it was made in.
CommitDecision(w) ==
    LET c == worker[w] IN
    /\ c.pc = IF c.item \in Unasked THEN "decide" ELSE "commit"
    /\ ItemHeld(w)
    /\ \A d \in decisions : ~(d.item = c.item /\ d.generation = c.generation)
    /\ decisions' = decisions \cup
         {[item |-> c.item, generation |-> c.generation, wake |-> c.wake,
           outcome |-> c.outcome, claim |-> c.fencing]}
    /\ item' = [item EXCEPT ![c.item] = Checkpoint(@, c.generation)]
    /\ wakes' = {IF v.trigger = c.wake
                 THEN [v EXCEPT !.state = "completed", !.generation = c.generation]
                 ELSE v : v \in wakes}
    /\ passed' = [passed EXCEPT ![c.item] = 0]
    /\ worker' = [worker EXCEPT ![w] = [Idle EXCEPT !.pc = "run", !.left = c.left]]
    /\ UNCHANGED <<now, trigger, recorded, faults>>

\* A stale claim is a ConflictError, and release_agenda then fails as well.  (A
\* second decision of one identity would conflict too: DecidedOnce.)
CommitRefused(w) ==
    /\ worker[w].pc \in {"decide", "commit"}
    /\ ~ItemHeld(w)
    /\ worker' = [worker EXCEPT ![w] = Idle]
    /\ UNCHANGED <<now, trigger, item, wakes, decisions, recorded, faults, passed>>

\* release_agenda, and the pass ends.
Release(w) ==
    LET i == worker[w].item IN
    /\ ItemHeld(w)
    /\ faults < MaxFaults
    /\ faults' = faults + 1
    /\ item' = [item EXCEPT ![i].state = "pending", ![i].lease = 0]
    /\ passed' = [passed EXCEPT ![i] = 0]
    /\ worker' = [worker EXCEPT ![w] = Idle]
    /\ UNCHANGED <<now, trigger, wakes, decisions, recorded>>

\* Any other exception of the adapter.
ReleaseAgenda(w) == worker[w].pc = "decide" /\ Release(w)

\* "policy outcome identity was rebound": an earlier claim of this generation
\* recorded the same outcome, at another time.
ReboundOutcome(w) ==
    /\ Asks(w)
    /\ \E o \in Outcomes : ~Recordable(w, o)
    /\ Release(w)

-----------------------------------------------------------------------------

Crash(w) ==
    /\ worker[w].pc # "idle"
    /\ faults < MaxFaults
    /\ faults' = faults + 1
    /\ worker' = [worker EXCEPT ![w] = Idle]
    /\ UNCHANGED <<now, trigger, item, wakes, decisions, recorded, passed>>

Tick ==
    /\ now < MaxTime
    /\ now' = now + 1
    /\ UNCHANGED <<trigger, item, wakes, decisions, recorded, worker, faults, passed>>

\* A step of a pass under way.
PassStep(w) ==
    \/ Materialize(w) \/ MaterializeStale(w)
    \/ ClaimAgenda(w) \/ EndRun(w)
    \/ RecordOutcome(w) \/ ReboundOutcome(w)
    \/ CommitDecision(w) \/ CommitRefused(w)

Next ==
    \/ \E t \in Triggers : Ingest(t)
    \/ \E w \in Workers : Scan(w) \/ Visit(w) \/ PassStep(w) \/ ReleaseAgenda(w) \/ Crash(w)
    \/ Tick

\* A started pass runs on, the worker loop polls, and time passes.
Fairness ==
    /\ WF_vars(Tick)
    /\ \A w \in Workers : WF_vars(PassStep(w))
    /\ \A w \in Headless : SF_vars(Scan(w))

Spec == Init /\ [][Next]_vars /\ Fairness

-----------------------------------------------------------------------------
(* What the agenda promises                                                *)

\* Coalescing retains every cause (materialize_agenda): an item's generation
\* counts its causes, which are exactly the triggers of its source that were
\* completed, each once, none before it was due, each with one wake cycle.
CausesRetained ==
    /\ \A i \in Items :
         LET causes == item[i].causes IN
         /\ Len(causes) = item[i].generation
         /\ \A j, k \in 1..Len(causes) : causes[j] = causes[k] => j = k
         /\ {causes[k] : k \in 1..Len(causes)} =
              {t \in Triggers : SourceOf[t] = i /\ trigger[t].state = "completed"}
    /\ \A t \in Triggers : trigger[t].state \in {"claimed", "completed"} => trigger[t].due <= now
    /\ \A v \in wakes : /\ trigger[v.trigger].state = "completed"
                        /\ \A u \in wakes : u.trigger = v.trigger => u = v

\* A checkpoint says what was decided (commit_semantic_decision): the handled
\* generation is that of the latest decision, an item is completed exactly when
\* that covers all its causes, and a decision completes the wake cycle of the
\* newest cause it was shown, although later causes arrived while it was made.
CheckpointsFollowDecisions ==
    /\ \A i \in Items :
         LET made == {d \in decisions : d.item = i} IN
         /\ item[i].handled <= item[i].generation
         /\ item[i].state = "completed" => item[i].handled = item[i].generation
         /\ item[i].state \in {"pending", "selected"} => item[i].handled < item[i].generation
         /\ item[i].handled > 0 => \E d \in made : d.generation = item[i].handled
         /\ \A d \in made : /\ d.generation \in 1..item[i].handled
                            /\ d.wake = item[i].causes[d.generation]
    /\ \A d \in decisions : \E v \in wakes :
         v.trigger = d.wake /\ v.state = "completed" /\ v.generation = d.generation

\* A generation is decided at most once, at most one worker at a time holds a
\* claim on an item that a commit would accept, and what a policy said of a
\* decision is on record once, by the claim that made it: what an overtaken or
\* crashed claim recorded is never taken for the word on another's decision.
DecidedOnce ==
    /\ \A d, e \in decisions : d.item = e.item /\ d.generation = e.generation => d = e
    /\ \A v, w \in Workers :
         {worker[v].pc, worker[w].pc} \subseteq {"decide", "commit"}
         /\ worker[v].item = worker[w].item
         /\ ItemHeld(v) /\ ItemHeld(w) => v = w
    /\ \A d \in decisions : d.outcome # Unsaid =>
         {v \in recorded : v.item = d.item /\ v.generation = d.generation
                            /\ v.outcome = d.outcome}
           = {[item |-> d.item, generation |-> d.generation, outcome |-> d.outcome,
               claim |-> d.claim]}

\* The persisted starvation counter (claim_agenda) advances whatever waits: an
\* item that is pending sees every other item claimed at most once before it.
NeglectIsBounded == \A i \in Items : item[i].state = "pending" => passed[i] < NumItems

\* docs/p5/golden-path.md: "Confirm governed defer/no-op/refusal outcomes are
\* distinct, restart-safe": nothing that an earlier claim of the same generation
\* recorded turns away the claim that took over from it.
OutcomesRestartSafe == \A w \in Workers :
    Asks(w) /\ ItemHeld(w) => \A o \in Outcomes : Recordable(w, o)

\* While nothing crashes or raises an exception, and as long as passes go on, the
\* agenda is again and again emptied: every trigger that has arrived is decided
\* upon, although causes may arrive during a claim, claims may outlast their
\* leases, and a run stops at MaxItems and leaves the rest to a later pass.  (An
\* item so left makes no namespace due: another trigger, outbox work or a request
\* must bring that pass about.)
DecidedUpon(t) == \E k \in 1..item[SourceOf[t]].handled : item[SourceOf[t]].causes[k] = t
PassesGoOn == []<>(\E w \in Workers : worker[w].pc = "run")
ArrivalsAreDecided ==
    PassesGoOn =>
        []<>(faults > 0 \/ \A t \in Triggers : trigger[t].state = "absent" \/ DecidedUpon(t))

\* The agenda is a list of causes per source, decided in batches (Coalescing).
Promise == INSTANCE Coalescing WITH
    causes <- [i \in Items |-> item[i].causes],
    decided <- [i \in Items |-> item[i].handled],
    batches <- {[item |-> d.item, generation |-> d.generation, wake |-> d.wake] :
                 d \in decisions}
DecidesInBatches == Promise!Spec
=============================================================================
