----------------------------- MODULE Wake_proofs -----------------------------
(***************************************************************************)
(* Proofs about Wake for any number of triggers, items and workers, any    *)
(* sources and priorities, any lease and any bounds.                       *)
(***************************************************************************)
EXTENDS Wake, FiniteSets, FiniteSetTheorems, SequenceTheorems, TLAPS

\* A worker in the middle of a decision.
Deciding(w) == worker[w].pc \in {"decide", "commit"}

\* What a worker has claimed exists, and only of an item that a policy is asked
\* about does it hold an outcome.
ClaimsExist == \A w \in Workers :
    /\ worker[w].pc = "materialize" => worker[w].trigger \in Triggers
    /\ Deciding(w) => worker[w].item \in Items
    /\ worker[w].pc # "commit" => worker[w].outcome = Unsaid
    /\ worker[w].pc = "commit" => worker[w].outcome \in Outcomes

\* A claim that a commit would accept is of causes not decided yet, and names
\* the newest of them.
ClaimsHold == \A w \in Workers : Deciding(w) /\ ItemHeld(w) =>
    /\ item[worker[w].item].handled < worker[w].generation
    /\ worker[w].generation <= item[worker[w].item].generation
    /\ worker[w].wake = item[worker[w].item].causes[worker[w].generation]

\* No two claims of an item have one fencing token, and none has a later one
\* than the item.
Tokens ==
    /\ \A w \in Workers : Deciding(w) => worker[w].fencing <= item[worker[w].item].fencing
    /\ \A v, w \in Workers :
         Deciding(v) /\ Deciding(w) /\ worker[v].item = worker[w].item
         /\ worker[v].fencing = worker[w].fencing => v = w

\* An item names its newest cause.
NewestCause == \A i \in Items :
    item[i].generation > 0 => item[i].wake = item[i].causes[item[i].generation]

\* A cause has its wake cycle.
WakesExist == \A t \in Triggers :
    trigger[t].state = "completed" => \E v \in wakes : v.trigger = t

\* What a claim is about to commit is on record by that claim alone.
OutcomesStand == \A w \in Workers : worker[w].pc = "commit" =>
    OnRecord(w, worker[w].outcome)
      = {[item |-> worker[w].item, outcome |-> worker[w].outcome,
          generation |-> worker[w].generation, claim |-> worker[w].fencing]}

\* Who was claimed since an item could be starves less than the item.
StarvesLess(i) == {j \in Items : item[j].starvation < item[i].starvation}
Neglect == \A i \in Items :
    /\ item[i].state = "pending" => passed[i] <= Cardinality(StarvesLess(i))
    /\ item[i].state \in {"absent", "completed"} => passed[i] = 0

IInv ==
    /\ TypeOK
    /\ ClaimsExist
    /\ ClaimsHold
    /\ Tokens
    /\ NewestCause
    /\ WakesExist
    /\ OutcomesStand
    /\ Neglect
    /\ CausesRetained
    /\ CheckpointsFollowDecisions
    /\ DecidedOnce

\* What the invariant says at first.
LEMMA Initially == Init => IInv
<1>. SUFFICES ASSUME Init PROVE IInv
  OBVIOUS
<1>1. TypeOK
  BY ParametersAssumption DEF Init, TypeOK, Idle, TriggerRow, AgendaRow, Pass
<1>2. ClaimsExist /\ ClaimsHold /\ Tokens /\ OutcomesStand
  BY DEF Init, Idle, ClaimsExist, ClaimsHold, Tokens, OutcomesStand, Deciding
<1>3. NewestCause /\ WakesExist /\ CheckpointsFollowDecisions
  BY DEF Init, NewestCause, WakesExist, CheckpointsFollowDecisions
<1>4. CausesRetained
  BY DEF Init, CausesRetained, Triggers
<1>5. DecidedOnce
  BY DEF Init, DecidedOnce, Idle
<1>6. Neglect
  BY DEF Init, Neglect
<1>. QED  BY <1>1, <1>2, <1>3, <1>4, <1>5, <1>6 DEF IInv

-----------------------------------------------------------------------------
(* Types                                                                   *)

\* A coalesced row, field by field.
LEMMA CoalescedRow ==
    ASSUME NEW row \in AgendaRow, NEW t \in Triggers
    PROVE  /\ Coalesced(row, t) \in AgendaRow
           /\ Coalesced(row, t).generation = row.generation + 1
           /\ Coalesced(row, t).causes = Append(row.causes, t)
           /\ Coalesced(row, t).wake = t
           /\ Coalesced(row, t).state = IF row.state = "selected" THEN "selected" ELSE "pending"
           /\ Coalesced(row, t).handled = row.handled
           /\ Coalesced(row, t).starvation = row.starvation
           /\ Coalesced(row, t).lease = row.lease
           /\ Coalesced(row, t).fencing = row.fencing
<1>. DEFINE s == Append(row.causes, t)
<1>1. s \in Seq(Triggers)
  BY AppendProperties DEF AgendaRow
<1>2. Coalesced(row, t) = [row EXCEPT !.generation = row.generation + 1, !.causes = s, !.wake = t,
                !.state = IF row.state = "selected" THEN row.state ELSE "pending"]
  BY DEF Coalesced
<1>. HIDE DEF s
<1>3. Coalesced(row, t) = [state |-> IF row.state = "selected" THEN "selected" ELSE "pending",
                           generation |-> row.generation + 1, handled |-> row.handled,
                           causes |-> s, wake |-> t, starvation |-> row.starvation,
                           lease |-> row.lease, fencing |-> row.fencing]
  BY <1>2 DEF AgendaRow
<1>4. Coalesced(row, t) \in AgendaRow
  BY <1>1, <1>3 DEF AgendaRow
<1>. QED  BY <1>3, <1>4 DEF s

\* A checkpointed row, field by field, when the claim is of causes not handled.
LEMMA CheckpointRow ==
    ASSUME NEW row \in AgendaRow, NEW claimed \in Nat, row.handled < claimed,
           NEW new, new = Checkpoint(row, claimed)
    PROVE  /\ new \in AgendaRow
           /\ new.generation = row.generation /\ new.causes = row.causes
           /\ new.wake = row.wake /\ new.starvation = row.starvation
           /\ new.fencing = row.fencing /\ new.handled = claimed
           /\ new.state = IF row.generation > claimed THEN "pending" ELSE "completed"
<1>. DEFINE mark == IF row.handled > claimed THEN row.handled ELSE claimed
            status == IF row.generation > claimed THEN "pending" ELSE "completed"
<1>1. mark = claimed /\ status \in {"pending", "completed"}
  BY DEF AgendaRow
<1>2. new = [row EXCEPT !.handled = mark, !.lease = 0, !.state = status]
  BY DEF Checkpoint
<1>. HIDE DEF mark, status
<1>3. new = [row EXCEPT !.handled = claimed, !.lease = 0, !.state = status]
  BY <1>1, <1>2, Zenon
<1>4. LET r == [row EXCEPT !.handled = claimed, !.lease = 0, !.state = status] IN
      /\ r \in AgendaRow
      /\ r.generation = row.generation /\ r.causes = row.causes
      /\ r.wake = row.wake /\ r.starvation = row.starvation
      /\ r.fencing = row.fencing /\ r.handled = claimed /\ r.state = status
  BY <1>1 DEF AgendaRow
<1>. QED  BY <1>3, <1>4, Zenon DEF status

\* What an agenda claim makes of the row it claims, and of another's.
LEMMA ClaimedRow ==
    ASSUME NEW row \in AgendaRow, NEW until \in Nat, NEW token \in Nat
    PROVE  LET new == [row EXCEPT !.state = "selected", !.starvation = 0,
                                  !.lease = until, !.fencing = token] IN
           /\ new \in AgendaRow
           /\ new.generation = row.generation /\ new.handled = row.handled
           /\ new.causes = row.causes /\ new.wake = row.wake
           /\ new.state = "selected" /\ new.starvation = 0 /\ new.fencing = token
BY DEF AgendaRow

LEMMA PassedOverRow ==
    ASSUME NEW row \in AgendaRow, NEW starved \in BOOLEAN
    PROVE  LET new == [row EXCEPT !.starvation = IF starved THEN @ + 1 ELSE @] IN
           /\ new \in AgendaRow
           /\ new.generation = row.generation /\ new.handled = row.handled
           /\ new.causes = row.causes /\ new.wake = row.wake /\ new.state = row.state
           /\ new.fencing = row.fencing
           /\ new.starvation = IF starved THEN row.starvation + 1 ELSE row.starvation
BY DEF AgendaRow

\* A claim released.
LEMMA ReleasedRow ==
    ASSUME NEW row \in AgendaRow
    PROVE  LET new == [row EXCEPT !.state = "pending", !.lease = 0] IN
           /\ new \in AgendaRow
           /\ new.generation = row.generation /\ new.handled = row.handled
           /\ new.causes = row.causes /\ new.wake = row.wake /\ new.state = "pending"
           /\ new.fencing = row.fencing /\ new.starvation = row.starvation
BY DEF AgendaRow

\* The passes there are.
LEMMA Passes ==
    /\ Idle \in Pass
    /\ MaxItems \in 0..MaxItems
    /\ \A left \in 0..MaxItems : [Idle EXCEPT !.pc = "run", !.left = left] \in Pass
    /\ \A t \in Triggers, n \in Nat :
         [Idle EXCEPT !.pc = "materialize", !.trigger = t, !.fencing = n] \in Pass
<1>1. Idle \in Pass /\ MaxItems \in 0..MaxItems
  BY ParametersAssumption DEF Idle, Pass
<1>2. ASSUME NEW left \in 0..MaxItems
      PROVE  [Idle EXCEPT !.pc = "run", !.left = left] \in Pass
  BY <1>1 DEF Pass
<1>3. ASSUME NEW t \in Triggers, NEW n \in Nat
      PROVE  [Idle EXCEPT !.pc = "materialize", !.trigger = t, !.fencing = n] \in Pass
  BY <1>1 DEF Pass
<1>. QED  BY <1>1, <1>2, <1>3

-----------------------------------------------------------------------------
(* What the steps do, field by field                                       *)

\* What an item is apart from its claim.
SameCauses(i) ==
    /\ item'[i].generation = item[i].generation
    /\ item'[i].causes = item[i].causes
    /\ item'[i].wake = item[i].wake

OthersRest(w) == \A v \in Workers : v # w => worker'[v] = worker[v]

LEMMA IngestEffect ==
    ASSUME TypeOK, NEW t \in Triggers, Ingest(t)
    PROVE  /\ TypeOK'
           /\ trigger[t].state = "absent" /\ trigger'[t].state = "pending"
           /\ \A u \in Triggers : u # t => trigger'[u] = trigger[u]
<1>1. PICK due \in Nat :
        trigger' = [trigger EXCEPT ![t].state = "pending", ![t].due = due]
  <2>1. now..MaxTime \subseteq Nat /\ now \in Nat
    BY ParametersAssumption DEF TypeOK
  <2>. QED  BY <2>1, Zenon DEF Ingest
<1>2. trigger' \in [Triggers -> TriggerRow]
  BY <1>1 DEF TriggerRow, TypeOK
<1>. QED  BY <1>1, <1>2 DEF Ingest, TypeOK, TriggerRow

LEMMA ClaimTriggerEffect ==
    ASSUME TypeOK, NEW w \in Workers, ClaimTrigger(w)
    PROVE  /\ TypeOK'
           /\ worker[w].pc = "idle" /\ worker'[w].pc = "materialize"
           /\ worker'[w].trigger \in Triggers /\ worker'[w].outcome = Unsaid
           /\ OthersRest(w)
           /\ \E t \in Triggers :
                /\ trigger[t].state # "completed" /\ trigger[t].due <= now
                /\ trigger'[t].state = "claimed" /\ trigger'[t].due = trigger[t].due
                /\ \A u \in Triggers : u # t => trigger'[u] = trigger[u]
<1>1. PICK t \in Triggers :
        /\ ClaimableTrigger(t)
        /\ trigger' = [trigger EXCEPT ![t].state = "claimed",
                                      ![t].lease = now + LeaseDuration,
                                      ![t].fencing = @ + 1]
        /\ worker' = [worker EXCEPT ![w] = [Idle EXCEPT !.pc = "materialize", !.trigger = t,
                                                      !.fencing = trigger[t].fencing + 1]]
  BY DEF ClaimTrigger
<1>2. /\ trigger \in [Triggers -> TriggerRow] /\ worker \in [Workers -> Pass]
      /\ now + LeaseDuration \in Nat
  BY ParametersAssumption DEF TypeOK
<1>3. trigger' \in [Triggers -> TriggerRow] /\ trigger[t].fencing + 1 \in Nat
  BY <1>1, <1>2 DEF TriggerRow
<1>4. worker' \in [Workers -> Pass]
  BY <1>1, <1>2, <1>3, Passes
<1>5. TypeOK'
  BY <1>3, <1>4 DEF ClaimTrigger, TypeOK
<1>6. /\ worker'[w] = [Idle EXCEPT !.pc = "materialize", !.trigger = t,
                                   !.fencing = trigger[t].fencing + 1]
      /\ OthersRest(w)
  BY <1>1, <1>2 DEF OthersRest
<1>7. /\ worker'[w].pc = "materialize" /\ worker'[w].trigger = t
      /\ worker'[w].outcome = Unsaid
  BY <1>6 DEF Idle
<1>8. /\ trigger[t].state # "completed" /\ trigger[t].due <= now
      /\ trigger'[t].state = "claimed" /\ trigger'[t].due = trigger[t].due
      /\ \A u \in Triggers : u # t => trigger'[u] = trigger[u]
  BY <1>1, <1>2 DEF ClaimableTrigger, TriggerRow
<1>9. worker[w].pc = "idle"
  BY DEF ClaimTrigger
<1>. QED  BY <1>5, <1>6, <1>7, <1>8, <1>9

LEMMA MaterializeEffect ==
    ASSUME TypeOK, ClaimsExist, NEW w \in Workers, Materialize(w)
    PROVE  LET t == worker[w].trigger
               i == SourceOf[t] IN
           /\ TypeOK' /\ t \in Triggers /\ i \in Items
           /\ trigger[t].state = "claimed" /\ trigger'[t].state = "completed"
           /\ trigger'[t].due = trigger[t].due
           /\ \A u \in Triggers : u # t => trigger'[u] = trigger[u]
           /\ item'[i].causes = Append(item[i].causes, t) /\ item'[i].wake = t
           /\ item'[i].generation = item[i].generation + 1
           /\ item'[i].handled = item[i].handled
           /\ item'[i].starvation = item[i].starvation /\ item'[i].fencing = item[i].fencing
           /\ item'[i].state = IF item[i].state = "selected" THEN "selected" ELSE "pending"
           /\ \A j \in Items : j # i => item'[j] = item[j]
           /\ \E v \in WakeCycle : v.trigger = t /\ wakes' = wakes \cup {v}
           /\ worker[w].pc = "materialize" /\ worker'[w].pc = "run"
           /\ worker'[w].outcome = Unsaid
           /\ OthersRest(w)
           /\ UNCHANGED <<now, decisions, recorded, faults, passed>>
<1>. DEFINE t == worker[w].trigger
            i == SourceOf[t]
            row == Coalesced(item[i], t)
<1>1. /\ trigger \in [Triggers -> TriggerRow] /\ item \in [Items -> AgendaRow]
      /\ worker \in [Workers -> Pass] /\ worker[w].fencing \in Nat
  BY DEF TypeOK, Pass
<1>2. t \in Triggers /\ i \in Items
  BY ParametersAssumption DEF ClaimsExist, Materialize
<1>3. /\ row \in AgendaRow
      /\ row.causes = Append(item[i].causes, t) /\ row.wake = t
      /\ row.generation = item[i].generation + 1 /\ row.handled = item[i].handled
      /\ row.starvation = item[i].starvation /\ row.fencing = item[i].fencing
      /\ row.state = IF item[i].state = "selected" THEN "selected" ELSE "pending"
  BY <1>1, <1>2, CoalescedRow
<1>4. /\ worker[w].pc = "materialize" /\ trigger[t].state = "claimed"
      /\ item' = [item EXCEPT ![i] = row]
      /\ wakes' = wakes \cup {[trigger |-> t, fencing |-> worker[w].fencing,
                               generation |-> row.generation, state |-> "running"]}
      /\ trigger' = [trigger EXCEPT ![t].state = "completed", ![t].lease = 0]
      /\ worker' = [worker EXCEPT ![w] = [Idle EXCEPT !.pc = "run", !.left = MaxItems]]
      /\ UNCHANGED <<now, decisions, recorded, faults, passed>>
  BY DEF Materialize, TriggerHeld
<1>. HIDE DEF row
<1>5. item' \in [Items -> AgendaRow] /\ item'[i] = row
      /\ \A j \in Items : j # i => item'[j] = item[j]
  BY <1>1, <1>2, <1>3, <1>4
<1>6. /\ trigger' \in [Triggers -> TriggerRow] /\ trigger'[t].state = "completed"
      /\ trigger'[t].due = trigger[t].due
      /\ \A u \in Triggers : u # t => trigger'[u] = trigger[u]
  BY <1>1, <1>2, <1>4 DEF TriggerRow
<1>7. worker' \in [Workers -> Pass] /\ OthersRest(w)
  BY <1>1, <1>4, Passes DEF OthersRest
<1>8. worker'[w].pc = "run" /\ worker'[w].outcome = Unsaid
  BY <1>1, <1>4 DEF Idle
<1>. DEFINE v == [trigger |-> t, fencing |-> worker[w].fencing,
                  generation |-> row.generation, state |-> "running"]
<1>9. v \in WakeCycle /\ v.trigger = t /\ wakes' = wakes \cup {v}
  <2>1. row.generation \in Nat
    BY <1>3 DEF AgendaRow
  <2>. QED  BY <1>1, <1>2, <1>4, <2>1 DEF WakeCycle
<1>. HIDE DEF v
<1>10. TypeOK'
  BY <1>4, <1>5, <1>6, <1>7, <1>9 DEF TypeOK
<1>. QED  BY <1>2, <1>3, <1>4, <1>5, <1>6, <1>7, <1>8, <1>9, <1>10

LEMMA ClaimAgendaEffect ==
    ASSUME TypeOK, NEW w \in Workers, ClaimAgenda(w)
    PROVE  \E i \in Items :
           /\ TypeOK'
           /\ ClaimableItem(i) /\ \A j \in Items : ClaimableItem(j) => Precedes(i, j)
           /\ \A j \in Items : SameCauses(j) /\ item'[j].handled = item[j].handled
           /\ item'[i].state = "selected" /\ item'[i].starvation = 0
           /\ item'[i].fencing = item[i].fencing + 1
           /\ \A j \in Items : j # i =>
                /\ item'[j].state = item[j].state /\ item'[j].fencing = item[j].fencing
                /\ item'[j].starvation = IF Starves(j, i) THEN item[j].starvation + 1
                                         ELSE item[j].starvation
           /\ passed' = [j \in Items |-> IF j = i THEN 0
                                         ELSE IF ClaimableItem(j) THEN passed[j] + 1
                                         ELSE passed[j]]
           /\ worker[w].pc = "run" /\ worker'[w].pc = "decide"
           /\ worker'[w].item = i /\ worker'[w].fencing = item[i].fencing + 1
           /\ worker'[w].generation = item[i].generation /\ worker'[w].wake = item[i].wake
           /\ worker'[w].outcome = worker[w].outcome
           /\ OthersRest(w)
           /\ UNCHANGED <<now, trigger, wakes, decisions, recorded, faults>>
<1>1. PICK i \in Items :
        /\ ClaimableItem(i) /\ \A j \in Items : ClaimableItem(j) => Precedes(i, j)
        /\ item' = [j \in Items |->
             IF j = i
             THEN [item[i] EXCEPT !.state = "selected", !.starvation = 0,
                                  !.lease = now + LeaseDuration, !.fencing = item[i].fencing + 1]
             ELSE [item[j] EXCEPT !.starvation = IF Starves(j, i) THEN @ + 1 ELSE @]]
        /\ passed' = [j \in Items |-> IF j = i THEN 0
                                      ELSE IF ClaimableItem(j) THEN passed[j] + 1
                                      ELSE passed[j]]
        /\ worker' = [worker EXCEPT ![w].pc = "decide", ![w].item = i,
                                    ![w].fencing = item[i].fencing + 1,
                                    ![w].generation = item[i].generation,
                                    ![w].wake = item[i].wake,
                                    ![w].left = @ - 1]
  BY Zenon DEF ClaimAgenda
<1>2. /\ item \in [Items -> AgendaRow] /\ worker \in [Workers -> Pass]
      /\ now + LeaseDuration \in Nat
      /\ item[i].fencing + 1 \in Nat /\ item[i].generation \in Nat
      /\ item[i].wake \in Triggers \cup {0}
  <2>1. /\ item \in [Items -> AgendaRow] /\ worker \in [Workers -> Pass]
        /\ now + LeaseDuration \in Nat
    BY ParametersAssumption DEF TypeOK
  <2>2. item[i] \in AgendaRow
    BY <2>1
  <2>. QED  BY <2>1, <2>2 DEF AgendaRow
<1>3. /\ item'[i] \in AgendaRow /\ SameCauses(i) /\ item'[i].handled = item[i].handled
      /\ item'[i].state = "selected" /\ item'[i].starvation = 0
      /\ item'[i].fencing = item[i].fencing + 1
  <2>1. item'[i] = [item[i] EXCEPT !.state = "selected", !.starvation = 0,
                         !.lease = now + LeaseDuration, !.fencing = item[i].fencing + 1]
    BY <1>1
  <2>2. item[i] \in AgendaRow
    BY <1>2
  <2>. DEFINE until == now + LeaseDuration
              token == item[i].fencing + 1
  <2>3. until \in Nat /\ token \in Nat
    BY <1>2
  <2>4. token = item[i].fencing + 1
    OBVIOUS
  <2>. HIDE DEF until, token
  <2>5. item'[i] = [item[i] EXCEPT !.state = "selected", !.starvation = 0,
                                   !.lease = until, !.fencing = token]
    BY <2>1, Zenon DEF until, token
  <2>6. /\ item'[i] \in AgendaRow
        /\ item'[i].generation = item[i].generation /\ item'[i].handled = item[i].handled
        /\ item'[i].causes = item[i].causes /\ item'[i].wake = item[i].wake
        /\ item'[i].state = "selected" /\ item'[i].starvation = 0
        /\ item'[i].fencing = token
    <3>. DEFINE old == item[i]
                new == item'[i]
    <3>1. old \in AgendaRow
      BY <2>2
    <3>2. new = [old EXCEPT !.state = "selected", !.starvation = 0,
                            !.lease = until, !.fencing = token]
      BY <2>5
    <3>. HIDE DEF old, new
    <3>3. /\ new \in AgendaRow
          /\ new.generation = old.generation /\ new.handled = old.handled
          /\ new.causes = old.causes /\ new.wake = old.wake
          /\ new.state = "selected" /\ new.starvation = 0 /\ new.fencing = token
      BY <2>3, <3>1, <3>2 DEF AgendaRow
    <3>. QED  BY <3>3 DEF old, new
  <2>. QED  BY <2>4, <2>6 DEF SameCauses
<1>4. ASSUME NEW j \in Items, j # i
      PROVE  /\ item'[j] \in AgendaRow /\ SameCauses(j) /\ item'[j].handled = item[j].handled
             /\ item'[j].state = item[j].state /\ item'[j].fencing = item[j].fencing
             /\ item'[j].starvation = IF Starves(j, i) THEN item[j].starvation + 1
                                      ELSE item[j].starvation
  <2>1. item[j] \in AgendaRow /\ Starves(j, i) \in BOOLEAN
    BY <1>2 DEF Starves
  <2>2. item'[j] = [item[j] EXCEPT !.starvation = IF Starves(j, i) THEN @ + 1 ELSE @]
    BY <1>1, <1>4
  <2>. QED  BY <2>1, <2>2, PassedOverRow DEF SameCauses
<1>5. item' \in [Items -> AgendaRow]
  BY <1>1, <1>3, <1>4
<1>6. passed' \in [Items -> Nat]
  BY <1>1 DEF TypeOK
<1>7. /\ worker[w].pc = "run" /\ worker'[w].pc = "decide"
      /\ worker'[w].item = i /\ worker'[w].fencing = item[i].fencing + 1
      /\ worker'[w].generation = item[i].generation /\ worker'[w].wake = item[i].wake
      /\ worker'[w].outcome = worker[w].outcome
      /\ OthersRest(w)
  <2>1. worker[w].pc = "run" /\ worker[w] \in Pass
    BY <1>2 DEF ClaimAgenda
  <2>2. /\ worker'[w] = [worker[w] EXCEPT !.pc = "decide", !.item = i,
                                    !.fencing = item[i].fencing + 1,
                                    !.generation = item[i].generation,
                                    !.wake = item[i].wake, !.left = @ - 1]
        /\ OthersRest(w)
    BY <1>1, <1>2 DEF OthersRest
  <2>. QED  BY <2>1, <2>2 DEF Pass
<1>8. worker' \in [Workers -> Pass]
  <2>1. worker[w] \in Pass /\ worker[w].left - 1 \in 0..MaxItems
    BY <1>2, ParametersAssumption DEF ClaimAgenda, Pass
  <2>. QED  BY <1>1, <1>2, <2>1 DEF Pass
<1>9. TypeOK'
  BY <1>5, <1>6, <1>8 DEF ClaimAgenda, TypeOK
<1>10. UNCHANGED <<now, trigger, wakes, decisions, recorded, faults>>
  BY DEF ClaimAgenda
<1>. QED  BY <1>1, <1>3, <1>4, <1>7, <1>9, <1>10

LEMMA RecordOutcomeEffect ==
    ASSUME TypeOK, ClaimsExist, NEW w \in Workers, RecordOutcome(w)
    PROVE  \E o \in Outcomes :
           /\ TypeOK'
           /\ OnRecord(w, o) = {}
           /\ recorded' = recorded \cup {[item |-> worker[w].item, outcome |-> o,
                                          generation |-> worker[w].generation,
                                          claim |-> worker[w].fencing]}
           /\ worker[w].pc = "decide" /\ worker'[w].pc = "commit"
           /\ worker'[w].item = worker[w].item /\ worker'[w].fencing = worker[w].fencing
           /\ worker'[w].generation = worker[w].generation
           /\ worker'[w].wake = worker[w].wake /\ worker'[w].outcome = o
           /\ OthersRest(w)
           /\ UNCHANGED <<now, trigger, item, wakes, decisions, faults, passed>>
<1>1. PICK o \in Outcomes :
        /\ OnRecord(w, o) = {}
        /\ recorded' = recorded \cup {[item |-> worker[w].item, outcome |-> o,
                                       generation |-> worker[w].generation,
                                       claim |-> worker[w].fencing]}
        /\ worker' = [worker EXCEPT ![w].pc = "commit", ![w].outcome = o]
  BY DEF RecordOutcome, Recordable
<1>2. /\ worker \in [Workers -> Pass] /\ worker[w].pc = "decide" /\ worker[w].item \in Items
      /\ UNCHANGED <<now, trigger, item, wakes, decisions, faults, passed>>
  BY DEF TypeOK, ClaimsExist, Deciding, RecordOutcome, Asks
<1>3. recorded' \subseteq Verdicts
  BY <1>1, <1>2 DEF TypeOK, Verdicts, Pass
<1>4. worker' \in [Workers -> Pass]
  <2>1. [worker[w] EXCEPT !.pc = "commit", !.outcome = o] \in Pass
    BY <1>2 DEF Pass
  <2>2. worker' = [worker EXCEPT ![w] = [worker[w] EXCEPT !.pc = "commit", !.outcome = o]]
    BY <1>1, <1>2
  <2>. QED  BY <1>2, <2>1, <2>2
<1>5. /\ worker'[w].pc = "commit" /\ worker'[w].item = worker[w].item
      /\ worker'[w].fencing = worker[w].fencing
      /\ worker'[w].generation = worker[w].generation
      /\ worker'[w].wake = worker[w].wake /\ worker'[w].outcome = o
      /\ OthersRest(w)
  BY <1>1, <1>2 DEF OthersRest, Pass
<1>6. TypeOK'
  BY <1>2, <1>3, <1>4 DEF TypeOK
<1>. QED  BY <1>1, <1>2, <1>5, <1>6

\* The wake cycle of the newest cause a claim was shown is completed.
Completed(v, c) ==
    IF v.trigger = c.wake THEN [v EXCEPT !.state = "completed", !.generation = c.generation]
    ELSE v

LEMMA CompletedCycle ==
    ASSUME NEW v \in WakeCycle, NEW c \in Pass
    PROVE  /\ Completed(v, c) \in WakeCycle
           /\ Completed(v, c).trigger = v.trigger
           /\ v.trigger # c.wake => Completed(v, c) = v
           /\ v.trigger = c.wake => /\ Completed(v, c).state = "completed"
                                    /\ Completed(v, c).generation = c.generation
BY DEF Completed, WakeCycle, Pass

LEMMA CommitDecisionEffect ==
    ASSUME TypeOK, ClaimsExist, ClaimsHold, CausesRetained, NEW w \in Workers, CommitDecision(w)
    PROVE  LET c == worker[w]
               i == c.item
               d == [item |-> i, generation |-> c.generation, wake |-> c.wake,
                     outcome |-> c.outcome, claim |-> c.fencing] IN
           /\ TypeOK'
           /\ Deciding(w) /\ ItemHeld(w) /\ i \in Items /\ c \in Pass
           /\ c.pc = "commit" \/ c.outcome = Unsaid
           /\ item[i].handled < c.generation /\ c.generation <= item[i].generation
           /\ c.wake = item[i].causes[c.generation] /\ c.wake \in Triggers
           /\ \A e \in decisions : ~(e.item = i /\ e.generation = c.generation)
           /\ d \in Decision /\ decisions' = decisions \cup {d}
           /\ SameCauses(i) /\ item'[i].handled = c.generation
           /\ item'[i].starvation = item[i].starvation /\ item'[i].fencing = item[i].fencing
           /\ item'[i].state = IF item[i].generation > c.generation THEN "pending"
                               ELSE "completed"
           /\ \A j \in Items : j # i => item'[j] = item[j]
           /\ wakes' = {Completed(v, c) : v \in wakes}
           /\ passed' = [passed EXCEPT ![i] = 0]
           /\ worker'[w].pc = "run" /\ worker'[w].outcome = Unsaid
           /\ OthersRest(w)
           /\ UNCHANGED <<now, trigger, recorded, faults>>
<1>. DEFINE c == worker[w]
            i == c.item
            d == [item |-> i, generation |-> c.generation, wake |-> c.wake,
                  outcome |-> c.outcome, claim |-> c.fencing]
            row == Checkpoint(item[i], c.generation)
<1>1. /\ Deciding(w) /\ ItemHeld(w)
      /\ \A e \in decisions : ~(e.item = i /\ e.generation = c.generation)
      /\ decisions' = decisions \cup {d}
      /\ item' = [item EXCEPT ![i] = row]
      /\ wakes' = {Completed(v, c) : v \in wakes}
      /\ passed' = [passed EXCEPT ![i] = 0]
      /\ worker' = [worker EXCEPT ![w] = [Idle EXCEPT !.pc = "run", !.left = c.left]]
      /\ UNCHANGED <<now, trigger, recorded, faults>>
  BY DEF CommitDecision, Deciding, Completed
<1>2. /\ item \in [Items -> AgendaRow] /\ worker \in [Workers -> Pass] /\ c \in Pass
      /\ i \in Items /\ item[i] \in AgendaRow
      /\ wakes \subseteq WakeCycle /\ decisions \subseteq Decision /\ passed \in [Items -> Nat]
  BY <1>1 DEF TypeOK, ClaimsExist
<1>3. /\ c.generation \in Nat /\ c.fencing \in Nat /\ c.left \in 0..MaxItems
      /\ c.outcome \in Outcomes \cup {Unsaid}
      /\ item[i].generation \in Nat /\ item[i].handled \in Nat
      /\ item[i].causes \in Seq(Triggers)
  BY <1>2 DEF Pass, AgendaRow
<1>4. /\ item[i].handled < c.generation /\ c.generation <= item[i].generation
      /\ c.wake = item[i].causes[c.generation]
      /\ item[i].generation = Len(item[i].causes)
      /\ c.pc = "commit" \/ c.outcome = Unsaid
  BY <1>1, <1>2 DEF ClaimsHold, CausesRetained, ClaimsExist, Deciding
<1>5. c.wake \in Triggers
  <2>1. c.generation \in 1..Len(item[i].causes)
    BY <1>3, <1>4
  <2>. QED  BY <1>3, <1>4, <2>1, ElementOfSeq
<1>6. d \in Decision
  BY <1>2, <1>3, <1>5 DEF Decision
<1>7. /\ row \in AgendaRow /\ row.handled = c.generation
      /\ row.generation = item[i].generation /\ row.causes = item[i].causes
      /\ row.wake = item[i].wake /\ row.starvation = item[i].starvation
      /\ row.fencing = item[i].fencing
      /\ row.state = IF item[i].generation > c.generation THEN "pending" ELSE "completed"
  <2>. DEFINE old == item[i]
              claimed == c.generation
  <2>1. old \in AgendaRow /\ claimed \in Nat /\ old.handled \in Nat /\ old.handled < claimed
    BY <1>2, <1>3, <1>4
  <2>2. row = Checkpoint(old, claimed)
    OBVIOUS
  <2>. HIDE DEF old, claimed, row
  <2>3. /\ row \in AgendaRow /\ row.handled = claimed
        /\ row.generation = old.generation /\ row.causes = old.causes
        /\ row.wake = old.wake /\ row.starvation = old.starvation
        /\ row.fencing = old.fencing
        /\ row.state = IF old.generation > claimed THEN "pending" ELSE "completed"
    BY <2>1, <2>2, CheckpointRow
  <2>. QED  BY <2>3 DEF old, claimed
<1>. HIDE DEF row, d
<1>8. /\ item' \in [Items -> AgendaRow] /\ item'[i] = row
      /\ \A j \in Items : j # i => item'[j] = item[j]
  BY <1>1, <1>2, <1>7
<1>9. decisions' \subseteq Decision /\ wakes' \subseteq WakeCycle /\ passed' \in [Items -> Nat]
  BY <1>1, <1>2, <1>6, CompletedCycle
<1>10. /\ worker' \in [Workers -> Pass] /\ OthersRest(w)
       /\ worker'[w] = [Idle EXCEPT !.pc = "run", !.left = c.left]
  BY <1>1, <1>2, <1>3, Passes DEF OthersRest
<1>11. worker'[w].pc = "run" /\ worker'[w].outcome = Unsaid
  BY <1>10 DEF Idle
<1>12. TypeOK'
  BY <1>1, <1>8, <1>9, <1>10 DEF TypeOK
<1>13. SameCauses(i)
  BY <1>7, <1>8 DEF SameCauses
<1>. QED  BY <1>1, <1>2, <1>4, <1>5, <1>6, <1>7, <1>8, <1>10, <1>11, <1>12, <1>13 DEF d

LEMMA ReleaseEffect ==
    ASSUME TypeOK, ClaimsExist, NEW w \in Workers, Release(w), Deciding(w)
    PROVE  LET i == worker[w].item IN
           /\ TypeOK' /\ i \in Items /\ item[i].state = "selected"
           /\ SameCauses(i) /\ item'[i].handled = item[i].handled
           /\ item'[i].starvation = item[i].starvation /\ item'[i].fencing = item[i].fencing
           /\ item'[i].state = "pending"
           /\ \A j \in Items : j # i => item'[j] = item[j]
           /\ passed' = [passed EXCEPT ![i] = 0]
           /\ worker' = [worker EXCEPT ![w] = Idle]
           /\ UNCHANGED <<now, trigger, wakes, decisions, recorded>>
<1>. DEFINE i == worker[w].item
            row == [item[i] EXCEPT !.state = "pending", !.lease = 0]
<1>1. /\ item[i].state = "selected" /\ i \in Items
      /\ item \in [Items -> AgendaRow] /\ worker \in [Workers -> Pass]
      /\ passed \in [Items -> Nat] /\ faults < MaxFaults /\ faults' = faults + 1
      /\ passed' = [passed EXCEPT ![i] = 0]
      /\ worker' = [worker EXCEPT ![w] = Idle]
      /\ UNCHANGED <<now, trigger, wakes, decisions, recorded>>
  BY DEF Release, ItemHeld, TypeOK, ClaimsExist
<1>2. item' = [item EXCEPT ![i] = row]
  BY <1>1 DEF Release
<1>3. /\ row \in AgendaRow
      /\ row.generation = item[i].generation /\ row.handled = item[i].handled
      /\ row.causes = item[i].causes /\ row.wake = item[i].wake /\ row.state = "pending"
      /\ row.fencing = item[i].fencing /\ row.starvation = item[i].starvation
  BY <1>1, ReleasedRow
<1>. HIDE DEF row
<1>4. /\ item' \in [Items -> AgendaRow] /\ item'[i] = row
      /\ \A j \in Items : j # i => item'[j] = item[j]
  BY <1>1, <1>2, <1>3
<1>5. worker' \in [Workers -> Pass] /\ passed' \in [Items -> Nat]
  BY <1>1, Passes
<1>6. faults' \in 0..MaxFaults
  BY <1>1, ParametersAssumption DEF TypeOK
<1>7. TypeOK'
  BY <1>1, <1>4, <1>5, <1>6 DEF TypeOK
<1>. QED  BY <1>1, <1>3, <1>4, <1>7 DEF SameCauses

-----------------------------------------------------------------------------
(* Steps that leave the agenda and its decisions alone                     *)

\* A worker that is not in the middle of a decision, after a step of its own.
LEMMA NotDeciding ==
    ASSUME ClaimsExist, Tokens, OutcomesStand, NEW w \in Workers, OthersRest(w),
           worker'[w].pc \in {"idle", "materialize", "run"}, worker'[w].outcome = Unsaid,
           worker'[w].pc = "materialize" => worker'[w].trigger \in Triggers,
           recorded' = recorded, \A i \in Items : item'[i].fencing = item[i].fencing
    PROVE  ClaimsExist' /\ Tokens' /\ OutcomesStand'
<1>1. \A v \in Workers : v # w => worker'[v] = worker[v]
  BY DEF OthersRest
<1>2. ClaimsExist'
  BY <1>1 DEF ClaimsExist, Deciding
<1>3. Tokens'
  BY <1>1 DEF Tokens, Deciding, ClaimsExist
<1>4. OutcomesStand'
  BY <1>1 DEF OutcomesStand, OnRecord
<1>. QED  BY <1>2, <1>3, <1>4

\* At most one worker holds a claim that a commit would accept: two would have
\* the item's fencing token.
HeldOnce == \A v, w \in Workers :
    {worker[v].pc, worker[w].pc} \subseteq {"decide", "commit"}
    /\ worker[v].item = worker[w].item
    /\ ItemHeld(v) /\ ItemHeld(w) => v = w

LEMMA TokensHoldOnce == Tokens => HeldOnce
BY DEF Tokens, HeldOnce, Deciding, ItemHeld

LEMMA TokensHoldOnceNext == Tokens' => HeldOnce'
BY DEF Tokens, HeldOnce, Deciding, ItemHeld

\* Nothing but the state of a pass changes.
LEMMA PassStateOnly ==
    ASSUME IInv, TypeOK', NEW w \in Workers, OthersRest(w),
           worker'[w].pc \in {"idle", "materialize", "run"}, worker'[w].outcome = Unsaid,
           worker'[w].pc = "materialize" => worker'[w].trigger \in Triggers,
           UNCHANGED <<now, trigger, item, wakes, decisions, recorded, passed>>
    PROVE  IInv'
<1>1. ClaimsExist' /\ Tokens' /\ OutcomesStand'
  BY NotDeciding DEF IInv
<1>2. ClaimsHold'
  BY DEF IInv, ClaimsHold, Deciding, ItemHeld, OthersRest
<1>3. NewestCause' /\ WakesExist'
  BY DEF IInv, NewestCause, WakesExist
<1>4. Neglect'
  BY DEF IInv, Neglect, StarvesLess
<1>5. CausesRetained'
  BY DEF IInv, CausesRetained
<1>6. CheckpointsFollowDecisions'
  BY DEF IInv, CheckpointsFollowDecisions
<1>7. DecidedOnce'
  BY <1>1, TokensHoldOnceNext DEF IInv, DecidedOnce, HeldOnce
<1>. QED  BY <1>1, <1>2, <1>3, <1>4, <1>5, <1>6, <1>7 DEF IInv

\* A pass without a trigger begins; a pass ends without a decision.
LEMMA QuietStep ==
    ASSUME IInv, NEW w \in Workers,
           NoTrigger(w) \/ MaterializeStale(w) \/ EndRun(w) \/ CommitRefused(w) \/ Crash(w)
    PROVE  IInv'
<1>1. worker \in [Workers -> Pass] /\ TypeOK
  BY DEF IInv, TypeOK
<1>2. /\ UNCHANGED <<now, trigger, item, wakes, decisions, recorded, passed>>
      /\ faults' \in 0..MaxFaults
  BY <1>1, ParametersAssumption
     DEF NoTrigger, MaterializeStale, EndRun, CommitRefused, Crash, TypeOK
<1>3. PICK pass \in {Idle, [Idle EXCEPT !.pc = "run", !.left = MaxItems]} :
        worker' = [worker EXCEPT ![w] = pass]
  BY DEF NoTrigger, MaterializeStale, EndRun, CommitRefused, Crash
<1>4. pass \in Pass /\ pass.pc \in {"idle", "run"} /\ pass.outcome = Unsaid
  <2>1. pass \in Pass
    BY <1>3, Passes
  <2>2. Idle.pc = "idle" /\ Idle.outcome = Unsaid
    BY DEF Idle
  <2>3. LET run == [Idle EXCEPT !.pc = "run", !.left = MaxItems] IN
        run.pc = "run" /\ run.outcome = Unsaid
    BY DEF Idle
  <2>. QED  BY <1>3, <2>1, <2>2, <2>3
<1>5. worker' \in [Workers -> Pass] /\ worker'[w] = pass /\ OthersRest(w)
  BY <1>1, <1>3, <1>4 DEF OthersRest
<1>6. TypeOK'
  BY <1>1, <1>2, <1>5 DEF TypeOK
<1>. QED  BY <1>2, <1>4, <1>5, <1>6, PassStateOnly

\* Due times are not in the future, also as time passes.
LEMMA TickStep ==
    ASSUME IInv, Tick
    PROVE  IInv'
<1>1. /\ now \in Nat /\ now' = now + 1
      /\ UNCHANGED <<trigger, item, wakes, decisions, recorded, worker, faults, passed>>
  BY ParametersAssumption DEF IInv, TypeOK, Tick
<1>2. TypeOK'
  BY <1>1, ParametersAssumption DEF IInv, TypeOK, Tick
<1>3. ClaimsExist' /\ ClaimsHold' /\ Tokens' /\ NewestCause' /\ WakesExist' /\ OutcomesStand'
  BY <1>1 DEF IInv, ClaimsExist, ClaimsHold, Tokens, NewestCause, WakesExist, OutcomesStand,
              Deciding, ItemHeld, OnRecord
<1>4. Neglect' /\ CheckpointsFollowDecisions'
  BY <1>1 DEF IInv, Neglect, StarvesLess, CheckpointsFollowDecisions
<1>5. CausesRetained'
  <2>1. \A t \in Triggers : trigger[t].due \in Nat
    BY DEF IInv, TypeOK, TriggerRow
  <2>2. \A t \in Triggers : trigger'[t].state \in {"claimed", "completed"} => trigger'[t].due <= now'
    BY <1>1, <2>1 DEF IInv, CausesRetained
  <2>. QED  BY <1>1, <2>2 DEF IInv, CausesRetained
<1>6. DecidedOnce'
  BY <1>1, <1>3, TokensHoldOnceNext DEF IInv, DecidedOnce, HeldOnce
<1>. QED  BY <1>2, <1>3, <1>4, <1>5, <1>6 DEF IInv

-----------------------------------------------------------------------------
(* Steps that change triggers, and the word of a policy                    *)

LEMMA IngestStep ==
    ASSUME IInv, NEW t \in Triggers, Ingest(t)
    PROVE  IInv'
<1>1. /\ TypeOK' /\ trigger[t].state = "absent" /\ trigger'[t].state = "pending"
      /\ \A u \in Triggers : u # t => trigger'[u] = trigger[u]
      /\ UNCHANGED <<now, item, wakes, decisions, recorded, worker, faults, passed>>
  BY IngestEffect DEF IInv, Ingest
<1>2. ClaimsExist' /\ ClaimsHold' /\ Tokens' /\ NewestCause' /\ OutcomesStand'
  BY <1>1 DEF IInv, ClaimsExist, ClaimsHold, Tokens, NewestCause, OutcomesStand,
              Deciding, ItemHeld, OnRecord
<1>3. Neglect' /\ CheckpointsFollowDecisions'
  BY <1>1 DEF IInv, Neglect, StarvesLess, CheckpointsFollowDecisions
<1>4. WakesExist'
  BY <1>1 DEF IInv, WakesExist
<1>5. CausesRetained'
  <2>1. \A u \in Triggers : trigger'[u].state = "completed" <=> trigger[u].state = "completed"
    BY <1>1
  <2>2. ASSUME NEW i \in Items
        PROVE  {u \in Triggers : SourceOf[u] = i /\ trigger'[u].state = "completed"}
                 = {u \in Triggers : SourceOf[u] = i /\ trigger[u].state = "completed"}
    BY <2>1
  <2>3. \A v \in wakes : v.trigger \in Triggers
    BY DEF IInv, TypeOK, WakeCycle
  <2>4. \A u \in Triggers : trigger'[u].state \in {"claimed", "completed"} => trigger'[u].due <= now'
    BY <1>1 DEF IInv, CausesRetained
  <2>. QED  BY <1>1, <2>1, <2>2, <2>3, <2>4 DEF IInv, CausesRetained
<1>6. DecidedOnce'
  BY <1>1, <1>2, TokensHoldOnceNext DEF IInv, DecidedOnce, HeldOnce
<1>. QED  BY <1>1, <1>2, <1>3, <1>4, <1>5, <1>6 DEF IInv

\* Only what is due is claimed, and nothing that was completed.
LEMMA ClaimTriggerStep ==
    ASSUME IInv, NEW w \in Workers, ClaimTrigger(w)
    PROVE  IInv'
<1>1. /\ TypeOK' /\ worker'[w].pc = "materialize" /\ worker[w].pc = "idle"
      /\ worker'[w].trigger \in Triggers /\ worker'[w].outcome = Unsaid /\ OthersRest(w)
      /\ UNCHANGED <<now, item, wakes, decisions, recorded, faults, passed>>
  BY ClaimTriggerEffect DEF IInv, ClaimTrigger
<1>2. PICK t \in Triggers :
        /\ trigger[t].state # "completed" /\ trigger[t].due <= now
        /\ trigger'[t].state = "claimed" /\ trigger'[t].due = trigger[t].due
        /\ \A u \in Triggers : u # t => trigger'[u] = trigger[u]
  BY ClaimTriggerEffect DEF IInv
<1>3. ClaimsExist' /\ Tokens' /\ OutcomesStand'
  BY <1>1, NotDeciding DEF IInv
<1>4. ClaimsHold' /\ NewestCause'
  BY <1>1 DEF IInv, ClaimsHold, NewestCause, Deciding, ItemHeld, OthersRest
<1>5. Neglect' /\ CheckpointsFollowDecisions'
  BY <1>1 DEF IInv, Neglect, StarvesLess, CheckpointsFollowDecisions
<1>6. \A u \in Triggers : trigger'[u].state = "completed" <=> trigger[u].state = "completed"
  BY <1>2
<1>7. WakesExist'
  BY <1>1, <1>6 DEF IInv, WakesExist
<1>8. CausesRetained'
  <2>1. ASSUME NEW i \in Items
        PROVE  {u \in Triggers : SourceOf[u] = i /\ trigger'[u].state = "completed"}
                 = {u \in Triggers : SourceOf[u] = i /\ trigger[u].state = "completed"}
    BY <1>6
  <2>2. \A v \in wakes : v.trigger \in Triggers
    BY DEF IInv, TypeOK, WakeCycle
  <2>3. \A u \in Triggers : trigger'[u].state \in {"claimed", "completed"} => trigger'[u].due <= now'
    BY <1>1, <1>2 DEF IInv, CausesRetained
  <2>. QED  BY <1>1, <1>6, <2>1, <2>2, <2>3 DEF IInv, CausesRetained
<1>9. DecidedOnce'
  BY <1>1, <1>3, TokensHoldOnceNext DEF IInv, DecidedOnce, HeldOnce
<1>. QED  BY <1>1, <1>3, <1>4, <1>5, <1>7, <1>8, <1>9 DEF IInv

\* The outcome of a generation is put on record where none is: neither the word
\* on a decision made, whose generation has one, nor that of another claim about
\* to commit is touched.
LEMMA RecordOutcomeStep ==
    ASSUME IInv, NEW w \in Workers, RecordOutcome(w)
    PROVE  IInv'
<1>1. PICK o \in Outcomes :
        /\ TypeOK' /\ OnRecord(w, o) = {}
        /\ recorded' = recorded \cup {[item |-> worker[w].item, outcome |-> o,
                                       generation |-> worker[w].generation,
                                       claim |-> worker[w].fencing]}
        /\ worker[w].pc = "decide" /\ worker'[w].pc = "commit"
        /\ worker'[w].item = worker[w].item /\ worker'[w].fencing = worker[w].fencing
        /\ worker'[w].generation = worker[w].generation
        /\ worker'[w].wake = worker[w].wake /\ worker'[w].outcome = o
        /\ OthersRest(w)
        /\ UNCHANGED <<now, trigger, item, wakes, decisions, faults, passed>>
  BY RecordOutcomeEffect DEF IInv
<1>. DEFINE word == [item |-> worker[w].item, outcome |-> o,
                     generation |-> worker[w].generation, claim |-> worker[w].fencing]
<1>2. \A v \in Workers : v # w => worker'[v] = worker[v]
  BY <1>1 DEF OthersRest
<1>3. \A v \in Workers : /\ Deciding(v)' <=> Deciding(v)
                         /\ Deciding(v) => /\ worker'[v].item = worker[v].item
                                           /\ worker'[v].fencing = worker[v].fencing
                                           /\ worker'[v].generation = worker[v].generation
                                           /\ worker'[v].wake = worker[v].wake
                         /\ worker'[v].pc = "materialize" =>
                              worker[v].pc = "materialize" /\ worker'[v].trigger = worker[v].trigger
  BY <1>1, <1>2 DEF Deciding
<1>4. ClaimsExist'
  BY <1>1, <1>2, <1>3 DEF IInv, ClaimsExist, Deciding
<1>5. ClaimsHold'
  BY <1>1, <1>3 DEF IInv, ClaimsHold, ItemHeld
<1>6. Tokens'
  BY <1>1, <1>3 DEF IInv, Tokens
<1>7. NewestCause' /\ WakesExist' /\ CausesRetained' /\ CheckpointsFollowDecisions'
  BY <1>1 DEF IInv, NewestCause, WakesExist, CausesRetained, CheckpointsFollowDecisions
<1>8. Neglect'
  BY <1>1 DEF IInv, Neglect, StarvesLess
<1>9. ASSUME NEW k, NEW g, NEW p,
             \E v \in recorded : v.item = k /\ v.generation = g /\ v.outcome = p
      PROVE  {v \in recorded' : v.item = k /\ v.generation = g /\ v.outcome = p}
               = {v \in recorded : v.item = k /\ v.generation = g /\ v.outcome = p}
  <2>1. ~(word.item = k /\ word.generation = g /\ word.outcome = p)
    BY <1>1, <1>9 DEF OnRecord
  <2>2. recorded' = recorded \cup {word}
    BY <1>1
  <2>. QED  BY <2>1, <2>2
<1>10. OutcomesStand'
  <2>1. OnRecord(w, o)' = {word}
    BY <1>1 DEF OnRecord
  <2>2. ASSUME NEW v \in Workers, v # w, worker'[v].pc = "commit"
        PROVE  OnRecord(v, worker[v].outcome)' = OnRecord(v, worker[v].outcome)
    <3>1. /\ worker'[v] = worker[v]
          /\ OnRecord(v, worker[v].outcome)
               = {[item |-> worker[v].item, outcome |-> worker[v].outcome,
                   generation |-> worker[v].generation, claim |-> worker[v].fencing]}
      BY <1>2, <2>2 DEF IInv, OutcomesStand
    <3>2. \E u \in recorded : /\ u.item = worker[v].item
                              /\ u.generation = worker[v].generation
                              /\ u.outcome = worker[v].outcome
      BY <3>1 DEF OnRecord
    <3>. QED  BY <1>9, <3>1, <3>2 DEF OnRecord
  <2>. QED  BY <1>1, <1>2, <2>1, <2>2 DEF IInv, OutcomesStand
<1>11. DecidedOnce'
  <2>1. ASSUME NEW d \in decisions, d.outcome # Unsaid
        PROVE  {v \in recorded' : v.item = d.item /\ v.generation = d.generation
                                   /\ v.outcome = d.outcome}
                 = {[item |-> d.item, generation |-> d.generation, outcome |-> d.outcome,
                     claim |-> d.claim]}
    <3>1. {v \in recorded : v.item = d.item /\ v.generation = d.generation
                              /\ v.outcome = d.outcome}
            = {[item |-> d.item, generation |-> d.generation, outcome |-> d.outcome,
                claim |-> d.claim]}
      BY <2>1 DEF IInv, DecidedOnce
    <3>2. \E v \in recorded : /\ v.item = d.item /\ v.generation = d.generation
                              /\ v.outcome = d.outcome
      <4>. DEFINE r == [item |-> d.item, generation |-> d.generation, outcome |-> d.outcome,
                        claim |-> d.claim]
      <4>1. r \in {v \in recorded : v.item = d.item /\ v.generation = d.generation
                                    /\ v.outcome = d.outcome}
        BY <3>1
      <4>. HIDE DEF r
      <4>. QED  BY <4>1
    <3>. QED  BY <1>9, <3>1, <3>2
  <2>. QED  BY <1>1, <1>6, <2>1, TokensHoldOnceNext DEF IInv, DecidedOnce, HeldOnce
<1>. QED  BY <1>1, <1>4, <1>5, <1>6, <1>7, <1>8, <1>10, <1>11 DEF IInv

-----------------------------------------------------------------------------
(* A trigger becomes a cause                                               *)

LEMMA ItemsFinite == IsFiniteSet(Items)
BY FS_Interval, ParametersAssumption DEF Items

LEMMA StarvesLessFinite ==
    ASSUME NEW i \in Items
    PROVE  IsFiniteSet(StarvesLess(i)) /\ Cardinality(StarvesLess(i)) \in Nat
<1>1. StarvesLess(i) \subseteq Items
  BY DEF StarvesLess
<1>. QED  BY <1>1, ItemsFinite, FS_Subset, FS_CardinalityType

LEMMA MaterializeStep ==
    ASSUME IInv, NEW w \in Workers, Materialize(w)
    PROVE  IInv'
<1>1. PICK t \in Triggers, i \in Items, n \in Nat, old \in Seq(Triggers), cycle \in WakeCycle :
        /\ i = SourceOf[t] /\ n = item[i].generation /\ old = item[i].causes
        /\ /\ trigger[t].state = "claimed" /\ trigger'[t].state = "completed"
           /\ trigger'[t].due = trigger[t].due
           /\ \A u \in Triggers : u # t => trigger'[u] = trigger[u]
        /\ /\ item'[i].causes = Append(old, t) /\ item'[i].wake = t
           /\ item'[i].generation = n + 1 /\ item'[i].handled = item[i].handled
           /\ item'[i].starvation = item[i].starvation /\ item'[i].fencing = item[i].fencing
           /\ item'[i].state = IF item[i].state = "selected" THEN "selected" ELSE "pending"
           /\ \A j \in Items : j # i => item'[j] = item[j]
        /\ /\ worker'[w].pc = "run" /\ worker'[w].outcome = Unsaid
           /\ OthersRest(w)
        /\ cycle.trigger = t /\ wakes' = wakes \cup {cycle}
        /\ now' = now /\ decisions' = decisions /\ recorded' = recorded /\ passed' = passed
        /\ TypeOK'
  <2>. DEFINE t == worker[w].trigger
              i == SourceOf[t]
  <2>1. /\ TypeOK /\ ClaimsExist /\ item \in [Items -> AgendaRow]
    BY DEF IInv, TypeOK
  <2>2. t \in Triggers /\ i \in Items
    BY <2>1, MaterializeEffect
  <2>3. item[i].generation \in Nat /\ item[i].causes \in Seq(Triggers)
    BY <2>1, <2>2 DEF AgendaRow
  <2>4. PICK cycle \in WakeCycle : cycle.trigger = t /\ wakes' = wakes \cup {cycle}
    BY <2>1, MaterializeEffect
  <2>. i \in Items /\ t \in Triggers /\ item[i].generation \in Nat /\ item[i].causes \in Seq(Triggers)
    BY <2>2, <2>3
  <2>. WITNESS t \in Triggers, i \in Items, item[i].generation \in Nat,
               item[i].causes \in Seq(Triggers), cycle \in WakeCycle
  <2>. QED  BY <2>1, <2>4, MaterializeEffect
<1>t. /\ trigger[t].state = "claimed" /\ trigger'[t].state = "completed"
      /\ trigger'[t].due = trigger[t].due
      /\ \A u \in Triggers : u # t => trigger'[u] = trigger[u]
      /\ i = SourceOf[t] /\ now' = now
  BY <1>1
<1>i. /\ n = item[i].generation /\ old = item[i].causes
      /\ item'[i].causes = Append(old, t) /\ item'[i].wake = t
      /\ item'[i].generation = n + 1 /\ item'[i].handled = item[i].handled
      /\ item'[i].starvation = item[i].starvation /\ item'[i].fencing = item[i].fencing
      /\ item'[i].state = IF item[i].state = "selected" THEN "selected" ELSE "pending"
      /\ \A j \in Items : j # i => item'[j] = item[j]
  BY <1>1
<1>w. /\ worker'[w].pc = "run" /\ worker'[w].outcome = Unsaid
      /\ \A v \in Workers : v # w => worker'[v] = worker[v]
  BY <1>1 DEF OthersRest
<1>2. /\ cycle.trigger = t /\ wakes' = wakes \cup {cycle}
      /\ decisions' = decisions /\ recorded' = recorded /\ passed' = passed
  BY <1>1
<1>3. /\ item[i].handled \in Nat /\ Len(old) = n /\ item[i].handled <= n
      /\ item[i].state \in {"absent", "pending", "selected", "completed"}
      /\ item[i].state \in {"pending", "selected"} => item[i].handled < n
  <2>1. item[i] \in AgendaRow
    BY DEF IInv, TypeOK
  <2>2. Len(item[i].causes) = item[i].generation
    BY DEF IInv, CausesRetained
  <2>3. item[i].handled <= item[i].generation
        /\ (item[i].state \in {"pending", "selected"} => item[i].handled < item[i].generation)
    BY DEF IInv, CheckpointsFollowDecisions
  <2>. QED  BY <1>i, <2>1, <2>2, <2>3 DEF AgendaRow
<1>4. /\ Len(item'[i].causes) = n + 1 /\ item'[i].causes[n + 1] = t
      /\ \A k \in 1..n : item'[i].causes[k] = old[k] /\ old[k] \in Triggers
  <2>1. /\ Len(Append(old, t)) = Len(old) + 1
        /\ \A k \in 1..Len(old) : Append(old, t)[k] = old[k]
        /\ Append(old, t)[Len(old) + 1] = t
    BY AppendProperties
  <2>2. \A k \in 1..Len(old) : old[k] \in Triggers
    BY ElementOfSeq
  <2>3. Len(old) = n /\ item'[i].causes = Append(old, t)
    BY <1>i, <1>3
  <2>. QED  BY <2>1, <2>2, <2>3
<1>5. /\ \A j, k \in 1..n : old[j] = old[k] => j = k
      /\ {old[k] : k \in 1..n} =
           {u \in Triggers : SourceOf[u] = i /\ trigger[u].state = "completed"}
  BY <1>i, <1>3 DEF IInv, CausesRetained
<1>6. \A k \in 1..n : old[k] # t
  BY <1>t, <1>5
<1>7. ClaimsExist' /\ Tokens' /\ OutcomesStand'
  <2>1. \A j \in Items : item'[j].fencing = item[j].fencing
    BY <1>i
  <2>. QED  BY <1>1, <1>w, <2>1, NotDeciding DEF IInv
<1>8. ClaimsHold'
  <2>. SUFFICES ASSUME NEW v \in Workers, Deciding(v)', ItemHeld(v)'
       PROVE  LET c == worker'[v] IN
              /\ item'[c.item].handled < c.generation
              /\ c.generation <= item'[c.item].generation
              /\ c.wake = item'[c.item].causes[c.generation]
    BY DEF ClaimsHold
  <2>1. v # w /\ worker'[v] = worker[v] /\ worker[v].item \in Items /\ Deciding(v)
    BY <1>w DEF Deciding, IInv, ClaimsExist
  <2>2. ItemHeld(v) /\ worker[v].generation \in Nat
    <3>1. worker[v] \in Pass /\ item[worker[v].item] \in AgendaRow
      BY <2>1 DEF IInv, TypeOK
    <3>. QED  BY <1>i, <2>1, <3>1 DEF ItemHeld, Pass
  <2>3. /\ item[worker[v].item].handled < worker[v].generation
        /\ worker[v].generation <= item[worker[v].item].generation
        /\ worker[v].wake = item[worker[v].item].causes[worker[v].generation]
    BY <2>1, <2>2 DEF IInv, ClaimsHold
  <2>4. CASE worker[v].item = i
    <3>1. /\ item[i].handled < worker[v].generation /\ worker[v].generation <= n
          /\ worker[v].wake = old[worker[v].generation]
      BY <1>i, <2>3, <2>4
    <3>2. worker[v].generation \in 1..n /\ worker[v].generation <= n + 1
      BY <1>3, <2>2, <3>1
    <3>3. item'[i].causes[worker[v].generation] = old[worker[v].generation]
      BY <1>4, <3>2
    <3>4. item'[i].handled = item[i].handled /\ item'[i].generation = n + 1
      BY <1>i
    <3>. QED  BY <2>1, <2>4, <3>1, <3>2, <3>3, <3>4
  <2>5. CASE worker[v].item # i
    BY <1>i, <2>1, <2>3, <2>5
  <2>. QED  BY <2>4, <2>5
<1>9. NewestCause'
  BY <1>i, <1>4 DEF IInv, NewestCause
<1>10. WakesExist'
  BY <1>t, <1>2 DEF IInv, WakesExist
<1>11. Neglect'
  <2>1. ASSUME NEW j \in Items
        PROVE  StarvesLess(j)' = StarvesLess(j)
    <3>1. \A k \in Items : item'[k].starvation = item[k].starvation
      BY <1>1
    <3>. QED  BY <3>1 DEF StarvesLess
  <2>2. Cardinality(StarvesLess(i)) \in Nat
    BY <1>1, StarvesLessFinite
  <2>3. passed[i] \in Nat /\ item[i].state \in {"absent", "pending", "selected", "completed"}
    BY <1>1 DEF IInv, TypeOK, AgendaRow
  <2>4. /\ item[i].state = "pending" => passed[i] <= Cardinality(StarvesLess(i))
        /\ item[i].state \in {"absent", "completed"} => passed[i] = 0
    BY <1>1 DEF IInv, Neglect
  <2>5. item'[i].state = "pending" => passed'[i] <= Cardinality(StarvesLess(i))
    BY <1>1, <2>2, <2>3, <2>4
  <2>6. item'[i].state \notin {"absent", "completed"}
    BY <1>1
  <2>. QED  BY <1>1, <2>1, <2>5, <2>6 DEF IInv, Neglect
<1>12. CausesRetained'
  <2>1. ASSUME NEW j \in Items
        PROVE  /\ Len(item'[j].causes) = item'[j].generation
               /\ \A k, l \in 1..Len(item'[j].causes) :
                    item'[j].causes[k] = item'[j].causes[l] => k = l
               /\ {item'[j].causes[k] : k \in 1..Len(item'[j].causes)} =
                    {u \in Triggers : SourceOf[u] = j /\ trigger'[u].state = "completed"}
    <3>1. CASE j = i
      <4>1. \A k \in 1..(n + 1) : k \in 1..n \/ k = n + 1
        BY <1>3
      <4>2. \A k, l \in 1..(n + 1) : item'[i].causes[k] = item'[i].causes[l] => k = l
        BY <1>4, <1>5, <1>6, <4>1
      <4>3. {item'[i].causes[k] : k \in 1..(n + 1)} = {old[k] : k \in 1..n} \cup {t}
        <5>1. 1..(n + 1) = 1..n \cup {n + 1}
          BY <1>3
        <5>. QED  BY <1>4, <5>1
      <4>4. {u \in Triggers : SourceOf[u] = i /\ trigger'[u].state = "completed"}
              = {u \in Triggers : SourceOf[u] = i /\ trigger[u].state = "completed"} \cup {t}
        BY <1>t
      <4>5. item'[i].generation = n + 1
        BY <1>i
      <4>. QED  BY <1>4, <1>5, <3>1, <4>2, <4>3, <4>4, <4>5
    <3>2. CASE j # i
      <4>1. {u \in Triggers : SourceOf[u] = j /\ trigger'[u].state = "completed"}
              = {u \in Triggers : SourceOf[u] = j /\ trigger[u].state = "completed"}
        BY <1>t, <3>2
      <4>2. item'[j] = item[j]
        BY <1>i, <3>2
      <4>. QED  BY <4>1, <4>2 DEF IInv, CausesRetained
    <3>. QED  BY <3>1, <3>2
  <2>2. \A u \in Triggers : trigger'[u].state \in {"claimed", "completed"} => trigger'[u].due <= now'
    BY <1>1 DEF IInv, CausesRetained
  <2>3. ASSUME NEW v \in wakes'
        PROVE  /\ trigger'[v.trigger].state = "completed"
               /\ \A u \in wakes' : u.trigger = v.trigger => u = v
    <3>1. \A u \in wakes : u.trigger # t /\ u.trigger \in Triggers
      BY <1>1 DEF IInv, CausesRetained, TypeOK, WakeCycle
    <3>. QED  BY <1>1, <1>2, <3>1 DEF IInv, CausesRetained
  <2>. QED  BY <2>1, <2>2, <2>3 DEF CausesRetained
<1>13. CheckpointsFollowDecisions'
  <2>1. ASSUME NEW j \in Items, NEW d \in decisions, d.item = j
        PROVE  d.generation \in 1..item'[j].handled /\ d.wake = item'[j].causes[d.generation]
    <3>1. d.generation \in 1..item[j].handled /\ d.wake = item[j].causes[d.generation]
      BY <2>1 DEF IInv, CheckpointsFollowDecisions
    <3>2. CASE j = i
      <4>1. d.generation \in 1..n
        BY <1>3, <3>1, <3>2
      <4>. QED  BY <1>i, <1>4, <3>1, <3>2, <4>1
    <3>3. CASE j # i
      BY <1>i, <3>1, <3>3
    <3>. QED  BY <3>2, <3>3
  <2>2. ASSUME NEW j \in Items
        PROVE  /\ item'[j].handled <= item'[j].generation
               /\ item'[j].state = "completed" => item'[j].handled = item'[j].generation
               /\ item'[j].state \in {"pending", "selected"}
                    => item'[j].handled < item'[j].generation
               /\ item'[j].handled = item[j].handled
    <3>1. CASE j = i
      BY <1>i, <1>3, <3>1
    <3>2. CASE j # i
      <4>1. item'[j] = item[j]
        BY <1>i, <3>2
      <4>. QED  BY <4>1 DEF IInv, CheckpointsFollowDecisions
    <3>. QED  BY <3>1, <3>2
  <2>3. \A j \in Items : item'[j].handled > 0 =>
          \E d \in decisions : d.item = j /\ d.generation = item'[j].handled
    BY <2>2 DEF IInv, CheckpointsFollowDecisions
  <2>4. \A d \in decisions : \E v \in wakes' :
          v.trigger = d.wake /\ v.state = "completed" /\ v.generation = d.generation
    BY <1>2 DEF IInv, CheckpointsFollowDecisions
  <2>. QED  BY <1>1, <2>1, <2>2, <2>3, <2>4 DEF CheckpointsFollowDecisions
<1>14. DecidedOnce'
  BY <1>1, <1>7, TokensHoldOnceNext DEF IInv, DecidedOnce, HeldOnce
<1>. QED  BY <1>1, <1>7, <1>8, <1>9, <1>10, <1>11, <1>12, <1>13, <1>14 DEF IInv

-----------------------------------------------------------------------------
(* An item is claimed                                                      *)

\* Who is passed over starves one claim more, and i, just claimed, starves less
\* than it: until then it did not, for it was claimed before it.
LEMMA PassedOver ==
    ASSUME NEW i \in Items, NEW j \in Items, j # i,
           \A k \in Items : item[k].starvation \in Nat,
           item[j].starvation <= item[i].starvation,
           item'[i].starvation = 0, item'[j].starvation = item[j].starvation + 1,
           \A k \in Items : k # i => item'[k].starvation \in
                                       {item[k].starvation, item[k].starvation + 1}
    PROVE  /\ IsFiniteSet(StarvesLess(j)')
           /\ Cardinality(StarvesLess(j)) + 1 <= Cardinality(StarvesLess(j)')
<1>1. IsFiniteSet(Items)
  BY ItemsFinite
<1>2. IsFiniteSet(StarvesLess(j)) /\ IsFiniteSet(StarvesLess(j)')
  <2>1. StarvesLess(j) \subseteq Items /\ StarvesLess(j)' \subseteq Items
    BY DEF StarvesLess
  <2>. QED  BY <1>1, <2>1, FS_Subset
<1>3. i \notin StarvesLess(j)
  BY DEF StarvesLess
<1>4. StarvesLess(j) \cup {i} \subseteq StarvesLess(j)'
  <2>1. i \in StarvesLess(j)'
    BY DEF StarvesLess
  <2>2. ASSUME NEW k \in StarvesLess(j) PROVE k \in StarvesLess(j)'
    <3>1. k \in Items /\ item[k].starvation < item[j].starvation
      BY DEF StarvesLess
    <3>2. item'[k].starvation < item'[j].starvation
      BY <1>3, <3>1
    <3>. QED  BY <3>1, <3>2 DEF StarvesLess
  <2>. QED  BY <2>1, <2>2
<1>5. Cardinality(StarvesLess(j) \cup {i}) = Cardinality(StarvesLess(j)) + 1
  BY <1>2, <1>3, FS_AddElement
<1>. QED  BY <1>2, <1>4, <1>5, FS_Subset

\* A claim of the newest generation under a token of its own: earlier claims of
\* the item no longer hold.
LEMMA ClaimAgendaStep ==
    ASSUME IInv, NEW w \in Workers, ClaimAgenda(w)
    PROVE  IInv'
<1>1. PICK i \in Items :
        /\ TypeOK' /\ ClaimableItem(i)
        /\ \A j \in Items : ClaimableItem(j) => Precedes(i, j)
        /\ \A j \in Items : SameCauses(j) /\ item'[j].handled = item[j].handled
        /\ item'[i].state = "selected" /\ item'[i].starvation = 0
        /\ item'[i].fencing = item[i].fencing + 1
        /\ \A j \in Items : j # i =>
             /\ item'[j].state = item[j].state /\ item'[j].fencing = item[j].fencing
             /\ item'[j].starvation = IF Starves(j, i) THEN item[j].starvation + 1
                                      ELSE item[j].starvation
        /\ passed' = [j \in Items |-> IF j = i THEN 0
                                      ELSE IF ClaimableItem(j) THEN passed[j] + 1
                                      ELSE passed[j]]
        /\ worker[w].pc = "run" /\ worker'[w].pc = "decide"
        /\ worker'[w].item = i /\ worker'[w].fencing = item[i].fencing + 1
        /\ worker'[w].generation = item[i].generation /\ worker'[w].wake = item[i].wake
        /\ worker'[w].outcome = worker[w].outcome
        /\ OthersRest(w)
        /\ UNCHANGED <<now, trigger, wakes, decisions, recorded, faults>>
  BY ClaimAgendaEffect DEF IInv
<1>i. /\ \A j \in Items : /\ item'[j].generation = item[j].generation
                          /\ item'[j].causes = item[j].causes
                          /\ item'[j].wake = item[j].wake
                          /\ item'[j].handled = item[j].handled
      /\ item'[i].state = "selected" /\ item'[i].starvation = 0
      /\ item'[i].fencing = item[i].fencing + 1
      /\ \A j \in Items : j # i =>
           item'[j].state = item[j].state /\ item'[j].fencing = item[j].fencing
      /\ item[i].handled < item[i].generation
  <2>1. item[i].generation > item[i].handled /\ item[i] \in AgendaRow
    BY <1>1 DEF ClaimableItem, IInv, TypeOK
  <2>. QED  BY <1>1, <2>1 DEF SameCauses, AgendaRow
<1>w. /\ worker[w].pc = "run" /\ worker'[w].pc = "decide"
      /\ worker'[w].item = i /\ worker'[w].fencing = item[i].fencing + 1
      /\ worker'[w].generation = item[i].generation /\ worker'[w].wake = item[i].wake
      /\ worker'[w].outcome = worker[w].outcome
      /\ \A v \in Workers : v # w => worker'[v] = worker[v]
  BY <1>1 DEF OthersRest
<1>u. /\ now' = now /\ trigger' = trigger /\ wakes' = wakes /\ decisions' = decisions
      /\ recorded' = recorded
  BY <1>1
<1>2. \A j \in Items : /\ item[j].fencing \in Nat /\ item[j].generation \in Nat
                       /\ item[j].handled \in Nat /\ item[j].starvation \in Nat
                       /\ item[j].state \in {"absent", "pending", "selected", "completed"}
  <2>1. \A j \in Items : item[j] \in AgendaRow
    BY DEF IInv, TypeOK
  <2>. QED  BY <2>1 DEF AgendaRow
<1>3. \A v \in Workers : worker[v].fencing \in Nat /\ worker[v].generation \in Nat
  <2>1. \A v \in Workers : worker[v] \in Pass
    BY DEF IInv, TypeOK
  <2>. QED  BY <2>1 DEF Pass
<1>4. \A v \in Workers : v # w /\ Deciding(v)' =>
        /\ Deciding(v) /\ worker'[v] = worker[v] /\ worker[v].item \in Items
        /\ worker[v].fencing <= item[worker[v].item].fencing
  BY <1>w DEF Deciding, IInv, Tokens, ClaimsExist
<1>5. ClaimsExist'
  BY <1>w DEF IInv, ClaimsExist, Deciding
<1>6. Tokens'
  <2>1. \A v \in Workers : Deciding(v)' => worker'[v].fencing <= item'[worker'[v].item].fencing
    BY <1>i, <1>w, <1>2, <1>3, <1>4
  <2>2. ASSUME NEW v \in Workers, v # w, Deciding(v)', worker'[v].item = i
        PROVE  worker'[v].fencing # worker'[w].fencing
    BY <1>w, <1>2, <1>3, <1>4, <2>2
  <2>3. ASSUME NEW u \in Workers, NEW v \in Workers, Deciding(u)', Deciding(v)',
               worker'[u].item = worker'[v].item, worker'[u].fencing = worker'[v].fencing
        PROVE  u = v
    <3>1. CASE u = w \/ v = w
      BY <1>w, <2>2, <2>3, <3>1
    <3>2. CASE u # w /\ v # w
      BY <1>4, <2>3, <3>2 DEF IInv, Tokens
    <3>. QED  BY <3>1, <3>2
  <2>. QED  BY <2>1, <2>3 DEF Tokens
<1>7. ClaimsHold'
  <2>1. /\ item'[i].handled < worker'[w].generation
        /\ worker'[w].generation <= item'[i].generation
        /\ worker'[w].wake = item'[i].causes[worker'[w].generation]
    <3>1. item[i].generation > 0
      BY <1>i, <1>2
    <3>2. item[i].wake = item[i].causes[item[i].generation]
      BY <3>1 DEF IInv, NewestCause
    <3>. QED  BY <1>i, <1>w, <1>2, <3>2
  <2>2. ASSUME NEW v \in Workers, v # w, Deciding(v)', ItemHeld(v)'
        PROVE  /\ item'[worker'[v].item].handled < worker'[v].generation
               /\ worker'[v].generation <= item'[worker'[v].item].generation
               /\ worker'[v].wake = item'[worker'[v].item].causes[worker'[v].generation]
    <3>1. worker[v].item # i
      BY <1>i, <1>2, <1>3, <1>4, <2>2 DEF ItemHeld
    <3>2. ItemHeld(v)
      BY <1>i, <1>4, <2>2, <3>1 DEF ItemHeld
    <3>3. /\ item[worker[v].item].handled < worker[v].generation
          /\ worker[v].generation <= item[worker[v].item].generation
          /\ worker[v].wake = item[worker[v].item].causes[worker[v].generation]
      BY <1>4, <2>2, <3>2 DEF IInv, ClaimsHold
    <3>. QED  BY <1>i, <1>4, <2>2, <3>3
  <2>. QED  BY <1>w, <2>1, <2>2 DEF ClaimsHold
<1>8. NewestCause' /\ WakesExist'
  BY <1>i, <1>u DEF IInv, NewestCause, WakesExist
<1>9. OutcomesStand'
  BY <1>w, <1>u DEF IInv, OutcomesStand, OnRecord
<1>10. Neglect'
  <2>1. ASSUME NEW j \in Items, j # i, item[j].state = "pending"
        PROVE  passed'[j] <= Cardinality(StarvesLess(j)')
    <3>1. item[j].handled < item[j].generation
      BY <2>1 DEF IInv, CheckpointsFollowDecisions
    <3>2. ClaimableItem(j) /\ Starves(j, i)
      BY <1>2, <2>1, <3>1 DEF ClaimableItem, Starves
    <3>3. item[j].starvation <= item[i].starvation
      BY <1>1, <1>2, <3>2 DEF Precedes
    <3>4. item'[j].starvation = item[j].starvation + 1
      BY <1>1, <2>1, <3>2
    <3>5. \A k \in Items : k # i => item'[k].starvation \in
                                      {item[k].starvation, item[k].starvation + 1}
      BY <1>1
    <3>6. IsFiniteSet(StarvesLess(j)')
          /\ Cardinality(StarvesLess(j)) + 1 <= Cardinality(StarvesLess(j)')
      BY <1>i, <1>2, <2>1, <3>3, <3>4, <3>5, PassedOver
    <3>7. passed'[j] = passed[j] + 1
      BY <1>1, <2>1, <3>2
    <3>8. passed[j] \in Nat /\ passed[j] <= Cardinality(StarvesLess(j))
      BY <2>1 DEF IInv, TypeOK, Neglect
    <3>9. Cardinality(StarvesLess(j)) \in Nat /\ Cardinality(StarvesLess(j)') \in Nat
      BY <3>6, StarvesLessFinite, FS_CardinalityType
    <3>. QED  BY <3>6, <3>7, <3>8, <3>9
  <2>2. ASSUME NEW j \in Items, item'[j].state \in {"absent", "completed"}
        PROVE  passed'[j] = 0
    <3>1. j # i /\ item[j].state \in {"absent", "completed"}
      BY <1>i, <2>2
    <3>2. ~ClaimableItem(j)
      BY <3>1 DEF ClaimableItem
    <3>. QED  BY <1>1, <3>1, <3>2 DEF IInv, Neglect
  <2>. QED  BY <1>i, <2>1, <2>2 DEF Neglect
<1>11. CausesRetained'
  BY <1>i, <1>u DEF IInv, CausesRetained
<1>12. CheckpointsFollowDecisions'
  BY <1>i, <1>u DEF IInv, CheckpointsFollowDecisions
<1>13. DecidedOnce'
  BY <1>6, <1>u, TokensHoldOnceNext DEF IInv, DecidedOnce, HeldOnce
<1>. QED  BY <1>1, <1>5, <1>6, <1>7, <1>8, <1>9, <1>10, <1>11, <1>12, <1>13 DEF IInv

-----------------------------------------------------------------------------
(* An item is decided, or released                                         *)

\* The decision is the first of its generation and of its wake; causes that came
\* since the claim keep the item open.
LEMMA CommitDecisionStep ==
    ASSUME IInv, NEW w \in Workers, CommitDecision(w)
    PROVE  IInv'
<1>1. PICK c \in Pass, i \in Items, d \in Decision :
        /\ c = worker[w] /\ c.item = i
        /\ d = [item |-> i, generation |-> c.generation, wake |-> c.wake,
                outcome |-> c.outcome, claim |-> c.fencing]
        /\ TypeOK' /\ Deciding(w) /\ (c.pc = "commit" \/ c.outcome = Unsaid)
        /\ /\ item[i].handled < c.generation /\ c.generation <= item[i].generation
           /\ c.wake = item[i].causes[c.generation] /\ c.wake \in Triggers
           /\ \A e \in decisions : ~(e.item = i /\ e.generation = c.generation)
        /\ decisions' = decisions \cup {d}
        /\ /\ SameCauses(i) /\ item'[i].handled = c.generation
           /\ item'[i].starvation = item[i].starvation /\ item'[i].fencing = item[i].fencing
           /\ item'[i].state = IF item[i].generation > c.generation THEN "pending"
                               ELSE "completed"
           /\ \A j \in Items : j # i => item'[j] = item[j]
        /\ wakes' = {Completed(v, c) : v \in wakes}
        /\ passed' = [passed EXCEPT ![i] = 0]
        /\ worker'[w].pc = "run" /\ worker'[w].outcome = Unsaid
        /\ OthersRest(w)
        /\ now' = now /\ trigger' = trigger /\ recorded' = recorded
  <2>1. TypeOK /\ ClaimsExist /\ ClaimsHold /\ CausesRetained
    BY DEF IInv
  <2>. DEFINE c == worker[w]
              i == c.item
              d == [item |-> i, generation |-> c.generation, wake |-> c.wake,
                    outcome |-> c.outcome, claim |-> c.fencing]
  <2>. c \in Pass /\ i \in Items /\ d \in Decision
    BY <2>1, CommitDecisionEffect
  <2>. WITNESS c \in Pass, i \in Items, d \in Decision
  <2>. QED  BY <2>1, CommitDecisionEffect
<1>d. /\ d.item = i /\ d.generation = c.generation /\ d.wake = c.wake
      /\ d.outcome = c.outcome /\ d.claim = c.fencing
      /\ decisions' = decisions \cup {d}
      /\ \A e \in decisions : ~(e.item = i /\ e.generation = c.generation)
  BY <1>1
<1>i. /\ \A j \in Items : /\ item'[j].generation = item[j].generation
                          /\ item'[j].causes = item[j].causes
                          /\ item'[j].wake = item[j].wake
                          /\ item'[j].starvation = item[j].starvation
                          /\ item'[j].fencing = item[j].fencing
      /\ item'[i].handled = c.generation
      /\ item'[i].state = IF item[i].generation > c.generation THEN "pending" ELSE "completed"
      /\ \A j \in Items : j # i => item'[j] = item[j]
      /\ item[i].handled < c.generation /\ c.generation <= item[i].generation
      /\ c.wake = item[i].causes[c.generation] /\ c.wake \in Triggers
  BY <1>1 DEF SameCauses
<1>w. /\ worker'[w].pc = "run" /\ \A v \in Workers : v # w => worker'[v] = worker[v]
  BY <1>1 DEF OthersRest
<1>u. /\ now' = now /\ trigger' = trigger /\ recorded' = recorded
      /\ wakes' = {Completed(v, c) : v \in wakes}
  BY <1>1
<1>2. /\ \A j \in Items : item[j].generation \in Nat /\ item[j].handled \in Nat
      /\ c.generation \in Nat
  <2>1. \A j \in Items : item[j] \in AgendaRow
    BY DEF IInv, TypeOK
  <2>. QED  BY <2>1 DEF AgendaRow, Pass
<1>3. \A v \in wakes : /\ v \in WakeCycle /\ Completed(v, c).trigger = v.trigger
                       /\ v.trigger # c.wake => Completed(v, c) = v
                       /\ v.trigger = c.wake => /\ Completed(v, c).state = "completed"
                                                /\ Completed(v, c).generation = c.generation
  <2>1. wakes \subseteq WakeCycle
    BY DEF IInv, TypeOK
  <2>. QED  BY <2>1, CompletedCycle
<1>4. \A j \in Items : /\ Len(item[j].causes) = item[j].generation
                       /\ \A k, l \in 1..item[j].generation :
                            item[j].causes[k] = item[j].causes[l] => k = l
                       /\ \A k \in 1..item[j].generation :
                            /\ SourceOf[item[j].causes[k]] = j
                            /\ trigger[item[j].causes[k]].state = "completed"
  <2>1. ASSUME NEW j \in Items, NEW k \in 1..item[j].generation
        PROVE  item[j].causes[k] \in
                 {t \in Triggers : SourceOf[t] = j /\ trigger[t].state = "completed"}
    BY DEF IInv, CausesRetained
  <2>. QED  BY <2>1 DEF IInv, CausesRetained
<1>5. c.generation \in 1..item[i].generation
  BY <1>i, <1>2
<1>6. ClaimsExist' /\ Tokens' /\ OutcomesStand'
  BY <1>1, <1>i, NotDeciding DEF IInv
<1>7. ClaimsHold'
  <2>1. ASSUME NEW v \in Workers, Deciding(v)', ItemHeld(v)'
        PROVE  /\ v # w /\ worker'[v] = worker[v] /\ worker[v].item # i
               /\ Deciding(v) /\ worker[v].item \in Items
    BY <1>i, <1>w, <2>1 DEF Deciding, ItemHeld, IInv, ClaimsExist
  <2>2. ASSUME NEW v \in Workers, Deciding(v)', ItemHeld(v)'
        PROVE  ItemHeld(v) /\ item'[worker[v].item] = item[worker[v].item]
    BY <1>i, <2>1, <2>2 DEF ItemHeld
  <2>. QED  BY <2>1, <2>2 DEF IInv, ClaimsHold
<1>8. NewestCause'
  BY <1>i DEF IInv, NewestCause
<1>9. WakesExist'
  BY <1>u, <1>3 DEF IInv, WakesExist
<1>10. Neglect'
  <2>1. \A j \in Items : StarvesLess(j)' = StarvesLess(j)
    BY <1>i DEF StarvesLess
  <2>2. passed'[i] = 0 /\ \A j \in Items : j # i => passed'[j] = passed[j]
    BY <1>1 DEF IInv, TypeOK
  <2>3. Cardinality(StarvesLess(i)) \in Nat
    BY StarvesLessFinite
  <2>. QED  BY <1>i, <2>1, <2>2, <2>3 DEF IInv, Neglect
<1>11. CausesRetained'
  <2>1. ASSUME NEW v \in wakes'
        PROVE  /\ trigger'[v.trigger].state = "completed"
               /\ \A u \in wakes' : u.trigger = v.trigger => u = v
    <3>1. PICK old \in wakes : v = Completed(old, c)
      BY <1>u
    <3>2. ASSUME NEW u \in wakes', u.trigger = v.trigger PROVE u = v
      <4>1. PICK before \in wakes : u = Completed(before, c)
        BY <1>u
      <4>2. before = old
        BY <1>3, <3>1, <3>2, <4>1 DEF IInv, CausesRetained
      <4>. QED  BY <3>1, <4>1, <4>2
    <3>. QED  BY <1>u, <1>3, <3>1, <3>2 DEF IInv, CausesRetained
  <2>. QED  BY <1>i, <1>u, <2>1 DEF IInv, CausesRetained
<1>12. CheckpointsFollowDecisions'
  <2>1. ASSUME NEW j \in Items
        PROVE  /\ item'[j].handled <= item'[j].generation
               /\ item'[j].state = "completed" => item'[j].handled = item'[j].generation
               /\ item'[j].state \in {"pending", "selected"}
                    => item'[j].handled < item'[j].generation
               /\ item[j].handled <= item'[j].handled
    BY <1>i, <1>2 DEF IInv, CheckpointsFollowDecisions
  <2>2. ASSUME NEW j \in Items, item'[j].handled > 0
        PROVE  \E e \in decisions' : e.item = j /\ e.generation = item'[j].handled
    BY <1>d, <1>i, <2>2 DEF IInv, CheckpointsFollowDecisions
  <2>3. ASSUME NEW j \in Items, NEW e \in decisions', e.item = j
        PROVE  e.generation \in 1..item'[j].handled /\ e.wake = item'[j].causes[e.generation]
    <3>1. CASE e = d
      BY <1>d, <1>i, <1>5, <1>2, <2>3, <3>1
    <3>2. CASE e \in decisions
      <4>1. e.generation \in 1..item[j].handled /\ e.wake = item[j].causes[e.generation]
        BY <2>3, <3>2 DEF IInv, CheckpointsFollowDecisions
      <4>2. item'[j].handled \in Nat /\ item[j].handled <= item'[j].handled
        BY <1>i, <1>2, <2>1
      <4>. QED  BY <1>i, <1>2, <4>1, <4>2
    <3>. QED  BY <1>d, <3>1, <3>2
  <2>4. ASSUME NEW e \in decisions
        PROVE  \E v \in wakes' :
                 v.trigger = e.wake /\ v.state = "completed" /\ v.generation = e.generation
    <3>1. PICK v \in wakes :
            v.trigger = e.wake /\ v.state = "completed" /\ v.generation = e.generation
      BY DEF IInv, CheckpointsFollowDecisions
    <3>2. e.item \in Items
      BY DEF IInv, TypeOK, Decision
    <3>3. /\ e.generation \in 1..item[e.item].handled
          /\ e.wake = item[e.item].causes[e.generation]
          /\ item[e.item].handled <= item[e.item].generation
      BY <3>2 DEF IInv, CheckpointsFollowDecisions
    <3>4. e.generation \in 1..item[e.item].generation
      BY <1>2, <3>2, <3>3
    <3>5. e.wake # c.wake
      <4>. SUFFICES ASSUME e.wake = c.wake PROVE FALSE
        OBVIOUS
      <4>1. SourceOf[e.wake] = e.item /\ SourceOf[c.wake] = i
        BY <1>i, <1>4, <1>5, <3>2, <3>3, <3>4
      <4>2. e.item = i
        BY <4>1
      <4>3. e.generation = c.generation
        BY <1>i, <1>4, <1>5, <3>3, <3>4, <4>2
      <4>. QED  BY <1>d, <4>2, <4>3
    <3>6. v = Completed(v, c) /\ v \in wakes'
      BY <1>u, <1>3, <3>1, <3>5
    <3>. QED  BY <3>1, <3>6
  <2>5. \E v \in wakes' : v.trigger = d.wake /\ v.state = "completed" /\ v.generation = d.generation
    <3>1. trigger[c.wake].state = "completed"
      BY <1>i, <1>4, <1>5
    <3>2. PICK v \in wakes : v.trigger = c.wake
      BY <1>i, <3>1 DEF IInv, WakesExist
    <3>. QED  BY <1>d, <1>u, <1>3, <3>2
  <2>. QED  BY <1>d, <2>1, <2>2, <2>3, <2>4, <2>5 DEF CheckpointsFollowDecisions
<1>13. DecidedOnce'
  <2>1. \A e, f \in decisions' : e.item = f.item /\ e.generation = f.generation => e = f
    BY <1>d DEF IInv, DecidedOnce
  <2>2. HeldOnce'
    BY <1>6, TokensHoldOnceNext
  <2>3. ASSUME NEW e \in decisions', e.outcome # Unsaid
        PROVE  {v \in recorded' : v.item = e.item /\ v.generation = e.generation
                                   /\ v.outcome = e.outcome}
                 = {[item |-> e.item, generation |-> e.generation, outcome |-> e.outcome,
                     claim |-> e.claim]}
    <3>1. CASE e \in decisions
      BY <1>u, <2>3, <3>1 DEF IInv, DecidedOnce
    <3>2. CASE e = d
      <4>1. worker[w] = c /\ c.item = i /\ c.pc = "commit"
        BY <1>1, <1>d, <2>3, <3>2
      <4>2. {v \in recorded : v.item = i /\ v.outcome = c.outcome
                               /\ v.generation = c.generation}
              = {[item |-> i, outcome |-> c.outcome, generation |-> c.generation,
                  claim |-> c.fencing]}
        BY <4>1 DEF IInv, OutcomesStand, OnRecord
      <4>. QED  BY <1>d, <1>u, <3>2, <4>2
    <3>. QED  BY <1>d, <3>1, <3>2
  <2>. QED  BY <2>1, <2>2, <2>3 DEF DecidedOnce, HeldOnce
<1>. QED  BY <1>1, <1>6, <1>7, <1>8, <1>9, <1>10, <1>11, <1>12, <1>13 DEF IInv

\* A released item waits again, under the token of the claim that gave it up.
LEMMA ReleaseStep ==
    ASSUME IInv, NEW w \in Workers, Release(w), Deciding(w)
    PROVE  IInv'
<1>1. PICK i \in Items :
        /\ TypeOK' /\ item[i].state = "selected"
        /\ SameCauses(i) /\ item'[i].handled = item[i].handled
        /\ item'[i].starvation = item[i].starvation /\ item'[i].fencing = item[i].fencing
        /\ item'[i].state = "pending"
        /\ \A j \in Items : j # i => item'[j] = item[j]
        /\ passed' = [passed EXCEPT ![i] = 0]
        /\ worker' = [worker EXCEPT ![w] = Idle]
        /\ UNCHANGED <<now, trigger, wakes, decisions, recorded>>
  BY ReleaseEffect DEF IInv
<1>i. /\ \A j \in Items : /\ item'[j].generation = item[j].generation
                          /\ item'[j].causes = item[j].causes
                          /\ item'[j].wake = item[j].wake
                          /\ item'[j].handled = item[j].handled
                          /\ item'[j].starvation = item[j].starvation
                          /\ item'[j].fencing = item[j].fencing
      /\ item[i].state = "selected" /\ item'[i].state = "pending"
      /\ \A j \in Items : j # i => item'[j] = item[j]
  BY <1>1 DEF SameCauses
<1>w. worker'[w].pc = "idle" /\ worker'[w].outcome = Unsaid /\ OthersRest(w)
  <2>1. worker' = [worker EXCEPT ![w] = Idle] /\ worker \in [Workers -> Pass]
    BY <1>1 DEF IInv, TypeOK
  <2>. QED  BY <2>1 DEF OthersRest, Idle
<1>u. /\ now' = now /\ trigger' = trigger /\ wakes' = wakes /\ decisions' = decisions
      /\ recorded' = recorded
  BY <1>1
<1>2. ClaimsExist' /\ Tokens' /\ OutcomesStand'
  BY <1>i, <1>w, <1>u, NotDeciding DEF IInv
<1>3. ClaimsHold'
  <2>1. ASSUME NEW v \in Workers, Deciding(v)', ItemHeld(v)'
        PROVE  /\ worker'[v] = worker[v] /\ worker[v].item # i
               /\ Deciding(v) /\ worker[v].item \in Items
    BY <1>i, <1>w, <2>1 DEF Deciding, ItemHeld, IInv, ClaimsExist, OthersRest
  <2>2. ASSUME NEW v \in Workers, Deciding(v)', ItemHeld(v)'
        PROVE  ItemHeld(v) /\ item'[worker[v].item] = item[worker[v].item]
    BY <1>i, <2>1, <2>2 DEF ItemHeld
  <2>. QED  BY <2>1, <2>2 DEF IInv, ClaimsHold
<1>4. NewestCause' /\ WakesExist'
  BY <1>i, <1>u DEF IInv, NewestCause, WakesExist
<1>5. Neglect'
  <2>1. \A j \in Items : StarvesLess(j)' = StarvesLess(j)
    BY <1>i DEF StarvesLess
  <2>2. passed'[i] = 0 /\ \A j \in Items : j # i => passed'[j] = passed[j]
    BY <1>1 DEF IInv, TypeOK
  <2>3. Cardinality(StarvesLess(i)) \in Nat
    BY StarvesLessFinite
  <2>. QED  BY <1>i, <2>1, <2>2, <2>3 DEF IInv, Neglect
<1>6. CausesRetained'
  BY <1>i, <1>u DEF IInv, CausesRetained
<1>7. CheckpointsFollowDecisions'
  <2>1. \A j \in Items : /\ item'[j].state = "completed" => item[j].state = "completed"
                         /\ item'[j].state \in {"pending", "selected"}
                              => item[j].state \in {"pending", "selected"}
    BY <1>i
  <2>. QED  BY <1>i, <1>u, <2>1 DEF IInv, CheckpointsFollowDecisions
<1>8. DecidedOnce'
  BY <1>2, <1>u, TokensHoldOnceNext DEF IInv, DecidedOnce, HeldOnce
<1>. QED  BY <1>1, <1>2, <1>3, <1>4, <1>5, <1>6, <1>7, <1>8 DEF IInv

-----------------------------------------------------------------------------
(* The theorems                                                            *)

LEMMA Step == IInv /\ [Next]_vars => IInv'
<1>. SUFFICES ASSUME IInv, [Next]_vars PROVE IInv'
  OBVIOUS
<1>1. ASSUME NEW t \in Triggers, Ingest(t) PROVE IInv'
  BY <1>1, IngestStep
<1>2. ASSUME NEW w \in Workers, Scan(w) \/ Visit(w) PROVE IInv'
  BY <1>2, ClaimTriggerStep, QuietStep DEF Scan, Visit, Begin
<1>3. ASSUME NEW w \in Workers, PassStep(w) \/ ReleaseAgenda(w) \/ Crash(w) PROVE IInv'
  <2>1. CASE Materialize(w)
    BY <2>1, MaterializeStep
  <2>2. CASE MaterializeStale(w) \/ EndRun(w) \/ CommitRefused(w) \/ Crash(w)
    BY <2>2, QuietStep
  <2>3. CASE ClaimAgenda(w)
    BY <2>3, ClaimAgendaStep
  <2>4. CASE RecordOutcome(w)
    BY <2>4, RecordOutcomeStep
  <2>5. CASE CommitDecision(w)
    BY <2>5, CommitDecisionStep
  <2>6. CASE ReboundOutcome(w) \/ ReleaseAgenda(w)
    BY <2>6, ReleaseStep DEF ReboundOutcome, ReleaseAgenda, Asks, Deciding
  <2>. QED  BY <1>3, <2>1, <2>2, <2>3, <2>4, <2>5, <2>6 DEF PassStep
<1>4. CASE Tick
  BY <1>4, TickStep
<1>5. CASE UNCHANGED vars
  BY <1>5 DEF vars, IInv, TypeOK, ClaimsExist, ClaimsHold, Tokens, NewestCause, WakesExist,
              OutcomesStand, Neglect, StarvesLess, CausesRetained, CheckpointsFollowDecisions,
              DecidedOnce, Deciding, ItemHeld, OnRecord
<1>. QED  BY <1>1, <1>2, <1>3, <1>4, <1>5 DEF Next

THEOREM Invariance == Spec => []IInv
BY Initially, Step, PTL DEF Spec

\* TypeOK: rows, claims and history have the fields and states that the store
\* and the services give them.
THEOREM TypeCorrect == Spec => []TypeOK
<1>1. IInv => TypeOK
  BY DEF IInv
<1>. QED  BY <1>1, Invariance, PTL

\* CausesRetained (materialize_agenda): however triggers are claimed, overtaken
\* and replayed, an item's causes are the completed triggers of its source.
THEOREM CausesAreRetained == Spec => []CausesRetained
<1>1. IInv => CausesRetained
  BY DEF IInv
<1>. QED  BY <1>1, Invariance, PTL

\* CheckpointsFollowDecisions (commit_semantic_decision): what is handled was
\* decided, whatever arrives between the claim and the commit.
THEOREM CheckpointsFollow == Spec => []CheckpointsFollowDecisions
<1>1. IInv => CheckpointsFollowDecisions
  BY DEF IInv
<1>. QED  BY <1>1, Invariance, PTL

\* DecidedOnce (_require_agenda_claim, record_policy_outcome): of any number of
\* workers whose claims outlive their leases, one decides, and the policy's word
\* on its decision is its own.
THEOREM OneDecides == Spec => []DecidedOnce
<1>1. IInv => DecidedOnce
  BY DEF IInv
<1>. QED  BY <1>1, Invariance, PTL

\* NeglectIsBounded (claim_agenda): a pending item sees fewer claims of others
\* than there are items, for those claimed meanwhile starve less than it does,
\* and it does not starve less than itself.
THEOREM NeglectBounded == Spec => []NeglectIsBounded
<1>1. IInv => NeglectIsBounded
  <2>. SUFFICES ASSUME IInv, NEW i \in Items, item[i].state = "pending"
       PROVE  passed[i] < NumItems
    BY DEF NeglectIsBounded
  <2>1. passed[i] \in Nat /\ passed[i] <= Cardinality(StarvesLess(i))
    BY DEF IInv, TypeOK, Neglect
  <2>2. item[i].starvation \in Nat
    <3>1. item[i] \in AgendaRow
      BY DEF IInv, TypeOK
    <3>. QED  BY <3>1 DEF AgendaRow
  <2>3. StarvesLess(i) \subseteq Items /\ i \notin StarvesLess(i)
    BY <2>2 DEF StarvesLess
  <2>4. Cardinality(Items) = NumItems
    BY FS_Interval, ParametersAssumption DEF Items
  <2>5. Cardinality(StarvesLess(i)) < Cardinality(Items)
    BY <2>3, ItemsFinite, FS_Subset, FS_CardinalityType, StarvesLessFinite
  <2>6. Cardinality(StarvesLess(i)) \in Nat /\ NumItems \in Nat
    BY StarvesLessFinite, ParametersAssumption
  <2>. QED  BY <2>1, <2>4, <2>5, <2>6
<1>. QED  BY <1>1, Invariance, PTL

-----------------------------------------------------------------------------
(* The agenda is a list of causes per source, decided in batches           *)

\* What Coalescing sees of the agenda.
Causes == [i \in Items |-> item[i].causes]
Decided == [i \in Items |-> item[i].handled]
Batch(d) == [item |-> d.item, generation |-> d.generation, wake |-> d.wake]
Batches == {Batch(d) : d \in decisions}

\* Nothing of it changes.
LEMMA AgendaStutters ==
    ASSUME decisions' = decisions,
           \A i \in Items : item'[i].causes = item[i].causes /\ item'[i].handled = item[i].handled
    PROVE  UNCHANGED <<Causes, Decided, Batches>>
BY DEF Causes, Decided, Batches

LEMMA MaterializeArrives ==
    ASSUME IInv, NEW w \in Workers, Materialize(w)
    PROVE  \E t \in Triggers : Promise!Arrive(t)
<1>1. PICK t \in Triggers, i \in Items :
        /\ i = SourceOf[t] /\ trigger[t].state = "claimed"
        /\ item'[i].causes = Append(item[i].causes, t) /\ item'[i].handled = item[i].handled
        /\ \A j \in Items : j # i => item'[j] = item[j]
        /\ decisions' = decisions
  BY MaterializeEffect DEF IInv
<1>2. Causes' = [Causes EXCEPT ![i] = Append(Causes[i], t)] /\ Decided' = Decided
  BY <1>1 DEF Causes, Decided
<1>3. Batches' = Batches
  BY <1>1 DEF Batches
<1>4. \A k \in 1..Len(Causes[i]) : Causes[i][k] # t
  <2>1. {item[i].causes[k] : k \in 1..Len(item[i].causes)} =
          {u \in Triggers : SourceOf[u] = i /\ trigger[u].state = "completed"}
    BY DEF IInv, CausesRetained
  <2>. QED  BY <1>1, <2>1 DEF Causes
<1>. QED  BY <1>1, <1>2, <1>3, <1>4, Zenon DEF Promise!Arrive, Causes, Decided, Batches, Batch

LEMMA CommitDecides ==
    ASSUME IInv, NEW w \in Workers, CommitDecision(w)
    PROVE  \E i \in Items : \E upTo \in 1..Len(Causes[i]) : Promise!Decide(i, upTo)
<1>1. PICK i \in Items, n \in Nat, t \in Triggers, d \in Decision :
        /\ item[i].handled < n /\ n <= item[i].generation /\ t = item[i].causes[n]
        /\ d.item = i /\ d.generation = n /\ d.wake = t
        /\ decisions' = decisions \cup {d}
        /\ SameCauses(i) /\ item'[i].handled = n
        /\ \A j \in Items : j # i => item'[j] = item[j]
  <2>. DEFINE c == worker[w]
              i == c.item
              d == [item |-> i, generation |-> c.generation, wake |-> c.wake,
                    outcome |-> c.outcome, claim |-> c.fencing]
  <2>1. TypeOK /\ ClaimsExist /\ ClaimsHold /\ CausesRetained
    BY DEF IInv
  <2>2. c \in Pass
    BY <2>1, CommitDecisionEffect
  <2>. i \in Items /\ c.generation \in Nat /\ c.wake \in Triggers /\ d \in Decision
    BY <2>1, <2>2, CommitDecisionEffect DEF Pass
  <2>. WITNESS i \in Items, c.generation \in Nat, c.wake \in Triggers, d \in Decision
  <2>. QED  BY <2>1, CommitDecisionEffect
<1>2. /\ item[i].handled \in Nat /\ item[i].generation \in Nat
      /\ Len(item[i].causes) = item[i].generation
  <2>1. item[i] \in AgendaRow
    BY DEF IInv, TypeOK
  <2>. QED  BY <2>1 DEF AgendaRow, IInv, CausesRetained
<1>3. Causes' = Causes /\ Decided' = [Decided EXCEPT ![i] = n]
  BY <1>1 DEF Causes, Decided, SameCauses
<1>4. Batches' = Batches \cup {Batch(d)}
  BY <1>1 DEF Batches
<1>5. Batch(d) = [item |-> i, generation |-> n, wake |-> Causes[i][n]]
  BY <1>1 DEF Batch, Causes
<1>6. n \in 1..Len(Causes[i]) /\ n \in Decided[i] + 1 .. Len(Causes[i])
  BY <1>1, <1>2 DEF Causes, Decided
<1>7. Promise!Decide(i, n)
  BY <1>3, <1>4, <1>5, <1>6, Zenon DEF Promise!Decide, Causes, Decided, Batches, Batch
<1>. QED  BY <1>6, <1>7

LEMMA PromiseStep == IInv /\ [Next]_vars => [Promise!Next]_(Promise!coalescing)
<1>. SUFFICES ASSUME IInv, [Next]_vars
     PROVE  (\E t \in Triggers : Promise!Arrive(t))
            \/ (\E i \in Items : \E upTo \in 1..Len(Causes[i]) : Promise!Decide(i, upTo))
            \/ UNCHANGED <<Causes, Decided, Batches>>
  BY Zenon DEF Promise!Next, Promise!coalescing, Causes, Decided, Batches, Batch
<1>1. CASE \E w \in Workers : Materialize(w)
  BY <1>1, MaterializeArrives
<1>2. CASE \E w \in Workers : CommitDecision(w)
  BY <1>2, CommitDecides
<1>3. ASSUME NEW w \in Workers, ClaimAgenda(w) PROVE UNCHANGED <<Causes, Decided, Batches>>
  BY <1>3, ClaimAgendaEffect, AgendaStutters DEF IInv, SameCauses
<1>4. ASSUME NEW w \in Workers, Release(w), Deciding(w)
      PROVE  UNCHANGED <<Causes, Decided, Batches>>
  <2>1. PICK i \in Items :
          /\ SameCauses(i) /\ item'[i].handled = item[i].handled
          /\ \A j \in Items : j # i => item'[j] = item[j]
          /\ decisions' = decisions
    BY <1>4, ReleaseEffect DEF IInv
  <2>2. \A j \in Items : item'[j].causes = item[j].causes /\ item'[j].handled = item[j].handled
    <3>1. ASSUME NEW j \in Items, j # i PROVE item'[j] = item[j]
      BY <2>1, <3>1
    <3>2. item'[i].causes = item[i].causes /\ item'[i].handled = item[i].handled
      BY <2>1 DEF SameCauses
    <3>. QED  BY <3>1, <3>2
  <2>3. decisions' = decisions
    BY <2>1
  <2>. QED  BY <2>2, <2>3, AgendaStutters
<1>5. CASE decisions' = decisions /\ item' = item
  BY <1>5, AgendaStutters
<1>6. ASSUME NEW w \in Workers, Scan(w) \/ Visit(w) \/ Crash(w) \/ MaterializeStale(w) \/ EndRun(w)
                                \/ RecordOutcome(w) \/ CommitRefused(w)
      PROVE  decisions' = decisions /\ item' = item
  BY <1>6 DEF Scan, Visit, Begin, ClaimTrigger, NoTrigger, Crash, MaterializeStale, EndRun,
              RecordOutcome, CommitRefused
<1>7. ASSUME Tick \/ (\E t \in Triggers : Ingest(t)) \/ UNCHANGED vars
      PROVE  decisions' = decisions /\ item' = item
  BY <1>7 DEF Tick, Ingest, vars
<1>8. ASSUME NEW w \in Workers, ReboundOutcome(w) \/ ReleaseAgenda(w)
      PROVE  UNCHANGED <<Causes, Decided, Batches>>
  BY <1>4, <1>8 DEF ReboundOutcome, ReleaseAgenda, Asks, Deciding
<1>. QED  BY <1>1, <1>2, <1>3, <1>5, <1>6, <1>7, <1>8 DEF Next, PassStep

\* DecidesInBatches: what the store does is what Coalescing promises.
THEOREM ImplementsCoalescing == Spec => DecidesInBatches
<1>1. Init => Promise!Init
  <2>1. Init => Causes = [i \in Items |-> <<>>]
    BY DEF Init, Causes
  <2>2. Init => Decided = [i \in Items |-> 0] /\ Batches = {}
    BY DEF Init, Decided, Batches
  <2>. QED  BY <2>1, <2>2, Zenon DEF Promise!Init, Causes, Decided, Batches, Batch
<1>. QED  BY <1>1, Invariance, PromiseStep, PTL DEF Spec, DecidesInBatches, Promise!Spec
=============================================================================
