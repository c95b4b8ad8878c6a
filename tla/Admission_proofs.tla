--------------------------- MODULE Admission_proofs ---------------------------
(***************************************************************************)
(* Proofs about Admission for any number of keys, kinds, requests, wakes   *)
(* and drafts, any policies and any number of revisions and periods.       *)
(***************************************************************************)
EXTENDS Admission, FiniteSetTheorems, TLAPS

\* Nothing was charged, read or drafted under a revision still to come.
NothingAhead ==
    /\ \A x \in charged : x.revision <= revision
    /\ \A d \in Drafts : draft[d] # Closed => draft[d].base <= revision
    /\ \A c \in Callers : caller[c].pc = "admit" => caller[c].revision > 0

\* Requests have read, and triggers carry, revisions there have been.
NothingReadAhead ==
    /\ \A c \in Callers : caller[c] # Idle => caller[c].revision <= revision
    /\ \A o \in Occurrences : bound[o] # Never => bound[o] <= revision

\* What was let in is charged, of each key one submission.
LetInIsCharged ==
    /\ IsFiniteSet(charged)
    /\ \A o \in Occurrences : outcome[o] = "allowed" => \E x \in charged : x.key = o[1]
    /\ \A o, u \in Occurrences :
         outcome[o] = "allowed" /\ outcome[u] = "allowed" /\ o[1] = u[1] => o = u

\* Governed triggers, those being ingested too, were let in.
GovernedWasLetIn ==
    /\ \A c \in Callers : caller[c].pc = "ingest" /\ caller[c].revision > 0 =>
         outcome[caller[c].occurrence] = "allowed"
    /\ \A o \in Occurrences : bound[o] \in 1..MaxRevision => outcome[o] = "allowed"

\* A wake under way is of a trigger that was ingested, and no other wake is.
AwakeForATrigger ==
    /\ \A w \in Workers : worker[w] # Idle => bound[worker[w].occurrence] # Never
    /\ \A v, w \in Workers : worker[v] # Idle /\ worker[w] # Idle /\ v # w =>
         worker[v].occurrence # worker[w].occurrence

\* A governed wake whose policy was revised while the model thought is bound to
\* an earlier revision, and has not passed the look that follows the model.
OvertakenAreStale == \A w \in outrun :
    worker[w] # Idle /\ bound[worker[w].occurrence] # 0 =>
      worker[w].pc = "model" /\ bound[worker[w].occurrence] < revision

\* A draft that can still be confirmed to resume was prepared during this stop.
ResumesWereAsked == \A d \in Drafts :
    draft[d] # Closed /\ draft[d].resume /\ draft[d].base = revision => d \in asked

\* A key is charged once.
ChargedPerKey == \A x, y \in charged : x.key = y.key => x = y

IInv ==
    /\ TypeOK
    /\ NothingAhead
    /\ NothingReadAhead
    /\ LetInIsCharged
    /\ GovernedWasLetIn
    /\ AwakeForATrigger
    /\ OvertakenAreStale
    /\ ResumesWereAsked
    /\ ChargedPerKey
    /\ BudgetHolds

-----------------------------------------------------------------------------
(* Rows                                                                    *)

\* What is not idle or closed has the fields of its kind.
LEMMA RowsHaveFields ==
    ASSUME TypeOK
    PROVE  /\ \A c \in Callers : caller[c] # Idle => caller[c] \in CallerRow
           /\ \A c \in Callers : caller[c].pc # "idle" => caller[c] \in CallerRow
           /\ \A w \in Workers : worker[w] # Idle => worker[w] \in WorkerRow
           /\ \A w \in Workers : worker[w].pc # "idle" => worker[w] \in WorkerRow
           /\ \A d \in Drafts : draft[d] # Closed => draft[d] \in DraftRow
<1>. Idle.pc = "idle"
  BY DEF Idle
<1>. QED  BY DEF TypeOK

LEMMA OccurrencesHaveKeys ==
    \A o \in Occurrences : o = <<o[1], o[2]>> /\ o[1] \in Keys /\ o[2] \in Kinds
BY DEF Occurrences

\* A policy has a number for its limit and stops on what it may stop on.
LEMMA PolicyHasFields ==
    ASSUME TypeOK PROVE policy.limit \in Nat /\ policy.stops \subseteq Stops
<1>1. policy \in Contents \/ policy = NoPolicy
  BY ParametersAssumption DEF TypeOK
<1>. QED  BY <1>1 DEF Contents, NoPolicy

\* The consumptions of a revision in a period.
Consumed(r, b) == {x \in charged : x.revision = r /\ x.bucket = b}

LEMMA ConsumedFinite ==
    ASSUME IsFiniteSet(charged), NEW r, NEW b
    PROVE  IsFiniteSet(Consumed(r, b)) /\ Cardinality(Consumed(r, b)) \in Nat
<1>1. Consumed(r, b) \subseteq charged
  BY DEF Consumed
<1>. QED  BY <1>1, FS_Subset, FS_CardinalityType

\* What the invariant says at first.
LEMMA Initially == Init => IInv
<1>. SUFFICES ASSUME Init PROVE IInv
  OBVIOUS
<1>1. TypeOK
  BY ParametersAssumption DEF Init, TypeOK, Never, Buckets, RunState
<1>2. NothingAhead /\ GovernedWasLetIn /\ AwakeForATrigger /\ ResumesWereAsked /\ ChargedPerKey
  BY ParametersAssumption DEF Init, NothingAhead, GovernedWasLetIn, AwakeForATrigger,
     ResumesWereAsked, ChargedPerKey, Idle, Closed, Never
<1>5. NothingReadAhead /\ OvertakenAreStale
  BY DEF Init, NothingReadAhead, OvertakenAreStale
<1>3. LetInIsCharged
  BY FS_EmptySet DEF Init, LetInIsCharged
<1>4. BudgetHolds
  <2>1. \A r \in 1..MaxRevision, b \in Buckets :
          {x \in charged : x.revision = r /\ x.bucket = b} = {} /\ counter[<<r, b>>] = 0
    BY DEF Init
  <2>. QED  BY <2>1, FS_EmptySet DEF BudgetHolds, Init
<1>. QED  BY <1>1, <1>2, <1>3, <1>4, <1>5 DEF IInv

-----------------------------------------------------------------------------
(* Frames: what a step that leaves tables alone keeps                      *)

LEMMA NobodyAhead ==
    ASSUME IInv, UNCHANGED <<charged, revision, draft>>,
           \A c \in Callers : caller'[c].pc = "admit" => caller'[c].revision > 0
    PROVE  NothingAhead'
BY DEF IInv, NothingAhead

LEMMA ReadingsStand ==
    ASSUME IInv, UNCHANGED <<caller, bound, revision>> PROVE NothingReadAhead'
BY DEF IInv, NothingReadAhead

LEMMA BudgetStands ==
    ASSUME BudgetHolds, UNCHANGED <<charged, counter, revision, policy>> PROVE BudgetHolds'
BY DEF BudgetHolds

LEMMA DraftsStand ==
    ASSUME IInv, UNCHANGED <<draft, revision, asked>> PROVE ResumesWereAsked'
BY DEF IInv, ResumesWereAsked

LEMMA LettingInStands ==
    ASSUME IInv, UNCHANGED <<outcome, charged>> PROVE LetInIsCharged' /\ ChargedPerKey'
BY DEF IInv, LetInIsCharged, ChargedPerKey

LEMMA WakesStand ==
    ASSUME IInv, UNCHANGED <<worker, bound>> PROVE AwakeForATrigger'
BY DEF IInv, AwakeForATrigger

LEMMA OvertakenStand ==
    ASSUME IInv, UNCHANGED <<worker, bound, revision, outrun>> PROVE OvertakenAreStale'
BY DEF IInv, OvertakenAreStale

\* A request goes on: what it holds afterwards was let in if it is to be ingested.
LEMMA CallerMoves ==
    ASSUME IInv, NEW c \in Callers, NEW new \in {Idle} \cup CallerRow,
           caller' = [caller EXCEPT ![c] = new],
           UNCHANGED <<ungoverned, admission, bound, wakes>>,
           new # Idle => new.revision <= revision,
           new.pc = "admit" => new.revision > 0,
           new.pc = "ingest" /\ new.revision > 0 => outcome[new.occurrence] = "allowed"
    PROVE  IInv'
<1>. USE DEF ungoverned, admission, wakes
<1>1. TypeOK /\ caller \in [Callers -> {Idle} \cup CallerRow]
  BY DEF IInv, TypeOK
<1>2. \A e \in Callers : caller'[e] = IF e = c THEN new ELSE caller[e]
  BY <1>1
<1>3. TypeOK'
  BY <1>1 DEF TypeOK
<1>4. NothingAhead'
  <2>1. \A e \in Callers : caller'[e].pc = "admit" => caller'[e].revision > 0
    BY <1>2 DEF IInv, NothingAhead
  <2>. QED  BY <2>1, NobodyAhead
<1>5. GovernedWasLetIn'
  BY <1>2 DEF IInv, GovernedWasLetIn
<1>6. NothingReadAhead'
  BY <1>2 DEF IInv, NothingReadAhead
<1>. QED  BY <1>3, <1>4, <1>5, <1>6, BudgetStands, DraftsStand, LettingInStands, WakesStand,
             OvertakenStand DEF IInv

\* A wake goes on, of a trigger that was ingested and is no other wake's, and not
\* past the model if it was overtaken.
LEMMA WorkerMoves ==
    ASSUME IInv, NEW w \in Workers, NEW new \in {Idle} \cup WorkerRow,
           worker' = [worker EXCEPT ![w] = new],
           UNCHANGED <<ungoverned, admission, bound, caller>>,
           decided' \subseteq Occurrences, proposals' \subseteq Occurrences \X (0..MaxRevision),
           outrun' \subseteq outrun,
           new # Idle =>
             /\ bound[new.occurrence] # Never
             /\ \A v \in Workers : worker[v] # Idle /\ v # w =>
                  worker[v].occurrence # new.occurrence
             /\ w \in outrun' /\ bound[new.occurrence] # 0 =>
                  new.pc = "model" /\ bound[new.occurrence] < revision
    PROVE  IInv'
<1>. USE DEF ungoverned, admission
<1>1. TypeOK /\ worker \in [Workers -> {Idle} \cup WorkerRow]
  BY DEF IInv, TypeOK
<1>2. TypeOK'
  BY <1>1 DEF TypeOK
<1>3. NothingAhead'
  BY NobodyAhead DEF IInv, NothingAhead
<1>4. GovernedWasLetIn'
  BY DEF IInv, GovernedWasLetIn
<1>5. \A v \in Workers : worker'[v] = IF v = w THEN new ELSE worker[v]
  BY <1>1
<1>6. AwakeForATrigger'
  BY <1>5 DEF IInv, AwakeForATrigger
<1>7. OvertakenAreStale'
  <2>1. outrun' \subseteq Workers
    BY <1>1 DEF TypeOK
  <2>. QED  BY <1>5, <2>1 DEF IInv, OvertakenAreStale
<1>. QED  BY <1>2, <1>3, <1>4, <1>6, <1>7, ReadingsStand, BudgetStands, DraftsStand,
             LettingInStands DEF IInv

-----------------------------------------------------------------------------
(* Submission                                                              *)

LEMMA SubmitStep ==
    ASSUME IInv, NEW c \in Callers, NEW o \in Occurrences, Submit(c, o) PROVE IInv'
<1>. DEFINE new == [pc |-> IF revision = 0 THEN "ingest" ELSE "admit", occurrence |-> o,
                    revision |-> revision]
<1>1. revision \in 0..MaxRevision /\ MaxRevision \in Nat
  BY ParametersAssumption DEF IInv, TypeOK
<1>2. new \in CallerRow
  BY <1>1 DEF CallerRow
<1>3. new.pc = "admit" => new.revision > 0
  BY <1>1
<1>4. ~(new.pc = "ingest" /\ new.revision > 0)
  BY <1>1
<1>5. caller' = [caller EXCEPT ![c] = new] /\ UNCHANGED <<ungoverned, admission, bound, wakes>>
  BY DEF Submit
<1>6. new.revision <= revision
  BY <1>1
<1>. HIDE DEF new
<1>. QED  BY <1>2, <1>3, <1>4, <1>5, <1>6, CallerMoves

LEMMA AdmitReplayStep ==
    ASSUME IInv, NEW c \in Callers, AdmitReplay(c) PROVE IInv'
<1>1. /\ caller[c] \in CallerRow /\ caller[c].pc = "admit"
      /\ caller[c].revision <= revision
  BY RowsHaveFields DEF IInv, AdmitReplay, NothingReadAhead, Idle
<1>2. UNCHANGED <<ungoverned, admission, bound, wakes>>
  BY DEF AdmitReplay
<1>3. CASE outcome[caller[c].occurrence] = "allowed"
  <2>. DEFINE new == [caller[c] EXCEPT !.pc = "ingest"]
  <2>1. /\ new \in CallerRow /\ new.pc = "ingest"
        /\ new.occurrence = caller[c].occurrence /\ new.revision = caller[c].revision
    BY <1>1 DEF CallerRow
  <2>2. caller' = [caller EXCEPT ![c] = new]
    BY <1>3 DEF AdmitReplay
  <2>. HIDE DEF new
  <2>. QED  BY <1>1, <1>2, <1>3, <2>1, <2>2, CallerMoves
<1>4. CASE outcome[caller[c].occurrence] # "allowed"
  <2>1. caller' = [caller EXCEPT ![c] = Idle]
    BY <1>4 DEF AdmitReplay
  <2>2. Idle.pc = "idle"
    BY DEF Idle
  <2>. QED  BY <1>2, <2>1, <2>2, CallerMoves
<1>. QED  BY <1>3, <1>4

LEMMA CrashCallerStep ==
    ASSUME IInv, NEW c \in Callers, CrashCaller(c) PROVE IInv'
<1>1. Idle.pc = "idle"
  BY DEF Idle
<1>. QED  BY <1>1, CallerMoves DEF CrashCaller

\* A refusal records an outcome where there was none, and may stop the colleague.
LEMMA AdmitRefusedStep ==
    ASSUME IInv, NEW c \in Callers, AdmitRefused(c) PROVE IInv'
<1>. DEFINE o == caller[c].occurrence
<1>1. TypeOK /\ caller[c] \in CallerRow /\ o \in Occurrences
  BY RowsHaveFields DEF IInv, AdmitRefused, CallerRow
<1>2. /\ outcome[o] = "none" /\ outcome' = [outcome EXCEPT ![o] = "refused"]
      /\ caller' = [caller EXCEPT ![c] = Idle]
      /\ UNCHANGED <<bucket, revision, policy, draft, asked, charged, counter, bound>>
      /\ UNCHANGED <<worker, decided, proposals, outrun>>
  BY DEF AdmitRefused, Refuse, wakes
<1>3. run' \in RunState
  <2>1. \/ run' = run
        \/ \E cause \in Circumstances : StopsOn(cause) /\ Stopping(cause)
        \/ "budget" \in policy.stops /\ Stopping("budget")
    <3>1. \/ UNCHANGED run
          \/ \E cause \in Circumstances : IF StopsOn(cause) THEN Stopping(cause) ELSE UNCHANGED run
          \/ IF "budget" \in policy.stops THEN Stopping("budget") ELSE UNCHANGED run
      BY Zenon DEF AdmitRefused
    <3>. QED  BY <3>1, Zenon
  <2>2. policy.stops \subseteq Stops
    BY <1>1, PolicyHasFields
  <2>3. \A cause : StopsOn(cause) => cause \in {"outside"} \cup Stops
    BY <2>2 DEF StopsOn
  <2>4. \A cause \in {"outside"} \cup Stops : Stopping(cause) => run' \in RunState
    BY DEF Stopping, RunState
  <2>5. run \in RunState
    BY <1>1 DEF TypeOK
  <2>. QED  BY <2>1, <2>2, <2>3, <2>4, <2>5
<1>4. TypeOK'
  BY <1>1, <1>2, <1>3 DEF TypeOK
<1>5. \A e \in Callers : caller'[e] = IF e = c THEN Idle ELSE caller[e]
  BY <1>1, <1>2 DEF TypeOK
<1>6. Idle.pc = "idle"
  BY DEF Idle
<1>7. \A u \in Occurrences : outcome'[u] = "allowed" <=> outcome[u] = "allowed"
  BY <1>1, <1>2 DEF TypeOK
<1>. HIDE DEF o
<1>8. NothingAhead'
  <2>1. \A e \in Callers : caller'[e].pc = "admit" => caller'[e].revision > 0
    BY <1>5, <1>6 DEF IInv, NothingAhead
  <2>. QED  BY <1>2, <2>1, NobodyAhead
<1>9. LetInIsCharged' /\ ChargedPerKey'
  BY <1>2, <1>7 DEF IInv, LetInIsCharged, ChargedPerKey
<1>10. GovernedWasLetIn'
  <2>1. \A e \in Callers : caller[e].pc = "ingest" => caller[e].occurrence \in Occurrences
    BY <1>1, RowsHaveFields DEF CallerRow
  <2>. QED  BY <1>2, <1>5, <1>6, <1>7, <2>1 DEF IInv, GovernedWasLetIn
<1>11. NothingReadAhead'
  BY <1>2, <1>5 DEF IInv, NothingReadAhead
<1>. QED  BY <1>2, <1>4, <1>8, <1>9, <1>10, <1>11, BudgetStands, DraftsStand, WakesStand,
             OvertakenStand DEF IInv

\* Ingesting binds a trigger to the revision its request had read.
LEMMA IngestStep ==
    ASSUME IInv, NEW c \in Callers, Ingest(c) PROVE IInv'
<1>. DEFINE o == caller[c].occurrence
            r == caller[c].revision
<1>1. TypeOK /\ caller[c] \in CallerRow /\ o \in Occurrences /\ r \in 0..MaxRevision
  BY RowsHaveFields DEF IInv, Ingest, CallerRow
<1>2. /\ caller[c].pc = "ingest"
      /\ bound' = IF bound[o] = Never THEN [bound EXCEPT ![o] = r] ELSE bound
      /\ caller' = [caller EXCEPT ![c] = Idle]
      /\ UNCHANGED <<ungoverned, admission, wakes>>
  BY DEF Ingest
<1>3. r > 0 => outcome[o] = "allowed"
  BY <1>1, <1>2 DEF IInv, GovernedWasLetIn
<1>4. r # Never /\ r <= revision
  BY <1>1, <1>2, ParametersAssumption DEF Never, IInv, NothingReadAhead, Idle
<1>. HIDE DEF o, r
<1>. USE DEF ungoverned, admission, wakes
<1>5. bound \in [Occurrences -> 0..Never] /\ r \in 0..Never
  BY <1>1, ParametersAssumption DEF TypeOK, Never
<1>6. \A u \in Occurrences : bound'[u] = IF u = o /\ bound[o] = Never THEN r ELSE bound[u]
  BY <1>2, <1>5
<1>7. TypeOK'
  BY <1>1, <1>2, <1>5 DEF TypeOK
<1>8. \A e \in Callers : caller'[e] = IF e = c THEN Idle ELSE caller[e]
  BY <1>1, <1>2 DEF TypeOK
<1>9. Idle.pc = "idle"
  BY DEF Idle
<1>10. NothingAhead'
  <2>1. \A e \in Callers : caller'[e].pc = "admit" => caller'[e].revision > 0
    BY <1>8, <1>9 DEF IInv, NothingAhead
  <2>. QED  BY <1>2, <2>1, NobodyAhead
<1>11. GovernedWasLetIn'
  <2>1. \A e \in Callers : caller'[e].pc = "ingest" /\ caller'[e].revision > 0 =>
          outcome'[caller'[e].occurrence] = "allowed"
    BY <1>2, <1>8, <1>9 DEF IInv, GovernedWasLetIn
  <2>2. \A u \in Occurrences : bound'[u] \in 1..MaxRevision => outcome'[u] = "allowed"
    BY <1>2, <1>3, <1>6 DEF IInv, GovernedWasLetIn
  <2>. QED  BY <2>1, <2>2 DEF GovernedWasLetIn
<1>12. \A w \in Workers : worker[w] # Idle =>
         /\ worker[w].occurrence \in Occurrences
         /\ bound'[worker[w].occurrence] = bound[worker[w].occurrence]
  BY <1>1, <1>6, RowsHaveFields DEF WorkerRow, IInv, AwakeForATrigger
<1>13. AwakeForATrigger'
  BY <1>2, <1>12 DEF IInv, AwakeForATrigger
<1>14. OvertakenAreStale'
  <2>1. outrun \subseteq Workers
    BY <1>1 DEF TypeOK
  <2>. QED  BY <1>2, <1>12, <2>1 DEF IInv, OvertakenAreStale
<1>15. NothingReadAhead'
  BY <1>2, <1>4, <1>6, <1>8 DEF IInv, NothingReadAhead
<1>. QED  BY <1>2, <1>7, <1>10, <1>11, <1>13, <1>14, <1>15, BudgetStands, DraftsStand,
             LettingInStands DEF IInv

\* A submission let in is charged, under its key for the first time.
LEMMA AdmitAllowedStep ==
    ASSUME IInv, NEW c \in Callers, AdmitAllowed(c) PROVE IInv'
<1>. DEFINE o == caller[c].occurrence
            x == [key |-> o[1], revision |-> revision, bucket |-> bucket]
            new == [caller[c] EXCEPT !.pc = "ingest"]
<1>1. TypeOK /\ caller[c] \in CallerRow /\ o \in Occurrences /\ o[1] \in Keys
  BY RowsHaveFields, OccurrencesHaveKeys DEF IInv, AdmitAllowed, CallerRow
<1>2. /\ caller[c].pc = "admit" /\ outcome[o] = "none" /\ caller[c].revision = revision
      /\ \A y \in charged : y.key # o[1]
      /\ counter[<<revision, bucket>>] < policy.limit
      /\ counter' = [counter EXCEPT ![<<revision, bucket>>] = @ + 1]
      /\ charged' = charged \cup {x}
      /\ outcome' = [outcome EXCEPT ![o] = "allowed"]
      /\ caller' = [caller EXCEPT ![c] = new]
      /\ UNCHANGED <<bucket, revision, policy, run, draft, asked, bound>>
      /\ UNCHANGED <<worker, decided, proposals, outrun>>
  BY DEF AdmitAllowed, NotCharged, BudgetLeft, ungoverned, wakes
<1>3. revision \in 1..MaxRevision /\ bucket \in Buckets
  <2>1. revision > 0 /\ revision \in 0..MaxRevision
    BY <1>1, <1>2 DEF IInv, NothingAhead, TypeOK
  <2>. QED  BY <1>1, <2>1, ParametersAssumption DEF TypeOK
<1>4. /\ new \in CallerRow /\ new.pc = "ingest" /\ new.occurrence = o
      /\ new.revision = revision
      /\ x.key = o[1] /\ x.revision = revision /\ x.bucket = bucket
      /\ x \in [key : Keys, revision : 1..MaxRevision, bucket : Buckets]
  BY <1>1, <1>2, <1>3 DEF CallerRow
<1>. HIDE DEF o, x, new
<1>5. counter \in [(1..MaxRevision) \X Buckets -> Nat]
  BY <1>1 DEF TypeOK
<1>6. counter' \in [(1..MaxRevision) \X Buckets -> Nat]
  BY <1>2, <1>3, <1>5
<1>7. TypeOK'
  BY <1>1, <1>2, <1>4, <1>6 DEF TypeOK
<1>8. \A e \in Callers : caller'[e] = IF e = c THEN new ELSE caller[e]
  BY <1>1, <1>2 DEF TypeOK
<1>9. \A u \in Occurrences : outcome'[u] = IF u = o THEN "allowed" ELSE outcome[u]
  BY <1>1, <1>2 DEF TypeOK
<1>10. NothingAhead'
  <2>1. \A e \in Callers : caller'[e].pc = "admit" => caller'[e].revision > 0
    BY <1>4, <1>8 DEF IInv, NothingAhead
  <2>2. \A y \in charged' : y.revision <= revision
    BY <1>2, <1>3, <1>4 DEF IInv, NothingAhead
  <2>. QED  BY <1>2, <2>1, <2>2 DEF IInv, NothingAhead
<1>11. LetInIsCharged'
  <2>1. IsFiniteSet(charged')
    BY <1>2, FS_AddElement DEF IInv, LetInIsCharged
  <2>2. \A u \in Occurrences : outcome'[u] = "allowed" => \E y \in charged' : y.key = u[1]
    BY <1>2, <1>4, <1>9 DEF IInv, LetInIsCharged
  <2>3. \A u \in Occurrences : outcome[u] = "allowed" => u[1] # o[1]
    BY <1>2 DEF IInv, LetInIsCharged
  <2>4. \A u, v \in Occurrences :
          outcome'[u] = "allowed" /\ outcome'[v] = "allowed" /\ u[1] = v[1] => u = v
    BY <1>9, <2>3 DEF IInv, LetInIsCharged
  <2>. QED  BY <2>1, <2>2, <2>4 DEF LetInIsCharged
<1>12. GovernedWasLetIn'
  <2>1. \A e \in Callers : caller[e].pc = "ingest" => caller[e].occurrence \in Occurrences
    BY <1>1, RowsHaveFields DEF CallerRow
  <2>2. \A e \in Callers : caller'[e].pc = "ingest" /\ caller'[e].revision > 0 =>
          outcome'[caller'[e].occurrence] = "allowed"
    BY <1>1, <1>4, <1>8, <1>9, <2>1 DEF IInv, GovernedWasLetIn
  <2>. QED  BY <1>2, <1>9, <2>2 DEF IInv, GovernedWasLetIn
<1>13. ChargedPerKey'
  BY <1>2, <1>4 DEF IInv, ChargedPerKey
<1>14. BudgetHolds'
  <2>1. \A r \in 1..MaxRevision, b \in Buckets : counter'[<<r, b>>] =
          IF r = revision /\ b = bucket THEN counter[<<r, b>>] + 1 ELSE counter[<<r, b>>]
    BY <1>2, <1>3, <1>5
  <2>2. \A r \in 1..MaxRevision, b \in Buckets : counter[<<r, b>>] = Cardinality(Consumed(r, b))
    BY DEF IInv, BudgetHolds, Consumed
  <2>3. ASSUME NEW r \in 1..MaxRevision, NEW b \in Buckets
        PROVE  counter'[<<r, b>>] = Cardinality(Consumed(r, b))'
    <3>1. CASE r = revision /\ b = bucket
      <4>1. x \notin Consumed(r, b) /\ Consumed(r, b)' = Consumed(r, b) \cup {x}
        BY <1>2, <1>4, <3>1 DEF Consumed
      <4>2. IsFiniteSet(Consumed(r, b))
        BY ConsumedFinite DEF IInv, LetInIsCharged
      <4>3. Cardinality(Consumed(r, b) \cup {x}) = Cardinality(Consumed(r, b)) + 1
        BY <4>1, <4>2, FS_AddElement
      <4>. QED  BY <2>1, <2>2, <3>1, <4>1, <4>3
    <3>2. CASE ~(r = revision /\ b = bucket)
      <4>1. Consumed(r, b)' = Consumed(r, b)
        BY <1>2, <1>4, <3>2 DEF Consumed
      <4>. QED  BY <2>1, <2>2, <3>2, <4>1
    <3>. QED  BY <3>1, <3>2
  <2>4. \A b \in Buckets : counter'[<<revision', b>>] <= policy'.limit
    <3>1. \A b \in Buckets : counter[<<revision, b>>] <= policy.limit
      BY <1>3 DEF IInv, BudgetHolds
    <3>2. policy.limit \in Nat /\ \A b \in Buckets : counter[<<revision, b>>] \in Nat
      BY <1>1, <1>3, <1>5, PolicyHasFields
    <3>. QED  BY <1>2, <1>3, <2>1, <3>1, <3>2
  <2>. QED  BY <2>3, <2>4 DEF BudgetHolds, Consumed
<1>15. NothingReadAhead'
  BY <1>1, <1>2, <1>4, <1>8 DEF IInv, NothingReadAhead, TypeOK
<1>. QED  BY <1>2, <1>7, <1>10, <1>11, <1>12, <1>13, <1>14, <1>15, DraftsStand, WakesStand,
             OvertakenStand DEF IInv

-----------------------------------------------------------------------------
(* The wake                                                                *)

LEMMA WakeStep ==
    ASSUME IInv, NEW w \in Workers, NEW o \in Occurrences, Wake(w, o) PROVE IInv'
<1>1. /\ TypeOK /\ worker[w] = Idle /\ bound[o] # Never
      /\ \A v \in Workers : worker[v] # Idle => worker[v].occurrence # o
  BY DEF IInv, Wake
<1>2. /\ UNCHANGED <<ungoverned, admission, bound, caller>> /\ proposals' = proposals
      /\ outrun' = outrun \ {w}
  BY DEF Wake
<1>3. /\ decided' \subseteq Occurrences
      /\ proposals' \subseteq Occurrences \X (0..MaxRevision)
  BY <1>1, <1>2 DEF TypeOK, Wake
<1>4. CASE InForce(o) /\ run.state # "stopped"
  <2>. DEFINE new == [pc |-> "model", occurrence |-> o]
  <2>1. new \in WorkerRow /\ new.occurrence = o
    BY DEF WorkerRow
  <2>2. worker' = [worker EXCEPT ![w] = new]
    BY <1>4 DEF Wake
  <2>. HIDE DEF new
  <2>. QED  BY <1>1, <1>2, <1>3, <2>1, <2>2, WorkerMoves
<1>5. CASE ~(InForce(o) /\ run.state # "stopped")
  <2>1. worker' = [worker EXCEPT ![w] = Idle]
    BY <1>1, <1>5 DEF Wake, TypeOK
  <2>. QED  BY <1>2, <1>3, <2>1, WorkerMoves
<1>. QED  BY <1>4, <1>5

\* What a wake under way is known by.
LEMMA Underway ==
    ASSUME IInv, NEW w \in Workers, worker[w] # Idle
    PROVE  /\ worker[w] \in WorkerRow /\ worker[w].occurrence \in Occurrences
           /\ bound[worker[w].occurrence] \in 0..MaxRevision
           /\ bound[worker[w].occurrence] # Never
<1>1. worker[w] \in WorkerRow /\ worker[w].occurrence \in Occurrences
  BY RowsHaveFields DEF IInv, WorkerRow
<1>2. bound[worker[w].occurrence] \in 0..Never /\ bound[worker[w].occurrence] # Never
  BY <1>1 DEF IInv, TypeOK, AwakeForATrigger
<1>. QED  BY <1>1, <1>2, ParametersAssumption DEF Never

\* A wake that ends, with or without a proposal.
LEMMA WorkerEnds ==
    ASSUME IInv, NEW w \in Workers, worker[w] # Idle,
           worker' = [worker EXCEPT ![w] = Idle],
           UNCHANGED <<ungoverned, admission, bound, caller, outrun>>,
           decided' \subseteq decided \cup {worker[w].occurrence},
           proposals' \subseteq
             proposals \cup {<<worker[w].occurrence, bound[worker[w].occurrence]>>}
    PROVE  IInv'
<1>1. /\ decided' \subseteq Occurrences
      /\ proposals' \subseteq Occurrences \X (0..MaxRevision)
  BY Underway DEF IInv, TypeOK
<1>. QED  BY <1>1, WorkerMoves

\* A wake goes past a look if it was not overtaken, or is not governed.
LEMMA WorkerGoesOn ==
    ASSUME IInv, NEW w \in Workers, NEW pc \in {"answered", "commit"}, GoOn(w, pc),
           worker[w] # Idle,
           UNCHANGED <<ungoverned, admission, bound, caller, proposals, outrun>>,
           \/ bound[worker[w].occurrence] \in {0, revision}
           \/ worker[w].pc # "model"
    PROVE  IInv'
<1>. DEFINE o == worker[w].occurrence
            new == [worker[w] EXCEPT !.pc = pc]
<1>1. /\ worker[w] \in WorkerRow /\ o \in Occurrences
      /\ bound[o] \in 0..MaxRevision /\ bound[o] # Never
  BY Underway
<1>2. new \in WorkerRow /\ new.occurrence = o
  BY <1>1 DEF WorkerRow
<1>3. worker' = [worker EXCEPT ![w] = new] /\ decided' = decided
  BY DEF GoOn
<1>4. \A v \in Workers : worker[v] # Idle /\ v # w => worker[v].occurrence # o
  BY DEF IInv, AwakeForATrigger
<1>5. ~(w \in outrun /\ bound[o] # 0)
  <2>1. w \in outrun /\ bound[o] # 0 => worker[w].pc = "model" /\ bound[o] < revision
    BY DEF IInv, OvertakenAreStale
  <2>2. revision \in 0..MaxRevision
    BY DEF IInv, TypeOK
  <2>. QED  BY <1>1, <2>1, <2>2, ParametersAssumption
<1>6. /\ decided' \subseteq Occurrences
      /\ proposals' \subseteq Occurrences \X (0..MaxRevision)
  BY <1>3 DEF IInv, TypeOK
<1>. HIDE DEF o, new
<1>. QED  BY <1>1, <1>2, <1>3, <1>4, <1>5, <1>6, WorkerMoves

LEMMA NoProposalStep ==
    ASSUME IInv, NEW w \in Workers, worker[w] # Idle, NoProposal(w),
           UNCHANGED <<ungoverned, admission, bound, caller, proposals, outrun>>
    PROVE  IInv'
BY WorkerEnds DEF NoProposal

LEMMA AnswerStep ==
    ASSUME IInv, NEW w \in Workers, Answer(w) PROVE IInv'
<1>1. /\ worker[w] # Idle
      /\ UNCHANGED <<ungoverned, admission, bound, caller, proposals, outrun>>
  BY DEF Answer, Idle
<1>2. CASE GoOn(w, "commit") /\ bound[worker[w].occurrence] = 0
  BY <1>1, <1>2, WorkerGoesOn
<1>3. CASE GoOn(w, "answered") /\ InForce(worker[w].occurrence)
  BY <1>1, <1>3, WorkerGoesOn DEF InForce
<1>4. CASE NoProposal(w)
  BY <1>1, <1>4, NoProposalStep
<1>. QED  BY <1>2, <1>3, <1>4 DEF Answer

LEMMA RevalidateStep ==
    ASSUME IInv, NEW w \in Workers, Revalidate(w) PROVE IInv'
<1>1. /\ worker[w] # Idle /\ worker[w].pc # "model"
      /\ UNCHANGED <<ungoverned, admission, bound, caller, proposals, outrun>>
  BY DEF Revalidate, Idle
<1>2. CASE GoOn(w, "commit")
  BY <1>1, <1>2, WorkerGoesOn
<1>3. CASE NoProposal(w)
  BY <1>1, <1>3, NoProposalStep
<1>. QED  BY <1>2, <1>3 DEF Revalidate

\* What is proposed names the revision its trigger carries.
LEMMA CommitProposalStep ==
    ASSUME IInv, NEW w \in Workers, CommitProposal(w) PROVE IInv'
<1>1. worker[w] # Idle
  BY DEF CommitProposal, Idle
<1>. QED  BY <1>1, WorkerEnds DEF CommitProposal

LEMMA CrashWorkerStep ==
    ASSUME IInv, NEW w \in Workers, CrashWorker(w) PROVE IInv'
BY WorkerEnds DEF CrashWorker

-----------------------------------------------------------------------------
(* Policy revisions                                                        *)

LEMMA PrepareStep ==
    ASSUME IInv, NEW d \in Drafts, NEW p \in Policies, NEW resume \in BOOLEAN,
           Prepare(d, p, resume)
    PROVE  IInv'
<1>. DEFINE new == [state |-> "open", content |-> p, base |-> revision, resume |-> resume]
<1>1. TypeOK
  BY DEF IInv
<1>2. /\ draft' = [draft EXCEPT ![d] = new]
      /\ asked' = IF resume THEN asked \cup {d} ELSE asked
      /\ UNCHANGED <<bucket, revision, policy, run, outcome, charged, counter, bound, caller>>
      /\ UNCHANGED <<worker, decided, proposals, outrun>>
  BY DEF Prepare, admission, wakes
<1>3. new \in DraftRow /\ new.base = revision /\ new.resume = resume
  BY <1>1 DEF TypeOK, DraftRow
<1>. HIDE DEF new
<1>4. TypeOK'
  BY <1>1, <1>2, <1>3 DEF TypeOK
<1>5. \A e \in Drafts : draft'[e] = IF e = d THEN new ELSE draft[e]
  BY <1>1, <1>2 DEF TypeOK
<1>6. NothingAhead'
  BY <1>1, <1>2, <1>3, <1>5 DEF IInv, NothingAhead, TypeOK
<1>7. ResumesWereAsked'
  BY <1>2, <1>3, <1>5 DEF IInv, ResumesWereAsked
<1>8. GovernedWasLetIn'
  BY <1>2 DEF IInv, GovernedWasLetIn
<1>. QED  BY <1>2, <1>4, <1>6, <1>7, <1>8, ReadingsStand, BudgetStands, LettingInStands,
             WakesStand, OvertakenStand DEF IInv

\* A confirmed draft leaves none that can still be confirmed, so it does not
\* matter whom the resumption makes the history forget.  Nothing has been
\* charged to the new revision.
LEMMA ConfirmStep ==
    ASSUME IInv, NEW d \in Drafts, Confirm(d) PROVE IInv'
<1>1. TypeOK /\ draft[d] \in DraftRow
  BY RowsHaveFields DEF IInv, Confirm
<1>2. /\ revision < MaxRevision /\ revision' = revision + 1
      /\ policy' = draft[d].content /\ run' = RunAfter(d)
      /\ asked' \subseteq asked
      /\ draft' = [draft EXCEPT ![d] = Closed]
      /\ UNCHANGED <<bucket, outcome, charged, counter, bound, caller>>
      /\ outrun' = outrun \cup {w \in Workers : worker[w].pc = "model"}
      /\ UNCHANGED <<worker, decided, proposals>>
  BY DEF Confirm, admission
<1>3. draft[d].content \in Policies /\ RunAfter(d) \in RunState
  BY <1>1 DEF TypeOK, RunAfter, RunState, DraftRow
<1>4. revision \in 0..MaxRevision /\ revision' \in 1..MaxRevision
  BY <1>1, <1>2, ParametersAssumption DEF TypeOK
<1>5. TypeOK'
  BY <1>1, <1>2, <1>3, <1>4 DEF TypeOK
<1>6. \A e \in Drafts : draft'[e] # Closed =>
        draft'[e] = draft[e] /\ draft[e] # Closed /\ draft[e].base <= revision
              /\ draft[e].base \in 0..MaxRevision
  BY <1>1, <1>2, RowsHaveFields DEF IInv, NothingAhead, TypeOK, DraftRow
<1>7. \A x \in charged : x.revision \in 1..MaxRevision /\ x.revision <= revision
  BY <1>1 DEF IInv, NothingAhead, TypeOK
<1>8. NothingAhead'
  BY <1>2, <1>4, <1>6, <1>7, ParametersAssumption DEF IInv, NothingAhead
<1>9. ResumesWereAsked'
  BY <1>2, <1>4, <1>6, ParametersAssumption DEF ResumesWereAsked
<1>10. GovernedWasLetIn'
  BY <1>2 DEF IInv, GovernedWasLetIn
<1>11. BudgetHolds'
  <2>1. \A b \in Buckets : {x \in charged : x.revision = revision' /\ x.bucket = b} = {}
    BY <1>2, <1>4, <1>7
  <2>2. \A b \in Buckets : counter[<<revision', b>>] = 0
    BY <1>4, <2>1, FS_EmptySet DEF IInv, BudgetHolds
  <2>3. policy'.limit \in Nat
    BY <1>2, <1>3, ParametersAssumption DEF Contents
  <2>4. \A b \in Buckets : counter'[<<revision', b>>] <= policy'.limit
    BY <1>2, <2>2, <2>3
  <2>5. \A r \in 1..MaxRevision, b \in Buckets :
          counter'[<<r, b>>] = Cardinality({x \in charged' : x.revision = r /\ x.bucket = b})
    BY <1>2 DEF IInv, BudgetHolds
  <2>. QED  BY <2>4, <2>5 DEF BudgetHolds
<1>12. NothingReadAhead'
  <2>1. /\ \A c \in Callers : caller[c] # Idle => caller[c].revision \in 0..MaxRevision
        /\ \A o \in Occurrences : bound[o] \in 0..Never /\ Never \in Nat
    BY <1>1, RowsHaveFields, ParametersAssumption DEF TypeOK, CallerRow, Never
  <2>. QED  BY <1>2, <1>4, <2>1, ParametersAssumption DEF IInv, NothingReadAhead
<1>13. OvertakenAreStale'
  <2>. SUFFICES ASSUME NEW w \in outrun', worker[w] # Idle, bound[worker[w].occurrence] # 0
                PROVE  worker[w].pc = "model" /\ bound[worker[w].occurrence] < revision'
    BY <1>2 DEF OvertakenAreStale
  <2>1. w \in Workers /\ (w \in outrun \/ worker[w].pc = "model")
    BY <1>1, <1>2 DEF TypeOK
  <2>2. worker[w].pc = "model"
    BY <2>1 DEF IInv, OvertakenAreStale
  <2>3. bound[worker[w].occurrence] \in 0..MaxRevision /\ bound[worker[w].occurrence] <= revision
    BY <2>1, Underway DEF IInv, NothingReadAhead
  <2>. QED  BY <1>2, <1>4, <2>2, <2>3, ParametersAssumption
<1>. QED  BY <1>2, <1>5, <1>8, <1>9, <1>10, <1>11, <1>12, <1>13, LettingInStands, WakesStand
          DEF IInv

LEMMA ConfirmStaleStep ==
    ASSUME IInv, NEW d \in Drafts, ConfirmStale(d) PROVE IInv'
<1>1. TypeOK
  BY DEF IInv
<1>2. /\ draft' = [draft EXCEPT ![d] = Closed] /\ asked' = asked \ {d}
      /\ UNCHANGED <<bucket, revision, policy, run, outcome, charged, counter, bound, caller>>
      /\ UNCHANGED <<worker, decided, proposals, outrun>>
  BY DEF ConfirmStale, admission, wakes
<1>3. TypeOK'
  BY <1>1, <1>2 DEF TypeOK
<1>4. \A e \in Drafts : draft'[e] = IF e = d THEN Closed ELSE draft[e]
  BY <1>1, <1>2 DEF TypeOK
<1>5. NothingAhead'
  BY <1>2, <1>4 DEF IInv, NothingAhead
<1>6. ResumesWereAsked'
  BY <1>2, <1>4 DEF IInv, ResumesWereAsked
<1>7. GovernedWasLetIn'
  BY <1>2 DEF IInv, GovernedWasLetIn
<1>. QED  BY <1>2, <1>3, <1>5, <1>6, <1>7, ReadingsStand, BudgetStands, LettingInStands,
             WakesStand, OvertakenStand DEF IInv

LEMMA QuietStep == ASSUME IInv, NextBucket \/ UNCHANGED vars PROVE IInv'
<1>1. /\ UNCHANGED <<revision, policy, run, outcome, charged, counter, bound, caller>>
      /\ UNCHANGED <<worker, decided, proposals, outrun, draft, asked>>
  BY DEF NextBucket, vars, admission, wakes
<1>2. bucket' \in Buckets
  BY ParametersAssumption DEF IInv, TypeOK, NextBucket, Buckets, vars
<1>3. TypeOK'
  BY <1>1, <1>2 DEF IInv, TypeOK
<1>4. NothingAhead' /\ GovernedWasLetIn'
  BY <1>1 DEF IInv, NothingAhead, GovernedWasLetIn
<1>. QED  BY <1>1, <1>3, <1>4, ReadingsStand, BudgetStands, DraftsStand, LettingInStands,
             WakesStand, OvertakenStand DEF IInv

-----------------------------------------------------------------------------
(* What always holds                                                       *)

LEMMA Step == IInv /\ [Next]_vars => IInv'
<1>. SUFFICES ASSUME IInv, [Next]_vars PROVE IInv'
  OBVIOUS
<1>1. ASSUME NEW c \in Callers, \/ \E o \in Occurrences : Submit(c, o)
                                \/ AdmitReplay(c) \/ AdmitRefused(c) \/ AdmitAllowed(c)
                                \/ Ingest(c) \/ CrashCaller(c)
      PROVE  IInv'
  BY <1>1, SubmitStep, AdmitReplayStep, AdmitRefusedStep, AdmitAllowedStep, IngestStep,
     CrashCallerStep
<1>2. ASSUME NEW w \in Workers, \/ \E o \in Occurrences : Wake(w, o)
                                \/ Answer(w) \/ Revalidate(w) \/ CommitProposal(w)
                                \/ CrashWorker(w)
      PROVE  IInv'
  BY <1>2, WakeStep, AnswerStep, RevalidateStep, CommitProposalStep, CrashWorkerStep
<1>3. ASSUME NEW d \in Drafts,
             \/ \E p \in Policies, resume \in BOOLEAN : Prepare(d, p, resume)
             \/ Confirm(d) \/ ConfirmStale(d)
      PROVE  IInv'
  BY <1>3, PrepareStep, ConfirmStep, ConfirmStaleStep
<1>. QED  BY <1>1, <1>2, <1>3, QuietStep DEF Next

THEOREM Invariance == Spec => []IInv
BY Initially, Step, PTL DEF Spec

\* TypeOK: the tables, requests and wakes have the states that p5_store and the
\* services give them.
THEOREM TypeCorrect == Spec => []TypeOK
<1>1. IInv => TypeOK
  BY DEF IInv
<1>. QED  BY <1>1, Invariance, PTL

\* BudgetHolds (admit_trigger): counters say what was charged, and never more
\* than the active policy's limit.
THEOREM BudgetIsKept == Spec => []BudgetHolds
<1>1. IInv => BudgetHolds
  BY DEF IInv
<1>. QED  BY <1>1, Invariance, PTL

\* ChargedOnce (admit_trigger, submit_trigger): of any number of requests with one
\* key, and of both kinds, one is charged and one ingests a governed trigger.
THEOREM OneChargePerKey == Spec => []ChargedOnce
<1>1. ASSUME IInv PROVE ChargedOnce
  <2>1. ASSUME NEW o \in Occurrences, bound[o] \in 1..MaxRevision
        PROVE  /\ \E x \in charged : x.key = o[1]
               /\ \A u \in Occurrences : u[1] = o[1] /\ bound[u] \in 1..MaxRevision => u = o
    BY <1>1, <2>1 DEF IInv, GovernedWasLetIn, LetInIsCharged
  <2>. QED  BY <1>1, <2>1 DEF IInv, ChargedPerKey, ChargedOnce
<1>. QED  BY <1>1, Invariance, PTL

\* What a stop needs to end: only a confirmation makes a stopped colleague active,
\* of a draft that asks for it against the current revision.
LEMMA OnlyConfirmResumes ==
    ASSUME IInv, [Next]_vars, run.state = "stopped", run'.state = "active"
    PROVE  revision' # revision /\ \E d \in asked : draft'[d] = Closed
<1>1. run' # run
  OBVIOUS
<1>2. \A c \in Callers : AdmitRefused(c) => run' = run \/ run'.state = "stopped"
  <2>. SUFFICES ASSUME NEW c \in Callers, AdmitRefused(c) PROVE run' = run \/ run'.state = "stopped"
    OBVIOUS
  <2>1. \A cause : Stopping(cause) => run'.state = "stopped"
    BY DEF Stopping
  <2>2. \/ UNCHANGED run
        \/ \E cause \in Circumstances : IF StopsOn(cause) THEN Stopping(cause) ELSE UNCHANGED run
        \/ IF "budget" \in policy.stops THEN Stopping("budget") ELSE UNCHANGED run
    BY Zenon DEF AdmitRefused
  <2>. QED  BY <2>1, <2>2
<1>3. \E d \in Drafts : Confirm(d)
  BY <1>1, <1>2 DEF Next, vars, ungoverned, Submit, AdmitReplay, AdmitAllowed, Ingest,
     CrashCaller, Wake, Answer, Revalidate, CommitProposal, CrashWorker, Prepare, ConfirmStale,
     NextBucket
<1>4. PICK d \in Drafts : Confirm(d)
  BY <1>3
<1>5. /\ draft[d] # Closed /\ draft[d].base = revision
      /\ revision' = revision + 1 /\ run' = RunAfter(d)
      /\ draft' = [draft EXCEPT ![d] = Closed]
  BY <1>4 DEF Confirm, BaseCurrent
<1>6. draft[d].resume
  BY <1>5 DEF RunAfter
<1>7. d \in asked
  BY <1>5, <1>6 DEF IInv, ResumesWereAsked
<1>8. draft'[d] = Closed /\ revision' # revision
  BY <1>5 DEF IInv, TypeOK
<1>. QED  BY <1>7, <1>8

\* NothingResumesImplicitly (confirm_draft): of any number of drafts prepared
\* during any of many stops, the one that ends a stop was asked to end that one.
THEOREM ResumesOnlyAsAsked == Spec => NothingResumesImplicitly
<1>1. IInv /\ [Next]_vars =>
        [run.state = "stopped" /\ run'.state = "active" =>
           revision' # revision /\ \E d \in asked : draft'[d] = Closed]_vars
  BY OnlyConfirmResumes
<1>. QED  BY <1>1, Invariance, PTL DEF Spec, NothingResumesImplicitly

\* NoOvertakenProposal (decide, _prepare_semantic_decision): of any number of wakes
\* that ask their model while stops come, are revised and are lifted, none proposes
\* while the colleague is stopped, and no governed one whose policy was revised
\* before the model had answered proposes at all.
THEOREM OvertakenProposesNothing == Spec => NoOvertakenProposal
<1>1. ASSUME IInv, [Next]_vars, NEW w \in Workers, ProposesFor(w)
      PROVE  /\ run.state # "stopped"
             /\ w \in outrun => bound[worker[w].occurrence] = 0
  <2>1. worker[w] # Idle
    BY <1>1 DEF ProposesFor
  <2>2. PICK x \in proposals' \ proposals : x[1] = worker[w].occurrence
    BY <1>1 DEF ProposesFor
  <2>3. \E v \in Workers : CommitProposal(v)
    BY <1>1, <2>2 DEF Next, vars, ungoverned, wakes, Submit, AdmitReplay, AdmitRefused,
       AdmitAllowed, Ingest, CrashCaller, Wake, Answer, Revalidate, CrashWorker, Prepare,
       Confirm, ConfirmStale, NextBucket
  <2>4. PICK v \in Workers : CommitProposal(v)
    BY <2>3
  <2>5. ~Stopped /\ x[1] = worker[v].occurrence /\ worker[v].pc = "commit"
    BY <2>2, <2>4 DEF CommitProposal, Persists
  <2>6. worker[v] # Idle
    BY <2>5 DEF Idle
  <2>7. v = w
    BY <1>1, <2>1, <2>2, <2>5, <2>6 DEF IInv, AwakeForATrigger
  <2>8. w \in outrun => bound[worker[w].occurrence] = 0
    BY <1>1, <2>1, <2>5, <2>7 DEF IInv, OvertakenAreStale
  <2>. QED  BY <2>5, <2>8 DEF Stopped
<1>2. IInv /\ [Next]_vars =>
        [\A w \in Workers : ProposesFor(w) =>
           /\ run.state # "stopped"
           /\ w \in outrun => bound[worker[w].occurrence] = 0]_vars
  BY <1>1
<1>. QED  BY <1>2, Invariance, PTL DEF Spec, NoOvertakenProposal
=============================================================================
