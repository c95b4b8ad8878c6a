---------------------------- MODULE Outbox_proofs ----------------------------
(***************************************************************************)
(* Proofs about Outbox for any number of proposals, workers and attempts,  *)
(* any lease and validity periods and any bounds.                          *)
(***************************************************************************)
EXTENDS Outbox, TLAPS

USE ProposalsAssumption, WorkersAssumption, NumbersAssumption, SwitchAssumption

Row == [state : RowStates, attempt : Nat, nextAt : Nat,
        lease : Nat, fencing : Nat, unknowns : Nat]
Pass == [pc : PCs, row : Proposals \cup {NoRow}, attempt : Nat, fencing : Nat,
         lease : Nat, outcome : Outcomes \cup Answers \cup {"none"}]


\* A worker that holds a claim names a row and an attempt that exist.
HoldsExistingRow == \A w \in Workers :
    worker[w].pc \in Reconciling \cup Dispatching =>
      /\ worker[w].row \in Proposals
      /\ worker[w].attempt \in Attempts

\* The reconciliation delay is bounded by its ceiling, whatever the count.
LEMMA BackoffDelayBounded ==
    ASSUME NEW k PROVE BackoffDelay(k) \in Nat
BY DEF BackoffDelay

LEMMA LeastNat ==
    ASSUME NEW a \in Nat, NEW b \in Nat PROVE Least(a, b) \in Nat
BY DEF Least

\* Conclude keeps the two tables well typed.
LEMMA ConcludeType ==
    ASSUME TypeOK, NEW p \in Proposals, NEW n \in Attempts,
           NEW s \in AttemptStates, NEW rowState \in RowStates, NEW again \in BOOLEAN,
           Conclude(p, n, s, rowState, again)
    PROVE  /\ attempt' \in [Proposals -> [Attempts -> AttemptStates]]
           /\ outbox' \in [Proposals -> Row]
<1>1. \A r \in RowStates, m \in Nat : Released(p, r, m) \in Row
  BY DEF Released, Row, TypeOK
<1>2. n \in Nat /\ n + 1 \in Nat /\ "retry" \in RowStates
  BY DEF Attempts, RowStates
<1>3. (IF again THEN Released(p, "retry", n + 1) ELSE Released(p, rowState, n)) \in Row
  BY <1>1, <1>2
<1>4. [m \in Attempts |-> CASE m = n -> s
                            [] again /\ m = n + 1 -> "planned"
                            [] OTHER -> attempt[p][m]] \in [Attempts -> AttemptStates]
  BY DEF TypeOK, AttemptStates
<1>. QED
  BY <1>3, <1>4 DEF Conclude, TypeOK, Row

\* Conclude keeps row and attempts in step.
LEMMA ConcludeAgrees ==
    ASSUME TypeOK, AttemptsAgree, NEW p \in Proposals, NEW n \in Attempts,
           NEW s \in AttemptStates \ {"none"}, NEW rowState \in RowStates \ {"absent"},
           NEW again \in BOOLEAN,
           outbox[p].state # "absent", outbox[p].attempt = n,
           rowState \in RowFits(s),
           again => n + 1 \in Attempts /\ s = "failed",
           Conclude(p, n, s, rowState, again)
    PROVE  AttemptsAgree'
<1>. attempt \in [Proposals -> [Attempts -> AttemptStates]] /\ outbox \in [Proposals -> Row]
  BY DEF TypeOK, Row
<1>. SUFFICES ASSUME NEW q \in Proposals
     PROVE /\ outbox'[q].state = "absent" => \A m \in Attempts : attempt'[q][m] = "none"
           /\ outbox'[q].state # "absent" =>
                /\ outbox'[q].attempt \in Attempts
                /\ outbox'[q].state \in RowFits(attempt'[q][outbox'[q].attempt])
                /\ \A m \in Attempts :
                     /\ m < outbox'[q].attempt => attempt'[q][m] = "failed"
                     /\ m > outbox'[q].attempt => attempt'[q][m] = "none"
  BY Zenon DEF AttemptsAgree, RowFits
<1>1. CASE q # p
  <2>1. outbox'[q] = outbox[q] /\ attempt'[q] = attempt[q]
    BY <1>1 DEF Conclude
  <2>. QED  BY <2>1 DEF AttemptsAgree
<1>2. CASE q = p
  <2>0. \A m \in Attempts : /\ m < n => attempt[p][m] = "failed"
                            /\ m > n => attempt[p][m] = "none"
    BY DEF AttemptsAgree
  <2>1. \A m \in Attempts : attempt'[p][m] = CASE m = n -> s
                                               [] again /\ m = n + 1 -> "planned"
                                               [] OTHER -> attempt[p][m]
    BY DEF Conclude
  <2>2. CASE ~again
    <3>1. outbox'[p].state = rowState /\ outbox'[p].attempt = n
      BY <2>2 DEF Conclude, Released
    <3>. QED  BY <1>2, <2>0, <2>1, <2>2, <3>1, SMTT(30) DEF Attempts
  <2>3. CASE again
    <3>1. outbox'[p].state = "retry" /\ outbox'[p].attempt = n + 1
      BY <2>3 DEF Conclude, Released
    <3>. QED  BY <1>2, <2>0, <2>1, <2>3, <3>1, SMTT(30) DEF Attempts, RowFits
  <2>. QED  BY <2>2, <2>3
<1>. QED  BY <1>1, <1>2

-----------------------------------------------------------------------------
(* Types, existing rows, agreement of the two tables                       *)

BaseInv == TypeOK /\ HoldsExistingRow /\ AttemptsAgree

LEMMA BaseInit == Init => BaseInv
<1>. SUFFICES ASSUME Init PROVE BaseInv
  OBVIOUS
<1>1. TypeOK
  BY DEF Init, TypeOK, NoOutbox, NoClaim, RowStates, PCs, Fates, AttemptStates
<1>2. HoldsExistingRow
  BY DEF Init, HoldsExistingRow, NoClaim, Reconciling, Dispatching
<1>3. AttemptsAgree
  BY DEF Init, AttemptsAgree, NoOutbox
<1>. QED  BY <1>1, <1>2, <1>3 DEF BaseInv

\* Steps of a pass that touch nothing but the worker's own memory.
OnlyMoves(w) ==
    \/ Scan(w) \/ Visit(w) \/ WakeEnds(w) \/ WakeRaises(w) \/ Restart(w)
    \/ ReconcileNothing(w) \/ ReconcileValidate(w) \/ ReconcileAsk(w) \/ ReconcileRecheck(w)
    \/ DispatchNothing(w) \/ DispatchValidate(w) \/ ApplyReturns(w)
    \/ GiveUp(w)

LEMMA BaseMoves ==
    ASSUME BaseInv, NEW w \in Workers, OnlyMoves(w) PROVE BaseInv'
<1>. USE DEF BaseInv
<1>1. UNCHANGED <<now, mandate, revisedAt, proposal, decision, attempt, outbox,
                  fate, executions, crashes>>
  BY DEF OnlyMoves, OnlyWorker, durable, external, Scan, Visit, WakeEnds, WakeRaises, Restart,
         ReconcileNothing, ReconcileValidate, ReconcileAsk, ReconcileRecheck, DispatchNothing,
         DispatchValidate, ApplyReturns, GiveUp
<1>2. worker \in [Workers -> Pass]
  BY DEF TypeOK, Pass
<1>3. /\ worker' \in [Workers -> Pass]
      /\ \A v \in Workers : v # w => worker'[v] = worker[v]
      /\ worker'[w].pc \in Reconciling \cup Dispatching =>
           /\ worker[w].pc \in Reconciling \cup Dispatching
           /\ worker'[w].row = worker[w].row
           /\ worker'[w].attempt = worker[w].attempt
  <2>1. \A pc \in PCs : NoClaim(pc) \in Pass
    BY DEF NoClaim, Pass
  <2>2. \A pc \in PCs : GoTo(w, pc) => /\ worker' \in [Workers -> Pass]
                                       /\ \A v \in Workers : v # w => worker'[v] = worker[v]
                                       /\ worker'[w].pc = pc
                                       /\ worker'[w].row = worker[w].row
                                       /\ worker'[w].attempt = worker[w].attempt
    BY <1>2 DEF GoTo, Pass
  <2>3. \A pc \in PCs, o \in Outcomes \cup Answers :
            Hears(w, pc, o) => /\ worker' \in [Workers -> Pass]
                               /\ \A v \in Workers : v # w => worker'[v] = worker[v]
                               /\ worker'[w].pc = pc
                               /\ worker'[w].row = worker[w].row
                               /\ worker'[w].attempt = worker[w].attempt
    BY <1>2 DEF Hears, Pass
  <2>4. Stop(w) => /\ worker' \in [Workers -> Pass]
                   /\ \A v \in Workers : v # w => worker'[v] = worker[v]
                   /\ worker'[w].pc = "idle"
    BY <1>2, <2>1 DEF Stop, Rest, NoClaim, PCs
  <2>. USE DEF PCs, Reconciling, Dispatching
  <2>5. CASE Scan(w) \/ Visit(w) \/ WakeEnds(w) \/ Restart(w) \/ ReconcileNothing(w)
    BY <2>2, <2>5 DEF Scan, Visit, WakeEnds, Restart, ReconcileNothing
  <2>6. CASE ReconcileValidate(w) \/ ReconcileRecheck(w) \/ DispatchValidate(w)
    BY <2>2, <2>6 DEF ReconcileValidate, ReconcileRecheck, DispatchValidate
  <2>7. CASE ReconcileAsk(w) \/ ApplyReturns(w)
    BY <2>3, <2>7 DEF ReconcileAsk, ApplyReturns
  <2>8. CASE WakeRaises(w) \/ DispatchNothing(w) \/ GiveUp(w)
    BY <2>4, <2>8 DEF WakeRaises, DispatchNothing, GiveUp
  <2>. QED  BY <2>5, <2>6, <2>7, <2>8 DEF OnlyMoves
<1>4. TypeOK'
  BY <1>1, <1>3 DEF TypeOK, Pass
<1>5. HoldsExistingRow'
  BY <1>3 DEF HoldsExistingRow
<1>6. AttemptsAgree'
  BY <1>1 DEF AttemptsAgree
<1>. QED  BY <1>4, <1>5, <1>6

LEMMA BaseClaim ==
    ASSUME BaseInv, NEW w \in Workers, NEW p \in Proposals, NEW s \in RowStates, NEW pc \in PCs,
           outbox[p].state # "absent",
           s \in RowFits(attempt[p][outbox[p].attempt]),
           Claim(w, p, s, pc)
    PROVE  BaseInv'
<1>. USE DEF BaseInv
<1>1. UNCHANGED <<now, mandate, revisedAt, proposal, decision, attempt, fate, executions, crashes>>
  BY DEF Claim, external
<1>2. /\ outbox \in [Proposals -> Row] /\ worker \in [Workers -> Pass] /\ now \in Nat
      /\ attempt \in [Proposals -> [Attempts -> AttemptStates]]
  BY DEF TypeOK, Row, Pass
<1>3. outbox[p].attempt \in Attempts /\ s # "absent"
  BY <1>2 DEF AttemptsAgree, RowFits, AttemptStates
<1>4. /\ outbox' \in [Proposals -> Row]
      /\ \A q \in Proposals : q # p => outbox'[q] = outbox[q]
      /\ outbox'[p].state = s /\ outbox'[p].attempt = outbox[p].attempt
  BY <1>2 DEF Claim, Row
<1>5. /\ worker' \in [Workers -> Pass]
      /\ \A v \in Workers : v # w => worker'[v] = worker[v]
      /\ worker'[w].row = p /\ worker'[w].attempt = outbox[p].attempt
  BY <1>2 DEF Claim, Pass, Row
<1>6. TypeOK'
  BY <1>1, <1>4, <1>5 DEF TypeOK, Row, Pass
<1>7. HoldsExistingRow'
  BY <1>3, <1>5 DEF HoldsExistingRow
<1>8. AttemptsAgree'
  BY <1>1, <1>3, <1>4 DEF AttemptsAgree
<1>. QED  BY <1>6, <1>7, <1>8

\* A worker that gives its claim up disturbs neither types nor other claims.
LEMMA RestType ==
    ASSUME BaseInv, NEW w \in Workers, NEW pc \in {"idle", "dispatch", "ended"}, Rest(w, pc)
    PROVE  /\ worker' \in [Workers -> Pass]
           /\ HoldsExistingRow'
<1>1. worker \in [Workers -> Pass] /\ NoClaim(pc) \in Pass
  BY DEF BaseInv, TypeOK, Pass, NoClaim, PCs
<1>2. worker'[w].pc = pc /\ \A v \in Workers : v # w => worker'[v] = worker[v]
  BY <1>1 DEF Rest, NoClaim
<1>. QED
  BY <1>1, <1>2 DEF Rest, HoldsExistingRow, BaseInv, Reconciling, Dispatching

\* A worker that moves on keeps its claim.
LEMMA GoToType ==
    ASSUME BaseInv, NEW w \in Workers, NEW pc \in PCs, GoTo(w, pc),
           worker[w].pc \in Reconciling \cup Dispatching
    PROVE  /\ worker' \in [Workers -> Pass]
           /\ HoldsExistingRow'
<1>1. worker \in [Workers -> Pass]
  BY DEF BaseInv, TypeOK, Pass
<1>2. /\ worker'[w].row = worker[w].row /\ worker'[w].attempt = worker[w].attempt
      /\ \A v \in Workers : v # w => worker'[v] = worker[v]
  BY <1>1 DEF GoTo, Pass
<1>. QED
  BY <1>1, <1>2 DEF GoTo, Pass, HoldsExistingRow, BaseInv

\* AttemptsAgree is about one row at a time.
LEMMA OneRowAgrees ==
    ASSUME AttemptsAgree, NEW p \in Proposals,
           \A q \in Proposals : q # p => outbox'[q] = outbox[q] /\ attempt'[q] = attempt[q],
           outbox'[p].state # "absent",
           outbox'[p].attempt \in Attempts,
           outbox'[p].state \in RowFits(attempt'[p][outbox'[p].attempt]),
           \A m \in Attempts : m < outbox'[p].attempt => attempt'[p][m] = "failed",
           \A m \in Attempts : m > outbox'[p].attempt => attempt'[p][m] = "none"
    PROVE  AttemptsAgree'
<1>. SUFFICES ASSUME NEW q \in Proposals
     PROVE /\ outbox'[q].state = "absent" => \A m \in Attempts : attempt'[q][m] = "none"
           /\ outbox'[q].state # "absent" =>
                /\ outbox'[q].attempt \in Attempts
                /\ outbox'[q].state \in RowFits(attempt'[q][outbox'[q].attempt])
                /\ \A m \in Attempts :
                     /\ m < outbox'[q].attempt => attempt'[q][m] = "failed"
                     /\ m > outbox'[q].attempt => attempt'[q][m] = "none"
  BY Zenon DEF AttemptsAgree, RowFits
<1>1. CASE q = p
  BY <1>1
<1>2. CASE q # p
  BY <1>2 DEF AttemptsAgree
<1>. QED  BY <1>1, <1>2

LEMMA BaseApprove ==
    ASSUME BaseInv, NEW p \in Proposals, Approve(p), outbox[p].state = "absent"
    PROVE  BaseInv'
<1>. USE DEF BaseInv
<1>1. UNCHANGED <<now, mandate, revisedAt, proposal, worker, fate, executions, crashes>>
  BY DEF Approve, external
<1>2. /\ outbox \in [Proposals -> Row] /\ now \in Nat
      /\ attempt \in [Proposals -> [Attempts -> AttemptStates]]
      /\ 1 \in Attempts /\ \A m \in Attempts : m # 1 => m > 1 /\ ~(m < 1)
  BY DEF TypeOK, Row, Attempts
<1>3. /\ outbox' \in [Proposals -> Row]
      /\ \A q \in Proposals : q # p => outbox'[q] = outbox[q]
      /\ outbox'[p].state = "pending" /\ outbox'[p].attempt = 1
  BY <1>2 DEF Approve, Row, RowStates
<1>4. /\ attempt' \in [Proposals -> [Attempts -> AttemptStates]]
      /\ \A q \in Proposals : q # p => attempt'[q] = attempt[q]
      /\ attempt'[p][1] = "planned"
      /\ \A m \in Attempts : m # 1 => attempt'[p][m] = attempt[p][m]
  BY <1>2 DEF Approve, AttemptStates
<1>5. decision' \in [Proposals -> [choice : {"none", "approve", "reject"}, validUntil : Nat]]
  <2>1. now + ApprovalValidity \in Nat /\ proposal[p].validUntil \in Nat
    BY DEF TypeOK
  <2>2. Least(now + ApprovalValidity, proposal[p].validUntil) \in Nat
    BY <2>1, LeastNat
  <2>. QED  BY <2>2 DEF Approve, RecordDecision, TypeOK
<1>6. TypeOK'
  BY <1>1, <1>3, <1>4, <1>5 DEF TypeOK, Row
<1>7. HoldsExistingRow'
  BY <1>1 DEF HoldsExistingRow
<1>8. AttemptsAgree'
  <2>1. \A m \in Attempts : attempt[p][m] = "none"
    BY DEF AttemptsAgree
  <2>2. /\ outbox'[p].state \in RowFits(attempt'[p][outbox'[p].attempt])
        /\ \A m \in Attempts : m < outbox'[p].attempt => attempt'[p][m] = "failed"
        /\ \A m \in Attempts : m > outbox'[p].attempt => attempt'[p][m] = "none"
    BY <1>2, <1>3, <1>4, <2>1 DEF RowFits
  <2>. QED  BY <1>2, <1>3, <1>4, <2>2, OneRowAgrees
<1>. QED  BY <1>6, <1>7, <1>8

LEMMA BaseMarkStarted ==
    ASSUME BaseInv, NEW w \in Workers, MarkStarted(w) PROVE BaseInv'
<1>. USE DEF BaseInv
<1>. DEFINE p == worker[w].row
            n == worker[w].attempt
<1>1. UNCHANGED <<now, mandate, revisedAt, proposal, decision, fate, executions, crashes>>
  BY DEF MarkStarted, external
<1>2. /\ outbox \in [Proposals -> Row]
      /\ attempt \in [Proposals -> [Attempts -> AttemptStates]]
      /\ p \in Proposals /\ n \in Attempts
  BY DEF TypeOK, Row, HoldsExistingRow, MarkStarted, Dispatching
<1>3. outbox[p].attempt = n /\ outbox[p].state = "claimed"
  BY DEF MarkStarted, StartAccepted, ClaimMatches
<1>4. /\ outbox' \in [Proposals -> Row]
      /\ \A q \in Proposals : q # p => outbox'[q] = outbox[q]
      /\ outbox'[p].state = "dispatching" /\ outbox'[p].attempt = n
  <2>1. outbox' = [outbox EXCEPT ![p].state = "dispatching"] /\ "dispatching" \in RowStates
    BY DEF MarkStarted, RowStates
  <2>2. [outbox[p] EXCEPT !.state = "dispatching"] \in Row
    BY <1>2, <2>1 DEF Row
  <2>. HIDE DEF p
  <2>. QED  BY <1>2, <1>3, <2>1, <2>2 DEF Row
<1>5. /\ attempt' \in [Proposals -> [Attempts -> AttemptStates]]
      /\ \A q \in Proposals : q # p => attempt'[q] = attempt[q]
      /\ attempt'[p][n] = "started"
      /\ \A m \in Attempts : m # n => attempt'[p][m] = attempt[p][m]
  BY <1>2 DEF MarkStarted, AttemptStates
<1>6. worker' \in [Workers -> Pass] /\ HoldsExistingRow'
  BY GoToType DEF MarkStarted, PCs, Dispatching
<1>7. TypeOK'
  BY <1>1, <1>4, <1>5, <1>6 DEF TypeOK, Row, Pass
<1>8. AttemptsAgree'
  <2>1. \A m \in Attempts : (m < n => m # n) /\ (m > n => m # n)
    BY DEF Attempts
  <2>2. \A m \in Attempts : /\ m < n => attempt[p][m] = "failed"
                            /\ m > n => attempt[p][m] = "none"
    BY <1>2, <1>3 DEF AttemptsAgree
  <2>3. outbox'[p].state \in RowFits(attempt'[p][n])
    BY <1>4, <1>5 DEF RowFits
  <2>4. /\ outbox'[p].state # "absent" /\ outbox'[p].attempt = n
        /\ \A q \in Proposals : q # p => outbox'[q] = outbox[q] /\ attempt'[q] = attempt[q]
    BY <1>4, <1>5
  <2>5. /\ \A m \in Attempts : m < n => attempt'[p][m] = "failed"
        /\ \A m \in Attempts : m > n => attempt'[p][m] = "none"
    BY <1>5, <2>1, <2>2
  <2>6. p \in Proposals /\ n \in Attempts /\ AttemptsAgree
    BY <1>2
  <2>. HIDE DEF p, n
  <2>. QED  BY <2>3, <2>4, <2>5, <2>6, OneRowAgrees
<1>. QED  BY <1>6, <1>7, <1>8

\* Either finalisation, and recovery: attempt n of p is concluded.
LEMMA BaseConclude ==
    ASSUME BaseInv, NEW p \in Proposals, NEW n \in Attempts,
           NEW s \in AttemptStates \ {"none"}, NEW rowState \in RowStates \ {"absent"},
           NEW again \in BOOLEAN,
           outbox[p].state # "absent", outbox[p].attempt = n,
           rowState \in RowFits(s),
           again => n + 1 \in Attempts /\ s = "failed",
           Conclude(p, n, s, rowState, again),
           worker' \in [Workers -> Pass], HoldsExistingRow',
           UNCHANGED <<now, mandate, revisedAt, proposal, decision, fate, executions, crashes>>
    PROVE  BaseInv'
<1>1. attempt' \in [Proposals -> [Attempts -> AttemptStates]] /\ outbox' \in [Proposals -> Row]
  BY ConcludeType DEF BaseInv
<1>2. AttemptsAgree'
  BY ConcludeAgrees DEF BaseInv
<1>. QED
  BY <1>1, <1>2 DEF BaseInv, TypeOK, Pass, Row

LEMMA BaseReconcileFinalize ==
    ASSUME BaseInv, NEW w \in Workers, ReconcileFinalize(w) PROVE BaseInv'
<1>. DEFINE p == worker[w].row
            n == worker[w].attempt
            k == outbox[p].unknowns + 1
<1>1. UNCHANGED <<now, mandate, revisedAt, proposal, decision, fate, executions, crashes>>
  BY DEF ReconcileFinalize, external
<1>2. /\ outbox \in [Proposals -> Row] /\ now \in Nat
      /\ attempt \in [Proposals -> [Attempts -> AttemptStates]]
      /\ p \in Proposals /\ n \in Attempts
  BY SMTT(30) DEF BaseInv, TypeOK, Row, HoldsExistingRow, ReconcileFinalize, Reconciling
<1>3. /\ outbox[p].attempt = n /\ outbox[p].state = "ambiguous_claimed"
      /\ attempt[p][n] = "ambiguous"
  BY DEF ReconcileFinalize, ReconcileAccepted, ClaimMatches, AttemptState
<1>4. worker' \in [Workers -> Pass] /\ HoldsExistingRow'
  BY RestType DEF ReconcileFinalize
<1>5. CASE /\ outbox' = [outbox EXCEPT ![p] =
                 [state |-> "ambiguous", attempt |-> n, nextAt |-> now + BackoffDelay(k),
                  lease |-> 0, fencing |-> outbox[p].fencing, unknowns |-> k]]
           /\ UNCHANGED attempt
  <2>1. /\ outbox' \in [Proposals -> Row]
        /\ \A q \in Proposals : q # p => outbox'[q] = outbox[q]
        /\ outbox'[p].state = "ambiguous" /\ outbox'[p].attempt = n
    BY <1>2, <1>5, BackoffDelayBounded, SMTT(30) DEF Row, RowStates, Attempts
  <2>2. AttemptsAgree'
    <3>1. \A m \in Attempts : /\ m < n => attempt[p][m] = "failed"
                              /\ m > n => attempt[p][m] = "none"
      BY <1>2, <1>3 DEF AttemptsAgree, BaseInv
    <3>2. outbox'[p].state \in RowFits(attempt'[p][n])
      BY <1>3, <1>5, <2>1 DEF RowFits
    <3>. QED  BY <1>2, <1>5, <2>1, <3>1, <3>2, OneRowAgrees DEF BaseInv
  <2>. QED  BY <1>1, <1>4, <1>5, <2>1, <2>2 DEF BaseInv, TypeOK, Pass, Row
<1>6. CASE Conclude(p, n, "succeeded", "completed", FALSE)
  BY <1>1, <1>2, <1>3, <1>4, <1>6, BaseConclude DEF RowFits, RowStates, AttemptStates
<1>7. CASE Conclude(p, n, "failed", "terminal_failed", n < MaximumAttempts)
  <2>1. n < MaximumAttempts => n + 1 \in Attempts
    BY <1>2 DEF Attempts
  <2>2. (n < MaximumAttempts) \in BOOLEAN
    OBVIOUS
  <2>3. p \in Proposals /\ n \in Attempts
    BY <1>2
  <2>4. outbox[p].attempt = n /\ outbox[p].state = "ambiguous_claimed"
    BY <1>3
  <2>. QED
    BY <1>1, <2>3, <2>4, <1>4, <1>7, <2>1, <2>2, BaseConclude
    DEF RowFits, RowStates, AttemptStates
<1>. QED  BY <1>5, <1>6, <1>7 DEF ReconcileFinalize

LEMMA BaseDispatchFinalize ==
    ASSUME BaseInv, NEW w \in Workers, DispatchFinalize(w) PROVE BaseInv'
<1>. DEFINE p == worker[w].row
            n == worker[w].attempt
<1>1. UNCHANGED <<now, mandate, revisedAt, proposal, decision, fate, executions, crashes>>
  BY DEF DispatchFinalize, external
<1>2. p \in Proposals /\ n \in Attempts
  BY DEF BaseInv, HoldsExistingRow, DispatchFinalize, Dispatching
<1>3. outbox[p].attempt = n /\ outbox[p].state = "dispatching"
  BY DEF DispatchFinalize, FinalizeAccepted, ClaimMatches
<1>4. worker' \in [Workers -> Pass] /\ HoldsExistingRow'
  BY RestType DEF DispatchFinalize, Stop
<1>. USE DEF RowFits, RowStates, AttemptStates
<1>5. CASE Conclude(p, n, "succeeded", "completed", FALSE)
  BY <1>1, <1>2, <1>3, <1>4, <1>5, BaseConclude
<1>6. CASE Conclude(p, n, "ambiguous", "ambiguous", FALSE)
  BY <1>1, <1>2, <1>3, <1>4, <1>6, BaseConclude
<1>7. CASE Conclude(p, n, "failed", "terminal_failed", FALSE)
  BY <1>1, <1>2, <1>3, <1>4, <1>7, BaseConclude
<1>8. CASE Conclude(p, n, "failed", "terminal_failed", n < MaximumAttempts)
  <2>1. n < MaximumAttempts => n + 1 \in Attempts
    BY <1>2 DEF Attempts
  <2>2. (n < MaximumAttempts) \in BOOLEAN
    OBVIOUS
  <2>. QED  BY <1>1, <1>2, <1>3, <1>4, <1>8, <2>1, <2>2, BaseConclude
<1>. QED  BY <1>5, <1>6, <1>7, <1>8 DEF DispatchFinalize

LEMMA BaseRecover ==
    ASSUME BaseInv, RecoverExpired PROVE BaseInv'
<1>1. UNCHANGED <<now, mandate, revisedAt, proposal, decision, worker, fate, executions, crashes>>
  BY DEF RecoverExpired, external
<1>2. PICK p \in Proposals :
        /\ outbox[p].state = "dispatching"
        /\ Conclude(p, outbox[p].attempt, "ambiguous", "ambiguous", FALSE)
  BY DEF RecoverExpired
<1>3. outbox[p].attempt \in Attempts
  BY <1>2 DEF BaseInv, AttemptsAgree
<1>4. worker' \in [Workers -> Pass] /\ HoldsExistingRow'
  BY <1>1 DEF BaseInv, TypeOK, Pass, HoldsExistingRow
<1>. QED
  BY <1>1, <1>2, <1>3, <1>4, BaseConclude DEF RowFits, RowStates, AttemptStates

\* A row exists exactly for an approved proposal.
RowsAreApproved == \A p \in Proposals :
    outbox[p].state # "absent" <=> decision[p].choice = "approve"

LEMMA BaseNext == BaseInv /\ RowsAreApproved /\ [Next]_vars => BaseInv'
<1>. SUFFICES ASSUME BaseInv, RowsAreApproved, [Next]_vars PROVE BaseInv'
  OBVIOUS
<1>. USE DEF BaseInv
<1>1. ASSUME NEW p \in Proposals, Propose(p) PROVE BaseInv'
  <2>1. UNCHANGED <<now, mandate, revisedAt, decision, attempt, outbox, worker,
                    fate, executions, crashes>>
    BY <1>1 DEF Propose, external
  <2>2. proposal' \in [Proposals -> [mandate : Nat, validUntil : Nat]]
    BY <1>1 DEF Propose, TypeOK
  <2>. QED
    BY <2>1, <2>2 DEF TypeOK, HoldsExistingRow, AttemptsAgree
<1>2. ASSUME NEW p \in Proposals, Approve(p) PROVE BaseInv'
  <2>1. outbox[p].state = "absent"
    BY <1>2 DEF Approve, Decidable, RowsAreApproved
  <2>. QED  BY <1>2, <2>1, BaseApprove
<1>3. ASSUME NEW p \in Proposals, Reject(p) PROVE BaseInv'
  <2>1. UNCHANGED <<now, mandate, revisedAt, proposal, attempt, outbox, worker,
                    fate, executions, crashes>>
    BY <1>3 DEF Reject, external
  <2>0. now + ApprovalValidity \in Nat /\ proposal[p].validUntil \in Nat
    BY DEF TypeOK
  <2>2. Least(now + ApprovalValidity, proposal[p].validUntil) \in Nat
    BY <2>0, LeastNat
  <2>3. decision' \in [Proposals -> [choice : {"none", "approve", "reject"}, validUntil : Nat]]
    BY <1>3, <2>2 DEF Reject, RecordDecision, TypeOK
  <2>. QED  BY <2>1, <2>3 DEF TypeOK, HoldsExistingRow, AttemptsAgree
<1>4. CASE ReviseMandate
  <2>1. UNCHANGED <<now, proposal, decision, attempt, outbox, worker, fate, executions, crashes>>
    BY <1>4 DEF ReviseMandate, external
  <2>2. mandate' \in 1..MaxMandate /\ revisedAt' \in [1..MaxMandate -> Nat]
    BY <1>4 DEF ReviseMandate, TypeOK
  <2>. QED  BY <2>1, <2>2 DEF TypeOK, HoldsExistingRow, AttemptsAgree
<1>5. ASSUME NEW w \in Workers, End(w) PROVE BaseInv'
  <2>1. UNCHANGED <<now, mandate, revisedAt, proposal, decision, attempt, outbox, fate, executions>>
    BY <1>5 DEF End, durable, external
  <2>2. worker' \in [Workers -> Pass] /\ HoldsExistingRow'
    BY <1>5, RestType DEF End
  <2>3. crashes' \in [Workers -> Nat]
    BY <1>5 DEF End, TypeOK
  <2>. QED  BY <2>1, <2>2, <2>3 DEF TypeOK, Pass, AttemptsAgree
<1>6. ASSUME NEW w \in Workers, WorkerStep(w) \/ Visit(w) \/ WakeRaises(w) \/ Crash(w)
      PROVE BaseInv'
  <2>1. CASE OnlyMoves(w)
    BY <2>1, BaseMoves
  <2>2. CASE ReconcileClaim(w)
    <3>1. PICK p \in Proposals : /\ outbox[p].state \in {"ambiguous", "ambiguous_claimed"}
                                 /\ Claim(w, p, "ambiguous_claimed", "r_claimed")
      BY <2>2 DEF ReconcileClaim, Oldest, Reconcilable, Claimable
    <3>2. attempt[p][outbox[p].attempt] \in AttemptStates
      BY <3>1 DEF AttemptsAgree, TypeOK
    <3>3. "ambiguous_claimed" \in RowFits(attempt[p][outbox[p].attempt])
      BY <3>1, <3>2 DEF AttemptsAgree, RowFits, AttemptStates
    <3>. QED  BY <3>1, <3>3, BaseClaim DEF RowStates, PCs, Reconciling
  <2>3. CASE DispatchClaim(w)
    <3>1. PICK p \in Proposals : /\ outbox[p].state \in {"pending", "retry", "claimed"}
                                 /\ Claim(w, p, "claimed", "d_claimed")
      BY <2>3 DEF DispatchClaim, Oldest, Dispatchable, Claimable
    <3>2. attempt[p][outbox[p].attempt] \in AttemptStates
      BY <3>1 DEF AttemptsAgree, TypeOK
    <3>3. "claimed" \in RowFits(attempt[p][outbox[p].attempt])
      BY <3>1, <3>2 DEF AttemptsAgree, RowFits, AttemptStates
    <3>. QED  BY <3>1, <3>3, BaseClaim DEF RowStates, PCs, Dispatching
  <2>4. CASE ReconcileFinalize(w)
    BY <2>4, BaseReconcileFinalize
  <2>5. CASE MarkStarted(w)
    BY <2>5, BaseMarkStarted
  <2>6. CASE Submit(w)
    <3>1. UNCHANGED <<now, mandate, revisedAt, proposal, decision, attempt, outbox,
                      executions, crashes>>
      BY <2>6 DEF Submit, durable
    <3>2. worker' \in [Workers -> Pass] /\ HoldsExistingRow'
      BY <2>6, GoToType DEF Submit, PCs, Dispatching
    <3>3. fate' \in [Proposals -> [Attempts -> Fates]]
      BY <2>6 DEF Submit, TypeOK, Fates
    <3>. QED  BY <3>1, <3>2, <3>3 DEF TypeOK, Pass, AttemptsAgree
  <2>7. CASE DispatchFinalize(w)
    BY <2>7, BaseDispatchFinalize
  <2>8. CASE Terminate(w) \/ Crash(w)
    BY <2>8, <1>5 DEF Terminate, Crash
  <2>. QED
    BY <1>6, <2>1, <2>2, <2>3, <2>4, <2>5, <2>6, <2>7, <2>8 DEF WorkerStep, OnlyMoves
<1>7. ASSUME NEW p \in Proposals, NEW n \in Attempts,
             ProviderExecutes(p, n) \/ ProviderRefuses(p, n)
      PROVE BaseInv'
  <2>1. UNCHANGED <<now, mandate, revisedAt, proposal, decision, attempt, outbox, worker, crashes>>
    BY <1>7 DEF ProviderExecutes, ProviderRefuses, durable
  <2>2. fate' \in [Proposals -> [Attempts -> Fates]] /\ executions' \in [Proposals -> Nat]
    <3>1. executions[p] \in Nat /\ fate \in [Proposals -> [Attempts -> Fates]]
      BY DEF TypeOK
    <3>2. CASE ProviderExecutes(p, n)
      BY <3>1, <3>2 DEF ProviderExecutes, TypeOK, Fates
    <3>3. CASE ProviderRefuses(p, n)
      BY <3>1, <3>3 DEF ProviderRefuses, TypeOK, Fates
    <3>. QED  BY <1>7, <3>2, <3>3
  <2>. QED  BY <2>1, <2>2 DEF TypeOK, HoldsExistingRow, AttemptsAgree
<1>8. CASE RecoverExpired
  BY <1>8, BaseRecover
<1>9. CASE Tick
  <2>1. UNCHANGED <<mandate, revisedAt, proposal, decision, attempt, outbox, worker,
                    fate, executions, crashes>>
    BY <1>9 DEF Tick, durable, external
  <2>2. now' \in 1..MaxTime
    BY <1>9 DEF Tick, TypeOK
  <2>. QED  BY <2>1, <2>2 DEF TypeOK, HoldsExistingRow, AttemptsAgree
<1>10. CASE UNCHANGED vars
  BY <1>10 DEF vars, durable, external, TypeOK, HoldsExistingRow, AttemptsAgree
<1>. QED
  BY <1>1, <1>2, <1>3, <1>4, <1>5, <1>6, <1>7, <1>8, <1>9, <1>10 DEF Next

\* The outbox insert and the decision happen in one transaction, and no later
\* step undoes either.
LEMMA ApprovedNext ==
    BaseInv /\ RowsAreApproved /\ [Next]_vars => RowsAreApproved'
<1>. SUFFICES ASSUME BaseInv, RowsAreApproved, [Next]_vars PROVE RowsAreApproved'
  OBVIOUS
<1>. outbox \in [Proposals -> Row]
  BY DEF BaseInv, TypeOK, Row
<1>. decision \in [Proposals -> [choice : {"none", "approve", "reject"}, validUntil : Nat]]
  BY DEF BaseInv, TypeOK
<1>. USE DEF RowsAreApproved
<1>1. CASE UNCHANGED <<outbox, decision>>
  BY <1>1
<1>2. ASSUME NEW p \in Proposals, Approve(p) PROVE RowsAreApproved'
  BY <1>2 DEF Approve, RecordDecision
<1>3. ASSUME NEW p \in Proposals, Reject(p) PROVE RowsAreApproved'
  <2>1. outbox[p].state = "absent" /\ UNCHANGED outbox
    BY <1>3 DEF Reject, Decidable
  <2>. QED  BY <1>3, <2>1 DEF Reject, RecordDecision
<1>4. CASE /\ UNCHANGED decision
           /\ \E p \in Proposals, r \in Row :
                /\ outbox[p].state # "absent"
                /\ r.state # "absent"
                /\ outbox' = [outbox EXCEPT ![p] = r]
  BY <1>4
<1>5. ASSUME NEW p \in Proposals, NEW n, NEW s, NEW again,
             NEW rs \in RowStates \ {"absent"}, outbox[p].state # "absent",
             UNCHANGED decision, Conclude(p, n, s, rs, again)
      PROVE RowsAreApproved'
  BY <1>5 DEF Conclude, Released
<1>6. ASSUME NEW w \in Workers, WorkerStep(w) PROVE RowsAreApproved'
  <2>1. CASE OnlyMoves(w) \/ Submit(w) \/ Terminate(w)
    <3>1. UNCHANGED <<outbox, decision>>
      BY <2>1 DEF OnlyMoves, OnlyWorker, durable, external, Scan, Visit, WakeEnds, WakeRaises, Restart,
         ReconcileNothing, ReconcileValidate, ReconcileAsk, ReconcileRecheck, DispatchNothing,
         DispatchValidate, ApplyReturns, GiveUp, Submit, Terminate, End
    <3>. QED  BY <3>1, <1>1
  <2>2. CASE ReconcileClaim(w)
    <3>1. PICK p \in Proposals : /\ outbox[p].state \in {"ambiguous", "ambiguous_claimed"}
                                 /\ Claim(w, p, "ambiguous_claimed", "r_claimed")
      BY <2>2 DEF ReconcileClaim, Oldest, Reconcilable, Claimable
    <3>. QED  BY <3>1 DEF Claim
  <2>3. CASE DispatchClaim(w)
    <3>1. PICK p \in Proposals : /\ outbox[p].state \in {"pending", "retry", "claimed"}
                                 /\ Claim(w, p, "claimed", "d_claimed")
      BY <2>3 DEF DispatchClaim, Oldest, Dispatchable, Claimable
    <3>. QED  BY <3>1 DEF Claim
  <2>4. CASE ReconcileFinalize(w)
    <3>1. /\ worker[w].row \in Proposals /\ worker[w].attempt \in Nat
          /\ outbox[worker[w].row].state # "absent" /\ UNCHANGED decision
      BY <2>4 DEF ReconcileFinalize, ReconcileAccepted, ClaimMatches, BaseInv,
                  HoldsExistingRow, Reconciling, Attempts
    <3>2. "completed" \in RowStates \ {"absent"} /\ "terminal_failed" \in RowStates \ {"absent"}
      BY DEF RowStates
    <3>3. CASE worker[w].outcome = "still_unknown"
      BY <2>4, <3>1, <3>3 DEF ReconcileFinalize
    <3>4. ASSUME NEW s, NEW again, NEW rs \in RowStates \ {"absent"},
                 Conclude(worker[w].row, worker[w].attempt, s, rs, again)
          PROVE  RowsAreApproved'
      BY <3>1, <3>4, <1>5
    <3>. QED  BY <2>4, <3>2, <3>3, <3>4 DEF ReconcileFinalize
  <2>5. CASE MarkStarted(w)
    BY <2>5 DEF MarkStarted, BaseInv, HoldsExistingRow, Dispatching, StartAccepted, ClaimMatches
  <2>6. CASE DispatchFinalize(w)
    <3>1. /\ worker[w].row \in Proposals /\ worker[w].attempt \in Nat
          /\ outbox[worker[w].row].state # "absent" /\ UNCHANGED decision
      BY <2>6 DEF DispatchFinalize, FinalizeAccepted, ClaimMatches, BaseInv,
                  HoldsExistingRow, Dispatching, Attempts
    <3>2. {"completed", "ambiguous", "terminal_failed"} \subseteq RowStates \ {"absent"}
      BY DEF RowStates
    <3>3. ASSUME NEW s, NEW again, NEW rs \in RowStates \ {"absent"},
                 Conclude(worker[w].row, worker[w].attempt, s, rs, again)
          PROVE  RowsAreApproved'
      BY <3>1, <3>3, <1>5
    <3>. QED  BY <2>6, <3>2, <3>3 DEF DispatchFinalize
  <2>. QED
    BY <1>6, <2>1, <2>2, <2>3, <2>4, <2>5, <2>6 DEF WorkerStep, OnlyMoves
<1>7. CASE RecoverExpired
  <2>1. PICK p \in Proposals :
          /\ outbox[p].state = "dispatching"
          /\ Conclude(p, outbox[p].attempt, "ambiguous", "ambiguous", FALSE)
    BY <1>7 DEF RecoverExpired
  <2>. QED  BY <1>7, <2>1, <1>5 DEF RecoverExpired, RowStates, Row
<1>8. ASSUME NEW w \in Workers, Visit(w) \/ WakeRaises(w) \/ Crash(w) PROVE RowsAreApproved'
  BY <1>8, <1>1 DEF Visit, WakeRaises, Crash, End, OnlyWorker, durable
<1>9. ASSUME NEW p \in Proposals, NEW n \in Attempts,
             ProviderExecutes(p, n) \/ ProviderRefuses(p, n) \/ Propose(p)
      PROVE  RowsAreApproved'
  BY <1>9, <1>1 DEF ProviderExecutes, ProviderRefuses, Propose, durable
<1>10. CASE ReviseMandate \/ Tick \/ UNCHANGED vars
  BY <1>10, <1>1 DEF ReviseMandate, Tick, vars, durable
<1>11. ASSUME NEW p \in Proposals, Propose(p) PROVE RowsAreApproved'
  BY <1>11, <1>1 DEF Propose
<1>. QED
  BY <1>2, <1>3, <1>6, <1>7, <1>8, <1>9, <1>10, <1>11 DEF Next

\* Every state the program reaches is well typed.
THEOREM TypeCorrect == Spec => []TypeOK
<1>1. Init => BaseInv /\ RowsAreApproved
  BY BaseInit DEF Init, RowsAreApproved, NoOutbox
<1>2. BaseInv /\ RowsAreApproved /\ [Next]_vars => (BaseInv /\ RowsAreApproved)'
  BY BaseNext, ApprovedNext
<1>3. BaseInv /\ RowsAreApproved => TypeOK
  BY DEF BaseInv
<1>. QED  BY <1>1, <1>2, <1>3, PTL DEF Spec

\* The outbox row and the attempt records agree, with or without recovery.
THEOREM TablesAgree == Spec => []AttemptsAgree
<1>1. Init => BaseInv /\ RowsAreApproved
  BY BaseInit DEF Init, RowsAreApproved, NoOutbox
<1>2. BaseInv /\ RowsAreApproved /\ [Next]_vars => (BaseInv /\ RowsAreApproved)'
  BY BaseNext, ApprovedNext
<1>3. BaseInv /\ RowsAreApproved => AttemptsAgree
  BY DEF BaseInv
<1>. QED  BY <1>1, <1>2, <1>3, PTL DEF Spec

-----------------------------------------------------------------------------
(* Sending and answering                                                   *)

Holds(w) == worker[w].pc \in Reconciling \cup Dispatching
InFlight == {"d_started", "d_waiting", "d_returned"}

\* Fencing tokens are handed out in order, and never twice.
TokensIssued == \A w \in Workers : Holds(w) =>
    /\ worker[w].fencing <= outbox[worker[w].row].fencing
    /\ outbox[worker[w].row].state # "absent"
TokensUnique == \A v, w \in Workers :
    v # w /\ Holds(v) /\ Holds(w) /\ worker[v].row = worker[w].row
    => worker[v].fencing # worker[w].fencing

\* Only the dispatcher itself moves a row out of dispatching.
FlightKeepsClaim == \A w \in Workers :
    worker[w].pc \in InFlight => ClaimMatches(w, {"dispatching"})

FateOf(w) == fate[worker[w].row][worker[w].attempt]
FlightKnowsFate == \A w \in Workers :
    /\ worker[w].pc = "d_started" => FateOf(w) = "none"
    /\ worker[w].pc \in {"d_waiting", "d_returned"} => FateOf(w) # "none"
    /\ worker[w].pc = "d_returned" =>
         ProviderMayReturn(worker[w].row, worker[w].attempt, worker[w].outcome)

\* "Absent" stays true for as long as the claim it was asked under.
AnswerStaysTrue == \A w \in Workers :
    worker[w].pc \in {"r_answered", "r_final"} =>
      /\ worker[w].outcome = "confirmed_applied" =>
           \E n \in Attempts : fate[worker[w].row][n] = "executed"
      /\ worker[w].outcome = "confirmed_absent" /\ ClaimMatches(w, {"ambiguous_claimed"}) =>
           \A n \in Attempts : fate[worker[w].row][n] \in {"none", "refused"}

\* What an attempt record implies about the request of that attempt.
AttemptFate == \A p \in Proposals, n \in Attempts :
    /\ attempt[p][n] \in {"none", "planned"} => fate[p][n] = "none"
    /\ attempt[p][n] = "failed" => fate[p][n] \in {"none", "refused"}
    /\ attempt[p][n] = "succeeded" => fate[p][n] = "executed"

ExecutedOnce == \A p \in Proposals :
    /\ executions[p] \in {0, 1}
    /\ executions[p] = 1 <=> \E n \in Attempts : fate[p][n] = "executed"

SendInv ==
    /\ TokensIssued /\ TokensUnique
    /\ FlightKeepsClaim /\ FlightKnowsFate /\ AnswerStaysTrue
    /\ AttemptFate /\ ExecutedOnce

LEMMA SendInit == Init => SendInv
<1>. SUFFICES ASSUME Init PROVE SendInv
  OBVIOUS
<1>. USE DEF Init, NoClaim, Holds, InFlight, Reconciling, Dispatching
<1>1. TokensIssued /\ TokensUnique
  BY DEF TokensIssued, TokensUnique
<1>2. FlightKeepsClaim /\ FlightKnowsFate /\ AnswerStaysTrue
  BY DEF FlightKeepsClaim, FlightKnowsFate, AnswerStaysTrue
<1>3. AttemptFate /\ ExecutedOnce
  BY DEF AttemptFate, ExecutedOnce
<1>. QED  BY <1>1, <1>2, <1>3 DEF SendInv

\* The tables a step of OnlyMoves leaves alone, and what it does to the worker.
LEMMA MoveFacts ==
    ASSUME BaseInv, NEW w \in Workers, OnlyMoves(w)
    PROVE  /\ UNCHANGED <<now, mandate, revisedAt, proposal, decision, attempt, outbox,
                          fate, executions, crashes>>
           /\ \A v \in Workers : v # w => worker'[v] = worker[v]
           /\ Holds(w)' =>
                /\ Holds(w)
                /\ worker'[w].row = worker[w].row
                /\ worker'[w].attempt = worker[w].attempt
                /\ worker'[w].fencing = worker[w].fencing
                /\ worker'[w].lease = worker[w].lease
<1>1. UNCHANGED <<now, mandate, revisedAt, proposal, decision, attempt, outbox,
                  fate, executions, crashes>>
  BY DEF OnlyMoves, OnlyWorker, durable, external, Scan, Visit, WakeEnds, WakeRaises, Restart,
         ReconcileNothing, ReconcileValidate, ReconcileAsk, ReconcileRecheck, DispatchNothing,
         DispatchValidate, ApplyReturns, GiveUp
<1>2. worker \in [Workers -> Pass]
  BY DEF BaseInv, TypeOK, Pass
<1>3. \A pc \in PCs : GoTo(w, pc) =>
        /\ \A v \in Workers : v # w => worker'[v] = worker[v]
        /\ worker'[w].pc = pc
        /\ worker'[w].row = worker[w].row /\ worker'[w].attempt = worker[w].attempt
        /\ worker'[w].fencing = worker[w].fencing /\ worker'[w].lease = worker[w].lease
  BY <1>2 DEF GoTo, Pass
<1>4. \A pc \in PCs, o \in Outcomes \cup Answers : Hears(w, pc, o) =>
        /\ \A v \in Workers : v # w => worker'[v] = worker[v]
        /\ worker'[w].pc = pc
        /\ worker'[w].row = worker[w].row /\ worker'[w].attempt = worker[w].attempt
        /\ worker'[w].fencing = worker[w].fencing /\ worker'[w].lease = worker[w].lease
  BY <1>2 DEF Hears, Pass
<1>5. Stop(w) => /\ \A v \in Workers : v # w => worker'[v] = worker[v]
                 /\ worker'[w].pc = "idle"
  BY <1>2 DEF Stop, Rest, NoClaim
<1>. USE DEF PCs, Reconciling, Dispatching, Holds
<1>6. CASE Scan(w) \/ Visit(w) \/ WakeEnds(w) \/ Restart(w) \/ ReconcileNothing(w)
  BY <1>1, <1>3, <1>6 DEF Scan, Visit, WakeEnds, Restart, ReconcileNothing
<1>7. CASE ReconcileValidate(w) \/ ReconcileRecheck(w) \/ DispatchValidate(w)
  BY <1>1, <1>3, <1>7 DEF ReconcileValidate, ReconcileRecheck, DispatchValidate
<1>8. CASE ReconcileAsk(w) \/ ApplyReturns(w)
  BY <1>1, <1>4, <1>8 DEF ReconcileAsk, ApplyReturns
<1>9. CASE WakeRaises(w) \/ DispatchNothing(w) \/ GiveUp(w)
  BY <1>1, <1>5, <1>9 DEF WakeRaises, DispatchNothing, GiveUp
<1>. QED  BY <1>6, <1>7, <1>8, <1>9 DEF OnlyMoves

LEMMA SendMoves ==
    ASSUME BaseInv, SendInv, NEW w \in Workers, OnlyMoves(w) PROVE SendInv'
<1>1. /\ UNCHANGED <<attempt, outbox, fate, executions>>
      /\ \A v \in Workers : v # w => worker'[v] = worker[v]
      /\ Holds(w)' => /\ Holds(w)
                      /\ worker'[w].row = worker[w].row
                      /\ worker'[w].attempt = worker[w].attempt
                      /\ worker'[w].fencing = worker[w].fencing
                      /\ worker'[w].lease = worker[w].lease
  BY MoveFacts
<1>2. worker \in [Workers -> Pass]
  BY DEF BaseInv, TypeOK, Pass
<1>3. TokensIssued' /\ TokensUnique'
  BY <1>1 DEF SendInv, TokensIssued, TokensUnique, Holds
<1>4. /\ worker'[w].pc \notin {"d_started", "d_waiting"}
      /\ worker'[w].pc = "d_returned" => ApplyReturns(w)
      /\ worker'[w].pc = "r_answered" => ReconcileAsk(w)
      /\ worker'[w].pc = "r_final" => ReconcileRecheck(w)
  BY <1>2 DEF OnlyMoves, Scan, Visit, WakeEnds, WakeRaises, Restart, ReconcileNothing,
     ReconcileValidate, ReconcileAsk,
     ReconcileRecheck, DispatchNothing, DispatchValidate, ApplyReturns, GiveUp,
     GoTo, Hears, Stop, Rest, NoClaim, Pass
<1>5. ASSUME ApplyReturns(w)
      PROVE /\ worker[w].pc = "d_waiting"
            /\ ProviderMayReturn(worker[w].row, worker[w].attempt, worker'[w].outcome)
  BY <1>2, <1>5 DEF ApplyReturns, Hears, Pass
<1>6. ASSUME ReconcileAsk(w)
      PROVE ProviderMayAnswer(worker[w].row, worker'[w].outcome)
  BY <1>2, <1>6 DEF ReconcileAsk, Hears, Pass
<1>7. ASSUME ReconcileRecheck(w)
      PROVE worker[w].pc = "r_answered" /\ worker'[w].outcome = worker[w].outcome
  BY <1>2, <1>7 DEF ReconcileRecheck, GoTo, Pass
<1>8. FlightKeepsClaim'
  <2>. SUFFICES ASSUME NEW v \in Workers, worker'[v].pc \in InFlight
       PROVE ClaimMatches(v, {"dispatching"})'
    BY DEF FlightKeepsClaim
  <2>1. Holds(v)' /\ worker[v].pc \in InFlight
    BY <1>1, <1>4, <1>5 DEF InFlight, Holds, Dispatching
  <2>2. ClaimMatches(v, {"dispatching"})
    BY <2>1 DEF SendInv, FlightKeepsClaim
  <2>. QED  BY <1>1, <2>1, <2>2 DEF ClaimMatches
<1>9. FlightKnowsFate'
  <2>. SUFFICES ASSUME NEW v \in Workers
       PROVE /\ worker'[v].pc = "d_started" => FateOf(v)' = "none"
             /\ worker'[v].pc \in {"d_waiting", "d_returned"} => FateOf(v)' # "none"
             /\ worker'[v].pc = "d_returned" =>
                  ProviderMayReturn(worker[v].row, worker[v].attempt, worker[v].outcome)'
    BY DEF FlightKnowsFate
  <2>1. CASE v # w
    BY <1>1, <2>1 DEF SendInv, FlightKnowsFate, FateOf, ProviderMayReturn
  <2>2. CASE v = w
    BY <1>1, <1>4, <1>5, <2>2 DEF SendInv, FlightKnowsFate, FateOf, ProviderMayReturn, Holds, Dispatching
  <2>. QED  BY <2>1, <2>2
<1>10. AnswerStaysTrue'
  <2>. SUFFICES ASSUME NEW v \in Workers, worker'[v].pc \in {"r_answered", "r_final"}
       PROVE /\ worker'[v].outcome = "confirmed_applied" =>
                  \E n \in Attempts : fate'[worker'[v].row][n] = "executed"
             /\ worker'[v].outcome = "confirmed_absent" /\ ClaimMatches(v, {"ambiguous_claimed"})' =>
                  \A n \in Attempts : fate'[worker'[v].row][n] \in {"none", "refused"}
    BY DEF AnswerStaysTrue
  <2>1. CASE v # w
    BY <1>1, <2>1 DEF SendInv, AnswerStaysTrue, ClaimMatches
  <2>2. CASE v = w
    <3>1. worker'[w].row = worker[w].row /\ Holds(w)'
      BY <1>1, <2>2 DEF Holds, Reconciling
    <3>2. CASE ReconcileAsk(w)
      BY <1>1, <1>6, <2>2, <3>1, <3>2 DEF ProviderMayAnswer
    <3>3. CASE ReconcileRecheck(w)
      BY <1>1, <1>7, <2>2, <3>1, <3>3 DEF SendInv, AnswerStaysTrue, ClaimMatches
    <3>. QED  BY <1>4, <2>2, <3>2, <3>3
  <2>. QED  BY <2>1, <2>2
<1>11. AttemptFate' /\ ExecutedOnce'
  BY <1>1 DEF SendInv, AttemptFate, ExecutedOnce
<1>. QED  BY <1>3, <1>8, <1>9, <1>10, <1>11 DEF SendInv

\* A claim takes a new token, so it silences every older claim on the row.
LEMMA SendClaim ==
    ASSUME BaseInv, SendInv, NEW w \in Workers, NEW p \in Proposals,
           NEW s \in {"claimed", "ambiguous_claimed"}, NEW pc \in {"d_claimed", "r_claimed"},
           outbox[p].state \notin {"absent", "dispatching"},
           Claim(w, p, s, pc)
    PROVE  SendInv'
<1>1. UNCHANGED <<attempt, fate, executions>>
  BY DEF Claim, external
<1>2. outbox \in [Proposals -> Row] /\ worker \in [Workers -> Pass] /\ now \in Nat
  BY DEF BaseInv, TypeOK, Row, Pass
<1>3. /\ \A q \in Proposals : q # p => outbox'[q] = outbox[q]
      /\ outbox'[p].state = s /\ outbox'[p].fencing = outbox[p].fencing + 1
      /\ outbox[p].fencing \in Nat
  BY <1>2 DEF Claim, Row
<1>4. /\ \A v \in Workers : v # w => worker'[v] = worker[v]
      /\ worker'[w].pc = pc /\ worker'[w].row = p
      /\ worker'[w].fencing = outbox[p].fencing + 1
  BY <1>2 DEF Claim, Pass
<1>5. \A v \in Workers : Holds(v) => /\ worker[v].fencing \in Nat
                                     /\ worker[v].row \in Proposals
                                     /\ worker[v].fencing <= outbox[worker[v].row].fencing
  BY <1>2 DEF SendInv, TokensIssued, Pass, BaseInv, HoldsExistingRow, Holds
<1>6. \A v \in Workers : v # w => (Holds(v)' <=> Holds(v))
  BY <1>4 DEF Holds
<1>7. TokensIssued'
  <2>1. \A v \in Workers : v # w /\ Holds(v)' =>
          /\ worker'[v].fencing <= outbox'[worker'[v].row].fencing
          /\ outbox'[worker'[v].row].state # "absent"
    BY <1>3, <1>4, <1>5, <1>6 DEF SendInv, TokensIssued
  <2>2. /\ worker'[w].fencing <= outbox'[worker'[w].row].fencing
        /\ outbox'[worker'[w].row].state # "absent"
    BY <1>3, <1>4
  <2>. QED  BY <2>1, <2>2 DEF TokensIssued
<1>8. TokensUnique'
  <2>. SUFFICES ASSUME NEW u \in Workers, NEW v \in Workers, u # v, Holds(u)', Holds(v)',
                       worker'[u].row = worker'[v].row
       PROVE worker'[u].fencing # worker'[v].fencing
    BY DEF TokensUnique
  <2>1. CASE u # w /\ v # w
    BY <1>4, <1>6, <2>1 DEF SendInv, TokensUnique
  <2>2. CASE u = w
    BY <1>3, <1>4, <1>5, <1>6, <2>2
  <2>3. CASE v = w
    BY <1>3, <1>4, <1>5, <1>6, <2>3
  <2>. QED  BY <2>1, <2>2, <2>3
<1>9. FlightKeepsClaim'
  <2>. SUFFICES ASSUME NEW v \in Workers, worker'[v].pc \in InFlight
       PROVE ClaimMatches(v, {"dispatching"})'
    BY DEF FlightKeepsClaim
  <2>1. v # w
    BY <1>4 DEF InFlight
  <2>2. ClaimMatches(v, {"dispatching"}) /\ Holds(v)
    BY <1>4, <2>1 DEF SendInv, FlightKeepsClaim, Holds, Dispatching, InFlight
  <2>3. worker[v].row \in Proposals /\ worker[v].row # p
    BY <1>5, <2>2 DEF ClaimMatches
  <2>. QED  BY <1>3, <1>4, <2>1, <2>2, <2>3 DEF ClaimMatches
<1>10. FlightKnowsFate'
  BY <1>1, <1>4 DEF SendInv, FlightKnowsFate, FateOf, ProviderMayReturn
<1>11. AnswerStaysTrue'
  <2>. SUFFICES ASSUME NEW v \in Workers, worker'[v].pc \in {"r_answered", "r_final"}
       PROVE /\ worker'[v].outcome = "confirmed_applied" =>
                  \E n \in Attempts : fate'[worker'[v].row][n] = "executed"
             /\ worker'[v].outcome = "confirmed_absent" /\ ClaimMatches(v, {"ambiguous_claimed"})' =>
                  \A n \in Attempts : fate'[worker'[v].row][n] \in {"none", "refused"}
    BY DEF AnswerStaysTrue
  <2>1. v # w /\ worker'[v] = worker[v] /\ Holds(v)
    BY <1>4 DEF Holds, Reconciling
  <2>2. CASE worker[v].row # p
    BY <1>1, <1>3, <1>5, <2>1, <2>2 DEF SendInv, AnswerStaysTrue, ClaimMatches
  <2>3. CASE worker[v].row = p
    <3>1. ~ClaimMatches(v, {"ambiguous_claimed"})'
      BY <1>3, <1>5, <2>1, <2>3 DEF ClaimMatches
    <3>. QED  BY <1>1, <2>1, <3>1 DEF SendInv, AnswerStaysTrue
  <2>. QED  BY <2>2, <2>3
<1>12. AttemptFate' /\ ExecutedOnce'
  BY <1>1 DEF SendInv, AttemptFate, ExecutedOnce
<1>. QED  BY <1>7, <1>8, <1>9, <1>10, <1>11, <1>12 DEF SendInv

\* The row moves under a claim this worker holds exactly: no other worker can be
\* in flight on it, and no answer obtained under another claim is usable.
LEMMA SendRowMoves ==
    ASSUME BaseInv, SendInv, NEW w \in Workers, Holds(w),
           NEW S \in SUBSET {"claimed", "dispatching", "ambiguous_claimed"},
           ClaimMatches(w, S),
           \A q \in Proposals : q # worker[w].row => outbox'[q] = outbox[q],
           outbox'[worker[w].row].state \notin {"absent", "ambiguous_claimed"},
           outbox'[worker[w].row].fencing = outbox[worker[w].row].fencing,
           \A v \in Workers : v # w => worker'[v] = worker[v],
           Holds(w)' => /\ worker'[w].row = worker[w].row
                        /\ worker'[w].fencing = worker[w].fencing,
           worker'[w].pc \notin {"r_answered", "r_final"},
           worker'[w].pc \in InFlight => ClaimMatches(w, {"dispatching"})',
           UNCHANGED fate
    PROVE  /\ TokensIssued' /\ TokensUnique' /\ FlightKeepsClaim' /\ AnswerStaysTrue'
           /\ \A v \in Workers : v # w /\ worker[v].pc \in InFlight
                => worker[v].row # worker[w].row
<1>1. \A v \in Workers : Holds(v) => worker[v].row \in Proposals
  BY DEF BaseInv, HoldsExistingRow, Holds
<1>2. \A v \in Workers : v # w => (Holds(v)' <=> Holds(v))
  BY DEF Holds
<1>3. TokensIssued'
  BY <1>1, <1>2 DEF SendInv, TokensIssued
<1>4. TokensUnique'
  BY <1>1, <1>2 DEF SendInv, TokensUnique
<1>5. ASSUME NEW v \in Workers, v # w, worker[v].pc \in InFlight
      PROVE  worker[v].row # worker[w].row
  BY <1>5 DEF SendInv, FlightKeepsClaim, ClaimMatches, TokensUnique, Holds, InFlight, Dispatching
<1>6. FlightKeepsClaim'
  <2>. SUFFICES ASSUME NEW v \in Workers, v # w, worker'[v].pc \in InFlight
       PROVE ClaimMatches(v, {"dispatching"})'
    BY DEF FlightKeepsClaim
  <2>1. ClaimMatches(v, {"dispatching"}) /\ Holds(v)
    BY DEF SendInv, FlightKeepsClaim, Holds, InFlight, Dispatching
  <2>. QED  BY <1>1, <1>5, <2>1 DEF ClaimMatches
<1>7. AnswerStaysTrue'
  <2>. SUFFICES ASSUME NEW v \in Workers, worker'[v].pc \in {"r_answered", "r_final"}
       PROVE /\ worker'[v].outcome = "confirmed_applied" =>
                  \E n \in Attempts : fate'[worker'[v].row][n] = "executed"
             /\ worker'[v].outcome = "confirmed_absent" /\ ClaimMatches(v, {"ambiguous_claimed"})' =>
                  \A n \in Attempts : fate'[worker'[v].row][n] \in {"none", "refused"}
    BY DEF AnswerStaysTrue
  <2>1. v # w /\ worker'[v] = worker[v] /\ Holds(v)
    BY DEF Holds, Reconciling
  <2>2. CASE worker[v].row # worker[w].row
    BY <1>1, <2>1, <2>2 DEF SendInv, AnswerStaysTrue, ClaimMatches
  <2>3. CASE worker[v].row = worker[w].row
    <3>1. ~ClaimMatches(v, {"ambiguous_claimed"})'
      BY <2>1, <2>3 DEF ClaimMatches
    <3>. QED  BY <2>1, <3>1 DEF SendInv, AnswerStaysTrue
  <2>. QED  BY <2>2, <2>3
<1>. QED  BY <1>3, <1>4, <1>5, <1>6, <1>7

LEMMA SendStart ==
    ASSUME BaseInv, SendInv, NEW w \in Workers, MarkStarted(w) PROVE SendInv'
<1>. DEFINE p == worker[w].row
            n == worker[w].attempt
<1>1. /\ outbox \in [Proposals -> Row] /\ worker \in [Workers -> Pass]
      /\ attempt \in [Proposals -> [Attempts -> AttemptStates]]
      /\ p \in Proposals /\ n \in Attempts /\ Holds(w)
  BY DEF BaseInv, TypeOK, Row, Pass, HoldsExistingRow, MarkStarted, Dispatching, Holds
<1>2. ClaimMatches(w, {"claimed"}) /\ attempt[p][n] = "planned" /\ UNCHANGED <<fate, executions>>
  BY DEF MarkStarted, StartAccepted, AttemptState, external
<1>3. /\ \A q \in Proposals : q # p => outbox'[q] = outbox[q]
      /\ outbox'[p].state = "dispatching"
      /\ outbox'[p].fencing = outbox[p].fencing /\ outbox'[p].lease = outbox[p].lease
      /\ outbox'[p].attempt = outbox[p].attempt
  BY <1>1 DEF MarkStarted, Row
<1>4. /\ \A v \in Workers : v # w => worker'[v] = worker[v]
      /\ worker'[w].pc = "d_started" /\ worker'[w].row = p /\ worker'[w].attempt = n
      /\ worker'[w].fencing = worker[w].fencing /\ worker'[w].lease = worker[w].lease
  BY <1>1 DEF MarkStarted, GoTo, Pass
<1>5. ClaimMatches(w, {"dispatching"})'
  BY <1>1, <1>2, <1>3, <1>4 DEF ClaimMatches
<1>6. TokensIssued' /\ TokensUnique' /\ FlightKeepsClaim' /\ AnswerStaysTrue'
  BY <1>1, <1>2, <1>3, <1>4, <1>5, SendRowMoves
<1>7. FlightKnowsFate'
  <2>1. fate[p][n] = "none"
    BY <1>1, <1>2 DEF SendInv, AttemptFate
  <2>. QED
    BY <1>1, <1>2, <1>4, <2>1 DEF SendInv, FlightKnowsFate, FateOf, ProviderMayReturn
<1>8. AttemptFate'
  <2>1. \A q \in Proposals, m \in Attempts :
          attempt'[q][m] = IF q = p /\ m = n THEN "started" ELSE attempt[q][m]
    BY <1>1 DEF MarkStarted
  <2>. QED  BY <1>2, <2>1 DEF SendInv, AttemptFate
<1>9. ExecutedOnce'
  BY <1>2 DEF SendInv, ExecutedOnce
<1>. QED  BY <1>6, <1>7, <1>8, <1>9 DEF SendInv

LEMMA SendSubmit ==
    ASSUME BaseInv, SendInv, NEW w \in Workers, Submit(w) PROVE SendInv'
<1>. DEFINE p == worker[w].row
            n == worker[w].attempt
<1>1. /\ worker \in [Workers -> Pass] /\ fate \in [Proposals -> [Attempts -> Fates]]
      /\ attempt \in [Proposals -> [Attempts -> AttemptStates]]
      /\ p \in Proposals /\ n \in Attempts /\ Holds(w)
  BY DEF BaseInv, TypeOK, Pass, HoldsExistingRow, Submit, Dispatching, Holds
<1>2. UNCHANGED <<outbox, attempt, executions>>
  BY DEF Submit, durable
<1>3. /\ \A v \in Workers : v # w => worker'[v] = worker[v]
      /\ worker'[w].pc = "d_waiting" /\ worker'[w].row = p /\ worker'[w].attempt = n
      /\ worker'[w].fencing = worker[w].fencing /\ worker'[w].lease = worker[w].lease
  BY <1>1 DEF Submit, GoTo, Pass
<1>4. /\ fate'[p][n] = "inflight" /\ fate[p][n] = "none"
      /\ \A q \in Proposals, m \in Attempts : q # p \/ m # n => fate'[q][m] = fate[q][m]
  BY <1>1 DEF Submit, SendInv, FlightKnowsFate, FateOf
<1>5. ClaimMatches(w, {"dispatching"})
  BY DEF SendInv, FlightKeepsClaim, InFlight, Submit
<1>6. attempt[p][n] = "started"
  <2>1. outbox[p].state = "dispatching" /\ outbox[p].attempt = n
    BY <1>5 DEF ClaimMatches
  <2>2. "dispatching" \in RowFits(attempt[p][n]) /\ attempt[p][n] \in AttemptStates
    BY <1>1, <2>1 DEF BaseInv, AttemptsAgree
  <2>. QED  BY <2>2 DEF RowFits, AttemptStates
<1>7. TokensIssued' /\ TokensUnique'
  <2>1. \A v \in Workers : /\ Holds(v)' <=> Holds(v)
                           /\ worker'[v].row = worker[v].row
                           /\ worker'[v].fencing = worker[v].fencing
    BY <1>1, <1>3 DEF Holds, Dispatching
  <2>. QED  BY <1>2, <2>1 DEF SendInv, TokensIssued, TokensUnique
<1>8. FlightKeepsClaim'
  BY <1>2, <1>3, <1>5 DEF SendInv, FlightKeepsClaim, ClaimMatches, InFlight
<1>9. ASSUME NEW v \in Workers, v # w, worker[v].pc \in InFlight
      PROVE  worker[v].row # p /\ worker[v].row \in Proposals /\ worker[v].attempt \in Attempts
  BY <1>1, <1>5, <1>9 DEF SendInv, FlightKeepsClaim, ClaimMatches, TokensUnique, Holds, InFlight,
     Dispatching, BaseInv, HoldsExistingRow
<1>10. FlightKnowsFate'
  <2>. SUFFICES ASSUME NEW v \in Workers
       PROVE /\ worker'[v].pc = "d_started" => FateOf(v)' = "none"
             /\ worker'[v].pc \in {"d_waiting", "d_returned"} => FateOf(v)' # "none"
             /\ worker'[v].pc = "d_returned" =>
                  ProviderMayReturn(worker[v].row, worker[v].attempt, worker[v].outcome)'
    BY DEF FlightKnowsFate
  <2>1. CASE v # w
    BY <1>3, <1>4, <1>9, <2>1 DEF SendInv, FlightKnowsFate, FateOf, ProviderMayReturn, InFlight
  <2>2. CASE v = w
    BY <1>3, <1>4, <2>2 DEF FateOf
  <2>. QED  BY <2>1, <2>2
<1>11. AnswerStaysTrue'
  <2>. SUFFICES ASSUME NEW v \in Workers, worker'[v].pc \in {"r_answered", "r_final"}
       PROVE /\ worker'[v].outcome = "confirmed_applied" =>
                  \E m \in Attempts : fate'[worker'[v].row][m] = "executed"
             /\ worker'[v].outcome = "confirmed_absent" /\ ClaimMatches(v, {"ambiguous_claimed"})' =>
                  \A m \in Attempts : fate'[worker'[v].row][m] \in {"none", "refused"}
    BY DEF AnswerStaysTrue
  <2>1. v # w /\ worker'[v] = worker[v] /\ worker[v].row \in Proposals
    BY <1>3 DEF BaseInv, HoldsExistingRow, Reconciling
  <2>2. CASE worker[v].row # p
    BY <1>2, <1>4, <2>1, <2>2 DEF SendInv, AnswerStaysTrue, ClaimMatches
  <2>3. CASE worker[v].row = p
    <3>1. ~ClaimMatches(v, {"ambiguous_claimed"})'
      BY <1>2, <1>5, <2>1, <2>3 DEF ClaimMatches
    <3>2. worker[v].outcome = "confirmed_applied" =>
            \E m \in Attempts : m # n /\ fate[p][m] = "executed"
      BY <1>4, <2>1, <2>3 DEF SendInv, AnswerStaysTrue
    <3>. QED  BY <1>1, <1>4, <2>1, <2>3, <3>1, <3>2
  <2>. QED  BY <2>2, <2>3
<1>12. AttemptFate'
  BY <1>1, <1>2, <1>4, <1>6 DEF SendInv, AttemptFate
<1>13. ExecutedOnce'
  <2>1. \A q \in Proposals, m \in Attempts : fate'[q][m] = "executed" <=> fate[q][m] = "executed"
    BY <1>1, <1>4
  <2>. QED  BY <1>2, <2>1 DEF SendInv, ExecutedOnce
<1>. QED  BY <1>7, <1>8, <1>10, <1>11, <1>12, <1>13 DEF SendInv

\* What concluding attempt n of p does to the records of attempts and requests.
LEMMA ConcludeFate ==
    ASSUME BaseInv, SendInv, NEW p \in Proposals, NEW n \in Attempts,
           NEW s \in AttemptStates, NEW rs, NEW again,
           Conclude(p, n, s, rs, again), outbox[p].state # "absent", outbox[p].attempt = n,
           UNCHANGED <<fate, executions>>,
           s = "failed" => fate[p][n] \in {"none", "refused"},
           s = "succeeded" => fate[p][n] = "executed",
           s \notin {"none", "planned"}
    PROVE  AttemptFate' /\ ExecutedOnce'
<1>1. attempt \in [Proposals -> [Attempts -> AttemptStates]]
  BY DEF BaseInv, TypeOK
<1>2. \A q \in Proposals, m \in Attempts :
        attempt'[q][m] = IF q = p
                         THEN CASE m = n -> s
                                [] again /\ m = n + 1 -> "planned"
                                [] OTHER -> attempt[q][m]
                         ELSE attempt[q][m]
  BY <1>1 DEF Conclude
<1>3. \A m \in Attempts : m = n + 1 => attempt[p][m] = "none" /\ m # n
  BY DEF BaseInv, AttemptsAgree, Attempts
<1>4. \A m \in Attempts : m = n + 1 => fate[p][m] = "none"
  BY <1>3 DEF SendInv, AttemptFate
<1>5. AttemptFate'
  BY <1>2, <1>3, <1>4 DEF SendInv, AttemptFate
<1>6. ExecutedOnce'
  BY DEF SendInv, ExecutedOnce
<1>. QED  BY <1>5, <1>6

\* The other workers' knowledge of their requests survives a step of w that
\* leaves w without a request.
LEMMA OthersKnowFate ==
    ASSUME SendInv, NEW w \in Workers,
           \A v \in Workers : v # w => worker'[v] = worker[v],
           worker'[w].pc \notin InFlight, UNCHANGED fate
    PROVE  FlightKnowsFate'
BY DEF SendInv, FlightKnowsFate, FateOf, ProviderMayReturn, InFlight

LEMMA SendDispatchFinalize ==
    ASSUME BaseInv, SendInv, NEW w \in Workers, DispatchFinalize(w) PROVE SendInv'
<1>. DEFINE p == worker[w].row
            n == worker[w].attempt
            outcome == worker[w].outcome
<1>1. /\ outbox \in [Proposals -> Row] /\ worker \in [Workers -> Pass]
      /\ p \in Proposals /\ n \in Attempts /\ Holds(w)
  BY DEF BaseInv, TypeOK, Row, Pass, HoldsExistingRow, DispatchFinalize, Dispatching, Holds
<1>2. /\ ClaimMatches(w, {"dispatching"}) /\ UNCHANGED <<fate, executions>>
      /\ worker[w].pc = "d_returned"
  BY DEF DispatchFinalize, FinalizeAccepted, external
<1>3. /\ \A v \in Workers : v # w => worker'[v] = worker[v]
      /\ worker'[w].pc = "idle"
  BY <1>1 DEF DispatchFinalize, Stop, Rest, NoClaim
<1>4. /\ outcome = "succeeded" => fate[p][n] = "executed"
      /\ outcome \in KnownAbsent \cup {"permanent_failure"} => fate[p][n] = "refused"
  BY <1>2 DEF SendInv, FlightKnowsFate, FateOf, ProviderMayReturn
<1>5. ASSUME NEW s \in AttemptStates, NEW rs \in RowStates \ {"absent", "ambiguous_claimed"},
             NEW again, Conclude(p, n, s, rs, again),
             s \notin {"none", "planned"},
             s = "failed" => fate[p][n] \in {"none", "refused"},
             s = "succeeded" => fate[p][n] = "executed"
      PROVE  SendInv'
  <2>1. /\ \A q \in Proposals : q # p => outbox'[q] = outbox[q]
        /\ outbox'[p].state \notin {"absent", "ambiguous_claimed"}
        /\ outbox'[p].fencing = outbox[p].fencing
    BY <1>1, <1>5 DEF Conclude, Released
  <2>2. TokensIssued' /\ TokensUnique' /\ FlightKeepsClaim' /\ AnswerStaysTrue'
    <3>1. /\ ~Holds(w)' /\ worker'[w].pc \notin {"r_answered", "r_final"}
          /\ worker'[w].pc \notin InFlight
      BY <1>3 DEF Holds, Reconciling, Dispatching, InFlight
    <3>. QED  BY <1>1, <1>2, <1>3, <2>1, <3>1, SendRowMoves
  <2>3. FlightKnowsFate'
    BY <1>2, <1>3, OthersKnowFate DEF InFlight
  <2>4. outbox[p].state # "absent" /\ outbox[p].attempt = n
    BY <1>2 DEF ClaimMatches
  <2>5. AttemptFate' /\ ExecutedOnce'
    BY <1>1, <1>2, <1>4, <1>5, <2>4, ConcludeFate
  <2>. QED  BY <2>2, <2>3, <2>5 DEF SendInv
<1>6. /\ {"completed", "ambiguous", "terminal_failed"}
           \subseteq RowStates \ {"absent", "ambiguous_claimed"}
      /\ {"succeeded", "ambiguous", "failed"} \subseteq AttemptStates \ {"none", "planned"}
  BY DEF RowStates, AttemptStates
<1>7. CASE outcome = "succeeded" /\ Conclude(p, n, "succeeded", "completed", FALSE)
  BY <1>4, <1>5, <1>6, <1>7
<1>8. CASE outcome = "ambiguous" /\ Conclude(p, n, "ambiguous", "ambiguous", FALSE)
  BY <1>4, <1>5, <1>6, <1>8
<1>9. CASE outcome = "permanent_failure" /\ Conclude(p, n, "failed", "terminal_failed", FALSE)
  BY <1>4, <1>5, <1>6, <1>9
<1>10. CASE outcome \in KnownAbsent /\ Conclude(p, n, "failed", "terminal_failed", n < MaximumAttempts)
  BY <1>4, <1>5, <1>6, <1>10
<1>. QED  BY <1>7, <1>8, <1>9, <1>10 DEF DispatchFinalize, MayTryAgain

LEMMA SendReconcileFinalize ==
    ASSUME BaseInv, SendInv, NEW w \in Workers, ReconcileFinalize(w) PROVE SendInv'
<1>. DEFINE p == worker[w].row
            n == worker[w].attempt
            outcome == worker[w].outcome
<1>1. /\ outbox \in [Proposals -> Row] /\ worker \in [Workers -> Pass]
      /\ attempt \in [Proposals -> [Attempts -> AttemptStates]]
      /\ p \in Proposals /\ n \in Attempts /\ Holds(w)
  BY DEF BaseInv, TypeOK, Row, Pass, HoldsExistingRow, ReconcileFinalize, Reconciling, Holds
<1>2. /\ ClaimMatches(w, {"ambiguous_claimed"}) /\ UNCHANGED <<fate, executions>>
      /\ worker[w].pc = "r_final" /\ attempt[p][n] = "ambiguous"
  BY DEF ReconcileFinalize, ReconcileAccepted, AttemptState, external
<1>3. /\ \A v \in Workers : v # w => worker'[v] = worker[v]
      /\ worker'[w].pc = "dispatch"
  BY <1>1 DEF ReconcileFinalize, Rest, NoClaim
<1>4. outbox[p].state = "ambiguous_claimed" /\ outbox[p].attempt = n
  BY <1>2 DEF ClaimMatches
<1>5. \A m \in Attempts : m # n => fate[p][m] \in {"none", "refused"}
  <2>1. \A m \in Attempts : m # n => attempt[p][m] \in {"none", "failed"}
    <3>1. \A m \in Attempts : m # n => m < n \/ m > n
      BY <1>1 DEF Attempts
    <3>. QED  BY <1>1, <1>4, <3>1 DEF BaseInv, AttemptsAgree
  <2>. QED  BY <1>1, <1>2, <2>1 DEF SendInv, AttemptFate
<1>6. /\ outcome = "confirmed_applied" => fate[p][n] = "executed"
      /\ outcome = "confirmed_absent" => fate[p][n] \in {"none", "refused"}
  BY <1>1, <1>2, <1>5 DEF SendInv, AnswerStaysTrue
<1>7. ASSUME \A q \in Proposals : q # p => outbox'[q] = outbox[q],
             outbox'[p].state \notin {"absent", "ambiguous_claimed"},
             outbox'[p].fencing = outbox[p].fencing
      PROVE  TokensIssued' /\ TokensUnique' /\ FlightKeepsClaim' /\ AnswerStaysTrue'
  <2>1. /\ ~Holds(w)' /\ worker'[w].pc \notin {"r_answered", "r_final"}
        /\ worker'[w].pc \notin InFlight
    BY <1>3 DEF Holds, Reconciling, Dispatching, InFlight
  <2>. QED  BY <1>1, <1>2, <1>3, <1>7, <2>1, SendRowMoves
<1>8. FlightKnowsFate'
  BY <1>2, <1>3, OthersKnowFate DEF InFlight
<1>9. CASE /\ outbox' = [outbox EXCEPT ![p] =
                 [state |-> "ambiguous", attempt |-> n,
                  nextAt |-> now + BackoffDelay(outbox[p].unknowns + 1),
                  lease |-> 0, fencing |-> outbox[p].fencing, unknowns |-> outbox[p].unknowns + 1]]
           /\ UNCHANGED attempt
  <2>1. /\ \A q \in Proposals : q # p => outbox'[q] = outbox[q]
        /\ outbox'[p].state = "ambiguous" /\ outbox'[p].fencing = outbox[p].fencing
    BY <1>1, <1>9
  <2>2. AttemptFate' /\ ExecutedOnce'
    BY <1>2, <1>9 DEF SendInv, AttemptFate, ExecutedOnce
  <2>. QED  BY <1>7, <1>8, <2>1, <2>2 DEF SendInv
<1>10. ASSUME NEW s \in {"succeeded", "failed"}, NEW rs \in {"completed", "terminal_failed"},
              NEW again, Conclude(p, n, s, rs, again),
              s = "failed" => fate[p][n] \in {"none", "refused"},
              s = "succeeded" => fate[p][n] = "executed"
       PROVE  SendInv'
  <2>1. /\ \A q \in Proposals : q # p => outbox'[q] = outbox[q]
        /\ outbox'[p].state \notin {"absent", "ambiguous_claimed"}
        /\ outbox'[p].fencing = outbox[p].fencing
    BY <1>1, <1>10 DEF Conclude, Released
  <2>2. AttemptFate' /\ ExecutedOnce'
    BY <1>1, <1>2, <1>4, <1>10, ConcludeFate DEF AttemptStates
  <2>. QED  BY <1>7, <1>8, <2>1, <2>2 DEF SendInv
<1>11. CASE outcome = "confirmed_applied" /\ Conclude(p, n, "succeeded", "completed", FALSE)
  BY <1>6, <1>10, <1>11
<1>12. CASE outcome = "confirmed_absent" /\ Conclude(p, n, "failed", "terminal_failed", n < MaximumAttempts)
  BY <1>6, <1>10, <1>12
<1>. QED  BY <1>9, <1>11, <1>12 DEF ReconcileFinalize

\* An approval creates a row nobody holds a claim on.
LEMMA SendApprove ==
    ASSUME BaseInv, RowsAreApproved, SendInv, NEW p \in Proposals, Approve(p) PROVE SendInv'
<1>1. outbox[p].state = "absent" /\ UNCHANGED <<worker, fate, executions>>
  BY DEF Approve, Decidable, RowsAreApproved, external
<1>2. /\ \A q \in Proposals : q # p => outbox'[q] = outbox[q]
      /\ outbox'[p].state = "pending"
  BY DEF BaseInv, TypeOK, Approve
<1>3. \A w \in Workers : Holds(w) => worker[w].row \in Proposals /\ worker[w].row # p
  BY <1>1 DEF SendInv, TokensIssued, BaseInv, HoldsExistingRow, Holds
<1>4. TokensIssued' /\ TokensUnique'
  BY <1>1, <1>2, <1>3 DEF SendInv, TokensIssued, TokensUnique, Holds
<1>5. FlightKeepsClaim' /\ AnswerStaysTrue'
  <2>1. \A w \in Workers : worker[w].pc \in InFlight \cup {"r_answered", "r_final"} => Holds(w)
    BY DEF Holds, InFlight, Dispatching, Reconciling
  <2>. QED
    BY <1>1, <1>2, <1>3, <2>1 DEF SendInv, FlightKeepsClaim, AnswerStaysTrue, ClaimMatches
<1>6. FlightKnowsFate'
  BY <1>1 DEF SendInv, FlightKnowsFate, FateOf, ProviderMayReturn
<1>7. AttemptFate'
  <2>1. \A q \in Proposals, m \in Attempts :
          \/ attempt'[q][m] = attempt[q][m]
          \/ q = p /\ m = 1 /\ attempt'[q][m] = "planned"
    BY DEF BaseInv, TypeOK, Approve
  <2>2. \A m \in Attempts : fate[p][m] = "none"
    BY <1>1 DEF BaseInv, AttemptsAgree, SendInv, AttemptFate
  <2>. QED  BY <1>1, <2>1, <2>2 DEF SendInv, AttemptFate
<1>8. ExecutedOnce'
  BY <1>1 DEF SendInv, ExecutedOnce
<1>. QED  BY <1>4, <1>5, <1>6, <1>7, <1>8 DEF SendInv

\* A request still under way is the only one of its proposal that may succeed.
LEMMA OneInFlight ==
    ASSUME BaseInv, SendInv, NEW p \in Proposals, NEW n \in Attempts, fate[p][n] = "inflight"
    PROVE  /\ attempt[p][n] \in {"started", "ambiguous"}
           /\ \A m \in Attempts : m # n => fate[p][m] \in {"none", "refused"}
<1>1. attempt[p][n] \in {"started", "ambiguous"}
  <2>1. attempt[p][n] \in AttemptStates
    BY DEF BaseInv, TypeOK
  <2>2. attempt[p][n] \notin {"none", "planned", "failed", "succeeded"}
    BY DEF SendInv, AttemptFate
  <2>. QED  BY <2>1, <2>2 DEF AttemptStates
<1>2. outbox[p].state # "absent"
  BY <1>1 DEF BaseInv, AttemptsAgree
<1>3. outbox[p].attempt = n
  <2>1. outbox[p].attempt \in Attempts /\ ~(n < outbox[p].attempt) /\ ~(n > outbox[p].attempt)
    BY <1>1, <1>2 DEF BaseInv, AttemptsAgree
  <2>. QED  BY <2>1 DEF Attempts
<1>4. \A m \in Attempts : m # n => attempt[p][m] \in {"none", "failed"}
  <2>1. \A m \in Attempts : m # n => m < n \/ m > n
    BY DEF Attempts
  <2>. QED  BY <1>2, <1>3, <2>1 DEF BaseInv, AttemptsAgree
<1>. QED  BY <1>1, <1>4 DEF SendInv, AttemptFate

LEMMA SendProvider ==
    ASSUME BaseInv, SendInv, NEW p \in Proposals, NEW n \in Attempts,
           ProviderExecutes(p, n) \/ ProviderRefuses(p, n)
    PROVE  SendInv'
<1>1. /\ UNCHANGED <<outbox, attempt, worker>>
      /\ fate[p][n] = "inflight"
      /\ fate \in [Proposals -> [Attempts -> Fates]] /\ executions \in [Proposals -> Nat]
  BY DEF BaseInv, TypeOK, ProviderExecutes, ProviderRefuses, durable
<1>2. /\ attempt[p][n] \in {"started", "ambiguous"}
      /\ \A m \in Attempts : m # n => fate[p][m] \in {"none", "refused"}
  BY <1>1, OneInFlight
<1>3. /\ fate'[p][n] \in {"executed", "refused"}
      /\ \A q \in Proposals, m \in Attempts : q # p \/ m # n => fate'[q][m] = fate[q][m]
  BY <1>1 DEF ProviderExecutes, ProviderRefuses
<1>4. \A w \in Workers : worker[w].pc \in InFlight \cup {"r_answered", "r_final"} =>
        worker[w].row \in Proposals /\ worker[w].attempt \in Attempts
  BY DEF BaseInv, HoldsExistingRow, InFlight, Dispatching, Reconciling
<1>5. TokensIssued' /\ TokensUnique' /\ FlightKeepsClaim'
  BY <1>1 DEF SendInv, TokensIssued, TokensUnique, FlightKeepsClaim, Holds, ClaimMatches
<1>6. FlightKnowsFate'
  BY <1>1, <1>3, <1>4 DEF SendInv, FlightKnowsFate, FateOf, ProviderMayReturn, InFlight
<1>7. AnswerStaysTrue'
  <2>. SUFFICES ASSUME NEW v \in Workers, worker[v].pc \in {"r_answered", "r_final"}
       PROVE /\ worker[v].outcome = "confirmed_applied" =>
                  \E m \in Attempts : fate'[worker[v].row][m] = "executed"
             /\ worker[v].outcome = "confirmed_absent" /\ ClaimMatches(v, {"ambiguous_claimed"}) =>
                  \A m \in Attempts : fate'[worker[v].row][m] \in {"none", "refused"}
    BY <1>1 DEF AnswerStaysTrue, ClaimMatches
  <2>1. worker[v].row \in Proposals
    BY <1>4
  <2>2. CASE worker[v].row # p
    BY <1>3, <2>1, <2>2 DEF SendInv, AnswerStaysTrue
  <2>3. CASE worker[v].row = p
    BY <1>1, <1>2, <1>3, <2>3 DEF SendInv, AnswerStaysTrue
  <2>. QED  BY <2>2, <2>3
<1>8. AttemptFate'
  BY <1>1, <1>2, <1>3 DEF SendInv, AttemptFate
<1>9. ExecutedOnce'
  <2>1. executions[p] = 0
    BY <1>1, <1>2 DEF SendInv, ExecutedOnce
  <2>2. CASE ProviderExecutes(p, n)
    <3>1. /\ executions'[p] = 1 /\ fate'[p][n] = "executed"
          /\ \A q \in Proposals : q # p => executions'[q] = executions[q]
      BY <1>1, <2>1, <2>2 DEF ProviderExecutes
    <3>. QED  BY <1>3, <3>1 DEF SendInv, ExecutedOnce
  <2>3. CASE ProviderRefuses(p, n)
    <3>1. executions' = executions /\ fate'[p][n] = "refused"
      BY <1>1, <2>3 DEF ProviderRefuses
    <3>2. \A q \in Proposals, m \in Attempts : fate'[q][m] = "executed" <=> fate[q][m] = "executed"
      BY <1>1, <1>3, <3>1
    <3>. QED  BY <3>1, <3>2 DEF SendInv, ExecutedOnce
  <2>. QED  BY <2>2, <2>3
<1>. QED  BY <1>5, <1>6, <1>7, <1>8, <1>9 DEF SendInv

LEMMA SendEnd ==
    ASSUME BaseInv, SendInv, NEW w \in Workers, End(w) PROVE SendInv'
<1>1. UNCHANGED <<outbox, attempt, fate, executions>>
  BY DEF End, durable, external
<1>2. /\ \A v \in Workers : v # w => worker'[v] = worker[v]
      /\ worker'[w].pc = "ended"
  BY DEF BaseInv, TypeOK, End, Rest, NoClaim
<1>3. TokensIssued' /\ TokensUnique'
  BY <1>1, <1>2 DEF SendInv, TokensIssued, TokensUnique, Holds, Reconciling, Dispatching
<1>4. FlightKeepsClaim' /\ FlightKnowsFate' /\ AnswerStaysTrue'
  BY <1>1, <1>2 DEF SendInv, FlightKeepsClaim, FlightKnowsFate, AnswerStaysTrue, ClaimMatches,
     FateOf, ProviderMayReturn, InFlight
<1>5. AttemptFate' /\ ExecutedOnce'
  BY <1>1 DEF SendInv, AttemptFate, ExecutedOnce
<1>. QED  BY <1>3, <1>4, <1>5 DEF SendInv

\* Either nothing recovers expired dispatches, as shipped, or no worker
\* outlives its lease.
Punctual == RecoversExpired => SlowWorkers = {}

\* A worker that keeps to its lease holds one that has not run out.
TimelyClaims == RecoversExpired => \A w \in Workers : Holds(w) => now <= worker[w].lease

LEMMA TimelyNext ==
    ASSUME Punctual, BaseInv, TimelyClaims, [Next]_vars PROVE TimelyClaims'
<1>. SUFFICES ASSUME RecoversExpired, NEW v \in Workers, Holds(v)' PROVE now' <= worker'[v].lease
  BY DEF TimelyClaims
<1>. worker \in [Workers -> Pass] /\ now \in Nat
  BY DEF BaseInv, TypeOK, Pass
<1>1. Holds(v) => now <= worker[v].lease /\ worker[v].row \in Proposals
  BY DEF TimelyClaims, BaseInv, HoldsExistingRow, Holds
<1>2. ASSUME now' = now, Holds(v), worker'[v].lease = worker[v].lease
      PROVE  now' <= worker'[v].lease
  BY <1>1, <1>2
<1>3. ASSUME NEW w \in Workers, WorkerStep(w) \/ Visit(w) \/ WakeRaises(w) \/ Crash(w)
      PROVE  now' <= worker'[v].lease
  <2>1. CASE OnlyMoves(w)
    BY <1>2, <2>1, MoveFacts DEF Holds
  <2>2. ASSUME NEW p, NEW s, NEW pc, Claim(w, p, s, pc) PROVE now' <= worker'[v].lease
    BY <1>2, <2>2 DEF Claim, Holds
  <2>3. CASE ReconcileClaim(w) \/ DispatchClaim(w)
    BY <2>2, <2>3 DEF ReconcileClaim, DispatchClaim
  <2>4. CASE MarkStarted(w) \/ Submit(w)
    BY <1>2, <2>4 DEF MarkStarted, Submit, GoTo, Holds, Pass, Dispatching
  <2>5. CASE ReconcileFinalize(w) \/ DispatchFinalize(w) \/ Terminate(w) \/ Crash(w)
    <3>1. (\E pc \in {"idle", "dispatch", "ended"} : Rest(w, pc)) /\ now' = now
      BY <2>5 DEF ReconcileFinalize, DispatchFinalize, Terminate, Crash, End, Stop
    <3>2. v # w /\ worker'[v] = worker[v]
      BY <3>1 DEF Rest, NoClaim, Holds, Reconciling, Dispatching
    <3>. QED  BY <1>2, <3>1, <3>2 DEF Holds
  <2>. QED  BY <1>3, <2>1, <2>3, <2>4, <2>5 DEF WorkerStep, OnlyMoves
<1>4. CASE Tick
  <2>1. now' = now + 1 /\ UNCHANGED worker /\ Prompt(v)
    BY <1>4 DEF Tick, Punctual
  <2>2. worker[v].row # NoRow /\ worker[v].lease \in Nat
    BY <1>1, <2>1 DEF Holds, Pass
  <2>. QED  BY <2>1, <2>2 DEF Prompt
<1>5. CASE UNCHANGED <<now, worker>>
  BY <1>2, <1>5 DEF Holds
<1>6. ASSUME NEW p \in Proposals,
             \/ Propose(p) \/ Approve(p) \/ Reject(p)
             \/ \E n \in Attempts : ProviderExecutes(p, n) \/ ProviderRefuses(p, n)
      PROVE  UNCHANGED <<now, worker>>
  BY <1>6 DEF Propose, Approve, Reject, ProviderExecutes, ProviderRefuses
<1>7. CASE ReviseMandate \/ RecoverExpired \/ UNCHANGED vars
  BY <1>5, <1>7 DEF ReviseMandate, RecoverExpired, vars
<1>. QED  BY <1>3, <1>4, <1>5, <1>6, <1>7 DEF Next

\* Only a row whose dispatcher is gone is recovered: a worker still in flight
\* holds the row's lease, and that lease has run out.
LEMMA SendRecover ==
    ASSUME BaseInv, SendInv, TimelyClaims, RecoverExpired PROVE SendInv'
<1>. outbox \in [Proposals -> Row] /\ worker \in [Workers -> Pass] /\ now \in Nat
  BY DEF BaseInv, TypeOK, Row, Pass
<1>1. RecoversExpired /\ UNCHANGED <<worker, fate, executions>>
  BY DEF RecoverExpired, external
<1>2. PICK p \in Proposals :
        /\ outbox[p].state = "dispatching" /\ outbox[p].lease < now
        /\ Conclude(p, outbox[p].attempt, "ambiguous", "ambiguous", FALSE)
  BY DEF RecoverExpired
<1>3. /\ \A q \in Proposals : q # p => outbox'[q] = outbox[q]
      /\ outbox'[p].state = "ambiguous" /\ outbox'[p].fencing = outbox[p].fencing
  BY <1>2 DEF Conclude, Released
<1>4. \A v \in Workers : Holds(v) => worker[v].row \in Proposals /\ now <= worker[v].lease
  BY <1>1 DEF TimelyClaims, BaseInv, HoldsExistingRow, Holds
<1>5. \A v \in Workers : worker[v].pc \in InFlight \cup {"r_answered", "r_final"} => Holds(v)
  BY DEF Holds, InFlight, Dispatching, Reconciling
<1>6. ASSUME NEW v \in Workers, worker[v].pc \in InFlight PROVE worker[v].row # p
  <2>1. outbox[worker[v].row].lease = worker[v].lease
    BY <1>6 DEF SendInv, FlightKeepsClaim, ClaimMatches
  <2>2. now <= worker[v].lease /\ worker[v].lease \in Nat /\ outbox[p].lease \in Nat
    BY <1>4, <1>5, <1>6 DEF Pass, Row
  <2>. QED  BY <1>2, <2>1, <2>2
<1>7. TokensIssued' /\ TokensUnique'
  BY <1>1, <1>3, <1>4 DEF SendInv, TokensIssued, TokensUnique, Holds
<1>8. FlightKeepsClaim'
  BY <1>1, <1>3, <1>4, <1>5, <1>6 DEF SendInv, FlightKeepsClaim, ClaimMatches
<1>9. FlightKnowsFate'
  BY <1>1 DEF SendInv, FlightKnowsFate, FateOf, ProviderMayReturn
<1>10. AnswerStaysTrue'
  <2>1. \A v \in Workers : Holds(v) /\ ClaimMatches(v, {"ambiguous_claimed"})'
          => ClaimMatches(v, {"ambiguous_claimed"})
    BY <1>1, <1>3, <1>4 DEF ClaimMatches
  <2>. QED  BY <1>1, <1>5, <2>1 DEF SendInv, AnswerStaysTrue
<1>11. AttemptFate' /\ ExecutedOnce'
  <2>1. outbox[p].attempt \in Attempts
    BY <1>2 DEF BaseInv, AttemptsAgree
  <2>. QED  BY <1>1, <1>2, <2>1, ConcludeFate DEF AttemptStates
<1>. QED  BY <1>7, <1>8, <1>9, <1>10, <1>11 DEF SendInv

LEMMA SendNext ==
    ASSUME BaseInv, RowsAreApproved, SendInv, TimelyClaims, [Next]_vars PROVE SendInv'
<1>1. CASE UNCHANGED <<outbox, attempt, worker, fate, executions>>
  BY <1>1 DEF SendInv, TokensIssued, TokensUnique, FlightKeepsClaim, FlightKnowsFate,
     AnswerStaysTrue, AttemptFate, ExecutedOnce, Holds, ClaimMatches, FateOf, ProviderMayReturn
<1>2. ASSUME NEW p \in Proposals, Propose(p) \/ Reject(p) PROVE SendInv'
  BY <1>1, <1>2 DEF Propose, Reject, external
<1>3. CASE ReviseMandate \/ Tick \/ UNCHANGED vars
  BY <1>1, <1>3 DEF ReviseMandate, Tick, vars, durable, external
<1>4. ASSUME NEW w \in Workers, WorkerStep(w) PROVE SendInv'
  <2>1. CASE OnlyMoves(w)
    BY <2>1, SendMoves
  <2>2. CASE ReconcileClaim(w)
    <3>1. PICK p \in Proposals : /\ outbox[p].state \in {"ambiguous", "ambiguous_claimed"}
                                 /\ Claim(w, p, "ambiguous_claimed", "r_claimed")
      BY <2>2 DEF ReconcileClaim, Oldest, Reconcilable, Claimable
    <3>2. outbox[p].state \notin {"absent", "dispatching"}
      BY <3>1
    <3>. QED  BY <3>1, <3>2, SendClaim
  <2>3. CASE DispatchClaim(w)
    <3>1. PICK p \in Proposals : /\ outbox[p].state \in {"pending", "retry", "claimed"}
                                 /\ Claim(w, p, "claimed", "d_claimed")
      BY <2>3 DEF DispatchClaim, Oldest, Dispatchable, Claimable
    <3>2. outbox[p].state \notin {"absent", "dispatching"}
      BY <3>1
    <3>. QED  BY <3>1, <3>2, SendClaim
  <2>4. CASE ReconcileFinalize(w)
    BY <2>4, SendReconcileFinalize
  <2>5. CASE MarkStarted(w)
    BY <2>5, SendStart
  <2>6. CASE Submit(w)
    BY <2>6, SendSubmit
  <2>7. CASE DispatchFinalize(w)
    BY <2>7, SendDispatchFinalize
  <2>8. CASE Terminate(w)
    BY <2>8, SendEnd DEF Terminate
  <2>. QED
    BY <1>4, <2>1, <2>2, <2>3, <2>4, <2>5, <2>6, <2>7, <2>8 DEF WorkerStep, OnlyMoves
<1>5. ASSUME NEW w \in Workers, Visit(w) \/ WakeRaises(w) PROVE SendInv'
  BY <1>5, SendMoves DEF OnlyMoves
<1>6. ASSUME NEW w \in Workers, Crash(w) PROVE SendInv'
  BY <1>6, SendEnd DEF Crash
<1>7. ASSUME NEW p \in Proposals, Approve(p) PROVE SendInv'
  BY <1>7, SendApprove
<1>8. ASSUME NEW p \in Proposals, NEW n \in Attempts, ProviderExecutes(p, n) \/ ProviderRefuses(p, n)
      PROVE SendInv'
  BY <1>8, SendProvider
<1>9. CASE RecoverExpired
  BY <1>9, SendRecover
<1>. QED
  BY <1>2, <1>3, <1>4, <1>5, <1>6, <1>7, <1>8, <1>9 DEF Next

\* What the invariants say of the properties the runs check.
LEMMA SendInvImplies ==
    ASSUME BaseInv, SendInv PROVE NoBlindResend /\ AtMostOnce /\ VerdictTruthful /\ SingleFlight
<1>1. NoBlindResend
  <2>. SUFFICES ASSUME NEW p \in Proposals, NEW n \in Attempts, NEW m \in Attempts,
                       n < m, attempt[p][m] # "none"
       PROVE /\ fate[p][n] \in {"none", "refused"}
             /\ \A w \in Workers : worker[w].pc = "d_started" =>
                  worker[w].row # p \/ worker[w].attempt # n
    BY DEF NoBlindResend
  <2>1. outbox[p].state # "absent"
    BY DEF BaseInv, AttemptsAgree
  <2>2. outbox[p].attempt \in Attempts /\ ~(m > outbox[p].attempt)
    BY <2>1 DEF BaseInv, AttemptsAgree
  <2>3. n < outbox[p].attempt
    BY <2>2 DEF Attempts
  <2>4. attempt[p][n] = "failed"
    BY <2>1, <2>3 DEF BaseInv, AttemptsAgree
  <2>5. fate[p][n] \in {"none", "refused"}
    BY <2>4 DEF SendInv, AttemptFate
  <2>6. \A w \in Workers : worker[w].pc = "d_started" /\ worker[w].row = p =>
          worker[w].attempt = outbox[p].attempt
    BY DEF SendInv, FlightKeepsClaim, InFlight, ClaimMatches
  <2>7. n # outbox[p].attempt
    BY <2>3 DEF Attempts
  <2>. QED  BY <2>5, <2>6, <2>7
<1>2. AtMostOnce
  <2>1. \A p \in Proposals : executions[p] = 0 \/ executions[p] = 1
    BY DEF SendInv, ExecutedOnce
  <2>2. 0 <= 1 /\ 1 <= 1
    OBVIOUS
  <2>. QED  BY <2>1, <2>2 DEF AtMostOnce
<1>3. VerdictTruthful
  <2>. SUFFICES ASSUME NEW p \in Proposals, outbox[p].state \in {"completed", "terminal_failed"}
       PROVE /\ outbox[p].state = "completed" => executions[p] = 1
             /\ outbox[p].state = "terminal_failed" => executions[p] = 0
             /\ \A n \in Attempts : fate[p][n] # "inflight"
    BY DEF VerdictTruthful
  <2>. DEFINE k == outbox[p].attempt
  <2>1. /\ k \in Attempts /\ outbox[p].state \in RowFits(attempt[p][k])
        /\ attempt[p][k] \in AttemptStates
        /\ \A n \in Attempts : n # k => attempt[p][n] \in {"failed", "none"}
    <3>1. k \in Attempts /\ outbox[p].state \in RowFits(attempt[p][k])
          /\ \A n \in Attempts : (n < k => attempt[p][n] = "failed")
                              /\ (n > k => attempt[p][n] = "none")
      BY DEF BaseInv, AttemptsAgree
    <3>2. attempt[p][k] \in AttemptStates
      BY <3>1 DEF BaseInv, TypeOK
    <3>3. \A n \in Attempts : n # k => n < k \/ n > k
      BY <3>1 DEF Attempts
    <3>. QED  BY <3>1, <3>2, <3>3
  <2>2. /\ outbox[p].state = "completed" => attempt[p][k] = "succeeded"
        /\ outbox[p].state = "terminal_failed" => attempt[p][k] = "failed"
    BY <2>1 DEF RowFits, AttemptStates
  <2>3. /\ outbox[p].state = "completed" => fate[p][k] = "executed"
        /\ outbox[p].state = "terminal_failed" => fate[p][k] \in {"none", "refused"}
        /\ \A n \in Attempts : n # k => fate[p][n] \in {"refused", "none"}
    BY <2>1, <2>2 DEF SendInv, AttemptFate
  <2>. QED  BY <2>1, <2>3 DEF SendInv, ExecutedOnce
<1>4. SingleFlight
  <2>. SUFFICES ASSUME NEW v \in Workers, NEW w \in Workers, v # w,
                       worker[v].pc \in InFlight, worker[w].pc \in InFlight,
                       worker[v].row = worker[w].row
       PROVE FALSE
    BY DEF SingleFlight, InFlight
  <2>. QED
    BY DEF SendInv, FlightKeepsClaim, ClaimMatches, TokensUnique, Holds, InFlight, Dispatching
<1>. QED  BY <1>1, <1>2, <1>3, <1>4

LEMMA SendAlways ==
    ASSUME Punctual PROVE Spec => [](BaseInv /\ RowsAreApproved /\ SendInv)
<1>. DEFINE IInv == BaseInv /\ RowsAreApproved /\ SendInv /\ TimelyClaims
<1>1. Init => IInv
  BY BaseInit, SendInit DEF Init, RowsAreApproved, NoOutbox, TimelyClaims, NoClaim, Holds,
     Reconciling, Dispatching
<1>2. IInv /\ [Next]_vars => IInv'
  BY BaseNext, ApprovedNext, SendNext, TimelyNext
<1>3. IInv => BaseInv /\ RowsAreApproved /\ SendInv
  OBVIOUS
<1>. HIDE DEF IInv
<1>. QED  BY <1>1, <1>2, <1>3, PTL DEF Spec

\* A later attempt exists only when the request of the earlier one was refused
\* or can no longer be sent, for any number of workers, proposals and attempts:
\* of workers that stall for as long as they like where nothing calls
\* recover_expired (nothing in the shipped program does), and of workers that
\* keep to their leases where something does.
THEOREM NeverResentBlindly == ASSUME Punctual PROVE Spec => []NoBlindResend
BY SendAlways, SendInvImplies, PTL

\* finalize_dispatch, reconcile_ambiguous, recover_expired and the fencing token
\* together carry the effect of a proposal out at most once.
THEOREM ExecutedAtMostOnce == ASSUME Punctual PROVE Spec => []AtMostOnce
BY SendAlways, SendInvImplies, PTL

\* completed and terminal_failed rows are right about what the provider did.
THEOREM VerdictsAreTruthful == ASSUME Punctual PROVE Spec => []VerdictTruthful
BY SendAlways, SendInvImplies, PTL

\* mark_dispatch_started, submit and finalize_dispatch of one row never
\* interleave between two workers.
THEOREM OneDispatcherPerRow == ASSUME Punctual PROVE Spec => []SingleFlight
BY SendAlways, SendInvImplies, PTL

-----------------------------------------------------------------------------
(* A row is dispatched under an authority that held at the claim           *)

\* What AuthorizedAtClaim asks of one row.
AuthorityHeld(p) ==
    LET claimedAt == outbox[p].lease - LeaseDuration
        next == proposal[p].mandate + 1
    IN /\ decision[p].choice = "approve"
       /\ claimedAt <= decision[p].validUntil
       /\ next <= mandate => claimedAt <= revisedAt[next]

\* A lease is counted from a moment that has passed.
LeasesArePast == \A p \in Proposals : outbox[p].lease <= now + LeaseDuration

DecidedWereProposed == \A p \in Proposals :
    decision[p].choice # "none" => proposal[p].mandate # 0

\* The check of dispatch_once carries over to mark_dispatch_started only for as
\* long as nobody took the row over: nothing is said of a claim that was lost.
ValidatedHeldAuthority == \A w \in Workers :
    worker[w].pc = "d_valid" /\ ClaimMatches(w, {"claimed"}) => AuthorityHeld(worker[w].row)

ClaimInv ==
    /\ LeasesArePast /\ DecidedWereProposed /\ TokensIssued
    /\ ValidatedHeldAuthority /\ AuthorizedAtClaim

LEMMA AuthorizedAtClaimByRow ==
    AuthorizedAtClaim <=> \A p \in Proposals : outbox[p].state = "dispatching" => AuthorityHeld(p)
BY DEF AuthorizedAtClaim, AuthorityHeld

LEMMA ClaimInit == Init => ClaimInv
<1>. SUFFICES ASSUME Init PROVE ClaimInv
  OBVIOUS
<1>1. LeasesArePast /\ DecidedWereProposed /\ AuthorizedAtClaim
  BY DEF Init, NoOutbox, LeasesArePast, DecidedWereProposed, AuthorizedAtClaim
<1>2. TokensIssued /\ ValidatedHeldAuthority
  BY DEF Init, NoClaim, TokensIssued, ValidatedHeldAuthority, Holds, Reconciling, Dispatching
<1>. QED  BY <1>1, <1>2 DEF ClaimInv

\* A step that leaves the rows and the workers alone keeps every claim, if it
\* takes no authority back.
LEMMA ClaimStays ==
    ASSUME ClaimInv, LeasesArePast', DecidedWereProposed', UNCHANGED <<outbox, worker>>,
           \A p \in Proposals : AuthorityHeld(p) => AuthorityHeld(p)',
           HoldsExistingRow
    PROVE  ClaimInv'
<1>1. TokensIssued'
  BY DEF ClaimInv, TokensIssued, Holds
<1>2. ValidatedHeldAuthority'
  BY DEF ClaimInv, ValidatedHeldAuthority, ClaimMatches, HoldsExistingRow, Dispatching
<1>3. AuthorizedAtClaim'
  BY DEF ClaimInv, AuthorizedAtClaim, AuthorityHeld
<1>. QED  BY <1>1, <1>2, <1>3 DEF ClaimInv

\* A transaction on one row, by the workers of W.
LEMMA ClaimRowMoves ==
    ASSUME BaseInv, ClaimInv, NEW p \in Proposals, NEW W \in SUBSET Workers,
           UNCHANGED <<now, mandate, revisedAt, proposal, decision>>,
           \A q \in Proposals : q # p => outbox'[q] = outbox[q],
           outbox'[p].lease <= now + LeaseDuration,
           outbox[p].fencing <= outbox'[p].fencing,
           outbox'[p].fencing \in Nat,
           outbox'[p].state # "absent",
           outbox'[p].state = "dispatching" => AuthorityHeld(p)',
           \A v \in Workers \ W : worker'[v] = worker[v],
           \A v \in Workers \ W : Holds(v) /\ worker[v].row = p => ~ClaimMatches(v, {"claimed"})',
           \A v \in W : worker'[v].pc # "d_valid",
           \A v \in W : Holds(v)' => /\ worker'[v].row = p
                                     /\ worker'[v].fencing <= outbox'[p].fencing
    PROVE  ClaimInv'
<1>1. LeasesArePast' /\ DecidedWereProposed'
  BY DEF ClaimInv, LeasesArePast, DecidedWereProposed
<1>2. \A v \in Workers \ W : Holds(v) => worker[v].row \in Proposals
  BY DEF BaseInv, HoldsExistingRow, Holds
<1>3. TokensIssued'
  <2>. SUFFICES ASSUME NEW v \in Workers, Holds(v)'
       PROVE /\ worker'[v].fencing <= outbox'[worker'[v].row].fencing
             /\ outbox'[worker'[v].row].state # "absent"
    BY DEF TokensIssued
  <2>1. CASE v \in W
    BY <2>1
  <2>2. CASE v \notin W
    <3>1. /\ Holds(v) /\ worker'[v] = worker[v] /\ worker[v].row \in Proposals
          /\ worker[v].fencing <= outbox[worker[v].row].fencing
          /\ outbox[worker[v].row].state # "absent"
      BY <1>2, <2>2 DEF Holds, ClaimInv, TokensIssued
    <3>2. CASE worker[v].row # p
      BY <3>1, <3>2
    <3>3. CASE worker[v].row = p
      <4>1. worker[v].fencing \in Nat /\ outbox[p].fencing \in Nat
        BY DEF BaseInv, TypeOK
      <4>. QED  BY <3>1, <3>3, <4>1
    <3>. QED  BY <3>2, <3>3
  <2>. QED  BY <2>1, <2>2
<1>4. \A q \in Proposals : q # p /\ AuthorityHeld(q) => AuthorityHeld(q)'
  BY DEF AuthorityHeld
<1>5. ValidatedHeldAuthority'
  <2>. SUFFICES ASSUME NEW v \in Workers, worker'[v].pc = "d_valid", ClaimMatches(v, {"claimed"})'
       PROVE AuthorityHeld(worker[v].row)'
    BY DEF ValidatedHeldAuthority
  <2>1. v \notin W /\ worker'[v] = worker[v] /\ Holds(v)
    BY DEF Holds, Dispatching
  <2>2. worker[v].row \in Proposals /\ worker[v].row # p
    BY <1>2, <2>1
  <2>3. ClaimMatches(v, {"claimed"})
    BY <2>1, <2>2 DEF ClaimMatches
  <2>4. AuthorityHeld(worker[v].row)
    BY <2>1, <2>3 DEF ClaimInv, ValidatedHeldAuthority
  <2>5. PICK q \in Proposals : q = worker[v].row /\ q # p /\ AuthorityHeld(q)
    BY <2>2, <2>4
  <2>6. AuthorityHeld(q)'
    BY <1>4, <2>5
  <2>. QED  BY <2>1, <2>5, <2>6 DEF AuthorityHeld
<1>6. AuthorizedAtClaim'
  <2>1. \A q \in Proposals : outbox'[q].state = "dispatching" => AuthorityHeld(q)'
    BY <1>4 DEF ClaimInv, AuthorizedAtClaim, AuthorityHeld
  <2>. QED  BY <2>1 DEF AuthorizedAtClaim, AuthorityHeld
<1>. QED  BY <1>1, <1>3, <1>5, <1>6 DEF ClaimInv

LEMMA ClaimTaken ==
    ASSUME BaseInv, ClaimInv, NEW w \in Workers, NEW p \in Proposals, NEW pc,
           pc # "d_valid", NEW s \in RowStates \ {"absent", "dispatching"},
           Claim(w, p, s, pc)
    PROVE  ClaimInv'
<1>1. UNCHANGED <<now, mandate, revisedAt, proposal, decision>>
  BY DEF Claim
<1>2. outbox \in [Proposals -> Row] /\ worker \in [Workers -> Pass] /\ now \in Nat
  BY DEF BaseInv, TypeOK, Row, Pass
<1>3. /\ \A q \in Proposals : q # p => outbox'[q] = outbox[q]
      /\ outbox'[p].state = s /\ outbox'[p].lease = now + LeaseDuration
      /\ outbox'[p].fencing = outbox[p].fencing + 1 /\ outbox[p].fencing \in Nat
  BY <1>2 DEF Claim, Row
<1>4. /\ \A v \in Workers \ {w} : worker'[v] = worker[v]
      /\ worker'[w].pc = pc /\ worker'[w].row = p /\ worker'[w].fencing = outbox[p].fencing + 1
  BY <1>2 DEF Claim
<1>5. ASSUME NEW v \in Workers \ {w}, Holds(v), worker[v].row = p
      PROVE  ~ClaimMatches(v, {"claimed"})'
  <2>1. worker[v].fencing <= outbox[p].fencing /\ worker[v].fencing \in Nat
    BY <1>2, <1>5 DEF ClaimInv, TokensIssued, Pass
  <2>2. worker'[v].fencing # outbox'[worker'[v].row].fencing
    BY <1>3, <1>4, <1>5, <2>1
  <2>. QED  BY <2>2 DEF ClaimMatches
<1>6. /\ outbox'[p].lease <= now + LeaseDuration
      /\ outbox[p].fencing <= outbox'[p].fencing /\ outbox'[p].fencing \in Nat
      /\ outbox'[p].state # "absent" /\ outbox'[p].state # "dispatching"
  BY <1>2, <1>3
<1>7. /\ {w} \in SUBSET Workers
      /\ \A v \in Workers \ {w} : Holds(v) /\ worker[v].row = p => ~ClaimMatches(v, {"claimed"})'
      /\ \A v \in {w} : worker'[v].pc # "d_valid"
      /\ \A v \in {w} : Holds(v)' => /\ worker'[v].row = p
                                     /\ worker'[v].fencing <= outbox'[p].fencing
  BY <1>3, <1>4, <1>5
<1>. QED  BY <1>1, <1>3, <1>4, <1>6, <1>7, ClaimRowMoves

\* MarkStarted and either finalisation: the row moves on under the claim of w.
LEMMA ClaimMovesOn ==
    ASSUME BaseInv, ClaimInv, NEW w \in Workers, Holds(w),
           NEW p \in Proposals, worker[w].row = p,
           UNCHANGED <<now, mandate, revisedAt, proposal, decision>>,
           \A q \in Proposals : q # p => outbox'[q] = outbox[q],
           outbox'[p].lease \in {0, outbox[p].lease},
           outbox'[p].fencing = outbox[p].fencing,
           outbox'[p].state \notin {"absent", "claimed"},
           outbox'[p].state = "dispatching" => AuthorityHeld(p)',
           \A v \in Workers \ {w} : worker'[v] = worker[v],
           worker'[w].pc # "d_valid",
           Holds(w)' => worker'[w].row = p /\ worker'[w].fencing = worker[w].fencing
    PROVE  ClaimInv'
<1>1. outbox[p] \in Row /\ now \in Nat
  BY DEF BaseInv, TypeOK, Row
<1>2. outbox[p].lease \in Nat /\ outbox[p].fencing \in Nat
  BY <1>1 DEF Row
<1>3. outbox[p].lease <= now + LeaseDuration
  BY DEF ClaimInv, LeasesArePast
<1>4. worker[w].fencing <= outbox[p].fencing
  BY DEF ClaimInv, TokensIssued
<1>5. /\ outbox'[p].lease <= now + LeaseDuration
      /\ outbox[p].fencing <= outbox'[p].fencing /\ outbox'[p].fencing \in Nat
  BY <1>1, <1>2, <1>3
<1>6. ASSUME NEW v \in Workers \ {w}, worker[v].row = p
      PROVE  ~ClaimMatches(v, {"claimed"})'
  <2>1. outbox'[worker'[v].row].state # "claimed"
    BY <1>6
  <2>. QED  BY <2>1 DEF ClaimMatches
<1>7. /\ {w} \in SUBSET Workers
      /\ \A v \in Workers \ {w} : Holds(v) /\ worker[v].row = p => ~ClaimMatches(v, {"claimed"})'
      /\ \A v \in {w} : worker'[v].pc # "d_valid"
      /\ \A v \in {w} : Holds(v)' => /\ worker'[v].row = p
                                     /\ worker'[v].fencing <= outbox'[p].fencing
  BY <1>4, <1>6
<1>. QED  BY <1>5, <1>7, ClaimRowMoves

LEMMA ClaimStarts ==
    ASSUME BaseInv, ClaimInv, NEW w \in Workers, MarkStarted(w) PROVE ClaimInv'
<1>1. UNCHANGED <<now, mandate, revisedAt, proposal, decision>>
  BY DEF MarkStarted
<1>2. PICK p \in Proposals : p = worker[w].row
  BY DEF BaseInv, HoldsExistingRow, MarkStarted, Dispatching
<1>3. outbox \in [Proposals -> Row] /\ worker \in [Workers -> Pass] /\ Holds(w)
  BY DEF BaseInv, TypeOK, Row, Pass, MarkStarted, Dispatching, Holds
<1>4. worker[w].pc = "d_valid" /\ ClaimMatches(w, {"claimed"})
  BY DEF MarkStarted, StartAccepted
<1>5. AuthorityHeld(p)
  BY <1>2, <1>4 DEF ClaimInv, ValidatedHeldAuthority
<1>6. outbox' = [outbox EXCEPT ![p].state = "dispatching"]
  BY <1>2 DEF MarkStarted
<1>7. /\ \A q \in Proposals : q # p => outbox'[q] = outbox[q]
      /\ outbox'[p].lease = outbox[p].lease /\ outbox'[p].fencing = outbox[p].fencing
      /\ outbox'[p].state = "dispatching"
  BY <1>3, <1>6 DEF Row
<1>8. AuthorityHeld(p)'
  BY <1>1, <1>5, <1>7 DEF AuthorityHeld
<1>9. /\ \A v \in Workers \ {w} : worker'[v] = worker[v]
      /\ worker'[w].pc = "d_started" /\ worker'[w].row = p
      /\ worker'[w].fencing = worker[w].fencing
  BY <1>2, <1>3 DEF MarkStarted, GoTo, Pass
<1>. QED  BY <1>1, <1>2, <1>3, <1>7, <1>8, <1>9, ClaimMovesOn

LEMMA ClaimFinalizes ==
    ASSUME BaseInv, ClaimInv, NEW w \in Workers, ReconcileFinalize(w) \/ DispatchFinalize(w)
    PROVE  ClaimInv'
<1>1. UNCHANGED <<now, mandate, revisedAt, proposal, decision>>
  BY DEF ReconcileFinalize, DispatchFinalize
<1>2. Holds(w)
  BY DEF ReconcileFinalize, DispatchFinalize, Reconciling, Dispatching, Holds
<1>3. PICK p \in Proposals : p = worker[w].row
  BY <1>2 DEF BaseInv, HoldsExistingRow, Holds
<1>4. outbox \in [Proposals -> Row] /\ worker \in [Workers -> Pass]
  BY DEF BaseInv, TypeOK, Row, Pass
<1>5. ASSUME NEW n, NEW s, NEW rowState \in {"completed", "ambiguous", "terminal_failed"},
             NEW again, Conclude(p, n, s, rowState, again)
      PROVE  /\ \A q \in Proposals : q # p => outbox'[q] = outbox[q]
             /\ outbox'[p].lease = 0 /\ outbox'[p].fencing = outbox[p].fencing
             /\ outbox'[p].state \notin {"absent", "claimed", "dispatching"}
  BY <1>4, <1>5 DEF Conclude, Released
<1>6. /\ \A q \in Proposals : q # p => outbox'[q] = outbox[q]
      /\ outbox'[p].lease = 0 /\ outbox'[p].fencing = outbox[p].fencing
      /\ outbox'[p].state \notin {"absent", "claimed", "dispatching"}
  <2>1. CASE ReconcileFinalize(w) /\ worker[w].outcome = "still_unknown"
    BY <1>3, <1>4, <2>1 DEF ReconcileFinalize
  <2>2. CASE ReconcileFinalize(w) /\ worker[w].outcome # "still_unknown"
    BY <1>3, <1>5, <2>2 DEF ReconcileFinalize
  <2>3. CASE DispatchFinalize(w)
    BY <1>3, <1>5, <2>3 DEF DispatchFinalize
  <2>. QED  BY <2>1, <2>2, <2>3
<1>7. /\ \A v \in Workers \ {w} : worker'[v] = worker[v]
      /\ worker'[w].pc \in {"idle", "dispatch"}
  <2>1. Rest(w, "idle") \/ Rest(w, "dispatch")
    BY DEF ReconcileFinalize, DispatchFinalize, Stop
  <2>. QED  BY <1>4, <2>1 DEF Rest, NoClaim
<1>8. ~Holds(w)' /\ worker'[w].pc # "d_valid"
  BY <1>7 DEF Holds, Reconciling, Dispatching
<1>. QED  BY <1>1, <1>2, <1>3, <1>6, <1>7, <1>8, ClaimMovesOn

LEMMA ClaimRecovered ==
    ASSUME BaseInv, ClaimInv, RecoverExpired PROVE ClaimInv'
<1>1. UNCHANGED <<now, mandate, revisedAt, proposal, decision, worker>>
  BY DEF RecoverExpired
<1>2. outbox \in [Proposals -> Row]
  BY DEF BaseInv, TypeOK, Row
<1>3. PICK p \in Proposals : Conclude(p, outbox[p].attempt, "ambiguous", "ambiguous", FALSE)
  BY DEF RecoverExpired
<1>4. /\ \A q \in Proposals : q # p => outbox'[q] = outbox[q]
      /\ outbox'[p].lease = 0 /\ outbox'[p].fencing = outbox[p].fencing
      /\ outbox[p].fencing \in Nat /\ outbox'[p].state = "ambiguous"
  BY <1>2, <1>3 DEF Conclude, Released, Row
<1>5. ASSUME NEW v \in Workers, worker[v].row = p PROVE ~ClaimMatches(v, {"claimed"})'
  <2>1. outbox'[worker'[v].row].state # "claimed"
    BY <1>1, <1>4, <1>5
  <2>. QED  BY <2>1 DEF ClaimMatches
<1>6. 0 <= now + LeaseDuration /\ outbox[p].fencing <= outbox[p].fencing
  BY <1>4 DEF BaseInv, TypeOK
<1>7. {} \in SUBSET Workers
  OBVIOUS
<1>. QED  BY <1>1, <1>4, <1>5, <1>6, <1>7, ClaimRowMoves

\* A step of OnlyMoves, a submission or the end of the process: only DispatchValidate newly
\* relies on the approval, and it has just read it.
LEMMA ClaimMemory ==
    ASSUME BaseInv, ClaimInv, NEW w \in Workers, OnlyMoves(w) \/ Submit(w) \/ End(w)
    PROVE  ClaimInv'
<1>1. worker \in [Workers -> Pass]
  BY DEF BaseInv, TypeOK, Pass
<1>2. /\ UNCHANGED <<now, mandate, revisedAt, proposal, decision, outbox>>
      /\ \A v \in Workers : v # w => worker'[v] = worker[v]
      /\ Holds(w)' => /\ Holds(w)
                      /\ worker'[w].row = worker[w].row
                      /\ worker'[w].attempt = worker[w].attempt
                      /\ worker'[w].fencing = worker[w].fencing
                      /\ worker'[w].lease = worker[w].lease
  <2>1. CASE OnlyMoves(w)
    BY <2>1, MoveFacts
  <2>2. CASE Submit(w)
    BY <1>1, <2>2 DEF Submit, GoTo, durable, Holds, Pass, Dispatching
  <2>3. CASE End(w)
    BY <1>1, <2>3 DEF End, Rest, NoClaim, durable, Holds, Reconciling, Dispatching
  <2>. QED  BY <2>1, <2>2, <2>3
<1>3. worker'[w].pc = "d_valid" => DispatchValidate(w)
  BY <1>1 DEF OnlyMoves, Scan, Visit, WakeEnds, WakeRaises, Restart, ReconcileNothing,
     ReconcileValidate, ReconcileAsk,
     ReconcileRecheck, DispatchNothing, DispatchValidate, ApplyReturns, GiveUp, Submit, End,
     GoTo, Hears, Stop, Rest, NoClaim, Pass
<1>4. LeasesArePast' /\ DecidedWereProposed' /\ AuthorizedAtClaim'
  BY <1>2 DEF ClaimInv, LeasesArePast, DecidedWereProposed, AuthorizedAtClaim
<1>5. TokensIssued'
  BY <1>2 DEF ClaimInv, TokensIssued, Holds
<1>6. ValidatedHeldAuthority'
  <2>. SUFFICES ASSUME NEW v \in Workers, worker'[v].pc = "d_valid", ClaimMatches(v, {"claimed"})'
       PROVE AuthorityHeld(worker[v].row)'
    BY DEF ValidatedHeldAuthority
  <2>1. PICK p \in Proposals : p = worker[v].row /\ worker'[v].row = p
    BY <1>2 DEF BaseInv, HoldsExistingRow, Holds, Dispatching
  <2>2. CASE v # w
    <3>1. worker[v].pc = "d_valid" /\ ClaimMatches(v, {"claimed"})
      BY <1>2, <2>2 DEF ClaimMatches
    <3>. QED  BY <1>2, <2>1, <3>1 DEF ClaimInv, ValidatedHeldAuthority, AuthorityHeld
  <2>3. CASE v = w
    <3>1. Authorized(p)
      BY <1>3, <2>1, <2>3 DEF DispatchValidate, ExactEffect
    <3>2. outbox[p].lease <= now + LeaseDuration
      BY DEF ClaimInv, LeasesArePast
    <3>3. /\ outbox[p].lease \in Nat /\ now \in Nat /\ decision[p].validUntil \in Nat
          /\ mandate \in Nat
      <4>1. outbox \in [Proposals -> Row] /\ now \in Nat /\ mandate \in Nat
        BY DEF BaseInv, TypeOK, Row
      <4>2. decision[p].validUntil \in Nat
        BY DEF BaseInv, TypeOK
      <4>. QED  BY <4>1, <4>2 DEF Row
    <3>4. AuthorityHeld(p)
      BY <3>1, <3>2, <3>3 DEF Authorized, AuthorityHeld
    <3>. QED  BY <1>2, <2>1, <3>4 DEF AuthorityHeld
  <2>. QED  BY <2>2, <2>3
<1>. QED  BY <1>4, <1>5, <1>6 DEF ClaimInv

\* A new mandate revision takes effect now, after every claim that was made.
LEMMA ClaimRevised ==
    ASSUME BaseInv, ClaimInv, ReviseMandate PROVE ClaimInv'
<1>1. UNCHANGED <<now, proposal, decision, outbox, worker>>
  BY DEF ReviseMandate
<1>2. LeasesArePast' /\ DecidedWereProposed'
  BY <1>1 DEF ClaimInv, LeasesArePast, DecidedWereProposed
<1>3. ASSUME NEW p \in Proposals, AuthorityHeld(p) PROVE AuthorityHeld(p)'
  <2>. DEFINE next == proposal[p].mandate + 1
  <2>1. /\ mandate \in 1..MaxMandate /\ revisedAt \in [1..MaxMandate -> Nat]
        /\ next \in Nat \ {0} /\ now \in Nat /\ outbox[p].lease \in Nat
        /\ mandate' = mandate + 1 /\ mandate < MaxMandate
        /\ revisedAt' = [revisedAt EXCEPT ![mandate + 1] = now]
    <3>1. /\ mandate \in 1..MaxMandate /\ revisedAt \in [1..MaxMandate -> Nat]
          /\ now \in Nat /\ outbox \in [Proposals -> Row]
      BY DEF BaseInv, TypeOK, Row
    <3>2. next \in Nat \ {0}
      BY DEF BaseInv, TypeOK
    <3>. QED  BY <3>1, <3>2 DEF ReviseMandate, Row
  <2>2. outbox[p].lease - LeaseDuration <= now
    BY <2>1 DEF ClaimInv, LeasesArePast
  <2>3. next <= mandate => revisedAt'[next] = revisedAt[next]
    BY <2>1
  <2>4. next = mandate + 1 => revisedAt'[next] = now
    BY <2>1
  <2>5. next <= mandate' => outbox[p].lease - LeaseDuration <= revisedAt'[next]
    BY <1>3, <2>1, <2>2, <2>3, <2>4 DEF AuthorityHeld
  <2>. QED  BY <1>1, <1>3, <2>5 DEF AuthorityHeld
<1>. QED  BY <1>1, <1>2, <1>3, ClaimStays DEF BaseInv

LEMMA ClaimDecided ==
    ASSUME BaseInv, RowsAreApproved, ClaimInv, NEW p \in Proposals, Approve(p) \/ Reject(p)
    PROVE  ClaimInv'
<1>1. /\ UNCHANGED <<now, mandate, revisedAt, proposal, worker>>
      /\ decision[p].choice = "none" /\ proposal[p].mandate # 0 /\ outbox[p].state = "absent"
  BY DEF Approve, Reject, Decidable, RowsAreApproved
<1>2. /\ outbox \in [Proposals -> Row] /\ now \in Nat
      /\ decision \in [Proposals -> [choice : {"none", "approve", "reject"}, validUntil : Nat]]
  BY DEF BaseInv, TypeOK, Row
<1>3. /\ \A q \in Proposals : q # p => decision'[q] = decision[q] /\ outbox'[q] = outbox[q]
      /\ outbox'[p].lease \in {0, outbox[p].lease}
      /\ outbox'[p].state \in {"absent", "pending"}
  <2>1. CASE Approve(p)
    BY <1>2, <2>1 DEF Approve, RecordDecision
  <2>2. CASE Reject(p)
    BY <1>1, <1>2, <2>2 DEF Reject, RecordDecision
  <2>. QED  BY <2>1, <2>2
<1>4. LeasesArePast'
  BY <1>1, <1>2, <1>3 DEF ClaimInv, LeasesArePast
<1>5. DecidedWereProposed'
  BY <1>1, <1>3 DEF ClaimInv, DecidedWereProposed
<1>6. ASSUME NEW v \in Workers, Holds(v) PROVE worker[v].row \in Proposals /\ worker[v].row # p
  BY <1>1, <1>6 DEF ClaimInv, TokensIssued, BaseInv, HoldsExistingRow, Holds
<1>7. \A v \in Workers : Holds(v)' <=> Holds(v)
  BY <1>1 DEF Holds
<1>8. TokensIssued'
  BY <1>1, <1>3, <1>6, <1>7 DEF ClaimInv, TokensIssued
<1>9. ValidatedHeldAuthority'
  <2>. SUFFICES ASSUME NEW v \in Workers, worker[v].pc = "d_valid", ClaimMatches(v, {"claimed"})'
       PROVE AuthorityHeld(worker[v].row)'
    BY <1>1 DEF ValidatedHeldAuthority
  <2>1. worker[v].row \in Proposals /\ worker[v].row # p
    BY <1>6 DEF Holds, Dispatching
  <2>2. ClaimMatches(v, {"claimed"})
    BY <1>1, <1>3, <2>1 DEF ClaimMatches
  <2>3. AuthorityHeld(worker[v].row)
    BY <2>2 DEF ClaimInv, ValidatedHeldAuthority
  <2>. QED  BY <1>1, <1>3, <2>1, <2>3 DEF AuthorityHeld
<1>10. AuthorizedAtClaim'
  <2>1. outbox'[p].state # "dispatching"
    BY <1>3
  <2>. QED  BY <1>1, <1>3, <2>1 DEF ClaimInv, AuthorizedAtClaim
<1>. QED  BY <1>4, <1>5, <1>8, <1>9, <1>10 DEF ClaimInv

LEMMA ClaimNext == BaseInv /\ RowsAreApproved /\ ClaimInv /\ [Next]_vars => ClaimInv'
<1>. SUFFICES ASSUME BaseInv, RowsAreApproved, ClaimInv, [Next]_vars PROVE ClaimInv'
  OBVIOUS
<1>1. ASSUME NEW p \in Proposals, Propose(p) PROVE ClaimInv'
  <2>1. /\ UNCHANGED <<now, mandate, revisedAt, decision, outbox, worker>>
        /\ proposal[p].mandate = 0
        /\ \A q \in Proposals : q # p => proposal'[q] = proposal[q]
        /\ proposal'[p].mandate = mandate /\ mandate # 0
    BY <1>1 DEF Propose, BaseInv, TypeOK
  <2>2. decision[p].choice = "none"
    BY <2>1 DEF ClaimInv, DecidedWereProposed
  <2>3. LeasesArePast' /\ DecidedWereProposed'
    BY <2>1 DEF ClaimInv, LeasesArePast, DecidedWereProposed
  <2>4. ASSUME NEW q \in Proposals, AuthorityHeld(q) PROVE AuthorityHeld(q)'
    BY <2>1, <2>2, <2>4 DEF AuthorityHeld
  <2>. QED  BY <2>1, <2>3, <2>4, ClaimStays DEF BaseInv
<1>2. ASSUME NEW p \in Proposals, Approve(p) \/ Reject(p) PROVE ClaimInv'
  BY <1>2, ClaimDecided
<1>3. CASE ReviseMandate
  BY <1>3, ClaimRevised
<1>4. ASSUME NEW w \in Workers, WorkerStep(w) PROVE ClaimInv'
  <2>1. CASE OnlyMoves(w) \/ Submit(w) \/ Terminate(w)
    BY <2>1, ClaimMemory DEF Terminate
  <2>2. CASE ReconcileClaim(w)
    <3>1. PICK p \in Proposals : Claim(w, p, "ambiguous_claimed", "r_claimed")
      BY <2>2 DEF ReconcileClaim, Oldest, Reconcilable, Claimable
    <3>. QED  BY <3>1, ClaimTaken DEF RowStates
  <2>3. CASE DispatchClaim(w)
    <3>1. PICK p \in Proposals : Claim(w, p, "claimed", "d_claimed")
      BY <2>3 DEF DispatchClaim, Oldest, Dispatchable, Claimable
    <3>. QED  BY <3>1, ClaimTaken DEF RowStates
  <2>4. CASE MarkStarted(w)
    BY <2>4, ClaimStarts
  <2>5. CASE ReconcileFinalize(w) \/ DispatchFinalize(w)
    BY <2>5, ClaimFinalizes
  <2>. QED  BY <1>4, <2>1, <2>2, <2>3, <2>4, <2>5 DEF WorkerStep, OnlyMoves
<1>5. ASSUME NEW w \in Workers, Visit(w) \/ WakeRaises(w) \/ Crash(w) PROVE ClaimInv'
  BY <1>5, ClaimMemory DEF OnlyMoves, Crash
<1>6. CASE RecoverExpired
  BY <1>6, ClaimRecovered
<1>7. CASE \/ Tick \/ UNCHANGED vars
           \/ \E p \in Proposals, n \in Attempts : ProviderExecutes(p, n) \/ ProviderRefuses(p, n)
  <2>1. UNCHANGED <<mandate, revisedAt, proposal, decision, outbox, worker>>
    BY <1>7 DEF Tick, vars, ProviderExecutes, ProviderRefuses, durable
  <2>2. now \in Nat /\ (now' = now \/ now' = now + 1)
    BY <1>7 DEF Tick, vars, ProviderExecutes, ProviderRefuses, BaseInv, TypeOK
  <2>3. \A p \in Proposals : outbox[p].lease \in Nat
    BY DEF BaseInv, TypeOK
  <2>4. LeasesArePast' /\ DecidedWereProposed'
    BY <2>1, <2>2, <2>3 DEF ClaimInv, LeasesArePast, DecidedWereProposed
  <2>5. \A p \in Proposals : AuthorityHeld(p) => AuthorityHeld(p)'
    BY <2>1 DEF AuthorityHeld
  <2>. QED  BY <2>1, <2>4, <2>5, ClaimStays DEF BaseInv
<1>. QED  BY <1>1, <1>2, <1>3, <1>4, <1>5, <1>6, <1>7 DEF Next

\* mark_dispatch_started, which looks at neither lease nor approval, starts only
\* what was authorised when its lease was taken: an approval may lapse and a
\* mandate be revised between the claim and the start, never before the claim.
\* With or without recover_expired.
THEOREM DispatchedUnderAuthority == Spec => []AuthorizedAtClaim
<1>1. Init => BaseInv /\ RowsAreApproved /\ ClaimInv
  BY BaseInit, ClaimInit DEF Init, RowsAreApproved, NoOutbox
<1>2. BaseInv /\ RowsAreApproved /\ ClaimInv /\ [Next]_vars
        => (BaseInv /\ RowsAreApproved /\ ClaimInv)'
  BY BaseNext, ApprovedNext, ClaimNext
<1>3. ClaimInv => AuthorizedAtClaim
  BY DEF ClaimInv
<1>. QED  BY <1>1, <1>2, <1>3, PTL DEF Spec

-----------------------------------------------------------------------------
(* The dispatch machinery implements the abstract promise                  *)

Terminal == {"completed", "terminal_failed"}

\* A step that leaves decisions, terminal rows and executions alone is invisible.
LEMMA SameVerdicts ==
    ASSUME UNCHANGED <<decision, executions>>,
           \A p \in Proposals : \/ outbox'[p].state = outbox[p].state
                                \/ outbox[p].state \notin Terminal /\ outbox'[p].state \notin Terminal
    PROVE  UNCHANGED Promise!vars
<1>1. \A p \in Proposals : Verdict(p)' = Verdict(p)
  BY DEF Verdict, Terminal
<1>. QED  BY <1>1 DEF Promise!vars

\* A row that becomes terminal is a truthful conclusion, by VerdictTruthful.
LEMMA RowConcludes ==
    ASSUME RowsAreApproved, VerdictTruthful', UNCHANGED <<decision, executions>>,
           NEW p \in Proposals, outbox[p].state \notin Terminal \cup {"absent"},
           \A q \in Proposals : q # p => outbox'[q] = outbox[q]
    PROVE  [Promise!Next]_(Promise!vars)
<1>. DEFINE verdict == [q \in Proposals |-> Verdict(q)]
<1>1. decision[p].choice = "approve"
  BY DEF RowsAreApproved
<1>2. verdict[p] = "approved" /\ verdict' = [q \in Proposals |-> Verdict(q)']
  BY <1>1 DEF Verdict, Terminal
<1>3. \A q \in Proposals : q # p => Verdict(q)' = Verdict(q)
  BY DEF Verdict
<1>4. CASE outbox'[p].state \notin Terminal
  BY <1>4, SameVerdicts
<1>5. CASE outbox'[p].state = "completed"
  <2>1. Verdict(p)' = "done" /\ executions[p] = 1
    BY <1>1, <1>5 DEF Verdict, VerdictTruthful
  <2>2. verdict' = [verdict EXCEPT ![p] = "done"]
    BY <1>2, <1>3, <2>1
  <2>. QED  BY <1>2, <2>1, <2>2 DEF Promise!Next, Promise!Conclude
<1>6. CASE outbox'[p].state = "terminal_failed"
  <2>1. Verdict(p)' = "failed" /\ executions[p] = 0
    BY <1>1, <1>6 DEF Verdict, VerdictTruthful
  <2>2. verdict' = [verdict EXCEPT ![p] = "failed"]
    BY <1>2, <1>3, <2>1
  <2>3. "failed" = IF executions[p] = 1 THEN "done" ELSE "failed"
    BY <2>1
  <2>. QED  BY <1>2, <2>2, <2>3 DEF Promise!Next, Promise!Conclude
<1>. QED  BY <1>4, <1>5, <1>6 DEF Terminal

LEMMA DecisionRefines ==
    ASSUME BaseInv, RowsAreApproved, NEW p \in Proposals, Approve(p) \/ Reject(p)
    PROVE  Promise!Decide(p)
<1>. DEFINE verdict == [q \in Proposals |-> Verdict(q)]
<1>1. /\ decision[p].choice = "none" /\ outbox[p].state = "absent"
      /\ UNCHANGED executions
  BY DEF Approve, Reject, Decidable, RowsAreApproved, external
<1>2. /\ \A q \in Proposals : q # p => decision'[q] = decision[q] /\ outbox'[q] = outbox[q]
      /\ \/ decision'[p].choice = "approve" /\ outbox'[p].state = "pending"
         \/ decision'[p].choice = "reject" /\ outbox'[p].state = "absent"
  <2>1. /\ decision \in [Proposals -> [choice : {"none", "approve", "reject"}, validUntil : Nat]]
        /\ outbox \in [Proposals -> Row]
    BY DEF BaseInv, TypeOK, Row
  <2>2. CASE Approve(p)
    BY <2>1, <2>2 DEF Approve, RecordDecision
  <2>3. CASE Reject(p)
    BY <1>1, <2>1, <2>3 DEF Reject, RecordDecision
  <2>. QED  BY <2>2, <2>3
<1>3. verdict[p] = "undecided"
  BY <1>1 DEF Verdict
<1>4. \A q \in Proposals : q # p => Verdict(q)' = Verdict(q)
  BY <1>2 DEF Verdict
<1>5. Verdict(p)' \in {"approved", "rejected"}
  <2>1. CASE decision'[p].choice = "approve" /\ outbox'[p].state = "pending"
    BY <2>1 DEF Verdict
  <2>2. CASE decision'[p].choice = "reject" /\ outbox'[p].state = "absent"
    BY <2>2 DEF Verdict
  <2>. QED  BY <1>2, <2>1, <2>2
<1>6. verdict' = [verdict EXCEPT ![p] = Verdict(p)']
  BY <1>4
<1>. QED  BY <1>1, <1>3, <1>5, <1>6 DEF Promise!Decide

LEMMA ExecutionRefines ==
    ASSUME BaseInv, RowsAreApproved, SendInv, NEW p \in Proposals, NEW n \in Attempts,
           ProviderExecutes(p, n)
    PROVE  Promise!CarryOut(p)
<1>1. /\ fate[p][n] = "inflight" /\ UNCHANGED <<decision, outbox>>
      /\ executions' = [executions EXCEPT ![p] = executions[p] + 1]
  BY DEF ProviderExecutes, durable
<1>2. /\ attempt[p][n] \in {"started", "ambiguous"}
      /\ \A m \in Attempts : m # n => fate[p][m] \in {"none", "refused"}
  BY <1>1, OneInFlight
<1>3. executions[p] = 0
  BY <1>1, <1>2 DEF SendInv, ExecutedOnce
<1>4. outbox[p].state # "absent" /\ outbox[p].state \notin Terminal
  <2>1. outbox[p].state # "absent"
    BY <1>2 DEF BaseInv, AttemptsAgree
  <2>2. VerdictTruthful
    BY SendInvImplies
  <2>. QED  BY <1>1, <2>1, <2>2 DEF VerdictTruthful, Terminal
<1>5. Verdict(p) = "approved"
  BY <1>4 DEF RowsAreApproved, Verdict, Terminal
<1>6. \A q \in Proposals : Verdict(q)' = Verdict(q)
  BY <1>1 DEF Verdict
<1>. QED  BY <1>1, <1>3, <1>5, <1>6 DEF Promise!CarryOut

LEMMA NextRefines ==
    ASSUME BaseInv, RowsAreApproved, SendInv, VerdictTruthful', [Next]_vars
    PROVE  [Promise!Next]_(Promise!vars)
<1>1. CASE UNCHANGED <<decision, outbox, executions>>
  BY <1>1, SameVerdicts
<1>2. ASSUME NEW p \in Proposals, Approve(p) \/ Reject(p) PROVE Promise!Next
  BY <1>2, DecisionRefines DEF Promise!Next
<1>3. ASSUME NEW p \in Proposals, NEW n \in Attempts, ProviderExecutes(p, n) PROVE Promise!Next
  BY <1>3, ExecutionRefines DEF Promise!Next
<1>4. ASSUME NEW p \in Proposals,
             Propose(p) \/ \E n \in Attempts : ProviderRefuses(p, n)
      PROVE  UNCHANGED <<decision, outbox, executions>>
  BY <1>4 DEF ProviderRefuses, Propose, durable, external
<1>5. CASE ReviseMandate \/ Tick \/ UNCHANGED vars
  BY <1>1, <1>5 DEF ReviseMandate, Tick, vars, durable, external
<1>6. ASSUME NEW w \in Workers, Visit(w) \/ WakeRaises(w) \/ Crash(w)
      PROVE  UNCHANGED <<decision, outbox, executions>>
  BY <1>6 DEF Visit, WakeRaises, Crash, End, OnlyWorker, durable, external
<1>7. ASSUME NEW w \in Workers, WorkerStep(w) PROVE [Promise!Next]_(Promise!vars)
  <2>1. CASE OnlyMoves(w) \/ Submit(w) \/ Terminate(w)
    <3>1. UNCHANGED <<decision, outbox, executions>>
      BY <2>1 DEF OnlyMoves, OnlyWorker, durable, external, Scan, Visit, WakeEnds, WakeRaises, Restart,
         ReconcileNothing, ReconcileValidate, ReconcileAsk, ReconcileRecheck, DispatchNothing,
         DispatchValidate, ApplyReturns, GiveUp, Submit, Terminate, End
    <3>. QED  BY <3>1, <1>1
  <2>2. ASSUME NEW p \in Proposals, NEW s \in {"claimed", "ambiguous_claimed"}, NEW pc,
               outbox[p].state \notin Terminal, Claim(w, p, s, pc)
        PROVE  UNCHANGED Promise!vars
    <3>1. /\ \A q \in Proposals : q # p => outbox'[q] = outbox[q]
          /\ outbox'[p].state = s /\ UNCHANGED <<decision, executions>>
      BY <2>2 DEF BaseInv, TypeOK, Claim, external
    <3>. QED  BY <2>2, <3>1, SameVerdicts DEF Terminal
  <2>3. CASE ReconcileClaim(w)
    <3>1. PICK p \in Proposals : /\ outbox[p].state \in {"ambiguous", "ambiguous_claimed"}
                                 /\ Claim(w, p, "ambiguous_claimed", "r_claimed")
      BY <2>3 DEF ReconcileClaim, Oldest, Reconcilable, Claimable
    <3>. QED  BY <3>1, <2>2 DEF Terminal
  <2>4. CASE DispatchClaim(w)
    <3>1. PICK p \in Proposals : /\ outbox[p].state \in {"pending", "retry", "claimed"}
                                 /\ Claim(w, p, "claimed", "d_claimed")
      BY <2>4 DEF DispatchClaim, Oldest, Dispatchable, Claimable
    <3>. QED  BY <3>1, <2>2 DEF Terminal
  <2>5. CASE MarkStarted(w) \/ ReconcileFinalize(w) \/ DispatchFinalize(w)
    <3>. DEFINE p == worker[w].row
    <3>1. /\ p \in Proposals /\ outbox[p].state \in {"claimed", "ambiguous_claimed", "dispatching"}
          /\ UNCHANGED <<decision, executions>>
      BY <2>5 DEF MarkStarted, ReconcileFinalize, DispatchFinalize, StartAccepted,
         ReconcileAccepted, FinalizeAccepted, ClaimMatches, BaseInv, HoldsExistingRow,
         Reconciling, Dispatching, external
    <3>2. \A q \in Proposals : q # p => outbox'[q] = outbox[q]
      BY <2>5 DEF BaseInv, TypeOK, MarkStarted, ReconcileFinalize, DispatchFinalize, Conclude
    <3>. QED  BY <3>1, <3>2, RowConcludes DEF Terminal
  <2>. QED
    BY <1>7, <2>1, <2>3, <2>4, <2>5 DEF WorkerStep, OnlyMoves
<1>8. CASE RecoverExpired
  <2>1. UNCHANGED <<decision, executions>>
    BY <1>8 DEF RecoverExpired, external
  <2>2. PICK p \in Proposals :
          /\ outbox[p].state = "dispatching"
          /\ outbox' = [outbox EXCEPT ![p] = Released(p, "ambiguous", outbox[p].attempt)]
    BY <1>8 DEF RecoverExpired, Conclude
  <2>3. /\ outbox'[p].state = "ambiguous"
        /\ \A q \in Proposals : q # p => outbox'[q] = outbox[q]
    BY <2>2 DEF BaseInv, TypeOK, Released
  <2>4. "ambiguous" \notin Terminal /\ "dispatching" \notin Terminal
    BY DEF Terminal
  <2>. QED  BY <2>1, <2>2, <2>3, <2>4, SameVerdicts
<1>. QED
  BY <1>1, <1>2, <1>3, <1>4, <1>5, <1>6, <1>7, <1>8 DEF Next

\* Claims, leases, fencing tokens, retries, reconciliation, recovery and crashes
\* implement the promise of module Effect.
THEOREM ImplementsPromise == ASSUME Punctual PROVE Spec => KeepsPromise
<1>1. Init => Promise!Init
  <2>. SUFFICES ASSUME Init PROVE Promise!Init
    OBVIOUS
  <2>1. \A p \in Proposals : Verdict(p) = "undecided"
    BY DEF Init, NoOutbox, Verdict
  <2>2. executions = [p \in Proposals |-> 0]
    BY DEF Init
  <2>. QED  BY <2>1, <2>2 DEF Promise!Init
<1>2. BaseInv /\ RowsAreApproved /\ SendInv /\ VerdictTruthful' /\ [Next]_vars
        => [Promise!Next]_(Promise!vars)
  BY NextRefines
<1>3. Spec => []VerdictTruthful
  BY VerdictsAreTruthful
<1>4. Spec => [](BaseInv /\ RowsAreApproved /\ SendInv)
  BY SendAlways
<1>. QED  BY <1>1, <1>2, <1>3, <1>4, PTL DEF Spec, KeepsPromise, Promise!Spec

=============================================================================
