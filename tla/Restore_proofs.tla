-------------------------- MODULE Restore_proofs ---------------------------
(***************************************************************************)
(* Proofs about Restore, for every set of services, of writers among them  *)
(* and of archive names.                                                   *)
(***************************************************************************)
EXTENDS Restore, TLAPS

\* A file that is not there holds nothing.
Grounded == (main.id = 0 => main = Absent) /\ (log.id = 0 => log = Absent)

\* As long as no restore met a service, those that run have the two files open
\* that lie at the paths.
Attached == ~careless =>
    \A w \in Writers :
        IF container[w] = "running"
        THEN /\ main.id # 0 /\ log.id # 0
             /\ opened[w] = [main |-> main.id, log |-> log.id]
        ELSE opened[w] = Closed

Quiet == ~careless /\ op.what = "restore" =>
    \A s \in Services : container[s] = "none"

\* Before the database is touched, all it holds is in the rollback archive.
RollbackKept == ~careless /\ op.what = "restore" =>
    (op.at \in {"saved", "dropped"} =>
        \E a \in archives : Live \subseteq a.holds)

LogGone == ~careless /\ op.what = "restore" =>
    (op.at \in {"dropped", "installed"} => log = Absent)

IInv ==
    /\ TypeOK
    /\ Grounded
    /\ Attached
    /\ Quiet
    /\ RollbackKept
    /\ LogGone
    /\ NothingLost
    /\ RestoredExactly

USE IdsAssumption, ServicesAssumption, BoundsAssumption

LEMMA Initially == Init => IInv
<1>. SUFFICES ASSUME Init PROVE IInv
  OBVIOUS
<1>1. TypeOK
  BY DEF Init, TypeOK, File, Absent, Closed, Operation, Idle
<1>2. Grounded /\ Attached /\ Quiet
  BY DEF Init, Grounded, Attached, Quiet, Idle
<1>3. RollbackKept /\ LogGone /\ NothingLost /\ RestoredExactly
  BY DEF Init, RollbackKept, LogGone, NothingLost, RestoredExactly, Idle
<1>. QED  BY <1>1, <1>2, <1>3 DEF IInv

-----------------------------------------------------------------------------
(* Types                                                                   *)

\* Files that are opened were there or are empty and new: a reader of the
\* database sees what it saw.
LEMMA Opened ==
    ASSUME TypeOK, Grounded, NEW started, Open(started)
    PROVE  /\ main' \in File /\ log' \in File
           /\ main'.id # 0 /\ log'.id # 0
           /\ opened' \in [Writers -> [main : {0} \cup Ids, log : {0} \cup Ids]]
           /\ careless' \in BOOLEAN
           /\ main'.holds = main.holds /\ log'.holds = log.holds
<1>1. /\ main' \in File /\ main'.id # 0 /\ main'.holds = main.holds
  <2>1. CASE main # Absent
    BY <2>1 DEF Open, TypeOK, Grounded
  <2>2. CASE main = Absent
    BY <2>2 DEF Open, Unused, File, Absent
  <2>. QED  BY <2>1, <2>2
<1>2. /\ log' \in File /\ log'.id # 0 /\ log'.holds = log.holds
  <2>1. CASE log # Absent
    BY <2>1 DEF Open, TypeOK, Grounded
  <2>2. CASE log = Absent
    BY <2>2 DEF Open, Unused, File, Absent
  <2>. QED  BY <2>1, <2>2
<1>3. opened' \in [Writers -> [main : {0} \cup Ids, log : {0} \cup Ids]]
  BY <1>1, <1>2 DEF Open, TypeOK, File
<1>4. careless' \in BOOLEAN
  BY DEF Open, TypeOK
<1>. QED  BY <1>1, <1>2, <1>3, <1>4

\* The types of the operation under way.
LEMMA Operations ==
    ASSUME TypeOK
    PROVE  /\ op # Idle => /\ op.what \in {"backup", "restore"}
                           /\ op.at \in {"begun", "saved", "dropped", "installed"}
                           /\ op.target \in Names
                           /\ op.at = "begun" => [op EXCEPT !.at = "saved"] \in Operation
           /\ op.what = "restore" => /\ op # Idle
                                     /\ op.source \in Names
                                     /\ [op EXCEPT !.at = "dropped"] \in Operation
                                     /\ [op EXCEPT !.at = "installed"] \in Operation
  BY DEF TypeOK, Operation, Idle

LEMMA TypeStep == ASSUME TypeOK, Grounded, Next PROVE TypeOK'
<1>1. CASE Up
  <2>1. Open(Writers \ Running)
    BY <1>1 DEF Up
  <2>. QED  BY <1>1, <2>1, Opened DEF Up, TypeOK, history, Archived
<1>2. CASE Down
  <2>1. main' \in File /\ log' \in File
    BY <1>2 DEF Down, StopAll, CloseFiles, database, TypeOK, File, Absent
  <2>. QED  BY <1>2, <2>1 DEF Down, StopAll, TypeOK, Archived, history, Closed
<1>3. ASSUME NEW s \in Services, Fail(s) PROVE TypeOK'
  BY <1>3 DEF Fail, TypeOK, Archived, history, database, Closed
<1>4. ASSUME NEW s \in Services, Restart(s) PROVE TypeOK'
  <2>1. Open({s} \cap Writers)
    BY <1>4 DEF Restart
  <2>. QED  BY <1>4, <2>1, Opened DEF Restart, TypeOK, history, Archived
<1>5. ASSUME NEW s \in Services, Commit(s) PROVE TypeOK'
  <2>1. log' \in File
    BY <1>5 DEF Commit, TypeOK, File
  <2>2. kept' \subseteq 0..commits' - 1
    BY <1>5 DEF Commit, TypeOK
  <2>. QED  BY <1>5, <2>1, <2>2 DEF Commit, TypeOK, Archived, stack
<1>6. ASSUME NEW s \in Services, Checkpoint(s) PROVE TypeOK'
  <2>1. main' \in File /\ log' \in File
    BY <1>6 DEF Checkpoint, TypeOK, File
  <2>. QED  BY <1>6, <2>1 DEF Checkpoint, TypeOK, Archived, stack, history
<1>7. ASSUME NEW n \in Names, BeginBackup(n) PROVE TypeOK'
  BY <1>7 DEF BeginBackup, TypeOK, Archived, stack, history, database, Operation, Idle
<1>8. ASSUME NEW n \in Names, Purge(n) PROVE TypeOK'
  BY <1>8 DEF Purge, TypeOK, Archived, File, Absent, Closed, Idle
<1>9. ASSUME NEW n \in Names, NEW r \in Names, BeginRestore(n, r) PROVE TypeOK'
  BY <1>9 DEF BeginRestore, TypeOK, Archived, stack, history, database, Operation, Idle
<1>10. CASE Save
  <2>1. op' \in Operation /\ op' # Idle /\ op'.target = op.target
    BY <1>10, Operations DEF Save, Idle
  <2>2. Live \in SUBSET Nat
    BY DEF Live, TypeOK, File
  <2>. DEFINE new == [name |-> op.target, holds |-> Live]
  <2>a. archives' = archives \cup {new} /\ new.name = op.target
    BY <1>10 DEF Save, Copy
  <2>b. \A a \in archives : a.name # op.target
    BY <1>10 DEF Save, Archived
  <2>c. new \in [name : Names, holds : SUBSET Nat]
    BY <1>10, <2>2, Operations DEF Save
  <2>. HIDE DEF new
  <2>3. /\ archives' \subseteq [name : Names, holds : SUBSET Nat]
        /\ \A a, b \in archives' : a.name = b.name => a = b
        /\ \E a \in archives' : a.name = op'.target
    BY <2>1, <2>a, <2>b, <2>c DEF TypeOK
  <2>. QED  BY <1>10, <2>1, <2>3 DEF Save, TypeOK, stack, history, database, Archived
<1>11. CASE DropSidecars
  <2>1. op' \in Operation /\ op' # Idle /\ op'.target = op.target
    BY <1>11, Operations DEF DropSidecars, Idle
  <2>. QED  BY <1>11, <2>1, Operations DEF DropSidecars, DropLog, TypeOK, Archived, stack, history,
               File, Absent
<1>12. CASE Replace
  <2>1. op' \in Operation /\ op' # Idle /\ op'.target = op.target
    BY <1>12, Operations DEF Replace, Idle
  <2>2. main' \in File
    BY <1>12 DEF Replace, Unused, TypeOK, File
  <2>. QED  BY <1>12, <2>1, <2>2, Operations DEF Replace, TypeOK, Archived, stack, history
<1>13. CASE End
  BY <1>13 DEF End, ReleaseLock, TypeOK, Archived, stack, history, database, Operation
<1>14. CASE Die
  <2>1. crashes' \in Nat /\ lock' = FALSE /\ op' = Idle /\ Idle \in Operation
    BY <1>14 DEF Die, ReleaseLock, TypeOK, Operation
  <2>. QED  BY <1>14, <2>1 DEF Die, TypeOK, Archived, stack, history, database
<1>15. CASE Kill
  BY <1>15 DEF Kill, TypeOK, Archived, stack, history, database, Operation
<1>16. CASE RemoveLock
  BY <1>16 DEF RemoveLock, TypeOK, Archived, stack, history, database
<1>17. CASE Signal
  <2>1. crashes' \in Nat /\ lock' = FALSE
    BY <1>17 DEF Signal, ReleaseLock, TypeOK
  <2>. QED  BY <1>17, <2>1 DEF Signal, TypeOK, Archived, stack, history, database
<1>. QED  BY <1>1, <1>2, <1>3, <1>4, <1>5, <1>6, <1>7, <1>8, <1>9, <1>10, <1>11,
             <1>12, <1>13, <1>14, <1>15, <1>16, <1>17 DEF Next

-----------------------------------------------------------------------------
(* What is kept                                                            *)

Safe == Grounded /\ Attached /\ Quiet /\ RollbackKept /\ LogGone
          /\ NothingLost /\ RestoredExactly

\* Steps of the commands that touch neither the files nor the services, and
\* leave a restore where it was or end it.
LEMMA Untouched ==
    ASSUME Safe, UNCHANGED <<database, archives, stack, history>>,
           careless' \in BOOLEAN, careless => careless',
           op' = op \/ op' = Idle
    PROVE  Safe'
<1>1. Grounded' /\ Attached'
  BY DEF Safe, Grounded, Attached, database, stack
<1>2. CASE op' = Idle
  <2>1. op'.what # "restore" /\ op' = Idle
    BY <1>2 DEF Idle
  <2>2. Quiet' /\ RollbackKept' /\ LogGone' /\ RestoredExactly'
    BY <2>1 DEF Quiet, RollbackKept, LogGone, RestoredExactly, Idle
  <2>3. NothingLost'
    BY DEF Safe, NothingLost, Live, database, history
  <2>. QED  BY <1>1, <2>2, <2>3 DEF Safe
<1>3. CASE op' = op
  <2>1. Live' = Live
    BY DEF Live, database
  <2>2. Quiet' /\ RollbackKept' /\ LogGone'
    BY <1>3, <2>1 DEF Safe, Quiet, RollbackKept, LogGone, database, stack
  <2>3. NothingLost' /\ RestoredExactly'
    BY <1>3, <2>1 DEF Safe, NothingLost, RestoredExactly, history
  <2>. QED  BY <1>1, <2>2, <2>3 DEF Safe
<1>. QED  BY <1>2, <1>3

\* Steps of the services that run, when no restore is under way (or it has
\* become the operator's fault): the database a reader sees may only grow.
LEMMA Served ==
    ASSUME TypeOK, Safe, Grounded', Attached', archives' = archives, op' = op,
           op.what # "restore" \/ careless',
           ~careless' => Live \subseteq Live' /\ kept' \subseteq kept \cup Live',
           careless => careless', careless' \in BOOLEAN
    PROVE  Safe'
<1>1. Quiet' /\ RollbackKept' /\ LogGone'
  BY DEF Quiet, RollbackKept, LogGone
<1>2. op # Idle /\ op.at = "installed" => op.what = "restore"
  BY DEF TypeOK, Operation, Idle
<1>3. RestoredExactly'
  BY <1>2 DEF RestoredExactly
<1>4. NothingLost'
  BY DEF Safe, NothingLost
<1>. QED  BY <1>1, <1>3, <1>4 DEF Safe

LEMMA SafeStep == ASSUME TypeOK, Safe, Next PROVE Safe'
<1>. USE DEF Safe
<1>1. CASE Up
  <2>1. Open(Writers \ Running) /\ op' = op /\ archives' = archives /\ kept' = kept
    BY <1>1 DEF Up, history
  <2>2. Live' = Live /\ Grounded'
    BY <2>1, Opened DEF Live, Grounded
  <2>3. Attached'
    <3>. SUFFICES ASSUME ~careless', NEW w \in Writers
                  PROVE  opened'[w] = [main |-> main'.id, log |-> log'.id]
      BY <1>1, <2>1, Opened DEF Attached, Up
    <3>1. CASE w \in Running
      <4>1. ~careless /\ container[w] = "running"
        BY <2>1, <3>1 DEF Open, Running
      <4>2. main.id # 0 /\ log.id # 0 /\ opened[w] = [main |-> main.id, log |-> log.id]
        BY <4>1 DEF Attached
      <4>3. main' = main /\ log' = log
        BY <2>1, <4>2 DEF Open, Absent
      <4>4. opened'[w] = opened[w]
        BY <2>1, <3>1 DEF Open
      <4>. QED  BY <4>2, <4>3, <4>4
    <3>2. CASE w \notin Running
      BY <2>1, <3>2 DEF Open
    <3>. QED  BY <3>1, <3>2
  <2>. QED  BY <2>1, <2>2, <2>3, Served, Opened DEF Open, TypeOK
<1>2. CASE Down
  <2>1. op' = op /\ archives' = archives /\ kept' = kept /\ careless' = careless
    BY <1>2 DEF Down, history
  <2>2. Live' = Live /\ Grounded'
    <3>1. CASE UNCHANGED database
      BY <3>1 DEF Live, Grounded, database
    <3>2. CASE ~UNCHANGED database
      <4>1. /\ main # Absent /\ log' = Absent
            /\ main' = [main EXCEPT !.holds = @ \cup log.holds]
        BY <1>2, <3>2 DEF Down, StopAll, CloseFiles, Settled
      <4>2. main'.id = main.id /\ main'.holds = main.holds \cup log.holds
        BY <4>1 DEF TypeOK, File
      <4>. QED  BY <4>1, <4>2 DEF Live, Grounded, Absent
    <3>. QED  BY <3>1, <3>2
  <2>3. Attached' /\ Quiet'
    BY <1>2 DEF Down, StopAll, Attached, Quiet
  <2>4. CASE op.what # "restore" \/ careless
    BY <2>1, <2>2, <2>3, <2>4, Served DEF TypeOK
  <2>5. CASE op.what = "restore" /\ ~careless
    <3>1. \A s \in Writers : opened[s] = Closed
      BY <2>5 DEF Quiet, Attached
    <3>2. UNCHANGED database
      BY <1>2, <3>1 DEF Down, StopAll, CloseFiles, Settled, Closed, Grounded
    <3>3. RollbackKept' /\ LogGone' /\ RestoredExactly' /\ NothingLost'
      BY <2>1, <2>2, <3>2 DEF RollbackKept, LogGone, RestoredExactly, NothingLost, database
    <3>. QED  BY <2>2, <2>3, <3>3
  <2>. QED  BY <2>4, <2>5
<1>3. ASSUME NEW s \in Services, Fail(s) PROVE Safe'
  <2>1. /\ op' = op /\ archives' = archives /\ kept' = kept /\ careless' = careless
        /\ main' = main /\ log' = log
    BY <1>3 DEF Fail, history, database
  <2>2. Live' = Live /\ Grounded'
    BY <2>1 DEF Live, Grounded
  <2>3. Attached'
    BY <1>3, <2>1 DEF Fail, Attached, TypeOK
  <2>4. op.what # "restore" \/ careless
    BY <1>3 DEF Fail, Running, Quiet
  <2>. QED  BY <2>1, <2>2, <2>3, <2>4, Served DEF TypeOK
<1>4. ASSUME NEW s \in Services, Restart(s) PROVE Safe'
  <2>1. Open({s} \cap Writers) /\ op' = op /\ archives' = archives /\ kept' = kept
    BY <1>4 DEF Restart, history
  <2>2. Live' = Live /\ Grounded'
    BY <2>1, Opened DEF Live, Grounded
  <2>3. Attached'
    <3>. SUFFICES ASSUME ~careless', NEW w \in Writers
                  PROVE  IF container'[w] = "running"
                         THEN opened'[w] = [main |-> main'.id, log |-> log'.id]
                         ELSE opened'[w] = Closed
      BY <2>1, Opened DEF Attached
    <3>1. CASE w = s
      BY <1>4, <2>1, <3>1 DEF Restart, Open, TypeOK
    <3>2. CASE w # s
      <4>1. container'[w] = container[w] /\ opened'[w] = opened[w] /\ ~careless
        BY <1>4, <2>1, <3>2 DEF Restart, Open, TypeOK
      <4>2. container[w] = "running" => main' = main /\ log' = log
        BY <2>1, <4>1 DEF Open, Attached, Absent
      <4>. QED  BY <4>1, <4>2 DEF Attached
    <3>. QED  BY <3>1, <3>2
  <2>. QED  BY <2>1, <2>2, <2>3, Served, Opened DEF Open, TypeOK
<1>5. ASSUME NEW s \in Services, Commit(s) PROVE Safe'
  <2>1. /\ op' = op /\ archives' = archives /\ careless' = careless /\ main' = main
        /\ container' = container /\ opened' = opened
        /\ kept' = kept \cup {commits} /\ s \in Writers /\ container[s] = "running"
    BY <1>5 DEF Commit, stack, Running
  <2>2. log' \in File /\ log'.id = log.id /\ (log = Absent => log' = Absent)
    BY <1>5 DEF Commit, TypeOK, File
  <2>3. Grounded' /\ Attached'
    BY <1>5, <2>1, <2>2 DEF Grounded, Attached, Commit
  <2>4. ~careless => Live \subseteq Live' /\ commits \in Live'
    BY <1>5, <2>1 DEF Commit, Attached, Live, Absent, TypeOK, File
  <2>5. op.what # "restore" \/ careless
    BY <2>1 DEF Quiet
  <2>. QED  BY <2>1, <2>3, <2>4, <2>5, Served DEF TypeOK
<1>6. ASSUME NEW s \in Services, Checkpoint(s) PROVE Safe'
  <2>1. /\ op' = op /\ archives' = archives /\ careless' = careless /\ kept' = kept
        /\ container' = container /\ opened' = opened
        /\ s \in Writers /\ container[s] = "running"
    BY <1>6 DEF Checkpoint, stack, Running, history
  <2>2. main'.id = main.id /\ log'.id = log.id
    BY <1>6 DEF Checkpoint, TypeOK, File
  <2>3. Grounded' /\ Attached'
    <3>1. main.id = 0 => main' = main
      BY <1>6 DEF Checkpoint, Grounded
    <3>2. log.id # 0
      BY <1>6 DEF Checkpoint, Grounded
    <3>3. Grounded'
      BY <2>2, <3>1, <3>2 DEF Grounded
    <3>4. Attached'
      BY <2>1, <2>2 DEF Attached
    <3>. QED  BY <3>3, <3>4
  <2>4. ~careless => Live \subseteq Live'
    BY <1>6, <2>1 DEF Checkpoint, Attached, Live, Absent, TypeOK, File
  <2>5. op.what # "restore" \/ careless
    BY <2>1 DEF Quiet
  <2>. QED  BY <2>1, <2>3, <2>4, <2>5, Served DEF TypeOK
<1>7. ASSUME NEW n \in Names, BeginBackup(n) PROVE Safe'
  <2>1. /\ UNCHANGED <<main, log, archives, container, opened, kept, careless>>
        /\ op' = [what |-> "backup", at |-> "begun", target |-> n]
    BY <1>7 DEF BeginBackup, database, stack, history
  <2>2. op'.what # "restore" /\ op'.at # "installed"
    BY <2>1
  <2>. QED  BY <2>1, <2>2 DEF Grounded, Attached, Quiet, RollbackKept, LogGone, NothingLost,
               RestoredExactly, Live
<1>8. ASSUME NEW n \in Names, Purge(n) PROVE Safe'
  BY <1>8 DEF Purge, Grounded, Attached, Quiet, RollbackKept, LogGone, NothingLost,
     RestoredExactly, Live, Absent, Idle, Closed
<1>9. ASSUME NEW n \in Names, NEW r \in Names, BeginRestore(n, r) PROVE Safe'
  <2>1. /\ UNCHANGED <<main, log, archives, container, opened, kept>>
        /\ op' = [what |-> "restore", at |-> "begun", source |-> n, target |-> r]
        /\ careless' = (careless \/ \E s \in Services : container[s] # "none")
    BY <1>9 DEF BeginRestore, database, stack, history
  <2>2. op'.at = "begun"
    BY <2>1
  <2>. QED  BY <2>1, <2>2 DEF Grounded, Attached, Quiet, RollbackKept, LogGone, NothingLost,
               RestoredExactly, Live
<1>10. CASE Save
  <2>1. /\ UNCHANGED <<main, log, container, opened, kept, careless>>
        /\ op' = [op EXCEPT !.at = "saved"] /\ op # Idle
        /\ archives' = archives \cup {[name |-> op.target, holds |-> Live]}
    BY <1>10 DEF Save, Copy, database, stack, history
  <2>2. op'.what = op.what /\ op'.at = "saved"
    BY <2>1 DEF TypeOK, Operation, Idle
  <2>3. Live' = Live
    BY <2>1 DEF Live
  <2>4. \E a \in archives' : Live \subseteq a.holds
    <3>. DEFINE new == [name |-> op.target, holds |-> Live]
    <3>1. new \in archives' /\ new.holds = Live
      BY <2>1
    <3>. HIDE DEF new
    <3>. QED  BY <3>1
  <2>5. Grounded' /\ Attached' /\ Quiet' /\ LogGone'
    BY <2>1, <2>2 DEF Grounded, Attached, Quiet, LogGone
  <2>6. RollbackKept' /\ RestoredExactly'
    BY <2>2, <2>3, <2>4 DEF RollbackKept, RestoredExactly
  <2>7. NothingLost'
    BY <2>1, <2>3 DEF NothingLost
  <2>. QED  BY <2>5, <2>6, <2>7
<1>11. CASE DropSidecars
  <2>1. /\ UNCHANGED <<main, archives, container, opened, kept, careless>>
        /\ op' = [op EXCEPT !.at = "dropped"] /\ op.what = "restore" /\ op.at = "saved"
        /\ log' = Absent
    BY <1>11 DEF DropSidecars, DropLog, stack, history
  <2>2. op'.what = "restore" /\ op'.at = "dropped"
    BY <2>1 DEF TypeOK, Operation, Idle
  <2>3. Live' \subseteq Live
    BY <2>1 DEF Live, Absent
  <2>4. Grounded' /\ Quiet' /\ LogGone' /\ RestoredExactly'
    BY <2>1, <2>2 DEF Grounded, Quiet, LogGone, RestoredExactly
  <2>5. Attached'
    BY <2>1 DEF Attached, Quiet
  <2>6. RollbackKept' /\ NothingLost'
    BY <2>1, <2>2, <2>3 DEF RollbackKept, NothingLost
  <2>. QED  BY <2>4, <2>5, <2>6
<1>12. CASE Replace
  <2>1. /\ UNCHANGED <<log, archives, container, opened, kept, careless>>
        /\ op' = [op EXCEPT !.at = "installed"] /\ op.what = "restore" /\ op.at = "dropped"
    BY <1>12 DEF Replace, stack, history
  <2>2. op'.what = "restore" /\ op'.at = "installed" /\ op'.source = op.source
    BY <2>1 DEF TypeOK, Operation, Idle
  <2>3. PICK id \in Unused, a \in archives :
            a.name = op.source /\ main' = [id |-> id, holds |-> a.holds]
    BY <1>12 DEF Replace
  <2>4. ~careless => Live' = a.holds
    BY <2>1, <2>3 DEF Live, LogGone, Absent
  <2>5. a = [name |-> op.source, holds |-> a.holds]
    BY <2>3 DEF TypeOK
  <2>6. Grounded' /\ Attached' /\ Quiet'
    BY <2>1, <2>2, <2>3 DEF Grounded, Attached, Quiet, Unused
  <2>7. LogGone' /\ RollbackKept' /\ RestoredExactly'
    BY <2>1, <2>2, <2>4, <2>5 DEF LogGone, RollbackKept, RestoredExactly
  <2>8. NothingLost'
    BY <2>1 DEF NothingLost, RollbackKept
  <2>. QED  BY <2>6, <2>7, <2>8
<1>13. CASE End
  BY <1>13, Untouched DEF End, TypeOK
<1>14. CASE Die
  BY <1>14, Untouched DEF Die, TypeOK
<1>15. CASE Kill
  BY <1>15, Untouched DEF Kill, TypeOK
<1>16. CASE RemoveLock
  BY <1>16, Untouched DEF RemoveLock, TypeOK
<1>17. CASE Signal
  BY <1>17, Untouched DEF Signal, TypeOK
<1>. QED  BY <1>1, <1>2, <1>3, <1>4, <1>5, <1>6, <1>7, <1>8, <1>9, <1>10, <1>11,
             <1>12, <1>13, <1>14, <1>15, <1>16, <1>17 DEF Next

-----------------------------------------------------------------------------
(* The theorems                                                            *)

LEMMA Invariance == Spec => []IInv
<1>1. IInv /\ [Next]_vars => IInv'
  <2>. SUFFICES ASSUME IInv, [Next]_vars PROVE IInv'
    OBVIOUS
  <2>1. TypeOK /\ Safe
    BY DEF IInv, Safe
  <2>2. CASE Next
    BY <2>1, <2>2, TypeStep, SafeStep DEF IInv, Safe
  <2>3. CASE UNCHANGED vars
    <3>1. Safe'
      BY <2>1, <2>3, Untouched DEF vars, database, stack, history, TypeOK
    <3>2. TypeOK'
      BY <2>1, <2>3 DEF vars, TypeOK, Archived
    <3>. QED  BY <3>1, <3>2 DEF IInv, Safe
  <2>. QED  BY <2>2, <2>3
<1>. QED  BY Initially, <1>1, PTL DEF Spec

\* Every variable of Restore has its type in every reachable state, and the
\* lock of dc outlives its command only after a process was ended by force.
THEOREM TypeCorrect == Spec => []TypeOK
<1>1. IInv => TypeOK
  BY DEF IInv
<1>. QED  BY Invariance, <1>1, PTL

\* No acknowledged transaction is lost by backups and restores, and by their
\* crashes, when the services were taken down first.
THEOREM NothingIsLost == Spec => []NothingLost
<1>1. IInv => NothingLost
  BY DEF IInv
<1>. QED  BY Invariance, <1>1, PTL

\* What restore_database installs is the archive it was given, and nothing of
\* what it replaced.
THEOREM RestoresTheArchive == Spec => []RestoredExactly
<1>1. IInv => RestoredExactly
  BY DEF IInv
<1>. QED  BY Invariance, <1>1, PTL
=============================================================================
