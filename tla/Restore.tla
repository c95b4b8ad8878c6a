------------------------------ MODULE Restore ------------------------------
(***************************************************************************)
(* Backup and restore of the state database, with the script ./dc around   *)
(* them: operations/backup_restore.py copies a live database into an       *)
(* archive and replaces the database by an archive; dc starts and stops    *)
(* the services, holds one lock per managed root and looks whether the     *)
(* services run before it lets a restore begin.                            *)
(*                                                                         *)
(* A database is the set of transactions it holds.  On disk it is a main   *)
(* file and a write-ahead log beside it: a commit goes to the log, a       *)
(* checkpoint moves the log into the main file, and who opens the two      *)
(* files sees both.  A service keeps the files it opened, whatever is      *)
(* later put at their paths: files have identities, taken from Ids.        *)
(* The -shm file, which holds nothing of its own, the private staging file *)
(* and the temporary archive are left out, and so is a power failure:      *)
(* a crash here loses processes, not what they wrote.                      *)
(***************************************************************************)
EXTENDS Naturals, FiniteSets

CONSTANTS
    Services,       \* the services dc starts
    Writers,        \* those of them that open the database (api, worker)
    Names,          \* names of archives
    Ids,            \* identities of files
    MaxCommits,     \* bound: transactions
    MaxCrashes      \* bound: services that fail and commands that are killed

ASSUME ServicesAssumption == Writers \subseteq Services
ASSUME IdsAssumption == Ids \subseteq Nat \ {0}
ASSUME BoundsAssumption == MaxCommits \in Nat /\ MaxCrashes \in Nat

VARIABLES
    main,           \* state.sqlite: its identity and what it holds
    log,            \* state.sqlite-wal, likewise
    archives,       \* the archives: their names and what they hold
    container,      \* container[s]: "none", "exited" or "running"
    opened,         \* opened[s]: the files a running writer has open
    lock,           \* does the directory <managed root>.lock exist?
    op,             \* the backup or restore under way
    commits,        \* how many transactions were acknowledged so far
    kept,           \* history: acknowledged, and not purged on purpose
    careless,       \* history: a restore and a service's container coexisted
    crashes

vars == <<main, log, archives, container, opened, lock, op, commits, kept,
          careless, crashes>>
database == <<main, log>>
stack == <<container, opened>>
history == <<commits, kept>>

File == [id : {0} \cup Ids, holds : SUBSET Nat]
Absent == [id |-> 0, holds |-> {}]
Archived(n) == \E a \in archives : a.name = n
Idle == [what |-> "none"]
Operation ==
    {Idle}
      \cup [what : {"backup"}, at : {"begun", "saved"}, target : Names]
      \cup [what : {"restore"}, at : {"begun", "saved", "dropped", "installed"},
            source : Names, target : Names]

\* What a reader of the two files sees: the online copy of SQLite, too,
\* reads the log with the main file.
Live == main.holds \cup log.holds

\* Fault: the main file is copied alone.
MainAlone == main.holds

InUse == {main.id, log.id}
           \cup UNION {{opened[s].main, opened[s].log} : s \in Writers}
Unused == Ids \ InUse

Running == {s \in Services : container[s] = "running"}
Closed == [main |-> 0, log |-> 0]

Init ==
    /\ main = Absent
    /\ log = Absent
    /\ archives = {}
    /\ container = [s \in Services |-> "none"]
    /\ opened = [s \in Writers |-> Closed]
    /\ lock = FALSE
    /\ op = Idle
    /\ commits = 0
    /\ kept = {}
    /\ careless = FALSE
    /\ crashes = 0

-----------------------------------------------------------------------------
(* The services                                                            *)

\* Writers that start open what lies at the paths; the first creates it.
Open(started) ==
    /\ IF main # Absent THEN UNCHANGED main
       ELSE \E id \in Unused : main' = [id |-> id, holds |-> {}]
    /\ IF log # Absent THEN UNCHANGED log
       ELSE \E id \in Unused \ {main'.id} : log' = [id |-> id, holds |-> {}]
    /\ opened' = [s \in Writers |->
           IF s \in started THEN [main |-> main'.id, log |-> log'.id]
           ELSE opened[s]]
    /\ careless' = (careless \/ op.what = "restore")

\* dc up and quickstart: under the lock, every service that is not running.
Up ==
    /\ ~lock
    /\ Running # Services
    /\ container' = [s \in Services |-> "running"]
    /\ Open(Writers \ Running)
    /\ UNCHANGED <<archives, lock, op, history, crashes>>

\* A service exits without closing its files properly.
Fail(s) ==
    /\ s \in Running
    /\ crashes < MaxCrashes
    /\ crashes' = crashes + 1
    /\ container' = [container EXCEPT ![s] = "exited"]
    /\ opened' = [w \in Writers |-> IF w = s THEN Closed ELSE opened[w]]
    /\ UNCHANGED <<database, archives, lock, op, history, careless>>

\* restart: on-failure of the Compose file, which knows nothing of the lock.
Restart(s) ==
    /\ container[s] = "exited"
    /\ container' = [container EXCEPT ![s] = "running"]
    /\ Open({s} \cap Writers)
    /\ UNCHANGED <<archives, lock, op, history, crashes>>

\* The log that is at its path and belongs to the main file that is at its
\* path is written back and removed when its last writer closes.
Settled(s) == main # Absent /\ log # Absent
                /\ opened[s] = [main |-> main.id, log |-> log.id]

CloseFiles ==
    \/ UNCHANGED database
    \/ /\ \E s \in Writers : Settled(s)
       /\ main' = [main EXCEPT !.holds = @ \cup log.holds]
       /\ log' = Absent

StopAll ==
    /\ CloseFiles
    /\ container' = [s \in Services |-> "none"]
    /\ opened' = [s \in Writers |-> Closed]

\* dc down, and dc uninstall that keeps the data.
Down ==
    /\ ~lock
    /\ StopAll
    /\ UNCHANGED <<archives, lock, op, history, careless, crashes>>

\* A service commits a transaction: into the log it has open.
Commit(s) ==
    /\ s \in Writers \cap Running
    /\ commits < MaxCommits
    /\ commits' = commits + 1
    /\ kept' = kept \cup {commits}
    /\ log' = IF log # Absent /\ opened[s].log = log.id
              THEN [log EXCEPT !.holds = @ \cup {commits}] ELSE log
    /\ UNCHANGED <<main, archives, stack, lock, op, careless, crashes>>

\* SQLite moves the log into the main file the service has open.
Checkpoint(s) ==
    /\ s \in Writers \cap Running
    /\ log # Absent
    /\ opened[s].log = log.id
    /\ log.holds # {}
    /\ log' = [log EXCEPT !.holds = {}]
    /\ main' = IF main # Absent /\ opened[s].main = main.id
               THEN [main EXCEPT !.holds = @ \cup log.holds] ELSE main
    /\ UNCHANGED <<archives, stack, lock, op, history, careless, crashes>>

-----------------------------------------------------------------------------
(* dc backup, dc restore, dc uninstall --purge-data                        *)

\* managed_stack_running: whether all of them run, not whether any does.
ManagedStackRunning == Running = Services

BeginBackup(n) ==
    /\ ~lock
    /\ op = Idle
    /\ main # Absent
    /\ lock' = TRUE
    /\ op' = [what |-> "backup", at |-> "begun", target |-> n]
    /\ UNCHANGED <<database, archives, stack, history, careless, crashes>>

\* restore_database refuses one archive in both parts, and the replacement
\* that dc always asks for when there is no database to replace.
BeginRestore(n, r) ==
    /\ ~lock
    /\ op = Idle
    /\ ~ManagedStackRunning
    /\ Archived(n)
    /\ main # Absent
    /\ n # r
    /\ lock' = TRUE
    /\ op' = [what |-> "restore", at |-> "begun", source |-> n, target |-> r]
    /\ careless' = (careless \/ \E s \in Services : container[s] # "none")
    /\ UNCHANGED <<database, archives, stack, history, crashes>>

\* backup_database, of a backup or for the rollback of a restore: a copy
\* taken by SQLite, linked to a name that must be free.
Copy == Live

Save ==
    /\ op # Idle
    /\ op.at = "begun"
    /\ ~Archived(op.target)
    /\ archives' = archives \cup {[name |-> op.target, holds |-> Copy]}
    /\ op' = [op EXCEPT !.at = "saved"]
    /\ UNCHANGED <<database, stack, lock, history, careless, crashes>>

\* Fault: the files beside the database are forgotten.
LeavesLog == log' = log

\* What becomes of the log before the main file is replaced.
DropLog == log' = Absent

DropSidecars ==
    /\ op.what = "restore"
    /\ op.at = "saved"
    /\ DropLog
    /\ op' = [op EXCEPT !.at = "dropped"]
    /\ UNCHANGED <<main, archives, stack, lock, history, careless, crashes>>

\* os.replace puts the staged copy of the archive at the path of the main
\* file.  An archive never changes, so what was staged is what it holds.
Replace ==
    /\ op.what = "restore"
    /\ op.at = "dropped"
    /\ \E id \in Unused, a \in archives :
           a.name = op.source /\ main' = [id |-> id, holds |-> a.holds]
    /\ op' = [op EXCEPT !.at = "installed"]
    /\ UNCHANGED <<log, archives, stack, lock, history, careless, crashes>>

\* Fault: the lock is removed only by hand.
LeavesLocked == lock' = lock

\* The script's EXIT trap.
ReleaseLock == lock' = FALSE

\* The command ends: done, refused because its target exists, or because its
\* Python process died at any step.
Complete ==
    \/ op.what = "backup" /\ op.at = "saved"
    \/ op.what = "restore" /\ op.at = "installed"

Refused == op # Idle /\ op.at = "begun" /\ Archived(op.target)

End ==
    /\ Complete \/ Refused
    /\ op' = Idle
    /\ ReleaseLock
    /\ UNCHANGED <<database, archives, stack, history, careless, crashes>>

Die ==
    /\ op # Idle
    /\ crashes < MaxCrashes
    /\ crashes' = crashes + 1
    /\ op' = Idle
    /\ ReleaseLock
    /\ UNCHANGED <<database, archives, stack, history, careless>>

\* The script itself is killed with it: its lock stays until someone removes
\* the directory by hand.
Kill ==
    /\ op # Idle
    /\ crashes < MaxCrashes
    /\ crashes' = crashes + 1
    /\ op' = Idle
    /\ UNCHANGED <<database, archives, stack, lock, history, careless>>

RemoveLock ==
    /\ lock
    /\ op = Idle
    /\ lock' = FALSE
    /\ UNCHANGED <<database, archives, stack, op, history, careless, crashes>>

\* The trap for HUP, INT and TERM removes the lock too, and does not exit:
\* one that comes before the Python command starts takes the lock away from a
\* script that goes on.  (That a second command then begins beside the first
\* is not modelled; services that start are.)
Signal ==
    /\ op # Idle
    /\ op.at = "begun"
    /\ lock
    /\ crashes < MaxCrashes
    /\ crashes' = crashes + 1
    /\ ReleaseLock
    /\ UNCHANGED <<database, archives, stack, op, history, careless>>

\* uninstall --purge-data: asks for a backup that verifies, and deletes the
\* managed root, the backup included.
Purge(n) ==
    /\ ~lock
    /\ op = Idle
    /\ Archived(n)
    /\ main' = Absent
    /\ log' = Absent
    /\ archives' = {}
    /\ container' = [s \in Services |-> "none"]
    /\ opened' = [s \in Writers |-> Closed]
    /\ kept' = {}
    /\ UNCHANGED <<lock, op, commits, careless, crashes>>

Next ==
    \/ Up
    \/ Down
    \/ \E s \in Services : Fail(s) \/ Restart(s) \/ Commit(s) \/ Checkpoint(s)
    \/ \E n \in Names : BeginBackup(n) \/ Purge(n)
    \/ \E n, r \in Names : BeginRestore(n, r)
    \/ Save
    \/ DropSidecars
    \/ Replace
    \/ End
    \/ Die
    \/ Kill
    \/ RemoveLock
    \/ Signal

Spec == Init /\ [][Next]_vars

-----------------------------------------------------------------------------
(* What the operator is promised                                           *)

\* Every variable has its type; no name has two archives and the one an
\* operation has made exists; and as long as no process was ended by force, no
\* command that ended or was refused has left its lock (the EXIT trap of dc).
TypeOK ==
    /\ main \in File
    /\ log \in File
    /\ archives \subseteq [name : Names, holds : SUBSET Nat]
    /\ \A a, b \in archives : a.name = b.name => a = b
    /\ container \in [Services -> {"none", "exited", "running"}]
    /\ opened \in [Writers -> [main : {0} \cup Ids, log : {0} \cup Ids]]
    /\ lock \in BOOLEAN
    /\ op \in Operation
    /\ commits \in Nat
    /\ kept \subseteq 0..commits - 1
    /\ careless \in BOOLEAN
    /\ crashes \in Nat
    /\ op # Idle /\ op.at # "begun" => Archived(op.target)
    /\ lock /\ op = Idle => crashes > 0

\* When no restore was ever begun beside a service's container, as the
\* operations guide asks (dc down first), no acknowledged transaction is lost
\* at any moment, whichever step of a backup or of a restore its process dies
\* at: the database holds it, or an archive does.
NothingLost ==
    ~careless =>
        \A t \in kept : \/ t \in Live
                        \/ \E a \in archives : t \in a.holds

\* And what a restore has installed is its archive, neither less nor with
\* anything of the database it replaced, whatever log a service that died had
\* left beside that.
RestoredExactly ==
    ~careless /\ op # Idle /\ op.at = "installed" =>
        [name |-> op.source, holds |-> Live] \in archives
=============================================================================
