----------------------------- MODULE MCRestore ------------------------------
(* Restore for the model checker: interchangeable archive names and writers. *)
EXTENDS Restore, TLC

Alike == Permutations(Names) \cup Permutations(Writers)

\* Which identity a file has does not matter, only whether a service has the
\* file open that is at its path.
Seen(file) == IF file = Absent THEN {} ELSE {file.holds}
AtPath(s) == [main |-> opened[s].main = main.id, log |-> opened[s].log = log.id,
              none |-> opened[s] = Closed]
Lives == <<Seen(main), Seen(log), archives, container, [s \in Writers |-> AtPath(s)],
           lock, op, commits, kept, careless, crashes>>
=============================================================================
