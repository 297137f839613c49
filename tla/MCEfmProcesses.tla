----------------------------- MODULE MCEfmProcesses -----------------------------
(* Small instances of EfmProcesses for TLC. *)
EXTENDS EfmProcesses, TLC

CONSTANTS web, api, store, a, b

\* The database stands between two servers: a failure there stops the second.
WebStoreApi == <<web, store, api>>
\* Both servers are left on the default port.
OnePort == [n \in {web, api} |-> 8080]

TwoShells == Permutations({a, b})

\* What decides the pids, files and seeds of later commands: they see that a
\* process is there, not how far its server has come, nor how a command ended.
Running(phase) == IF phase \in {"booting", "serving", "stopping"} THEN "serving" ELSE phase
AsCommandsSee ==
  <<pidFile, db, [p \in Pids |-> [procs[p] EXCEPT !.phase = Running(@)]],
    [c \in Commands |-> [cmd[c] EXCEPT !.last = "none"]], ups, crashes>>
=================================================================================
