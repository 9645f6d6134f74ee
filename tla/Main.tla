--------------------------------- MODULE Main ---------------------------------
(***************************************************************************)
(* main.rs: the process either migrates recordings or serves, and then its *)
(* backend, the command router over Rumba and the race, gets jobs (module  *)
(* Backends, one job at a time; modules Racing and Server for the rest).   *)
(***************************************************************************)
EXTENDS Backends, Migration

VARIABLE command    \* the first argument

vars == <<command, jobVars, migrationVars>>

Init == \/ command = "serve" /\ BackendsInit(Jobs) /\ MigrationInit({<<>>})
        \/ command = "migrate-recordings" /\ BackendsInit({NoJob}) /\ MigrationInit(Trees)

Serve   == command = "serve" /\ BackendsNext /\ UNCHANGED <<command, migrationVars>>
Migrate == command = "migrate-recordings" /\ MigrationNext /\ UNCHANGED <<command, jobVars>>

\* The job is over; every run of the command is.
Finished == /\ at = "returned" \/ command = "migrate-recordings"
            /\ stage \in {"stopped", "reported"} /\ UNCHANGED vars

Next == Serve \/ Migrate \/ Finished

Spec     == Init /\ [][Next]_vars
FairSpec == Spec /\ BackendsFairness

\* The inductive invariant of both commands.
MainInv == /\ command = "serve" => BackendsInv
           /\ command # "serve" => result = NoResult
           /\ MigrationInv
==============================================================================
