------------------------------- MODULE Backends -------------------------------
(***************************************************************************)
(* One job on one backend of crates/smt-server, with the threads the       *)
(* backend starts for it: z3_backend.rs and its watcher, which interrupts  *)
(* the Z3 context; qfbvsmtrs_backend.rs, which polls a worker thread;      *)
(* binbit_backend.rs, which solves in time slices; rumba_backend.rs; and   *)
(* command_router.rs, which chooses.  A racing loser is a job whose        *)
(* SolveContext is cancelled; a job called without one has no token.       *)
(*                                                                         *)
(* A query is what its models give the target: a set of values, empty if   *)
(* it is unsatisfiable, and a value is the set of its one bits.  The       *)
(* solvers behind the adapters are external: they answer truthfully, give  *)
(* up, or never answer.                                                    *)
(***************************************************************************)
EXTENDS Integers

CONSTANTS Width,     \* width of the optimization target
          Queries    \* the queries: sets of target values

Bits == 0 .. Width - 1

ASSUME BackendsAssumption ==
  Width \in Nat \ {0} /\ Queries \subseteq SUBSET SUBSET Bits

Optimizing == {"Minimize", "Maximize"}
Commands   == {"Solve", "Simplify"} \cup Optimizing
Solvers    == {"z3", "binbit", "qfbvsmtrs"}

VARIABLES job,        \* [backend, command, signed, budget, context, models]
          cancelled,  \* the job's CancellationToken
          expired,    \* the job's own deadline has passed
          at,         \* where the job's thread is
          bit,        \* Z3: bits of the optimum still to decide, Width + 1 before the first check
          optimum,    \* Z3: of the bits decided so far, the ones
          running,    \* Z3, binbit: a check is running
          watcher,    \* Z3: the watcher thread
          interrupted,\* Z3: the context has been interrupted
          dropped,    \* Z3: the interrupt came while nothing ran, and was lost
          worker,     \* qfbvsmtrs: the worker thread, or what it returned
          stopWorker, \* qfbvsmtrs: the worker's own CancellationToken
          result      \* what the backend returned

given   == <<job, cancelled, expired>>
z3Vars  == <<bit, optimum, watcher, interrupted, dropped>>
qfbvVars == <<worker, stopWorker>>
jobVars == <<given, at, running, z3Vars, qfbvVars, result>>

NoResult == [status |-> "none"]
Unknown  == [status |-> "Unknown"]
Sat      == [status |-> "Sat"]
Unsat    == [status |-> "Unsat"]
Simplified == [status |-> "Simplified"]
Failed     == [status |-> "Err"]
Optimal(v) == [status |-> "Optimal", optimum |-> v]

\* CommandRouterBackend: SIMPLIFY goes to Rumba, the rest to the solvers.
Routed(command) == IF command = "Simplify" THEN {"rumba"} ELSE Solvers

Jobs == {j \in [backend : Solvers \cup {"rumba"}, command : Commands, signed : BOOLEAN,
                budget : BOOLEAN, context : BOOLEAN, models : Queries] :
           /\ j.backend \in Routed(j.command)
           /\ j.signed => j.command \in Optimizing}

NoJob == [backend |-> "none", command |-> "none", signed |-> FALSE, budget |-> FALSE,
          context |-> FALSE, models |-> {}]

BackendsInit(jobs) ==
  /\ job \in jobs /\ cancelled = FALSE /\ expired = FALSE
  /\ at = "start" /\ bit = Width + 1 /\ optimum = {} /\ running = FALSE
  /\ watcher = "none" /\ interrupted = FALSE /\ dropped = FALSE
  /\ worker = NoResult /\ stopWorker = FALSE /\ result = NoResult

\* The race cancels its losers; a job's deadline passes.
Cancel == /\ job.context /\ ~ cancelled /\ cancelled' = TRUE
          /\ UNCHANGED <<job, expired, at, z3Vars, running, qfbvVars, result>>
Expire == /\ job.budget /\ at # "start" /\ ~ expired /\ expired' = TRUE
          /\ UNCHANGED <<job, cancelled, at, z3Vars, running, qfbvVars, result>>

Return(r) == at' = "returned" /\ result' = r
Truth     == IF job.models = {} THEN Unsat ELSE Sat

\* Unsigned order: at the highest bit where they differ, v has the one.  In
\* two's complement the sign bit counts the other way.
Less(u, v)  == \E k \in Bits : /\ k \in v /\ k \notin u
                               /\ \A j \in Bits : j > k => (j \in u <=> j \in v)
Inverted(v) == IF Width - 1 \in v THEN v \ {Width - 1} ELSE v \cup {Width - 1}
Below(j, u, v) == IF j.signed THEN Less(Inverted(u), Inverted(v)) ELSE Less(u, v)

\* The best value of the target: what an optimization must return.
Better(j, u, v) == IF j.command = "Minimize" THEN Below(j, u, v) ELSE Below(j, v, u)
IsBest(j, v)    == v \in j.models /\ \A u \in j.models : ~ Better(j, u, v)

\* handle_with_context of every backend: a job cancelled before it starts.
CancelledBeforeStart ==
  /\ at = "start" /\ job.context /\ cancelled
  /\ Return(Unknown)
  /\ UNCHANGED <<given, z3Vars, running, qfbvVars>>

\* RumbaBackend::handle: a simplification, or the identity where it fails.
\* Once it has started it looks neither at its token nor at its deadline.
RumbaStart ==
  /\ at = "start" /\ job.backend = "rumba" /\ at' = "rumba"
  /\ UNCHANGED <<given, z3Vars, running, qfbvVars, result>>

RumbaAnswers ==
  /\ at = "rumba"
  /\ Return(Simplified)
  /\ UNCHANGED <<given, z3Vars, running, qfbvVars>>

------------------------------------------------------------------------------
(* Z3: the checks run on the job's thread, the watcher on its own.         *)

Z3Start ==
  /\ at = "start" /\ job.backend = "z3"
  /\ at' = "z3" /\ watcher' = IF job.context THEN "watching" ELSE "none"
  /\ UNCHANGED <<given, bit, optimum, running, interrupted, dropped, qfbvVars, result>>

\* The assertions, the assumptions and the bits fixed so far.
Same(u, v, low) == \A k \in Bits : k >= low => (k \in u <=> k \in v)

\* The values a check asks for: at Width + 1 and at 0 any, else the preferred
\* value of the highest bit that is left.
PreferOne(j, k) == IF j.signed /\ k = Width - 1 THEN j.command = "Minimize" ELSE j.command = "Maximize"
prefer_one      == PreferOne(job, bit - 1)
Asked == {v \in job.models :
            \/ bit = Width + 1
            \/ bit = 0 /\ v = optimum
            \/ bit \in 1 .. Width /\ Same(v, optimum, bit) /\ (bit - 1 \in v) = prefer_one}

\* check_assumptions_with_deadline: past the deadline nothing is checked.
Z3Check ==
  /\ at = "z3" /\ ~ running
  /\ IF expired THEN at' = "z3 done" /\ result' = Unknown /\ UNCHANGED running
     ELSE running' = TRUE /\ UNCHANGED <<at, result>>
  /\ UNCHANGED <<given, z3Vars, qfbvVars>>

Finish(r) == at' = "z3 done" /\ result' = r /\ UNCHANGED <<bit, optimum>>

\* Mutant of Decide: a bit the query refuses is not set.
DecideOne(one) == /\ bit' = bit - 1 /\ optimum' = IF one /\ prefer_one THEN optimum \cup {bit - 1} ELSE optimum
                  /\ UNCHANGED <<at, result>>

\* The highest open bit takes the preferred value if the query allows it.
Decide(allowed) ==
  /\ bit' = bit - 1
  /\ optimum' = IF allowed = prefer_one THEN optimum \cup {bit - 1} ELSE optimum
  /\ UNCHANGED <<at, result>>

Z3Answers ==
  /\ at = "z3" /\ running /\ running' = FALSE
  /\ \/ job.command = "Solve" /\ Finish(Truth)
     \/ /\ job.command # "Solve" /\ bit = Width + 1 /\ Asked # {}
        /\ bit' = Width /\ UNCHANGED <<at, result, optimum>>
     \/ job.command # "Solve" /\ bit \in 1 .. Width /\ Decide(Asked # {})
     \/ job.command # "Solve" /\ bit = 0 /\ Asked # {} /\ Finish(Optimal(optimum))
     \/ job.command # "Solve" /\ bit \in {0, Width + 1} /\ Asked = {} /\ Finish(Unsat)
  /\ UNCHANGED <<given, watcher, interrupted, dropped, qfbvVars>>

\* Interrupted, out of time, or incomplete.
Z3GivesUp ==
  /\ at = "z3" /\ running /\ running' = FALSE
  /\ Finish(Unknown)
  /\ UNCHANGED <<given, watcher, interrupted, dropped, qfbvVars>>

\* The watcher interrupts once and ends.  An interrupt between two checks may
\* stop the next one or be lost.
WatcherInterrupts ==
  /\ watcher = "watching" /\ at # "returned" /\ cancelled
  /\ watcher' = "ended"
  /\ IF running THEN interrupted' = TRUE /\ UNCHANGED dropped
     ELSE interrupted' \in BOOLEAN /\ dropped' = (at = "z3" /\ ~ interrupted')
  /\ UNCHANGED <<given, at, bit, optimum, running, qfbvVars, result>>

\* done is set: the watcher ends, and the scope is left.
WatcherDone ==
  /\ watcher = "watching" /\ at = "z3 done"
  /\ watcher' = "ended"
  /\ UNCHANGED <<given, at, bit, optimum, running, interrupted, dropped, qfbvVars, result>>

Z3Return ==
  /\ at = "z3 done" /\ watcher # "watching"
  /\ at' = "returned"
  /\ UNCHANGED <<given, z3Vars, running, qfbvVars, result>>

------------------------------------------------------------------------------
(* binbit: with a context, time slices between looks at the token.         *)

\* An optimization has no slices: refused with a context or a budget.
BinbitRefuses ==
  /\ at = "start" /\ job.backend = "binbit" /\ job.command \in Optimizing
  /\ job.context \/ job.budget
  /\ Return(Unknown)
  /\ UNCHANGED <<given, z3Vars, running, qfbvVars>>

BinbitStart ==
  /\ at = "start" /\ job.backend = "binbit"
  /\ job.command \in Optimizing => ~ job.context /\ ~ job.budget
  /\ at' = "binbit"
  /\ UNCHANGED <<given, z3Vars, running, qfbvVars, result>>

\* solve_binbit, and before it the translation and the assertions, which look
\* at the token too.
BinbitLook ==
  /\ at = "binbit" /\ ~ running
  /\ IF job.context /\ (cancelled \/ expired) THEN Return(Unknown) /\ UNCHANGED running
     ELSE running' = TRUE /\ UNCHANGED <<at, result>>
  /\ UNCHANGED <<given, z3Vars, qfbvVars>>

BinbitAnswers ==
  /\ at = "binbit" /\ running /\ running' = FALSE
  /\ IF job.command = "Solve" THEN Return(Truth)
     ELSE IF job.models = {} THEN Return(Unsat)
     ELSE \E v \in job.models : IsBest(job, v) /\ Return(Optimal(v))
  /\ UNCHANGED <<given, z3Vars, qfbvVars>>

\* A slice ends without an answer.  Without a context the only slice is the budget.
BinbitSliceEnds ==
  /\ at = "binbit" /\ running /\ running' = FALSE
  /\ \/ job.context /\ UNCHANGED <<at, result>>
     \/ ~ job.context /\ job.budget /\ expired /\ Return(Unknown)
  /\ UNCHANGED <<given, z3Vars, qfbvVars>>

------------------------------------------------------------------------------
(* qfbvsmtrs: a worker thread, and a loop that polls it.                   *)

QfbvStart ==
  /\ at = "start" /\ job.backend = "qfbvsmtrs"
  /\ at' = "polling" /\ worker' = [status |-> "running"]
  /\ UNCHANGED <<given, z3Vars, running, stopWorker, result>>

\* spawn_worker: the thread cannot be created.
QfbvNoThread ==
  /\ at = "start" /\ job.backend = "qfbvsmtrs"
  /\ Return(Failed)
  /\ UNCHANGED <<given, z3Vars, running, qfbvVars>>

\* Mutant of PollCancel: the token is looked at only before the worker starts.
PollNothing == at = "polling" /\ at = "start" /\ UNCHANGED jobVars

PollCancel ==
  /\ at = "polling" /\ worker.status = "running" /\ job.context /\ cancelled /\ ~ stopWorker
  /\ stopWorker' = TRUE
  /\ UNCHANGED <<given, at, z3Vars, running, worker, result>>

\* solve_on_worker (module QfbvSolver): the truth, the best value, or Unknown
\* for limits, errors, its deadline or its token; a panic is Unknown as well.
WorkerAnswers ==
  /\ worker.status = "running"
  /\ IF job.models = {} THEN worker' = Unsat
     ELSE IF job.command = "Solve" THEN worker' = Sat
     ELSE \E v \in job.models : IsBest(job, v) /\ worker' = Optimal(v)
  /\ UNCHANGED <<given, at, z3Vars, running, stopWorker, result>>

WorkerGivesUp ==
  /\ worker.status = "running" /\ worker' = Unknown
  /\ UNCHANGED <<given, at, z3Vars, running, stopWorker, result>>

Join ==
  /\ at = "polling" /\ worker.status # "running"
  /\ Return(worker)
  /\ UNCHANGED <<given, z3Vars, running, qfbvVars>>

------------------------------------------------------------------------------
Adapter == \/ CancelledBeforeStart \/ RumbaStart
           \/ Z3Start \/ Z3Check \/ Z3Return \/ WatcherInterrupts \/ WatcherDone
           \/ BinbitRefuses \/ BinbitStart \/ BinbitLook
           \/ QfbvStart \/ QfbvNoThread \/ PollCancel \/ Join

BackendsNext == \/ Cancel \/ Expire \/ Adapter \/ RumbaAnswers
                \/ Z3Answers \/ Z3GivesUp \/ BinbitAnswers \/ BinbitSliceEnds \/ WorkerAnswers \/ WorkerGivesUp

\* The threads are scheduled.  The solvers owe an answer only when they are
\* told to stop: Z3 when its context is interrupted or its timeout passes,
\* binbit at the end of a slice, the worker at its next look at its token or
\* deadline.  Rumba is never told, and owes nothing.
BackendsFairness ==
  /\ WF_jobVars(CancelledBeforeStart \/ RumbaStart \/ Z3Start \/ BinbitRefuses \/ BinbitStart
             \/ QfbvStart \/ QfbvNoThread)
  /\ WF_jobVars(Z3Check) /\ WF_jobVars(Z3Return)
  /\ WF_jobVars(WatcherInterrupts \/ WatcherDone)
  /\ WF_jobVars(BinbitLook) /\ WF_jobVars(PollCancel) /\ WF_jobVars(Join)
  /\ WF_jobVars((interrupted \/ expired) /\ Z3GivesUp)
  /\ WF_jobVars(BinbitSliceEnds)
  /\ WF_jobVars((stopWorker \/ expired) /\ WorkerGivesUp)

------------------------------------------------------------------------------
\* Whenever the cancellation, the deadline or an Unknown comes, in the middle
\* of an optimization too, a backend's answer is true of the query: Sat and
\* Unsat are, and an optimum is attained by a model and no model's is better.
\* A simplification is the answer to SIMPLIFY only.
True(j, r) ==
  /\ r.status = "Sat" => j.models # {}
  /\ r.status = "Unsat" => j.models = {}
  /\ r.status = "Optimal" => IsBest(j, r.optimum)
  /\ r.status = "Optimal" <=> r.status \in {"Sat", "Optimal"} /\ j.command \in Optimizing
  /\ r.status = "Simplified" => j.command = "Simplify"
AnswersAreTrue == True(job, result)

\* A job that is out of time ends, and so does one that is cancelled, whatever
\* its solver is doing, except that Z3 goes on if the watcher's one interrupt
\* came between two checks and was lost, and that Rumba, once started, goes on
\* until it has simplified; no thread of a job outlives it.
Ended == at = "returned" /\ watcher # "watching" /\ worker.status # "running"
CancelledJobsEnd == /\ expired ~> Ended \/ at = "rumba"
                    /\ cancelled ~> Ended \/ dropped \/ at = "rumba"

------------------------------------------------------------------------------
\* The inductive invariant: the threads work for the job's own backend, and
\* the job has no result before its end.
PlaceInv ==
  /\ at \in {"start", "rumba", "z3", "z3 done", "binbit", "polling", "returned"}
  /\ job.backend = "rumba" <=> job.command = "Simplify"
  /\ at = "rumba" => job.backend = "rumba"
  /\ at \in {"z3", "z3 done"} => job.backend = "z3"
  /\ at = "binbit" => job.backend = "binbit"
  /\ at = "polling" => worker # NoResult
  /\ worker # NoResult => job.backend = "qfbvsmtrs"
  /\ at \notin {"z3 done", "returned"} => result = NoResult

\* Some model has the optimum's bits from `bit' up, and no model is better there.
BetterFrom(j, u, v, low) ==
  \E k \in Bits : /\ k >= low /\ (k \in u <=> PreferOne(j, k)) /\ ~ (k \in v <=> PreferOne(j, k))
                  /\ Same(u, v, k + 1)
Leads(j, v, low) == /\ \E u \in j.models : Same(u, v, low)
                    /\ \A u \in j.models : ~ BetterFrom(j, u, v, low)
HuntInv ==
  /\ at = "start" => bit = Width + 1 /\ optimum = {}
  /\ at = "z3" => /\ bit \in 0 .. Width + 1 /\ \A k \in optimum : k \in Bits /\ k >= bit
                  /\ bit <= Width => Leads(job, optimum, bit)

BackendsInv ==
  /\ job \in Jobs /\ PlaceInv /\ HuntInv /\ True(job, worker) /\ True(job, result)
==============================================================================
