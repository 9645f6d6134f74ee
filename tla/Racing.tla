------------------------------- MODULE Racing -------------------------------
(***************************************************************************)
(* RacingBackend::handle (crates/smt-server/src/racing.rs): one query is   *)
(* given to several backends, each on a thread of its own; the caller      *)
(* takes results from an mpsc channel until one is conclusive for the      *)
(* request, the deadline passes or every sender is gone, then cancels all  *)
(* backends.  After a win a drain thread keeps reading the channel and     *)
(* reports verdicts that contradict the winner.                            *)
(*                                                                         *)
(* The channel is kept as the log of everything ever sent (`sent') and a   *)
(* cursor (`taken'): what is queued is the part of the log behind the      *)
(* cursor.  Budgets are reduced to "there is one" and the clock to "the    *)
(* deadline has passed".                                                   *)
(***************************************************************************)
EXTENDS Naturals, Sequences

CONSTANTS
  MaxBackends,   \* bound: backends configured in RacingBackend.backends
  Cooperative,   \* the backends that poll their cancellation token while solving
  Results,       \* the QueryResults (and errors) a backend may produce
  Jobs           \* the requests, and the configurations they meet

Backends == 1..MaxBackends

Commands == {"solve", "simplify", "optimize"}     \* optimize: MINIMIZE and MAXIMIZE
Conclusive == {"sat", "unsat", "simplified"}
Statuses == Conclusive \cup {"unknown", "error"}

\* What a block of a result looks like to the validators: absent, present but
\* inconsistent with the request's expressions, or well formed.
Blocks == {"none", "bad", "ok"}

Reasons == {"", "solver", "cancelled", "no artifact", "error", "deadline",
            "no result", "no backends"}

\* QueryResult: `block' is the artifact that goes with the status (unsat core,
\* simplify block or optimum), `why' the message of an UNKNOWN.
Result == [status : Statuses, model : Blocks, block : Blocks, why : Reasons]

Unknown(why) == [status |-> "unknown", model |-> "none", block |-> "none", why |-> why]

None == [status |-> "none", model |-> "none", block |-> "none", why |-> ""]

\* The request, and whether the backend list was built with a default budget.
Job == [n : 0..MaxBackends, command : Commands, wantModel : BOOLEAN,
        wantCore : BOOLEAN, budget : BOOLEAN, defaultBudget : BOOLEAN]

ASSUME RacingAssumption ==
  /\ MaxBackends \in Nat
  /\ Cooperative \subseteq Backends
  /\ Results \subseteq Result
  /\ Jobs \subseteq Job
  /\ \A r \in Results : r.why # "cancelled"

VARIABLES
  job,           \* the request and the configured backends; never changes
  pc,            \* where the calling thread is in handle
  spawned,       \* how many backend threads it has started
  cancelled,     \* how many tokens cancel_all has set
  deadline,      \* "unset", "none" or "armed"
  expired,       \* the clock is past the deadline
  firstUnknown,  \* first_unknown
  winner,        \* position in the log of the conclusive result, 0 if none
  answer,        \* what handle returned
  worker,        \* state of each backend thread
  verdict,       \* the result a thread is about to send
  token,         \* CancellationToken of each backend
  sent,          \* log of the channel: what backend threads have sent
  taken,         \* how much of the log has been received
  rx,            \* who owns the receiver: "caller", "drain" or "dropped"
  reported       \* log positions reported as disagreements

callerVars == <<pc, spawned, cancelled, deadline, firstUnknown, winner, answer>>
vars == <<job, callerVars, expired, worker, verdict, token, sent, taken, rx, reported>>

-----------------------------------------------------------------------------
\* QueryResult::is_conclusive_for and the validators it calls.

StatusMatchesCommand(q, r) ==
  IF q.command = "simplify" THEN r.status = "simplified"
                            ELSE r.status \in {"sat", "unsat"}

ValidSolve(q, r) ==
  /\ r.status = "sat" /\ q.wantModel => r.model = "ok"
  /\ r.status = "unsat" /\ q.wantCore => r.block = "ok"
  /\ r.status # "simplified"

ValidSimplify(q, r) ==
  /\ r.status = "simplified" => r.block = "ok"
  /\ r.status \notin {"sat", "unsat"}

ValidOptimize(q, r) ==
  /\ r.status = "sat" => /\ r.block = "ok"
                         /\ q.wantModel => r.model = "ok"
  /\ r.status # "simplified"

ValidArtifacts(q, r) ==
  CASE q.command = "solve" -> ValidSolve(q, r)
    [] q.command = "simplify" -> ValidSimplify(q, r)
    [] q.command = "optimize" -> ValidOptimize(q, r)

\* Mutant: the status alone decides, requested artifacts are not validated.
ConclusiveByStatus(q, r) == StatusMatchesCommand(q, r)

ConclusiveFor(q, r) == StatusMatchesCommand(q, r) /\ ValidArtifacts(q, r)

\* request.envelope.budget_ms, else the default budget.
EffectiveBudget(q) == q.budget \/ q.defaultBudget

\* The caller drops its tx before it receives; a thread's clone of tx lives until
\* the thread is over.
Ended(b) == worker[b] = "ended"
Configured == 1..job.n
SendersGone == pc # "start" /\ \A b \in Configured : Ended(b)

-----------------------------------------------------------------------------
Init ==
  /\ job \in Jobs
  /\ pc = "start" /\ spawned = 0 /\ cancelled = 0
  /\ deadline = "unset" /\ expired = FALSE
  /\ firstUnknown = None /\ winner = 0 /\ answer = None
  /\ worker = [b \in Backends |-> "idle"]
  /\ verdict = [b \in Backends |-> None]
  /\ token = [b \in Backends |-> FALSE]
  /\ sent = <<>> /\ taken = 0 /\ rx = "caller" /\ reported = {}

-----------------------------------------------------------------------------
\* The calling thread.

\* No backend: the answer is an UNKNOWN.
NoBackends ==
  /\ pc = "start" /\ job.n = 0
  /\ pc' = "done" /\ answer' = Unknown("no backends") /\ rx' = "dropped"
  /\ UNCHANGED <<job, spawned, cancelled, deadline, firstUnknown, winner, expired,
                 worker, verdict, token, sent, taken, reported>>

\* One backend: called on this thread, its result returned as it is, without
\* the default budget, the validators or a cancellation token.
SingleBackend(r) ==
  /\ pc = "start" /\ job.n = 1
  /\ pc' = "done" /\ answer' = r /\ rx' = "dropped"
  /\ UNCHANGED <<job, spawned, cancelled, deadline, firstUnknown, winner, expired,
                 worker, verdict, token, sent, taken, reported>>

\* Mutant: a token left over from an earlier, cancelled race is handed out.
SpawnStaleToken ==
  /\ pc = "start" /\ job.n >= 2 /\ spawned < job.n
  /\ spawned' = spawned + 1
  /\ worker' = [worker EXCEPT ![spawned + 1] = "spawned"]
  /\ token' = [token EXCEPT ![spawned + 1] = TRUE]
  /\ UNCHANGED <<job, pc, cancelled, deadline, firstUnknown, winner, answer, expired,
                 verdict, sent, taken, rx, reported>>

\* One turn of the spawning loop: a fresh token, a thread.  Threads already
\* started run, and may even finish, meanwhile.
Spawn ==
  /\ pc = "start" /\ job.n >= 2 /\ spawned < job.n
  /\ spawned' = spawned + 1
  /\ worker' = [worker EXCEPT ![spawned + 1] = "spawned"]
  /\ token' = [token EXCEPT ![spawned + 1] = FALSE]
  /\ UNCHANGED <<job, pc, cancelled, deadline, firstUnknown, winner, answer, expired,
                 verdict, sent, taken, rx, reported>>

\* drop(tx), and the deadline counted from here.
StartDeadline ==
  /\ pc = "start" /\ job.n >= 2 /\ spawned = job.n
  /\ pc' = "check"
  /\ deadline' = IF EffectiveBudget(job) THEN "armed" ELSE "none"
  /\ UNCHANGED <<job, spawned, cancelled, firstUnknown, winner, answer, expired,
                 worker, verdict, token, sent, taken, rx, reported>>

\* recv_result reads the clock before it looks at the channel.
CheckDeadline ==
  /\ pc = "check"
  /\ pc' = IF deadline = "armed" /\ expired THEN "cancel" ELSE "recv"
  /\ UNCHANGED <<job, spawned, cancelled, deadline, firstUnknown, winner, answer, expired,
                 worker, verdict, token, sent, taken, rx, reported>>

\* The UNKNOWN an inconclusive result is held as (get_or_insert).
AsUnknown(r) ==
  CASE r.status \in Conclusive -> Unknown("no artifact")
    [] r.status = "error" -> Unknown("error")
    [] OTHER -> r

\* Mutant: a conclusive result does not end the loop; a later one replaces it.
ReceiveLast ==
  /\ pc = "recv" /\ taken < Len(sent)
  /\ LET r == sent[taken + 1].result IN
       /\ taken' = taken + 1
       /\ pc' = "check"
       /\ IF ConclusiveFor(job, r)
          THEN winner' = taken + 1 /\ UNCHANGED firstUnknown
          ELSE /\ firstUnknown' = IF firstUnknown = None THEN AsUnknown(r) ELSE firstUnknown
               /\ UNCHANGED winner
  /\ UNCHANGED <<job, spawned, cancelled, deadline, answer, expired,
                 worker, verdict, token, sent, rx, reported>>

\* Mutant: the first result of any kind ends the race.
ReceiveFirst ==
  /\ pc = "recv" /\ taken < Len(sent)
  /\ LET r == sent[taken + 1].result IN
       /\ taken' = taken + 1
       /\ pc' = "cancel"
       /\ IF ConclusiveFor(job, r)
          THEN winner' = taken + 1 /\ UNCHANGED firstUnknown
          ELSE /\ firstUnknown' = IF firstUnknown = None THEN AsUnknown(r) ELSE firstUnknown
               /\ UNCHANGED winner
  /\ UNCHANGED <<job, spawned, cancelled, deadline, answer, expired,
                 worker, verdict, token, sent, rx, reported>>

\* A queued result: it wins if it is conclusive for the request, otherwise it
\* is at most remembered as the first UNKNOWN.
Receive ==
  /\ pc = "recv" /\ taken < Len(sent)
  /\ LET r == sent[taken + 1].result IN
       /\ taken' = taken + 1
       /\ IF ConclusiveFor(job, r)
          THEN /\ winner' = taken + 1 /\ pc' = "cancel"
               /\ UNCHANGED firstUnknown
          ELSE /\ firstUnknown' = IF firstUnknown = None THEN AsUnknown(r) ELSE firstUnknown
               /\ pc' = "check"
               /\ UNCHANGED winner
  /\ UNCHANGED <<job, spawned, cancelled, deadline, answer, expired,
                 worker, verdict, token, sent, rx, reported>>

\* Mutant: recv() is used where recv_timeout() is meant.
WaitForever == FALSE /\ UNCHANGED vars

\* recv_timeout finds nothing queued and the deadline passed.
RecvTimeout ==
  /\ pc = "recv" /\ taken = Len(sent) /\ deadline = "armed" /\ expired
  /\ pc' = "cancel"
  /\ UNCHANGED <<job, spawned, cancelled, deadline, firstUnknown, winner, answer, expired,
                 worker, verdict, token, sent, taken, rx, reported>>

\* Nothing queued and every sender gone.
Disconnected ==
  /\ pc = "recv" /\ taken = Len(sent) /\ SendersGone
  /\ pc' = "cancel"
  /\ UNCHANGED <<job, spawned, cancelled, deadline, firstUnknown, winner, answer, expired,
                 worker, verdict, token, sent, taken, rx, reported>>

\* Mutant: the backends started after the first are never told to stop.
CancelFirst ==
  /\ pc = "cancel" /\ cancelled < job.n
  /\ cancelled' = job.n
  /\ token' = [token EXCEPT ![1] = TRUE]
  /\ UNCHANGED <<job, pc, spawned, deadline, firstUnknown, winner, answer, expired,
                 worker, verdict, sent, taken, rx, reported>>

\* One turn of cancel_all.
CancelNext ==
  /\ pc = "cancel" /\ cancelled < job.n
  /\ cancelled' = cancelled + 1
  /\ token' = [token EXCEPT ![cancelled + 1] = TRUE]
  /\ UNCHANGED <<job, pc, spawned, deadline, firstUnknown, winner, answer, expired,
                 worker, verdict, sent, taken, rx, reported>>

\* The result returned once no backend won.
NoWinner ==
  IF firstUnknown # None THEN firstUnknown
  ELSE IF deadline = "armed" THEN Unknown("deadline") ELSE Unknown("no result")

\* Mutant: the receiver is dropped on a win too; nobody drains the channel.
ReturnNoDrain ==
  /\ pc = "cancel" /\ cancelled = job.n
  /\ pc' = "done"
  /\ answer' = IF winner # 0 THEN sent[winner].result ELSE NoWinner
  /\ rx' = "dropped"
  /\ UNCHANGED <<job, spawned, cancelled, deadline, firstUnknown, winner, expired,
                 worker, verdict, token, sent, taken, reported>>

\* All tokens set: a win hands the receiver to a drain thread, otherwise the
\* receiver is dropped with the call.
Return ==
  /\ pc = "cancel" /\ cancelled = job.n
  /\ pc' = "done"
  /\ answer' = IF winner # 0 THEN sent[winner].result ELSE NoWinner
  /\ rx' = IF winner # 0 THEN "drain" ELSE "dropped"
  /\ UNCHANGED <<job, spawned, cancelled, deadline, firstUnknown, winner, expired,
                 worker, verdict, token, sent, taken, reported>>

-----------------------------------------------------------------------------
\* A backend thread.

\* handle_with_context looks at the token before it starts to solve.
Enter(b) ==
  /\ worker[b] = "spawned"
  /\ IF token[b]
     THEN /\ worker' = [worker EXCEPT ![b] = "sending"]
          /\ verdict' = [verdict EXCEPT ![b] = Unknown("cancelled")]
     ELSE /\ worker' = [worker EXCEPT ![b] = "solving"]
          /\ UNCHANGED verdict
  /\ UNCHANGED <<job, callerVars, expired, token, sent, taken, rx, reported>>

Finish(b, r) ==
  /\ worker[b] = "solving"
  /\ worker' = [worker EXCEPT ![b] = "sending"]
  /\ verdict' = [verdict EXCEPT ![b] = r]
  /\ UNCHANGED <<job, callerVars, expired, token, sent, taken, rx, reported>>

\* A backend that polls its token gives up after it was set.
ObserveCancel(b) ==
  /\ b \in Cooperative /\ worker[b] = "solving" /\ token[b]
  /\ worker' = [worker EXCEPT ![b] = "sending"]
  /\ verdict' = [verdict EXCEPT ![b] = Unknown("cancelled")]
  /\ UNCHANGED <<job, callerVars, expired, token, sent, taken, rx, reported>>

\* The backend panics: its sender is dropped and nothing is sent.
Panic(b) ==
  /\ worker[b] = "solving"
  /\ worker' = [worker EXCEPT ![b] = "ended"]
  /\ UNCHANGED <<job, callerVars, expired, verdict, token, sent, taken, rx, reported>>

\* tx.send fails silently once the receiver is gone.
Send(b) ==
  /\ worker[b] = "sending"
  /\ worker' = [worker EXCEPT ![b] = "ended"]
  /\ sent' = IF rx = "dropped" THEN sent
             ELSE Append(sent, [from |-> b, result |-> verdict[b], late |-> expired])
  /\ UNCHANGED <<job, callerVars, expired, verdict, token, taken, rx, reported>>

-----------------------------------------------------------------------------
\* The drain thread, and the clock.

Disagrees(r) == r.status \in Conclusive /\ r.status # sent[winner].result.status

Drain ==
  /\ rx = "drain" /\ taken < Len(sent)
  /\ taken' = taken + 1
  /\ reported' = IF Disagrees(sent[taken + 1].result)
                 THEN reported \cup {taken + 1} ELSE reported
  /\ UNCHANGED <<job, callerVars, expired, worker, verdict, token, sent, rx>>

DrainEnds ==
  /\ rx = "drain" /\ taken = Len(sent) /\ SendersGone
  /\ rx' = "dropped"
  /\ UNCHANGED <<job, callerVars, expired, worker, verdict, token, sent, taken, reported>>

Expire ==
  /\ deadline = "armed" /\ ~expired
  /\ expired' = TRUE
  /\ UNCHANGED <<job, callerVars, worker, verdict, token, sent, taken, rx, reported>>

\* The call is over and no thread of it is left.
Quiet ==
  /\ pc = "done" /\ rx = "dropped"
  /\ \A b \in Backends : worker[b] \in {"idle", "ended"}
  /\ UNCHANGED vars

-----------------------------------------------------------------------------
Caller ==
  \/ NoBackends
  \/ \E r \in Results : SingleBackend(r)
  \/ Spawn \/ StartDeadline \/ CheckDeadline
  \/ Receive \/ RecvTimeout \/ Disconnected
  \/ CancelNext \/ Return

Thread(b) ==
  \/ Enter(b) \/ ObserveCancel(b) \/ Panic(b) \/ Send(b)
  \/ \E r \in Results : Finish(b, r)

Drainer == Drain \/ DrainEnds

Next ==
  \/ Caller
  \/ \E b \in Backends : Thread(b)
  \/ Drainer
  \/ Expire
  \/ Quiet

\* The caller (a second or later backend exists, so it never solves itself),
\* the drain thread and the clock make progress, and so does a backend thread
\* outside its solver.  Nothing makes a solver finish; a cooperative one polls
\* its token.
Fairness ==
  /\ WF_vars(Spawn \/ StartDeadline \/ CheckDeadline \/ Receive \/ RecvTimeout
             \/ Disconnected \/ CancelNext \/ Return)
  /\ WF_vars(Drainer)
  /\ WF_vars(Expire)
  /\ \A b \in Backends : WF_vars(Enter(b)) /\ WF_vars(Send(b)) /\ WF_vars(ObserveCancel(b))

Spec == Init /\ [][Next]_vars
FairSpec == Spec /\ Fairness
-----------------------------------------------------------------------------
\* Properties.

WorkerStates == {"idle", "spawned", "solving", "sending", "ended"}
LogEntry == [from : Backends, result : Result, late : BOOLEAN]

\* Every variable has its type, and the receive cursor and the winner stay
\* inside the channel's log.
TypeOK ==
  /\ job \in Jobs
  /\ pc \in {"start", "check", "recv", "cancel", "done"}
  /\ spawned \in 0..job.n /\ cancelled \in 0..job.n
  /\ deadline \in {"unset", "none", "armed"} /\ expired \in BOOLEAN
  /\ firstUnknown \in Result \cup {None} /\ answer \in Result \cup {None}
  /\ worker \in [Backends -> WorkerStates]
  /\ verdict \in [Backends -> Result \cup {None}]
  /\ token \in [Backends -> BOOLEAN]
  /\ sent \in Seq(LogEntry)
  /\ taken \in 0..Len(sent) /\ winner \in 0..taken
  /\ rx \in {"caller", "drain", "dropped"}
  /\ reported \subseteq 1..taken

\* A race of two or more backends never returns an error or a verdict that
\* lacks what the request asked for: whatever mix of results arrives, a
\* conclusive answer fits the command and carries its model, core, simplified
\* expression or optimum (is_conclusive_for, racing.rs).
AnswerHasArtifacts ==
  pc = "done" /\ job.n >= 2 =>
    /\ answer.status # "error"
    /\ answer.status \in Conclusive =>
         /\ answer.status = "simplified" <=> job.command = "simplify"
         /\ answer.status = "sat" /\ job.wantModel => answer.model = "ok"
         /\ answer.status = "unsat" /\ job.command = "solve" /\ job.wantCore
              => answer.block = "ok"
         /\ answer.status # "unsat" /\ job.command # "solve" => answer.block = "ok"

\* "Returns the first conclusive result": the answer of a won race is the
\* earliest result in the channel that is conclusive for the request.
FirstConclusiveWins ==
  pc = "done" /\ winner # 0 =>
    /\ answer = sent[winner].result
    /\ ConclusiveFor(job, answer)
    /\ \A i \in 1..(winner - 1) : ~ConclusiveFor(job, sent[i].result)

\* UNKNOWN results are held back: a race answers UNKNOWN only when its deadline
\* has passed, or when every backend thread is over and none of them sent a
\* result that is conclusive for the request.
UnknownJustified ==
  pc = "done" /\ job.n >= 2 /\ answer.status = "unknown" =>
    \/ deadline = "armed" /\ expired
    \/ /\ \A b \in Configured : Ended(b)
       /\ \A i \in DOMAIN sent : ~ConclusiveFor(job, sent[i].result)

\* The race never answers with the UNKNOWN its own cancellation provokes: the
\* tokens are set only after the answer is decided.
NotSelfCancelled == answer.why # "cancelled" /\ firstUnknown.why # "cancelled"

\* With a budget (the request's or the default one) a race returns even if no
\* backend ever does.
DeadlineBoundsCall ==
  (job.n >= 2 /\ EffectiveBudget(job)) ~> (pc = "done")

\* Losers stop: once the race has returned, every backend thread that polls its
\* token ends, whichever of its steps the cancellation overtook.
LosersStop ==
  \A b \in Cooperative : (pc = "done" /\ b <= spawned) ~> Ended(b)

\* "Logs later disagreements": a conclusive result sent after the winning one
\* with another status is reported, even if it arrives after handle returned.
DisagreementReported ==
  \A i \in Backends :
    (winner # 0 /\ winner < i /\ i <= Len(sent) /\ Disagrees(sent[i].result))
      ~> (i \in reported)

\* docs/architecture.md: UNKNOWN "means no backend produced a conclusive answer
\* within the applicable budget".
UnknownMeansNoneInBudget ==
  pc = "done" /\ job.n >= 2 /\ answer.status = "unknown" =>
    \A i \in DOMAIN sent : sent[i].late \/ ~ConclusiveFor(job, sent[i].result)

-----------------------------------------------------------------------------
\* The inductive invariant behind the safety properties: where the caller is
\* determines what it has done so far.

Started == job.n >= 2 /\ spawned = job.n /\ deadline \in {"none", "armed"}

CallerInv ==
  /\ pc = "start" => taken = 0 /\ deadline = "unset"
  /\ pc \in {"start", "check", "recv"} =>
       winner = 0 /\ cancelled = 0 /\ \A b \in Backends : ~token[b]
  /\ pc \in {"check", "recv", "cancel"} => Started
  /\ pc # "done" => rx = "caller" /\ answer = None
  /\ firstUnknown # None => firstUnknown.status = "unknown" /\ firstUnknown.why # "cancelled"

\* Only threads that were started do anything, and a result holds the UNKNOWN of
\* a cancelled solver only after tokens have been set.
Sendable == Results \cup {Unknown("cancelled")}

ThreadInv ==
  /\ \A b \in Backends : worker[b] # "idle" => b \in 1..spawned
  /\ \A b \in Backends : worker[b] = "sending" => verdict[b] \in Sendable
  /\ \A i \in DOMAIN sent : sent[i].result \in Sendable
  /\ pc \in {"start", "check", "recv"} =>
       /\ \A b \in Backends : worker[b] = "sending" => verdict[b] \in Results
       /\ \A i \in DOMAIN sent : sent[i].result \in Results

\* No conclusive result in front of the winner or, while there is none, among
\* all that was received.
WinnerInv ==
  /\ winner # 0 => /\ ConclusiveFor(job, sent[winner].result)
                   /\ \A i \in 1..(winner - 1) : ~ConclusiveFor(job, sent[i].result)
  /\ pc # "done" /\ winner = 0 =>
       \A i \in 1..taken : ~ConclusiveFor(job, sent[i].result)

\* Why the caller may stop listening without a winner.
GaveUp ==
  \/ deadline = "armed" /\ expired
  \/ /\ \A b \in Configured : Ended(b)
     /\ \A i \in DOMAIN sent : ~ConclusiveFor(job, sent[i].result)

AnswerInv ==
  /\ pc = "cancel" /\ winner = 0 => GaveUp
  /\ pc = "done" /\ job.n >= 2 =>
       /\ winner = 0 => GaveUp /\ answer.status = "unknown" /\ answer.why # "cancelled"
       /\ winner # 0 => answer = sent[winner].result
  /\ pc = "done" /\ job.n < 2 => winner = 0 /\ answer.why # "cancelled"

RaceInv == TypeOK /\ CallerInv /\ ThreadInv /\ WinnerInv /\ AnswerInv

\* The race seen from outside: one query to two or more backends.
Contract == INSTANCE RaceContract WITH
  Results <- Results \cup {Unknown("cancelled")},
  Answers <- Result,
  Unknowns <- {r \in Result : r.status = "unknown"},
  Undecided <- None,
  offered <- [i \in 1..Len(sent) |-> [result |-> sent[i].result,
                                      decides |-> ConclusiveFor(job, sent[i].result)]],
  closed <- SendersGone,
  timeUp <- expired,
  answer <- IF job.n >= 2 THEN answer ELSE None

\* A race, with all its threads, its channel and its tokens, behaves as the
\* contract says.
ImplementsContract == Contract!ContractSpec
=============================================================================
