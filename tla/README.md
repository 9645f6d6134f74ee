# smt-server: specifications, model checks and proofs

This directory verifies smt-server, a TCP service that answers quantifier-free
bit-vector queries by racing several solvers, with its own solver, its wire protocol
and its client. The modules are
translations of the Rust sources; the source lines each definition stands for are
listed under `map` in `PROJECT.json`.

To check everything: `tlc -config X.cfg M` for each run listed in `PROJECT.json`, and
`tlapm M.tla` for each `*Proofs.tla`.

## 1. Inventory

A client opens a TCP connection and sends length-prefixed frames. A frame is either
a binary `SMTQ` request or an SMT-LIB script. The server validates it, looks in its
response cache, hands it to a stack of backends and writes one response frame.

| Component | State it keeps | Operations | Interacts with |
|---|---|---|---|
| Racing portfolio (`racing.rs`, `backend.rs`) | per call: channel, cancellation tokens, deadline, `first_unknown` | spawn backends, receive, cancel, drain | backends, one thread each; called from connection threads |
| TCP server (`server.rs`) | `active_connections`, one thread per connection | accept, refuse, read, dispatch, write | cache, recorder, backend stack |
| Response cache (`cache.rs`) | `entries` behind a mutex | lookup, insert, clear when full, rebind id | connection threads |
| Recorder (`recording.rs`) | SQLite table keyed by request hash | `INSERT OR IGNORE`, migration of the old file tree | connection threads, other server processes |
| Text front end (`smtlib.rs`, `smt2.rs`) | none | lower a script to a request, or fall back to qfbvsmtrs | recorder, backend stack |
| SMT-LIB reader (`smt-qfbv-smtlib`) | tables of declarations, definitions and macros; scopes | read one command, lower its terms | the sinks of qfbvsmtrs and of the server |
| Protocol handlers (`protocol.rs`) | none | parse a request, check a result against it, answer | connection threads, backend stack |
| Router, pool, process entry (`command_router.rs`, `pool.rs`, `main.rs`) | none | choose a backend by command or hash; serve or migrate | Rumba, racing |
| Rumba simplifier (`rumba_backend.rs`) | memo of one target, the expression it builds | find islands, simplify, rebuild | the rumba library |
| Z3, binbit and qfbvsmtrs backends | per call: deadline, cancellation watcher or poll loop | solve, optimize, core | solver libraries |
| qfbvsmtrs SAT core (`sat.rs`) | assignment, recursion stack | assume, propagate, decide, validate | called once per CNF by the solver |
| qfbvsmtrs gates and CNF (`gates.rs`, `cnf.rs`) | gate arena with hash-consing, clause list | constructors, encode | blaster above, SAT below |
| qfbvsmtrs solver (`solver.rs`) | locals of optimize and core extraction | solve, optimize, extract core | shortcuts, blaster, SAT, token and deadline of the caller |
| qfbvsmtrs terms, circuits (`builder.rs`, `eval.rs`, `blast.rs`, `circuits.rs`) | term arena with hash-consing, scopes | rewrite, evaluate, blast | front ends above, gates below |
| qfbvsmtrs shortcuts | none | recognise a formula and answer | solver |
| Wire codec (`smt-wire`: `expr.rs`, `builder.rs`, `request.rs`, `response.rs`) | expression tables, assertions, scopes | build, check, compact, parse | client and server |
| Clients (`smt-wire`: `api.rs`, `client.rs`; `python`, `cpp`) | one socket, a request counter | send, receive, read a model | server |
| Python `Z3Server` (`smt_z3_server.py`) | listener, connection threads | start, serve, stop | z3 bindings |

What is hard in each, and what would make it correct:

- **Racing.** Backend threads, the caller, the drain thread and the clock interleave;
  backends hang, panic, answer late or without the artifact that was asked for. Right
  means: the first *conclusive* result wins whatever the order; `UNKNOWN` is given
  only for a reason; no backend is cancelled by its own race before it is decided and
  then believed; the caller is back by the deadline; losers stop; contradictions are
  reported.
- **Server, cache, recorder.** Threads share a counter, a map and a table without a
  transaction around "look up, solve, insert". Right means: permits are returned on
  every path, panics included; the cache stays bounded and holds only conclusive answers
  under their own key; a client gets the answer to its own request under its own id
  although cached answers were computed for another id; nobody has an answer that is not
  recorded; a client that does not read keeps nobody but itself waiting.
- **SAT core.** Recursion, propagation that assigns while it walks the clauses, and
  a stop flag polled in the middle. Right means: UNSAT only if there is no model, nothing
  searched twice, UNKNOWN from DPLL only if it was stopped, and termination. (SAT only with a
  model needs no search: every assignment is validated before it is returned.)
- **Gates and CNF.** Folding depends on what earlier calls built. Right means: every
  constructor returns a gate with the value asked for, and the CNF has exactly the
  circuit's valuations as models.
- **qfbvsmtrs solver.** Each of a sequence of queries depends on the answers to the
  earlier ones, and any may give up. Right means: true verdicts, the best optimum
  with a model that attains it, cores that are contradictory and minimal.
- **Terms and circuits.** A rewrite is right for some constants and widths and wrong
  for others, and it sees what earlier rewrites left. Right means: every constructor
  returns a term with the operator's meaning; the evaluator and the circuits both
  compute it, so that a model of the gates is a model of the query.
- **Wire protocol and client.** Builder operations may fail half way and leave their
  traces; requests are compacted and renumbered; four backends read the same request,
  each its own way; a call that times out leaves its answer on the stream. Right means:
  what is built is accepted, an answer is true of what the user built, in the user's own
  references, and an answer to another request can be recognised.
- **SMT-LIB reader.** Lets, macros, definitions and scopes decide what a name means, and a
  script becomes one query, however often it checks. Right means: that query has the models
  of the assertions in force at the end of the script.
- **Backend threads.** The watcher, the worker and the slices race the end of the solve.
  Right means: an answer is true however the job is stopped, and a stopped job ends.
- **Migration.** Files are bad, transactions fail, the command is run again while servers
  record. Right means: a reported success has lost nothing.

`hazards` in `PROJECT.json` lists what of this a unit test hardly reaches, with the
properties that cover it.

## 2. Modules

| Module | Models | Proofs | Run by |
|---|---|---|---|
| `Racing` | `RacingBackend::handle` and everything it starts | `RacingProofs` | `MCRacing` |
| `RaceContract` | what a race promises; implemented by `Racing` | `RacingProofs` | `MCRacing` |
| `Server` | accept loop, connection threads, cache, recorder | `ServerProofs` | `MCServer` |
| `Backends` | one job on the Z3, binbit, qfbvsmtrs or Rumba backend, with its threads | `MainProofs` | `MCMain` |
| `Migration` | `migrate-recordings` | `MainProofs` | `MCMain` |
| `Main` | the process: either of the two | `MainProofs` | `MCMain` |
| `Sat` | `solve_cnf_with_cancellation` | `SatProofs` | `MCSat` |
| `Gates` | gate arena and CNF encoding | `GatesProofs` | `MCGates` |
| `QfbvSolver` | `Solver::solve` | `QfbvSolverProofs` | `MCQfbvSolver` |
| `BinaryNumbers` | powers of two, bits and numbers: the vocabulary of the next seven | `GatesProofs` | `MCQueries`, `MCWireClient` |
| `BitVectors` | what the operators mean: the specification of the next six | `GatesProofs` | `MCQueries`, `MCWireClient` |
| `Bytes` | byte arithmetic of `builder.rs`, `ir.rs`, `eval.rs` | | `MCQueries`, `MCWireClient` |
| `Terms`, `TermBuilder` | the term arena; the constructors and their rewrites | | `MCQueries` |
| `Circuits` | `circuits.rs` | `GatesProofs` | `MCQueries` |
| `Blast` | `blast_query` on bits, beside `denote`, what the nodes mean | `GatesProofs` | `MCQueries` |
| `Semantics` | `evaluate`, `build_model`, `blast_query` as far as it chooses what to blast, the queries of `optimize` | | `MCQueries` |
| `Queries` | a query under construction | | `MCQueries` |
| `Scripts` | the SMT-LIB reader over a query | | `MCQueries` |
| `WireExpr`, `WireBuilder` | expression tables and their validation; `ExprBuilder` | `WireProofs` | `MCWireClient` |
| `WireContext` | the operations of a client's `Context` | `WireProofs` | `MCWireClient` |
| `Connection` | the calls of one client on one stream, and the server's answers | `ConnectionProofs` | `MCWireClient` |
| `WireMessages` | requests and responses, and what each side accepts | `WireProofs` | `MCWireClient` |
| `WireLowering` | `wire.rs`: a request becomes a query of qfbvsmtrs | | `MCWireClient` |
| `Translations` | a request as Z3 and binbit read it, and the models they write | | `MCWireClient` |
| `Rumba` | the simplifier | | `MCWireClient` |
| `WireServer` | the handlers of `protocol.rs` over the four backends | | `MCWireClient` |
| `WireClient` | a user with a Context, and a Connection to that server | | `MCWireClient` |

The modules form the layers of the program: a connection thread of `Server` calls a
backend, which is a race of `Racing`; one of the racers is qfbvsmtrs, whose calls are
`QfbvSolver`; its core path blasts into `Gates` and solves with `Sat`. Each module
sees the layer below through that layer's promise: `Server` takes any answer, failure
or panic from its backend; `Racing` any result, panic or silence; `QfbvSolver` takes
a true verdict or UNKNOWN from its core path, which is what `SatProofs` and
`GatesProofs` establish of it (`BlastExact` for the circuits, `EncodingIsExact` for the CNF);
`Backends` takes from `QfbvSolver` that a worker answers truthfully; and `Racing` takes
its `Cooperative` backends from `CancelledJobsEnd`. `WireClient` goes the other way, from
the user's call through every layer of data to the answer, with the threads left out.

Definitions whose comment begins with "Mutant" are deliberately wrong variants of the
definition that follows. `PROJECT.json` pairs each with the property that must fail
when it takes the definition's place, which shows that the property depends on that code.

### Racing

One behaviour is one call of `handle`. `job` is the request and the number of backends.
The calling thread is at `pc`: it spawns the threads one by one (`Spawn`), fixes the
deadline (`StartDeadline`), and then alternates `CheckDeadline` (the clock is read
*before* the queue, as in `recv_result`) with `Receive`, `RecvTimeout` or
`Disconnected`; it then sets the tokens one at a time (`CancelNext`) and answers
(`Return`). Zero and one backend take their own early returns (`NoBackends`,
`SingleBackend`), the second without validation or budget. A backend thread enters
its solver, ends with any result of `Results`, observes its token if it is in
`Cooperative`, or panics, and sends. The channel is the log `sent` with cursor
`taken`; dropping the receiver is `rx = "dropped"`, and the drain thread owns it after
a win. `ConclusiveFor` and its parts are the artifact validators of `backend.rs`, with
a block reduced to absent, inconsistent or well formed. Milliseconds are reduced to
"there is a budget" and "the deadline has passed".

`RaceContract` has no threads, channel or tokens: results are offered, time may run
out, and the answer is fixed once, either the first offer that decides or a justified
UNKNOWN. The refinement mapping is at the end of `Racing`.

### Server

A connection goes through `phase` from the listen backlog to refused or served and
closed. `active` is the counter of permits, counted separately from the threads that
hold one. A thread's steps are the points at which other threads can intervene: after
the read, after the cache lookup, after the solver returns, after the recording, after
the insert, and at the write. A cached response keeps the id of the request it was
computed for until it is rebound for the client. A process exit loses the connections
and the cache, and keeps `recordings`; a restart begins with an empty cache on the same
database. A response may be written long after it was made, or never: `Write` is a step of its
own, and only the clients in `Readers` are sure to let it happen (`write_timeout` is not set
by default). `dbFailed` and `owed` are kept for `AnswersRecorded` only: which thread's pair the
database did not take, and which requests a client has an answer to. Lengths that the code
compares with its limits are sets of keys
(`LongKeys`, `LongAnswers`, `HugeAnswers`); keys stand for the request bytes without
the id, so hash collisions are not modelled.

### Sat

`assignment` is the trail of the current call of `search` and `pending` the stack of
false branches of the enclosing calls: each call clones the assignment, so returning
from a failed true branch means taking the clone that was kept. `unit_propagate` is a
pass over the clauses, one per step, repeated while it changes something. The stop flag
may be set between any two steps and is read only where the code reads it. splr and
varisat are external: they are trusted for UNSAT, may fail, panic or give up, and may
return any assignment, which `Validate` checks as the code does; varisat is not called
with a deadline.

### Gates

A gate is its position in the arena. Every order of constructor calls on gates that
exist is a behaviour. `xnor`, `implies`, `and_many` and `or_many` are compositions of
these calls and add no case of their own. Encoding visits the gates in order and may
time out at each multiple of `CheckEvery`. Clauses are sets of literals, since
`push_clause` sorts, removes duplicates and drops tautologies.

### QfbvSolver

An assertion is the set of worlds that satisfy it and a bit vector the set of its one
bits, so the module is about the control of `solver.rs`: the shortcut modes (disabled,
enabled, validate, audit), early exits on the limits, the bit hunt from the top bit
down with the sign bit reversed for signed targets, the final model query, and the
deletion loop. `active` is kept as a set, with the set `tried` of its elements before
the position of the loop: the loop looks at each element once and its order is not
observable. Shortcuts are arbitrary answers, restricted to true ones when
`ShortcutsSound`; `Reliable` names the configurations in which verdicts do not
depend on an unaudited shortcut.

### Terms, queries and scripts

`BitVectors` defines the operators over the integers modulo 2^w, as SMT-LIB does. It is
a specification: nothing in it comes from the code. `Bytes` is the code's arithmetic on
little-endian bytes, with the size of a byte a parameter, so that carries and partly used
last bytes occur at widths TLC can enumerate.

A term arena is a sequence of nodes and a constructor of `TermBuilder` a function from an
arena to an arena and an id (or an error). The rewrites are in the order of the code's
early returns, and nodes added on the way stay. `Queries` calls constructors on the terms
there are, in any order, and edits the query (assert, assume, push, pop, optimize).
`Blast` has the blaster on bits and `denote`, the meaning of the nodes by `BitVectors`;
`Semantics` the evaluator on bytes. `Blast.blast` blasts the whole arena, which is what
`BlastExact` is about; `Semantics.blast_query` is the code's choice, the nodes that the roots
and the target reach and, when a model is wanted, all variables. In `Circuits` a bit is
the value of its gate; that a gate constructor
returns a gate with that value is what `GatesProofs` shows. The loops of `circuits.rs` (carries,
partial sums, the scan of a comparison, shift stages, restoring division) are recursive
functions of the loop's counter, so that the same definitions are run and proved about.

`Scripts` extends `Queries` by the reader: its state is the tables of `ScriptLowerer`,
its actions are the commands, and a term of a script is lowered by the recursive
descent of the code. The specification beside it (`Run`, `ValueOf`) evaluates the same
script with lexical scoping and a stack of scopes, and never builds a term. A script is
read as a whole and answered once, as `lib.rs` does it: a `check-sat` sets a flag, a
`check-sat-assuming` adds its assumptions for good, and the query that is solved is the one at
the *end* of the script. After `(push 1) (assert false) (check-sat) (pop 1)` it is empty, and
the one answer printed is SAT, where SMT-LIB asks about the moment of the check. No document of
the repository says otherwise, so this is not a finding, and `ScriptsMean` states both: what the
query means for every script, and that this is the verdict of the last check when nothing was
asserted or popped after it and no other check had assumptions (`stands`).

### Wire protocol, backends' readings and client

An expression buffer keeps the encodings the code relies on: the sort bit of a reference,
offset and length in one payload, constants in the payload or in the blob, tables with
limits. Bytes of messages are left out. An operation of `WireBuilder` that fails keeps
what it had appended, as in the code.

`WireServer` gives a request to any of the backends: qfbvsmtrs on the query that
`WireLowering` makes of it, Z3 and binbit on their own reading (`Translations`), or
Rumba. A backend's verdict is true *of what it read*, so that a wrong translation shows
as a wrong answer; beside that it may leave out a block or return one that does not fit,
which the handlers must refuse. The libraries are external. Z3's and binbit's operators
mean what SMT-LIB says; rumba returns an expression of the same meaning, or panics.

`WireContext` has one action per kind of `Context` operation; a user may call any of them on
the terms there are, in any order, and goes on after a failure. Terms survive a `reset` of
their Context (`kept`): such a handle may be used again, is refused where its position is
not in the new buffer or has another sort, and otherwise names whatever is there now.

`compact` follows the loops of the code: a pass that marks what the roots reach, one that
numbers the marked nodes (`next_index`) and one that copies them (`copied`). The recursion
of `mark_ref` marks the same nodes as a pass from the last node to the first, since operands
precede their node. `Unfolded` is what a reference stands for, wherever its nodes are, and
is what a request is compared by (`SaysTheSame`).

`Connection` knows nothing of what messages say. `call` is the request waited for, `queue`
and `stream` the two directions. A call takes its id first, and one whose request is then
refused (`Refuse`) writes nothing: `taken` counts the ids and `written` says which of them
each request has. A read that gives up before a frame leaves its response to a later call; one
that gives up inside a frame (a timeout, or `FrameTooLarge`) leaves the rest of it (`inFrame`). Later calls
then take four of those bytes for a length, and as many more as it says: they may end in
the same frame, in a later one, or at the end of one, and be in step again (`ReadGarbled`). If such
bytes parse as a response, the call returns them (`Misread`); no property speaks of that
outcome. `gaveUp` counts the calls that gave up, `astray` says that one of them ended inside a
frame, `newest` is the last request whose answer was returned; they are kept for `AnswersLag`
only. Nothing matches ids, as in the code. Ids are the client's own: a caller may give one in the options instead, and
then answers for what it can tell from it. A write that fails is not modelled.

`WireClient` puts the two together: its steps are steps of `WireContext` between two calls,
or steps of `Connection` with the requests of `WireMessages`, the answers of `WireServer`
and what the client makes of a response.

### Backends, Migration and Main

A query of `Backends` is the set of values its models give the target, a value being
the set of its one bits. Z3 runs its checks on the job's thread, bit by bit for an optimization, while the watcher may interrupt *once*:
an interrupt that comes between two checks may stop the next one or be lost (`dropped`).
binbit runs in slices and refuses to optimize with a context or a budget. Rumba looks at its
token before it starts and never again. qfbvsmtrs has
a worker, a poll loop that forwards the cancellation, and a join.

`Migration` scans the tree in chunks and inserts each in one transaction. A file has the
hash in its name, its request and its answer, any of which may be bad; a readable file may
be unreadable at one attempt (`unread` remembers which); the process may end anywhere and
be started again; servers insert into the same table meanwhile. `Main` chooses between
serving a job and migrating.

## 3. Runs

| Run | Shows |
|---|---|
| `race` | Every request of every command to zero, one or two backends and SOLVE to three, all kinds of result, all orders of arrival, panics and deadlines: a race never returns an error or a verdict without its artifact, the first conclusive result wins, UNKNOWN is justified, no self-cancellation, and the race implements `RaceContract`. With a budget the call returns even if solvers hang; losers that poll stop; contradicting verdicts are reported |
| `race_budget_claim` | *violation*, see Findings |
| `server_safe` | Three clients, two permits, a cache that overflows, both payload forms, panics, hangups, exits and restarts: permits are accounted for, the cache stays bounded and sound, every client has its own answer under its own id, and no client has an answer whose pair is not recorded, wherever the process crashed, unless the database itself did not take it |
| `server_live` | Three clients, of which one does not read, and two permits: every frame that was read comes to its response, a client that reads gets it, nobody stays in the backlog |
| `server_text_claim` | *violation*, see Findings |
| `sat_search` | Every CNF of up to two clauses over two variables, and every set of full clauses over three, under assumptions, by all three solvers: UNSAT is true, no model is lost and no assignment searched twice in backtracking, UNKNOWN only when stopped, every call ends |
| `gates_cnf` | Every order of constructor calls for three gates besides the constants, every gate asserted |
| `qfbv_solve` | Every set of values of a three-bit target, signed and unsigned, both directions, and lists of up to three assertions, in every shortcut mode with shortcuts that may be wrong, stopped anywhere: true verdicts, best optima, contradictory and minimal cores; the hunt and the deletion loop end |
| `qfbv_core_claim` | *violation*, see Findings |
| `queries` | Twelve families of constructors on small terms, called in every order, edits of a query in every order, and scripts with their commands in every order: the arena stays well formed (`ArenaWellFormed`), rewrites keep the meaning and refuse only ill-sorted calls (`RewritesPreserveMeaning`), evaluator and circuits are exact (`EvaluatorExact`, `CircuitsExact`), what the solver blasts of a query and the model it reads back agree with the evaluator, the last query of an optimization included (`QueryAgrees`), and the query of a script means what SMT-LIB says of the assertions in force at its end (`ScriptsMean`) |
| `wire` | Users that build terms, edit and ask, with answers lost on the way: buffers pass the server's validation whatever failed (`BufferValid`), operations and integer operands mean what they should (`OperationsMean`), requests say what the Context says (`RequestsFaithful`), answers are true of it in the user's references (`AnswersTrue`), Z3, binbit and qfbvsmtrs read every node alike and write models that mean the assignment (`TranslationsAgree`), and answers come in the order of their requests, none twice, late by at most the calls that gave up before and by exactly those if none ended inside a frame, and show it by their ids (`AnswersLag`) |
| `main` | Every job on every backend, stopped anywhere, and every migration of up to three files: answers are true in the middle of an optimization too (`AnswersAreTrue`), cancelled and expired jobs end with their threads (`CancelledJobsEnd`), a reported migration lost nothing (`MigrationLosesNothing`) |

### Bounds, and why they are enough

- `MaxBackends` 3 (2 for the claim). Two backends show every conflict between a pair of results; a
  third is needed for an inconclusive result before *and* after the winner. With two
  every request under a budget is made; with three only SOLVE, which is enough to tell
  orders apart. All kinds of result occur in both. One backend polls its token, the others do not.
- `Conns` 3 with two permits: a permit that is lost or given twice needs one client
  more than permits, and two threads are enough for every conflict on a cache entry.
  `MaxEntries` 1 with two cacheable queries makes the cache overflow and be cleared
  under a thread that has just looked up; one query occurs under two ids and as text;
  one is too long for the cache, one has too long an answer, one does not parse.
  Connections and answers are symmetric in this run. The liveness run uses no symmetry, three
  connections and two permits, so that one client is refused or waits while the one that does
  not read holds a permit, and one frame for each; two queries overflow the cache.
- `NumVars` 3. All lists of two short clauses cover units, conflicts and contradictory
  assumptions; sets of full clauses force three nested decisions; and a binary clause
  in front of three units covers a clause falsified behind the walking index.
- `MaxGates` 5 (two constants and three gates) reaches every fold, since a fold
  looks at most at the operands of an operand; a mux of three inputs needs all of it,
  so larger circuits are left to the proof. `CheckEvery` 2 instead of 4096.
- `Width` 3 has a sign bit, a top and a bottom bit; six worlds hold two with the same
  target value. Up to three assertions over two of the worlds include cores of sizes 0 to 2 and
  redundant assertions before and after needed ones. That the lexicographic order in the
  properties is numeric order, unsigned and signed, is a theorem (`OrderIsNumeric`).

- `queries`: `ByteBits` 2 and `MaxBvWidth` 4 give values of one byte, of one and a half and
  of two; `PolyBudget` 6, `PolyDegree` and `PolyTerms` 2, `MaskDepth` 2 make the limits of the
  polynomial and mask rewrites bind. Up to three constructor calls on one or two
  variables: a rewrite looks at most two levels down, and all operators are called on
  three-bit variables and on constants. Invariants quantify over every assignment.
  `MaxEdits` 4 reaches a pop below an earlier assertion. At `MaxBvWidth` 4 the evaluator refuses an
  unsigned product overflow at width 3, whose product is over the limit, and such an arena is
  not compared; the circuit is right at every width (`UMulOverflowExact`). Scripts have up to seven commands;
  `MaxExpansion` 2 allows a macro in a macro and refuses the next level.
- `wire`: `WordBits` 2, so that constants, integers and islands meet the limit at
  width 3; `SortBit` 28 and `BlobBase` 40 leave a nearly full Context room for two more
  entries; `MaxCount` 2 assertions; `MaxId` 2 makes the counter wrap within four calls;
  `MaxPairs` 1; a byte of two bits has one-bit hexadecimal digits, so that hexadecimal and
  binary literals of a model coincide in `TranslationsAgree`;
  `MaxRumbaVariables` 2 makes an island too crowded while its operands are not.
- `main`: `Width` 2 has a sign bit and one more; all 16 sets of values are queries.
  `MaxBatch` 2 with trees of up to three files has a full batch, a last one that is not,
  and two answers for one request in one batch or in two; `MaxRuns` 2 is one rerun.

Finished calls stutter (`Quiet`, `Finished`, `Done`, `Done1`, `Over`), so deadlock is checked in
every run: the only states without another step are those of a finished call.

### Fairness

- `Racing`: the caller, the drain thread and threads outside a solver are scheduled by
  the operating system; time passes; a backend in `Cooperative` polls its token (the Z3
  watcher and the qfbvsmtrs poll loop do). **No** fairness is assumed of a solver: it
  may never return.
- `Server`: the accept loop and connection threads are scheduled, and backends return,
  which is what `DeadlineBoundsCall` says of a race with a budget. Clients may stay silent for
  ever. A write is fair only to `Readers`: without a `write_timeout`, which `main.rs` does not
  set, `write_all` waits for ever for a client that does not read, and `Served` promises such a
  client nothing after its response was made. The short error frame of a refused client fits the
  buffer of its new socket.
- `Sat`, `QfbvSolver`: the calling thread keeps running; library solvers return.
- `Backends`: the job's thread, watcher and poll loop are scheduled. A solver owes
  an answer only when it is told to stop: Z3 when its context is interrupted or its timeout
  passes, binbit at the end of a slice, the worker at its next look at its token or
  deadline (`Returns`). `CancelledJobsEnd` exempts the job whose only interrupt was lost
  between two Z3 checks: the watcher has ended, and such a job runs until Z3 answers. It
  exempts a simplification that has started, which Rumba finishes however long it takes.

## 4. Findings

Each is a disagreement between the code and the repository's documents, shown by a run
whose single property states the document's sentence.

1. `race_budget_claim`: `recv_result` compares the clock with the deadline before it
   looks at the queue, so a conclusive answer that was queued in time is dropped when
   the caller is scheduled late. `docs/architecture.md` says that UNKNOWN means no
   backend had one within the budget.
2. `server_text_claim`: an answer over `max_response_bytes` is replaced by a binary error
   frame with request id 0, for text clients too. `docs/smt-wire-protocol.md` says that
   text responses are SMT-LIB output.
3. `qfbv_core_claim`: a deletion trial that gives up keeps its assertion, and if it
   is the last trial the core is returned with an assertion that is not needed.
   `docs/qfbvsmtrs-design.md` says only needed ones are kept.

## 5. Proofs

All theorems hold for every value of the constants that satisfies the module's
assumption (`RacingAssumption`, `ServerAssumption`, `SatAssumption`, `GatesAssumption`,
`SolverAssumption`, `BytesAssumption`, `MigrationAssumption`, `ClientAssumption`, `WireAssumption`,
`ContextAssumption`): these only give constants their types, make the sets that are
counted finite, exclude the reserved id 0, and say that no backend returns the
"cancelled" UNKNOWN of its own accord. Every invariant below was model-checked before
it was proved. The type invariants, and `NoDuplicates` of the gate arena, are proved
rather than run.

**RacingProofs** (`RaceInv`). `FirstConclusiveWins` and `UnknownJustified` speak of
the final answer; to be inductive they need what the caller knows on the way:
`CallerInv` (no token is set, and there is no winner, before `cancel`), `ThreadInv`
(only started threads act, and a cancelled solver's UNKNOWN is in the channel only
after the race is decided), `WinnerInv` (nothing conclusive before the winner, or among
all that was received) and `AnswerInv` (why the caller stopped listening). From it:
`RaceTypeCorrect`, `WinnerIsFirst`, `UnknownIsJustified`, `NeverSelfCancelled`,
`ArtifactsDelivered`, and `RaceImplementsContract`, a step-by-step refinement in which
`Send` is an offer, `Return` a decision, and the panic or send of the last thread closes
the field.

**ServerProofs** (`ServerInv`). `PermitsAccounted` equates the counter with the
cardinality of the set of live threads; `TakePermit` and `DropPermit` carry it through
each action. `ResponseBelongs` needs `ThreadInv`: what a thread holds between
lookup, solve, record, insert and write fits the request it is working on. `AnswersRecorded`
needs `RecordedInv`: a thread that is past its recording has its pair in the table or knows that
the database failed, whoever recorded it. From it: `ServerTypeCorrect`, `PermitsAreAccounted`,
`CacheIsBounded`, `CacheIsSound`, `ResponsesBelong` and `AnswersAreRecorded`.

**SatProofs** (`SatInv`). The heart is `Covered`: every model of the query agrees with
the current branch or with a pending one. Taking the last branch away therefore
leaves none, which is `UnsatIsSound`. `PassInv` says that a pass that changed nothing
leaves every clause alive, so that a total assignment satisfies them all; with
`AssumedInv` the validator never rejects what DPLL found (`DpllIsComplete`).
`NothingSearchedTwice` is the counterpart of `Covered`: the branches exclude one another, because a
decision takes a variable that the branch has free and gives its two branches the two values, and
propagation only adds to a branch. `Covered` and it make the branches a partition of what is
left to search. That a returned assignment satisfies the query is the guard of `Validate`, as it is
the code's, and not stated as a property.

**GatesProofs** (`GatesInv`). `Arena` (constants first, operands before their gate, no
gate twice, inputs numbered) is what the folds rely on. `FoldingIsSound` shows for
each constructor, in every valuation consistent with the arena, that the returned gate
has the operation's value. `EncodedInv` says that the clauses so far are satisfied by
exactly the valuations correct up to `index`; at the end this is `EncodingIsExact`.
`HashConsed` is the uniqueness part of `Arena`.

The rest of **GatesProofs** is about the circuits, for every width. The vocabulary comes
first: a vector of n bits stands for one number below `TwoTo(n)` and each such number has one
vector (`NumberRange`, `NumberOneToOne`, `NumberOfBits`; `MCQueries` checks that `TwoTo` and
`Number` are the usual ones). Then each loop of `circuits.rs` has an invariant that says what the
first k rounds have computed: the carry and the sum so far are the sum of the lower bits
(`AdderExact`); the bits scanned from the top decide a comparison (`UltExact`); the remainder and
the quotient so far make up the scanned part of the dividend, and the remainder never needs
the bit that leaves at the top (`Divided`, `DivisionExact`); the partial sums are a partial
product up to a multiple of the modulus (`MulWidthExact`, `MulConstExact`); the stages taken move the bits by the
number of the amount's lower bits (`ShiftsExact`); the muxes built so far choose the first case
that holds (`SelectExact`). The signed operators follow from these through two's complement
(`SltExact`, `SDivExact`, `SRemExact`, `SModExact`, and the overflow predicates). `NodeExact`
puts them together: for every operator that has a circuit and all widths that
`WellSorted` allows, operands whose bits stand for their values give a result whose bits stand for the
value SMT-LIB gives it. `ConstantExact` is the same for the bytes of a constant. `BlastExact`
goes through the arena by its least counterexample: it is `CircuitsExact` of the run
`queries` for arenas of every length and width. Its hypothesis, that operands
come first and have the right sorts, is part of what `ArenaWellFormed` checks of every arena
that the builder makes.

**QfbvSolverProofs** (`SolverInv`). `CallInv` ties the query under way to the caller's
locals, `AnswerInv` the returned status to its truth. `HuntInv`: the worlds left are those
that agree with the optimum above `bit`, there is one, and no world is better there.
`DeletionInv`: the active assertions are contradictory and those tried are needed. From
it: `VerdictsAreTrue`, `HuntIsOptimal` for every width, `CoresSuffice`, `CoresAreMinimal`.
`OrderIsNumeric` shows that the order by the highest differing bit, with the sign bit
inverted for signed targets, is the order of the numbers the bits read (unsigned and in two's
complement), so that `HuntIsExtreme` can say that the optimum is the least or the
greatest number; `MCQfbvSolver` checks that the reading is the sum of the powers.

**MainProofs** (`MainInv`). `MigrationLosesNothing` speaks of the moment of the report.
While the tree is scanned, `ReadIsKept` says that every importable file scanned and read is
in the table or in the batch, `AllCounted` that the counts and the batch add up to the files
scanned, `BatchImportable` that a batch holds only such files, and `NoBatchLeft` that none is
left at the end. That `INSERT OR IGNORE` of a batch adds as many rows as it has new requests
rests on a lemma about the least element of a set of numbers. The theorem,
`MigrationLosesNothingEver`, holds for every tree, batch size and number of runs.
`AnswersAreTrueEver` is about the jobs (`BackendsInv`): `PlaceInv` says which threads work
for which backend, `HuntInv` that Z3's bits so far are led by some model and bettered by
none above `bit`, whichever direction the sign bit is hunted in. An answer in the middle of
a hunt, at a cancellation or a timeout, can therefore only be UNKNOWN. It holds for every
width and every set of models.

**ConnectionProofs** (`ConnectionInv`). `FlightInv` says that what is not yet answered and
what is not yet read are, together and in order, the last requests that were written; `LagInv`
that there are no more of them than calls gave up, with one for the call that waits, and exactly as
many while no call ended inside a frame; `IdsInv` that the counter is
the number of ids taken modulo `MaxId` and that the requests' ids were taken in order. From it
`AnswersLagEver`, over any client and any server that answers in order under the request's
id or, when it cannot read the request, under 0. The proof corrected the property: it used to count
requests, but a call that is refused takes an id and writes nothing, so that two requests
next to each other on the stream can have the same id when the ids between them were used
up by refusals. `AnswersLag` now counts the ids taken in between.

**WireProofs** (`BuilderInv`). That a buffer passes validation is not inductive: the
validation asks for one signature per symbol, which an operation can only keep if the
builder's maps know every variable node (`SymbolsInv`); operands are valid only while the
tables grow at their ends (`TablesInv`, and the lemmas `...Kept`); and a pop leaves a valid
query only if the scopes are ordered (`QueryInv`). There is one lemma for each way of
growing (`PushBlob`, `AppendChildren`, `AppendNode`, `PushNode`: the second is what an operation
leaves that fails between its children and its node), and on these one lemma per constructor,
derived operator and query operation. `BufferValidEver` follows for every limit of the
tables, every width and every sequence of calls. `FromBytesKeeps` shows that a
`Context` made from validated bytes, as the client makes of a simplified term, is one that
`ContextAssumption` allows to start from.

On top of `BuilderInv`, what a request says. The marking pass leaves a set that contains the
roots and, with a node, its operands (`ClosedAfter`); the numbering is one-to-one and keeps the
order of the marked nodes, so that the copy of a node is found at its new number and its
operands still precede it. From these two facts: `CompactIsValid` (the server accepts the
compacted buffer, and the code's error for a live node with a child that is not live is
never reached), `CompactRoundTrip` (`remap_ref` and `original_ref` are inverse) and `CompactUnfolds`
(a reference unfolds to the same term, to any depth). `build_request` puts named assertions in front: the proof
follows its loop by a permutation of the assertions that grows with it, and from it come
`RequestSays` (each assertion under its name and as often, assumptions and target
as they were, nothing that is not needed, accepted by `validate_request`) and
`RequestAccepted` (a request is refused only for an ambiguous core or a count that does not
fit). To be inductive, `QueryInv` had to say that the name of an assertion is a text in the blob.
`RequestsSayEver` states both of every state of `ContextSpec`: it is `RequestsFaithful`
without its last part, that the server lowers the request without an error.

**Recursion.** Facts about recursive functions (the marking, the numbering, the copy, the
unfolding and the partition of `WireProofs`, the loops and the two walks of the arena of
`GatesProofs`, the reading of `QfbvSolverProofs`) are proved by their least
counterexample (`LeastNumber`, `Climb`), which is a set of numbers and needs no theorem with an
operator parameter. That a recursive definition satisfies its equation is not taken
from the prover either (its SMT translation expands such a definition as if it always had a
solution): each of these lemmas (`PowersAre`, `CarriesAre`, `BlastIs` and the like) builds a
solution, round by round, and only then unfolds the definition.

The client theorems are about the parts of `WireClient`, whose own specification cannot be
reasoned about (below). They carry over by its form: every step of it leaves the
Context's variables alone or is a step of `ContextNext`, and leaves the connection's alone or is one
of `Connection`'s actions with the request's id.

**Only model-checked:**

- liveness (`DeadlineBoundsCall`, `LosersStop`, `DisagreementReported`, `Served`, `Terminates`,
  `Returns`, `CancelledJobsEnd`), because the prover has no rules for fairness and ENABLED;
- the violated claims;
- `ArenaWellFormed`, `RewritesPreserveMeaning`, `ScriptsMean`, `AnswersTrue` and
  `TranslationsAgree`, and the lowering of a request at the end of `RequestsFaithful`: the term
  constructors call one another, as do the lowering of terms and the walk of the
  simplifier, and recursive operators are out of the prover's reach. The rest of
  `RequestsFaithful` is `RequestsSayEver`;
- `OperationsMean`, which is stated in `WireClient` and so beside all of these; what is
  proved of the same operations is that they leave a valid buffer (`BufferValidEver`);
- `EvaluatorExact` and `QueryAgrees`: the evaluator's byte arithmetic is written with the folds of
  the library over operators, which no lemma can be stated about. `QueryAgrees` rests on it on
  one side; on the other, `BlastExact` is about the whole arena and not about the choice of
  what is blasted;
- `CircuitsExact` as an invariant of `Queries`, since `Queries` reaches the recursive constructors;
  `BlastExact` is its content.

## 6. Not modelled

- Solver libraries (Z3, binbit, Rumba, splr, varisat) are external and appear as their
  possible answers. SQLite is a table with `INSERT OR IGNORE`. Hashes are taken as injective.
- Lexing, parsing of S-expressions, the byte layout of messages, printing, command lines,
  environment variables and logging are left out: a script is a sequence of parsed
  commands, a message a record.
- The **shortcuts** of qfbvsmtrs (`solver/shortcuts/*.rs` but `engine.rs`) recognise whole
  benchmark formulas, far larger than an instance TLC can enumerate. `QfbvSolver` takes a
  shortcut to be any answer and says in which modes that does no harm.
- The **server's text sink** (`WireSmtLibSink` of `smtlib.rs`): the reader is modelled on
  the sink of qfbvsmtrs, which has the same interface. The printing of `smt2.rs` is not.
- The **pool** chooses a backend by a hash and has no state.
- The **Python** and **C++ clients** write the same protocol as the Rust client; the Python
  `Z3Server` is a development server.
- Memory exhaustion and poisoned mutexes are not modelled.

Behaviours the models keep as they are, and a reader may want to know:

- a negative integer operand is cast to 64 bits before its width is known, so that at larger
  widths it is zero-extended (`IntValue` of `WireClient`);
- Z3's interrupt may be lost, and Rumba is never interrupted (`CancelledJobsEnd`);
- with one backend a request is passed through, without a budget and without a look at the
  artifacts (`SingleBackend`; the properties of a race exempt it);
- a script with several checks is answered once, at its end (`ScriptsMean`);
- the model query of `optimize` does not ask for a model itself, so that variables the query
  does not need have no value in it; they are read as zero (`fix_target`);
- a client that gave up inside a frame goes on reading from there (`ReadGarbled`).

Two simplifications that no property can tell from the code: `ConstNumber` of `WireContext` masks a
wide constant that the builder has masked already, where `api.rs` returns the bytes; and `Literal` of
`Translations` has no decimal literals, which Z3 does not print for a bit vector.

## 7. Plan

1. **Compositions**: `Server` over real races (deadline to response); `QfbvSolver` over
   `Gates` and `Sat`; `Racing` over `Backends`, so that `Cooperative` is derived.
2. **Theorems**: an abstract specification of the cache (an answer for a key, or a miss) that
   `Server` implements; the byte arithmetic of `Bytes` with its folds as loops, on the
   pattern of `Circuits`, which would give `EvaluatorExact` and with `BlastExact` the agreement
   of the evaluator and the circuits for every width; the order of the numbers for `Backends` as
   for `QfbvSolver`.
3. **Python `Z3Server`**: start, serve and stop with connections open.
4. **The text sink** of the server, against the same specification of scripts.
5. **Shortcuts** whose soundness is a law of arithmetic (overflow guards, division and
   remainder, popcount), one law at a time.
