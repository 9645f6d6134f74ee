----------------------------- MODULE WireServer ------------------------------
(***************************************************************************)
(* The server's binary handlers (smt-server protocol.rs): a parsed request *)
(* goes to a backend, and what the backend returns is checked against the  *)
(* request and becomes a response.  The backend is any of the solvers on   *)
(* its own reading of the request (modules WireLowering, Translations) or  *)
(* the simplifier (module Rumba): its verdicts are true of what it read,   *)
(* but a backend that is not raced may leave out a block or return one     *)
(* that does not fit the request.                                          *)
(***************************************************************************)
EXTENDS Rumba

NoBlock == [kind |-> "empty"]
Message == [kind |-> "message"]

ModelBlock(entries)         == [kind |-> "model", entries |-> entries]
UnsatCoreBlock(names)       == [kind |-> "core", names |-> names]
SimplifyBlock(expr, target) == [kind |-> "simplified", expr |-> expr, target |-> target]

QueryResult(status, model, core, simplify, optimum) ==
  [status |-> status, model |-> model, core |-> core, simplify |-> simplify, optimum |-> optimum]
Verdict(status) == QueryResult(status, NoBlock, NoBlock, NoBlock, NoBlock)

------------------------------------------------------------------------------
(* What a backend may return.                                              *)

\* What an assignment does in a backend's reading of a request: which roots and
\* assumptions hold, what the target is, and the model it would send.
Read(holds, assumed, objective, entries) ==
  [holds |-> holds, assumed |-> assumed, objective |-> objective, entries |-> entries]

ReadTranslated(backend, r, m, t) ==
  Read([k \in DOMAIN r.assertions |-> t[Index(r.assertions[k]) + 1]],
       \A k \in DOMAIN r.assumptions : t[Index(r.assumptions[k]) + 1],
       IF r.command \in Optimizing THEN t[Index(r.target) + 1] ELSE None,
       build_model(backend, r.expr, m))
TranslatedReadings(backend, r) ==
  {ReadTranslated(backend, r, m, translate(backend, r.expr, m)) : m \in Assignments(r.expr)}

QueryEnvs(q)   == LET width == Max({1} \cup {q.arena[i].w : i \in S!VariablesOf(q.arena)})
                  IN  {e \in [S!VariablesOf(q.arena) -> Numbers(width)] :
                         \A i \in DOMAIN e : e[i] \in Numbers(q.arena[i].w)}

\* When a model is asked for it has every variable of the query, needed or not.
ReadLowered(r, q, e, d) ==
  Read([k \in DOMAIN q.assertions |-> d[q.assertions[k].root]],
       \A k \in DOMAIN q.assumptions : d[q.assumptions[k]],
       IF q.target = S!None THEN None ELSE d[q.target],
       model_to_wire_for_request(q.arena, e, r.expr))
ReadQuery(r, q) == {ReadLowered(r, q, e, S!denote(q.arena, e)) : e \in QueryEnvs(q)}
LoweredReadings(r) == ReadQuery(r, query_from_wire(r))

Solvers == {"z3", "binbit", "qfbvsmtrs"}
Readings(backend, r) == IF backend = "qfbvsmtrs" THEN LoweredReadings(r) ELSE TranslatedReadings(backend, r)

Rank(r, v) == IF "SIGNED" \in r.flags THEN S!Signed(v, WidthOf(r.expr, r.target)) ELSE v

AtRank(r, models, rank) == {x \in models : Rank(r, x.objective) = rank}
Best(r, models) ==
  AtRank(r, models, IF r.command = "Minimize" THEN Min({Rank(r, x.objective) : x \in models})
                    ELSE Max({Rank(r, x.objective) : x \in models}))

\* build_core of z3_backend.rs, unsat_core_names of binbit: the names of tracked
\* assertions that, with those that have no name, no assignment satisfies.
Cores(r, readings) ==
  {[k \in 1 .. Cardinality(kept) |-> AssertionNames(r)[CHOOSE i \in kept : Cardinality({j \in kept : j < i}) = k - 1]]
     : kept \in {K \in SUBSET DOMAIN r.names :
                  \A x \in readings : ~ (/\ x.assumed /\ \A k \in K : x.holds[k]
                                         /\ \A k \in DOMAIN r.assertions \ DOMAIN r.names : x.holds[k])}}

\* A model with a value for something that is not a variable of the request.
StrayModel == ModelBlock(<<[ref |-> NodeRef("bv", SortBit - 1), value |-> BvScalar(0, 1)]>>)

SatResults(x, optima) ==
  {QueryResult("Sat", model, NoBlock, NoBlock, optimum) :
     model \in {NoBlock, ModelBlock(x.entries), StrayModel}, optimum \in optima}
UnsatResults(cores) ==
  {QueryResult("Unsat", NoBlock, core, NoBlock, NoBlock) :
     core \in {NoBlock, UnsatCoreBlock(<<<<0, 0>>>>)} \cup {UnsatCoreBlock(c) : c \in cores}}
ResultsWith(r, readings, models) ==
  IF models = {} THEN UnsatResults(Cores(r, readings))
  ELSE IF r.command = "Solve" THEN UNION {SatResults(x, {NoBlock}) : x \in models}
  ELSE UNION {SatResults(x, {NoBlock, BvScalar(x.objective, WidthOf(r.expr, r.target))}) : x \in Best(r, models)}
ResultsOf(r, readings) ==
  ResultsWith(r, readings, {x \in readings : x.assumed /\ \A k \in DOMAIN x.holds : x.holds[k]})
SolverResults(backend, r) == ResultsOf(r, Readings(backend, r))

SimplifierResults(r) ==
  {QueryResult("Simplified", NoBlock, NoBlock, SimplifyBlock(s.expr, s.target), NoBlock) :
     s \in simplify_request(r) \cup {[expr |-> r.expr, target |-> NodeRef("bv", SortBit - 1)]}}

Results(r) ==
  {Verdict("Err"), Verdict("Unknown"), Verdict("Simplified")} \cup
  (IF r.command = "Simplify" THEN SimplifierResults(r) ELSE UNION {SolverResults(x, r) : x \in Solvers})

------------------------------------------------------------------------------
(* The handlers.                                                           *)

validate_model(r, block) == validate_against_expr(block.entries, r.expr)

validate_unsat_core(r, block) ==
  /\ Range(block.names) \subseteq Range(AssertionNames(r))
  /\ IsInjective(block.names)

validate_simplify(r, block) ==
  /\ validate_simplified(block)
  /\ validate_node_ref(block.expr, block.target, SortOf(r.target))
  /\ WidthOf(block.expr, block.target) = WidthOf(r.expr, r.target)

validate_optimization(r, optimum, model) ==
  /\ validate_scalar(optimum)
  /\ optimum.width = WidthOf(r.expr, r.target)
  /\ model # NoBlock => validate_against_expr(model.entries, r.expr)

Reply(id, status, flags, block) == [id |-> id, status |-> status, flags |-> flags, block |-> block]
Error(id) == Reply(id, "Error", {"HAS_MESSAGE"}, Message)

unknown_reply(r) == Reply(r.id, "Unknown", {}, NoBlock)

solve_reply(r, result) ==
  LET wantModel == "WANT_MODEL" \in r.flags
      wantCore  == "WANT_CORE" \in r.flags
      badModel  == result.model = NoBlock \/ ~ validate_model(r, result.model)
      badCore   == result.core = NoBlock \/ ~ validate_unsat_core(r, result.core)
  IN  CASE result.status = "Sat" /\ ~ wantModel   -> Reply(r.id, "Sat", {}, NoBlock)
        [] result.status = "Sat" /\ wantModel     ->
             IF badModel THEN Error(r.id) ELSE Reply(r.id, "Sat", {"HAS_MODEL"}, result.model)
        [] result.status = "Unsat" /\ ~ wantCore  -> Reply(r.id, "Unsat", {}, NoBlock)
        [] result.status = "Unsat" /\ wantCore    ->
             IF badCore THEN Error(r.id) ELSE Reply(r.id, "Unsat", {"HAS_CORE"}, result.core)
        [] result.status = "Unknown"    -> unknown_reply(r)
        [] result.status = "Simplified" -> Error(r.id)

\* A result that lacks the block its status promises is an error of the
\* handler itself, which dispatch_payload answers under the id 0.
simplify_reply(r, result) ==
  CASE result.status = "Simplified" ->
         IF result.simplify = NoBlock THEN Error(0)
         ELSE IF ~ validate_simplify(r, result.simplify) THEN Error(r.id)
         ELSE Reply(r.id, "Simplified", {"HAS_EXPR"}, result.simplify)
    [] result.status = "Unknown" -> unknown_reply(r)
    [] OTHER -> Error(r.id)

optimize_reply(r, result) ==
  LET wantModel == "WANT_MODEL" \in r.flags
      model     == IF wantModel THEN result.model ELSE NoBlock
  IN  CASE result.status = "Sat" ->
             IF result.optimum = NoBlock THEN Error(0)
             ELSE IF (wantModel /\ result.model = NoBlock) \/ ~ validate_optimization(r, result.optimum, model)
             THEN Error(r.id)
             ELSE Reply(r.id, "Sat", {"HAS_VALUE"} \cup (IF wantModel THEN {"HAS_MODEL"} ELSE {}),
                        [kind |-> "value", optimum |-> result.optimum,
                         entries |-> IF wantModel THEN model.entries ELSE <<>>])
        [] result.status = "Unsat"      -> Reply(r.id, "Unsat", {}, NoBlock)
        [] result.status = "Unknown"    -> unknown_reply(r)
        [] result.status = "Simplified" -> Error(r.id)

handle_binary_request(r, result) ==
  IF result.status = "Err" THEN Error(r.id)
  ELSE CASE r.command = "Solve"    -> solve_reply(r, result)
         [] r.command = "Simplify" -> simplify_reply(r, result)
         [] OTHER                  -> optimize_reply(r, result)

\* handle_binary_frame: what the server cannot parse is answered under the id 0.
Answers(r) ==
  IF ~ validate_request(r) THEN {Error(0)}
  ELSE {handle_binary_request(r, result) : result \in Results(r)}
==============================================================================
