----------------------------- MODULE WireClient ------------------------------
(***************************************************************************)
(* The Rust client of smt-wire (api.rs): a user builds terms in a Context  *)
(* (module WireContext) and makes blocking calls over one connection       *)
(* (module Connection); the server at its other end answers by the         *)
(* handlers of WireServer.                                                 *)
(***************************************************************************)
EXTENDS WireServer, WireContext, Connection

VARIABLE rounds     \* requests left to the user

vars == <<contextVars, connectionVars, rounds>>

Init == /\ ContextInit /\ ConnectionInit
        /\ \E s \in Seeds : s.b = b /\ s.ops = ops /\ s.calls = calls /\ rounds = s.rounds

\* The Context, between two calls.
UseContext == Idle /\ UNCHANGED <<connectionVars, rounds>>

------------------------------------------------------------------------------
(* The client's calls.                                                     *)

request_id == next_request_id

\* A request that is refused here is never written.
Begin(flags, target, built) ==
  /\ rounds > 0 /\ rounds' = rounds - 1
  /\ IF built.request = NoRequest THEN Refuse(flags)
     ELSE Write(built.request, [compacted |-> built.compacted, target |-> target])
  /\ UNCHANGED contextVars
Unbuilt == [request |-> NoRequest]
Send(command, flags, target) ==
  Begin(flags, target, IF target = None \/ meta_for(b, target)
                       THEN build_request(b, request_id, command, flags, target) ELSE Unbuilt)

solve == "solve" \in ops /\ Send("Solve", {"WANT_MODEL"}, None)
solve_with_options ==
  "solve_with_options" \in ops /\ \E flags \in SUBSET {"WANT_MODEL", "WANT_CORE"} : Send("Solve", flags, None)
simplify == "simplify" \in ops /\ \E target \in Bvs \cup Bools : Send("Simplify", {}, target)
\* minimize_with_options and maximize_with_options
optimize_with_options ==
  "optimize" \in ops /\ \E target \in Bvs, command \in Optimizing, flags \in SUBSET {"SIGNED", "WANT_MODEL"} :
    Send(command, flags, target)

\* The server answers the requests of a connection in order.
Answer ==
  /\ queue # <<>> /\ \E reply \in Answers(Head(queue).request) : AnswerWith(reply)
  /\ UNCHANGED <<contextVars, rounds>>

------------------------------------------------------------------------------
\* model_from_block: the values by the Context's references, NoModel where an
\* entry does not name a variable of the request with that width.
NoModel == [ok |-> FALSE]

\* Mutant of model_from_block: the references of the request are taken for the Context's.
model_as_sent(entries) ==
  LET fits(k) == /\ Index(entries[k].ref) + 1 \in DOMAIN b.nodes
                 /\ NodeAt(b, entries[k].ref).tag \in VarTags
                 /\ entries[k].value.width = NodeAt(b, entries[k].ref).width
  IN  IF \A k \in DOMAIN entries : fits(k)
      THEN [ok |-> TRUE, values |-> [ref \in {entries[k].ref : k \in DOMAIN entries} |->
              ScalarNumber(entries[CHOOSE k \in DOMAIN entries : entries[k].ref = ref].value)]]
      ELSE NoModel

model_from_block(entries) ==
  LET old(k) == original_ref(call.note.compacted, entries[k].ref)
      fits(k) == /\ old(k) # None
                 /\ NodeAt(b, old(k)).tag = (IF SortOf(old(k)) = "bool" THEN "BoolVar" ELSE "BvVar")
                 /\ entries[k].value.width = NodeAt(b, old(k)).width
  IN  IF \A k \in DOMAIN entries : fits(k)
      THEN [ok |-> TRUE, values |-> [ref \in {old(k) : k \in DOMAIN entries} |->
              ScalarNumber(entries[CHOOSE k \in DOMAIN entries :
                old(k) = ref /\ \A j \in DOMAIN entries : old(j) = ref => j <= k].value)]]
      ELSE NoModel

\* What a call makes of a response.
Answered(frame, model, optimum, context) ==
  Returned(frame,
    [status |-> frame.reply.status, asked |-> b, target |-> call.note.target,
     core |-> IF "HAS_CORE" \in frame.reply.flags THEN frame.reply.block.names ELSE <<>>,
     model |-> model, optimum |-> optimum, context |-> context])

WithModel(frame, optimum) ==
  IF "HAS_MODEL" \notin frame.reply.flags THEN Answered(frame, NoModel, optimum, NewBuilder)
  ELSE LET model == model_from_block(frame.reply.block.entries)
       IN  IF model = NoModel THEN Failed ELSE Answered(frame, model, optimum, NewBuilder)

solve_response(frame) ==
  CASE frame.reply.status \in {"Error", "Unknown", "Unsat"} -> Answered(frame, NoModel, None, NewBuilder)
    [] frame.reply.status = "Sat" ->
         IF "HAS_VALUE" \in frame.reply.flags THEN Failed ELSE WithModel(frame, None)
    [] frame.reply.status = "Simplified" -> Failed

simplify_response(frame) ==
  CASE frame.reply.status \in {"Error", "Unknown"} -> Answered(frame, NoModel, None, NewBuilder)
    [] frame.reply.status = "Simplified" ->
         Answered(frame, NoModel, frame.reply.block.target, from_expression_bytes(frame.reply.block.expr))
    [] OTHER -> Failed

optimization_response(frame) ==
  CASE frame.reply.status \in {"Error", "Unknown", "Unsat"} -> Answered(frame, NoModel, None, NewBuilder)
    [] frame.reply.status = "Sat" ->
         IF "HAS_VALUE" \notin frame.reply.flags THEN Failed
         ELSE WithModel(frame, ScalarNumber(frame.reply.block.optimum))
    [] frame.reply.status = "Simplified" -> Failed

Read1 ==
  LET frame == Head(stream)
  IN  /\ ~ Idle /\ stream # <<>>
      /\ Receive(IF ~ validate_response(frame.reply) THEN Failed
                 ELSE CASE call.request.command = "Solve"    -> solve_response(frame)
                        [] call.request.command = "Simplify" -> simplify_response(frame)
                        [] OTHER                             -> optimization_response(frame))
      /\ UNCHANGED <<contextVars, rounds>>

\* The calls that fail while they read.
Lose == UNCHANGED <<contextVars, rounds>>

Done1 == /\ Idle /\ (calls = 0 \/ rounds = 0) /\ UNCHANGED vars

Next ==
  \/ (UseContext /\ Declare) \/ (UseContext /\ Constant) \/ (UseContext /\ ConstantWide)
  \/ (UseContext /\ Truth) \/ (UseContext /\ Unary) \/ (UseContext /\ Negation)
  \/ (UseContext /\ Arithmetic) \/ (UseContext /\ Compare) \/ (UseContext /\ Overflows)
  \/ (UseContext /\ BoolBinary) \/ (UseContext /\ Xor) \/ (UseContext /\ Extract)
  \/ (UseContext /\ Concat) \/ (UseContext /\ Amount) \/ (UseContext /\ Ite)
  \/ (UseContext /\ Select) \/ (UseContext /\ AssertTerm) \/ (UseContext /\ AssertNamed)
  \/ (UseContext /\ AssertMutex) \/ (UseContext /\ Assume) \/ (UseContext /\ ClearAssumptions)
  \/ (UseContext /\ Push) \/ (UseContext /\ Pop) \/ (UseContext /\ Reset)
  \/ solve \/ solve_with_options \/ simplify \/ optimize_with_options \/ Answer \/ Read1
  \/ (Lose /\ TimeOut) \/ (Lose /\ ReadPart) \/ (Lose /\ ReadGarbled) \/ Done1

Spec == Init /\ [][Next]_vars
------------------------------------------------------------------------------
(* What the user's terms mean.                                             *)

Symbols(c)  == {[name |-> blob_ref(c, n.payload), width |-> n.width] :
                n \in {m \in Range(c.nodes) : m.tag \in VarTags}}
UserEnvs(c) == LET symbols == Symbols(c)
                   width   == Max({1} \cup {s.width : s \in symbols})
               IN  {e \in [symbols -> Numbers(width)] : \A s \in symbols : e[s] \in Numbers(s.width)}

\* The value of every node, by position, under an assignment of the symbols.
UserMeaning(c, env) ==
  LET d[i \in DOMAIN c.nodes] ==
        LET node == c.nodes[i]
            kids == ChildrenOf(c, node)
        IN  CASE node.tag = "BvConst"   -> ConstNumber(c, node)
              [] node.tag = "BoolTrue"  -> TRUE
              [] node.tag = "BoolFalse" -> FALSE
              [] node.tag = "BvVar"     -> env[[name |-> blob_ref(c, node.payload), width |-> node.width]]
              [] node.tag = "BoolVar"   -> env[[name |-> blob_ref(c, node.payload), width |-> 0]] = 1
              [] OTHER -> S!Meaning(node.tag, [k \in DOMAIN kids |-> d[Index(kids[k]) + 1]],
                                    IF node.tag = "BvExtract" THEN <<node.hi, node.lo>> ELSE <<node.hi>>,
                                    WidthOf(c, kids[1]), WidthOf(c, Last(kids)))
  IN  d

\* What the last operation was asked for: it must fail exactly when the
\* operands do not fit, and otherwise mean this.
Asked(op) == IF op \in DOMAIN Reversed THEN Reversed[op]
             ELSE IF op = "ConstantWide" THEN "Constant" ELSE op

ArgWidth(k) == LET x == last.args[k]
               IN  IF x.kind = "int" THEN WidthOf(b, last.args[1].ref) ELSE WidthOf(b, x.ref)

\* An integer operand is taken modulo 2^w; a negative one, cast to u64 before
\* its width is known, keeps only WordBits bits of its sign.
IntValue(v, w) == IF v >= 0 \/ w <= WordBits THEN v % 2 ^ w ELSE v % 2 ^ WordBits

ArgValue(k, d) == LET x == last.args[k]
                  IN  IF x.kind = "int" THEN IntValue(x.v, ArgWidth(k)) ELSE d[Index(x.ref) + 1]

Fits ==
  LET w(k) == ArgWidth(k)
      all  == DOMAIN last.args
  IN  /\ \A k \in all : last.args[k].kind = "term" => meta_for(b, last.args[k].ref)
      /\ CASE last.op = "Declare"      -> last.par[2] <= MaxBvWidth
        [] last.op = "Constant"     -> ValidWidth(last.par[2])
        [] last.op = "Truth"        -> TRUE
        [] last.op = "ConstantWide" -> last.par[3] = NumBytes(last.par[2])
        [] last.op \in BoolPairs \cup {"BoolNot", "BoolEq", "BoolXor", "Assert", "AssertNamed", "AssertMutex", "Assume"}
             -> \A k \in all : w(k) = 0
        [] last.op \in UnaryTags \cup {"NegOverflow", "BvRotateLeft", "BvRotateRight"} -> w(1) > 0
        [] last.op = "BvExtract" -> last.par[1] < w(1) /\ last.par[2] <= last.par[1]
        [] last.op = "BvConcat"  -> w(1) + w(2) <= MaxBvWidth
        [] last.op \in ExtendTags -> w(1) + last.par[1] <= MaxBvWidth
        [] last.op = "BvIte"     -> w(1) = 0 /\ w(2) = w(3)
        [] last.op = "BvSelect"  -> /\ last.par[1] <= MaxPairs
                                    /\ \A k \in all : w(k) = IF k % 2 = 1 /\ k < Len(last.args) THEN 0
                                                            ELSE w(Len(last.args))
        [] OTHER -> w(1) = w(2)

\* The tables of nodes and children and the blob had room for what the last
\* operation adds.
Room == Len(b.nodes) + 1 < SortBit /\ Len(b.children) < BlobBase /\ Len(b.blob) + NumBytes(MaxBvWidth) < BlobBase

\* A Context operation succeeds exactly when its operands fit, and its result
\* means, under every assignment, what the operator means of the operands: the
\* derived operators (=, xor, ite, the rotations, > and >=), the selectors'
\* priority, the integers that become constants.
OperationsMean ==
  /\ last.op \in BinaryTags \cup CompareTags \cup DOMAIN Reversed \cup UnaryTags \cup ExtendTags \cup BoolPairs
                 \cup {"Constant", "ConstantWide", "Truth", "NegOverflow", "BoolNot", "BvNe", "BoolEq", "BoolXor",
                       "BvIte", "BvExtract", "BvConcat", "BvSelect", "BvRotateLeft", "BvRotateRight",
                       "Assert", "AssertNamed", "AssertMutex", "Assume"} =>
       (last.ref # None => Fits) /\ (Fits /\ Room => last.ref # None)
  /\ last.ref # None /\ last.op \in {"Constant", "ConstantWide"} =>
       ConstNumber(b, NodeAt(b, last.ref)) = IntValue(last.par[1], last.par[2]) % 2 ^ last.par[2]
  /\ last.ref # None /\ last.op = "Truth" =>
       \A env \in UserEnvs(b) : UserMeaning(b, env)[Index(last.ref) + 1] = last.par[1]
  /\ last.ref # None /\ last.op \notin {"Constant", "ConstantWide", "Truth", "Declare", "Assert", "AssertNamed", "AssertMutex",
                                       "Assume", "ClearAssumptions", "Push", "Pop", "Reset"} =>
       \A env \in UserEnvs(b) :
         LET d == UserMeaning(b, env)
             v == [k \in DOMAIN last.args |-> ArgValue(k, d)]
         IN  d[Index(last.ref) + 1]
               = S!Meaning(Asked(last.op), IF last.op \in DOMAIN Reversed THEN <<v[2], v[1]>> ELSE v,
                           last.par, ArgWidth(1), ArgWidth(Len(last.args)))
  /\ last.ref # None /\ last.op = "AssertMutex" =>
       \A env \in UserEnvs(b) :
         LET d == UserMeaning(b, env)
             added == {k \in DOMAIN b.assertions : k > Len(b.assertions) - 3}
         IN  (\A k \in added : d[Index(b.assertions[k].root) + 1])
               = (Cardinality({k \in 1 .. 3 : ArgValue(k, d)}) <= 1)

------------------------------------------------------------------------------
\* A request says what the Context says: the same terms under the same names,
\* as often, whatever is dropped, renumbered and reordered on the way, with
\* nothing in it that no root needs; and the server's solver accepts it.  It is
\* refused before it is sent only for a core with ambiguous names, or where a
\* count does not fit.
RequestsFaithful ==
  /\ call # NoCall =>
       /\ validate_request(call.request)
       /\ SaysTheSame(b, call.request, call.note.target)
       /\ query_from_wire(call.request).ok
  /\ outcome.kind = "refused" /\ last = NoOp =>
       \/ "WANT_CORE" \in outcome.why /\ HasDuplicates(b)
       \/ Len(b.assertions) > MaxCount \/ Len(b.assumptions) > MaxCount

Own == outcome.kind = "answer" /\ outcome.of = outcome.n

Holds(c, d) == /\ \A k \in DOMAIN c.assertions : d[Index(c.assertions[k].root) + 1]
               /\ \A k \in DOMAIN c.assumptions : d[Index(c.assumptions[k]) + 1]

\* The answer to a call's own request is true of the Context that was asked
\* about: a model gives every symbol the query needs a value and satisfies the
\* assertions and assumptions, by the user's own references; unsat means that
\* no assignment does, and a core names assertions that already exclude every
\* assignment with the anonymous ones and the assumptions; an optimum is
\* attained and not exceeded; a simplified term means what the target means.
AnswersTrue ==
  Own =>
    LET a == outcome.value
        c == a.asked
        models == {env \in UserEnvs(c) : Holds(c, UserMeaning(c, env))}
        value(ref, env) == UserMeaning(c, env)[Index(ref) + 1]
        rank(v) == IF "SIGNED" \in outcome.request.flags THEN S!Signed(v, WidthOf(c, a.target)) ELSE v
        values == {value(a.target, env) : env \in models}
        agrees(env) == \A ref \in DOMAIN a.model.values :
                         env[[name |-> blob_ref(c, NodeAt(c, ref).payload), width |-> NodeAt(c, ref).width]]
                           = a.model.values[ref]
    IN  /\ a.status = "Unsat" => models = {}
        /\ IsInjective(a.core)
        /\ \A j \in DOMAIN a.core :
             \E k \in DOMAIN c.assertions : c.assertions[k].name # None /\ blob_ref(c, c.assertions[k].name) = a.core[j]
        /\ a.status = "Unsat" /\ "WANT_CORE" \in outcome.request.flags =>
             \A env \in UserEnvs(c) :
               LET d == UserMeaning(c, env)
               IN  \/ \E k \in DOMAIN c.assertions :
                        /\ c.assertions[k].name = None \/ blob_ref(c, c.assertions[k].name) \in Range(a.core)
                        /\ ~ d[Index(c.assertions[k].root) + 1]
                   \/ \E k \in DOMAIN c.assumptions : ~ d[Index(c.assumptions[k]) + 1]
        /\ a.status = "Sat" => models # {}
        /\ a.model.ok =>
             \A env \in UserEnvs(c) :
               agrees(env) => /\ env \in models
                              /\ a.target # None => value(a.target, env) = a.optimum
        /\ a.status = "Sat" /\ a.target # None =>
             /\ a.optimum \in values
             /\ \A v \in values : IF outcome.request.command = "Minimize" THEN rank(a.optimum) <= rank(v)
                                  ELSE rank(a.optimum) >= rank(v)
        /\ a.status = "Simplified" =>
             /\ validate(a.context)
             /\ \A env \in UserEnvs(c) :
                  UserMeaning(a.context, [s \in Symbols(a.context) |-> env[s]])[Index(a.optimum) + 1]
                    = value(a.target, env)

SymbolAt(i) == [name |-> blob_ref(b, b.nodes[i].payload), width |-> b.nodes[i].width]
Tells(entries, env) ==
  \A k \in DOMAIN entries : ScalarNumber(entries[k].value) = env[SymbolAt(Index(entries[k].ref) + 1)]
\* The readings of one assignment: m and e give it to the adapters' constants
\* and to the arena's variables.
SameValues(terms, mean, z3, binbit, d) ==
  \A i \in DOMAIN b.nodes : z3[i] = mean[i] /\ binbit[i] = mean[i] /\ d[terms[i]] = mean[i]
AgreeOn(lowered, env, m, e) ==
  /\ SameValues(lowered.terms, UserMeaning(b, env), translate("z3", b, m), translate("binbit", b, m),
                S!denote(lowered.n, e))
  /\ Tells(build_model("z3", b, m), env)
  /\ Tells(build_model("binbit", b, m), env)
  /\ Tells(model_to_wire(lowered.n, e), env)
  /\ Tells(model_to_wire_for_request(lowered.n, e, b), env)
ReadAlike(lowered) ==
  \A env \in UserEnvs(b) :
    AgreeOn(lowered, env, [i \in Constants(b) |-> env[SymbolAt(i)]],
            [i \in S!VariablesOf(lowered.n) |-> env[[name |-> lowered.n[i].par[1], width |-> lowered.n[i].w]]])

\* The backends that race solve the same problem: whatever a user has built when
\* it sends its first request, under every assignment of its symbols, each node
\* means in Z3's reading, in binbit's and in the solver's lowered arena what it
\* means to the user, and the model that each would write says the assignment.
TranslationsAgree ==
  Idle /\ outcome = NoOutcome => ReadAlike(lower_nodes(b))
==============================================================================
