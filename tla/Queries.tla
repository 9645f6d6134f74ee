------------------------------- MODULE Queries -------------------------------
(***************************************************************************)
(* A qfbvsmtrs query under construction (builder.rs Builder), and the two  *)
(* ways the solver gives it a meaning: evaluate (eval.rs), which the       *)
(* shortcuts use to try candidate assignments, and blast_query (blast.rs), *)
(* which turns it into gates for the SAT solver.  Module BitVectors is the *)
(* specification of both and of the builder's rewrites.                    *)
(***************************************************************************)
EXTENDS Semantics

CONSTANTS Seeds,      \* [arena, ops, calls]: the terms a caller starts from, the
                      \* constructors it goes on to call, and how often
          MaxEdits,   \* bound: assertions, assumptions, pushes and pops
          MaxAmount,  \* bound: extensions, repetitions and rotations
          Names       \* names of assertions; "" is an anonymous one

VARIABLES arena,        \* Builder::arena
          ops,          \* the constructors this caller calls
          last,         \* the last constructor call and the TermId it returned
          assertions,   \* Builder::assertions: <<[root, name], ...>>
          assumptions,  \* Builder::assumptions
          scopes,       \* Builder::scopes: assertion counts
          target,       \* Builder::target, None if there is none
          command,      \* Builder::command
          calls, edits  \* constructor calls left and other edits so far

vars == <<arena, ops, last, assertions, assumptions, scopes, target, command, calls, edits>>

UnaryOps    == {"BvNot", "BvNeg", "BoolNot", "NegOverflow"}
BinaryOps   == {"BvAnd", "BvOr", "BvXor", "BvAdd", "BvSub", "BvMul", "BvUDiv", "BvURem",
                "BvShl", "BvLShr", "BvAShr", "BvConcat", "BoolAnd", "BoolOr", "BoolImplies",
                "BoolEq", "BoolXor", "BvEq", "BvNe"}
               \cup CmpOps \cup OverflowOps \cup SignedOps
AmountOps   == {"BvZeroExtend", "BvSignExtend", "BvRepeat", "BvRotateLeft", "BvRotateRight"}

Terms0 == DOMAIN arena

NoCall == [op |-> "none", args |-> <<>>, par |-> <<>>, id |-> None]

Init == /\ \E s \in Seeds : arena = s.arena /\ ops = s.ops /\ calls = s.calls
        /\ last = NoCall
        /\ assertions = <<>> /\ assumptions = <<>> /\ scopes = <<>>
        /\ target = None /\ command = "Solve"
        /\ edits = 0

\* A constructor call: the arena it leaves and the id it returned.
Call(op, args, par, r) ==
  /\ op \in ops /\ calls > 0
  /\ arena' = r.n
  /\ last' = [op |-> op, args |-> args, par |-> par, id |-> r.id]
  /\ calls' = calls - 1
  /\ UNCHANGED <<ops, assertions, assumptions, scopes, target, command, edits>>

Declare == \E name \in {"x", "z"}, w \in 0 .. MaxBvWidth + 1, external \in {0, 1} :
  Call("Declare", <<>>, <<name, external, w>>,
       IF w = 0 THEN bool_var_external(arena, name, external)
       ELSE bv_var_external(arena, name, w, external))

Constant == \E value \in 0 .. 2 ^ MaxBvWidth, w \in 1 .. MaxBvWidth :
  Call("Constant", <<>>, <<value, w>>, bv_const(arena, value, w))

\* The constructor of op, called with some of the terms there are.
Construct(op, args, par) == Call(op, args, par, build(arena, op, args, par))

Unary  == \E op \in UnaryOps, x \in Terms0 : Construct(op, <<x>>, <<>>)
Binary == \E op \in BinaryOps, a \in Terms0, b \in Terms0 : Construct(op, <<a, b>>, <<>>)
Extract == \E x \in Terms0, high \in 0 .. MaxBvWidth, low \in 0 .. MaxBvWidth :
  Construct("BvExtract", <<x>>, <<high, low>>)
Amount == \E op \in AmountOps, x \in Terms0, k \in 0 .. MaxAmount : Construct(op, <<x>>, <<k>>)
Ite == \E op \in {"BvIte", "BoolIte"}, c \in Terms0, t \in Terms0, e \in Terms0 :
  Construct(op, <<c, t, e>>, <<>>)
Select == \E c \in Terms0, d \in Terms0, t \in Terms0, e \in Terms0 :
  Construct("BvSelect", <<c, t, d, e, t>>, <<>>)

------------------------------------------------------------------------------
Edit == "edit" \in ops /\ edits < MaxEdits /\ edits' = edits + 1

AssertTerm == \E root \in Terms0, name \in Names :
  /\ Edit /\ expect_bool(arena, root)
  /\ assertions' = Append(assertions, [root |-> root, name |-> name])
  /\ UNCHANGED <<arena, ops, last, assumptions, scopes, target, command, calls>>

Assume == \E root \in Terms0 :
  /\ Edit /\ expect_bool(arena, root)
  /\ assumptions' = Append(assumptions, root)
  /\ UNCHANGED <<arena, ops, last, assertions, scopes, target, command, calls>>

Push == /\ Edit
        /\ scopes' = Append(scopes, Len(assertions))
        /\ UNCHANGED <<arena, ops, last, assertions, assumptions, target, command, calls>>

\* pop on an empty stack is an error and changes nothing.
Pop == /\ Edit /\ scopes # <<>>
       /\ assertions' = SubSeq(assertions, 1, Last(scopes))
       /\ scopes' = Front(scopes)
       /\ UNCHANGED <<arena, ops, last, assumptions, target, command, calls>>

SetOptimization == \E t \in Terms0 :
  /\ Edit /\ expect_bv(arena, t)
  /\ target' = t /\ command' = "Minimize"
  /\ UNCHANGED <<arena, ops, last, assertions, assumptions, scopes, calls>>

Done == /\ calls = 0 \/ edits = MaxEdits
        /\ UNCHANGED vars

Next == \/ Declare \/ Constant \/ Unary \/ Binary \/ Extract \/ Amount \/ Ite \/ Select
        \/ AssertTerm \/ Assume \/ Push \/ Pop \/ SetOptimization \/ Done

Spec == Init /\ [][Next]_vars

------------------------------------------------------------------------------
\* The assignments of the variables declared so far: a number per variable.
Numbers(w) == 0 .. (IF w = 0 THEN 1 ELSE 2 ^ w - 1)
Envs == LET widest == Max({1} \cup {arena[i].w : i \in VariablesOf(arena)})
        IN  {e \in [VariablesOf(arena) -> Numbers(widest)] :
               \A i \in DOMAIN e : e[i] \in Numbers(arena[i].w)}

Fits(c) == CASE c.op = "Declare"  -> c.par[3] = 0 \/ ValidWidth(c.par[3])
             [] c.op = "Constant" -> TRUE
             [] OTHER -> LET w == [k \in DOMAIN c.args |-> arena[c.args[k]].w]
                         IN  WellSorted(c.op, w, c.par) /\ Width(c.op, w, c.par) \in 0 .. MaxBvWidth

\* The arena stays a well-formed DAG whatever the constructors rewrite: no node
\* occurs twice (Arena::add), operands come before the nodes that use them (the
\* evaluator and the blaster walk the arena once, in order), every constant has
\* the bytes of its width with the unused high bits clear (equality of
\* constants is equality of bytes), and roots and scopes refer to what exists,
\* the scopes to ever longer prefixes of the assertions.
ArenaWellFormed ==
  /\ \A i, j \in DOMAIN arena : arena[i] = arena[j] => i = j
  /\ \A i \in DOMAIN arena :
       arena[i].w \in 0 .. MaxBvWidth /\ SortedNode(arena, i)
  /\ \A k \in DOMAIN assertions : arena[assertions[k].root].w = 0
  /\ \A k \in DOMAIN assumptions : arena[assumptions[k]].w = 0
  /\ target # None => arena[target].w > 0
  /\ IsSorted(scopes, <=)
  /\ \A k \in DOMAIN scopes : scopes[k] <= Len(assertions)

\* A constructor fails exactly when its operands have the wrong sorts, and the
\* term it returns, after every rewrite it applied, means under every
\* assignment what the operator means of its operands.
RewritesPreserveMeaning ==
  last.op \notin {"none"} =>
    /\ (last.id = None) <=> ~ Fits(last)
    /\ last.id # None /\ last.args # <<>> =>
         LET w(k) == arena[last.args[k]].w
         IN  \A env \in Envs :
               LET d == denote(arena, env)
               IN  d[last.id] = Meaning(last.op, [k \in DOMAIN last.args |-> d[last.args[k]]],
                                        last.par, w(1), w(Len(last.args)))
    /\ last.op = "Constant" /\ last.id # None =>
         Value(arena[last.id].par) = last.par[1] % 2 ^ last.par[2]

\* The newest node, whose operands are older nodes.
Newest == Len(arena)

\* evaluate computes the meaning of a node from the meaning of its operands,
\* under every assignment: the byte arithmetic, the long division and the
\* overflow tests are exact, unless evaluation fails.
EvaluatorExact ==
  last # NoCall /\ last.id = Newest /\ ~ evaluation_fails(arena) =>
    \A env \in Envs :
      evaluate(arena, bytes_env(arena, env))[Newest]
        = as_value(arena[Newest].w, denote(arena, env)[Newest])

\* The circuit of a node computes its meaning from the bits of its operands,
\* under every assignment.
CircuitsExact ==
  last # NoCall /\ last.id = Newest =>
    \A env \in Envs : ExactAt(arena, env, Newest)

\* What comes of a query when the SAT solver assigns env to the inputs: whether
\* every node found its operands blasted, what the asserted gate is, and what the
\* evaluator makes of the model that is read back, in which what was not blasted
\* is missing and so zero.
Solved(n, roots, t, want_model, env) ==
  LET inputs  == bits_env(n, env)
      blasted == blast_query(n, roots, t, want_model, inputs)
  IN  [ok |-> blasted.ok, gate |-> blasted.assertion,
       values |-> evaluate(n, build_model(n, blasted.variables, inputs))]
Agree(r, roots) == r.ok /\ r.gate = \A i \in roots : r.values[i]

\* The two meanings the solver gives a query agree, although only what it needs
\* is blasted: the gate is true exactly when the model that is read back satisfies
\* every root in the evaluator, and the model gives the target its value.  So it
\* is for the newest term as root or target; for what has been asserted and
\* assumed, with a model wanted or not; and for the last query of an optimisation,
\* which has no target and wants no model itself but pins the target's bits to
\* the optimum.
QueryAgrees ==
  LET roots == {assertions[k].root : k \in DOMAIN assertions} \cup Range(assumptions)
      exact(goal, env) == as_value(arena[goal].w, denote(arena, env)[goal])
  IN  /\ last # NoCall /\ last.id = Newest /\ ~ evaluation_fails(arena) =>
           \A env \in Envs :
             LET asserted == IF arena[Newest].w = 0 THEN {Newest} ELSE {}
                 r == Solved(arena, asserted, Newest, FALSE, env)
             IN  Agree(r, asserted) /\ r.values[Newest] = exact(Newest, env)
      /\ edits > 0 =>
           \A env \in Envs :
             /\ \A want_model \in BOOLEAN : Agree(Solved(arena, roots, target, want_model, env), roots)
             /\ target # None =>
                  LET q == fix_target(arena, roots, target, denote(arena, env)[target])
                      r == Solved(q.n, q.roots, None, FALSE, env)
                  IN  Agree(r, q.roots) /\ r.values[target] = exact(target, env)

==============================================================================
