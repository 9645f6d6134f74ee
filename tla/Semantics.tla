------------------------------ MODULE Semantics ------------------------------
(***************************************************************************)
(* The two semantics qfbvsmtrs gives its terms: evaluate (eval.rs), over   *)
(* bytes, and blast_query (module Blast), over gates, checked against      *)
(* denote, the meaning BitVectors specifies.  All three walk the arena in  *)
(* the order of the ids.                                                   *)
(***************************************************************************)
EXTENDS TermBuilder, Blast

\* A number as a value of the evaluator.
as_value(w, v) == IF w = 0 THEN v ELSE word_bytes(v, w)

------------------------------------------------------------------------------
bitwise_bv(P(_, _), a, b) ==
  [k \in DOMAIN a |-> MapThenSumSet(LAMBDA i : 2 ^ i,
                        {i \in 0 .. ByteBits - 1 : P(BitOf(a[k], i) = 1, BitOf(b[k], i) = 1)})]

\* shift_value: an amount of the width or more is the width.
shift_amount(bytes, w) == bytes_to_bounded_usize(bytes, w)

\* evaluate: the value of a node from those of its operands; w is the width of
\* the last one.
eval_node(node, v, w) ==
  LET amount == shift_amount(v[2], w)
      bitwise(P(_, _)) == bitwise_bv(P, v[1], v[2])
  IN  CASE node.op = "BvNot"  -> not_bytes(v[1], w)
        [] node.op = "BvNeg"  -> neg_bytes(v[1], w)
        [] node.op = "BvAnd"  -> bitwise(LAMBDA p, q : p /\ q)
        [] node.op = "BvOr"   -> bitwise(LAMBDA p, q : p \/ q)
        [] node.op = "BvXor"  -> bitwise(LAMBDA p, q : p # q)
        [] node.op = "BvAdd"  -> add_bytes(v[1], v[2], w)
        [] node.op = "BvSub"  -> sub_bytes(v[1], v[2], w)
        [] node.op = "BvMul"  -> mul_bytes(v[1], v[2], w)
        [] node.op = "BvUDiv" -> udiv_urem_bytes(v[1], v[2], w).quo
        [] node.op = "BvURem" -> udiv_urem_bytes(v[1], v[2], w).rem
        [] node.op = "BvSDiv" -> signed_div_bytes(v[1], v[2], w)
        [] node.op = "BvSRem" -> signed_rem_bytes(v[1], v[2], w)
        [] node.op = "BvSMod" -> signed_mod_bytes(v[1], v[2], w)
        [] node.op = "BvShl"  -> shl_bytes(v[1], w, amount)
        [] node.op = "BvLShr" -> lshr_bytes(v[1], w, amount)
        [] node.op = "BvAShr" -> ashr_bytes(v[1], w, amount)
        [] node.op = "BvExtract"     -> extract_bytes(v[1], node.par[2], node.w)
        [] node.op = "BvConcat"      -> concat_bytes(v[1], node.w - w, v[2], w)
        [] node.op = "BvZeroExtend"  -> mask_unused_high_bits(resize(v[1], node.w), node.w)
        [] node.op = "BvSignExtend"  -> sext_bytes(v[1], w, node.par[1])
        [] node.op = "BvRepeat"      -> repeat_bytes(v[1], w, node.par[1])
        [] node.op = "BvRotateLeft"  -> rotate_left_bytes(v[1], w, node.par[1] % w)
        [] node.op = "BvRotateRight" -> rotate_right_bytes(v[1], w, node.par[1] % w)
        [] node.op \in {"BvIte", "BoolIte"} -> IF v[1] THEN v[2] ELSE v[3]
        [] node.op = "BvSelect" ->
             LET hit == SelectInSeq([k \in 1 .. (Len(v) - 1) \div 2 |-> v[2 * k - 1]], LAMBDA c : c)
             IN  IF hit = 0 THEN Last(v) ELSE v[2 * hit]
        [] node.op = "BoolNot"     -> ~ v[1]
        [] node.op = "BoolAnd"     -> v[1] /\ v[2]
        [] node.op = "BoolOr"      -> v[1] \/ v[2]
        [] node.op = "BoolImplies" -> ~ v[1] \/ v[2]
        [] node.op \in {"BoolEq", "BvEq"} -> v[1] = v[2]
        [] node.op = "BvUlt" -> cmp_less_unsigned(v[1], v[2])
        [] node.op = "BvUle" -> ~ cmp_less_unsigned(v[2], v[1])
        [] node.op = "BvSlt" -> signed_less_than(v[1], v[2], w)
        [] node.op = "BvSle" -> ~ signed_less_than(v[2], v[1], w)
        [] node.op = "UAddOverflow" -> uadd_ovf_bytes(v[1], v[2], w)
        [] node.op = "SAddOverflow" -> sadd_ovf_bytes(v[1], v[2], w)
        [] node.op = "USubOverflow" -> cmp_less_unsigned(v[1], v[2])
        [] node.op = "SSubOverflow" -> ssub_ovf_bytes(v[1], v[2], w)
        [] node.op = "UMulOverflow" -> umul_ovf_bytes(v[1], v[2], w)
        [] node.op = "SMulOverflow" -> smul_ovf_bytes(v[1], v[2], w)
        [] node.op = "NegOverflow"  -> is_min_bytes(v[1], w)
        [] node.op = "SDivOverflow" -> sdiv_ovf_bytes(v[1], v[2], w)

\* unsigned_mul_overflow_value asks for the bytes of the doubled width: where
\* that is not a legal width, evaluation of the whole arena is an error.
evaluation_fails(n) ==
  \E i \in DOMAIN n : n[i].op = "UMulOverflow" /\ ~ ValidWidth(2 * n[n[i].args[1]].w)

\* EvalAssignment: a constant or a seed gives every variable a value; an
\* explicit assignment leaves out what is not in it, which is zero or FALSE.
evaluate(n, assignment) ==
  LET v[i \in DOMAIN n] ==
        LET node == n[i]
        IN  CASE node.op = "BvConst"   -> node.par
              [] node.op = "BoolConst" -> node.par[1]
              [] node.op = "BvVar"   -> IF i \in DOMAIN assignment THEN assignment[i] ELSE Zeros(node.w)
              [] node.op = "BoolVar" -> i \in DOMAIN assignment /\ assignment[i]
              [] OTHER -> eval_node(node, Operands(v, node), n[Last(node.args)].w)
  IN  v

------------------------------------------------------------------------------
\* Mutant of push_children: of a choice, the last operand is forgotten.
push_two_children(node) == {node.args[k] : k \in DOMAIN node.args \cap {1, 2}}

push_children(node) == Range(node.args)

\* reachable_terms: what the roots and the target depend on.
reachable_terms(n, roots, target) ==
  LET reach[i \in DOMAIN n] ==
        i \in roots \/ i = target \/ \E j \in i + 1 .. Len(n) : reach[j] /\ i \in push_children(n[j])
  IN  {i \in DOMAIN n : reach[i]}

\* blast_query: the reachable nodes become gates, and every variable if there is
\* to be a model.  A node that asks for one that has not been blasted is an error.
blast_query(n, roots, target, want_model, inputs) ==
  LET kept == reachable_terms(n, roots, target) \cup (IF want_model THEN VariablesOf(n) ELSE {})
      v[i \in kept] == blast_node(n, inputs, i, Operands(v, n[i]))
      ok == roots \subseteq kept /\ \A i \in kept : Range(n[i].args) \subseteq kept
  IN  [ok |-> ok, assertion |-> ok /\ \A r \in roots : v[r], variables |-> kept \cap VariablesOf(n)]

\* build_model: the value of every blasted variable, as bytes.
build_model(n, variables, inputs) ==
  [i \in variables |->
     IF n[i].w = 0 THEN inputs[i]
     ELSE mask_unused_high_bits(SetBits(Zeros(n[i].w), {b \in 0 .. n[i].w - 1 : inputs[i][b + 1]}), n[i].w)]

\* assert_target_bit, on a query [n, roots]: nodes without the builder's rewrites.
assert_target_bit(q, target, bit, value) ==
  LET extracted == add(q.n, Term("BvExtract", <<target>>, <<bit, bit>>, 1))
      constant  == add(extracted.n, Term("BvConst", <<>>, word_bytes(value, 1), 1))
      eq        == add(constant.n, Term("BvEq", <<extracted.id, constant.id>>, <<>>, 0))
  IN  [n |-> eq.n, roots |-> q.roots \cup {eq.id}]

\* optimize: the query whose model is returned once every bit of the optimum is
\* known, from the highest to the lowest.
fix_target(n, roots, target, optimum) ==
  LET w == n[target].w
      fixed[k \in 0 .. w] ==
        IF k = 0 THEN [n |-> n, roots |-> roots]
        ELSE assert_target_bit(fixed[k - 1], target, w - k, (optimum \div 2 ^ (w - k)) % 2)
  IN  fixed[w]

\* An assignment of numbers in the form evaluate expects.
bytes_env(n, env) == [i \in DOMAIN env |-> as_value(n[i].w, IF n[i].w = 0 THEN env[i] = 1 ELSE env[i])]
==============================================================================
