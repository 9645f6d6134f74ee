-------------------------------- MODULE Blast --------------------------------
(***************************************************************************)
(* blast.rs: the circuit a node of the query becomes, from the bits v of   *)
(* its operands, and the bits of every node of an arena; with denote, what *)
(* the nodes mean, which the circuits are proved and checked against.      *)
(***************************************************************************)
EXTENDS Circuits, BitVectors, Bytes

\* A multiplication by a constant with at most two bits set, or all of them,
\* becomes shifts and additions.
use_constant_multiplier(bits) ==
  Cardinality({i \in DOMAIN bits : bits[i]}) <= 2 \/ \A i \in DOMAIN bits : bits[i]

\* known[k]: operand k is a constant.
blast_mul(known, v) ==
  IF known[1]
  THEN IF use_constant_multiplier(v[1]) THEN mul_const(v[2], v[1]) ELSE mul(v[1], v[2])
  ELSE IF known[2] /\ use_constant_multiplier(v[2])
  THEN mul_const(v[1], v[2])
  ELSE mul(v[1], v[2])

\* The muxes of a selection are built from the last case back to the first.
choose_case(v, k, result) == mux_bits(v[2 * k - 1], v[2 * k], result)
choices(v, m) ==
  LET result[k \in 0 .. m] == IF k = 0 THEN Last(v) ELSE choose_case(v, m + 1 - k, result[k - 1])
  IN  result
blast_select(v) == choices(v, (Len(v) - 1) \div 2)[(Len(v) - 1) \div 2]

blast_bv(node, known, v) ==
  CASE node.op = "BvNot"  -> bitwise_not(v[1])
    [] node.op = "BvNeg"  -> neg_bits(v[1])
    [] node.op = "BvAnd"  -> bitwise_and(v[1], v[2])
    [] node.op = "BvOr"   -> bitwise_or(v[1], v[2])
    [] node.op = "BvXor"  -> bitwise_xor(v[1], v[2])
    [] node.op = "BvAdd"  -> add_bits(v[1], v[2])
    [] node.op = "BvSub"  -> sub_bits(v[1], v[2])
    [] node.op = "BvMul"  -> blast_mul(known, v)
    [] node.op = "BvUDiv" -> udiv_urem(v[1], v[2]).quo
    [] node.op = "BvURem" -> udiv_urem(v[1], v[2]).rem
    [] node.op = "BvSDiv" -> sdiv(v[1], v[2])
    [] node.op = "BvSRem" -> srem(v[1], v[2])
    [] node.op = "BvSMod" -> smod(v[1], v[2])
    [] node.op = "BvShl"  -> shl(v[1], v[2])
    [] node.op = "BvLShr" -> lshr(v[1], v[2])
    [] node.op = "BvAShr" -> ashr(v[1], v[2])
    [] node.op = "BvExtract"     -> extract(v[1], node.par[1], node.par[2])
    [] node.op = "BvConcat"      -> concat(v[1], v[2])
    [] node.op = "BvZeroExtend"  -> zext(v[1], node.par[1])
    [] node.op = "BvSignExtend"  -> sext(v[1], node.par[1])
    [] node.op = "BvRepeat"      -> repeat(v[1], node.par[1])
    [] node.op = "BvRotateLeft"  -> rotate_left(v[1], node.par[1])
    [] node.op = "BvRotateRight" -> rotate_right(v[1], node.par[1])
    [] node.op = "BvIte"    -> mux_bits(v[1], v[2], v[3])
    [] node.op = "BvSelect" -> blast_select(v)

blast_bool(node, v) ==
  CASE node.op = "BoolNot"     -> ~ v[1]
    [] node.op = "BoolAnd"     -> v[1] /\ v[2]
    [] node.op = "BoolOr"      -> v[1] \/ v[2]
    [] node.op = "BoolImplies" -> v[1] => v[2]
    [] node.op = "BoolEq"      -> v[1] = v[2]
    [] node.op = "BoolIte"     -> mux(v[1], v[2], v[3])
    [] node.op = "BvEq"  -> eq_bits(v[1], v[2])
    [] node.op = "BvUlt" -> ult(v[1], v[2])
    [] node.op = "BvUle" -> ule(v[1], v[2])
    [] node.op = "BvSlt" -> slt(v[1], v[2])
    [] node.op = "BvSle" -> sle(v[1], v[2])
    [] node.op = "UAddOverflow" -> uadd_overflow(v[1], v[2])
    [] node.op = "SAddOverflow" -> sadd_overflow(v[1], v[2])
    [] node.op = "USubOverflow" -> usub_overflow(v[1], v[2])
    [] node.op = "SSubOverflow" -> ssub_overflow(v[1], v[2])
    [] node.op = "UMulOverflow" -> umul_overflow(v[1], v[2])
    [] node.op = "SMulOverflow" -> smul_overflow(v[1], v[2])
    [] node.op = "NegOverflow"  -> neg_overflow(v[1])
    [] node.op = "SDivOverflow" -> sdiv_overflow(v[1], v[2])

------------------------------------------------------------------------------
(* An arena is a sequence of nodes, each [op, args, par, w]: an operator,  *)
(* the positions of its operands, its parameters and its width, 0 for Bool.*)

\* The widths of a node's operands, and their values in d.
Widths(n, node)   == [k \in DOMAIN node.args |-> n[node.args[k]].w]
Operands(d, node) == [k \in DOMAIN node.args |-> d[node.args[k]]]

\* Node i of n can be given a meaning: its operands come before it, with the
\* sorts it asks for, and a constant has the bytes of its width, the unused
\* high bits clear.
ParamOps == {"BvExtract", "BvZeroExtend", "BvSignExtend", "BvRepeat", "BvRotateLeft", "BvRotateRight"}
SortedNode(n, i) ==
  LET node == n[i]
  IN  /\ node.args \in Seq(1 .. i - 1)
      /\ CASE node.op = "BvConst" -> /\ ValidWidth(node.w)
                                     /\ node.par \in [1 .. NumBytes(node.w) -> 0 .. Base - 1]
                                     /\ Value(node.par) < TwoTo(node.w)
           [] node.op = "BoolConst" -> node.w = 0 /\ node.par[1] \in BOOLEAN
           [] node.op = "BvVar"     -> ValidWidth(node.w)
           [] node.op = "BoolVar"   -> node.w = 0
           [] OTHER -> /\ node.op \notin {"BoolXor", "BvNe"}
                       /\ node.op \in ParamOps => node.par[1] \in Nat
                       /\ node.op = "BvExtract" => node.par[2] \in Nat
                       /\ WellSorted(node.op, Widths(n, node), node.par)
                       /\ node.w = Width(node.op, Widths(n, node), node.par)

\* The specification: what node i means under env, a number for each variable,
\* when its operands mean v.
denote_node(n, env, i, v) ==
  LET node == n[i]
      w == Widths(n, node)
  IN  CASE node.op = "BvConst"   -> Value(node.par)
        [] node.op = "BoolConst" -> node.par[1]
        [] node.op = "BvVar"     -> env[i]
        [] node.op = "BoolVar"   -> env[i] = 1
        [] OTHER -> Meaning(node.op, v, node.par, w[1], w[Len(w)])
denote(n, env) ==
  LET d[i \in DOMAIN n] == denote_node(n, env, i, Operands(d, n[i]))
  IN  d

VariablesOf(n) == {i \in DOMAIN n : n[i].op \in {"BvVar", "BoolVar"}}

\* A Boolean or a number as bits, and the bits of the variables under env.
as_bits(w, v) == IF w = 0 THEN v ELSE BitsOf(v, w)
bits_env(n, env) == [i \in DOMAIN env |-> as_bits(n[i].w, IF n[i].w = 0 THEN env[i] = 1 ELSE env[i])]

\* The bits of every node, inputs being the bits given for the variables.
blast_node(n, inputs, i, v) ==
  LET node == n[i]
  IN  CASE node.op = "BvConst"   -> [b \in 1 .. node.w |-> get_bit(node.par, b - 1)]
        [] node.op = "BoolConst" -> node.par[1]
        [] node.op \in {"BvVar", "BoolVar"} -> inputs[i]
        [] OTHER -> IF node.w = 0 THEN blast_bool(node, v)
                    ELSE blast_bv(node, [k \in DOMAIN node.args |-> n[node.args[k]].op = "BvConst"], v)
blast(n, inputs) ==
  LET v[i \in DOMAIN n] == blast_node(n, inputs, i, Operands(v, n[i]))
  IN  v

\* The circuit of node i computes what the node means under env.
ExactAt(n, env, i) == blast(n, bits_env(n, env))[i] = as_bits(n[i].w, denote(n, env)[i])
==============================================================================
