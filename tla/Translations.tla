----------------------------- MODULE Translations -----------------------------
(***************************************************************************)
(* How the other two backends read a request and write a model (smt-server *)
(* z3_backend.rs, binbit_backend.rs) and how the third writes its own      *)
(* (qfbvsmtrs_backend.rs): a race is sound only if they all solve the same *)
(* problem.                                                                *)
(*                                                                         *)
(* A term of Z3 or binbit is the value it takes under m, an assignment of  *)
(* the constants the adapter has made, each named by the index of its node *)
(* and a number (0 or 1 for a Boolean).  The operators of the two          *)
(* libraries are external: they mean what SMT-LIB says (BitVectors).       *)
(***************************************************************************)
EXTENDS WireLowering

Library(op, v, par, wh, w) == S!Meaning(op, v, par, wh, w)
Apply(op, x, y, w)         == Library(op, <<x, y>>, <<>>, w, w)

\* bv_vars and bool_vars: one constant per symbol, made at its first node.
ConstantOf(expr, i) ==
  LET node == expr.nodes[i]
      name(j) == blob_ref(expr, expr.nodes[j].payload)
  IN  Min({j \in 1 .. i : /\ expr.nodes[j].tag = node.tag /\ name(j) = name(i)
                          /\ node.tag = "BvVar" => expr.nodes[j].width = node.width})

VariableNodes(expr) == SelectSeq([i \in DOMAIN expr.nodes |-> i], LAMBDA i : expr.nodes[i].tag \in VarTags)
Constants(expr)     == {ConstantOf(expr, i) : i \in Range(VariableNodes(expr))}

Numbers(width) == 0 .. (IF width = 0 THEN 1 ELSE 2 ^ width - 1)
Assignments(expr) ==
  LET names == Constants(expr)
      width == Max({1} \cup {expr.nodes[i].width : i \in names})
  IN  {m \in [names -> Numbers(width)] : \A i \in names : m[i] \in Numbers(expr.nodes[i].width)}

Variable(expr, i, m) ==
  LET v == m[ConstantOf(expr, i)] IN IF expr.nodes[i].tag = "BoolVar" THEN v = 1 ELSE v

\* The nodes the Z3 adapter hands to an operator of the library as they are;
\* binbit's hands it every operator.
LibraryTags == UnaryTags \cup BinaryTags \cup ExtendTags \cup BoolPairs \cup ComparisonTags
               \cup {"BvExtract", "BvConcat", "BvIte", "BoolNot"}

Handed(node, v, w) ==
  Library(node.tag, v, IF node.tag = "BvExtract" THEN <<node.hi, node.lo>> ELSE <<node.hi>>, w[1], Last(w))

------------------------------------------------------------------------------
(* Z3.                                                                     *)

\* from_u64 keeps the low bits; a wide constant goes over bit by bit.
z3_bv_const(expr, node) ==
  IF node.width <= WordBits THEN node.payload % 2 ^ node.width
  ELSE LET bytes == blob_ref(expr, node.payload)
       IN  MapThenSumSet(LAMBDA i : 2 ^ i, {i \in 0 .. node.width - 1 : get_bit(bytes, i)})

\* The pairs from the last to the first: the first selector that holds decides.
z3_select(v) ==
  FoldRight(LAMBDA p, rest : IF v[2 * p - 1] THEN v[2 * p] ELSE rest,
            [p \in 1 .. (Len(v) - 1) \div 2 |-> p], Last(v))

Bits(x, hi, lo, w) == Library("BvExtract", <<x>>, <<hi, lo>>, w, w)
sign_bool(x, w)    == Bits(x, w - 1, w - 1, w) = 1

\* Two operands of one sign and a result of the other.
SignLost(sa, sb, ss) == sa = sb /\ ss # sa

signed_add_overflow(a, b, w) ==
  SignLost(sign_bool(a, w), sign_bool(b, w), sign_bool(Apply("BvAdd", a, b, w), w))

\* Mutant of signed_sub_overflow: the signs are those of an addition.
signed_sub_as_add(a, b, w) ==
  SignLost(sign_bool(a, w), sign_bool(b, w), sign_bool(Apply("BvSub", a, b, w), w))

signed_sub_overflow(a, b, w) ==
  SignLost(sign_bool(a, w), ~ sign_bool(b, w), sign_bool(Apply("BvSub", a, b, w), w))

Extended(op, x, w)         == Library(op, <<x>>, <<w>>, w, w)
DoubleProduct(op, a, b, w) == Apply("BvMul", Extended(op, a, w), Extended(op, b, w), 2 * w)

unsigned_mul_overflow(a, b, w) == Bits(DoubleProduct("BvZeroExtend", a, b, w), 2 * w - 1, w, 2 * w) # 0

NotItsLowHalf(product, w)    == product # Extended("BvSignExtend", Bits(product, w - 1, 0, 2 * w), w)
signed_mul_overflow(a, b, w) == NotItsLowHalf(DoubleProduct("BvSignExtend", a, b, w), w)

signed_min_bv(w) == 2 ^ (w - 1)
ones_bv(w)       == 2 ^ w - 1

z3_overflow(tag, v, w) ==
  CASE tag = "UAddOverflow" -> Apply("BvUlt", Apply("BvAdd", v[1], v[2], w), v[1], w)
    [] tag = "USubOverflow" -> Apply("BvUlt", v[1], v[2], w)
    [] tag = "UMulOverflow" -> unsigned_mul_overflow(v[1], v[2], w)
    [] tag = "SAddOverflow" -> signed_add_overflow(v[1], v[2], w)
    [] tag = "SSubOverflow" -> signed_sub_overflow(v[1], v[2], w)
    [] tag = "SMulOverflow" -> signed_mul_overflow(v[1], v[2], w)
    [] tag = "NegOverflow"  -> v[1] = signed_min_bv(w)
    [] tag = "SDivOverflow" -> v[1] = signed_min_bv(w) /\ v[2] = ones_bv(w)

------------------------------------------------------------------------------
(* binbit: overflow predicates and BV_SELECT are the library's.            *)

LimbBytes == WordBits \div ByteBits

bytes_to_u128(bytes) == Value(SubSeq(bytes, 1, Min({Len(bytes), 2 * LimbBytes})))

bytes_to_limbs(bytes, width) ==
  [l \in 1 .. (width + WordBits - 1) \div WordBits |->
     MapThenSumSet(LAMBDA i : bytes[i] * Base ^ ((i - 1) % LimbBytes),
                   {i \in DOMAIN bytes : (i - 1) \div LimbBytes + 1 = l})]

LimbsNumber(limbs) == MapThenSumSet(LAMBDA l : limbs[l] * 2 ^ (WordBits * (l - 1)), DOMAIN limbs)

binbit_bv_const(expr, node) ==
  LET bytes == blob_ref(expr, node.payload)
  IN  (IF node.width <= WordBits THEN node.payload
       ELSE IF node.width <= 2 * WordBits THEN bytes_to_u128(bytes)
       ELSE LimbsNumber(bytes_to_limbs(bytes, node.width))) % 2 ^ node.width

------------------------------------------------------------------------------
\* A node of each reading, given its operands' values and widths.
Leaf(expr, i, m) ==
  CASE expr.nodes[i].tag \in VarTags   -> Variable(expr, i, m)
    [] expr.nodes[i].tag = "BoolTrue"  -> TRUE
    [] expr.nodes[i].tag = "BoolFalse" -> FALSE

z3_node(expr, i, m, v, w) ==
  LET node == expr.nodes[i]
  IN  CASE node.tag = "BvConst"             -> z3_bv_const(expr, node)
        [] node.tag \in Leaves \ {"BvConst"} -> Leaf(expr, i, m)
        [] node.tag \in LibraryTags         -> Handed(node, v, w)
        [] node.tag = "BvSelect"            -> z3_select(v)
        [] node.tag \in OverflowTags \cup {"NegOverflow"} -> z3_overflow(node.tag, v, w[1])

binbit_node(expr, i, m, v, w) ==
  LET node == expr.nodes[i]
  IN  CASE node.tag = "BvConst"             -> binbit_bv_const(expr, node)
        [] node.tag \in Leaves \ {"BvConst"} -> Leaf(expr, i, m)
        [] OTHER                            -> Handed(node, v, w)

translate_node(backend, expr, i, m, v, w) ==
  IF backend = "z3" THEN z3_node(expr, i, m, v, w) ELSE binbit_node(expr, i, m, v, w)

\* translate: the value of every node, by position.
translate(backend, expr, m) ==
  LET t[i \in DOMAIN expr.nodes] ==
        LET kids == ChildrenOf(expr, expr.nodes[i])
        IN  translate_node(backend, expr, i, m, [k \in DOMAIN kids |-> t[Index(kids[k]) + 1]],
                           [k \in DOMAIN kids |-> NodeAt(expr, kids[k]).width])
  IN  t

------------------------------------------------------------------------------
(* Models.                                                                 *)

\* Z3 prints a value in hexadecimal where the width allows it, else in binary;
\* the digits, least significant first.  A byte has two hexadecimal digits.
HexBits == ByteBits \div 2
Literal(value, width) ==
  LET bits == IF width % HexBits = 0 THEN HexBits ELSE 1
  IN  [bits |-> bits, digits |-> [k \in 1 .. width \div bits |-> (value \div 2 ^ (bits * (k - 1))) % 2 ^ bits]]

parse_bv_literal(text, width) ==
  [i \in 1 .. NumBytes(width) |->
     MapThenSumSet(LAMBDA k : text.digits[k] * 2 ^ (((k - 1) * text.bits) % ByteBits),
                   {k \in DOMAIN text.digits : ((k - 1) * text.bits) \div ByteBits + 1 = i})]

bv_model_value(width, value) ==
  [width |-> width,
   bytes |-> IF width <= WordBits THEN SubSeq(word_le(value), 1, NumBytes(width))
             ELSE parse_bv_literal(Literal(value, width), width)]

ValueLimbs(value, width) ==
  [l \in 1 .. (width + WordBits - 1) \div WordBits |-> (value \div 2 ^ (WordBits * (l - 1))) % 2 ^ WordBits]

scalar_from_limbs(width, limbs) ==
  [width |-> width,
   bytes |-> [i \in 1 .. NumBytes(width) |->
                (limbs[(i - 1) \div LimbBytes + 1] \div Base ^ ((i - 1) % LimbBytes)) % Base]]

\* build_model: an entry for every variable node, in their order.
build_model(backend, expr, m) ==
  LET nodes == VariableNodes(expr)
      scalar(i) == LET value == m[ConstantOf(expr, i)]
                       width == expr.nodes[i].width
                   IN  CASE width = 0 -> BoolScalar(value)
                         [] width > 0 /\ backend = "z3" -> bv_model_value(width, value)
                         [] OTHER -> scalar_from_limbs(width, ValueLimbs(value, width))
  IN  [k \in DOMAIN nodes |-> [ref |-> NodeRef(result_sort(expr.nodes[nodes[k]].tag), nodes[k] - 1),
                               value |-> scalar(nodes[k])]]

\* model_to_wire_for_request: the solver's model has its symbols by name;
\* every node of such a symbol gets its value.  env gives each variable of
\* the arena its number.
model_to_wire_for_request(arena, env, expr) ==
  LET scalar(j) == IF arena[j].w = 0 THEN BoolScalar(env[j]) ELSE BvScalar(env[j], arena[j].w)
      of(i)  == {j \in DOMAIN env : /\ arena[j].par[1] = blob_ref(expr, expr.nodes[i].payload)
                                    /\ arena[j].op = expr.nodes[i].tag /\ arena[j].w = expr.nodes[i].width}
      found  == SelectSeq(VariableNodes(expr), LAMBDA i : of(i) # {})
  IN  [k \in DOMAIN found |-> [ref |-> NodeRef(result_sort(expr.nodes[found[k]].tag), found[k] - 1),
                               value |-> scalar(CHOOSE j \in of(found[k]) : TRUE)]]
==============================================================================
