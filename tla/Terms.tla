-------------------------------- MODULE Terms --------------------------------
(***************************************************************************)
(* The hash-consed terms of qfbvsmtrs: ir.rs Arena and the constructors of *)
(* builder.rs, each with the rewrites it applies before it adds a node.    *)
(*                                                                         *)
(* An arena is a sequence of nodes and a TermId is a position in it (from  *)
(* 1; the code counts from 0).  A node has an operator, its operands, its  *)
(* parameters (the bytes of a constant, the name of a variable, the bounds *)
(* of an extraction) and its width, 0 for the sort Bool.  A constructor    *)
(* takes an arena n and returns [n |-> arena, id |-> TermId]; id = None is *)
(* an Err in a constructor and "no rewrite applies" in a helper.           *)
(***************************************************************************)
EXTENDS Bytes, Functions

CONSTANTS PolyBudget,      \* polynomial_equality: 512 visited nodes
          PolyDegree,      \* polynomial_mul: 16 factors in a monomial
          PolyTerms,       \* polynomial_mul: 512 monomials
          PolyWidth,       \* polynomial_equality: 128 bits
          MaskWidth,       \* have_disjoint_possible_bits: 4096 bits
          MaskDepth        \* possible_bit_mask_bytes: 64 levels

None == 0

Term(op, args, par, w) == [op |-> op, args |-> args, par |-> par, w |-> w]

\* Mutant of add: equal nodes are not shared.
add_always(n, node) ==
  IF node.w # 0 /\ ~ ValidWidth(node.w) THEN [n |-> n, id |-> None]
  ELSE [n |-> Append(n, node), id |-> Len(n) + 1]

\* Arena::add: an equal node is found again, never added twice.
add(n, node) ==
  IF node.w # 0 /\ ~ ValidWidth(node.w) THEN [n |-> n, id |-> None]
  ELSE IF \E i \in DOMAIN n : n[i] = node
  THEN [n |-> n, id |-> CHOOSE i \in DOMAIN n : n[i] = node]
  ELSE [n |-> Append(n, node), id |-> Len(n) + 1]

Err(n)      == [n |-> n, id |-> None]
Same(n, x)  == [n |-> n, id |-> x]

IsOp(n, x, op) == n[x].op = op
Arg(n, x, k)   == n[x].args[k]

expect_bool(n, x)       == n[x].w = 0
expect_bv(n, x)         == n[x].w > 0
expect_same_bv(n, x, y) == n[x].w > 0 /\ n[x].w = n[y].w

order_pair(a, b) == IF a <= b THEN <<a, b>> ELSE <<b, a>>

bv_var_external(n, name, w, external) ==
  IF ~ ValidWidth(w) THEN Err(n) ELSE add(n, Term("BvVar", <<>>, <<name, external>>, w))
bool_var_external(n, name, external) == add(n, Term("BoolVar", <<>>, <<name, external>>, 0))
bool_const(n, value) == add(n, Term("BoolConst", <<>>, <<value>>, 0))
bv_const_bytes(n, bytes, w) ==
  IF ~ ValidWidth(w) \/ Len(bytes) # NumBytes(w) THEN Err(n)
  ELSE add(n, Term("BvConst", <<>>, mask_unused_high_bits(bytes, w), w))
bv_const(n, value, w) == bv_const_bytes(n, word_bytes(value, w), w)
zero(n, w)     == bv_const_bytes(n, Zeros(w), w)
all_ones(n, w) == bv_const_bytes(n, constant_bytes(w, TRUE), w)

------------------------------------------------------------------------------
\* What a constructor recognises in its operands.

is_const(n, x)    == IsOp(n, x, "BvConst")
const_bytes(n, x) == n[x].par
is_zero(n, x)     == is_const(n, x) /\ is_zero_bytes(const_bytes(n, x))
is_one(n, x)      == is_const(n, x) /\ is_one_bytes(const_bytes(n, x))
is_all_ones(n, x) == is_const(n, x) /\ const_bytes(n, x) = constant_bytes(n[x].w, TRUE)
is_bool_const(n, x)    == IsOp(n, x, "BoolConst")
bool_const_value(n, x) == n[x].par[1]
one_bit_const(n, x)    == is_const(n, x) /\ n[x].w = 1
const_shift_amount(n, x, w) == bytes_to_bounded_usize(const_bytes(n, x), w)

NegationPair(n, a, b, op) == \/ IsOp(n, a, op) /\ Arg(n, a, 1) = b
                             \/ IsOp(n, b, op) /\ Arg(n, b, 1) = a
OperandOf(n, x, op, child) == IsOp(n, x, op) /\ child \in Range(n[x].args)
ShiftOf(n, x, value, amount) == IsOp(n, x, "BvShl") /\ n[x].args = <<value, amount>>
self_shift_left_pair(n, a, b) == ShiftOf(n, a, b, b) \/ ShiftOf(n, b, a, a)

\* shifted_same_add_parts: the shifted operand and the amount, if one operand
\* is the other shifted left.
SharedShift(n, a, b) == \/ IsOp(n, a, "BvShl") /\ Arg(n, a, 1) = b /\ ~ is_const(n, b)
                        \/ IsOp(n, b, "BvShl") /\ Arg(n, b, 1) = a /\ ~ is_const(n, a)
shifted_same_add_parts(n, a, b) ==
  IF IsOp(n, a, "BvShl") /\ Arg(n, a, 1) = b THEN n[a].args ELSE n[b].args

\* The bits a term of width w can set, as bytes; <<>> when nothing is known.
RECURSIVE possible_bit_mask_bytes(_, _, _, _)

\* The mask of an operator from those of its operands (p and q), each at the
\* operand's own width for the operators that change the width, else at w.
MaskPair(P(_, _), p, q, w) == SetBits(Zeros(w), {i \in 0 .. w - 1 : P(get_bit(p, i), get_bit(q, i))})
MaskAnd(p, q, w) ==
  IF p = <<>> THEN q ELSE IF q = <<>> THEN p ELSE MaskPair(LAMBDA x, y : x /\ y, p, q, w)
MaskOr(p, q, w) ==
  IF p = <<>> \/ q = <<>> THEN <<>> ELSE MaskPair(LAMBDA x, y : x \/ y, p, q, w)
MaskShift(op, p, w, amount) ==
  IF p = <<>> THEN <<>>
  ELSE IF op = "BvShl" THEN shl_bytes(p, w, amount) ELSE lshr_bytes(p, w, amount)
MaskResized(node, p, w) ==
  IF p = <<>> THEN <<>>
  ELSE IF node.op = "BvZeroExtend" THEN resize(p, w) ELSE extract_bytes(p, node.par[2], w)
MaskConcat(p, pw, q, qw) == IF p = <<>> \/ q = <<>> THEN <<>> ELSE concat_bytes(p, pw, q, qw)

Resizing == {"BvZeroExtend", "BvExtract", "BvConcat"}

MaskOf(n, node, mask(_), w) ==
  CASE node.op = "BvConst" -> IF node.w = w THEN node.par ELSE <<>>
    [] node.op = "BvVar" -> IF node.w = w THEN constant_bytes(w, TRUE) ELSE <<>>
    [] node.op \in {"BvZeroExtend", "BvExtract"} ->
         IF node.w # w THEN <<>> ELSE MaskResized(node, mask(1), w)
    [] node.op = "BvConcat" ->
         IF node.w # w THEN <<>>
         ELSE MaskConcat(mask(1), n[node.args[1]].w, mask(2), n[node.args[2]].w)
    [] node.op \in {"BvShl", "BvLShr"} ->
         IF ~ is_const(n, node.args[2]) THEN <<>>
         ELSE MaskShift(node.op, mask(1), w, const_shift_amount(n, node.args[2], w))
    [] node.op = "BvAnd" -> MaskAnd(mask(1), mask(2), w)
    [] node.op \in {"BvOr", "BvXor"} -> MaskOr(mask(1), mask(2), w)
    [] OTHER -> <<>>

possible_bit_mask_bytes(n, t, w, depth) ==
  IF w > MaskWidth \/ depth > MaskDepth THEN <<>>
  ELSE MaskOf(n, n[t],
              LAMBDA k : possible_bit_mask_bytes(
                           n, n[t].args[k],
                           IF n[t].op \in Resizing THEN n[n[t].args[k]].w ELSE w, depth + 1), w)

DisjointMasks(p, q, w) ==
  p # <<>> /\ q # <<>> /\ \A i \in 0 .. w - 1 : ~ (get_bit(p, i) /\ get_bit(q, i))

have_disjoint_possible_bits(n, a, b, w) ==
  w <= MaskWidth /\ DisjointMasks(possible_bit_mask_bytes(n, a, w, 0),
                                  possible_bit_mask_bytes(n, b, w, 0), w)

RECURSIVE Flatten(_, _, _)
\* collect_bv_add and collect_bv_mul: the operands of a tree of one operator.
Flatten(n, x, op) ==
  IF IsOp(n, x, op) THEN Flatten(n, Arg(n, x, 1), op) \o Flatten(n, Arg(n, x, 2), op) ELSE <<x>>

\* rebuild_bv_add, rebuild_bv_mul: a left-leaning tree in the order of the ids.
rebuild(n, terms, op, w) ==
  LET sorted == SortSeq(terms, <)
  IN  FoldLeft(LAMBDA cur, next :
                 add(cur.n, Term(op, order_pair(cur.id, next), <<>>, w)),
               Same(n, sorted[1]), Tail(sorted))
rebuild_bv_add(n, terms, w) ==
  IF terms = <<>> THEN zero(n, w) ELSE rebuild(n, terms, "BvAdd", w)
rebuild_bv_mul(n, terms, w) ==
  IF terms = <<>> THEN bv_const(n, 1, w) ELSE rebuild(n, terms, "BvMul", w)

\* A summand as base times coefficient.
scaled_add_term(n, t, w) ==
  IF IsOp(n, t, "BvMul") /\ is_const(n, Arg(n, t, 1))
  THEN [base |-> Arg(n, t, 2), by |-> const_bytes(n, Arg(n, t, 1))]
  ELSE IF IsOp(n, t, "BvMul") /\ is_const(n, Arg(n, t, 2))
  THEN [base |-> Arg(n, t, 1), by |-> const_bytes(n, Arg(n, t, 2))]
  ELSE [base |-> t, by |-> word_bytes(1, w)]

SumBytes(coefficients, w) == FoldLeft(LAMBDA acc, c : add_bytes(acc, c, w), Zeros(w), coefficients)

------------------------------------------------------------------------------
\* Polynomials over the terms: monomials are sorted sequences of terms,
\* coefficients are bytes, and no coefficient is zero.
EmptyPoly == [m \in {} |-> <<>>]
PutMonomial(p, monomial, new) ==
  IF is_zero_bytes(new) THEN Restrict(p, DOMAIN p \ {monomial})
  ELSE [m \in DOMAIN p \cup {monomial} |-> IF m = monomial THEN new ELSE p[m]]
polynomial_add_assign(p, monomial, coefficient, w) ==
  PutMonomial(p, monomial,
              add_bytes(IF monomial \in DOMAIN p THEN p[monomial] ELSE Zeros(w), coefficient, w))
\* left plus the terms of right, each coefficient passed through F
AddMapped(F(_), left, right, w) ==
  FoldSet(LAMBDA m, p : polynomial_add_assign(p, m, F(right[m]), w), left, DOMAIN right)
polynomial_constant(bytes) ==
  IF is_zero_bytes(bytes) THEN EmptyPoly ELSE [m \in {<<>>} |-> bytes]
polynomial_atom(t, w) == [m \in {<<t>>} |-> word_bytes(1, w)]
polynomial_add(p, q, w)   == AddMapped(LAMBDA c : c, p, q, w)
polynomial_sub(p, q, w)   == AddMapped(LAMBDA c : neg_bytes(c, w), p, q, w)
polynomial_neg(p, w)      == AddMapped(LAMBDA c : neg_bytes(c, w), EmptyPoly, p, w)
polynomial_scale(p, f, w) == AddMapped(LAMBDA c : mul_bytes(c, f, w), EmptyPoly, p, w)
\* The order of the code's BTreeMap: monomials compare as vectors.
MonomialLess(s, t) ==
  \E k \in 0 .. Len(s) :
    /\ k < Len(t) /\ \A j \in 1 .. k : s[j] = t[j]
    /\ k = Len(s) \/ s[k + 1] < t[k + 1]
NoPoly == [ok |-> FALSE, p |-> EmptyPoly, budget |-> 0]
Poly(p, budget) == [ok |-> TRUE, p |-> p, budget |-> budget]

\* The product, or NoPoly once a monomial or the polynomial is too large.
Bounded(p, budget) == IF Cardinality(DOMAIN p) > PolyTerms THEN NoPoly ELSE Poly(p, budget)
Accumulate(acc, mono, by, w) ==
  IF ~ acc.ok \/ Len(mono) > PolyDegree THEN NoPoly
  ELSE Bounded(polynomial_add_assign(acc.p, mono, by, w), acc.budget)
MulInOrder(p, q, lefts, rights, w, budget) ==
  FoldLeft(LAMBDA out, m :
             FoldLeft(LAMBDA acc, k : Accumulate(acc, SortSeq(m \o k, <), mul_bytes(p[m], q[k], w), w),
                      out, rights),
           Poly(EmptyPoly, budget), lefts)
polynomial_mul(p, q, w, budget) ==
  MulInOrder(p, q, SetToSortSeq(DOMAIN p, MonomialLess), SetToSortSeq(DOMAIN q, MonomialLess), w, budget)

RECURSIVE polynomial(_, _, _, _)

\* The polynomial of an operator from those of its operands.
Polynomial1(op, left, shift, w) ==
  IF ~ left.ok THEN NoPoly
  ELSE Poly(CASE op = "BvNeg" -> polynomial_neg(left.p, w)
              [] op = "BvNot" -> polynomial_add_assign(polynomial_neg(left.p, w), <<>>,
                                                       neg_bytes(word_bytes(1, w), w), w)
              [] op = "BvShl" -> polynomial_scale(left.p, word_bytes(2 ^ shift, w), w),
            left.budget)
Polynomial2(op, left, right, w) ==
  IF ~ left.ok \/ ~ right.ok THEN NoPoly
  ELSE CASE op = "BvAdd" -> Poly(polynomial_add(left.p, right.p, w), right.budget)
         [] op = "BvSub" -> Poly(polynomial_sub(left.p, right.p, w), right.budget)
         [] op = "BvMul" -> polynomial_mul(left.p, right.p, w, right.budget)
\* The second operand is read with what the first one left of the budget.
PolynomialOf(n, node, left, w) ==
  IF node.op \in {"BvAdd", "BvSub", "BvMul"}
  THEN Polynomial2(node.op, left, polynomial(n, node.args[2], w, left.budget), w)
  ELSE Polynomial1(node.op, left, const_shift_amount(n, node.args[2], w), w)

\* The polynomial of a term with what is left of the budget, or ok = FALSE.
polynomial(n, t, w, budget) ==
  LET node == n[t]
  IN  IF budget = 0 \/ node.w # w THEN NoPoly
      ELSE IF node.op = "BvConst" THEN Poly(polynomial_constant(node.par), budget - 1)
      ELSE IF \/ node.op \in {"BvAdd", "BvSub", "BvMul", "BvNeg", "BvNot"}
              \/ node.op = "BvShl" /\ is_const(n, node.args[2])
      THEN IF node.op = "BvShl" /\ const_shift_amount(n, node.args[2], w) >= w
           THEN Poly(EmptyPoly, budget - 1)
           ELSE PolynomialOf(n, node, polynomial(n, node.args[1], w, budget - 1), w)
      ELSE Poly(polynomial_atom(t, w), budget - 1)

\* What the difference of two polynomials says of the equation.
Verdict(diff) == IF diff = EmptyPoly THEN "equal"
                 ELSE IF DOMAIN diff = {<<>>} THEN "different" ELSE "undecided"
PolynomialsEqual(left, right, w) ==
  IF ~ left.ok \/ ~ right.ok THEN "undecided" ELSE Verdict(polynomial_sub(left.p, right.p, w))
EqualToLeft(n, left, b, w) ==
  IF ~ left.ok THEN "undecided" ELSE PolynomialsEqual(left, polynomial(n, b, w, left.budget), w)
polynomial_equality(n, a, b) ==
  IF n[a].w > PolyWidth THEN "undecided"
  ELSE EqualToLeft(n, polynomial(n, a, n[a].w, PolyBudget), b, n[a].w)
=====
