----------------------------- MODULE TermBuilder -----------------------------
(***************************************************************************)
(* The constructors of builder.rs.  Each checks the sorts of its operands, *)
(* tries its rewrites in the order of the code's early returns, and adds a *)
(* node when none applies.  Nodes a rewrite adds on the way stay in the    *)
(* arena, as in the code.                                                  *)
(***************************************************************************)
EXTENDS Terms

\* The constructor of an operator, applied to operands and parameters: the
\* constructors call one another.  Defined at the end.
RECURSIVE build(_, _, _, _)

Const(n, bytes, w) == bv_const_bytes(n, bytes, w)
BothConst(n, a, b) == is_const(n, a) /\ is_const(n, b)
Pointwise2(P(_, _), a, b, w) ==
  SetBits(Zeros(w), {i \in 0 .. w - 1 : P(get_bit(a, i), get_bit(b, i))})

bv_not(n, x) ==
  IF ~ expect_bv(n, x) THEN Err(n)
  ELSE IF is_const(n, x) THEN Const(n, not_bytes(const_bytes(n, x), n[x].w), n[x].w)
  ELSE IF IsOp(n, x, "BvNot") THEN Same(n, Arg(n, x, 1))
  ELSE add(n, Term("BvNot", <<x>>, <<>>, n[x].w))

bv_neg(n, x) ==
  IF ~ expect_bv(n, x) THEN Err(n)
  ELSE IF is_const(n, x) THEN Const(n, neg_bytes(const_bytes(n, x), n[x].w), n[x].w)
  ELSE IF IsOp(n, x, "BvNeg") THEN Same(n, Arg(n, x, 1))
  ELSE add(n, Term("BvNeg", <<x>>, <<>>, n[x].w))

bv_and(n, x, y) ==
  LET a == order_pair(x, y)[1]
      b == order_pair(x, y)[2]
      w == n[a].w
  IN  IF ~ expect_same_bv(n, a, b) THEN Err(n)
      ELSE IF a = b THEN Same(n, a)
      ELSE IF is_zero(n, a) \/ is_zero(n, b) THEN Same(n, IF is_zero(n, a) THEN a ELSE b)
      ELSE IF is_all_ones(n, a) \/ is_all_ones(n, b)
      THEN Same(n, IF is_all_ones(n, a) THEN b ELSE a)
      ELSE IF BothConst(n, a, b)
      THEN Const(n, Pointwise2(LAMBDA p, q : p /\ q, const_bytes(n, a), const_bytes(n, b), w), w)
      ELSE IF NegationPair(n, a, b, "BvNot") THEN zero(n, w)
      ELSE IF have_disjoint_possible_bits(n, a, b, w) THEN zero(n, w)
      ELSE IF OperandOf(n, a, "BvOr", b) THEN Same(n, b)
      ELSE IF OperandOf(n, b, "BvOr", a) THEN Same(n, a)
      ELSE add(n, Term("BvAnd", <<a, b>>, <<>>, w))

bv_or(n, x, y) ==
  LET a == order_pair(x, y)[1]
      b == order_pair(x, y)[2]
      w == n[a].w
  IN  IF ~ expect_same_bv(n, a, b) THEN Err(n)
      ELSE IF a = b THEN Same(n, a)
      ELSE IF is_zero(n, a) \/ is_zero(n, b) THEN Same(n, IF is_zero(n, a) THEN b ELSE a)
      ELSE IF is_all_ones(n, a) \/ is_all_ones(n, b)
      THEN Same(n, IF is_all_ones(n, a) THEN a ELSE b)
      ELSE IF BothConst(n, a, b)
      THEN Const(n, Pointwise2(LAMBDA p, q : p \/ q, const_bytes(n, a), const_bytes(n, b), w), w)
      ELSE IF NegationPair(n, a, b, "BvNot") THEN all_ones(n, w)
      ELSE IF OperandOf(n, a, "BvAnd", b) THEN Same(n, b)
      ELSE IF OperandOf(n, b, "BvAnd", a) THEN Same(n, a)
      ELSE IF self_shift_left_pair(n, a, b) THEN build(n, "BvAdd", <<a, b>>, <<>>)
      ELSE add(n, Term("BvOr", <<a, b>>, <<>>, w))

bv_xor(n, x, y) ==
  LET a == order_pair(x, y)[1]
      b == order_pair(x, y)[2]
      w == n[a].w
  IN  IF ~ expect_same_bv(n, a, b) THEN Err(n)
      ELSE IF a = b THEN zero(n, w)
      ELSE IF is_zero(n, a) \/ is_zero(n, b) THEN Same(n, IF is_zero(n, a) THEN b ELSE a)
      ELSE IF BothConst(n, a, b)
      THEN Const(n, Pointwise2(LAMBDA p, q : p # q, const_bytes(n, a), const_bytes(n, b), w), w)
      ELSE IF NegationPair(n, a, b, "BvNot") THEN all_ones(n, w)
      ELSE IF have_disjoint_possible_bits(n, a, b, w) THEN build(n, "BvOr", <<a, b>>, <<>>)
      ELSE add(n, Term("BvXor", <<a, b>>, <<>>, w))

\* canonical_bv_add: the summands of a + b with equal bases merged and the
\* constants added up; id = None unless that changes the sum.
AppendId(r, ids) == [n |-> r.n, ids |-> Append(ids, r.id)]
TimesConst(base, c) == build(c.n, "BvMul", <<base, c.id>>, <<>>)

AddScaled(acc, base, by, w) ==
  IF is_zero_bytes(by) THEN acc
  ELSE IF is_one_bytes(by) THEN [acc EXCEPT !.ids = Append(@, base)]
  ELSE AppendId(TimesConst(base, Const(acc.n, by, w)), acc.ids)

MergeBases(n, scaled, bases, w) ==
  FoldLeft(LAMBDA acc, base :
             AddScaled(acc, base, SumBytes([k \in DOMAIN scaled |->
                                              IF scaled[k].base = base THEN scaled[k].by ELSE Zeros(w)], w), w),
           [n |-> n, ids |-> <<>>], bases)

AddConstant(merged, sum, w) ==
  IF is_zero_bytes(sum) THEN merged ELSE AppendId(Const(merged.n, sum, w), merged.ids)

Regroup(grouped, changed, w) ==
  IF changed THEN rebuild_bv_add(grouped.n, grouped.ids, w) ELSE Err(grouped.n)

SumScaled(n, scaled, bases, sum, w, many) ==
  Regroup(AddConstant(MergeBases(n, scaled, bases, w), sum, w), many \/ Len(bases) < Len(scaled), w)

canonical_bv_add(n, a, b, w) ==
  LET terms  == Flatten(n, a, "BvAdd") \o Flatten(n, b, "BvAdd")
      consts == SelectSeq(terms, LAMBDA t : is_const(n, t))
      others == SelectSeq(terms, LAMBDA t : ~ is_const(n, t))
      scaled == [k \in DOMAIN others |-> scaled_add_term(n, others[k], w)]
  IN  SumScaled(n, scaled, SetToSortSeq({scaled[k].base : k \in DOMAIN scaled}, <),
                SumBytes([k \in DOMAIN consts |-> const_bytes(n, consts[k])], w), w, Len(terms) > 2)

\* canonical_bv_mul: only a product of more than two factors is rebuilt.
MulBy(n, others, by, w) ==
  IF is_one_bytes(by) THEN rebuild_bv_mul(n, others, w)
  ELSE LET c == Const(n, by, w) IN rebuild_bv_mul(c.n, Append(others, c.id), w)

canonical_bv_mul(n, a, b, w) ==
  LET terms  == Flatten(n, a, "BvMul") \o Flatten(n, b, "BvMul")
      consts == SelectSeq(terms, LAMBDA t : is_const(n, t))
  IN  IF Len(terms) <= 2 THEN Err(n)
      ELSE IF \E k \in DOMAIN consts : is_zero(n, consts[k]) THEN zero(n, w)
      ELSE MulBy(n, SelectSeq(terms, LAMBDA t : ~ is_const(n, t)),
                 FoldLeft(LAMBDA acc, t : mul_bytes(acc, const_bytes(n, t), w), word_bytes(1, w), consts), w)

\* x + (x << k) is x * ((1 << k) + 1).
PowerPlusOne(one, k) ==
  LET power == build(one.n, "BvShl", <<one.id, k>>, <<>>)
  IN  build(power.n, "BvAdd", <<one.id, power.id>>, <<>>)
FactorShift(n, x, k, w) == TimesConst(x, PowerPlusOne(bv_const(n, 1, w), k))

AddCanonical(canon, a, b, w) ==
  LET parts == shifted_same_add_parts(canon.n, a, b)
  IN  IF canon.id # None THEN canon
      ELSE IF SharedShift(canon.n, a, b) THEN FactorShift(canon.n, parts[1], parts[2], w)
      ELSE add(canon.n, Term("BvAdd", <<a, b>>, <<>>, w))

bv_add(n, x, y) ==
  LET a == order_pair(x, y)[1]
      b == order_pair(x, y)[2]
      w == n[a].w
  IN  IF ~ expect_same_bv(n, a, b) THEN Err(n)
      ELSE IF is_zero(n, a) \/ is_zero(n, b) THEN Same(n, IF is_zero(n, a) THEN b ELSE a)
      ELSE IF BothConst(n, a, b)
      THEN Const(n, add_bytes(const_bytes(n, a), const_bytes(n, b), w), w)
      ELSE IF have_disjoint_possible_bits(n, a, b, w) THEN build(n, "BvOr", <<a, b>>, <<>>)
      ELSE AddCanonical(canonical_bv_add(n, a, b, w), a, b, w)

bv_sub(n, a, b) ==
  IF ~ expect_same_bv(n, a, b) THEN Err(n)
  ELSE IF a = b \/ (is_zero(n, a) /\ is_zero(n, b)) THEN zero(n, n[a].w)
  ELSE IF is_zero(n, b) THEN Same(n, a)
  ELSE IF BothConst(n, a, b)
  THEN Const(n, sub_bytes(const_bytes(n, a), const_bytes(n, b), n[a].w), n[a].w)
  ELSE add(n, Term("BvSub", <<a, b>>, <<>>, n[a].w))

NegOf(r)      == bv_neg(r.n, r.id)
ShlOf(r, by)  == build(r.n, "BvShl", <<r.id, by>>, <<>>)
Product(n, x, y) == build(n, "BvMul", <<x, y>>, <<>>)
MulCanonical(n, canon, a, b, w) ==
  IF canon.id # None THEN canon ELSE add(n, Term("BvMul", <<a, b>>, <<>>, w))

bv_mul(n, x, y) ==
  LET a == order_pair(x, y)[1]
      b == order_pair(x, y)[2]
      w == n[a].w
  IN  IF ~ expect_same_bv(n, a, b) THEN Err(n)
      ELSE IF is_zero(n, a) \/ is_zero(n, b) THEN zero(n, w)
      ELSE IF is_one(n, a) \/ is_one(n, b) THEN Same(n, IF is_one(n, a) THEN b ELSE a)
      ELSE IF is_all_ones(n, a) \/ is_all_ones(n, b)
      THEN bv_neg(n, IF is_all_ones(n, a) THEN b ELSE a)
      ELSE IF IsOp(n, a, "BvNeg") THEN NegOf(Product(n, Arg(n, a, 1), b))
      ELSE IF IsOp(n, b, "BvNeg") THEN NegOf(Product(n, a, Arg(n, b, 1)))
      ELSE IF BothConst(n, a, b)
      THEN Const(n, mul_bytes(const_bytes(n, a), const_bytes(n, b), w), w)
      ELSE IF IsOp(n, a, "BvShl") THEN ShlOf(Product(n, Arg(n, a, 1), b), Arg(n, a, 2))
      ELSE IF IsOp(n, b, "BvShl") THEN ShlOf(Product(n, a, Arg(n, b, 1)), Arg(n, b, 2))
      ELSE MulCanonical(n, canonical_bv_mul(n, a, b, w), a, b, w)

bv_udiv(n, a, b) ==
  IF ~ expect_same_bv(n, a, b) THEN Err(n)
  ELSE IF is_zero(n, b) THEN all_ones(n, n[a].w)
  ELSE IF is_one(n, b) THEN Same(n, a)
  ELSE IF is_zero(n, a) /\ is_const(n, b) THEN zero(n, n[a].w)
  ELSE add(n, Term("BvUDiv", <<a, b>>, <<>>, n[a].w))

bv_urem(n, a, b) ==
  IF ~ expect_same_bv(n, a, b) THEN Err(n)
  ELSE IF is_zero(n, a) \/ is_one(n, b) THEN zero(n, n[a].w)
  ELSE IF is_zero(n, b) THEN Same(n, a)
  ELSE add(n, Term("BvURem", <<a, b>>, <<>>, n[a].w))

\* bv_sdiv, bv_srem and bv_smod rewrite nothing.
bv_binary(n, a, b, op) ==
  IF ~ expect_same_bv(n, a, b) THEN Err(n) ELSE add(n, Term(op, <<a, b>>, <<>>, n[a].w))

bv_shl(n, a, b) ==
  LET w      == n[a].w
      amount == const_shift_amount(n, b, w)
  IN  IF ~ expect_same_bv(n, a, b) THEN Err(n)
      ELSE IF is_zero(n, a) THEN zero(n, w)
      ELSE IF is_const(n, b) /\ amount = 0 THEN Same(n, a)
      ELSE IF is_const(n, b) /\ amount >= w THEN zero(n, w)
      ELSE IF BothConst(n, a, b) THEN Const(n, shl_bytes(const_bytes(n, a), w, amount), w)
      ELSE IF IsOp(n, a, "BvNeg") THEN NegOf(build(n, "BvShl", <<Arg(n, a, 1), b>>, <<>>))
      ELSE add(n, Term("BvShl", <<a, b>>, <<>>, w))

\* A right shift of a right shift is reordered by the id of the amounts.
LShrOf(r, by) == build(r.n, "BvLShr", <<r.id, by>>, <<>>)
bv_lshr(n, a, b) ==
  LET w      == n[a].w
      amount == const_shift_amount(n, b, w)
  IN  IF ~ expect_same_bv(n, a, b) THEN Err(n)
      ELSE IF a = b \/ is_zero(n, a) THEN zero(n, w)
      ELSE IF is_const(n, b) /\ amount = 0 THEN Same(n, a)
      ELSE IF is_const(n, b) /\ amount >= w THEN zero(n, w)
      ELSE IF BothConst(n, a, b) THEN Const(n, lshr_bytes(const_bytes(n, a), w, amount), w)
      ELSE IF IsOp(n, a, "BvLShr") /\ b < Arg(n, a, 2)
      THEN LShrOf(build(n, "BvLShr", <<Arg(n, a, 1), b>>, <<>>), Arg(n, a, 2))
      ELSE add(n, Term("BvLShr", <<a, b>>, <<>>, w))

bv_ashr(n, a, b) ==
  LET w      == n[a].w
      amount == const_shift_amount(n, b, w)
  IN  IF ~ expect_same_bv(n, a, b) THEN Err(n)
      ELSE IF is_const(n, b) /\ amount = 0 THEN Same(n, a)
      ELSE IF BothConst(n, a, b) THEN Const(n, ashr_bytes(const_bytes(n, a), w, amount), w)
      ELSE add(n, Term("BvAShr", <<a, b>>, <<>>, w))

Slice(n, x, high, low) == build(n, "BvExtract", <<x>>, <<high, low>>)
\* A slice across the seam of a concatenation: the low part is made first.
Joined(highPart, low) == build(highPart.n, "BvConcat", <<highPart.id, low>>, <<>>)
SliceAbove(lowPart, x, high) == Joined(Slice(lowPart.n, x, high, 0), lowPart.id)

bv_extract(n, child, high, low) ==
  LET w      == n[child].w
      out    == high - low + 1
      inner  == Arg(n, child, 1)
      below  == Arg(n, child, 2)
      lw     == n[below].w
  IN  IF ~ expect_bv(n, child) \/ low > high \/ high >= w THEN Err(n)
      ELSE IF low = 0 /\ high + 1 = w THEN Same(n, child)
      ELSE IF is_const(n, child) THEN Const(n, extract_bytes(const_bytes(n, child), low, out), out)
      ELSE IF IsOp(n, child, "BvExtract")
      THEN Slice(n, inner, n[child].par[2] + high, n[child].par[2] + low)
      ELSE IF IsOp(n, child, "BvConcat")
      THEN IF high < lw THEN Slice(n, below, high, low)
           ELSE IF low >= lw THEN Slice(n, inner, high - lw, low - lw)
           ELSE SliceAbove(Slice(n, below, lw - 1, low), inner, high - lw)
      ELSE add(n, Term("BvExtract", <<child>>, <<high, low>>, out))

bv_concat(n, high, low) ==
  LET w == n[high].w + n[low].w
  IN  IF ~ expect_bv(n, high) \/ ~ expect_bv(n, low) \/ ~ ValidWidth(w) THEN Err(n)
      ELSE IF BothConst(n, high, low)
      THEN Const(n, concat_bytes(const_bytes(n, high), n[high].w, const_bytes(n, low), n[low].w), w)
      ELSE IF /\ IsOp(n, high, "BvExtract") /\ IsOp(n, low, "BvExtract")
              /\ Arg(n, high, 1) = Arg(n, low, 1)
              /\ n[low].par[1] + 1 = n[high].par[2]
      THEN Slice(n, Arg(n, high, 1), n[high].par[1], n[low].par[2])
      ELSE add(n, Term("BvConcat", <<high, low>>, <<>>, w))

\* bv_zext and bv_sext
Extend(n, child, extra, op, F(_, _)) ==
  LET w == n[child].w + extra
  IN  IF ~ expect_bv(n, child) \/ ~ ValidWidth(w) THEN Err(n)
      ELSE IF extra = 0 THEN Same(n, child)
      ELSE IF is_const(n, child) THEN Const(n, F(const_bytes(n, child), n[child].w), w)
      ELSE add(n, Term(op, <<child>>, <<extra>>, w))
bv_zext(n, child, extra) ==
  Extend(n, child, extra, "BvZeroExtend", LAMBDA bytes, w : resize(bytes, w + extra))
bv_sext(n, child, extra) ==
  Extend(n, child, extra, "BvSignExtend", LAMBDA bytes, w : sext_bytes(bytes, w, extra))

bv_repeat(n, child, count) ==
  LET w == n[child].w * count
  IN  IF count = 0 \/ ~ expect_bv(n, child) \/ ~ ValidWidth(w) THEN Err(n)
      ELSE IF count = 1 THEN Same(n, child)
      ELSE IF is_const(n, child) THEN Const(n, repeat_bytes(const_bytes(n, child), n[child].w, count), w)
      ELSE add(n, Term("BvRepeat", <<child>>, <<count>>, w))

\* bv_rotate_left and bv_rotate_right
Rotate(n, child, by, op, F(_, _, _)) ==
  LET w      == n[child].w
      amount == by % w
  IN  IF ~ expect_bv(n, child) THEN Err(n)
      ELSE IF amount = 0 THEN Same(n, child)
      ELSE IF is_const(n, child) THEN Const(n, F(const_bytes(n, child), w, amount), w)
      ELSE add(n, Term(op, <<child>>, <<amount>>, w))
bv_rotate_left(n, child, by)  == Rotate(n, child, by, "BvRotateLeft", rotate_left_bytes)
bv_rotate_right(n, child, by) == Rotate(n, child, by, "BvRotateRight", rotate_right_bytes)

\* bv_ite
bv_ite(n, c, t, e) ==
  IF ~ expect_bool(n, c) \/ ~ expect_same_bv(n, t, e) THEN Err(n)
  ELSE IF t = e THEN Same(n, t)
  ELSE IF is_bool_const(n, c) THEN Same(n, IF bool_const_value(n, c) THEN t ELSE e)
  ELSE add(n, Term("BvIte", <<c, t, e>>, <<>>, n[t].w))

\* cases is <<selector, value, ..., default>>; bv_select rewrites nothing.
bv_select(n, cases) ==
  LET default == cases[Len(cases)]
  IN  IF \/ ~ expect_bv(n, default)
         \/ \E k \in 1 .. (Len(cases) - 1) \div 2 :
              ~ expect_bool(n, cases[2 * k - 1]) \/ n[cases[2 * k]].w # n[default].w
      THEN Err(n)
      ELSE add(n, Term("BvSelect", cases, <<>>, n[default].w))

------------------------------------------------------------------------------
bool_not(n, x) ==
  IF ~ expect_bool(n, x) THEN Err(n)
  ELSE IF is_bool_const(n, x) THEN bool_const(n, ~ bool_const_value(n, x))
  ELSE IF IsOp(n, x, "BoolNot") THEN Same(n, Arg(n, x, 1))
  ELSE add(n, Term("BoolNot", <<x>>, <<>>, 0))

bool_and(n, x, y) ==
  LET a == order_pair(x, y)[1]
      b == order_pair(x, y)[2]
  IN  IF ~ expect_bool(n, a) \/ ~ expect_bool(n, b) THEN Err(n)
      ELSE IF a = b THEN Same(n, a)
      ELSE IF NegationPair(n, a, b, "BoolNot") THEN bool_const(n, FALSE)
      ELSE IF is_bool_const(n, a) THEN Same(n, IF bool_const_value(n, a) THEN b ELSE a)
      ELSE IF is_bool_const(n, b) THEN Same(n, IF bool_const_value(n, b) THEN a ELSE b)
      ELSE add(n, Term("BoolAnd", <<a, b>>, <<>>, 0))

bool_or(n, x, y) ==
  LET a == order_pair(x, y)[1]
      b == order_pair(x, y)[2]
  IN  IF ~ expect_bool(n, a) \/ ~ expect_bool(n, b) THEN Err(n)
      ELSE IF a = b THEN Same(n, a)
      ELSE IF NegationPair(n, a, b, "BoolNot") THEN bool_const(n, TRUE)
      ELSE IF is_bool_const(n, a) THEN Same(n, IF bool_const_value(n, a) THEN a ELSE b)
      ELSE IF is_bool_const(n, b) THEN Same(n, IF bool_const_value(n, b) THEN b ELSE a)
      ELSE add(n, Term("BoolOr", <<a, b>>, <<>>, 0))

bool_implies(n, a, b) ==
  IF ~ expect_bool(n, a) \/ ~ expect_bool(n, b) THEN Err(n)
  ELSE IF a = b THEN bool_const(n, TRUE)
  ELSE IF is_bool_const(n, a)
  THEN IF bool_const_value(n, a) THEN Same(n, b) ELSE bool_const(n, TRUE)
  ELSE IF is_bool_const(n, b)
  THEN IF bool_const_value(n, b) THEN bool_const(n, TRUE) ELSE bool_not(n, a)
  ELSE add(n, Term("BoolImplies", <<a, b>>, <<>>, 0))

bool_eq(n, a, b) ==
  IF ~ expect_bool(n, a) \/ ~ expect_bool(n, b) THEN Err(n)
  ELSE IF a = b THEN bool_const(n, TRUE)
  ELSE IF NegationPair(n, a, b, "BoolNot") THEN bool_const(n, FALSE)
  ELSE IF is_bool_const(n, a) /\ is_bool_const(n, b)
  THEN bool_const(n, bool_const_value(n, a) = bool_const_value(n, b))
  ELSE add(n, Term("BoolEq", order_pair(a, b), <<>>, 0))

\* bool_xor and bv_ne: the negated equation.
Negated(r) == IF r.id = None THEN r ELSE bool_not(r.n, r.id)
bool_xor(n, a, b) == Negated(bool_eq(n, a, b))

bool_ite(n, c, t, e) ==
  IF ~ expect_bool(n, c) \/ ~ expect_bool(n, t) \/ ~ expect_bool(n, e) THEN Err(n)
  ELSE IF t = e THEN Same(n, t)
  ELSE IF is_bool_const(n, c) THEN Same(n, IF bool_const_value(n, c) THEN t ELSE e)
  ELSE add(n, Term("BoolIte", <<c, t, e>>, <<>>, 0))

\* An if-then-else of one-bit constants compared with a one-bit constant.
OneBitIte(n, ite, c) ==
  /\ one_bit_const(n, c) /\ IsOp(n, ite, "BvIte")
  /\ one_bit_const(n, Arg(n, ite, 2)) /\ one_bit_const(n, Arg(n, ite, 3))
one_bit_ite_const_equality(n, ite, c) ==
  LET cond == Arg(n, ite, 1)
      then == const_bytes(n, Arg(n, ite, 2)) = const_bytes(n, c)
      else == const_bytes(n, Arg(n, ite, 3)) = const_bytes(n, c)
  IN  IF then /\ ~ else THEN Same(n, cond)
      ELSE IF ~ then /\ else THEN bool_not(n, cond)
      ELSE bool_const(n, then)

\* An extension compared with a constant.
ExtensionConst(n, x, c) == is_const(n, c) /\ n[x].op \in {"BvZeroExtend", "BvSignExtend"}

extension_const_equality(n, x, c) ==
  LET child == Arg(n, x, 1)
      cw    == n[child].w
      low   == extract_bytes(const_bytes(n, c), 0, cw)
      inRange == IF IsOp(n, x, "BvSignExtend")
                 THEN sext_bytes(low, cw, n[x].par[1]) = const_bytes(n, c)
                 ELSE high_bits_zero(const_bytes(n, c), cw, n[c].w)
      equalTo(lowConst) == build(lowConst.n, "BvEq", <<child, lowConst.id>>, <<>>)
  IN  IF ~ inRange THEN bool_const(n, FALSE) ELSE equalTo(Const(n, low, cw))

EqDecided(n, a, b, verdict) ==
  IF verdict # "undecided" THEN bool_const(n, verdict = "equal")
  ELSE add(n, Term("BvEq", order_pair(a, b), <<>>, 0))

bv_eq(n, a, b) ==
  IF ~ expect_same_bv(n, a, b) THEN Err(n)
  ELSE IF a = b THEN bool_const(n, TRUE)
  ELSE IF NegationPair(n, a, b, "BvNot") THEN bool_const(n, FALSE)
  ELSE IF OneBitIte(n, a, b) THEN one_bit_ite_const_equality(n, a, b)
  ELSE IF OneBitIte(n, b, a) THEN one_bit_ite_const_equality(n, b, a)
  ELSE IF ExtensionConst(n, a, b) THEN extension_const_equality(n, a, b)
  ELSE IF ExtensionConst(n, b, a) THEN extension_const_equality(n, b, a)
  ELSE IF BothConst(n, a, b) THEN bool_const(n, const_bytes(n, a) = const_bytes(n, b))
  ELSE EqDecided(n, a, b, polynomial_equality(n, a, b))
bv_ne(n, a, b) == Negated(build(n, "BvEq", <<a, b>>, <<>>))

Compare(n, a, b, op) == build(n, op, <<a, b>>, <<>>)

\* The constant's low bits, at the width of the child of the extension x.
LowConst(n, x, c) ==
  Const(n, extract_bytes(const_bytes(n, c), 0, n[Arg(n, x, 1)].w), n[Arg(n, x, 1)].w)
CompareChild(low, child, op, onLeft) ==
  IF onLeft THEN Compare(low.n, child, low.id, op) ELSE Compare(low.n, low.id, child, op)

\* Mutant of zero_extend_const_unsigned_cmp: the high bits of the constant are forgotten.
zero_extend_const_cmp_low(n, x, c, op, onLeft) ==
  CompareChild(LowConst(n, x, c), Arg(n, x, 1), op, onLeft)

\* zext(child) compared with a constant, on either side, without sign: the
\* constant is added at the width of the child before the cases are told apart.
ZextCompare(low, child, highZero, isZero, op, onLeft) ==
  IF onLeft /\ op = "BvUlt" /\ isZero THEN bool_const(low.n, FALSE)
  ELSE IF ~ highZero THEN bool_const(low.n, onLeft)
  ELSE IF ~ onLeft /\ op = "BvUlt" /\ is_all_ones(low.n, low.id) THEN bool_const(low.n, FALSE)
  ELSE IF ~ onLeft /\ op = "BvUle" /\ isZero THEN bool_const(low.n, TRUE)
  ELSE CompareChild(low, child, op, onLeft)

zero_extend_const_unsigned_cmp(n, x, c, op, onLeft) ==
  ZextCompare(LowConst(n, x, c), Arg(n, x, 1),
              high_bits_zero(const_bytes(n, c), n[Arg(n, x, 1)].w, n[c].w), is_zero(n, c), op, onLeft)

bv_cmp(n, a, b, op) ==
  LET w  == n[a].w
      ba == const_bytes(n, a)
      bb == const_bytes(n, b)
  IN  IF ~ expect_same_bv(n, a, b) THEN Err(n)
      ELSE IF a = b THEN bool_const(n, op \in {"BvUle", "BvSle"})
      ELSE IF op \in {"BvUlt", "BvUle"} /\ ExtensionConst(n, a, b) /\ IsOp(n, a, "BvZeroExtend")
      THEN zero_extend_const_unsigned_cmp(n, a, b, op, TRUE)
      ELSE IF op \in {"BvUlt", "BvUle"} /\ ExtensionConst(n, b, a) /\ IsOp(n, b, "BvZeroExtend")
      THEN zero_extend_const_unsigned_cmp(n, b, a, op, FALSE)
      ELSE IF BothConst(n, a, b)
      THEN bool_const(n, CASE op = "BvUlt" -> cmp_less_unsigned(ba, bb)
                           [] op = "BvUle" -> ~ cmp_less_unsigned(bb, ba)
                           [] op = "BvSlt" -> signed_less_than(ba, bb, w)
                           [] op = "BvSle" -> signed_less_than(ba, bb, w) \/ ba = bb)
      ELSE add(n, Term(op, <<a, b>>, <<>>, 0))

\* The overflow predicates rewrite nothing.
overflow_binary(n, a, b, op) ==
  IF ~ expect_same_bv(n, a, b) THEN Err(n) ELSE add(n, Term(op, <<a, b>>, <<>>, 0))
neg_ovf(n, x) == IF ~ expect_bv(n, x) THEN Err(n) ELSE add(n, Term("NegOverflow", <<x>>, <<>>, 0))

------------------------------------------------------------------------------
CmpOps      == {"BvUlt", "BvUle", "BvSlt", "BvSle"}
OverflowOps == {"UAddOverflow", "SAddOverflow", "USubOverflow", "SSubOverflow",
                "UMulOverflow", "SMulOverflow", "SDivOverflow"}
SignedOps   == {"BvSDiv", "BvSRem", "BvSMod"}

build(n, op, x, par) ==
  CASE op = "BvNot"  -> bv_not(n, x[1])
    [] op = "BvNeg"  -> bv_neg(n, x[1])
    [] op = "BvAnd"  -> bv_and(n, x[1], x[2])
    [] op = "BvOr"   -> bv_or(n, x[1], x[2])
    [] op = "BvXor"  -> bv_xor(n, x[1], x[2])
    [] op = "BvAdd"  -> bv_add(n, x[1], x[2])
    [] op = "BvSub"  -> bv_sub(n, x[1], x[2])
    [] op = "BvMul"  -> bv_mul(n, x[1], x[2])
    [] op = "BvUDiv" -> bv_udiv(n, x[1], x[2])
    [] op = "BvURem" -> bv_urem(n, x[1], x[2])
    [] op \in SignedOps -> bv_binary(n, x[1], x[2], op)
    [] op = "BvShl"  -> bv_shl(n, x[1], x[2])
    [] op = "BvLShr" -> bv_lshr(n, x[1], x[2])
    [] op = "BvAShr" -> bv_ashr(n, x[1], x[2])
    [] op = "BvExtract"     -> bv_extract(n, x[1], par[1], par[2])
    [] op = "BvConcat"      -> bv_concat(n, x[1], x[2])
    [] op = "BvZeroExtend"  -> bv_zext(n, x[1], par[1])
    [] op = "BvSignExtend"  -> bv_sext(n, x[1], par[1])
    [] op = "BvRepeat"      -> bv_repeat(n, x[1], par[1])
    [] op = "BvRotateLeft"  -> bv_rotate_left(n, x[1], par[1])
    [] op = "BvRotateRight" -> bv_rotate_right(n, x[1], par[1])
    [] op = "BvIte"    -> bv_ite(n, x[1], x[2], x[3])
    [] op = "BvSelect" -> bv_select(n, x)
    [] op = "BoolNot"  -> bool_not(n, x[1])
    [] op = "BoolAnd"  -> bool_and(n, x[1], x[2])
    [] op = "BoolOr"   -> bool_or(n, x[1], x[2])
    [] op = "BoolImplies" -> bool_implies(n, x[1], x[2])
    [] op = "BoolEq"  -> bool_eq(n, x[1], x[2])
    [] op = "BoolXor" -> bool_xor(n, x[1], x[2])
    [] op = "BoolIte" -> bool_ite(n, x[1], x[2], x[3])
    [] op = "BvEq" -> bv_eq(n, x[1], x[2])
    [] op = "BvNe" -> bv_ne(n, x[1], x[2])
    [] op \in CmpOps      -> bv_cmp(n, x[1], x[2], op)
    [] op \in OverflowOps -> overflow_binary(n, x[1], x[2], op)
    [] op = "NegOverflow" -> neg_ovf(n, x[1])

\* An operator applied to the terms at the given positions of a table.
build_from(n, op, terms, at, par) == build(n, op, [k \in DOMAIN at |-> terms[at[k]]], par)
==============================================================================
