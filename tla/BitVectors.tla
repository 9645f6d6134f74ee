----------------------------- MODULE BitVectors ------------------------------
(***************************************************************************)
(* What the bit-vector operators mean, as SMT-LIB defines them over the    *)
(* integers modulo 2^w.  This is the abstract specification that the term  *)
(* builder, the evaluator and the circuits are checked against: nothing in *)
(* it is taken from their code.  A Boolean is a BOOLEAN, a bit-vector a    *)
(* natural number; w is the width of the operands.                         *)
(***************************************************************************)
EXTENDS BinaryNumbers, FiniteSetsExt

Signed(x, w) == IF x >= TwoTo(w - 1) THEN x - TwoTo(w) ELSE x

Bitwise(P(_, _), x, y, w) == Number([i \in 1 .. w |-> P(BitsOf(x, w)[i], BitsOf(y, w)[i])])
AndOf(x, y, w) == Bitwise(LAMBDA p, q : p /\ q, x, y, w)
OrOf(x, y, w)  == Bitwise(LAMBDA p, q : p \/ q, x, y, w)
XorOf(x, y, w) == Bitwise(LAMBDA p, q : p # q, x, y, w)

\* k copies of x, one above the other, for every k up to times.
copies(x, w, times) ==
  LET r[k \in 0 .. times] == IF k = 0 THEN 0 ELSE r[k - 1] + x * TwoTo((k - 1) * w)
  IN  r
Repeated(x, w, times) == copies(x, w, times)[times]

AbsInt(x) == IF x < 0 THEN -x ELSE x

\* Division truncating towards zero, and the remainder with the sign of x.
Quot(x, y) == LET q == AbsInt(x) \div AbsInt(y) IN IF (x < 0) # (y < 0) THEN -q ELSE q
Rem(x, y)  == x - y * Quot(x, y)

OutOfRange(x, w) == x < -(TwoTo(w - 1)) \/ x >= TwoTo(w - 1)

UDiv(x, y, w) == IF y = 0 THEN TwoTo(w) - 1 ELSE x \div y
SDiv(x, y, w) == IF Signed(y, w) = 0 THEN IF Signed(x, w) < 0 THEN 1 ELSE TwoTo(w) - 1
                 ELSE Quot(Signed(x, w), Signed(y, w)) % TwoTo(w)
SRem(x, y, w) == IF y = 0 THEN x ELSE Rem(Signed(x, w), Signed(y, w)) % TwoTo(w)
SMod(x, y, w) ==
  IF y = 0 THEN x
  ELSE LET r == Rem(Signed(x, w), Signed(y, w))
       IN  (IF r # 0 /\ (r < 0) # (Signed(y, w) < 0) THEN r + Signed(y, w) ELSE r) % TwoTo(w)

\* The meaning of an operator with operand values v and parameters par, where
\* w is the width of its last operand (and wh of its first, for BvConcat).
Meaning(op, v, par, wh, w) ==
  CASE op = "BvNot"  -> TwoTo(w) - 1 - v[1]
    [] op = "BvNeg"  -> (-v[1]) % TwoTo(w)
    [] op = "BvAnd"  -> AndOf(v[1], v[2], w)
    [] op = "BvOr"   -> OrOf(v[1], v[2], w)
    [] op = "BvXor"  -> XorOf(v[1], v[2], w)
    [] op = "BvAdd"  -> (v[1] + v[2]) % TwoTo(w)
    [] op = "BvSub"  -> (v[1] - v[2]) % TwoTo(w)
    [] op = "BvMul"  -> (v[1] * v[2]) % TwoTo(w)
    [] op = "BvUDiv" -> UDiv(v[1], v[2], w)
    [] op = "BvURem" -> IF v[2] = 0 THEN v[1] ELSE v[1] % v[2]
    [] op = "BvSDiv" -> SDiv(v[1], v[2], w)
    [] op = "BvSRem" -> SRem(v[1], v[2], w)
    [] op = "BvSMod" -> SMod(v[1], v[2], w)
    [] op = "BvShl"  -> IF v[2] >= w THEN 0 ELSE (v[1] * TwoTo(v[2])) % TwoTo(w)
    [] op = "BvLShr" -> IF v[2] >= w THEN 0 ELSE v[1] \div TwoTo(v[2])
    [] op = "BvAShr" -> (Signed(v[1], w) \div TwoTo(Min({v[2], w}))) % TwoTo(w)
    [] op = "BvExtract"     -> (v[1] \div TwoTo(par[2])) % TwoTo(par[1] - par[2] + 1)
    [] op = "BvConcat"      -> v[1] * TwoTo(w) + v[2]
    [] op = "BvZeroExtend"  -> v[1]
    [] op = "BvSignExtend"  -> Signed(v[1], w) % TwoTo(w + par[1])
    [] op = "BvRepeat"      -> Repeated(v[1], w, par[1])
    [] op = "BvRotateLeft"  -> LET k == par[1] % w
                               IN  ((v[1] * TwoTo(k)) % TwoTo(w)) + (v[1] \div TwoTo(w - k))
    [] op = "BvRotateRight" -> LET k == par[1] % w
                               IN  (v[1] \div TwoTo(k)) + ((v[1] * TwoTo(w - k)) % TwoTo(w))
    [] op \in {"BvIte", "BoolIte"} -> IF v[1] THEN v[2] ELSE v[3]
    [] op = "BvSelect" ->
         LET cases == {k \in 1 .. (Len(v) - 1) \div 2 : v[2 * k - 1]}
         IN  IF cases = {} THEN v[Len(v)] ELSE v[2 * Min(cases)]
    [] op = "BoolNot"     -> ~ v[1]
    [] op = "BoolAnd"     -> v[1] /\ v[2]
    [] op = "BoolOr"      -> v[1] \/ v[2]
    [] op = "BoolImplies" -> v[1] => v[2]
    [] op \in {"BoolEq", "BvEq"} -> v[1] = v[2]
    [] op \in {"BoolXor", "BvNe"} -> v[1] # v[2]
    [] op = "BvUlt" -> v[1] < v[2]
    [] op = "BvUle" -> v[1] <= v[2]
    [] op = "BvSlt" -> Signed(v[1], w) < Signed(v[2], w)
    [] op = "BvSle" -> Signed(v[1], w) <= Signed(v[2], w)
    [] op = "UAddOverflow" -> v[1] + v[2] >= TwoTo(w)
    [] op = "SAddOverflow" -> OutOfRange(Signed(v[1], w) + Signed(v[2], w), w)
    [] op = "USubOverflow" -> v[1] < v[2]
    [] op = "SSubOverflow" -> OutOfRange(Signed(v[1], w) - Signed(v[2], w), w)
    [] op = "UMulOverflow" -> v[1] * v[2] >= TwoTo(w)
    [] op = "SMulOverflow" -> OutOfRange(Signed(v[1], w) * Signed(v[2], w), w)
    [] op = "NegOverflow"  -> OutOfRange(-Signed(v[1], w), w)
    [] op = "SDivOverflow" -> v[2] # 0 /\ OutOfRange(Quot(Signed(v[1], w), Signed(v[2], w)), w)

\* The operators on two bit-vectors of one width: those whose result has that
\* width, and those whose result is a Boolean.
PairOps == {"BvAnd", "BvOr", "BvXor", "BvAdd", "BvSub", "BvMul", "BvUDiv", "BvURem", "BvSDiv",
            "BvSRem", "BvSMod", "BvShl", "BvLShr", "BvAShr"}
PredicateOps == {"BvEq", "BvNe", "BvUlt", "BvUle", "BvSlt", "BvSle", "UAddOverflow", "SAddOverflow",
                 "USubOverflow", "SSubOverflow", "UMulOverflow", "SMulOverflow", "SDivOverflow"}

\* Operands of widths w (0 for Bool) have the sorts an operator asks for.
WellSorted(op, w, par) ==
  CASE op = "BoolNot" -> w = <<0>>
    [] op \in {"BoolAnd", "BoolOr", "BoolImplies", "BoolEq", "BoolXor"} -> w = <<0, 0>>
    [] op = "BoolIte" -> w = <<0, 0, 0>>
    [] op \in {"BvNot", "BvNeg", "NegOverflow", "BvRotateLeft", "BvRotateRight", "BvZeroExtend",
               "BvSignExtend"} -> Len(w) = 1 /\ w[1] > 0
    [] op = "BvExtract" -> Len(w) = 1 /\ par[1] < w[1] /\ par[2] <= par[1]
    [] op = "BvRepeat"  -> Len(w) = 1 /\ w[1] > 0 /\ par[1] > 0
    [] op = "BvConcat"  -> Len(w) = 2 /\ w[1] > 0 /\ w[2] > 0
    [] op = "BvIte"     -> Len(w) = 3 /\ w[1] = 0 /\ w[2] > 0 /\ w[3] = w[2]
    [] op = "BvSelect"  -> /\ Len(w) % 2 = 1 /\ w[Len(w)] > 0
                           /\ \A k \in 1 .. (Len(w) - 1) \div 2 : w[2 * k - 1] = 0 /\ w[2 * k] = w[Len(w)]
    [] op \in PairOps \cup PredicateOps -> Len(w) = 2 /\ w[1] > 0 /\ w[2] = w[1]
    [] OTHER -> FALSE

\* The width of the result.
Width(op, w, par) ==
  CASE op = "BvExtract" -> par[1] - par[2] + 1
    [] op = "BvConcat"  -> w[1] + w[2]
    [] op \in {"BvZeroExtend", "BvSignExtend"} -> w[1] + par[1]
    [] op = "BvRepeat"  -> w[1] * par[1]
    [] op \in PredicateOps \cup {"NegOverflow"} -> 0
    [] OTHER -> w[Len(w)]
==============================================================================
