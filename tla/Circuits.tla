------------------------------- MODULE Circuits ------------------------------
(***************************************************************************)
(* The gate circuits of circuits.rs.  A bit is the value its gate has      *)
(* under an assignment of the inputs, so gates.and(x, y) is x /\ y: that a *)
(* gate constructor returns a gate with that value is what module Gates    *)
(* shows.  A bit-vector is the sequence of its bits, least significant     *)
(* first.                                                                  *)
(***************************************************************************)
EXTENDS BinaryNumbers, SequencesExt

mux(sel, t, f) == IF sel THEN t ELSE f

Same_bits(width, bit) == [i \in 1 .. width |-> bit]

bitwise_not(x) == [i \in DOMAIN x |-> ~ x[i]]
bitwise_binary(P(_, _), a, b) == [i \in DOMAIN a |-> P(a[i], b[i])]
bitwise_and(a, b) == bitwise_binary(LAMBDA p, q : p /\ q, a, b)
bitwise_or(a, b)  == bitwise_binary(LAMBDA p, q : p \/ q, a, b)
bitwise_xor(a, b) == bitwise_binary(LAMBDA p, q : p # q, a, b)
mux_bits(sel, t, f) == [i \in DOMAIN t |-> mux(sel, t[i], f[i])]

\* The ripple-carry adder: carry[i] leaves bit i.
carry_bit(x, y, carry) == (x /\ y) \/ (carry /\ (x # y))
carries(a, b, carryIn, n) ==
  LET carry[i \in 0 .. n] == IF i = 0 THEN carryIn ELSE carry_bit(a[i], b[i], carry[i - 1])
  IN  carry
add_with_carry(a, b, carryIn) ==
  LET carry == carries(a, b, carryIn, Len(a))
  IN  [sum |-> [i \in DOMAIN a |-> (a[i] # b[i]) # carry[i - 1]], carry |-> carry[Len(a)]]
add_bits(a, b) == add_with_carry(a, b, FALSE).sum
sub_bits(a, b) == add_with_carry(a, bitwise_not(b), TRUE).sum
neg_bits(x)    == sub_bits(Same_bits(Len(x), FALSE), x)

\* x moved up by shift places within width bits
Partial(x, shift, width, sel) ==
  [i \in 1 .. width |-> i - shift \in DOMAIN x /\ x[i - shift] /\ sel]

\* Shift and add: acc[j] has the first j bits of b.
add_partial(acc, a, b, width, j) == add_bits(acc, Partial(a, j - 1, width, b[j]))
partial_sums(a, b, width, n) ==
  LET acc[j \in 0 .. n] ==
        IF j = 0 THEN Same_bits(width, FALSE) ELSE add_partial(acc[j - 1], a, b, width, j)
  IN  acc
mul_width(a, b, width) == partial_sums(a, b, width, Len(b))[Len(b)]
mul(a, b) == mul_width(a, b, Len(a))

\* A product by a constant: one addition for each of its bits after the first.
\* <<>> is the None the sum starts from.
add_shifted(acc, x, j) ==
  IF acc = <<>> THEN Partial(x, j - 1, Len(x), TRUE)
  ELSE add_bits(acc, Partial(x, j - 1, Len(x), TRUE))
constant_sums(x, c, n) ==
  LET acc[j \in 0 .. n] ==
        IF j = 0 THEN <<>> ELSE IF c[j] THEN add_shifted(acc[j - 1], x, j) ELSE acc[j - 1]
  IN  acc
unwrap_or_zero(acc, n) == IF acc = <<>> THEN Same_bits(n, FALSE) ELSE acc
mul_const(x, c) ==
  IF \A j \in DOMAIN c : ~ c[j] THEN Same_bits(Len(x), FALSE)
  ELSE IF c[1] /\ \A j \in 2 .. Len(c) : ~ c[j] THEN x
  ELSE IF \A j \in DOMAIN c : c[j] THEN neg_bits(x)
  ELSE unwrap_or_zero(constant_sums(x, c, Len(c))[Len(c)], Len(x))

eq_bits(a, b) == \A i \in DOMAIN a : a[i] = b[i]
is_zero_bits(x) == ~ \E i \in DOMAIN x : x[i]

\* From the most significant bit down: less so far, equal so far.
ult_bit(acc, x, y) == [lt |-> acc.lt \/ (acc.eq /\ ~ x /\ y), eq |-> acc.eq /\ (x = y)]
ult_down(acc, a, b, i) == ult_bit(acc, a[i], b[i])
ult_scan(a, b, n) ==
  LET scan[k \in 0 .. n] ==
        IF k = 0 THEN [lt |-> FALSE, eq |-> TRUE] ELSE ult_down(scan[k - 1], a, b, n + 1 - k)
  IN  scan
ult(a, b) == ult_scan(a, b, Len(a))[Len(a)].lt
ule(a, b) == ~ ult(b, a)
slt(a, b) == mux(Last(a) # Last(b), Last(a), ult(a, b))
sle(a, b) == ~ slt(b, a)

\* The barrel shifters: stage k moves the bits by 2^(k-1) places, down when dir is
\* 1 and up when it is -1, if bit k of the amount is set.  An arithmetic shift
\* fills with the sign of what it shifts.
moved(out, by, fill) == [i \in DOMAIN out |-> IF i + by \in DOMAIN out THEN out[i + by] ELSE fill]
shift_stage(out, sel, by, signed) == mux_bits(sel, moved(out, by, signed /\ Last(out)), out)
shift_stages(value, amount, dir, signed, n) ==
  LET out[k \in 0 .. n] ==
        IF k = 0 THEN value ELSE shift_stage(out[k - 1], amount[k], dir * TwoTo(k - 1), signed)
  IN  out
shift_by(value, amount, dir, signed) ==
  shift_stages(value, amount, dir, signed, Len(amount))[Len(amount)]
shl(value, amount)  == shift_by(value, amount, -1, FALSE)
lshr(value, amount) == shift_by(value, amount, 1, FALSE)
ashr(value, amount) == shift_by(value, amount, 1, TRUE)

concat(high, low)      == low \o high
extract(x, high, low)  == SubSeq(x, low + 1, high + 1)
zext(x, extra)         == x \o Same_bits(extra, FALSE)
sext(x, extra)         == x \o Same_bits(extra, Last(x))
repeats(x, count)      == LET out[k \in 0 .. count] == IF k = 0 THEN <<>> ELSE out[k - 1] \o x
                          IN  out
repeat(x, count)       == repeats(x, count)[count]
rotate_left(x, by)     == LET n == Len(x)
                              k == by % n
                          IN  [i \in DOMAIN x |-> x[((i - 1 + n - k) % n) + 1]]
rotate_right(x, by)    == [i \in DOMAIN x |-> x[((i - 1 + (by % Len(x))) % Len(x)) + 1]]

\* Restoring division, most significant bit first; division by zero is chosen
\* at the end.
Restore(acc, shifted, divisor, ge, i) ==
  [rem |-> mux_bits(ge, sub_bits(shifted, divisor), shifted), quo |-> [acc.quo EXCEPT ![i] = ge]]
DivideStep(acc, shifted, divisor, i) == Restore(acc, shifted, divisor, ule(divisor, shifted), i)
divide_down(acc, dividend, divisor, i) ==
  DivideStep(acc, [j \in DOMAIN dividend |-> IF j = 1 THEN dividend[i] ELSE acc.rem[j - 1]], divisor, i)
divide_scan(dividend, divisor, n) ==
  LET scan[k \in 0 .. n] ==
        IF k = 0 THEN [rem |-> Same_bits(n, FALSE), quo |-> Same_bits(n, FALSE)]
        ELSE divide_down(scan[k - 1], dividend, divisor, n + 1 - k)
  IN  scan
UnlessZero(byZero, dividend, end) ==
  [quo |-> mux_bits(byZero, Same_bits(Len(dividend), TRUE), end.quo),
   rem |-> mux_bits(byZero, dividend, end.rem)]
udiv_urem(dividend, divisor) ==
  UnlessZero(is_zero_bits(divisor), dividend, divide_scan(dividend, divisor, Len(dividend))[Len(dividend)])

abs_bits(x) == mux_bits(Last(x), neg_bits(x), x)
AbsDivision(a, b) == udiv_urem(abs_bits(a), abs_bits(b))
NegatedIf(sel, x) == mux_bits(sel, neg_bits(x), x)

sdiv(a, b) == NegatedIf(Last(a) # Last(b), AbsDivision(a, b).quo)
srem(a, b) == NegatedIf(Last(a), AbsDivision(a, b).rem)

\* The modulus from the signs and the remainder u of the magnitudes.
BySigns(sa, sb, b, u) ==
  mux_bits(sb, mux_bits(sa, neg_bits(u), add_bits(b, u)), mux_bits(sa, sub_bits(b, u), u))
UnlessExact(sa, sb, b, u) == mux_bits(is_zero_bits(u), u, BySigns(sa, sb, b, u))

\* Mutant of smod: a zero remainder is corrected like any other.
smod_no_zero(a, b) == BySigns(Last(a), Last(b), b, AbsDivision(a, b).rem)

smod(a, b) == UnlessExact(Last(a), Last(b), b, AbsDivision(a, b).rem)

uadd_overflow(a, b) == add_with_carry(a, b, FALSE).carry
usub_overflow(a, b) == ult(a, b)
sadd_overflow(a, b) == Last(a) = Last(b) /\ Last(a) # Last(add_bits(a, b))
ssub_overflow(a, b) == Last(a) # Last(b) /\ Last(a) # Last(sub_bits(a, b))
umul_overflow(a, b) ==
  LET n == Len(a)
      product == mul_width(zext(a, n), zext(b, n), 2 * n)
  IN  \E i \in n + 1 .. 2 * n : product[i]
smul_overflow(a, b) ==
  LET n == Len(a)
      product == mul_width(sext(a, n), sext(b, n), 2 * n)
  IN  ~ eq_bits(product, sext(SubSeq(product, 1, n), n))
MinBits(n) == [i \in 1 .. n |-> i = n]
neg_overflow(x) == eq_bits(x, MinBits(Len(x)))
sdiv_overflow(a, b) == eq_bits(a, MinBits(Len(a))) /\ eq_bits(b, Same_bits(Len(b), TRUE))
==============================================================================
