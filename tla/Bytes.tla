-------------------------------- MODULE Bytes --------------------------------
(***************************************************************************)
(* The byte arithmetic of qfbvsmtrs (the free functions at the end of      *)
(* builder.rs and ir.rs): a bit-vector of width w is the little-endian     *)
(* sequence of its NumBytes(w) bytes, and the bits above w in the last     *)
(* byte are zero.  ByteBits is the size of a byte: 8 in the code, smaller  *)
(* in the model checker so that carries, borrows and partly used last      *)
(* bytes appear at small widths.                                           *)
(***************************************************************************)
EXTENDS BinaryNumbers, FiniteSetsExt, SequencesExt

CONSTANTS ByteBits,     \* bits of a byte (8)
          MaxBvWidth    \* ir.rs MAX_BV_WIDTH (65536)

ASSUME BytesAssumption == /\ ByteBits \in Nat \ {0}
                          /\ MaxBvWidth \in Nat \ {0}

Base == TwoTo(ByteBits)

NumBytes(w) == (w + ByteBits - 1) \div ByteBits

ValidWidth(w) == w \in 1 .. MaxBvWidth

Zeros(w) == [k \in 1 .. NumBytes(w) |-> 0]

mask_unused_high_bits(bytes, w) ==
  IF w % ByteBits = 0 \/ bytes = <<>> THEN bytes
  ELSE [bytes EXCEPT ![Len(bytes)] = @ % 2 ^ (w % ByteBits)]

constant_bytes(w, ones) ==
  mask_unused_high_bits([k \in 1 .. NumBytes(w) |-> IF ones THEN Base - 1 ELSE 0], w)

get_bit(bytes, bit) ==
  LET k == bit \div ByteBits
  IN  k < Len(bytes) /\ BitOf(bytes[k + 1], bit % ByteBits) = 1

\* set_bit for every bit of a set: a bit past the last byte is ignored.
SetBits(bytes, bits) ==
  [k \in DOMAIN bytes |->
     LET at(j) == (k - 1) * ByteBits + j
     IN  MapThenSumSet(LAMBDA j : 2 ^ j,
                       {j \in 0 .. ByteBits - 1 : at(j) \in bits \/ get_bit(bytes, at(j))})]

is_zero_bytes(bytes) == \A k \in DOMAIN bytes : bytes[k] = 0

is_one_bytes(bytes) == bytes[1] = 1 /\ \A k \in 2 .. Len(bytes) : bytes[k] = 0

resize(bytes, w) == [k \in 1 .. NumBytes(w) |-> IF k \in DOMAIN bytes THEN bytes[k] ELSE 0]

not_bytes(bytes, w) ==
  mask_unused_high_bits([k \in DOMAIN bytes |-> Base - 1 - bytes[k]], w)

\* The bytes of the sum and the carry out of each: carry[k] leaves byte k.
AddCarry(a, b, carryIn, w) ==
  LET carry[k \in 0 .. Len(a)] ==
        IF k = 0 THEN carryIn ELSE (a[k] + b[k] + carry[k - 1]) \div Base
  IN  mask_unused_high_bits(
        [k \in DOMAIN a |-> (a[k] + b[k] + carry[k - 1]) % Base], w)

add_bytes(a, b, w) == AddCarry(a, b, 0, w)

neg_bytes(a, w) ==
  AddCarry([k \in DOMAIN a |-> Base - 1 - a[k]], [k \in DOMAIN a |-> 0], 1, w)

sub_bytes(a, b, w) == add_bytes(a, neg_bytes(b, w), w)

\* One row of the schoolbook product: byte i of a times b, added into out at i.
\* A byte past the end of out stops the row (its carry is lost with it).
MulRow(out, i, a, b) ==
  FoldLeftDomain(
    LAMBDA row, j :
      IF i + j - 1 > Len(row.out) THEN row
      ELSE LET product == row.out[i + j - 1] + a[i] * b[j] + row.carry
           IN  [out |-> [row.out EXCEPT ![i + j - 1] = product % Base],
                carry |-> product \div Base],
    [out |-> out, carry |-> 0], b).out

mul_bytes(a, b, w) ==
  mask_unused_high_bits(
    FoldLeftDomain(LAMBDA out, i : MulRow(out, i, a, b),
                   [k \in DOMAIN a |-> 0], a), w)

high_bits_zero(bytes, from, w) == \A bit \in from .. w - 1 : ~ get_bit(bytes, bit)

extract_bytes(bytes, low, w) ==
  mask_unused_high_bits(
    SetBits(Zeros(w), {bit \in 0 .. w - 1 : get_bit(bytes, low + bit)}), w)

concat_bytes(high, hw, low, lw) ==
  mask_unused_high_bits(
    SetBits(Zeros(hw + lw), {bit \in 0 .. lw - 1 : get_bit(low, bit)}
                            \cup {lw + bit : bit \in {h \in 0 .. hw - 1 : get_bit(high, h)}}),
    hw + lw)

sext_bytes(bytes, w, extra) ==
  mask_unused_high_bits(
    SetBits(resize(bytes, w + extra),
            IF get_bit(bytes, w - 1) THEN w .. w + extra - 1 ELSE {}), w + extra)

repeat_bytes(bytes, w, count) ==
  mask_unused_high_bits(
    SetBits(Zeros(w * count), {bit \in 0 .. w * count - 1 : get_bit(bytes, bit % w)}),
    w * count)

\* The rotations and lshr_bytes do not mask: they only set bits below w.
rotate_left_bytes(bytes, w, amount) ==
  SetBits(Zeros(w), {bit \in 0 .. w - 1 : get_bit(bytes, (bit + w - amount) % w)})

rotate_right_bytes(bytes, w, amount) ==
  SetBits(Zeros(w), {bit \in 0 .. w - 1 : get_bit(bytes, (bit + amount) % w)})

shl_bytes(bytes, w, amount) ==
  mask_unused_high_bits(
    SetBits(Zeros(w), {bit \in amount .. w - 1 : get_bit(bytes, bit - amount)}), w)

lshr_bytes(bytes, w, amount) ==
  SetBits(Zeros(w), {bit \in 0 .. w - amount - 1 : get_bit(bytes, bit + amount)})

ashr_bytes(bytes, w, amount) ==
  LET by == Min({amount, w})
  IN  mask_unused_high_bits(
        SetBits(lshr_bytes(bytes, w, by),
                IF get_bit(bytes, w - 1) THEN w - by .. w - 1 ELSE {}), w)

\* The number the bytes stand for, from that of the first k of them.
byte_sums(bytes, n) ==
  LET v[k \in 0 .. n] == IF k = 0 THEN 0 ELSE v[k - 1] + bytes[k] * TwoTo(ByteBits * (k - 1))
  IN  v
Value(bytes) == byte_sums(bytes, Len(bytes))[Len(bytes)]

bytes_to_bounded_usize(bytes, bound) == Min({Value(bytes), bound})

\* Compared from the most significant byte down.
cmp_less_unsigned(a, b) ==
  \E k \in DOMAIN a : a[k] < b[k] /\ \A j \in k + 1 .. Len(a) : a[j] = b[j]

signed_less_than(a, b, w) ==
  LET sa == get_bit(a, w - 1)
      sb == get_bit(b, w - 1)
  IN  IF sa # sb THEN sa ELSE cmp_less_unsigned(a, b)

\* bv_const: the bytes of a machine word, masked to the width.
word_bytes(value, w) ==
  mask_unused_high_bits([k \in 1 .. NumBytes(w) |-> (value \div Base ^ (k - 1)) % Base], w)

------------------------------------------------------------------------------
\* Long division, most significant bit first (eval.rs): the remainder is
\* shifted in w bits, so a divisor with its top bit set needs the subtraction
\* to be exact in w bits.
udiv_urem_bytes(dividend, divisor, w) ==
  IF is_zero_bytes(divisor) THEN [quo |-> constant_bytes(w, TRUE), rem |-> dividend]
  ELSE FoldLeft(
         LAMBDA acc, bit :
           LET shifted == SetBits(shl_bytes(acc.rem, w, 1),
                                  IF get_bit(dividend, bit) THEN {0} ELSE {})
           IN  IF cmp_less_unsigned(shifted, divisor)
               THEN [acc EXCEPT !.rem = shifted]
               ELSE [quo |-> SetBits(acc.quo, {bit}), rem |-> sub_bytes(shifted, divisor, w)],
         [quo |-> Zeros(w), rem |-> Zeros(w)],
         [k \in 1 .. w |-> w - k])

abs_bytes(a, w) == IF get_bit(a, w - 1) THEN neg_bytes(a, w) ELSE a

NegIf(negative, a, w) == IF negative THEN neg_bytes(a, w) ELSE a

signed_div_bytes(a, b, w) ==
  NegIf(get_bit(a, w - 1) # get_bit(b, w - 1),
        udiv_urem_bytes(abs_bytes(a, w), abs_bytes(b, w), w).quo, w)

signed_rem_bytes(a, b, w) ==
  NegIf(get_bit(a, w - 1), udiv_urem_bytes(abs_bytes(a, w), abs_bytes(b, w), w).rem, w)

\* The modulus from the remainder r of the magnitudes and the signs.
ModulusOf(r, sa, sb, b, w) ==
  IF is_zero_bytes(r) \/ (~ sa /\ ~ sb) THEN r
  ELSE IF sa /\ sb THEN neg_bytes(r, w)
  ELSE IF sa THEN sub_bytes(b, r, w)
  ELSE add_bytes(b, r, w)

signed_mod_bytes(a, b, w) ==
  ModulusOf(udiv_urem_bytes(abs_bytes(a, w), abs_bytes(b, w), w).rem,
            get_bit(a, w - 1), get_bit(b, w - 1), b, w)

uadd_ovf_bytes(a, b, w) == cmp_less_unsigned(add_bytes(a, b, w), a)

sadd_ovf_bytes(a, b, w) ==
  /\ get_bit(a, w - 1) = get_bit(b, w - 1)
  /\ get_bit(a, w - 1) # get_bit(add_bytes(a, b, w), w - 1)

\* Mutant of ssub_ovf_bytes: the sign test of an addition.
ssub_ovf_bytes_as_sum(a, b, w) ==
  /\ get_bit(a, w - 1) = get_bit(b, w - 1)
  /\ get_bit(a, w - 1) # get_bit(sub_bytes(a, b, w), w - 1)

ssub_ovf_bytes(a, b, w) ==
  /\ get_bit(a, w - 1) # get_bit(b, w - 1)
  /\ get_bit(a, w - 1) # get_bit(sub_bytes(a, b, w), w - 1)

umul_ovf_bytes(a, b, w) ==
  ~ high_bits_zero(mul_bytes(resize(a, 2 * w), resize(b, 2 * w), 2 * w), w, 2 * w)

LosesHighHalf(product, w) == product # sext_bytes(extract_bytes(product, 0, w), w, w)
smul_ovf_bytes(a, b, w) ==
  LosesHighHalf(mul_bytes(sext_bytes(a, w, w), sext_bytes(b, w, w), 2 * w), w)

is_min_bytes(a, w) == get_bit(a, w - 1) /\ \A bit \in 0 .. w - 2 : ~ get_bit(a, bit)

sdiv_ovf_bytes(a, b, w) == is_min_bytes(a, w) /\ b = constant_bytes(w, TRUE)
==============================================================================
