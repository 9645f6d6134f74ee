---------------------------- MODULE BinaryNumbers ----------------------------
(***************************************************************************)
(* Binary numbers: powers of two and the number a sequence of bits stands  *)
(* for, least significant bit first.  This is the vocabulary that the      *)
(* specification of the operators and the statements about the circuits    *)
(* share.  Each sum is a function that is recursive on an initial segment  *)
(* of the naturals, so that it can be reasoned about for every width.      *)
(***************************************************************************)
EXTENDS Integers, Sequences

powers(n) ==
  LET p[k \in 0 .. n] == IF k = 0 THEN 1 ELSE 2 * p[k - 1]
  IN  p
TwoTo(n) == powers(n)[n]

\* The number of the first k bits of x, for every k.
numbers(x, n) ==
  LET v[k \in 0 .. n] == IF k = 0 THEN 0 ELSE IF x[k] THEN v[k - 1] + TwoTo(k - 1) ELSE v[k - 1]
  IN  v
Number(x) == numbers(x, Len(x))[Len(x)]

BitOf(x, i) == (x \div TwoTo(i)) % 2

BitsOf(x, w) == [i \in 1 .. w |-> BitOf(x, i - 1) = 1]
==============================================================================
