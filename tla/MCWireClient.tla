---------------------------- MODULE MCWireClient -----------------------------
(* WireClient on small instances.  Each seed is a Context a user has built   *)
(* with the operations of WireBuilder, and a family of operations.           *)
EXTENDS WireClient

X == <<0>>
Y == <<1>>
P == <<2>>

Bv(c, name, w) == bv_var(c, name, w).b
Bl(c, name)    == bool_var(c, name).b
Ref(w, i)      == NodeRef(IF w = 0 THEN "bool" ELSE "bv", i)

JustX     == Bv(NewBuilder, X, 2)
TwoBvs    == Bv(JustX, Y, 2)
WideX     == Bv(NewBuilder, X, 3)
TwoBools  == Bl(Bl(NewBuilder, X), P)
Mixed     == Bl(TwoBvs, P)
Flags     == Bl(TwoBools, Y)
\* x < y, p and the unused x + y
Compared  == bv_comparison(bv_binary(Mixed, "BvAdd", Ref(1, 0), Ref(1, 1)).b, "BvUlt", Ref(1, 0), Ref(1, 1)).b
Asserted  == assert_named(assert(Compared, Ref(0, 4)).b, P, Ref(0, 2)).b
\* x, p and not p
Opposed   == bool_not(Bl(JustX, P), Ref(0, 1)).b
Ambiguous == LET p == Bl(NewBuilder, P) IN assert_named(assert_named(p, X, Ref(0, 0)).b, X, Ref(0, 0)).b
Optimized == assert(bv_comparison(WideX, "BvEq", Ref(1, 0), Ref(1, 0)).b, Ref(0, 1)).b

\* bit x < bit y, p and the unused x + y
OneBits   == Bl(Bv(Bv(NewBuilder, X, 1), Y, 1), P)
OneBit    == bv_comparison(bv_binary(OneBits, "BvAdd", Ref(1, 0), Ref(1, 1)).b, "BvUlt", Ref(1, 0), Ref(1, 1)).b

\* Both tables have room for two more entries.
NearlyFull == [JustX EXCEPT !.blob  = @ \o [k \in 1 .. BlobBase - 4 |-> 0],
                            !.nodes = @ \o [k \in 1 .. SortBit - 3 |-> RawNode("BoolTrue", 0, 0, 0, 0, 0, 0)]]

\* Targets of SIMPLIFY, over x, y and p of Mixed (nodes 0 to 2); the last node is the target.
BvOp(c, tag, i, j) == bv_binary(c, tag, Ref(1, i), Ref(1, j)).b
\* (x & ~y) + (x & y), which is x
MbaSum    == BvOp(BvOp(BvOp(bv_unary(Mixed, "BvNot", Ref(1, 1)).b, "BvAnd", 0, 3), "BvAnd", 0, 1), "BvAdd", 4, 5)
\* ite(p, x - y, -x) ^ x: islands under a boundary of an island
Nested    == BvOp(bv_ite(bv_unary(BvOp(Mixed, "BvSub", 0, 1), "BvNeg", Ref(1, 0)).b, Ref(0, 2), Ref(1, 3), Ref(1, 4)).b,
                  "BvXor", 5, 0)
\* (x + y) + (select(p, x, y) + 3): one variable too many for the sum, not for the operands
Crowded   == BvOp(BvOp(bv_const(bv_select(BvOp(Mixed, "BvAdd", 0, 1), <<Ref(0, 2)>>, <<Ref(1, 0)>>, Ref(1, 1)).b, 3, 2).b,
                       "BvAdd", 4, 5), "BvAdd", 3, 6)
\* neg_ovf((concat(x & y, x | y) * wide)[2:1]): too wide for an island, and Boolean
Wide      == neg_ovf(bv_extract(BvOp(bv_const_wide(bv_concat(BvOp(BvOp(Mixed, "BvAnd", 0, 1), "BvOr", 0, 1),
                                                             Ref(1, 3), Ref(1, 4)).b, <<3, 1>>, 4).b,
                                     "BvMul", 5, 6), Ref(1, 7), 2, 1).b, Ref(1, 8)).b

\* Expression bytes of another producer: x twice, and a constant with bits above its width.
Foreign == from_expression_bytes(
  [nodes |-> <<RawNode("BvVar", 0, 0, 1, 0, 0, Payload(0, 1)), RawNode("BvVar", 0, 0, 1, 0, 0, Payload(1, 1)),
               RawNode("BvConst", 0, 0, 1, 0, 0, 3), RawNode("BvAdd", 2, 0, 1, 0, 0, 0),
               RawNode("BvEq", 2, 0, 0, 0, 2, 0), RawNode("BvEq", 2, 0, 0, 0, 4, 0)>>,
   children |-> <<0, 2, 3, 0, 0, 1>>, blob |-> <<0, 0>>])

Tags1 == BinaryTags \cup CompareTags \cup DOMAIN Reversed \cup {"BvNe"}

MCSeeds == {
  [b |-> NewBuilder, ops |-> {"Declare", "Constant", "ConstantWide", "Truth"}, calls |-> 2, rounds |-> 0],
  [b |-> TwoBvs, ops |-> Tags1, calls |-> 1, rounds |-> 0],
  [b |-> WideX, ops |-> Tags1, calls |-> 1, rounds |-> 0],
  [b |-> Opposed, ops |-> UnaryTags \cup {"BvExtract", "BvConcat", "NegOverflow", "BoolNot"} \cup ExtendTags,
   calls |-> 2, rounds |-> 0],
  [b |-> WideX, ops |-> {"BvRotateLeft", "BvRotateRight", "BvExtract"}, calls |-> 2, rounds |-> 0],
  [b |-> OneBits, ops |-> {"BvIte", "BvSelect", "BvEq"}, calls |-> 2, rounds |-> 0],
  [b |-> TwoBools, ops |-> BoolPairs \cup {"BoolEq", "BoolXor"}, calls |-> 2, rounds |-> 0],
  [b |-> Flags, ops |-> {"BvIte"}, calls |-> 1, rounds |-> 0],
  [b |-> Flags, ops |-> {"Assert", "AssertMutex", "solve"}, calls |-> 1, rounds |-> 1],
  [b |-> OneBit, ops |-> {"Assert", "AssertNamed", "Assume", "ClearAssumptions", "Push", "Pop", "Reset"},
   calls |-> 4, rounds |-> 0],
  \* terms that outlive a reset
  [b |-> Opposed, ops |-> {"Reset", "Declare", "BvConcat", "BvUlt", "BoolNot"}, calls |-> 3, rounds |-> 0],
  [b |-> Bl(JustX, P), ops |-> {"Reset", "Truth", "simplify"}, calls |-> 2, rounds |-> 1],
  [b |-> OneBit, ops |-> {"Assert", "AssertNamed", "solve_with_options"}, calls |-> 3, rounds |-> 1],
  [b |-> Opposed, ops |-> {"Assert", "AssertNamed", "Assume", "solve_with_options"}, calls |-> 2, rounds |-> 1],
  [b |-> assert(assert_named(Opposed, X, Ref(0, 1)).b, Ref(0, 2)).b, ops |-> {"optimize"}, calls |-> 0, rounds |-> 1],
  [b |-> Asserted, ops |-> {"simplify", "optimize"}, calls |-> 0, rounds |-> 1],
  [b |-> Optimized, ops |-> {"optimize"}, calls |-> 0, rounds |-> 1],
  [b |-> NearlyFull, ops |-> {"Declare", "BvRotateLeft", "ConstantWide"}, calls |-> 2, rounds |-> 0],
  [b |-> MbaSum, ops |-> {"simplify"}, calls |-> 0, rounds |-> 1],
  [b |-> Nested, ops |-> {"simplify"}, calls |-> 0, rounds |-> 1],
  [b |-> Crowded, ops |-> {"simplify"}, calls |-> 0, rounds |-> 1],
  [b |-> Wide, ops |-> {"simplify"}, calls |-> 0, rounds |-> 1],
  [b |-> Foreign, ops |-> {"Assert", "Declare", "solve", "simplify", "optimize"}, calls |-> 1, rounds |-> 1],
  \* lost answers and the calls after them
  [b |-> Bl(JustX, P), ops |-> {"solve", "simplify"}, calls |-> 0, rounds |-> 4],
  \* and calls among them that are refused, for a core with ambiguous names
  [b |-> Ambiguous, ops |-> {"solve_with_options"}, calls |-> 0, rounds |-> 4]}

MCNames == {X, P}
==============================================================================
