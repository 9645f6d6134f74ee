-------------------------------- MODULE MCMain --------------------------------
(* Main on small instances. *)
EXTENDS Main, TLC, FiniteSetsExt

CONSTANTS k1, k2, v1, v2

MCQueries == SUBSET SUBSET Bits

\* The orders of the sets of bits are those of the numbers they stand for.
Unsigned(v) == MapThenSumSet(LAMBDA k : 2 ^ k, v)
Signed(v)   == IF Width - 1 \in v THEN Unsigned(v) - 2 ^ Width ELSE Unsigned(v)
ASSUME OrderIsNumeric ==
  \A u, v \in SUBSET Bits :
    /\ Less(u, v) <=> Unsigned(u) < Unsigned(v)
    /\ Less(Inverted(u), Inverted(v)) <=> Signed(u) < Signed(v)

Pair(named, request, answer) == [named |-> named, request |-> request, answer |-> answer]

\* Every kind of file; two files of one request, whose answers differ; more
\* files than a batch holds, and a last batch that is not full.
Kinds == {Pair(k1, k1, v1), Pair(k1, k1, v2), Pair(k2, k2, v1), Pair(k2, k1, v1),
          Pair(k1, k1, Missing), Pair(BadName, k1, v1)}
MCTrees == {<<>>} \cup UNION {[1 .. n -> Kinds] : n \in 1 .. 3}
===============================================================================
