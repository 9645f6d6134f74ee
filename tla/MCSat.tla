-------------------------------- MODULE MCSat --------------------------------
(* Small instances of Sat for TLC. *)
EXTENDS Sat, FiniteSetsExt

\* Clauses without duplicate or complementary literals, as push_clause leaves them.
Proper == {c \in SUBSET Lits : c # {} /\ \A l \in c : -l \notin c}

\* Every list of at most two clauses over the first two variables.
ShortFormulas == UNION {[1..n -> {c \in Proper : c \subseteq -2..2}] : n \in 0..2}

\* Every set of clauses with all the variables, in one order: propagation has
\* nothing to do before decisions are made, and all of them together are UNSAT.
FullClauses == {c \in Proper : Cardinality(c) = NumVars}
DeepFormulas == {FoldSet(LAMBDA c, s : Append(s, c), <<>>, S) : S \in SUBSET FullClauses}

\* A binary clause followed by unit clauses that may falsify it in the same pass.
LateUnits == {<<c, {i}, {j}, {k}>> : c \in {d \in Proper : Cardinality(d) = 2},
                                     i \in {1, -1}, j \in {2, -2}, k \in {3, -3}}
SomeFormulas == ShortFormulas \cup DeepFormulas \cup LateUnits

\* No assumption, one, a repeated one, contradictory ones and two that differ.
SomeAssumptions == {<<>>, <<1>>, <<2, 2>>, <<-1, 1>>, <<-2, 1>>}
=============================================================================
