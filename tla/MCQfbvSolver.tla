---------------------------- MODULE MCQfbvSolver ----------------------------
(* Small instances of QfbvSolver for TLC. *)
EXTENDS QfbvSolver, FiniteSetsExt

\* The number a bit vector stands for.
Unsigned(a) == MapThenSumSet(LAMBDA i : 2^i, a)
Signed(a) == IF Width - 1 \in a THEN Unsigned(a) - 2^Width ELSE Unsigned(a)

\* It is the one that is read from the top bit down (QfbvSolverProofs shows that
\* Less and its two's complement form are the orders of these numbers).
ASSUME ReadingIsNumber ==
  \A a \in SUBSET Bits : NumberOf(a, FALSE) = Unsigned(a) /\ NumberOf(a, TRUE) = Signed(a)

AsQuery(c, t, s, m, k, as) ==
  [command |-> c, bvTarget |-> t, signed |-> s, wantModel |-> m, wantCore |-> k, assertions |-> as]

\* Six worlds, two of them with the same target value; any set of them is asserted.
SixWorlds == 1..6
Target == [w \in SixWorlds |-> LET v == <<0, 3, 4, 5, 5, 7>>[w]
                               IN  {i \in Bits : (v \div 2^i) % 2 = 1}]
OptQueries ==
  {AsQuery(c, TRUE, s, m, FALSE, <<[models |-> A, named |-> FALSE]>>) :
     c \in {"minimize", "maximize"}, s \in BOOLEAN, m \in BOOLEAN, A \in SUBSET SixWorlds}
  \cup {AsQuery("minimize", FALSE, FALSE, FALSE, FALSE, <<>>)}

\* Lists of at most two assertions, named or not, about two of the worlds, and
\* lists of three named ones.
Few(S) == {[models |-> A, named |-> n] : A \in SUBSET {1, 2}, n \in S}
CoreQueries ==
  {AsQuery(c, FALSE, FALSE, m, k, as) :
     c \in {"solve", "simplify"}, m \in BOOLEAN, k \in BOOLEAN,
     as \in UNION {[1..n -> Few(BOOLEAN)] : n \in 0..2}}
  \cup {AsQuery("solve", FALSE, FALSE, FALSE, TRUE, as) : as \in [1..3 -> Few({TRUE})]}

SomeQueries == OptQueries \cup CoreQueries
=============================================================================
