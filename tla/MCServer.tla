------------------------------ MODULE MCServer ------------------------------
(* Small instances of Server for TLC. *)
EXTENDS Server, TLC

CONSTANTS c1, c2, c3, k1, k2, k3, k4, k5, v1, v2

TwoConns == {c1, c2}
ThreeConns == {c1, c2, c3}
TwoKeys == {k1, k2}
FiveKeys == {k1, k2, k3, k4, k5}
TwoValues == {v1, v2}
OneValue == {v1}
None == {}
OnlyK1 == {k1}
OnlyK3 == {k3}
OnlyK4 == {k4}
OnlyK5 == {k5}

Binary(k, i) == [form |-> "binary", key |-> k, id |-> i]
Text(k) == [form |-> "text", key |-> k, id |-> 1]

\* One query under two ids and as text, a second query, bytes that neither form
\* parses (k3), a query too long for the cache (k4) and one whose answer is too
\* long (k5).
AllPayloads == {Binary(k1, 1), Binary(k1, 2), Text(k1), Binary(k2, 1),
                Binary(k3, 1), Text(k3), Binary(k4, 1), Binary(k5, 1)}
\* Two queries, one of them in both forms.
LivePayloads == {Binary(k1, 1), Binary(k2, 1), Text(k1)}
AllForms == {Binary(k1, 1), Text(k1)}

\* Connections are interchangeable in every safety property, and so are the
\* answers a backend may give.
Symmetry == Permutations({c1, c2, c3}) \cup Permutations({v1, v2})
=============================================================================
