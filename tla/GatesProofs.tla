----------------------------- MODULE GatesProofs -----------------------------
(***************************************************************************)
(* From bit-vector terms to clauses, for arenas of any size and vectors of *)
(* any width.  Gates: constructors fold and share gates without changing   *)
(* the function, and the CNF is exact (EncodingIsExact).  Circuits: the    *)
(* circuit of every operator computes the operator (AdderExact to          *)
(* NodeExact), a constant's bits are those of its bytes (ConstantExact),   *)
(* and so the bits blast.rs derives for the nodes of a sorted term arena   *)
(* are those of the values SMT-LIB gives them (BlastExact).                *)
(*                                                                         *)
(* The tables of BinaryNumbers, Circuits, Bytes and Blast are recursive    *)
(* functions.  That each satisfies its recursion is proved (PowersAre,     *)
(* CarriesAre, ...) by climbing from a solution at 0 to one at n.          *)
(***************************************************************************)
EXTENDS Gates, Blast, WellFoundedInduction, SequenceTheorems, TLAPS

\* What a constructor owes: an arena that extends the old one, and in it a gate
\* with the meaning that was asked for.
Good(n, r, gate) ==
  /\ Arena(r.gates, n) /\ r.id \in DOMAIN r.gates
  /\ Means(r.gates, r.id, gate)

LEMMA ArenaFacts ==
  ASSUME NEW gs, NEW n, Arena(gs, n)
  PROVE  /\ gs \in Seq(GateKind) /\ DOMAIN gs = 1..Len(gs) /\ Len(gs) \in Nat
         /\ 1 \in DOMAIN gs /\ 2 \in DOMAIN gs
         /\ \A i \in DOMAIN gs : gs[i] \in GateKind /\ OperandsIn(gs[i], DOMAIN gs)
BY DEF Arena, OperandsIn

\* The constants have their values, and a negation the opposite of its operand.
LEMMA Known ==
  ASSUME NEW gs, NEW n, Arena(gs, n), NEW val \in [DOMAIN gs -> Bit], Consistent(gs, val)
  PROVE  /\ val[False] = 0 /\ val[True] = 1
         /\ \A i \in DOMAIN gs : val[i] \in Bit
         /\ \A i \in DOMAIN gs : gs[i].kind = "not" => val[i] = 1 - val[gs[i].x] /\ gs[i].x \in DOMAIN gs
<1>1. Correct(gs, val, 1) /\ Correct(gs, val, 2)
  BY ArenaFacts DEF Consistent
<1>2. val[1] = 0 /\ val[2] = 1
  BY <1>1 DEF Arena, Correct, Gate, GateValue
<1>3. ASSUME NEW i \in DOMAIN gs, gs[i].kind = "not"
      PROVE  val[i] = 1 - val[gs[i].x] /\ gs[i].x \in DOMAIN gs
  BY <1>3, ArenaFacts DEF Consistent, Correct, GateValue, OperandsIn
<1> QED BY <1>2, <1>3 DEF False, True

LEMMA AddRawGood ==
  ASSUME NEW gs, NEW n, Arena(gs, n), NEW g \in GateKind, OperandsIn(g, DOMAIN gs),
         g.kind \notin {"const", "input"}, g.kind = "not" => g.y = 0 /\ g.z = 0
  PROVE  Good(n, AddRaw(gs, g), g)
<1>1. CASE \E i \in DOMAIN gs : gs[i] = g
  <2> DEFINE k == CHOOSE i \in DOMAIN gs : gs[i] = g
  <2>1. k \in DOMAIN gs /\ gs[k] = g
    BY <1>1
  <2>2. AddRaw(gs, g).gates = gs /\ AddRaw(gs, g).id = k
    BY <1>1 DEF AddRaw, Is
  <2> HIDE DEF k
  <2>3. Means(gs, k, g)
    BY <2>1 DEF Means, Consistent, Correct
  <2> QED BY <2>1, <2>2, <2>3 DEF Good
<1>2. CASE ~\E i \in DOMAIN gs : gs[i] = g
  <2> DEFINE hs == Append(gs, g)
  <2>1. AddRaw(gs, g).gates = hs /\ AddRaw(gs, g).id = Len(gs) + 1
    BY <1>2 DEF AddRaw, Is
  <2>2. /\ hs \in Seq(GateKind) /\ Len(hs) = Len(gs) + 1 /\ Len(gs) \in Nat /\ Len(gs) >= 2
        /\ DOMAIN hs = 1..(Len(gs) + 1) /\ DOMAIN gs = 1..Len(gs)
        /\ hs[Len(gs) + 1] = g /\ \A i \in DOMAIN gs : hs[i] = gs[i]
    BY DEF Arena
  <2> HIDE DEF hs
  <2>3. \A i \in DOMAIN hs : i \in DOMAIN gs \/ i = Len(gs) + 1
    BY <2>2
  <2>4. \A i \in DOMAIN hs : OperandsIn(hs[i], 1..(i - 1))
    <3>1. OperandsIn(g, 1..((Len(gs) + 1) - 1))
      BY <2>2 DEF OperandsIn
    <3> QED BY <2>2, <2>3, <3>1 DEF Arena
  <2>5. \A i, j \in DOMAIN hs : hs[i] = hs[j] => i = j
    BY <1>2, <2>2, <2>3 DEF Arena
  <2>6. hs[1] = Gate("const", 0, 0, 0) /\ hs[2] = Gate("const", 1, 0, 0)
    BY <2>2 DEF Arena
  <2>7. \A i \in DOMAIN hs : /\ hs[i].kind = "const" => hs[i].x \in Bit
                             /\ hs[i].kind = "not" => hs[i].y = 0 /\ hs[i].z = 0
                             /\ hs[i].kind = "input" => hs[i].x < n
    BY <2>2, <2>3 DEF Arena
  <2>8. Arena(hs, n)
    BY <2>2, <2>4, <2>5, <2>6, <2>7 DEF Arena
  <2>9. Means(hs, Len(gs) + 1, g)
    BY <2>2 DEF Means, Consistent, Correct
  <2> QED BY <2>1, <2>2, <2>8, <2>9 DEF Good
<1> QED BY <1>1, <1>2

LEMMA NotGood ==
  ASSUME NEW gs, NEW n, Arena(gs, n), NEW x \in DOMAIN gs
  PROVE  Good(n, MkNot(gs, x), Gate("not", x, 0, 0))
<1> DEFINE g == Gate("not", x, 0, 0)
<1>0. x \in Nat /\ g \in GateKind /\ OperandsIn(g, DOMAIN gs) /\ g.kind = "not" /\ g.x = x /\ g.y = 0 /\ g.z = 0
  BY ArenaFacts DEF Gate, GateKind, Kinds, OperandsIn
<1>1. CASE x = False \/ x = True \/ gs[x].kind = "not"
  <2>1. MkNot(gs, x).gates = gs
    BY <1>1 DEF MkNot, Is
  <2>2. MkNot(gs, x).id \in DOMAIN gs
    BY <1>1, ArenaFacts DEF MkNot, Is, False, True, OperandsIn
  <2>3. ASSUME NEW val \in [DOMAIN gs -> Bit], Consistent(gs, val)
        PROVE  val[MkNot(gs, x).id] = 1 - val[x]
    BY <1>1, <2>3, Known DEF MkNot, Is, Bit
  <2>4. Means(gs, MkNot(gs, x).id, g)
    BY <1>0, <2>3 DEF Means, GateValue
  <2> QED BY <2>1, <2>2, <2>4 DEF Good
<1>2. CASE ~(x = False \/ x = True \/ gs[x].kind = "not")
  <2>1. MkNot(gs, x) = AddRaw(gs, g)
    BY <1>2 DEF MkNot
  <2>2. Good(n, AddRaw(gs, g), g)
    BY <1>0, AddRawGood
  <2> QED BY <2>1, <2>2
<1> QED BY <1>1, <1>2

\* Negating a gate removes none.
LEMMA NotExtends ==
  ASSUME NEW gs, NEW n, Arena(gs, n), NEW x \in DOMAIN gs
  PROVE  DOMAIN gs \subseteq DOMAIN MkNot(gs, x).gates
<1> DEFINE g == Gate("not", x, 0, 0)
<1>1. g \in GateKind
  BY ArenaFacts DEF Gate, GateKind, Kinds
<1>2. DOMAIN gs \subseteq DOMAIN Append(gs, g)
  BY <1>1, ArenaFacts
<1> QED BY <1>2 DEF MkNot, AddRaw, Is

LEMMA AndGood ==
  ASSUME NEW gs, NEW n, Arena(gs, n), NEW x \in DOMAIN gs, NEW y \in DOMAIN gs
  PROVE  Good(n, MkAnd(gs, x, y), Gate("and", x, y, 0))
<1> DEFINE a == Low(x, y)
           b == High(x, y)
           g == Gate("and", a, b, 0)
           r == MkAnd(gs, x, y)
           folds == a = False \/ b = False \/ a = True \/ b = True \/ a = b \/ NegationPair(gs, a, b)
<1>0. /\ x \in Nat /\ y \in Nat /\ a \in DOMAIN gs /\ b \in DOMAIN gs
      /\ (a = x /\ b = y) \/ (a = y /\ b = x)
      /\ g \in GateKind /\ OperandsIn(g, DOMAIN gs) /\ g.kind = "and" /\ g.x = a /\ g.y = b
  <2>1. x \in Nat /\ y \in Nat
    BY ArenaFacts
  <2>2. (a = x /\ b = y) \/ (a = y /\ b = x)
    BY <2>1 DEF Low, High
  <2>3. a \in Nat /\ b \in Nat /\ a \in DOMAIN gs /\ b \in DOMAIN gs
    BY <2>1, <2>2
  <2> HIDE DEF a, b
  <2>4. g \in GateKind /\ g.kind = "and" /\ g.x = a /\ g.y = b
    BY <2>3 DEF Gate, GateKind, Kinds
  <2>5. OperandsIn(g, DOMAIN gs)
    BY <2>3, <2>4 DEF OperandsIn
  <2> QED BY <2>1, <2>2, <2>3, <2>4, <2>5
<1>1. \A val : GateValue(Gate("and", x, y, 0), val) = GateValue(g, val)
  BY <1>0 DEF GateValue, Gate
<1> HIDE DEF a, b
<1>2. CASE folds
  <2>1. r.gates = gs /\ r.id \in DOMAIN gs
    BY <1>0, <1>2, ArenaFacts DEF MkAnd, Is, False, True, a, b
  <2>2. ASSUME NEW val \in [DOMAIN gs -> Bit], Consistent(gs, val)
        PROVE  val[r.id] = GateValue(g, val)
    <3>1. /\ val[False] = 0 /\ val[True] = 1 /\ val[a] \in Bit /\ val[b] \in Bit
      BY <1>0, <2>2, Known
    <3>2. NegationPair(gs, a, b) => val[a] = 1 - val[b]
      BY <1>0, <2>2, <3>1, Known DEF NegationPair, IsNot, Gate, Bit
    <3> QED BY <1>0, <1>2, <3>1, <3>2 DEF MkAnd, Is, GateValue, Bit, a, b
  <2>3. Means(gs, r.id, Gate("and", x, y, 0))
    BY <1>1, <2>2 DEF Means
  <2> QED BY <2>1, <2>3 DEF Good
<1>3. CASE ~folds
  <2>1. r = AddRaw(gs, g)
    BY <1>3 DEF MkAnd, a, b
  <2>2. Good(n, AddRaw(gs, g), g)
    BY <1>0, AddRawGood
  <2> QED BY <1>1, <2>1, <2>2 DEF Good, Means
<1> QED BY <1>2, <1>3

LEMMA OrGood ==
  ASSUME NEW gs, NEW n, Arena(gs, n), NEW x \in DOMAIN gs, NEW y \in DOMAIN gs
  PROVE  Good(n, MkOr(gs, x, y), Gate("or", x, y, 0))
<1> DEFINE a == Low(x, y)
           b == High(x, y)
           g == Gate("or", a, b, 0)
           r == MkOr(gs, x, y)
           folds == a = False \/ b = False \/ a = True \/ b = True \/ a = b \/ NegationPair(gs, a, b)
<1>0. /\ x \in Nat /\ y \in Nat /\ a \in DOMAIN gs /\ b \in DOMAIN gs
      /\ (a = x /\ b = y) \/ (a = y /\ b = x)
      /\ g \in GateKind /\ OperandsIn(g, DOMAIN gs) /\ g.kind = "or" /\ g.x = a /\ g.y = b
  <2>1. x \in Nat /\ y \in Nat
    BY ArenaFacts
  <2>2. (a = x /\ b = y) \/ (a = y /\ b = x)
    BY <2>1 DEF Low, High
  <2>3. a \in Nat /\ b \in Nat /\ a \in DOMAIN gs /\ b \in DOMAIN gs
    BY <2>1, <2>2
  <2> HIDE DEF a, b
  <2>4. g \in GateKind /\ g.kind = "or" /\ g.x = a /\ g.y = b
    BY <2>3 DEF Gate, GateKind, Kinds
  <2>5. OperandsIn(g, DOMAIN gs)
    BY <2>3, <2>4 DEF OperandsIn
  <2> QED BY <2>1, <2>2, <2>3, <2>4, <2>5
<1>1. \A val : GateValue(Gate("or", x, y, 0), val) = GateValue(g, val)
  BY <1>0 DEF GateValue, Gate
<1> HIDE DEF a, b
<1>2. CASE folds
  <2>1. r.gates = gs /\ r.id \in DOMAIN gs
    BY <1>0, <1>2, ArenaFacts DEF MkOr, Is, False, True, a, b
  <2>2. ASSUME NEW val \in [DOMAIN gs -> Bit], Consistent(gs, val)
        PROVE  val[r.id] = GateValue(g, val)
    <3>1. /\ val[False] = 0 /\ val[True] = 1 /\ val[a] \in Bit /\ val[b] \in Bit
      BY <1>0, <2>2, Known
    <3>2. NegationPair(gs, a, b) => val[a] = 1 - val[b]
      BY <1>0, <2>2, <3>1, Known DEF NegationPair, IsNot, Gate, Bit
    <3> QED BY <1>0, <1>2, <3>1, <3>2 DEF MkOr, Is, GateValue, Bit, a, b
  <2>3. Means(gs, r.id, Gate("or", x, y, 0))
    BY <1>1, <2>2 DEF Means
  <2> QED BY <2>1, <2>3 DEF Good
<1>3. CASE ~folds
  <2>1. r = AddRaw(gs, g)
    BY <1>3 DEF MkOr, a, b
  <2>2. Good(n, AddRaw(gs, g), g)
    BY <1>0, AddRawGood
  <2> QED BY <1>1, <2>1, <2>2 DEF Good, Means
<1> QED BY <1>2, <1>3

LEMMA XorGood ==
  ASSUME NEW gs, NEW n, Arena(gs, n), NEW x \in DOMAIN gs, NEW y \in DOMAIN gs
  PROVE  Good(n, MkXor(gs, x, y), Gate("xor", x, y, 0))
<1> DEFINE a == Low(x, y)
           b == High(x, y)
           g == Gate("xor", a, b, 0)
           r == MkXor(gs, x, y)
<1>0. /\ x \in Nat /\ y \in Nat /\ a \in DOMAIN gs /\ b \in DOMAIN gs
      /\ (a = x /\ b = y) \/ (a = y /\ b = x)
      /\ g \in GateKind /\ OperandsIn(g, DOMAIN gs) /\ g.kind = "xor" /\ g.x = a /\ g.y = b
  <2>1. x \in Nat /\ y \in Nat
    BY ArenaFacts
  <2>2. (a = x /\ b = y) \/ (a = y /\ b = x)
    BY <2>1 DEF Low, High
  <2>3. a \in Nat /\ b \in Nat /\ a \in DOMAIN gs /\ b \in DOMAIN gs
    BY <2>1, <2>2
  <2> HIDE DEF a, b
  <2>4. g \in GateKind /\ g.kind = "xor" /\ g.x = a /\ g.y = b
    BY <2>3 DEF Gate, GateKind, Kinds
  <2>5. OperandsIn(g, DOMAIN gs)
    BY <2>3, <2>4 DEF OperandsIn
  <2> QED BY <2>1, <2>2, <2>3, <2>4, <2>5
<1>1. \A val : GateValue(Gate("xor", x, y, 0), val) = GateValue(g, val)
  BY <1>0 DEF GateValue, Gate
<1> HIDE DEF a, b
<1>2. CASE a = False \/ b = False \/ a = b
  <2>1. r.gates = gs /\ r.id \in DOMAIN gs
    BY <1>0, <1>2, ArenaFacts DEF MkXor, Is, False, True, a, b
  <2>2. ASSUME NEW val \in [DOMAIN gs -> Bit], Consistent(gs, val)
        PROVE  val[r.id] = GateValue(g, val)
    <3>1. /\ val[False] = 0 /\ val[True] = 1 /\ val[a] \in Bit /\ val[b] \in Bit
      BY <1>0, <2>2, Known
    <3> QED BY <1>0, <1>2, <3>1 DEF MkXor, Is, GateValue, Bit, a, b
  <2>3. Means(gs, r.id, Gate("xor", x, y, 0))
    BY <1>1, <2>2 DEF Means
  <2> QED BY <2>1, <2>3 DEF Good
<1>3. CASE ~(a = False \/ b = False \/ a = b) /\ (a = True \/ b = True)
  <2>1. PICK c \in {a, b} : r = MkNot(gs, c) /\ ((a = True /\ c = b) \/ (b = True /\ c = a))
    BY <1>3 DEF MkXor, a, b
  <2>2. Good(n, r, Gate("not", c, 0, 0))
    BY <1>0, <2>1, NotGood
  <2>3. ASSUME NEW val \in [DOMAIN r.gates -> Bit], Consistent(r.gates, val)
        PROVE  val[r.id] = GateValue(g, val)
    <3>1. val[r.id] = 1 - val[c]
      BY <2>2, <2>3 DEF Good, Means, GateValue, Gate
    <3>2. val[True] = 1
      BY <2>2, <2>3, Known DEF Good
    <3>3. val[c] \in Bit
      <4>1. c \in DOMAIN r.gates
        BY <1>0, <2>1, NotExtends
      <4> QED BY <4>1
    <3> QED BY <1>0, <2>1, <3>1, <3>2, <3>3 DEF GateValue, Bit
  <2> QED BY <1>1, <2>2, <2>3 DEF Good, Means
<1>4. CASE ~(a = False \/ b = False \/ a = b \/ a = True \/ b = True)
  <2>1. r = AddRaw(gs, g)
    BY <1>4 DEF MkXor, a, b
  <2>2. Good(n, AddRaw(gs, g), g)
    BY <1>0, AddRawGood
  <2> QED BY <1>1, <2>1, <2>2 DEF Good, Means
<1> QED BY <1>2, <1>3, <1>4

LEMMA MuxGood ==
  ASSUME NEW gs, NEW n, Arena(gs, n), NEW s \in DOMAIN gs, NEW t \in DOMAIN gs, NEW f \in DOMAIN gs
  PROVE  Good(n, MkMux(gs, s, t, f), Gate("mux", s, t, f))
<1> DEFINE g == Gate("mux", s, t, f)
           r == MkMux(gs, s, t, f)
           plain == s = True \/ s = False \/ t = f \/ (t = True /\ f = False)
           flips == ~plain /\ t = False /\ f = True
<1>0. /\ s \in Nat /\ t \in Nat /\ f \in Nat
      /\ g \in GateKind /\ OperandsIn(g, DOMAIN gs) /\ g.kind = "mux" /\ g.x = s /\ g.y = t /\ g.z = f
  <2>1. s \in Nat /\ t \in Nat /\ f \in Nat
    BY ArenaFacts
  <2>2. g \in GateKind /\ g.kind = "mux" /\ g.x = s /\ g.y = t /\ g.z = f
    BY <2>1 DEF Gate, GateKind, Kinds
  <2>3. OperandsIn(g, DOMAIN gs)
    BY <2>2 DEF OperandsIn
  <2> QED BY <2>1, <2>2, <2>3
<1>1. CASE plain
  <2>1. r.gates = gs /\ r.id \in DOMAIN gs
    BY <1>1 DEF MkMux, Is
  <2>2. ASSUME NEW val \in [DOMAIN gs -> Bit], Consistent(gs, val)
        PROVE  val[r.id] = GateValue(g, val)
    <3>1. /\ val[False] = 0 /\ val[True] = 1 /\ val[s] \in Bit /\ val[t] \in Bit /\ val[f] \in Bit
      BY <2>2, Known
    <3> QED BY <1>0, <1>1, <3>1 DEF MkMux, Is, GateValue, Bit
  <2> QED BY <2>1, <2>2 DEF Good, Means
<1>2. CASE flips
  <2>1. r = MkNot(gs, s)
    BY <1>2 DEF MkMux
  <2>2. Good(n, r, Gate("not", s, 0, 0))
    BY <2>1, NotGood
  <2>3. ASSUME NEW val \in [DOMAIN r.gates -> Bit], Consistent(r.gates, val)
        PROVE  val[r.id] = GateValue(g, val)
    <3>1. val[r.id] = 1 - val[s]
      BY <2>2, <2>3 DEF Good, Means, GateValue, Gate
    <3>2. val[False] = 0 /\ val[True] = 1
      BY <2>2, <2>3, Known DEF Good
    <3>3. val[s] \in Bit
      <4>1. s \in DOMAIN r.gates
        BY <2>1, NotExtends
      <4> QED BY <4>1
    <3> QED BY <1>0, <1>2, <3>1, <3>2, <3>3 DEF GateValue, Bit
  <2> QED BY <2>2, <2>3 DEF Good, Means
<1>3. CASE ~plain /\ ~flips
  <2>1. r = AddRaw(gs, g)
    BY <1>3 DEF MkMux
  <2>2. Good(n, AddRaw(gs, g), g)
    BY <1>0, AddRawGood
  <2> QED BY <2>1, <2>2
<1> QED BY <1>1, <1>2, <1>3

\* Dropping tautologies changes nothing: under 0 and 1 they hold anyway.
LEMMA PushedSame ==
  ASSUME NEW cs, NEW D, D \subseteq Nat \ {0}, NEW val \in [D -> Bit],
         \A c \in cs : \A l \in c : l \in Int /\ (l \in D \/ -l \in D)
  PROVE  SatisfiesAll(Pushed(cs), val) <=> SatisfiesAll(cs, val)
<1>1. ASSUME NEW c \in cs, Tautology(c) PROVE \E l \in c : True1(val, l)
  <2>1. PICK l \in c : -l \in c
    BY <1>1 DEF Tautology
  <2>2. l \in Int /\ -l \in Int /\ (l \in D \/ -l \in D) /\ -(-l) = l
    BY <2>1
  <2>3. True1(val, l) \/ True1(val, -l)
    BY <2>2 DEF True1, Bit
  <2> QED BY <2>1, <2>3
<1> QED BY <1>1 DEF Pushed, SatisfiesAll

\* A literal and its complement, under 0 and 1.
LEMMA Literals ==
  ASSUME NEW val, NEW v \in Nat \ {0}, val[v] \in Bit
  PROVE  (True1(val, v) <=> val[v] = 1) /\ (True1(val, -v) <=> val[v] = 0)
<1>1. -v \in Int /\ ~(-v > 0) /\ -(-v) = v /\ v > 0
  OBVIOUS
<1> QED BY <1>1 DEF True1

\* The clauses of one gate say that it has the value it computes.
LEMMA GateClausesExact ==
  ASSUME NEW gs, NEW n, Arena(gs, n), NEW i \in DOMAIN gs, NEW val \in [DOMAIN gs -> Bit]
  PROVE  SatisfiesAll(Pushed(GateClauses(i, gs[i])), val) <=> Correct(gs, val, i)
<1> DEFINE g == gs[i]
           a == g.x
           b == g.y
           c == g.z
           cs == GateClauses(i, g)
<1>0. /\ DOMAIN gs \subseteq Nat \ {0} /\ g \in GateKind /\ g.kind \in Kinds
      /\ OperandsIn(g, DOMAIN gs) /\ i \in Nat \ {0} /\ (g.kind = "const" => g.x \in Bit)
  <2>1. DOMAIN gs \subseteq Nat \ {0}
    BY ArenaFacts
  <2>2. g \in GateKind /\ OperandsIn(g, DOMAIN gs)
    BY ArenaFacts
  <2>3. g.kind \in Kinds
    BY <2>2 DEF GateKind
  <2>4. g.kind = "const" => g.x \in Bit
    BY DEF Arena
  <2> QED BY <2>1, <2>2, <2>3, <2>4
<1>00. Correct(gs, val, i) <=> g.kind = "input" \/ val[i] = GateValue(g, val)
  BY DEF Correct
<1> HIDE DEF g
<1>1. SatisfiesAll(cs, val) <=> Correct(gs, val, i)
  <2>0. val[i] \in Bit /\ (True1(val, i) <=> val[i] = 1) /\ (True1(val, -i) <=> val[i] = 0)
    BY <1>0, Literals
  <2>1. CASE g.kind = "const"
    <3>1. cs = {{IF g.x = 1 THEN i ELSE -i}}
      BY <2>1 DEF GateClauses
    <3>2. SatisfiesAll(cs, val) <=> True1(val, IF g.x = 1 THEN i ELSE -i)
      BY <3>1 DEF SatisfiesAll
    <3>3. GateValue(g, val) = g.x
      BY <2>1 DEF GateValue
    <3> QED BY <1>0, <1>00, <2>0, <2>1, <3>2, <3>3 DEF Bit
  <2>2. CASE g.kind = "not"
    <3>1. a \in DOMAIN gs
      BY <1>0, <2>2 DEF OperandsIn
    <3>2. a \in Nat \ {0} /\ val[a] \in Bit
      BY <1>0, <3>1
    <3>3. /\ (True1(val, a) <=> val[a] = 1) /\ (True1(val, -a) <=> val[a] = 0)
      BY <3>2, Literals
    <3>4. cs = {{i, a}, {-i, -a}}
      BY <2>2 DEF GateClauses
    <3>5. SatisfiesAll(cs, val) <=>
            /\ (True1(val, i) \/ True1(val, a))
            /\ (True1(val, -i) \/ True1(val, -a))
      <4> HIDE DEF cs, a, b, c
      <4> QED BY <3>4 DEF SatisfiesAll
    <3>6. GateValue(g, val) = (1 - val[a])
      BY <2>2 DEF GateValue
    <3> QED BY <1>00, <2>0, <2>2, <3>2, <3>3, <3>5, <3>6 DEF Bit
  <2>3. CASE g.kind = "and"
    <3>1. a \in DOMAIN gs /\ b \in DOMAIN gs
      BY <1>0, <2>3 DEF OperandsIn
    <3>2. a \in Nat \ {0} /\ val[a] \in Bit /\ b \in Nat \ {0} /\ val[b] \in Bit
      BY <1>0, <3>1
    <3>3. /\ (True1(val, a) <=> val[a] = 1) /\ (True1(val, -a) <=> val[a] = 0)
          /\ (True1(val, b) <=> val[b] = 1) /\ (True1(val, -b) <=> val[b] = 0)
      BY <3>2, Literals
    <3>4. cs = {{-i, a}, {-i, b}, {i, -a, -b}}
      BY <2>3 DEF GateClauses
    <3>5. SatisfiesAll(cs, val) <=>
            /\ (True1(val, -i) \/ True1(val, a))
            /\ (True1(val, -i) \/ True1(val, b))
            /\ (True1(val, i) \/ True1(val, -a) \/ True1(val, -b))
      <4> HIDE DEF cs, a, b, c
      <4> QED BY <3>4 DEF SatisfiesAll
    <3>6. GateValue(g, val) = (IF val[a] = 1 /\ val[b] = 1 THEN 1 ELSE 0)
      BY <2>3 DEF GateValue
    <3> QED BY <1>00, <2>0, <2>3, <3>2, <3>3, <3>5, <3>6 DEF Bit
  <2>4. CASE g.kind = "or"
    <3>1. a \in DOMAIN gs /\ b \in DOMAIN gs
      BY <1>0, <2>4 DEF OperandsIn
    <3>2. a \in Nat \ {0} /\ val[a] \in Bit /\ b \in Nat \ {0} /\ val[b] \in Bit
      BY <1>0, <3>1
    <3>3. /\ (True1(val, a) <=> val[a] = 1) /\ (True1(val, -a) <=> val[a] = 0)
          /\ (True1(val, b) <=> val[b] = 1) /\ (True1(val, -b) <=> val[b] = 0)
      BY <3>2, Literals
    <3>4. cs = {{i, -a}, {i, -b}, {-i, a, b}}
      BY <2>4 DEF GateClauses
    <3>5. SatisfiesAll(cs, val) <=>
            /\ (True1(val, i) \/ True1(val, -a))
            /\ (True1(val, i) \/ True1(val, -b))
            /\ (True1(val, -i) \/ True1(val, a) \/ True1(val, b))
      <4> HIDE DEF cs, a, b, c
      <4> QED BY <3>4 DEF SatisfiesAll
    <3>6. GateValue(g, val) = (IF val[a] = 1 \/ val[b] = 1 THEN 1 ELSE 0)
      BY <2>4 DEF GateValue
    <3> QED BY <1>00, <2>0, <2>4, <3>2, <3>3, <3>5, <3>6 DEF Bit
  <2>5. CASE g.kind = "xor"
    <3>1. a \in DOMAIN gs /\ b \in DOMAIN gs
      BY <1>0, <2>5 DEF OperandsIn
    <3>2. a \in Nat \ {0} /\ val[a] \in Bit /\ b \in Nat \ {0} /\ val[b] \in Bit
      BY <1>0, <3>1
    <3>3. /\ (True1(val, a) <=> val[a] = 1) /\ (True1(val, -a) <=> val[a] = 0)
          /\ (True1(val, b) <=> val[b] = 1) /\ (True1(val, -b) <=> val[b] = 0)
      BY <3>2, Literals
    <3>4. cs = {{-a, -b, -i}, {-a, b, i}, {a, -b, i}, {a, b, -i}}
      BY <2>5 DEF GateClauses
    <3>5. SatisfiesAll(cs, val) <=>
            /\ (True1(val, -a) \/ True1(val, -b) \/ True1(val, -i))
            /\ (True1(val, -a) \/ True1(val, b) \/ True1(val, i))
            /\ (True1(val, a) \/ True1(val, -b) \/ True1(val, i))
            /\ (True1(val, a) \/ True1(val, b) \/ True1(val, -i))
      <4> HIDE DEF cs, a, b, c
      <4> QED BY <3>4 DEF SatisfiesAll
    <3>6. GateValue(g, val) = (IF val[a] # val[b] THEN 1 ELSE 0)
      BY <2>5 DEF GateValue
    <3> QED BY <1>00, <2>0, <2>5, <3>2, <3>3, <3>5, <3>6 DEF Bit
  <2>6. CASE g.kind = "mux"
    <3>1. a \in DOMAIN gs /\ b \in DOMAIN gs /\ c \in DOMAIN gs
      BY <1>0, <2>6 DEF OperandsIn
    <3>2. a \in Nat \ {0} /\ val[a] \in Bit /\ b \in Nat \ {0} /\ val[b] \in Bit /\ c \in Nat \ {0} /\ val[c] \in Bit
      BY <1>0, <3>1
    <3>3. /\ (True1(val, a) <=> val[a] = 1) /\ (True1(val, -a) <=> val[a] = 0)
          /\ (True1(val, b) <=> val[b] = 1) /\ (True1(val, -b) <=> val[b] = 0)
          /\ (True1(val, c) <=> val[c] = 1) /\ (True1(val, -c) <=> val[c] = 0)
      BY <3>2, Literals
    <3>4. cs = {{-a, -b, i}, {-a, b, -i}, {a, -c, i}, {a, c, -i}}
      BY <2>6 DEF GateClauses
    <3>5. SatisfiesAll(cs, val) <=>
            /\ (True1(val, -a) \/ True1(val, -b) \/ True1(val, i))
            /\ (True1(val, -a) \/ True1(val, b) \/ True1(val, -i))
            /\ (True1(val, a) \/ True1(val, -c) \/ True1(val, i))
            /\ (True1(val, a) \/ True1(val, c) \/ True1(val, -i))
      <4> HIDE DEF cs, a, b, c
      <4> QED BY <3>4 DEF SatisfiesAll
    <3>6. GateValue(g, val) = (IF val[a] = 1 THEN val[b] ELSE val[c])
      BY <2>6 DEF GateValue
    <3> QED BY <1>00, <2>0, <2>6, <3>2, <3>3, <3>5, <3>6 DEF Bit
  <2>7. CASE g.kind = "input"
    BY <1>00, <2>7 DEF GateClauses, SatisfiesAll
  <2> QED BY <1>0, <2>1, <2>2, <2>3, <2>4, <2>5, <2>6, <2>7 DEF Kinds
<1>2. \A d \in cs : \A l \in d : l \in Int /\ (l \in DOMAIN gs \/ -l \in DOMAIN gs)
  <2>1. i \in Int /\ -i \in Int /\ -(-i) = i
    BY <1>0
  <2>2. a \in Nat /\ b \in Nat /\ c \in Nat /\ -(-a) = a /\ -(-b) = b /\ -(-c) = c
    BY <1>0 DEF GateKind
  <2> QED BY <1>0, <2>1, <2>2 DEF GateClauses, OperandsIn, Kinds
<1>3. SatisfiesAll(Pushed(cs), val) <=> SatisfiesAll(cs, val)
  <2> HIDE DEF cs
  <2> QED BY <1>0, <1>2, PushedSame
<1> QED BY <1>1, <1>3 DEF g

\* A constructor call on gates of the arena keeps the invariant.
LEMMA MadeKeepsInv ==
  ASSUME GatesInv, Room, NEW op \in Kinds \ {"input"}, NEW x \in Nat, NEW y \in Nat, NEW z \in Nat,
         NEW r, Good(inputs, r, Gate(op, x, y, z)), DOMAIN gates \subseteq DOMAIN r.gates,
         Made(op, x, y, z, r)
  PROVE  GatesInv'
<1>1. /\ gates' = r.gates /\ inputs' = inputs /\ pc' = pc /\ index' = index
      /\ clauses' = clauses /\ assertion' = assertion /\ pc = "build"
      /\ call' = [op |-> op, x |-> x, y |-> y, z |-> z, id |-> r.id]
  BY DEF Made, building, Room
<1>2. Arena(gates', inputs') /\ r.id \in DOMAIN gates' /\ Means(gates', r.id, Gate(op, x, y, z))
  BY <1>1 DEF Good
<1>3. gates' \in Seq(GateKind) /\ DOMAIN gates' = 1..Len(gates') /\ Len(gates') \in Nat /\ 1 \in DOMAIN gates'
  BY <1>2, ArenaFacts
<1>4. TypeOK'
  <2>1. index' = 1 /\ index' \in 1..(Len(gates') + 1)
    BY <1>1, <1>3 DEF GatesInv, EncodedInv
  <2>2. assertion' \in DOMAIN gates'
    BY <1>1 DEF GatesInv, TypeOK
  <2>3. call' \in [op : Kinds, x : Nat, y : Nat, z : Nat, id : DOMAIN gates']
    BY <1>1, <1>2
  <2> QED BY <1>1, <1>3, <2>1, <2>2, <2>3 DEF GatesInv, TypeOK
<1>5. CallMeans'
  <2>1. call'.id = r.id /\ Gate(call'.op, call'.x, call'.y, call'.z) = Gate(op, x, y, z)
    BY <1>1
  <2> QED BY <1>2, <2>1 DEF CallMeans
<1>6. EncodedInv' /\ EncodingExact'
  BY <1>1 DEF GatesInv, EncodedInv, EncodingExact
<1> QED BY <1>2, <1>4, <1>5, <1>6 DEF GatesInv

\* No constructor removes a gate.
LEMMA AddRawExtends ==
  ASSUME NEW gs, NEW n, Arena(gs, n), NEW g \in GateKind
  PROVE  DOMAIN gs \subseteq DOMAIN AddRaw(gs, g).gates
<1>1. DOMAIN gs \subseteq DOMAIN Append(gs, g)
  BY ArenaFacts
<1> QED BY <1>1 DEF AddRaw, Is

LEMMA Extends ==
  ASSUME NEW gs, NEW n, Arena(gs, n), NEW x \in DOMAIN gs, NEW y \in DOMAIN gs, NEW z \in DOMAIN gs
  PROVE  /\ DOMAIN gs \subseteq DOMAIN MkAnd(gs, x, y).gates
         /\ DOMAIN gs \subseteq DOMAIN MkOr(gs, x, y).gates
         /\ DOMAIN gs \subseteq DOMAIN MkXor(gs, x, y).gates
         /\ DOMAIN gs \subseteq DOMAIN MkMux(gs, x, y, z).gates
<1> DEFINE a == Low(x, y)
           b == High(x, y)
<1>1. a \in DOMAIN gs /\ b \in DOMAIN gs /\ DOMAIN gs \subseteq Nat
  BY ArenaFacts DEF Low, High
<1> HIDE DEF a, b
<1>2. ASSUME NEW k \in {"and", "or", "xor"} PROVE Gate(k, a, b, 0) \in GateKind
  BY <1>1 DEF Gate, GateKind, Kinds
<1>3. Gate("mux", x, y, z) \in GateKind
  BY <1>1 DEF Gate, GateKind, Kinds
<1>4. /\ DOMAIN gs \subseteq DOMAIN AddRaw(gs, Gate("and", a, b, 0)).gates
      /\ DOMAIN gs \subseteq DOMAIN AddRaw(gs, Gate("or", a, b, 0)).gates
      /\ DOMAIN gs \subseteq DOMAIN AddRaw(gs, Gate("xor", a, b, 0)).gates
      /\ DOMAIN gs \subseteq DOMAIN AddRaw(gs, Gate("mux", x, y, z)).gates
  BY <1>2, <1>3, AddRawExtends
<1>5. /\ DOMAIN gs \subseteq DOMAIN MkNot(gs, a).gates
      /\ DOMAIN gs \subseteq DOMAIN MkNot(gs, b).gates
      /\ DOMAIN gs \subseteq DOMAIN MkNot(gs, x).gates
  BY <1>1, NotExtends
<1>6. DOMAIN gs \subseteq DOMAIN MkAnd(gs, x, y).gates
  BY <1>4 DEF MkAnd, Is, a, b
<1>7. DOMAIN gs \subseteq DOMAIN MkOr(gs, x, y).gates
  BY <1>4 DEF MkOr, Is, a, b
<1>8. DOMAIN gs \subseteq DOMAIN MkXor(gs, x, y).gates
  BY <1>4, <1>5 DEF MkXor, Is, a, b
<1>9. DOMAIN gs \subseteq DOMAIN MkMux(gs, x, y, z).gates
  BY <1>4, <1>5 DEF MkMux, Is
<1> QED BY <1>6, <1>7, <1>8, <1>9

\* A fresh input extends the arena.
LEMMA InputKeepsInv ==
  ASSUME GatesInv, Input
  PROVE  GatesInv'
<1> DEFINE g == Gate("input", inputs, 0, 0)
           m == Len(gates)
           r == AddRaw(gates, g)
<1>0. /\ gates' = r.gates /\ inputs' = inputs + 1 /\ pc' = pc /\ index' = index
      /\ clauses' = clauses /\ assertion' = assertion /\ pc = "build"
      /\ call' = [op |-> "input", x |-> inputs, y |-> 0, z |-> 0, id |-> r.id]
  BY DEF Input, building, Room
<1>2. Arena(gates, inputs) /\ inputs \in Nat
  BY DEF GatesInv, TypeOK
<1>3. g \in GateKind /\ g.kind = "input" /\ g.x = inputs /\ OperandsIn(g, 1..m)
  BY <1>2 DEF Gate, GateKind, Kinds, OperandsIn
<1> HIDE DEF g
<1>fresh. \A i \in DOMAIN gates : gates[i] # g
  <2>1. \A i \in DOMAIN gates : gates[i].kind = "input" => gates[i].x < inputs
    BY <1>2 DEF Arena
  <2> QED BY <1>2, <1>3, <2>1
<1>1. /\ gates' = Append(gates, g) /\ inputs' = inputs + 1 /\ pc' = pc /\ index' = index
      /\ clauses' = clauses /\ assertion' = assertion /\ pc = "build"
      /\ call' = [op |-> "input", x |-> inputs, y |-> 0, z |-> 0, id |-> m + 1]
  <2>1. r.gates = Append(gates, g) /\ r.id = m + 1
    BY <1>fresh DEF AddRaw, Is
  <2> QED BY <1>0, <2>1
<1> HIDE DEF r
<1>4. gates \in Seq(GateKind) /\ m \in Nat /\ m >= 2 /\ DOMAIN gates = 1..m
  BY <1>2 DEF Arena
<1>5. /\ gates' \in Seq(GateKind) /\ Len(gates') = m + 1 /\ DOMAIN gates' = 1..(m + 1)
      /\ gates'[m + 1] = g /\ \A i \in DOMAIN gates : gates'[i] = gates[i]
  BY <1>1, <1>3, <1>4
<1>6. \A i \in DOMAIN gates' : i \in DOMAIN gates \/ i = m + 1
  BY <1>4, <1>5
<1> HIDE DEF m
<1>7. Arena(gates', inputs')
  <2>1. gates'[1] = Gate("const", 0, 0, 0) /\ gates'[2] = Gate("const", 1, 0, 0)
    BY <1>2, <1>4, <1>5 DEF Arena
  <2>2. \A i \in DOMAIN gates' : OperandsIn(gates'[i], 1..(i - 1))
    <3>1. OperandsIn(gates'[m + 1], 1..((m + 1) - 1))
      BY <1>3, <1>5 DEF OperandsIn
    <3> QED BY <1>2, <1>5, <1>6, <3>1 DEF Arena
  <2>3. \A i \in DOMAIN gates : gates[i].kind = "input" => gates[i].x < inputs
    BY <1>2 DEF Arena
  <2>4. \A i \in DOMAIN gates : gates[i] # g
    BY <1>fresh
  <2>5. \A i, j \in DOMAIN gates' : gates'[i] = gates'[j] => i = j
    BY <1>2, <1>5, <1>6, <2>4 DEF Arena
  <2>6. \A i \in DOMAIN gates : gates[i].x \in Nat
    <3>1. \A i \in DOMAIN gates : gates[i] \in GateKind
      BY <1>2, ArenaFacts
    <3> QED BY <3>1 DEF GateKind
  <2>7. \A i \in DOMAIN gates' : gates'[i].kind = "input" => gates'[i].x < inputs'
    BY <1>1, <1>2, <1>3, <1>5, <1>6, <2>3, <2>6
  <2>8. \A i \in DOMAIN gates' : /\ gates'[i].kind = "const" => gates'[i].x \in Bit
                                 /\ gates'[i].kind = "not" => gates'[i].y = 0 /\ gates'[i].z = 0
    BY <1>2, <1>3, <1>5, <1>6 DEF Arena
  <2> QED BY <1>4, <1>5, <2>1, <2>2, <2>5, <2>7, <2>8 DEF Arena
<1>8. TypeOK'
  <2>1. index' = 1 /\ index' \in 1..(Len(gates') + 1)
    BY <1>1, <1>4, <1>5 DEF GatesInv, EncodedInv
  <2>2. assertion' \in DOMAIN gates'
    BY <1>1, <1>4, <1>5 DEF GatesInv, TypeOK
  <2>3. call' \in [op : Kinds, x : Nat, y : Nat, z : Nat, id : DOMAIN gates']
    BY <1>1, <1>2, <1>4, <1>5 DEF Kinds
  <2> QED BY <1>1, <1>2, <1>5, <2>1, <2>2, <2>3 DEF GatesInv, TypeOK
<1>9. CallMeans' /\ EncodedInv' /\ EncodingExact'
  BY <1>1 DEF GatesInv, CallMeans, EncodedInv, EncodingExact
<1> QED BY <1>7, <1>8, <1>9 DEF GatesInv

\* Encoding one more gate.
LEMMA EncodeGateKeepsInv ==
  ASSUME GatesInv, EncodeGate
  PROVE  GatesInv'
<1> DEFINE new == Pushed(GateClauses(index, gates[index]))
<1>1. /\ pc = "encode" /\ index <= Len(gates) /\ clauses' = clauses \cup new /\ index' = index + 1
      /\ gates' = gates /\ inputs' = inputs /\ call' = call /\ pc' = pc /\ assertion' = assertion
  BY DEF EncodeGate
<1>2. Arena(gates, inputs) /\ DOMAIN gates = 1..Len(gates) /\ Len(gates) \in Nat /\ index \in DOMAIN gates
  BY <1>1, ArenaFacts DEF GatesInv, TypeOK
<1>3. new \subseteq SUBSET Int
  <2>1. gates[index] \in GateKind /\ index \in Nat
    BY <1>2, ArenaFacts
  <2>2. \A d \in GateClauses(index, gates[index]) : \A l \in d : l \in Int
    <3>1. gates[index].kind \in Kinds /\ gates[index].x \in Nat /\ gates[index].y \in Nat /\ gates[index].z \in Nat
      BY <2>1 DEF GateKind
    <3> QED BY <2>1, <3>1 DEF GateClauses, Kinds
  <2> QED BY <2>2 DEF Pushed
<1>4. ASSUME NEW val \in [DOMAIN gates -> Bit]
      PROVE  SatisfiesAll(clauses', val) <=> CorrectBefore(gates, val, index + 1)
  <2>1. SatisfiesAll(clauses', val) <=> SatisfiesAll(clauses, val) /\ SatisfiesAll(new, val)
    BY <1>1 DEF SatisfiesAll
  <2>2. SatisfiesAll(new, val) <=> Correct(gates, val, index)
    BY <1>2, GateClausesExact
  <2>3. SatisfiesAll(clauses, val) <=> CorrectBefore(gates, val, index)
    BY <1>1 DEF GatesInv, EncodedInv
  <2>4. \A i \in DOMAIN gates : i < index + 1 <=> i < index \/ i = index
    BY <1>2
  <2> QED BY <1>2, <2>1, <2>2, <2>3, <2>4 DEF CorrectBefore
<1> HIDE DEF new
<1>5. TypeOK'
  BY <1>1, <1>2, <1>3 DEF GatesInv, TypeOK
<1>6. EncodedInv' /\ EncodingExact'
  BY <1>1, <1>4 DEF EncodedInv, EncodingExact
<1>7. Arena(gates', inputs') /\ CallMeans'
  BY <1>1, <1>2 DEF GatesInv, CallMeans
<1> QED BY <1>5, <1>6, <1>7 DEF GatesInv

\* The assertion closes the CNF.
LEMMA EncodeDoneKeepsInv ==
  ASSUME GatesInv, EncodeDone
  PROVE  GatesInv'
<1> DEFINE new == Pushed({{assertion}})
<1>1. /\ pc = "encode" /\ index > Len(gates) /\ clauses' = clauses \cup new /\ index' = index
      /\ gates' = gates /\ inputs' = inputs /\ call' = call /\ pc' = "done" /\ assertion' = assertion
  BY DEF EncodeDone
<1>2. Arena(gates, inputs) /\ DOMAIN gates = 1..Len(gates) /\ Len(gates) \in Nat
      /\ assertion \in DOMAIN gates /\ index \in Nat
  BY ArenaFacts DEF GatesInv, TypeOK
<1>3. new = {{assertion}}
  <2>1. assertion \in Nat \ {0} /\ -assertion # assertion
    BY <1>2
  <2> QED BY <2>1 DEF Pushed, Tautology
<1> HIDE DEF new
<1>4. ASSUME NEW val \in [DOMAIN gates -> Bit]
      PROVE  SatisfiesAll(clauses', val) <=> Consistent(gates, val) /\ val[assertion] = 1
  <2>1. SatisfiesAll(clauses', val) <=> SatisfiesAll(clauses, val) /\ True1(val, assertion)
    <3>1. clauses' = clauses \cup {{assertion}}
      BY <1>1, <1>3
    <3>2. SatisfiesAll({{assertion}}, val) <=> True1(val, assertion)
      BY DEF SatisfiesAll
    <3>3. SatisfiesAll(clauses', val) <=> SatisfiesAll(clauses, val) /\ SatisfiesAll({{assertion}}, val)
      BY <3>1 DEF SatisfiesAll
    <3> QED BY <3>2, <3>3
  <2>2. SatisfiesAll(clauses, val) <=> CorrectBefore(gates, val, index)
    BY <1>1 DEF GatesInv, EncodedInv
  <2>3. \A i \in DOMAIN gates : i < index
    BY <1>1, <1>2
  <2>4. True1(val, assertion) <=> val[assertion] = 1
    BY <1>2 DEF True1
  <2> QED BY <2>1, <2>2, <2>3, <2>4 DEF CorrectBefore, Consistent
<1>5. TypeOK'
  <2>1. new \subseteq SUBSET Int
    BY <1>2, <1>3
  <2> QED BY <1>1, <2>1 DEF GatesInv, TypeOK
<1>6. EncodedInv' /\ EncodingExact'
  BY <1>1, <1>4 DEF EncodedInv, EncodingExact
<1>7. Arena(gates', inputs') /\ CallMeans'
  BY <1>1, <1>2 DEF GatesInv, CallMeans
<1> QED BY <1>5, <1>6, <1>7 DEF GatesInv

LEMMA GatesInvInit == Init => GatesInv
<1> SUFFICES ASSUME Init PROVE GatesInv
  OBVIOUS
<1> DEFINE g0 == Gate("const", 0, 0, 0)
           g1 == Gate("const", 1, 0, 0)
<1>1. g0 \in GateKind /\ g1 \in GateKind /\ g0.kind = "const" /\ g1.kind = "const" /\ g0.x = 0 /\ g1.x = 1
  BY DEF Gate, GateKind, Kinds
<1> HIDE DEF g0, g1
<1>2. gates = <<g0, g1>>
  BY DEF Init, g0, g1
<1>3. gates \in Seq(GateKind) /\ Len(gates) = 2 /\ DOMAIN gates = 1..2 /\ gates[1] = g0 /\ gates[2] = g1
  BY <1>1, <1>2
<1>4. g0 # g1
  BY <1>1
<1>5. \A i \in DOMAIN gates : i = 1 \/ i = 2
  BY <1>3
<1>6. Arena(gates, inputs)
  <2>1. \A i \in DOMAIN gates : gates[i].kind = "const" /\ gates[i].x \in Bit
    BY <1>1, <1>3, <1>5 DEF Bit
  <2>2. \A i, j \in DOMAIN gates : gates[i] = gates[j] => i = j
    BY <1>3, <1>4, <1>5
  <2>3. \A i \in DOMAIN gates : OperandsIn(gates[i], 1..(i - 1))
    BY <2>1 DEF OperandsIn
  <2> QED BY <1>3, <2>1, <2>2, <2>3 DEF Arena, g0, g1
<1>7. TypeOK
  BY <1>3 DEF Init, TypeOK, Kinds, True
<1>8. CallMeans
  <2>1. call.id = 2 /\ Gate(call.op, call.x, call.y, call.z) = g1
    BY DEF Init, True, g1
  <2>2. ASSUME NEW val \in [DOMAIN gates -> Bit], Consistent(gates, val)
        PROVE  val[2] = GateValue(g1, val)
    BY <1>1, <1>3, <2>2 DEF Consistent, Correct
  <2> QED BY <2>1, <2>2 DEF CallMeans, Means
<1>9. EncodedInv /\ EncodingExact
  BY DEF Init, EncodedInv, EncodingExact
<1> QED BY <1>6, <1>7, <1>8, <1>9 DEF GatesInv

LEMMA GatesInvStep == GatesInv /\ [Next]_vars => GatesInv'
<1> SUFFICES ASSUME GatesInv, [Next]_vars PROVE GatesInv'
  OBVIOUS
<1>0. Arena(gates, inputs) /\ DOMAIN gates \subseteq Nat
  BY ArenaFacts DEF GatesInv
<1>1. CASE Input
  BY <1>1, InputKeepsInv
<1>2. ASSUME NEW x \in DOMAIN gates, NEW y \in DOMAIN gates, And(x, y) \/ Or(x, y) \/ Xor(x, y)
      PROVE  GatesInv'
  <2>0. 0 \in Nat /\ {"and", "or", "xor"} \subseteq Kinds \ {"input"} /\ x \in Nat /\ y \in Nat /\ Room
    BY <1>0, <1>2 DEF Kinds, And, Or, Xor
  <2>1. CASE And(x, y)
    <3>1. Good(inputs, MkAnd(gates, x, y), Gate("and", x, y, 0)) /\ DOMAIN gates \subseteq DOMAIN MkAnd(gates, x, y).gates
      BY <1>0, AndGood, Extends
    <3>2. Made("and", x, y, 0, MkAnd(gates, x, y))
      BY <2>1 DEF And
    <3> QED BY <2>0, <3>1, <3>2, MadeKeepsInv
  <2>2. CASE Or(x, y)
    <3>1. Good(inputs, MkOr(gates, x, y), Gate("or", x, y, 0)) /\ DOMAIN gates \subseteq DOMAIN MkOr(gates, x, y).gates
      BY <1>0, OrGood, Extends
    <3>2. Made("or", x, y, 0, MkOr(gates, x, y))
      BY <2>2 DEF Or
    <3> QED BY <2>0, <3>1, <3>2, MadeKeepsInv
  <2>3. CASE Xor(x, y)
    <3>1. Good(inputs, MkXor(gates, x, y), Gate("xor", x, y, 0)) /\ DOMAIN gates \subseteq DOMAIN MkXor(gates, x, y).gates
      BY <1>0, XorGood, Extends
    <3>2. Made("xor", x, y, 0, MkXor(gates, x, y))
      BY <2>3 DEF Xor
    <3> QED BY <2>0, <3>1, <3>2, MadeKeepsInv
  <2> QED BY <1>2, <2>1, <2>2, <2>3
<1>3. ASSUME NEW x \in DOMAIN gates, Not(x)
      PROVE  GatesInv'
  <2>1. Good(inputs, MkNot(gates, x), Gate("not", x, 0, 0)) /\ DOMAIN gates \subseteq DOMAIN MkNot(gates, x).gates
    BY <1>0, NotGood, NotExtends
  <2>2. Made("not", x, 0, 0, MkNot(gates, x)) /\ Room
    BY <1>3 DEF Not
  <2>3. x \in Nat /\ "not" \in Kinds \ {"input"}
    BY <1>0 DEF Kinds
  <2> QED BY <2>1, <2>2, <2>3, MadeKeepsInv
<1>4. ASSUME NEW s \in DOMAIN gates, NEW t \in DOMAIN gates, NEW f \in DOMAIN gates, Mux(s, t, f)
      PROVE  GatesInv'
  <2>1. Good(inputs, MkMux(gates, s, t, f), Gate("mux", s, t, f)) /\ DOMAIN gates \subseteq DOMAIN MkMux(gates, s, t, f).gates
    BY <1>0, MuxGood, Extends
  <2>2. Made("mux", s, t, f, MkMux(gates, s, t, f)) /\ Room
    BY <1>4 DEF Mux
  <2>3. s \in Nat /\ t \in Nat /\ f \in Nat /\ "mux" \in Kinds \ {"input"}
    BY <1>0 DEF Kinds
  <2> QED BY <2>1, <2>2, <2>3, MadeKeepsInv
<1>5. ASSUME NEW x \in DOMAIN gates, Encode(x)
      PROVE  GatesInv'
  <2>1. /\ pc = "build" /\ pc' = "encode" /\ assertion' = x /\ gates' = gates /\ inputs' = inputs
        /\ call' = call /\ index' = index /\ clauses' = clauses
    BY <1>5 DEF Encode
  <2>2. index = 1 /\ clauses = {}
    BY <2>1 DEF GatesInv, EncodedInv
  <2>3. \A i \in DOMAIN gates : ~(i < 1)
    BY <1>0, ArenaFacts
  <2>4. EncodedInv' /\ EncodingExact'
    BY <2>1, <2>2, <2>3 DEF EncodedInv, EncodingExact, SatisfiesAll, CorrectBefore
  <2>5. TypeOK' /\ Arena(gates', inputs') /\ CallMeans'
    BY <2>1 DEF GatesInv, TypeOK, CallMeans
  <2> QED BY <2>4, <2>5 DEF GatesInv
<1>6. CASE EncodeGate
  BY <1>6, EncodeGateKeepsInv
<1>7. CASE Timeout
  <2>1. /\ pc' = "timeout" /\ assertion' = assertion /\ gates' = gates /\ inputs' = inputs
        /\ call' = call /\ index' = index /\ clauses' = clauses
    BY <1>7 DEF Timeout
  <2>2. TypeOK' /\ Arena(gates', inputs') /\ CallMeans'
    BY <2>1 DEF GatesInv, TypeOK, CallMeans
  <2> QED BY <2>1, <2>2 DEF GatesInv, EncodedInv, EncodingExact
<1>8. CASE EncodeDone
  BY <1>8, EncodeDoneKeepsInv
<1>9. CASE Over \/ UNCHANGED vars
  <2>1. /\ pc' = pc /\ assertion' = assertion /\ gates' = gates /\ inputs' = inputs
        /\ call' = call /\ index' = index /\ clauses' = clauses
    BY <1>9 DEF Over, vars
  <2> QED BY <2>1 DEF GatesInv, TypeOK, CallMeans, EncodedInv, EncodingExact
<1> QED BY <1>1, <1>2, <1>3, <1>4, <1>5, <1>6, <1>7, <1>8, <1>9 DEF Next

-----------------------------------------------------------------------------
\* The inductive invariant holds in every state, for arenas of every size.
THEOREM GatesSafe == Spec => []GatesInv
BY GatesInvInit, GatesInvStep, PTL DEF Spec

\* Type correctness of the arena and the encoder.
THEOREM GatesTypeCorrect == Spec => []TypeOK
<1>1. GatesInv => TypeOK
  BY DEF GatesInv
<1> QED BY <1>1, GatesSafe, PTL

\* add_raw's lookup keeps the arena free of duplicates.
THEOREM HashConsed == Spec => []NoDuplicates
<1>1. GatesInv => NoDuplicates
  BY DEF GatesInv, Arena, NoDuplicates
<1> QED BY <1>1, GatesSafe, PTL

\* The gate not, and, or, xor or mux returns computes what was asked for.
THEOREM FoldingIsSound == Spec => []CallMeans
<1>1. GatesInv => CallMeans
  BY DEF GatesInv
<1> QED BY <1>1, GatesSafe, PTL

\* The CNF of encode_with_limits has exactly the circuit's valuations as models.
THEOREM EncodingIsExact == Spec => []EncodingExact
<1>1. GatesInv => EncodingExact
  BY DEF GatesInv
<1> QED BY <1>1, GatesSafe, PTL

-----------------------------------------------------------------------------
(***************************************************************************)
(* Circuits (Circuits, Blast) against arithmetic (BinaryNumbers,           *)
(* BitVectors).                                                            *)
(***************************************************************************)

\* A set of numbers that has a member has a least one.
LEMMA LeastNumber ==
  ASSUME NEW T, T \subseteq Nat, NEW m \in T
  PROVE  \E n \in T : \A k \in T : n <= k
<1>1. PICK n \in T : \A k \in T : <<k, n>> \notin OpToRel(<, Nat)
  BY NatLessThanWellFounded, WFMin
<1>2. \A k \in T : ~ (k < n)
  BY <1>1 DEF OpToRel
<1> QED BY <1>2

\* A set that has 0 and, with a number below count, the next one, has count.
LEMMA Climb ==
  ASSUME NEW count \in Nat, NEW T, T \subseteq Nat, 0 \in T, \A m \in 1 .. count : m - 1 \in T => m \in T
  PROVE  count \in T
<1> DEFINE missing == {k \in 0 .. count : k \notin T}
<1>1. ASSUME NEW s \in missing
      PROVE  FALSE
  <2>1. PICK m \in missing : \A k \in missing : m <= k
    <3>1. missing \subseteq Nat
      OBVIOUS
    <3> HIDE DEF missing
    <3> QED BY <1>1, <3>1, LeastNumber
  <2>2. m \in 1 .. count /\ m - 1 \in 0 .. count /\ ~ (m <= m - 1)
    BY <2>1
  <2> QED BY <2>1, <2>2
<1> QED BY <1>1

\* Counting up by the same step, every number on the way is reached.
LEMMA ClimbAll ==
  ASSUME NEW count \in Nat, NEW T, T \subseteq Nat, 0 \in T, \A m \in 1 .. count : m - 1 \in T => m \in T
  PROVE  \A k \in 0 .. count : k \in T
<1> SUFFICES ASSUME NEW k \in 0 .. count
             PROVE  k \in T
  OBVIOUS
<1>1. k \in Nat /\ \A m \in 1 .. k : m - 1 \in T => m \in T
  OBVIOUS
<1> QED BY <1>1, Climb

\* The table of powers of two satisfies its own recursion.
LEMMA PowersAre ==
  ASSUME NEW n \in Nat
  PROVE  powers(n) =
           [k \in 0 .. n |-> IF k = 0 THEN 1 ELSE 2 * powers(n)[k - 1]]
<1> DEFINE Solves(f, m) == f = [k \in 0 .. m |-> IF k = 0 THEN 1 ELSE 2 * f[k - 1]]
           T == {m \in 0 .. n : \E f : Solves(f, m)}
<1>1. \E f : Solves(f, 0)
  <2>1. Solves([k \in 0 .. 0 |-> 1], 0)
    OBVIOUS
  <2> HIDE DEF Solves
  <2> QED BY <2>1
<1>2. ASSUME NEW m \in 1 .. n, NEW f, Solves(f, m - 1)
      PROVE  \E g : Solves(g, m)
  <2> DEFINE g == [k \in 0 .. m |-> IF k = m THEN 2 * f[m - 1] ELSE f[k]]
  <2>1. ASSUME NEW k \in 0 .. m
        PROVE  g[k] = IF k = 0 THEN 1 ELSE 2 * g[k - 1]
    BY <1>2
  <2>2. Solves(g, m)
    BY <2>1
  <2> HIDE DEF Solves
  <2> QED BY <2>2
<1> HIDE DEF Solves
<1>3. T \subseteq Nat /\ 0 \in T /\ \A m \in 1 .. n : m - 1 \in T => m \in T
  BY <1>1, <1>2
<1> HIDE DEF T
<1>4. n \in T
  BY <1>3, Climb
<1>5. \E f : Solves(f, n)
  BY <1>4 DEF T
<1> QED BY <1>5, Zenon DEF powers, Solves

\* So does the table of the numbers a prefix of the bits stands for,
LEMMA NumbersAre ==
  ASSUME NEW n \in Nat, NEW x
  PROVE  numbers(x, n) =
           [k \in 0 .. n |-> IF k = 0 THEN 0 ELSE IF x[k] THEN numbers(x, n)[k - 1] + TwoTo(k - 1)
                             ELSE numbers(x, n)[k - 1]]
<1> DEFINE Solves(f, m) == f = [k \in 0 .. m |-> IF k = 0 THEN 0 ELSE IF x[k] THEN f[k - 1] + TwoTo(k - 1)
                                                 ELSE f[k - 1]]
           T == {m \in 0 .. n : \E f : Solves(f, m)}
<1>1. \E f : Solves(f, 0)
  <2>1. Solves([k \in 0 .. 0 |-> 0], 0)
    OBVIOUS
  <2> HIDE DEF Solves
  <2> QED BY <2>1
<1>2. ASSUME NEW m \in 1 .. n, NEW f, Solves(f, m - 1)
      PROVE  \E g : Solves(g, m)
  <2> DEFINE g == [k \in 0 .. m |-> IF k = m THEN IF x[m] THEN f[m - 1] + TwoTo(m - 1) ELSE f[m - 1] ELSE f[k]]
  <2>1. ASSUME NEW k \in 0 .. m
        PROVE  g[k] = IF k = 0 THEN 0 ELSE IF x[k] THEN g[k - 1] + TwoTo(k - 1) ELSE g[k - 1]
    BY <1>2
  <2>2. Solves(g, m)
    BY <2>1
  <2> HIDE DEF Solves
  <2> QED BY <2>2
<1> HIDE DEF Solves
<1>3. T \subseteq Nat /\ 0 \in T /\ \A m \in 1 .. n : m - 1 \in T => m \in T
  BY <1>1, <1>2
<1> HIDE DEF T
<1>4. n \in T
  BY <1>3, Climb
<1>5. \E f : Solves(f, n)
  BY <1>4 DEF T
<1> QED BY <1>5, Zenon DEF numbers, Solves

\* the chain of carries of the adder (circuits.rs add_with_carry),
LEMMA CarriesAre ==
  ASSUME NEW n \in Nat, NEW a, NEW b, NEW carryIn
  PROVE  carries(a, b, carryIn, n) =
           [i \in 0 .. n |-> IF i = 0 THEN carryIn ELSE carry_bit(a[i], b[i], carries(a, b, carryIn, n)[i - 1])]
<1> DEFINE Solves(f, m) == f = [i \in 0 .. m |-> IF i = 0 THEN carryIn ELSE carry_bit(a[i], b[i], f[i - 1])]
           T == {m \in 0 .. n : \E f : Solves(f, m)}
<1>1. \E f : Solves(f, 0)
  <2>1. Solves([i \in 0 .. 0 |-> carryIn], 0)
    OBVIOUS
  <2> HIDE DEF Solves
  <2> QED BY <2>1
<1>2. ASSUME NEW m \in 1 .. n, NEW f, Solves(f, m - 1)
      PROVE  \E g : Solves(g, m)
  <2> DEFINE g == [i \in 0 .. m |-> IF i = m THEN carry_bit(a[m], b[m], f[m - 1]) ELSE f[i]]
  <2>1. ASSUME NEW i \in 0 .. m
        PROVE  g[i] = IF i = 0 THEN carryIn ELSE carry_bit(a[i], b[i], g[i - 1])
    BY <1>2
  <2>2. Solves(g, m)
    BY <2>1
  <2> HIDE DEF Solves
  <2> QED BY <2>2
<1> HIDE DEF Solves
<1>3. T \subseteq Nat /\ 0 \in T /\ \A m \in 1 .. n : m - 1 \in T => m \in T
  BY <1>1, <1>2
<1> HIDE DEF T
<1>4. n \in T
  BY <1>3, Climb
<1>5. \E f : Solves(f, n)
  BY <1>4 DEF T
<1> QED BY <1>5, Zenon DEF carries, Solves

\* the scan of ult from the top bit down (circuits.rs ult),
LEMMA ScanIs ==
  ASSUME NEW n \in Nat, NEW a, NEW b
  PROVE  ult_scan(a, b, n) =
           [k \in 0 .. n |-> IF k = 0 THEN [lt |-> FALSE, eq |-> TRUE]
                             ELSE ult_down(ult_scan(a, b, n)[k - 1], a, b, n + 1 - k)]
<1> DEFINE start == [lt |-> FALSE, eq |-> TRUE]
           Solves(f, m) == f = [k \in 0 .. m |-> IF k = 0 THEN start ELSE ult_down(f[k - 1], a, b, n + 1 - k)]
           T == {m \in 0 .. n : \E f : Solves(f, m)}
<1> HIDE DEF start
<1>1. \E f : Solves(f, 0)
  <2>1. Solves([k \in 0 .. 0 |-> start], 0)
    OBVIOUS
  <2> HIDE DEF Solves
  <2> QED BY <2>1
<1>2. ASSUME NEW m \in 1 .. n, NEW f, Solves(f, m - 1)
      PROVE  \E g : Solves(g, m)
  <2> DEFINE g == [k \in 0 .. m |-> IF k = m THEN ult_down(f[m - 1], a, b, n + 1 - m) ELSE f[k]]
  <2>1. ASSUME NEW k \in 0 .. m
        PROVE  g[k] = IF k = 0 THEN start ELSE ult_down(g[k - 1], a, b, n + 1 - k)
    BY <1>2
  <2>2. Solves(g, m)
    BY <2>1
  <2> HIDE DEF Solves
  <2> QED BY <2>2
<1> HIDE DEF Solves
<1>3. T \subseteq Nat /\ 0 \in T /\ \A m \in 1 .. n : m - 1 \in T => m \in T
  BY <1>1, <1>2
<1> HIDE DEF T
<1>4. n \in T
  BY <1>3, Climb
<1>5. \E f : Solves(f, n)
  BY <1>4 DEF T
<1> QED BY <1>5, Zenon DEF ult_scan, Solves, start

\* the restoring division (circuits.rs udiv_urem),
LEMMA DivideIs ==
  ASSUME NEW n \in Nat, NEW a, NEW b
  PROVE  divide_scan(a, b, n) =
           [k \in 0 .. n |-> IF k = 0 THEN [rem |-> Same_bits(n, FALSE), quo |-> Same_bits(n, FALSE)]
                             ELSE divide_down(divide_scan(a, b, n)[k - 1], a, b, n + 1 - k)]
<1> DEFINE start == [rem |-> Same_bits(n, FALSE), quo |-> Same_bits(n, FALSE)]
           Solves(f, m) == f = [k \in 0 .. m |-> IF k = 0 THEN start ELSE divide_down(f[k - 1], a, b, n + 1 - k)]
           T == {m \in 0 .. n : \E f : Solves(f, m)}
<1> HIDE DEF start
<1>1. \E f : Solves(f, 0)
  <2>1. Solves([k \in 0 .. 0 |-> start], 0)
    OBVIOUS
  <2> HIDE DEF Solves
  <2> QED BY <2>1
<1>2. ASSUME NEW m \in 1 .. n, NEW f, Solves(f, m - 1)
      PROVE  \E g : Solves(g, m)
  <2> DEFINE g == [k \in 0 .. m |-> IF k = m THEN divide_down(f[m - 1], a, b, n + 1 - m) ELSE f[k]]
  <2>1. ASSUME NEW k \in 0 .. m
        PROVE  g[k] = IF k = 0 THEN start ELSE divide_down(g[k - 1], a, b, n + 1 - k)
    BY <1>2
  <2>2. Solves(g, m)
    BY <2>1
  <2> HIDE DEF Solves
  <2> QED BY <2>2
<1> HIDE DEF Solves
<1>3. T \subseteq Nat /\ 0 \in T /\ \A m \in 1 .. n : m - 1 \in T => m \in T
  BY <1>1, <1>2
<1> HIDE DEF T
<1>4. n \in T
  BY <1>3, Climb
<1>5. \E f : Solves(f, n)
  BY <1>4 DEF T
<1> QED BY <1>5, Zenon DEF divide_scan, Solves, start

\* and the partial sums of mul_width (circuits.rs mul_width).
LEMMA SumsAre ==
  ASSUME NEW n \in Nat, NEW a, NEW b
  PROVE  partial_sums(a, b, n, n) =
           [j \in 0 .. n |-> IF j = 0 THEN Same_bits(n, FALSE)
                             ELSE add_partial(partial_sums(a, b, n, n)[j - 1], a, b, n, j)]
<1> DEFINE start == Same_bits(n, FALSE)
           Solves(f, m) == f = [j \in 0 .. m |-> IF j = 0 THEN start ELSE add_partial(f[j - 1], a, b, n, j)]
           T == {m \in 0 .. n : \E f : Solves(f, m)}
<1> HIDE DEF start
<1>1. \E f : Solves(f, 0)
  <2>1. Solves([j \in 0 .. 0 |-> start], 0)
    OBVIOUS
  <2> HIDE DEF Solves
  <2> QED BY <2>1
<1>2. ASSUME NEW m \in 1 .. n, NEW f, Solves(f, m - 1)
      PROVE  \E g : Solves(g, m)
  <2> DEFINE g == [j \in 0 .. m |-> IF j = m THEN add_partial(f[m - 1], a, b, n, m) ELSE f[j]]
  <2>1. ASSUME NEW j \in 0 .. m
        PROVE  g[j] = IF j = 0 THEN start ELSE add_partial(g[j - 1], a, b, n, j)
    BY <1>2
  <2>2. Solves(g, m)
    BY <2>1
  <2> HIDE DEF Solves
  <2> QED BY <2>2
<1> HIDE DEF Solves
<1>3. T \subseteq Nat /\ 0 \in T /\ \A m \in 1 .. n : m - 1 \in T => m \in T
  BY <1>1, <1>2
<1> HIDE DEF T
<1>4. n \in T
  BY <1>3, Climb
<1>5. \E f : Solves(f, n)
  BY <1>4 DEF T
<1> QED BY <1>5, Zenon DEF partial_sums, Solves, start

\* Bit-vectors of width n, least significant bit first.
Bits(n) == [1 .. n -> BOOLEAN]

\* A vector of n bits has n places.
LEMMA BitsLen ==
  ASSUME NEW n \in Nat, NEW x \in Bits(n)
  PROVE  Len(x) = n /\ DOMAIN x = 1 .. n
BY DEF Bits

\* A longer table of powers agrees with a shorter one.
LEMMA PowersAgree ==
  ASSUME NEW m \in Nat, NEW n \in Nat, m <= n
  PROVE  \A k \in 0 .. m : powers(m)[k] = powers(n)[k]
<1> DEFINE T == {k \in 0 .. m : powers(m)[k] = powers(n)[k]}
<1>1. /\ powers(m) = [k \in 0 .. m |-> IF k = 0 THEN 1 ELSE 2 * powers(m)[k - 1]]
      /\ powers(n) = [k \in 0 .. n |-> IF k = 0 THEN 1 ELSE 2 * powers(n)[k - 1]]
  BY PowersAre
<1>2. 0 \in T
  BY <1>1
<1>3. ASSUME NEW k \in 1 .. m, k - 1 \in T
      PROVE  k \in T
  <2>1. powers(m)[k] = 2 * powers(m)[k - 1] /\ powers(n)[k] = 2 * powers(n)[k - 1]
    BY <1>1
  <2> QED BY <1>3, <2>1
<1>4. \A k \in 0 .. m : k \in T
  <2>1. T \subseteq Nat
    OBVIOUS
  <2> HIDE DEF T
  <2> QED BY <1>2, <1>3, <2>1, ClimbAll
<1> QED BY <1>4

\* TwoTo is the power of two: 1, and doubled at every step.
LEMMA TwoToIs ==
  /\ TwoTo(0) = 1
  /\ \A n \in Nat : TwoTo(n + 1) = 2 * TwoTo(n)
  /\ \A n \in Nat : TwoTo(n) \in Nat /\ TwoTo(n) >= 1
<1>1. TwoTo(0) = 1
  BY PowersAre DEF TwoTo
<1>2. ASSUME NEW n \in Nat
      PROVE  TwoTo(n + 1) = 2 * TwoTo(n)
  <2>1. powers(n + 1) = [k \in 0 .. n + 1 |-> IF k = 0 THEN 1 ELSE 2 * powers(n + 1)[k - 1]]
    BY PowersAre
  <2>2. powers(n + 1)[n + 1] = 2 * powers(n + 1)[n]
    BY <2>1
  <2>3. powers(n)[n] = powers(n + 1)[n]
    BY PowersAgree
  <2> QED BY <2>2, <2>3 DEF TwoTo
<1>3. ASSUME NEW n \in Nat
      PROVE  TwoTo(n) \in Nat /\ TwoTo(n) >= 1
  <2> DEFINE T == {k \in 0 .. n : TwoTo(k) \in Nat /\ TwoTo(k) >= 1}
  <2>1. 0 \in T
    BY <1>1
  <2>2. ASSUME NEW k \in 1 .. n, k - 1 \in T
        PROVE  k \in T
    <3>1. k - 1 \in Nat /\ (k - 1) + 1 = k
      OBVIOUS
    <3>2. TwoTo(k) = 2 * TwoTo(k - 1)
      BY <1>2, <3>1
    <3> QED BY <2>2, <3>2
  <2>3. T \subseteq Nat
    OBVIOUS
  <2> HIDE DEF T
  <2>4. n \in T
    BY <2>1, <2>2, <2>3, Climb
  <2> QED BY <2>4 DEF T
<1> QED BY <1>1, <1>2, <1>3

\* The same, stepping down from a place of a vector.
LEMMA TwoToStep ==
  ASSUME NEW n \in Nat, NEW k \in 1 .. n
  PROVE  TwoTo(k) = 2 * TwoTo(k - 1) /\ TwoTo(k - 1) \in Nat /\ TwoTo(k - 1) >= 1
<1>1. k - 1 \in Nat /\ (k - 1) + 1 = k
  OBVIOUS
<1> QED BY <1>1, TwoToIs

\* A prefix longer by one bit is worth that bit more.
LEMMA NumbersStep ==
  ASSUME NEW n \in Nat, NEW x
  PROVE  /\ numbers(x, n)[0] = 0
         /\ \A k \in 1 .. n : numbers(x, n)[k] = IF x[k] THEN numbers(x, n)[k - 1] + TwoTo(k - 1)
                                                 ELSE numbers(x, n)[k - 1]
<1>1. numbers(x, n) = [k \in 0 .. n |-> IF k = 0 THEN 0 ELSE IF x[k] THEN numbers(x, n)[k - 1] + TwoTo(k - 1)
                                        ELSE numbers(x, n)[k - 1]]
  BY NumbersAre
<1> QED BY <1>1

\* k bits make a number below 2^k.
LEMMA NumbersRange ==
  ASSUME NEW n \in Nat, NEW x \in Bits(n)
  PROVE  \A k \in 0 .. n : numbers(x, n)[k] \in Nat /\ numbers(x, n)[k] < TwoTo(k)
<1> DEFINE v == numbers(x, n)
           T == {k \in 0 .. n : v[k] \in Nat /\ v[k] < TwoTo(k)}
<1>1. 0 \in T
  BY NumbersStep, TwoToIs
<1>2. ASSUME NEW k \in 1 .. n, k - 1 \in T
      PROVE  k \in T
  <2>1. TwoTo(k) = 2 * TwoTo(k - 1) /\ TwoTo(k - 1) \in Nat
    BY TwoToStep
  <2>2. v[k] = IF x[k] THEN v[k - 1] + TwoTo(k - 1) ELSE v[k - 1]
    BY NumbersStep
  <2> HIDE DEF v
  <2> QED BY <1>2, <2>1, <2>2
<1>3. \A k \in 0 .. n : k \in T
  <2>1. T \subseteq Nat
    OBVIOUS
  <2> HIDE DEF T
  <2> QED BY <1>1, <1>2, <2>1, ClimbAll
<1> QED BY <1>3

\* A vector of n bits stands for a number below TwoTo(n).
LEMMA NumberRange ==
  ASSUME NEW n \in Nat, NEW x \in Bits(n)
  PROVE  Number(x) = numbers(x, n)[n] /\ Number(x) \in Nat /\ Number(x) < TwoTo(n)
<1>1. Number(x) = numbers(x, n)[n]
  BY BitsLen DEF Number
<1>2. n \in 0 .. n
  OBVIOUS
<1> QED BY <1>1, <1>2, NumbersRange

\* The value of a bit of weight w.
Worth(p, w) == IF p THEN w ELSE 0

\* The step of NumbersStep, written as a sum.
LEMMA NumbersWorth ==
  ASSUME NEW n \in Nat, NEW x \in Bits(n), NEW k \in 1 .. n
  PROVE  /\ numbers(x, n)[k] = numbers(x, n)[k - 1] + Worth(x[k], TwoTo(k - 1))
         /\ numbers(x, n)[k] \in Nat /\ numbers(x, n)[k - 1] \in Nat /\ x[k] \in BOOLEAN
<1>1. k \in 0 .. n /\ k - 1 \in 0 .. n
  OBVIOUS
<1>2. numbers(x, n)[k] \in Nat /\ numbers(x, n)[k - 1] \in Nat
  BY <1>1, NumbersRange
<1>3. numbers(x, n)[k] = IF x[k] THEN numbers(x, n)[k - 1] + TwoTo(k - 1) ELSE numbers(x, n)[k - 1]
  BY NumbersStep
<1>4. x[k] \in BOOLEAN
  BY DEF Bits
<1>5. TwoTo(k - 1) \in Nat
  BY TwoToStep
<1> QED BY <1>2, <1>3, <1>4, <1>5 DEF Worth

\* The full adder.
LEMMA AdderBit ==
  ASSUME NEW x \in BOOLEAN, NEW y \in BOOLEAN, NEW c \in BOOLEAN, NEW w \in Nat
  PROVE  /\ carry_bit(x, y, c) \in BOOLEAN
         /\ ((x # y) # c) \in BOOLEAN
         /\ Worth((x # y) # c, w) + Worth(carry_bit(x, y, c), 2 * w) = Worth(x, w) + Worth(y, w) + Worth(c, w)
BY DEF carry_bit, Worth

\* The carries of the adder are Booleans, each made from the one below.
LEMMA CarryBits ==
  ASSUME NEW n \in Nat, NEW a \in Bits(n), NEW b \in Bits(n), NEW c \in BOOLEAN
  PROVE  /\ carries(a, b, c, n)[0] = c
         /\ \A k \in 0 .. n : carries(a, b, c, n)[k] \in BOOLEAN
         /\ \A k \in 1 .. n : carries(a, b, c, n)[k] = carry_bit(a[k], b[k], carries(a, b, c, n)[k - 1])
<1> DEFINE carry == carries(a, b, c, n)
           T == {k \in 0 .. n : carry[k] \in BOOLEAN}
<1>1. carry = [i \in 0 .. n |-> IF i = 0 THEN c ELSE carry_bit(a[i], b[i], carry[i - 1])]
  BY CarriesAre
<1> HIDE DEF carry
<1>2. carry[0] = c /\ \A k \in 1 .. n : carry[k] = carry_bit(a[k], b[k], carry[k - 1])
  BY <1>1
<1>3. 0 \in T
  BY <1>2
<1>4. ASSUME NEW k \in 1 .. n, k - 1 \in T
      PROVE  k \in T
  <2>1. a[k] \in BOOLEAN /\ b[k] \in BOOLEAN /\ carry[k - 1] \in BOOLEAN
    BY <1>4 DEF Bits
  <2>2. carry[k] \in BOOLEAN
    BY <1>2, <2>1 DEF carry_bit
  <2> QED BY <2>2
<1>5. \A k \in 0 .. n : k \in T
  <2>1. T \subseteq Nat
    OBVIOUS
  <2> HIDE DEF T
  <2> QED BY <1>3, <1>4, <2>1, ClimbAll
<1> QED BY <1>2, <1>5 DEF carry

\* The adder is exact, of every width: the sum with the carry on top is the sum
\* of the numbers (circuits.rs add_with_carry).
THEOREM AdderExact ==
  ASSUME NEW n \in Nat, NEW a \in Bits(n), NEW b \in Bits(n), NEW c \in BOOLEAN
  PROVE  LET r == add_with_carry(a, b, c)
         IN  /\ r.sum \in Bits(n) /\ r.carry \in BOOLEAN
             /\ Number(r.sum) + Worth(r.carry, TwoTo(n)) = Number(a) + Number(b) + Worth(c, 1)
<1> DEFINE carry == carries(a, b, c, n)
           sum == [i \in 1 .. n |-> (a[i] # b[i]) # carry[i - 1]]
           va == numbers(a, n)
           vb == numbers(b, n)
           vs == numbers(sum, n)
           T == {k \in 0 .. n : vs[k] + Worth(carry[k], TwoTo(k)) = va[k] + vb[k] + Worth(c, 1)}
<1>1. add_with_carry(a, b, c).sum = sum /\ add_with_carry(a, b, c).carry = carry[n]
  BY BitsLen DEF add_with_carry
<1>2. /\ carry[0] = c
      /\ \A k \in 0 .. n : carry[k] \in BOOLEAN
      /\ \A k \in 1 .. n : carry[k] = carry_bit(a[k], b[k], carry[k - 1])
  BY CarryBits
<1> HIDE DEF carry
<1>3. sum \in Bits(n)
  BY <1>2 DEF Bits
<1>4. \A k \in 1 .. n : sum[k] = ((a[k] # b[k]) # carry[k - 1])
  OBVIOUS
<1> HIDE DEF sum
<1>5. 0 \in T
  <2>1. vs[0] = 0 /\ va[0] = 0 /\ vb[0] = 0
    BY NumbersStep
  <2> QED BY <1>2, <2>1, TwoToIs DEF Worth
<1>6. ASSUME NEW k \in 1 .. n, k - 1 \in T
      PROVE  k \in T
  <2> DEFINE w == TwoTo(k - 1)
  <2>1. w \in Nat /\ TwoTo(k) = 2 * w
    BY TwoToStep
  <2>2. /\ va[k] = va[k - 1] + Worth(a[k], w) /\ va[k - 1] \in Nat /\ a[k] \in BOOLEAN
        /\ vb[k] = vb[k - 1] + Worth(b[k], w) /\ vb[k - 1] \in Nat /\ b[k] \in BOOLEAN
        /\ vs[k] = vs[k - 1] + Worth(sum[k], w) /\ vs[k - 1] \in Nat /\ sum[k] \in BOOLEAN
    BY <1>3, NumbersWorth
  <2>3. k - 1 \in 0 .. n /\ carry[k - 1] \in BOOLEAN
    BY <1>2
  <2>4. vs[k - 1] + Worth(carry[k - 1], w) = va[k - 1] + vb[k - 1] + Worth(c, 1)
    BY <1>6
  <2> HIDE DEF w, va, vb, vs
  <2>5. Worth(sum[k], w) + Worth(carry[k], 2 * w) = Worth(a[k], w) + Worth(b[k], w) + Worth(carry[k - 1], w)
    BY <1>2, <1>4, <2>1, <2>2, <2>3, AdderBit
  <2>6. /\ Worth(sum[k], w) \in Nat /\ Worth(carry[k], 2 * w) \in Nat /\ Worth(a[k], w) \in Nat
        /\ Worth(b[k], w) \in Nat /\ Worth(carry[k - 1], w) \in Nat /\ Worth(c, 1) \in Nat
    BY <2>1 DEF Worth
  <2>7. vs[k] + Worth(carry[k], 2 * w) = va[k] + vb[k] + Worth(c, 1)
    BY <2>2, <2>4, <2>5, <2>6
  <2> QED BY <2>1, <2>7
<1>7. \A k \in 0 .. n : k \in T
  <2>1. T \subseteq Nat
    OBVIOUS
  <2> HIDE DEF T
  <2> QED BY <1>5, <1>6, <2>1, ClimbAll
<1>8. n \in 0 .. n
  OBVIOUS
<1>9. Number(sum) = vs[n] /\ Number(a) = va[n] /\ Number(b) = vb[n]
  BY <1>3, NumberRange
<1> QED BY <1>1, <1>2, <1>3, <1>7, <1>8, <1>9

\* Taking a number within one modulus of the range modulo m.
LEMMA ModBelow ==
  ASSUME NEW m \in Nat, m > 0, NEW x \in Int
  PROVE  /\ 0 <= x /\ x < m => x % m = x
         /\ m <= x /\ x < 2 * m => x % m = x - m
         /\ -m <= x /\ x < 0 => x % m = x + m
OBVIOUS

\* A sum whose carry is dropped is the sum modulo the width, and the carry says that it wrapped.
LEMMA SumWraps ==
  ASSUME NEW w \in Nat, w > 0, NEW x \in 0 .. w - 1, NEW y \in 0 .. w - 1, NEW s \in 0 .. w - 1, NEW c \in {0, w},
         s + c = x + y
  PROVE  s = (x + y) % w /\ (c = w <=> x + y >= w)
<1>1. CASE c = 0
  BY <1>1, ModBelow
<1>2. CASE c = w
  BY <1>2, ModBelow
<1> QED BY <1>1, <1>2

\* A difference computed as x + ~y + 1 is the difference modulo the width.
LEMMA DifferenceWraps ==
  ASSUME NEW w \in Nat, w > 0, NEW x \in 0 .. w - 1, NEW y \in 0 .. w - 1, NEW s \in 0 .. w - 1, NEW c \in {0, w},
         s + c = x + (w - 1 - y) + 1
  PROVE  s = (x - y) % w
<1>1. CASE c = 0
  BY <1>1, ModBelow
<1>2. CASE c = w
  BY <1>2, ModBelow
<1> QED BY <1>1, <1>2

\* All zeros stand for 0, all ones for the largest number.
LEMMA SameNumber ==
  ASSUME NEW n \in Nat
  PROVE  /\ Same_bits(n, FALSE) \in Bits(n) /\ Number(Same_bits(n, FALSE)) = 0
         /\ Same_bits(n, TRUE) \in Bits(n) /\ Number(Same_bits(n, TRUE)) = TwoTo(n) - 1
<1> DEFINE no == Same_bits(n, FALSE)
           yes == Same_bits(n, TRUE)
           T == {k \in 0 .. n : numbers(no, n)[k] = 0 /\ numbers(yes, n)[k] = TwoTo(k) - 1}
<1>1. no \in Bits(n) /\ yes \in Bits(n) /\ \A k \in 1 .. n : ~ no[k] /\ yes[k]
  BY DEF Same_bits, Bits
<1> HIDE DEF no, yes
<1>2. 0 \in T
  BY NumbersStep, TwoToIs
<1>3. ASSUME NEW k \in 1 .. n, k - 1 \in T
      PROVE  k \in T
  <2>1. TwoTo(k) = 2 * TwoTo(k - 1) /\ TwoTo(k - 1) \in Nat
    BY TwoToStep
  <2>2. numbers(no, n)[k] = numbers(no, n)[k - 1] /\ numbers(yes, n)[k] = numbers(yes, n)[k - 1] + TwoTo(k - 1)
    BY <1>1, NumbersStep
  <2> QED BY <1>3, <2>1, <2>2
<1>4. \A k \in 0 .. n : k \in T
  <2>1. T \subseteq Nat
    OBVIOUS
  <2> HIDE DEF T
  <2> QED BY <1>2, <1>3, <2>1, ClimbAll
<1>5. n \in 0 .. n /\ Number(no) = numbers(no, n)[n] /\ Number(yes) = numbers(yes, n)[n]
  BY <1>1, NumberRange
<1>6. Number(no) = 0 /\ Number(yes) = TwoTo(n) - 1
  BY <1>4, <1>5
<1> QED BY <1>1, <1>6 DEF no, yes

\* The complement of a vector stands for the largest number less its number.
LEMMA NotNumber ==
  ASSUME NEW n \in Nat, NEW x \in Bits(n)
  PROVE  bitwise_not(x) \in Bits(n) /\ Number(bitwise_not(x)) = TwoTo(n) - 1 - Number(x)
<1> DEFINE y == bitwise_not(x)
           T == {k \in 0 .. n : numbers(y, n)[k] = TwoTo(k) - 1 - numbers(x, n)[k]}
<1>1. y \in Bits(n) /\ \A k \in 1 .. n : y[k] = ~ x[k]
  BY BitsLen DEF bitwise_not, Bits
<1> HIDE DEF y
<1>2. 0 \in T
  BY NumbersStep, TwoToIs
<1>3. ASSUME NEW k \in 1 .. n, k - 1 \in T
      PROVE  k \in T
  <2>1. TwoTo(k) = 2 * TwoTo(k - 1) /\ TwoTo(k - 1) \in Nat
    BY TwoToStep
  <2>2. /\ numbers(x, n)[k] = numbers(x, n)[k - 1] + Worth(x[k], TwoTo(k - 1))
        /\ numbers(y, n)[k] = numbers(y, n)[k - 1] + Worth(y[k], TwoTo(k - 1))
        /\ numbers(x, n)[k - 1] \in Nat /\ x[k] \in BOOLEAN
    BY <1>1, NumbersWorth
  <2>3. Worth(x[k], TwoTo(k - 1)) + Worth(y[k], TwoTo(k - 1)) = TwoTo(k - 1)
        /\ Worth(x[k], TwoTo(k - 1)) \in Nat /\ Worth(y[k], TwoTo(k - 1)) \in Nat
    <3>1. (x[k] /\ ~ y[k]) \/ (~ x[k] /\ y[k])
      BY <1>1, <2>2
    <3> HIDE DEF T
    <3>2. CASE x[k] /\ ~ y[k]
      BY <2>1, <3>2 DEF Worth
    <3>3. CASE ~ x[k] /\ y[k]
      BY <2>1, <3>3 DEF Worth
    <3> QED BY <3>1, <3>2, <3>3
  <2> QED BY <1>3, <2>1, <2>2, <2>3
<1>4. \A k \in 0 .. n : k \in T
  <2>1. T \subseteq Nat
    OBVIOUS
  <2> HIDE DEF T
  <2> QED BY <1>2, <1>3, <2>1, ClimbAll
<1>5. n \in 0 .. n /\ Number(x) = numbers(x, n)[n] /\ Number(y) = numbers(y, n)[n]
  BY <1>1, NumberRange
<1>6. Number(y) = TwoTo(n) - 1 - Number(x)
  BY <1>4, <1>5
<1> QED BY <1>1, <1>6 DEF y

\* The adder as it is used, without and with a carry.
LEMMA AdderUsed ==
  ASSUME NEW n \in Nat, NEW a \in Bits(n), NEW b \in Bits(n)
  PROVE  /\ \E r : /\ r = add_with_carry(a, b, FALSE) /\ r.sum \in Bits(n) /\ r.carry \in BOOLEAN
                   /\ Number(r.sum) + Worth(r.carry, TwoTo(n)) = Number(a) + Number(b)
         /\ \E r : /\ r = add_with_carry(a, b, TRUE) /\ r.sum \in Bits(n) /\ r.carry \in BOOLEAN
                   /\ Number(r.sum) + Worth(r.carry, TwoTo(n)) = Number(a) + Number(b) + 1
<1>1. ASSUME NEW c \in BOOLEAN
      PROVE  \E r : /\ r = add_with_carry(a, b, c) /\ r.sum \in Bits(n) /\ r.carry \in BOOLEAN
                    /\ Number(r.sum) + Worth(r.carry, TwoTo(n)) = Number(a) + Number(b) + Worth(c, 1)
  BY AdderExact
<1>2. Number(a) \in Nat /\ Number(b) \in Nat
  BY NumberRange
<1>3. Worth(FALSE, 1) = 0 /\ Worth(TRUE, 1) = 1
  BY DEF Worth
<1>4. \E r : /\ r = add_with_carry(a, b, FALSE) /\ r.sum \in Bits(n) /\ r.carry \in BOOLEAN
             /\ Number(r.sum) + Worth(r.carry, TwoTo(n)) = Number(a) + Number(b) + 0
  BY <1>1, <1>3, Zenon
<1>5. \E r : /\ r = add_with_carry(a, b, TRUE) /\ r.sum \in Bits(n) /\ r.carry \in BOOLEAN
             /\ Number(r.sum) + Worth(r.carry, TwoTo(n)) = Number(a) + Number(b) + 1
  BY <1>1, <1>3, Zenon
<1>6. Number(a) + Number(b) + 0 = Number(a) + Number(b)
  BY <1>2
<1> QED BY <1>4, <1>5, <1>6

\* Sum and difference modulo 2^n, and the overflow bit, of every width.
THEOREM SumsExact ==
  ASSUME NEW n \in Nat, NEW a \in Bits(n), NEW b \in Bits(n)
  PROVE  /\ add_bits(a, b) \in Bits(n) /\ Number(add_bits(a, b)) = (Number(a) + Number(b)) % TwoTo(n)
         /\ sub_bits(a, b) \in Bits(n) /\ Number(sub_bits(a, b)) = (Number(a) - Number(b)) % TwoTo(n)
         /\ neg_bits(b) \in Bits(n) /\ Number(neg_bits(b)) = (- Number(b)) % TwoTo(n)
         /\ uadd_overflow(a, b) <=> Number(a) + Number(b) >= TwoTo(n)
<1> DEFINE w == TwoTo(n)
<1>1. w \in Nat /\ w > 0 /\ \A x \in Bits(n) : Number(x) \in 0 .. w - 1
  BY NumberRange, TwoToIs
<1>2. PICK r : /\ r = add_with_carry(a, b, FALSE) /\ r.sum \in Bits(n) /\ r.carry \in BOOLEAN
               /\ Number(r.sum) + Worth(r.carry, w) = Number(a) + Number(b)
  BY AdderUsed
<1>3. ASSUME NEW x \in Bits(n), NEW y \in Bits(n)
      PROVE  sub_bits(x, y) \in Bits(n) /\ Number(sub_bits(x, y)) = (Number(x) - Number(y)) % w
  <2>1. PICK z : z = bitwise_not(y) /\ z \in Bits(n) /\ Number(z) = w - 1 - Number(y)
    BY NotNumber
  <2>2. PICK s : /\ s = add_with_carry(x, z, TRUE) /\ s.sum \in Bits(n) /\ s.carry \in BOOLEAN
                 /\ Number(s.sum) + Worth(s.carry, w) = Number(x) + Number(z) + 1
    BY <2>1, AdderUsed
  <2>3. sub_bits(x, y) = s.sum
    BY <2>1, <2>2 DEF sub_bits
  <2> HIDE DEF w
  <2>4. Worth(s.carry, w) \in {0, w}
    BY DEF Worth
  <2>5. Number(s.sum) \in 0 .. w - 1 /\ Number(x) \in 0 .. w - 1 /\ Number(y) \in 0 .. w - 1
    BY <1>1, <2>2
  <2>6. Number(s.sum) + Worth(s.carry, w) = Number(x) + (w - 1 - Number(y)) + 1
    BY <2>1, <2>2
  <2>7. Number(s.sum) = (Number(x) - Number(y)) % w
    BY <1>1, <2>4, <2>5, <2>6, DifferenceWraps
  <2> QED BY <2>2, <2>3, <2>7
<1>4. add_bits(a, b) = r.sum /\ uadd_overflow(a, b) = r.carry
  BY <1>2 DEF add_bits, uadd_overflow
<1> HIDE DEF w
<1>5. r.sum \in Bits(n) /\ r.carry \in BOOLEAN /\ Number(r.sum) + Worth(r.carry, w) = Number(a) + Number(b)
  BY <1>2, Zenon
<1>6. Number(r.sum) \in 0 .. w - 1 /\ Number(a) \in 0 .. w - 1 /\ Number(b) \in 0 .. w - 1
  BY <1>1, <1>5
<1>7. /\ Number(r.sum) = (Number(a) + Number(b)) % w
      /\ r.carry <=> Number(a) + Number(b) >= w
  <2>1. Worth(r.carry, w) \in {0, w} /\ (r.carry <=> Worth(r.carry, w) = w)
    BY <1>1, <1>5 DEF Worth
  <2>2. Number(r.sum) = (Number(a) + Number(b)) % w /\ (Worth(r.carry, w) = w <=> Number(a) + Number(b) >= w)
    BY <1>1, <1>5, <1>6, <2>1, SumWraps
  <2> QED BY <2>1, <2>2
<1>8. neg_bits(b) \in Bits(n) /\ Number(neg_bits(b)) = (- Number(b)) % w
  <2>1. PICK z : z = Same_bits(n, FALSE) /\ z \in Bits(n) /\ Number(z) = 0
    BY SameNumber
  <2>2. neg_bits(b) = sub_bits(z, b)
    BY <2>1, BitsLen DEF neg_bits
  <2>3. sub_bits(z, b) \in Bits(n) /\ Number(sub_bits(z, b)) = (0 - Number(b)) % w
    BY <1>3, <2>1
  <2>4. 0 - Number(b) = - Number(b)
    BY <1>6
  <2> QED BY <2>2, <2>3, <2>4
<1> QED BY <1>3, <1>4, <1>5, <1>7, <1>8 DEF w

\* One step of the scan of ult: the next bit decides while the higher ones are equal.
LEMMA UltScan ==
  ASSUME NEW n \in Nat, NEW a \in Bits(n), NEW b \in Bits(n)
  PROVE  /\ ~ ult_scan(a, b, n)[0].lt /\ ult_scan(a, b, n)[0].eq
         /\ \A k \in 1 .. n :
              LET x == a[n + 1 - k]
                  y == b[n + 1 - k]
                  old == ult_scan(a, b, n)[k - 1]
                  new == ult_scan(a, b, n)[k]
              IN  /\ new.lt <=> old.lt \/ (old.eq /\ ~ x /\ y)
                  /\ new.eq <=> old.eq /\ (x <=> y)
<1> DEFINE scan == ult_scan(a, b, n)
           start == [lt |-> FALSE, eq |-> TRUE]
<1>1. scan = [k \in 0 .. n |-> IF k = 0 THEN start ELSE ult_down(scan[k - 1], a, b, n + 1 - k)]
  BY ScanIs, Zenon
<1>2. ~ start.lt /\ start.eq
  BY Zenon
<1> HIDE DEF scan, start
<1>3. scan[0] = start /\ \A k \in 1 .. n : scan[k] = ult_down(scan[k - 1], a, b, n + 1 - k)
  BY <1>1
<1>4. ASSUME NEW k \in 1 .. n
      PROVE  LET x == a[n + 1 - k]
                 y == b[n + 1 - k]
             IN  /\ scan[k].lt <=> scan[k - 1].lt \/ (scan[k - 1].eq /\ ~ x /\ y)
                 /\ scan[k].eq <=> scan[k - 1].eq /\ (x <=> y)
  <2> DEFINE x == a[n + 1 - k]
             y == b[n + 1 - k]
  <2>1. x \in BOOLEAN /\ y \in BOOLEAN
    BY DEF Bits
  <2>2. scan[k] = [lt |-> scan[k - 1].lt \/ (scan[k - 1].eq /\ ~ x /\ y), eq |-> scan[k - 1].eq /\ (x = y)]
    BY <1>3 DEF ult_down, ult_bit
  <2> HIDE DEF x, y
  <2>3. /\ scan[k].lt <=> scan[k - 1].lt \/ (scan[k - 1].eq /\ ~ x /\ y)
        /\ scan[k].eq <=> scan[k - 1].eq /\ (x = y)
    <3> DEFINE p == scan[k - 1].lt \/ (scan[k - 1].eq /\ ~ x /\ y)
               q == scan[k - 1].eq /\ (x = y)
    <3>1. p \in BOOLEAN /\ q \in BOOLEAN
      BY Zenon
    <3>2. scan[k] = [lt |-> p, eq |-> q]
      BY <2>2
    <3> HIDE DEF p, q
    <3>3. scan[k].lt = p /\ scan[k].eq = q
      BY <3>2
    <3>4. (scan[k].lt <=> p) /\ (scan[k].eq <=> q)
      BY <3>1, <3>3
    <3> QED BY <3>4 DEF p, q
  <2> QED BY <2>1, <2>3, Zenon DEF x, y
<1> QED BY <1>2, <1>3, <1>4 DEF scan

\* Comparing two numbers by their top bit first.
LEMMA TopBit ==
  ASSUME NEW w \in Nat, NEW u \in Nat, NEW v \in Nat, u < w, v < w, NEW x \in BOOLEAN, NEW y \in BOOLEAN
  PROVE  (u + Worth(x, w) < v + Worth(y, w)) <=> (~ x /\ y) \/ ((x <=> y) /\ u < v)
BY DEF Worth

\* The comparator of circuits.rs (ult) orders vectors as their numbers.
THEOREM UltExact ==
  ASSUME NEW n \in Nat, NEW a \in Bits(n), NEW b \in Bits(n)
  PROVE  ult(a, b) <=> Number(a) < Number(b)
<1> DEFINE scan == ult_scan(a, b, n)
           va == numbers(a, n)
           vb == numbers(b, n)
           Less(k) == scan[k].lt \/ (scan[k].eq /\ va[n - k] < vb[n - k])
           T == {k \in 0 .. n : Less(k) <=> va[n] < vb[n]}
<1>1. /\ ~ scan[0].lt /\ scan[0].eq
      /\ \A k \in 1 .. n :
              LET x == a[n + 1 - k]
                  y == b[n + 1 - k]
              IN  /\ scan[k].lt <=> scan[k - 1].lt \/ (scan[k - 1].eq /\ ~ x /\ y)
                  /\ scan[k].eq <=> scan[k - 1].eq /\ (x <=> y)
  BY UltScan
<1>2. \A i \in 0 .. n : va[i] \in Nat /\ vb[i] \in Nat /\ va[i] < TwoTo(i) /\ vb[i] < TwoTo(i) /\ TwoTo(i) \in Nat
  BY NumbersRange, TwoToIs
<1> HIDE DEF scan
<1>3. 0 \in T
  <2>1. n - 0 = n
    OBVIOUS
  <2> HIDE DEF va, vb
  <2>2. Less(0) <=> va[n] < vb[n]
    BY <1>1, <2>1
  <2> QED BY <2>2
<1>4. ASSUME NEW k \in 1 .. n, k - 1 \in T
      PROVE  k \in T
  <2> DEFINE i == n + 1 - k
             w == TwoTo(i - 1)
             x == a[i]
             y == b[i]
  <2>1. i \in 1 .. n /\ i - 1 \in 0 .. n /\ n - k = i - 1 /\ n - (k - 1) = i
    OBVIOUS
  <2>2. /\ va[i] = va[i - 1] + Worth(x, w) /\ x \in BOOLEAN
        /\ vb[i] = vb[i - 1] + Worth(y, w) /\ y \in BOOLEAN
    BY <2>1, NumbersWorth
  <2>3. w \in Nat /\ va[i - 1] \in Nat /\ vb[i - 1] \in Nat /\ va[i - 1] < w /\ vb[i - 1] < w
    BY <1>2, <2>1
  <2>4. /\ scan[k].lt <=> scan[k - 1].lt \/ (scan[k - 1].eq /\ ~ x /\ y)
        /\ scan[k].eq <=> scan[k - 1].eq /\ (x <=> y)
    BY <1>1
  <2>5. (scan[k - 1].lt \/ (scan[k - 1].eq /\ va[i] < vb[i])) <=> va[n] < vb[n]
    BY <1>4, <2>1
  <2> HIDE DEF i, w, x, y, va, vb
  <2>6. (va[i] < vb[i]) <=> (~ x /\ y) \/ ((x <=> y) /\ va[i - 1] < vb[i - 1])
    BY <2>2, <2>3, TopBit
  <2>7. (scan[k].lt \/ (scan[k].eq /\ va[i - 1] < vb[i - 1])) <=> va[n] < vb[n]
    BY <2>4, <2>5, <2>6, Zenon
  <2> QED BY <2>1, <2>7
<1>5. \A k \in 0 .. n : k \in T
  <2>1. T \subseteq Nat
    OBVIOUS
  <2> HIDE DEF T
  <2> QED BY <1>3, <1>4, <2>1, ClimbAll
<1>6. Less(n) <=> va[n] < vb[n]
  BY <1>5
<1>7. n - n = 0 /\ va[0] = 0 /\ vb[0] = 0
  BY NumbersStep
<1>8. ult(a, b) = scan[n].lt /\ Number(a) = va[n] /\ Number(b) = vb[n]
  BY BitsLen, NumberRange DEF ult, scan
<1> QED BY <1>6, <1>7, <1>8

\* A number has one representation of width n.
LEMMA NumberOneToOne ==
  ASSUME NEW n \in Nat, NEW a \in Bits(n), NEW b \in Bits(n), Number(a) = Number(b)
  PROVE  a = b
<1> DEFINE va == numbers(a, n)
           vb == numbers(b, n)
           T == {k \in 0 .. n : va[n - k] = vb[n - k] /\ \A j \in n - k + 1 .. n : a[j] = b[j]}
<1>1. \A i \in 0 .. n : va[i] \in Nat /\ vb[i] \in Nat /\ va[i] < TwoTo(i) /\ vb[i] < TwoTo(i) /\ TwoTo(i) \in Nat
  BY NumbersRange, TwoToIs
<1>2. 0 \in T
  <2>1. n - 0 = n /\ va[n] = vb[n]
    BY NumberRange
  <2> QED BY <2>1
<1>3. ASSUME NEW k \in 1 .. n, k - 1 \in T
      PROVE  k \in T
  <2> DEFINE i == n + 1 - k
             w == TwoTo(i - 1)
  <2>1. i \in 1 .. n /\ i - 1 \in 0 .. n /\ n - k = i - 1 /\ n - (k - 1) = i
    OBVIOUS
  <2>2. /\ va[i] = va[i - 1] + Worth(a[i], w) /\ a[i] \in BOOLEAN
        /\ vb[i] = vb[i - 1] + Worth(b[i], w) /\ b[i] \in BOOLEAN
    BY <2>1, NumbersWorth
  <2>3. w \in Nat /\ va[i - 1] \in Nat /\ vb[i - 1] \in Nat /\ va[i - 1] < w /\ vb[i - 1] < w
    BY <1>1, <2>1
  <2>4. va[i] = vb[i] /\ \A j \in i + 1 .. n : a[j] = b[j]
    BY <1>3, <2>1
  <2> HIDE DEF w, va, vb
  <2>5. a[i] = b[i] /\ va[i - 1] = vb[i - 1]
    BY <2>2, <2>3, <2>4 DEF Worth
  <2>6. \A j \in n - k + 1 .. n : a[j] = b[j]
    BY <2>4, <2>5
  <2> QED BY <2>1, <2>5, <2>6
<1>4. \A k \in 0 .. n : k \in T
  <2>1. T \subseteq Nat
    OBVIOUS
  <2> HIDE DEF T
  <2> QED BY <1>2, <1>3, <2>1, ClimbAll
<1>5. \A j \in 1 .. n : a[j] = b[j]
  BY <1>4
<1> QED BY <1>5 DEF Bits

\* eq_bits holds of vectors with the same number,
LEMMA EqExact ==
  ASSUME NEW n \in Nat, NEW a \in Bits(n), NEW b \in Bits(n)
  PROVE  eq_bits(a, b) <=> Number(a) = Number(b)
<1>1. eq_bits(a, b) <=> a = b
  BY BitsLen DEF eq_bits, Bits
<1> QED BY <1>1, NumberOneToOne

\* and is_zero_bits of the one that stands for 0.
LEMMA ZeroExact ==
  ASSUME NEW n \in Nat, NEW x \in Bits(n)
  PROVE  is_zero_bits(x) <=> Number(x) = 0
<1> DEFINE no == Same_bits(n, FALSE)
<1>1. no \in Bits(n) /\ Number(no) = 0
  BY SameNumber
<1>2. \A k \in 1 .. n : ~ no[k]
  BY DEF Same_bits
<1> HIDE DEF no
<1>3. is_zero_bits(x) <=> \A k \in 1 .. n : ~ x[k]
  BY BitsLen DEF is_zero_bits
<1>4. is_zero_bits(x) => x = no
  BY <1>1, <1>2, <1>3 DEF Bits
<1>5. x = no => is_zero_bits(x)
  BY <1>2, <1>3
<1> QED BY <1>1, <1>4, <1>5, NumberOneToOne

\* The top bit is the sign.
LEMMA SignBit ==
  ASSUME NEW n \in Nat \ {0}, NEW x \in Bits(n)
  PROVE  /\ Last(x) = x[n] /\ x[n] \in BOOLEAN
         /\ TwoTo(n) = 2 * TwoTo(n - 1) /\ TwoTo(n - 1) \in Nat /\ TwoTo(n - 1) >= 1
         /\ Number(x) \in Nat /\ Number(x) < TwoTo(n)
         /\ x[n] <=> Number(x) >= TwoTo(n - 1)
<1>1. n \in 1 .. n /\ n - 1 \in 0 .. n
  OBVIOUS
<1>2. Last(x) = x[n]
  BY BitsLen DEF Last
<1>3. /\ numbers(x, n)[n] = numbers(x, n)[n - 1] + Worth(x[n], TwoTo(n - 1))
      /\ x[n] \in BOOLEAN
  BY <1>1, NumbersWorth
<1>4. numbers(x, n)[n - 1] \in Nat /\ numbers(x, n)[n - 1] < TwoTo(n - 1)
  BY <1>1, NumbersRange
<1>5. TwoTo(n) = 2 * TwoTo(n - 1) /\ TwoTo(n - 1) \in Nat /\ TwoTo(n - 1) >= 1
  BY <1>1, TwoToStep
<1>6. Number(x) = numbers(x, n)[n] /\ Number(x) \in Nat /\ Number(x) < TwoTo(n)
  BY NumberRange
<1>7. x[n] <=> Number(x) >= TwoTo(n - 1)
  BY <1>3, <1>4, <1>5, <1>6 DEF Worth
<1> QED BY <1>2, <1>3, <1>5, <1>6, <1>7


\* Bits in two's complement.
LEMMA SignedBits ==
  ASSUME NEW n \in Nat \ {0}, NEW x \in Bits(n)
  PROVE  /\ Signed(Number(x), n) = Number(x) - Worth(x[n], TwoTo(n))
         /\ Signed(Number(x), n) \in Int
         /\ - TwoTo(n - 1) <= Signed(Number(x), n) /\ Signed(Number(x), n) < TwoTo(n - 1)
         /\ x[n] <=> Signed(Number(x), n) < 0
BY SignBit DEF Signed, Worth

\* The signed comparator (slt) orders vectors as their signed numbers.
THEOREM SltExact ==
  ASSUME NEW n \in Nat \ {0}, NEW a \in Bits(n), NEW b \in Bits(n)
  PROVE  slt(a, b) <=> Signed(Number(a), n) < Signed(Number(b), n)
<1>1. Last(a) = a[n] /\ Last(b) = b[n] /\ a[n] \in BOOLEAN /\ b[n] \in BOOLEAN
  BY SignBit
<1>2. slt(a, b) <=> IF a[n] # b[n] THEN a[n] ELSE ult(a, b)
  BY <1>1 DEF slt, mux
<1>3. ult(a, b) <=> Number(a) < Number(b)
  BY UltExact
<1>4. Number(a) \in Nat /\ Number(b) \in Nat /\ TwoTo(n) \in Nat
  BY SignBit, TwoToIs
<1>5. /\ Signed(Number(a), n) = Number(a) - Worth(a[n], TwoTo(n)) /\ (a[n] <=> Signed(Number(a), n) < 0)
      /\ Signed(Number(b), n) = Number(b) - Worth(b[n], TwoTo(n)) /\ (b[n] <=> Signed(Number(b), n) < 0)
      /\ Signed(Number(a), n) \in Int /\ Signed(Number(b), n) \in Int
  BY SignedBits
<1>6. CASE a[n] # b[n]
  BY <1>1, <1>2, <1>5, <1>6
<1>7. CASE a[n] = b[n]
  <2>1. Worth(a[n], TwoTo(n)) = Worth(b[n], TwoTo(n)) /\ Worth(a[n], TwoTo(n)) \in Nat
    BY <1>4, <1>7 DEF Worth
  <2>2. Signed(Number(a), n) < Signed(Number(b), n) <=> Number(a) < Number(b)
    BY <1>4, <1>5, <2>1
  <2> QED BY <1>2, <1>3, <1>7, <2>2
<1> QED BY <1>6, <1>7

\* Signed overflow: the sum of x and y leaves the range exactly when they have
\* one sign and the wrapped sum s the other.
LEMMA SignedSum ==
  ASSUME NEW h \in Nat, h >= 1, NEW x \in -h .. h - 1, NEW y \in -h .. h - 1, NEW s \in -h .. h - 1,
         s = x + y \/ s = x + y + 2 * h \/ s = x + y - 2 * h
  PROVE  (x + y < -h \/ x + y >= h) <=> ((x < 0 <=> y < 0) /\ ~ (x < 0 <=> s < 0))
OBVIOUS

\* The sign rule for the overflow of a difference.
LEMMA SignedDifference ==
  ASSUME NEW h \in Nat, h >= 1, NEW x \in -h .. h - 1, NEW y \in -h .. h - 1, NEW s \in -h .. h - 1,
         s = x - y \/ s = x - y + 2 * h \/ s = x - y - 2 * h
  PROVE  (x - y < -h \/ x - y >= h) <=> (~ (x < 0 <=> y < 0) /\ ~ (x < 0 <=> s < 0))
OBVIOUS

\* The signed reading of x below 2 * h.
Half(x, h) == IF x >= h THEN x - 2 * h ELSE x

\* Reading a wrapped sum or difference as signed is off by a multiple of the width.
LEMMA Wrapped ==
  ASSUME NEW h \in Nat, h >= 1, NEW x \in 0 .. 2 * h - 1, NEW y \in 0 .. 2 * h - 1
  PROVE  /\ LET r == Half((x + y) % (2 * h), h)
                z == Half(x, h) + Half(y, h)
            IN  r = z \/ r = z + 2 * h \/ r = z - 2 * h
         /\ LET r == Half((x - y) % (2 * h), h)
                z == Half(x, h) - Half(y, h)
            IN  r = z \/ r = z + 2 * h \/ r = z - 2 * h
<1>1. (x + y) % (2 * h) = x + y \/ (x + y) % (2 * h) = x + y - 2 * h
  <2>1. CASE x + y < 2 * h
    BY <2>1, ModBelow
  <2>2. CASE x + y >= 2 * h
    BY <2>2, ModBelow
  <2> QED BY <2>1, <2>2
<1>2. (x - y) % (2 * h) = x - y \/ (x - y) % (2 * h) = x - y + 2 * h
  <2>1. CASE x >= y
    BY <2>1, ModBelow
  <2>2. CASE x < y
    BY <2>2, ModBelow
  <2> QED BY <2>1, <2>2
<1>3. (x + y) % (2 * h) \in 0 .. 2 * h - 1 /\ (x - y) % (2 * h) \in 0 .. 2 * h - 1
  OBVIOUS
<1> QED BY <1>1, <1>2, <1>3 DEF Half

\* sadd_overflow and ssub_overflow hold where the signed result leaves the range.
LEMMA SignedOverflow ==
  ASSUME NEW n \in Nat \ {0}, NEW a \in Bits(n), NEW b \in Bits(n)
  PROVE  /\ sadd_overflow(a, b) <=> OutOfRange(Signed(Number(a), n) + Signed(Number(b), n), n)
         /\ ssub_overflow(a, b) <=> OutOfRange(Signed(Number(a), n) - Signed(Number(b), n), n)
<1> DEFINE h == TwoTo(n - 1)
           Sg(x) == Signed(Number(x), n)
           sum == add_bits(a, b)
           dif == sub_bits(a, b)
<1>1. /\ sum \in Bits(n) /\ Number(sum) = (Number(a) + Number(b)) % TwoTo(n)
      /\ dif \in Bits(n) /\ Number(dif) = (Number(a) - Number(b)) % TwoTo(n)
  BY SumsExact
<1>2. sadd_overflow(a, b) <=> Last(a) = Last(b) /\ Last(a) # Last(sum)
  BY DEF sadd_overflow
<1>3. ssub_overflow(a, b) <=> Last(a) # Last(b) /\ Last(a) # Last(dif)
  BY DEF ssub_overflow
<1> HIDE DEF sum, dif
<1>4. h \in Nat /\ h >= 1 /\ TwoTo(n) = 2 * h /\ Number(a) \in 0 .. 2 * h - 1 /\ Number(b) \in 0 .. 2 * h - 1
  BY SignBit
<1>5. ASSUME NEW x \in Bits(n)
      PROVE  /\ Sg(x) \in -h .. h - 1 /\ Last(x) \in BOOLEAN /\ (Last(x) <=> Sg(x) < 0)
             /\ Sg(x) = IF Number(x) >= h THEN Number(x) - 2 * h ELSE Number(x)
  BY <1>4, SignBit, SignedBits DEF Signed
<1>6. \A x \in Bits(n) : Sg(x) \in -h .. h - 1 /\ Last(x) \in BOOLEAN /\ (Last(x) <=> Sg(x) < 0)
  BY <1>5
<1>10. \A x \in Bits(n) : Sg(x) = Half(Number(x), h)
  BY <1>5 DEF Half
<1> HIDE DEF h, Sg
<1>7. /\ Sg(sum) = Sg(a) + Sg(b) \/ Sg(sum) = (Sg(a) + Sg(b)) + 2 * h \/ Sg(sum) = (Sg(a) + Sg(b)) - 2 * h
      /\ Sg(dif) = Sg(a) - Sg(b) \/ Sg(dif) = (Sg(a) - Sg(b)) + 2 * h \/ Sg(dif) = (Sg(a) - Sg(b)) - 2 * h
  <2>1. /\ Sg(a) = Half(Number(a), h) /\ Sg(sum) = Half((Number(a) + Number(b)) % (2 * h), h)
        /\ Sg(b) = Half(Number(b), h) /\ Sg(dif) = Half((Number(a) - Number(b)) % (2 * h), h)
    BY <1>1, <1>4, <1>10
  <2> QED BY <1>4, <2>1, Wrapped
<1>8. /\ Sg(a) + Sg(b) < -h \/ Sg(a) + Sg(b) >= h <=> (Sg(a) < 0 <=> Sg(b) < 0) /\ ~ (Sg(a) < 0 <=> Sg(sum) < 0)
      /\ Sg(a) - Sg(b) < -h \/ Sg(a) - Sg(b) >= h <=> ~ (Sg(a) < 0 <=> Sg(b) < 0) /\ ~ (Sg(a) < 0 <=> Sg(dif) < 0)
  BY <1>1, <1>4, <1>6, <1>7, SignedSum, SignedDifference
<1>9. /\ OutOfRange(Sg(a) + Sg(b), n) <=> Sg(a) + Sg(b) < -h \/ Sg(a) + Sg(b) >= h
      /\ OutOfRange(Sg(a) - Sg(b), n) <=> Sg(a) - Sg(b) < -h \/ Sg(a) - Sg(b) >= h
  BY DEF OutOfRange, h
<1> QED BY <1>1, <1>2, <1>3, <1>6, <1>8, <1>9 DEF Sg

\* The least number: the top bit alone.
LEMMA MinNumber ==
  ASSUME NEW n \in Nat \ {0}
  PROVE  MinBits(n) \in Bits(n) /\ Number(MinBits(n)) = TwoTo(n - 1)
<1> DEFINE x == MinBits(n)
           T == {k \in 0 .. n - 1 : numbers(x, n)[k] = 0}
<1>1. x \in Bits(n) /\ x[n] /\ \A k \in 1 .. n - 1 : ~ x[k]
  <2>1. x \in Bits(n)
    BY Zenon DEF MinBits, Bits
  <2>2. n \in 1 .. n /\ \A k \in 1 .. n - 1 : k \in 1 .. n /\ k # n
    OBVIOUS
  <2>3. \A k \in 1 .. n : x[k] = (k = n)
    BY Zenon DEF MinBits
  <2> QED BY <2>1, <2>2, <2>3, Zenon
<1> HIDE DEF x
<1>2. 0 \in T
  BY NumbersStep
<1>3. ASSUME NEW k \in 1 .. n - 1, k - 1 \in T
      PROVE  k \in T
  <2>1. k \in 1 .. n
    OBVIOUS
  <2>2. numbers(x, n)[k] = numbers(x, n)[k - 1]
    BY <1>1, <2>1, NumbersStep
  <2> QED BY <1>3, <2>2
<1>4. n - 1 \in Nat /\ T \subseteq Nat
  OBVIOUS
<1>5. n - 1 \in T
  <2> HIDE DEF T
  <2> QED BY <1>2, <1>3, <1>4, Climb
<1>6. n \in 1 .. n /\ numbers(x, n)[n] = numbers(x, n)[n - 1] + TwoTo(n - 1)
  BY <1>1, NumbersStep
<1>7. TwoTo(n - 1) \in Nat
  BY <1>4, TwoToIs
<1>8. Number(x) = numbers(x, n)[n]
  BY <1>1, NumberRange
<1>9. Number(x) = TwoTo(n - 1)
  BY <1>5, <1>6, <1>7, <1>8
<1> QED BY <1>1, <1>9 DEF x

\* Only the least number has no negation, and only its quotient by -1 does not
\* fit.
LEMMA OnlyMin ==
  ASSUME NEW h \in Nat, h >= 1, NEW x \in -h .. h - 1
  PROVE  /\ (-x < -h \/ -x >= h) <=> x = -h
         /\ Quot(x, -1) = -x
         /\ \A y \in -h .. h - 1 : y # 0 /\ y # -1 => -h <= Quot(x, y) /\ Quot(x, y) < h
<1>1. (-x < -h \/ -x >= h) <=> x = -h
  OBVIOUS
<1>2. Quot(x, -1) = -x
  <2>1. AbsInt(x) \div AbsInt(-1) = AbsInt(x)
    BY DEF AbsInt
  <2> QED BY <2>1 DEF Quot, AbsInt
<1>3. ASSUME NEW y \in -h .. h - 1, y # 0, y # -1
      PROVE  -h <= Quot(x, y) /\ Quot(x, y) < h
  <2> DEFINE p == AbsInt(x)
             q == AbsInt(y)
  <2>1. p \in 0 .. h /\ q \in 1 .. h /\ (p = h => x < 0) /\ (q = 1 => y = 1)
    BY <1>3 DEF AbsInt
  <2> HIDE DEF p, q
  <2>2. p \div q \in Nat /\ p \div q <= p /\ (q >= 2 => p \div q < h)
    BY <2>1
  <2>3. q = 1 => p \div q = p
    BY <2>1
  <2>4. Quot(x, y) = IF (x < 0) # (y < 0) THEN -(p \div q) ELSE p \div q
    BY DEF Quot, p, q
  <2> QED BY <2>1, <2>2, <2>3, <2>4
<1> QED BY <1>1, <1>2, <1>3

\* A bit enters at the bottom, and the top bit, which is not set, leaves.
LEMMA ShiftIn ==
  ASSUME NEW n \in Nat \ {0}, NEW x \in Bits(n), ~ x[n], NEW p \in BOOLEAN
  PROVE  LET y == [j \in 1 .. n |-> IF j = 1 THEN p ELSE x[j - 1]]
         IN  y \in Bits(n) /\ Number(y) = 2 * Number(x) + Worth(p, 1)
<1> DEFINE y == [j \in 1 .. n |-> IF j = 1 THEN p ELSE x[j - 1]]
           vx == numbers(x, n)
           vy == numbers(y, n)
           T == {k \in 0 .. n - 1 : vy[k + 1] = 2 * vx[k] + Worth(p, 1)}
<1>1. y \in Bits(n) /\ y[1] = p /\ \A k \in 2 .. n : y[k] = x[k - 1]
  BY DEF Bits
<1> HIDE DEF y
<1>2. TwoTo(0) = 1 /\ 1 \in 1 .. n /\ n - 1 \in Nat
  BY TwoToIs
<1>3. \A k \in 1 .. n : vy[k] = vy[k - 1] + Worth(y[k], TwoTo(k - 1))
      /\ vx[k] = vx[k - 1] + Worth(x[k], TwoTo(k - 1)) /\ vx[k - 1] \in Nat /\ x[k] \in BOOLEAN
  BY <1>1, NumbersWorth
<1>4. vy[0] = 0 /\ vx[0] = 0
  BY NumbersStep
<1> HIDE DEF vx, vy
<1>5. 0 \in T
  <2>1. vy[1] = vy[1 - 1] + Worth(y[1], TwoTo(1 - 1)) /\ 1 - 1 = 0 /\ 0 + 1 = 1 /\ 0 \in 0 .. n - 1
    BY <1>2, <1>3
  <2>2. vy[0 + 1] = 0 + Worth(p, 1)
    BY <1>1, <1>2, <1>4, <2>1
  <2>3. Worth(p, 1) \in Nat
    BY DEF Worth
  <2> QED BY <1>4, <2>1, <2>2, <2>3
<1>6. ASSUME NEW k \in 1 .. n - 1, k - 1 \in T
      PROVE  k \in T
  <2>1. k \in 1 .. n /\ k + 1 \in 1 .. n /\ k + 1 \in 2 .. n /\ (k + 1) - 1 = k /\ (k - 1) + 1 = k
        /\ k \in 0 .. n - 1
    OBVIOUS
  <2>2. TwoTo(k) = 2 * TwoTo(k - 1) /\ TwoTo(k - 1) \in Nat
    BY <2>1, TwoToStep
  <2>3. vy[k + 1] = vy[k] + Worth(x[k], TwoTo(k))
    BY <1>1, <1>3, <2>1
  <2>4. vy[k] = 2 * vx[k - 1] + Worth(p, 1)
    BY <1>6, <2>1
  <2>5. vx[k] = vx[k - 1] + Worth(x[k], TwoTo(k - 1)) /\ vx[k - 1] \in Nat /\ x[k] \in BOOLEAN
    BY <1>3, <2>1
  <2>6. vy[k + 1] = 2 * vx[k] + Worth(p, 1)
    BY <2>2, <2>3, <2>4, <2>5 DEF Worth
  <2> QED BY <2>1, <2>6
<1>7. n - 1 \in T
  <2>1. T \subseteq Nat
    OBVIOUS
  <2> HIDE DEF T
  <2> QED BY <1>2, <1>5, <1>6, <2>1, Climb
<1>8. vy[n] = 2 * vx[n - 1] + Worth(p, 1)
  BY <1>7
<1>9. vx[n] = vx[n - 1]
  BY <1>3 DEF Worth
<1>10. Number(x) = vx[n] /\ Number(y) = vy[n]
  BY <1>1, NumberRange DEF vx, vy
<1> QED BY <1>1, <1>8, <1>9, <1>10 DEF y

\* A bit that was not set is set.
LEMMA SetBit ==
  ASSUME NEW n \in Nat \ {0}, NEW x \in Bits(n), NEW i \in 1 .. n, ~ x[i], NEW p \in BOOLEAN
  PROVE  LET y == [x EXCEPT ![i] = p]
         IN  y \in Bits(n) /\ Number(y) = Number(x) + Worth(p, TwoTo(i - 1))
<1> DEFINE y == [x EXCEPT ![i] = p]
           vx == numbers(x, n)
           vy == numbers(y, n)
           w == Worth(p, TwoTo(i - 1))
           T == {k \in 0 .. n : vy[k] = IF k < i THEN vx[k] ELSE vx[k] + w}
<1>1. y \in Bits(n) /\ y[i] = p /\ \A k \in 1 .. n : k # i => y[k] = x[k]
  BY DEF Bits
<1> HIDE DEF y
<1>2. \A k \in 1 .. n : vy[k] = vy[k - 1] + Worth(y[k], TwoTo(k - 1))
      /\ vx[k] = vx[k - 1] + Worth(x[k], TwoTo(k - 1)) /\ vx[k - 1] \in Nat /\ x[k] \in BOOLEAN
  BY <1>1, NumbersWorth
<1>3. vy[0] = 0 /\ vx[0] = 0
  BY NumbersStep
<1>4. w \in Nat
  BY TwoToStep DEF Worth
<1> HIDE DEF vx, vy
<1>5. 0 \in T
  BY <1>3
<1>6. ASSUME NEW k \in 1 .. n, k - 1 \in T
      PROVE  k \in T
  <2>1. TwoTo(k - 1) \in Nat
    BY TwoToStep
  <2>2. CASE k = i
    <3>1. vy[k] = vy[k - 1] + w /\ vy[k - 1] = vx[k - 1] /\ vx[k] = vx[k - 1] + 0 /\ vx[k - 1] \in Nat
      BY <1>1, <1>2, <1>6, <2>2 DEF Worth
    <3> HIDE DEF w
    <3> QED BY <1>4, <2>2, <3>1
  <2>3. CASE k # i
    <3>1. vy[k] = vy[k - 1] + Worth(x[k], TwoTo(k - 1)) /\ vx[k] = vx[k - 1] + Worth(x[k], TwoTo(k - 1))
          /\ vx[k - 1] \in Nat
      BY <1>1, <1>2, <2>3
    <3>2. Worth(x[k], TwoTo(k - 1)) \in Nat
      BY <2>1 DEF Worth
    <3> HIDE DEF w
    <3> QED BY <1>4, <1>6, <2>3, <3>1, <3>2
  <2> QED BY <2>2, <2>3
<1>7. n \in T
  <2>1. T \subseteq Nat
    OBVIOUS
  <2> HIDE DEF T
  <2> QED BY <1>5, <1>6, <2>1, Climb
<1>8. vy[n] = vx[n] + w
  BY <1>7
<1>9. Number(x) = vx[n] /\ Number(y) = vy[n]
  BY <1>1, NumberRange DEF vx, vy
<1> QED BY <1>1, <1>8, <1>9 DEF y, w

\* A multiplexer of vectors is the vector it chooses.
LEMMA MuxBits ==
  ASSUME NEW n \in Nat, NEW p, NEW x \in Bits(n), NEW y
  PROVE  /\ p => mux_bits(p, x, y) = x
         /\ ~ p /\ y \in Bits(n) => mux_bits(p, x, y) = y
<1>1. DOMAIN x = 1 .. n /\ x = [i \in 1 .. n |-> x[i]]
  BY DEF Bits
<1>2. ASSUME p PROVE mux_bits(p, x, y) = x
  BY <1>1, <1>2 DEF mux_bits, mux
<1>3. ASSUME ~ p, y \in Bits(n) PROVE mux_bits(p, x, y) = y
  <2>1. y = [i \in 1 .. n |-> y[i]]
    BY <1>3 DEF Bits
  <2> QED BY <1>1, <1>3, <2>1 DEF mux_bits, mux
<1> QED BY <1>2, <1>3

\* One step of the division: the bit of weight w moves from the dividend into
\* the remainder, and the divisor is taken off when it fits.
LEMMA DivideNumbers ==
  ASSUME NEW w \in Nat, w >= 1, NEW low \in Nat, NEW r \in Nat, NEW d \in Nat, NEW q \in Nat, NEW bit \in {0, 1},
         r < d
  PROVE  LET s == 2 * r + bit
             number == (low + bit * w) + (2 * w) * r + d * q
         IN  /\ s < d => number = low + w * s + d * q
             /\ s >= d => s - d < d /\ number = low + w * (s - d) + d * (q + w)
<1> DEFINE s == 2 * r + bit
           number == (low + bit * w) + (2 * w) * r + d * q
<1>1. number = low + w * s + d * q
  <2>1. w * s = (2 * w) * r + bit * w
    OBVIOUS
  <2>2. (2 * w) * r \in Nat /\ bit * w \in Nat /\ d * q \in Nat
    OBVIOUS
  <2> QED BY <2>1, <2>2
<1>2. ASSUME s >= d PROVE s - d < d /\ low + w * s + d * q = low + w * (s - d) + d * (q + w)
  <2>1. s - d < d
    OBVIOUS
  <2>2. w * (s - d) = w * s - w * d /\ d * (q + w) = d * q + w * d /\ w * s \in Nat /\ w * d \in Nat
        /\ d * q \in Nat
    BY <1>2
  <2> HIDE DEF s
  <2> QED BY <2>1, <2>2
<1> QED BY <1>1, <1>2

\* The remainder never needs the bit that leaves at the top.
LEMMA RemainderFits ==
  ASSUME NEW h \in Nat, NEW w \in Nat, w >= 1, NEW low \in Nat, NEW r \in Nat, NEW d \in Nat, NEW q \in Nat,
         low + (2 * w) * r + d * q < 2 * h
  PROVE  r < h
<1>1. d * q \in Nat /\ w * r \in Nat /\ (2 * w) * r = 2 * (w * r)
  OBVIOUS
<1>2. w * r >= r
  OBVIOUS
<1> QED BY <1>1, <1>2

\* What is left of a dividend after k steps.
Divided(n, u, d, acc, k) ==
  /\ acc.rem \in Bits(n) /\ acc.quo \in Bits(n)
  /\ \A j \in 1 .. n - k : ~ acc.quo[j]
  /\ Number(acc.rem) < Number(d)
  /\ Number(u) = numbers(u, n)[n - k] + TwoTo(n - k) * Number(acc.rem) + Number(d) * Number(acc.quo)

\* One step of the restoring division keeps dividend = remainder and quotient so far.
LEMMA DivideOnce ==
  ASSUME NEW n \in Nat \ {0}, NEW u \in Bits(n), NEW d \in Bits(n), NEW acc, NEW k \in 1 .. n,
         Divided(n, u, d, acc, k - 1)
  PROVE  Divided(n, u, d, divide_down(acc, u, d, n + 1 - k), k)
<1> DEFINE i == n + 1 - k
           w == TwoTo(i - 1)
           R == Number(acc.rem)
           Q == Number(acc.quo)
           D == Number(d)
           low == numbers(u, n)[i - 1]
           bit == Worth(u[i], 1)
           shifted == [j \in 1 .. n |-> IF j = 1 THEN u[i] ELSE acc.rem[j - 1]]
           S == Number(shifted)
           ge == ule(d, shifted)
           new == divide_down(acc, u, d, i)
<1>1. i \in 1 .. n /\ i - 1 \in 0 .. n /\ n - k = i - 1 /\ n - (k - 1) = i
  OBVIOUS
<1>2. /\ acc.rem \in Bits(n) /\ acc.quo \in Bits(n) /\ \A j \in 1 .. i : ~ acc.quo[j]
      /\ R < D /\ Number(u) = numbers(u, n)[i] + TwoTo(i) * R + D * Q
  BY <1>1 DEF Divided
<1>3. TwoTo(i) = 2 * w /\ w \in Nat /\ w >= 1 /\ TwoTo(n) = 2 * TwoTo(n - 1) /\ TwoTo(n - 1) \in Nat
  BY <1>1, TwoToStep, SignBit
<1>4. numbers(u, n)[i] = low + Worth(u[i], w) /\ low \in Nat /\ u[i] \in BOOLEAN
  BY <1>1, NumbersWorth
<1>5. R \in Nat /\ Q \in Nat /\ D \in Nat /\ Number(u) \in Nat /\ Number(u) < TwoTo(n)
  BY <1>2, NumberRange
<1>6. bit \in {0, 1} /\ Worth(u[i], w) = bit * w
  BY <1>3, <1>4 DEF Worth
<1>7. Number(u) = (low + bit * w) + (2 * w) * R + D * Q
  BY <1>2, <1>3, <1>4, <1>6
<1>8. ~ acc.rem[n]
  <2>1. low + bit * w \in Nat
    BY <1>3, <1>4, <1>6
  <2> HIDE DEF R, Q, D, low, bit, w, i
  <2>2. R < TwoTo(n - 1)
    BY <1>3, <1>5, <1>7, <2>1, RemainderFits
  <2> QED BY <1>2, <1>5, <2>2, SignBit DEF R
<1>9. shifted \in Bits(n) /\ S = 2 * R + bit
  BY <1>2, <1>4, <1>8, ShiftIn
<1>10. new.rem = mux_bits(ge, sub_bits(shifted, d), shifted) /\ new.quo = [acc.quo EXCEPT ![i] = ge]
  BY BitsLen DEF divide_down, DivideStep, Restore
<1>11. ge \in BOOLEAN /\ (ge <=> S >= D)
  <2>1. ule(d, shifted) <=> ~ (Number(shifted) < Number(d))
    BY <1>9, UltExact DEF ule
  <2>2. ge \in BOOLEAN
    BY DEF ule
  <2>3. S \in Nat
    BY <1>9, NumberRange
  <2> QED BY <1>5, <2>1, <2>2, <2>3
<1> HIDE DEF ge, shifted, new
<1>12. new.quo \in Bits(n) /\ Number(new.quo) = Q + Worth(ge, w) /\ \A j \in 1 .. i - 1 : ~ new.quo[j]
  <2>1. new.quo \in Bits(n) /\ Number(new.quo) = Q + Worth(ge, w)
    BY <1>1, <1>2, <1>10, <1>11, SetBit
  <2>2. \A j \in 1 .. i - 1 : new.quo[j] = acc.quo[j]
    BY <1>1, <1>2, <1>10 DEF Bits
  <2> QED BY <1>2, <2>1, <2>2
<1>13. sub_bits(shifted, d) \in Bits(n) /\ (S >= D => Number(sub_bits(shifted, d)) = S - D)
  <2>1. sub_bits(shifted, d) \in Bits(n) /\ Number(sub_bits(shifted, d)) = (S - D) % TwoTo(n)
    BY <1>9, SumsExact
  <2>2. S \in Nat /\ S < TwoTo(n) /\ TwoTo(n) \in Nat
    BY <1>9, NumberRange, TwoToIs
  <2> HIDE DEF S, D
  <2>3. S >= D => (S - D) % TwoTo(n) = S - D
    BY <1>5, <2>2, ModBelow
  <2> QED BY <2>1, <2>3 DEF S
<1>14. new.rem \in Bits(n) /\ Number(new.rem) = IF S >= D THEN S - D ELSE S
  <2>1. CASE ge
    <3>1. new.rem = sub_bits(shifted, d)
      BY <1>10, <1>13, <2>1, MuxBits
    <3> QED BY <1>11, <1>13, <2>1, <3>1
  <2>2. CASE ~ ge
    <3>1. new.rem = shifted
      BY <1>9, <1>10, <1>13, <2>2, MuxBits
    <3> QED BY <1>9, <1>11, <2>2, <3>1
  <2> QED BY <2>1, <2>2
<1>15. Number(new.rem) < D /\ Number(u) = low + w * Number(new.rem) + D * Number(new.quo)
  <2>1. Number(new.quo) = IF S >= D THEN Q + w ELSE Q
    BY <1>3, <1>5, <1>11, <1>12 DEF Worth
  <2> HIDE DEF R, Q, D, S, low, bit, w, i
  <2>2. /\ S < D => Number(u) = low + w * S + D * Q
        /\ S >= D => S - D < D /\ Number(u) = low + w * (S - D) + D * (Q + w)
    BY <1>2, <1>3, <1>4, <1>5, <1>6, <1>7, <1>9, DivideNumbers
  <2>3. S \in Nat
    BY <1>5, <1>6, <1>9
  <2>4. CASE S >= D
    BY <1>14, <2>1, <2>2, <2>4
  <2>5. CASE S < D
    BY <1>5, <1>14, <2>1, <2>2, <2>3, <2>5
  <2> QED BY <1>5, <2>3, <2>4, <2>5
<1> QED BY <1>1, <1>12, <1>14, <1>15 DEF Divided, new

\* Quotient and remainder are what they have to be.
LEMMA QuotientIs ==
  ASSUME NEW m \in Nat, m > 0, NEW q \in Int, NEW r \in 0 .. m - 1
  PROVE  (r + m * q) % m = r /\ (r + m * q) \div m = q
<1> DEFINE x == r + m * q
           p == x \div m
           s == x % m
<1>1. x \in Int /\ p \in Int /\ s \in 0 .. m - 1 /\ x = m * p + s
  OBVIOUS
<1>2. m * p + s = m * q + r
  BY <1>1
<1> HIDE DEF p, s
<1>3. m * (p - q) = r - s
  BY <1>1, <1>2
<1>4. p - q = 0
  <2>1. ASSUME p - q >= 1 PROVE FALSE
    <3>1. m * (p - q) >= m
      BY <1>1, <2>1
    <3> QED BY <1>1, <1>3, <3>1
  <2>2. ASSUME p - q <= -1 PROVE FALSE
    <3>1. m * (p - q) <= -m
      BY <1>1, <2>2
    <3> QED BY <1>1, <1>3, <3>1
  <2> QED BY <1>1, <2>1, <2>2
<1>5. p = q /\ s = r
  BY <1>1, <1>2, <1>4
<1> QED BY <1>5 DEF p, s

\* The whole scan divides: what Divided says at the last step.
LEMMA DivideScan ==
  ASSUME NEW n \in Nat \ {0}, NEW u \in Bits(n), NEW d \in Bits(n), Number(d) > 0
  PROVE  Divided(n, u, d, divide_scan(u, d, n)[n], n)
<1> DEFINE scan == divide_scan(u, d, n)
           start == [rem |-> Same_bits(n, FALSE), quo |-> Same_bits(n, FALSE)]
           T == {k \in 0 .. n : Divided(n, u, d, scan[k], k)}
<1>1. scan = [k \in 0 .. n |-> IF k = 0 THEN start ELSE divide_down(scan[k - 1], u, d, n + 1 - k)]
  BY DivideIs, Zenon
<1>2. PICK no : no = Same_bits(n, FALSE) /\ no \in Bits(n) /\ Number(no) = 0
  BY SameNumber
<1>3. \A j \in 1 .. n : ~ no[j]
  BY <1>2 DEF Same_bits
<1>4. start.rem = no /\ start.quo = no
  BY <1>2, Zenon
<1> HIDE DEF scan, start
<1>5. scan[0] = start /\ \A k \in 1 .. n : scan[k] = divide_down(scan[k - 1], u, d, n + 1 - k)
  BY <1>1
<1>6. 0 \in T
  <2>1. n - 0 = n /\ TwoTo(n) \in Nat /\ Number(u) \in Nat /\ Number(u) = numbers(u, n)[n] /\ Number(d) \in Nat
    BY NumberRange, TwoToIs
  <2>2. no \in Bits(n) /\ Number(no) = 0
    BY <1>2
  <2>3. Divided(n, u, d, start, 0)
    BY <1>3, <1>4, <2>1, <2>2 DEF Divided
  <2> QED BY <1>5, <2>3
<1>7. ASSUME NEW k \in 1 .. n, k - 1 \in T
      PROVE  k \in T
  BY <1>5, <1>7, DivideOnce
<1>8. n \in T
  <2>1. T \subseteq Nat
    OBVIOUS
  <2> HIDE DEF T
  <2> QED BY <1>6, <1>7, <2>1, Climb
<1> QED BY <1>8 DEF scan

\* Restoring division is exact, of every width, division by zero included.
THEOREM DivisionExact ==
  ASSUME NEW n \in Nat \ {0}, NEW a \in Bits(n), NEW b \in Bits(n)
  PROVE  /\ udiv_urem(a, b).quo \in Bits(n) /\ Number(udiv_urem(a, b).quo) = UDiv(Number(a), Number(b), n)
         /\ udiv_urem(a, b).rem \in Bits(n)
         /\ Number(udiv_urem(a, b).rem) = IF Number(b) = 0 THEN Number(a) ELSE Number(a) % Number(b)
<1> DEFINE end == divide_scan(a, b, n)[n]
<1>1. PICK yes : yes = Same_bits(n, TRUE) /\ yes \in Bits(n) /\ Number(yes) = TwoTo(n) - 1
  BY SameNumber
<1>2. /\ udiv_urem(a, b).quo = mux_bits(is_zero_bits(b), yes, end.quo)
      /\ udiv_urem(a, b).rem = mux_bits(is_zero_bits(b), a, end.rem)
  BY <1>1, BitsLen DEF udiv_urem, UnlessZero
<1>3. is_zero_bits(b) <=> Number(b) = 0
  BY ZeroExact
<1>4. Number(a) \in Nat /\ Number(b) \in Nat
  BY NumberRange
<1>5. yes \in Bits(n) /\ Number(yes) = TwoTo(n) - 1
  BY <1>1
<1> HIDE DEF end
<1>6. CASE Number(b) = 0
  <2>1. udiv_urem(a, b).quo = yes /\ udiv_urem(a, b).rem = a
    BY <1>2, <1>3, <1>5, <1>6, MuxBits
  <2> QED BY <1>5, <1>6, <2>1 DEF UDiv
<1>7. CASE Number(b) # 0
  <2>1. Divided(n, a, b, end, n)
    BY <1>4, <1>7, DivideScan DEF end
  <2>2. /\ end.rem \in Bits(n) /\ end.quo \in Bits(n) /\ Number(end.rem) < Number(b)
        /\ Number(a) = numbers(a, n)[0] + TwoTo(0) * Number(end.rem) + Number(b) * Number(end.quo)
    BY <2>1 DEF Divided
  <2>3. numbers(a, n)[0] = 0 /\ TwoTo(0) = 1 /\ Number(end.rem) \in Nat /\ Number(end.quo) \in Nat
    BY <2>2, NumbersStep, TwoToIs, NumberRange
  <2>4. Number(a) = Number(end.rem) + Number(b) * Number(end.quo)
    BY <1>4, <2>2, <2>3
  <2>5. Number(end.rem) = Number(a) % Number(b) /\ Number(end.quo) = Number(a) \div Number(b)
    <3>1. Number(b) > 0 /\ Number(end.rem) \in 0 .. Number(b) - 1 /\ Number(end.quo) \in Int
      BY <1>4, <1>7, <2>2, <2>3
    <3>2. /\ (Number(end.rem) + Number(b) * Number(end.quo)) % Number(b) = Number(end.rem)
          /\ (Number(end.rem) + Number(b) * Number(end.quo)) \div Number(b) = Number(end.quo)
      BY <1>4, <3>1, QuotientIs, Zenon
    <3> QED BY <2>4, <3>2, Zenon
  <2>6. udiv_urem(a, b).quo = end.quo /\ udiv_urem(a, b).rem = end.rem
    BY <1>2, <1>3, <1>5, <1>7, <2>2, MuxBits
  <2> QED BY <1>7, <2>2, <2>5, <2>6 DEF UDiv
<1> QED BY <1>6, <1>7

\* Negation under a condition, as the signed divisions use it.
LEMMA NegatedNumber ==
  ASSUME NEW n \in Nat, NEW x \in Bits(n), NEW p
  PROVE  /\ NegatedIf(p, x) \in Bits(n)
         /\ Number(NegatedIf(p, x)) = IF p THEN (- Number(x)) % TwoTo(n) ELSE Number(x)
<1>1. neg_bits(x) \in Bits(n) /\ Number(neg_bits(x)) = (- Number(x)) % TwoTo(n)
  BY SumsExact
<1>2. NegatedIf(p, x) = IF p THEN neg_bits(x) ELSE x
  BY <1>1, MuxBits DEF NegatedIf
<1> QED BY <1>1, <1>2

\* abs_bits stands for the magnitude of the signed number.
LEMMA AbsNumber ==
  ASSUME NEW n \in Nat \ {0}, NEW x \in Bits(n)
  PROVE  /\ abs_bits(x) \in Bits(n) /\ Number(abs_bits(x)) = AbsInt(Signed(Number(x), n))
         /\ Number(abs_bits(x)) <= TwoTo(n - 1) /\ (Number(abs_bits(x)) = 0 <=> Number(x) = 0)
<1>1. abs_bits(x) = NegatedIf(x[n], x)
  BY SignBit DEF abs_bits, NegatedIf
<1>2. /\ abs_bits(x) \in Bits(n)
      /\ Number(abs_bits(x)) = IF x[n] THEN (- Number(x)) % TwoTo(n) ELSE Number(x)
  BY <1>1, NegatedNumber
<1>3. /\ x[n] \in BOOLEAN /\ TwoTo(n) = 2 * TwoTo(n - 1) /\ TwoTo(n - 1) \in Nat /\ TwoTo(n - 1) >= 1
      /\ Number(x) \in Nat /\ Number(x) < TwoTo(n) /\ (x[n] <=> Number(x) >= TwoTo(n - 1))
  BY SignBit
<1>4. x[n] => (- Number(x)) % TwoTo(n) = TwoTo(n) - Number(x)
  BY <1>3, ModBelow
<1> QED BY <1>2, <1>3, <1>4 DEF AbsInt, Signed

\* The remainder has the sign of the dividend.
LEMMA RemIs ==
  ASSUME NEW x \in Int, NEW y \in Int, y # 0
  PROVE  LET u == AbsInt(x) % AbsInt(y)
         IN  /\ u \in Nat /\ u < AbsInt(y) /\ u <= AbsInt(x)
             /\ Rem(x, y) = IF x < 0 THEN - u ELSE u
<1> DEFINE p == AbsInt(x)
           q == AbsInt(y)
           u == p % q
           k == p \div q
<1>1. p \in Nat /\ q \in Nat /\ q > 0 /\ (x = IF x < 0 THEN - p ELSE p) /\ (y = IF y < 0 THEN - q ELSE q)
  BY DEF AbsInt
<1>2. Quot(x, y) = IF (x < 0) # (y < 0) THEN - k ELSE k
  BY DEF Quot
<1> HIDE DEF p, q
<1>3. u \in Nat /\ u < q /\ k \in Nat /\ p = q * k + u
  BY <1>1
<1> HIDE DEF u, k
<1>4. q * k \in Nat /\ (- q) * k = - (q * k) /\ q * (- k) = - (q * k) /\ (- q) * (- k) = q * k
  BY <1>1, <1>3
<1>5. y * Quot(x, y) = IF x < 0 THEN - (q * k) ELSE q * k
  BY <1>1, <1>2, <1>3, <1>4
<1>6. Rem(x, y) = IF x < 0 THEN - u ELSE u
  BY <1>1, <1>3, <1>4, <1>5 DEF Rem
<1>7. u <= p
  BY <1>1, <1>3, <1>4
<1> QED BY <1>3, <1>6, <1>7 DEF p, q, u

\* The truncated quotient is the quotient of the magnitudes with the sign of both.
LEMMA QuotIs ==
  ASSUME NEW x \in Int, NEW y \in Int, y # 0
  PROVE  LET k == AbsInt(x) \div AbsInt(y)
         IN  /\ k \in Nat /\ k <= AbsInt(x)
             /\ Quot(x, y) = IF (x < 0) # (y < 0) THEN - k ELSE k
<1>1. AbsInt(x) \in Nat /\ AbsInt(y) \in Nat /\ AbsInt(y) > 0
  BY DEF AbsInt
<1>2. AbsInt(x) \div AbsInt(y) \in Nat /\ AbsInt(x) \div AbsInt(y) <= AbsInt(x)
  BY <1>1
<1> QED BY <1>2 DEF Quot

\* The magnitudes, and what the division of the magnitudes returns.
LEMMA Magnitudes ==
  ASSUME NEW n \in Nat \ {0}, NEW a \in Bits(n), NEW b \in Bits(n)
  PROVE  LET x == Signed(Number(a), n)
             y == Signed(Number(b), n)
             d == AbsDivision(a, b)
         IN  /\ d.quo \in Bits(n) /\ d.rem \in Bits(n)
             /\ AbsInt(x) <= TwoTo(n - 1) /\ AbsInt(y) <= TwoTo(n - 1) /\ (y = 0 <=> Number(b) = 0)
             /\ Number(d.quo) = IF y = 0 THEN TwoTo(n) - 1 ELSE AbsInt(x) \div AbsInt(y)
             /\ Number(d.rem) = IF y = 0 THEN AbsInt(x) ELSE AbsInt(x) % AbsInt(y)
<1> DEFINE x == Signed(Number(a), n)
           y == Signed(Number(b), n)
           p == abs_bits(a)
           q == abs_bits(b)
           d == AbsDivision(a, b)
<1>1. /\ p \in Bits(n) /\ Number(p) = AbsInt(x) /\ Number(p) <= TwoTo(n - 1)
      /\ q \in Bits(n) /\ Number(q) = AbsInt(y) /\ Number(q) <= TwoTo(n - 1) /\ (Number(q) = 0 <=> Number(b) = 0)
  BY AbsNumber
<1>2. d = udiv_urem(p, q)
  BY DEF AbsDivision
<1>3. /\ d.quo \in Bits(n) /\ Number(d.quo) = UDiv(Number(p), Number(q), n)
      /\ d.rem \in Bits(n)
      /\ Number(d.rem) = IF Number(q) = 0 THEN Number(p) ELSE Number(p) % Number(q)
  BY <1>1, <1>2, DivisionExact
<1>4. y \in Int
  BY SignedBits
<1>5. y = 0 <=> AbsInt(y) = 0
  BY <1>4 DEF AbsInt
<1> HIDE DEF x, y, d, p, q
<1>6. Number(d.quo) = IF y = 0 THEN TwoTo(n) - 1 ELSE AbsInt(x) \div AbsInt(y)
  BY <1>1, <1>3, <1>5 DEF UDiv
<1>7. Number(d.rem) = IF y = 0 THEN AbsInt(x) ELSE AbsInt(x) % AbsInt(y)
  BY <1>1, <1>3, <1>5
<1>8. AbsInt(x) <= TwoTo(n - 1) /\ AbsInt(y) <= TwoTo(n - 1) /\ (y = 0 <=> Number(b) = 0)
  BY <1>1, <1>5
<1> QED BY <1>3, <1>6, <1>7, <1>8 DEF x, y, d

\* Reading numbers modulo 2^n, the arithmetic of the signed operators.
LEMMA SignedWraps ==
  ASSUME NEW h \in Nat, h >= 1, NEW x \in Int, -h <= x, x < h
  PROVE  /\ (IF x < 0 THEN x + 2 * h ELSE x) = x % (2 * h)
         /\ x < 0 => (- AbsInt(x)) % (2 * h) = x % (2 * h)
         /\ x >= 0 => AbsInt(x) = x
<1>1. (IF x < 0 THEN x + 2 * h ELSE x) = x % (2 * h)
  BY ModBelow
<1> QED BY <1>1 DEF AbsInt

\* Signed quotient and remainder modulo the width, from the magnitudes.
LEMMA SignedDivisionNumbers ==
  ASSUME NEW h \in Nat, h >= 1, NEW x \in -h .. h - 1, NEW y \in -h .. h - 1, NEW w, w = 2 * h, AbsInt(x) <= h
  PROVE  /\ y # 0 => Quot(x, y) % w = LET k == AbsInt(x) \div AbsInt(y) IN IF (x < 0) # (y < 0) THEN (- k) % w
                                                                           ELSE k
         /\ y # 0 => Rem(x, y) % w = LET u == AbsInt(x) % AbsInt(y) IN IF x < 0 THEN (- u) % w ELSE u
         /\ (- (w - 1)) % w = 1
<1>1. ASSUME y # 0
      PROVE  Quot(x, y) % w = LET k == AbsInt(x) \div AbsInt(y) IN IF (x < 0) # (y < 0) THEN (- k) % w ELSE k
  <2> DEFINE k == AbsInt(x) \div AbsInt(y)
  <2>1. k \in Nat /\ k <= AbsInt(x) /\ Quot(x, y) = IF (x < 0) # (y < 0) THEN - k ELSE k
    BY <1>1, QuotIs
  <2> HIDE DEF k
  <2>2. k % w = k
    <3>1. 0 <= k /\ k < w /\ AbsInt(x) \in Int
      BY <2>1 DEF AbsInt
    <3> QED BY <2>1, <3>1, ModBelow
  <2>3. CASE (x < 0) # (y < 0)
    BY <2>1, <2>3 DEF k
  <2>4. CASE ~ ((x < 0) # (y < 0))
    BY <2>1, <2>2, <2>4 DEF k
  <2> QED BY <2>3, <2>4
<1>2. ASSUME y # 0
      PROVE  Rem(x, y) % w = LET u == AbsInt(x) % AbsInt(y) IN IF x < 0 THEN (- u) % w ELSE u
  <2> DEFINE u == AbsInt(x) % AbsInt(y)
  <2>1. u \in Nat /\ u <= AbsInt(x) /\ Rem(x, y) = IF x < 0 THEN - u ELSE u
    BY <1>2, RemIs
  <2> HIDE DEF u
  <2>2. u % w = u
    <3>1. 0 <= u /\ u < w /\ AbsInt(x) \in Int
      BY <2>1 DEF AbsInt
    <3> QED BY <2>1, <3>1, ModBelow
  <2>3. CASE x < 0
    BY <2>1, <2>3 DEF u
  <2>4. CASE ~ (x < 0)
    BY <2>1, <2>2, <2>4 DEF u
  <2> QED BY <2>3, <2>4
<1>3. (- (w - 1)) % w = 1
  BY ModBelow
<1> QED BY <1>1, <1>2, <1>3

\* What the signed operators start from.
LEMMA SignedOperands ==
  ASSUME NEW n \in Nat \ {0}, NEW a \in Bits(n)
  PROVE  LET h == TwoTo(n - 1)
             x == Signed(Number(a), n)
         IN  /\ h \in Nat /\ h >= 1 /\ TwoTo(n) = 2 * h
             /\ x \in -h .. h - 1 /\ Last(a) \in BOOLEAN /\ (Last(a) <=> x < 0)
             /\ Number(a) = x % TwoTo(n) /\ Number(a) = IF x < 0 THEN x + TwoTo(n) ELSE x
<1> DEFINE h == TwoTo(n - 1)
           x == Signed(Number(a), n)
<1>1. /\ h \in Nat /\ h >= 1 /\ TwoTo(n) = 2 * h /\ Last(a) = a[n] /\ a[n] \in BOOLEAN
      /\ Number(a) \in Nat /\ Number(a) < TwoTo(n) /\ (a[n] <=> Number(a) >= h)
  BY SignBit
<1>2. x \in -h .. h - 1 /\ (a[n] <=> x < 0)
  BY <1>1, SignedBits
<1>3. Number(a) = IF x < 0 THEN x + TwoTo(n) ELSE x
  BY <1>1, <1>2 DEF Signed
<1> HIDE DEF h, x
<1>4. Number(a) = x % TwoTo(n)
  BY <1>1, <1>2, <1>3, SignedWraps
<1> QED BY <1>1, <1>2, <1>3, <1>4 DEF h, x

\* Signed division (circuits.rs sdiv) is exact, division by zero included,
THEOREM SDivExact ==
  ASSUME NEW n \in Nat \ {0}, NEW a \in Bits(n), NEW b \in Bits(n)
  PROVE  sdiv(a, b) \in Bits(n) /\ Number(sdiv(a, b)) = SDiv(Number(a), Number(b), n)
<1> DEFINE h == TwoTo(n - 1)
           w == TwoTo(n)
           x == Signed(Number(a), n)
           y == Signed(Number(b), n)
           d == AbsDivision(a, b)
<1>1. /\ h \in Nat /\ h >= 1 /\ w = 2 * h /\ x \in -h .. h - 1 /\ y \in -h .. h - 1
      /\ Last(a) \in BOOLEAN /\ (Last(a) <=> x < 0) /\ Last(b) \in BOOLEAN /\ (Last(b) <=> y < 0)
  BY SignedOperands
<1>2. d.quo \in Bits(n) /\ AbsInt(x) <= h /\ Number(d.quo) = IF y = 0 THEN w - 1 ELSE AbsInt(x) \div AbsInt(y)
  BY Magnitudes
<1>3. /\ sdiv(a, b) \in Bits(n)
      /\ Number(sdiv(a, b)) = IF Last(a) # Last(b) THEN (- Number(d.quo)) % w ELSE Number(d.quo)
  BY <1>2, NegatedNumber DEF sdiv
<1>4. Last(a) # Last(b) <=> (x < 0) # (y < 0)
  BY <1>1
<1>5. SDiv(Number(a), Number(b), n) = IF y = 0 THEN IF x < 0 THEN 1 ELSE w - 1 ELSE Quot(x, y) % w
  BY DEF SDiv
<1> HIDE DEF h, w, x, y, d
<1>6. CASE y = 0
  <2>1. (- (w - 1)) % w = 1
    BY <1>1, <1>2, SignedDivisionNumbers
  <2> QED BY <1>1, <1>2, <1>3, <1>4, <1>5, <1>6, <2>1
<1>7. CASE y # 0
  <2>1. Quot(x, y) % w = IF (x < 0) # (y < 0) THEN (- (AbsInt(x) \div AbsInt(y))) % w ELSE AbsInt(x) \div AbsInt(y)
    BY <1>1, <1>2, <1>7, SignedDivisionNumbers
  <2> QED BY <1>2, <1>3, <1>4, <1>5, <1>7, <2>1
<1> QED BY <1>6, <1>7

\* and so are the signed remainder that takes the sign of the dividend (srem),
THEOREM SRemExact ==
  ASSUME NEW n \in Nat \ {0}, NEW a \in Bits(n), NEW b \in Bits(n)
  PROVE  srem(a, b) \in Bits(n) /\ Number(srem(a, b)) = SRem(Number(a), Number(b), n)
<1> DEFINE h == TwoTo(n - 1)
           w == TwoTo(n)
           x == Signed(Number(a), n)
           y == Signed(Number(b), n)
           d == AbsDivision(a, b)
<1>1. /\ h \in Nat /\ h >= 1 /\ w = 2 * h /\ x \in -h .. h - 1 /\ y \in -h .. h - 1
      /\ Last(a) \in BOOLEAN /\ (Last(a) <=> x < 0) /\ Number(a) = x % w
  BY SignedOperands
<1>2. /\ d.rem \in Bits(n) /\ AbsInt(x) <= h /\ (y = 0 <=> Number(b) = 0)
      /\ Number(d.rem) = IF y = 0 THEN AbsInt(x) ELSE AbsInt(x) % AbsInt(y)
  BY Magnitudes
<1>3. /\ srem(a, b) \in Bits(n)
      /\ Number(srem(a, b)) = IF Last(a) THEN (- Number(d.rem)) % w ELSE Number(d.rem)
  BY <1>2, NegatedNumber DEF srem
<1>4. SRem(Number(a), Number(b), n) = IF y = 0 THEN Number(a) ELSE Rem(x, y) % w
  BY <1>2 DEF SRem
<1> HIDE DEF h, w, x, y, d
<1>5. CASE y = 0
  <2>1. (x < 0 => (- AbsInt(x)) % w = x % w) /\ (x >= 0 => AbsInt(x) = x % w)
    <3>1. x \in Int /\ -h <= x /\ x < h
      BY <1>1
    <3>2. /\ (IF x < 0 THEN x + 2 * h ELSE x) = x % (2 * h)
          /\ x < 0 => (- AbsInt(x)) % (2 * h) = x % (2 * h)
          /\ x >= 0 => AbsInt(x) = x
      BY <1>1, <3>1, SignedWraps, Zenon
    <3> QED BY <1>1, <3>1, <3>2
  <2> QED BY <1>1, <1>2, <1>3, <1>4, <1>5, <2>1
<1>6. CASE y # 0
  <2>1. Rem(x, y) % w = IF x < 0 THEN (- (AbsInt(x) % AbsInt(y))) % w ELSE AbsInt(x) % AbsInt(y)
    BY <1>1, <1>2, <1>6, SignedDivisionNumbers
  <2> QED BY <1>1, <1>2, <1>3, <1>4, <1>6, <2>1
<1> QED BY <1>5, <1>6

\* The modulus from the remainder u of the magnitudes, by the two signs.
ModBySigns(sa, sb, y, u, w) ==
  IF sb THEN IF sa THEN (- u) % w ELSE (y + u) % w
  ELSE IF sa THEN (y - u) % w ELSE u

\* The multiplexers of smod by the two signs, as a number.
LEMMA BySignsNumber ==
  ASSUME NEW n \in Nat \ {0}, NEW a \in Bits(n), NEW b \in Bits(n), NEW u \in Bits(n)
  PROVE  /\ UnlessExact(Last(a), Last(b), b, u) \in Bits(n)
         /\ Number(UnlessExact(Last(a), Last(b), b, u)) =
              IF Number(u) = 0 THEN 0 ELSE ModBySigns(Last(a), Last(b), Number(b), Number(u), TwoTo(n))
<1> DEFINE sa == Last(a)
           sb == Last(b)
<1> HIDE DEF sa, sb
<1>1. /\ neg_bits(u) \in Bits(n) /\ Number(neg_bits(u)) = (- Number(u)) % TwoTo(n)
      /\ add_bits(b, u) \in Bits(n) /\ Number(add_bits(b, u)) = (Number(b) + Number(u)) % TwoTo(n)
      /\ sub_bits(b, u) \in Bits(n) /\ Number(sub_bits(b, u)) = (Number(b) - Number(u)) % TwoTo(n)
  BY SumsExact
<1>2. /\ mux_bits(sa, neg_bits(u), add_bits(b, u)) = IF sa THEN neg_bits(u) ELSE add_bits(b, u)
      /\ mux_bits(sa, sub_bits(b, u), u) = IF sa THEN sub_bits(b, u) ELSE u
  BY <1>1, MuxBits
<1>3. BySigns(sa, sb, b, u) =
        IF sb THEN IF sa THEN neg_bits(u) ELSE add_bits(b, u) ELSE IF sa THEN sub_bits(b, u) ELSE u
  <2> DEFINE p == mux_bits(sa, neg_bits(u), add_bits(b, u))
             q == mux_bits(sa, sub_bits(b, u), u)
  <2>1. p \in Bits(n) /\ q \in Bits(n)
    BY <1>1, <1>2
  <2>2. BySigns(sa, sb, b, u) = mux_bits(sb, p, q)
    BY DEF BySigns
  <2> HIDE DEF p, q
  <2>3. BySigns(sa, sb, b, u) = IF sb THEN p ELSE q
    BY <2>1, <2>2, MuxBits
  <2> QED BY <1>2, <2>3 DEF p, q
<1>4. BySigns(sa, sb, b, u) \in Bits(n)
      /\ Number(BySigns(sa, sb, b, u)) = ModBySigns(sa, sb, Number(b), Number(u), TwoTo(n))
  BY <1>1, <1>3 DEF ModBySigns
<1>5. is_zero_bits(u) <=> Number(u) = 0
  BY ZeroExact
<1>6. UnlessExact(sa, sb, b, u) = IF is_zero_bits(u) THEN u ELSE BySigns(sa, sb, b, u)
  BY <1>4, MuxBits DEF UnlessExact
<1> QED BY <1>4, <1>5, <1>6 DEF sa, sb

\* Adding the modulus changes nothing modulo it.
LEMMA ModShift ==
  ASSUME NEW w \in Nat, w > 0, NEW x \in Int, -w <= x, x < w
  PROVE  (x + w) % w = x % w
<1>1. CASE x >= 0
  BY <1>1, ModBelow
<1>2. CASE x < 0
  <2>1. (x + w) % w = x + w /\ x % w = x + w
    <3>1. x + w \in Int /\ 0 <= x + w /\ x + w < w
      BY <1>2
    <3> QED BY <1>2, <3>1, ModBelow
  <2> QED BY <2>1
<1> QED BY <1>1, <1>2

\* The four sign cases of smod give the remainder with the sign of the divisor.
LEMMA ModNumbers ==
  ASSUME NEW h \in Nat, h >= 1, NEW x \in -h .. h - 1, NEW y \in -h .. h - 1, y # 0
  PROVE  LET w == 2 * h
             b == IF y < 0 THEN y + w ELSE y
             u == AbsInt(x) % AbsInt(y)
             r == Rem(x, y)
         IN  (IF r # 0 /\ (r < 0) # (y < 0) THEN r + y ELSE r) % w
               = IF u = 0 THEN 0 ELSE ModBySigns(x < 0, y < 0, b, u, w)
<1> DEFINE w == 2 * h
           b == IF y < 0 THEN y + w ELSE y
           u == AbsInt(x) % AbsInt(y)
           r == Rem(x, y)
           m == IF r # 0 /\ (r < 0) # (y < 0) THEN r + y ELSE r
<1>1. u \in Nat /\ u < AbsInt(y) /\ r = IF x < 0 THEN - u ELSE u
  BY RemIs
<1>2. AbsInt(y) \in Nat /\ AbsInt(y) <= h
  BY DEF AbsInt
<1> HIDE DEF u, r
<1>3. u < h /\ w \in Nat /\ w > 0
  BY <1>1, <1>2
<1>4. CASE u = 0
  <2>1. r = 0
    <3>1. r = - u \/ r = u
      BY <1>1
    <3>2. r \in Int /\ r <= 0 /\ r >= 0
      BY <1>1, <1>4, <3>1
    <3> QED BY <3>2
  <2>2. m = 0
    BY <2>1
  <2>3. 0 % w = 0
    BY <1>3, ModBelow
  <2> QED BY <1>4, <2>2, <2>3 DEF u, r
<1>5. CASE u # 0
  <2>1. CASE x < 0 /\ y < 0
    <3>1. m = - u
      BY <1>1, <1>5, <2>1
    <3> QED BY <1>5, <2>1, <3>1 DEF ModBySigns, u, r
  <2>2. CASE x >= 0 /\ y < 0
    <3>1. m = u + y
      BY <1>1, <1>5, <2>2
    <3>2. b + u = (u + y) + w /\ -w <= u + y /\ u + y < w
      BY <1>1, <1>3, <2>2
    <3>3. (b + u) % w = m % w
      BY <1>1, <1>3, <3>1, <3>2, ModShift
    <3>4. ModBySigns(x < 0, y < 0, b, u, w) = (b + u) % w
      BY <2>2 DEF ModBySigns
    <3> QED BY <1>5, <3>3, <3>4 DEF u, r
  <2>3. CASE x < 0 /\ y >= 0
    <3>1. m = y - u
      BY <1>1, <1>5, <2>3
    <3>2. ModBySigns(x < 0, y < 0, b, u, w) = (y - u) % w
      BY <2>3 DEF ModBySigns
    <3> QED BY <1>5, <3>1, <3>2 DEF u, r
  <2>4. CASE x >= 0 /\ y >= 0
    <3>1. m = u
      BY <1>1, <1>5, <2>4
    <3>2. u % w = u
      BY <1>1, <1>3, ModBelow
    <3>3. ModBySigns(x < 0, y < 0, b, u, w) = u
      BY <2>4 DEF ModBySigns
    <3> QED BY <1>5, <3>1, <3>2, <3>3 DEF u, r
  <2> QED BY <2>1, <2>2, <2>3, <2>4
<1> QED BY <1>4, <1>5

\* and the one that takes the sign of the divisor (smod).
THEOREM SModExact ==
  ASSUME NEW n \in Nat \ {0}, NEW a \in Bits(n), NEW b \in Bits(n)
  PROVE  smod(a, b) \in Bits(n) /\ Number(smod(a, b)) = SMod(Number(a), Number(b), n)
<1> DEFINE h == TwoTo(n - 1)
           w == TwoTo(n)
           x == Signed(Number(a), n)
           y == Signed(Number(b), n)
           d == AbsDivision(a, b)
           sa == Last(a)
           sb == Last(b)
<1>1. /\ h \in Nat /\ h >= 1 /\ w = 2 * h /\ x \in -h .. h - 1 /\ y \in -h .. h - 1
      /\ sa \in BOOLEAN /\ (sa <=> x < 0) /\ sb \in BOOLEAN /\ (sb <=> y < 0)
      /\ Number(a) = x % w /\ Number(a) = (IF x < 0 THEN x + w ELSE x) /\ Number(b) = IF y < 0 THEN y + w ELSE y
  BY SignedOperands
<1>2. /\ d.rem \in Bits(n) /\ AbsInt(x) <= h /\ (y = 0 <=> Number(b) = 0)
      /\ Number(d.rem) = IF y = 0 THEN AbsInt(x) ELSE AbsInt(x) % AbsInt(y)
  BY Magnitudes
<1>3. smod(a, b) = UnlessExact(sa, sb, b, d.rem)
  BY DEF smod
<1>4. SMod(Number(a), Number(b), n) =
        IF y = 0 THEN Number(a)
        ELSE (IF Rem(x, y) # 0 /\ (Rem(x, y) < 0) # (y < 0) THEN Rem(x, y) + y ELSE Rem(x, y)) % w
  BY <1>2 DEF SMod
<1> HIDE DEF h, w, x, y, d, sa, sb
<1>5. /\ smod(a, b) \in Bits(n)
      /\ Number(smod(a, b)) = IF Number(d.rem) = 0 THEN 0 ELSE ModBySigns(sa, sb, Number(b), Number(d.rem), w)
  BY <1>2, <1>3, BySignsNumber DEF w, sa, sb
<1>6. ModBySigns(sa, sb, Number(b), Number(d.rem), w) = ModBySigns(x < 0, y < 0, Number(b), Number(d.rem), w)
  BY <1>1 DEF ModBySigns
<1>7. CASE y = 0
  <2>1. Number(b) = 0 /\ Number(d.rem) = AbsInt(x) /\ ~ sb
    BY <1>1, <1>2, <1>7
  <2>2. Number(smod(a, b)) = IF AbsInt(x) = 0 THEN 0 ELSE IF x < 0 THEN (0 - AbsInt(x)) % w ELSE AbsInt(x)
    BY <1>1, <1>5, <2>1 DEF ModBySigns
  <2>3. CASE x < 0
    <3>1. AbsInt(x) # 0 /\ 0 - AbsInt(x) = x
      BY <1>1, <2>3 DEF AbsInt
    <3> QED BY <1>1, <1>4, <1>5, <1>7, <2>2, <2>3, <3>1
  <2>4. CASE x >= 0
    <3>1. AbsInt(x) = x
      BY <1>1, <2>4 DEF AbsInt
    <3>2. Number(a) = x
      BY <1>1, <2>4
    <3> QED BY <1>1, <1>4, <1>5, <1>7, <2>2, <2>4, <3>1, <3>2
  <2> QED BY <1>1, <2>3, <2>4
<1>8. CASE y # 0
  <2>1. (IF Rem(x, y) # 0 /\ (Rem(x, y) < 0) # (y < 0) THEN Rem(x, y) + y ELSE Rem(x, y)) % w
          = IF AbsInt(x) % AbsInt(y) = 0 THEN 0 ELSE ModBySigns(x < 0, y < 0, Number(b), AbsInt(x) % AbsInt(y), w)
    <3>1. LET v == 2 * h
              c == IF y < 0 THEN y + v ELSE y
          IN  (IF Rem(x, y) # 0 /\ (Rem(x, y) < 0) # (y < 0) THEN Rem(x, y) + y ELSE Rem(x, y)) % v
                = IF AbsInt(x) % AbsInt(y) = 0 THEN 0 ELSE ModBySigns(x < 0, y < 0, c, AbsInt(x) % AbsInt(y), v)
      BY <1>1, <1>8, ModNumbers, Zenon
    <3> QED BY <1>1, <3>1, Zenon
  <2>2. Number(d.rem) = AbsInt(x) % AbsInt(y)
    BY <1>2, <1>8
  <2> QED BY <1>4, <1>5, <1>6, <1>8, <2>1, <2>2
<1> QED BY <1>7, <1>8

\* Powers of a sum are products of powers.
LEMMA TwoToSum ==
  ASSUME NEW i \in Nat, NEW j \in Nat
  PROVE  TwoTo(i + j) = TwoTo(i) * TwoTo(j)
<1> DEFINE T == {k \in 0 .. j : TwoTo(i + k) = TwoTo(i) * TwoTo(k)}
<1>1. 0 \in T
  <2>1. i + 0 = i /\ TwoTo(0) = 1 /\ TwoTo(i) \in Nat
    BY TwoToIs
  <2> QED BY <2>1
<1>2. ASSUME NEW k \in 1 .. j, k - 1 \in T
      PROVE  k \in T
  <2>1. i + (k - 1) \in Nat /\ (i + (k - 1)) + 1 = i + k /\ k - 1 \in Nat /\ (k - 1) + 1 = k
    OBVIOUS
  <2>2. TwoTo(i + k) = 2 * TwoTo(i + (k - 1)) /\ TwoTo(k) = 2 * TwoTo(k - 1) /\ TwoTo(k - 1) \in Nat
        /\ TwoTo(i) \in Nat
    BY <2>1, TwoToIs
  <2>3. TwoTo(i + (k - 1)) = TwoTo(i) * TwoTo(k - 1)
    BY <1>2
  <2>4. 2 * (TwoTo(i) * TwoTo(k - 1)) = TwoTo(i) * (2 * TwoTo(k - 1))
    BY <2>2
  <2> QED BY <2>2, <2>3, <2>4
<1>3. j \in T
  <2>1. T \subseteq Nat
    OBVIOUS
  <2> HIDE DEF T
  <2> QED BY <1>1, <1>2, <2>1, Climb
<1> QED BY <1>3

\* The bits above the first k make a multiple of 2^k.
LEMMA UpperBits ==
  ASSUME NEW n \in Nat, NEW x \in Bits(n), NEW m \in 0 .. n
  PROVE  \E c \in Nat : Number(x) = numbers(x, n)[m] + TwoTo(m) * c
<1> DEFINE v == numbers(x, n)
           T == {k \in 0 .. n : \A l \in 0 .. n : k + l = n => \E c \in Nat : v[n] = v[l] + TwoTo(l) * c}
<1>1. \A l \in 0 .. n : v[l] \in Nat /\ TwoTo(l) \in Nat
  BY NumbersRange, TwoToIs
<1> HIDE DEF v
<1>2. 0 \in T
  <2>1. v[n] = v[n] + TwoTo(n) * 0
    BY <1>1
  <2>2. \A l \in 0 .. n : 0 + l = n => l = n
    OBVIOUS
  <2> QED BY <2>1, <2>2
<1>3. ASSUME NEW k \in 1 .. n, k - 1 \in T
      PROVE  k \in T
  <2> SUFFICES ASSUME NEW l \in 0 .. n, k + l = n
               PROVE  \E c \in Nat : v[n] = v[l] + TwoTo(l) * c
    OBVIOUS
  <2>1. l + 1 \in 0 .. n /\ l + 1 \in 1 .. n /\ (k - 1) + (l + 1) = n /\ (l + 1) - 1 = l
    OBVIOUS
  <2>2. PICK c \in Nat : v[n] = v[l + 1] + TwoTo(l + 1) * c
    BY <1>3, <2>1
  <2>3. v[l + 1] = v[l] + Worth(x[l + 1], TwoTo(l)) /\ TwoTo(l + 1) = 2 * TwoTo(l)
    BY <2>1, NumbersWorth, TwoToIs DEF v
  <2>4. CASE x[l + 1]
    <3>1. v[n] = v[l] + TwoTo(l) * (1 + 2 * c) /\ 1 + 2 * c \in Nat
      BY <1>1, <2>1, <2>2, <2>3, <2>4 DEF Worth
    <3> QED BY <3>1
  <2>5. CASE ~ x[l + 1]
    <3>1. v[n] = v[l] + TwoTo(l) * (2 * c) /\ 2 * c \in Nat
      BY <1>1, <2>1, <2>2, <2>3, <2>5 DEF Worth
    <3> QED BY <3>1
  <2> QED BY <2>4, <2>5
<1>4. \A k \in 0 .. n : k \in T
  <2>1. T \subseteq Nat
    OBVIOUS
  <2> HIDE DEF T
  <2> QED BY <1>2, <1>3, <2>1, ClimbAll
<1>5. n - m \in 0 .. n /\ (n - m) + m = n
  OBVIOUS
<1>6. Number(x) = v[n]
  BY NumberRange DEF v
<1> QED BY <1>4, <1>5, <1>6 DEF v

\* x moved up by s places is x times 2^s, but for the bits that leave at the top.
LEMMA PartialNumber ==
  ASSUME NEW n \in Nat, NEW x \in Bits(n), NEW s \in 0 .. n, NEW sel \in BOOLEAN
  PROVE  /\ Partial(x, s, n, sel) \in Bits(n)
         /\ \E c \in Nat : Number(x) * Worth(sel, TwoTo(s)) = Number(Partial(x, s, n, sel)) + TwoTo(n) * c
<1> DEFINE y == Partial(x, s, n, sel)
           vx == numbers(x, n)
           vy == numbers(y, n)
           w == TwoTo(s)
           T == {k \in 0 .. n : vy[k] = IF k <= s THEN 0 ELSE vx[k - s] * Worth(sel, w)}
<1>1. y \in Bits(n) /\ \A i \in 1 .. n : y[i] <=> i > s /\ x[i - s] /\ sel
  <2>1. DOMAIN x = 1 .. n /\ \A i \in 1 .. n : x[i] \in BOOLEAN
    BY DEF Bits
  <2>2. y = [i \in 1 .. n |-> i - s \in 1 .. n /\ x[i - s] /\ sel]
    BY <2>1 DEF Partial
  <2>3. \A i \in 1 .. n : i - s \in 1 .. n <=> i > s
    OBVIOUS
  <2> HIDE DEF y
  <2>4. y \in Bits(n)
    BY <2>2, Zenon DEF Bits
  <2>5. \A i \in 1 .. n : y[i] = (i - s \in 1 .. n /\ x[i - s] /\ sel)
    BY <2>2, Zenon
  <2> QED BY <2>3, <2>4, <2>5
<1> HIDE DEF y
<1>2. w \in Nat /\ Worth(sel, w) \in Nat
  BY TwoToIs DEF Worth
<1>3. \A k \in 0 .. n : vx[k] \in Nat
  BY NumbersRange
<1>4. 0 \in T
  <2>1. vy[0] = 0
    BY NumbersStep
  <2> QED BY <2>1
<1>5. ASSUME NEW k \in 1 .. n, k - 1 \in T
      PROVE  k \in T
  <2>1. vy[k] = vy[k - 1] + Worth(y[k], TwoTo(k - 1)) /\ vy[k - 1] \in Nat
    BY <1>1, NumbersWorth
  <2>2. vy[k - 1] = IF k - 1 <= s THEN 0 ELSE vx[k - 1 - s] * Worth(sel, w)
    BY <1>5
  <2>3. CASE k <= s
    <3>1. ~ y[k] /\ vy[k - 1] = 0
      BY <1>1, <2>2, <2>3
    <3>2. vy[k] = 0
      BY <2>1, <3>1 DEF Worth
    <3> QED BY <2>3, <3>2
  <2>4. CASE k > s
    <3> DEFINE i == k - s
    <3>1. i \in 1 .. n /\ i - 1 \in 0 .. n /\ k - 1 - s = i - 1 /\ k - 1 = s + (i - 1) /\ i - 1 \in Nat
      BY <2>4
    <3>2. TwoTo(k - 1) = w * TwoTo(i - 1) /\ TwoTo(i - 1) \in Nat
      <4>1. TwoTo(s + (i - 1)) = TwoTo(s) * TwoTo(i - 1)
        BY <3>1, TwoToSum
      <4> QED BY <3>1, <4>1, TwoToIs
    <3>3. vx[i] = vx[i - 1] + Worth(x[i], TwoTo(i - 1)) /\ vx[i - 1] \in Nat /\ x[i] \in BOOLEAN
      BY <3>1, NumbersWorth
    <3>4. vy[k - 1] = vx[i - 1] * Worth(sel, w)
      <4>1. CASE i = 1
        <5>1. vx[i - 1] = 0 /\ vy[k - 1] = 0
          BY <2>2, <4>1, NumbersStep
        <5> QED BY <1>2, <5>1
      <4>2. CASE i # 1
        BY <2>2, <2>4, <3>1, <4>2
      <4> QED BY <4>1, <4>2
    <3>5. y[k] <=> x[i] /\ sel
      BY <1>1, <2>4
    <3> HIDE DEF i, vx, vy, w
    <3>6. CASE sel
      <4>1. Worth(sel, w) = w /\ Worth(y[k], TwoTo(k - 1)) = Worth(x[i], TwoTo(i - 1)) * w
        BY <1>2, <3>2, <3>5, <3>6 DEF Worth
      <4>2. Worth(x[i], TwoTo(i - 1)) \in Nat
        BY <3>2 DEF Worth
      <4>3. vy[k] = vx[i] * Worth(sel, w)
        BY <1>2, <2>1, <3>3, <3>4, <4>1, <4>2
      <4> QED BY <2>4, <4>3 DEF i
    <3>7. CASE ~ sel
      <4>1. Worth(sel, w) = 0 /\ Worth(y[k], TwoTo(k - 1)) = 0
        BY <3>5, <3>7 DEF Worth
      <4>2. vy[k] = vx[i] * Worth(sel, w)
        BY <1>2, <2>1, <3>1, <3>3, <3>4, <4>1, <1>3
      <4> QED BY <2>4, <4>2 DEF i
    <3> QED BY <3>6, <3>7
  <2> QED BY <2>3, <2>4
<1>6. \A k \in 0 .. n : k \in T
  <2>1. T \subseteq Nat
    OBVIOUS
  <2> HIDE DEF T
  <2> QED BY <1>4, <1>5, <2>1, ClimbAll
<1>7. Number(y) = vx[n - s] * Worth(sel, w)
  <2>1. Number(y) = vy[n] /\ vx[0] = 0
    BY <1>1, NumberRange, NumbersStep
  <2>2. n \in 0 .. n /\ vy[n] = IF n <= s THEN 0 ELSE vx[n - s] * Worth(sel, w)
    BY <1>6
  <2>3. n <= s => n - s = 0
    OBVIOUS
  <2> QED BY <1>2, <2>1, <2>2, <2>3
<1>8. PICK c \in Nat : Number(x) = vx[n - s] + TwoTo(n - s) * c
  BY UpperBits
<1>9. TwoTo(n) = TwoTo(n - s) * w /\ TwoTo(n - s) \in Nat /\ n - s \in 0 .. n
  <2>1. n - s \in Nat /\ (n - s) + s = n
    OBVIOUS
  <2>2. TwoTo((n - s) + s) = TwoTo(n - s) * TwoTo(s)
    BY <2>1, TwoToSum
  <2> QED BY <2>1, <2>2, TwoToIs
<1> HIDE DEF vx, w
<1>10. \E e \in Nat : Number(x) * Worth(sel, w) = Number(y) + TwoTo(n) * e
  <2>1. CASE sel
    <3>1. Worth(sel, w) = w
      BY <2>1 DEF Worth
    <3>2. vx[n - s] \in Nat
      BY <1>3, <1>9
    <3>3. (vx[n - s] + TwoTo(n - s) * c) * w = vx[n - s] * w + (TwoTo(n - s) * w) * c
      BY <1>2, <1>9, <3>2
    <3> QED BY <1>7, <1>8, <1>9, <3>1, <3>3
  <2>2. CASE ~ sel
    <3>1. Worth(sel, w) = 0 /\ vx[n - s] \in Nat /\ Number(x) \in Nat
      BY <1>3, <1>9, <2>2, NumberRange DEF Worth
    <3>2. Number(x) * Worth(sel, w) = Number(y) + TwoTo(n) * 0
      BY <1>2, <1>7, <1>9, <3>1
    <3> QED BY <3>2
  <2> QED BY <2>1, <2>2
<1> QED BY <1>1, <1>10 DEF y, w

\* The partial sums, and their product modulo 2^n.
LEMMA MulSums ==
  ASSUME NEW n \in Nat, NEW a \in Bits(n), NEW b \in Bits(n)
  PROVE  \A j \in 0 .. n : LET acc == partial_sums(a, b, n, n)[j]
                           IN  /\ acc \in Bits(n)
                               /\ \E c \in Int : Number(a) * numbers(b, n)[j] = Number(acc) + TwoTo(n) * c
<1> DEFINE sums == partial_sums(a, b, n, n)
           vb == numbers(b, n)
           T == {j \in 0 .. n : /\ sums[j] \in Bits(n)
                                /\ \E c \in Int : Number(a) * vb[j] = Number(sums[j]) + TwoTo(n) * c}
           no == Same_bits(n, FALSE)
<1>2. sums = [j \in 0 .. n |-> IF j = 0 THEN no ELSE add_partial(sums[j - 1], a, b, n, j)]
  BY SumsAre, Zenon
<1>3. no \in Bits(n) /\ Number(no) = 0
  BY SameNumber
<1> HIDE DEF sums, no
<1>4. sums[0] = no /\ \A j \in 1 .. n : sums[j] = add_partial(sums[j - 1], a, b, n, j)
  BY <1>2
<1>5. Number(a) \in Nat /\ TwoTo(n) \in Nat /\ TwoTo(n) > 0
  BY NumberRange, TwoToIs
<1>6. 0 \in T
  <2>1. vb[0] = 0
    BY NumbersStep
  <2>2. Number(a) * vb[0] = Number(sums[0]) + TwoTo(n) * 0
    BY <1>3, <1>4, <1>5, <2>1
  <2> QED BY <1>3, <1>4, <2>2
<1>7. ASSUME NEW j \in 1 .. n, j - 1 \in T
      PROVE  j \in T
  <2> DEFINE old == sums[j - 1]
             part == Partial(a, j - 1, n, b[j])
             w == Worth(b[j], TwoTo(j - 1))
  <2>1. old \in Bits(n) /\ j - 1 \in 0 .. n /\ sums[j] = add_bits(old, part)
    BY <1>4, <1>7 DEF add_partial
  <2>2. PICK c \in Int : Number(a) * vb[j - 1] = Number(old) + TwoTo(n) * c
    BY <1>7
  <2>3. vb[j] = vb[j - 1] + w /\ vb[j - 1] \in Nat /\ b[j] \in BOOLEAN /\ w \in Nat
    BY NumbersWorth, TwoToStep DEF Worth
  <2>4. part \in Bits(n) /\ \E e \in Nat : Number(a) * w = Number(part) + TwoTo(n) * e
    BY <2>1, <2>3, PartialNumber
  <2> HIDE DEF old, part
  <2>5. PICK e \in Nat : Number(a) * w = Number(part) + TwoTo(n) * e
    BY <2>4
  <2>6. sums[j] \in Bits(n) /\ Number(sums[j]) = (Number(old) + Number(part)) % TwoTo(n)
    BY <2>1, <2>4, SumsExact
  <2>7. Number(old) \in Nat /\ Number(part) \in Nat
    BY <2>1, <2>4, NumberRange
  <2> DEFINE q == (Number(old) + Number(part)) \div TwoTo(n)
  <2>8. q \in Int /\ Number(old) + Number(part) = TwoTo(n) * q + Number(sums[j]) /\ Number(sums[j]) \in Nat
    <3>1. \A x \in Nat, m \in Nat : m > 0 => x \div m \in Int /\ x = m * (x \div m) + (x % m) /\ x % m \in Nat
      OBVIOUS
    <3>2. Number(old) + Number(part) \in Nat
      BY <2>7
    <3> QED BY <1>5, <2>6, <3>1, <3>2
  <2> HIDE DEF q, w, vb
  <2>9. Number(a) * vb[j] = Number(a) * vb[j - 1] + Number(a) * w
    BY <1>5, <2>3
  <2>10. TwoTo(n) * (q + c + e) = TwoTo(n) * q + TwoTo(n) * c + TwoTo(n) * e /\ TwoTo(n) * q \in Int
         /\ TwoTo(n) * c \in Int /\ TwoTo(n) * e \in Int
    BY <1>5, <2>8
  <2>11. Number(a) * vb[j] = Number(sums[j]) + TwoTo(n) * (q + c + e) /\ q + c + e \in Int
    BY <2>2, <2>5, <2>7, <2>8, <2>9, <2>10
  <2> QED BY <2>6, <2>11
<1>8. \A j \in 0 .. n : j \in T
  <2>1. T \subseteq Nat
    OBVIOUS
  <2> HIDE DEF T
  <2> QED BY <1>6, <1>7, <2>1, ClimbAll
<1> QED BY <1>8 DEF sums

\* The shift-and-add multiplier (circuits.rs mul_width) is exact at every width, wrapped to it.
THEOREM MulWidthExact ==
  ASSUME NEW n \in Nat, NEW a \in Bits(n), NEW b \in Bits(n)
  PROVE  mul_width(a, b, n) \in Bits(n) /\ Number(mul_width(a, b, n)) = (Number(a) * Number(b)) % TwoTo(n)
<1> DEFINE p == partial_sums(a, b, n, n)[n]
<1>1. mul_width(a, b, n) = p
  BY BitsLen DEF mul_width
<1>2. n \in 0 .. n /\ Number(b) = numbers(b, n)[n] /\ TwoTo(n) \in Nat /\ TwoTo(n) > 0
  BY NumberRange, TwoToIs
<1>3. p \in Bits(n) /\ \E c \in Int : Number(a) * Number(b) = Number(p) + TwoTo(n) * c
  BY <1>2, MulSums
<1> HIDE DEF p
<1>4. PICK c \in Int : Number(a) * Number(b) = Number(p) + TwoTo(n) * c
  BY <1>3
<1>5. Number(p) \in 0 .. TwoTo(n) - 1
  BY <1>2, <1>3, NumberRange
<1>6. (Number(p) + TwoTo(n) * c) % TwoTo(n) = Number(p)
  BY <1>2, <1>5, QuotientIs, Zenon
<1> QED BY <1>1, <1>3, <1>4, <1>6

\* Two sequences of bits put together.
LEMMA JoinBits ==
  ASSUME NEW n \in Nat, NEW m \in Nat, NEW x \in Bits(n), NEW y \in Bits(m)
  PROVE  x \o y \in Bits(n + m) /\ (\A k \in 1 .. n : (x \o y)[k] = x[k])
         /\ \A k \in 1 .. m : (x \o y)[n + k] = y[k]
<1> DEFINE z == x \o y
<1>1. x \in Seq(BOOLEAN) /\ y \in Seq(BOOLEAN) /\ Len(x) = n /\ Len(y) = m
  BY BitsLen DEF Bits
<1>2. z \in Seq(BOOLEAN) /\ Len(z) = n + m /\ DOMAIN z = 1 .. n + m
  BY <1>1
<1>3. (\A k \in 1 .. n : z[k] = x[k]) /\ \A k \in 1 .. m : z[n + k] = y[k]
  BY <1>1
<1> HIDE DEF z
<1>4. z \in [1 .. n + m -> BOOLEAN]
  BY <1>2
<1>5. z \in Bits(n + m)
  BY <1>4 DEF Bits
<1> QED BY <1>3, <1>5 DEF z

\* Bits put one after the other.
LEMMA JoinNumber ==
  ASSUME NEW n \in Nat, NEW m \in Nat, NEW x \in Bits(n), NEW y \in Bits(m)
  PROVE  x \o y \in Bits(n + m) /\ Number(x \o y) = Number(x) + TwoTo(n) * Number(y)
<1> DEFINE z == x \o y
           vx == numbers(x, n)
           vy == numbers(y, m)
           vz == numbers(z, n + m)
           S == {k \in 0 .. n : vz[k] = vx[k]}
           T == {k \in 0 .. m : vz[n + k] = vx[n] + TwoTo(n) * vy[k]}
<1>1. z \in Bits(n + m) /\ (\A k \in 1 .. n : z[k] = x[k]) /\ \A k \in 1 .. m : z[n + k] = y[k]
  BY JoinBits
<1> HIDE DEF z
<1>2. n + m \in Nat /\ vz[0] = 0 /\ vx[0] = 0 /\ vy[0] = 0
  BY NumbersStep
<1>3. 0 \in S
  BY <1>2
<1>4. ASSUME NEW k \in 1 .. n, k - 1 \in S
      PROVE  k \in S
  <2>1. k \in 1 .. n + m
    OBVIOUS
  <2>2. vz[k] = vz[k - 1] + Worth(z[k], TwoTo(k - 1))
    BY <1>1, <1>2, <2>1, NumbersWorth
  <2>3. vx[k] = vx[k - 1] + Worth(x[k], TwoTo(k - 1))
    BY NumbersWorth
  <2> QED BY <1>1, <1>4, <2>2, <2>3
<1>5. n \in S
  <2>1. S \subseteq Nat
    OBVIOUS
  <2> HIDE DEF S
  <2> QED BY <1>3, <1>4, <2>1, Climb
<1>6. vx[n] \in Nat /\ TwoTo(n) \in Nat
  BY NumberRange, TwoToIs
<1>7. 0 \in T
  <2>1. n + 0 = n
    OBVIOUS
  <2>2. vz[n + 0] = vx[n] + TwoTo(n) * 0
    BY <1>5, <1>6, <2>1
  <2> QED BY <1>2, <2>2
<1>8. ASSUME NEW k \in 1 .. m, k - 1 \in T
      PROVE  k \in T
  <2> DEFINE w == TwoTo(k - 1)
  <2>1. n + k \in 1 .. n + m /\ (n + k) - 1 = n + (k - 1) /\ k - 1 \in Nat
    OBVIOUS
  <2>2. vz[n + k] = vz[(n + k) - 1] + Worth(z[n + k], TwoTo((n + k) - 1))
    BY <1>1, <1>2, <2>1, NumbersWorth
  <2>3. vy[k] = vy[k - 1] + Worth(y[k], w) /\ vy[k - 1] \in Nat /\ y[k] \in BOOLEAN
    BY NumbersWorth
  <2>4. TwoTo(n + (k - 1)) = TwoTo(n) * w /\ w \in Nat
    BY <2>1, TwoToSum, TwoToIs
  <2>5. vz[n + (k - 1)] = vx[n] + TwoTo(n) * vy[k - 1]
    BY <1>8
  <2>6. Worth(y[k], TwoTo(n) * w) = TwoTo(n) * Worth(y[k], w) /\ Worth(y[k], w) \in Nat
    BY <1>6, <2>4 DEF Worth
  <2> HIDE DEF vx, vy, vz, w
  <2>7. vz[n + k] = (vx[n] + TwoTo(n) * vy[k - 1]) + TwoTo(n) * Worth(y[k], w)
    BY <1>1, <2>1, <2>2, <2>4, <2>5, <2>6
  <2>8. TwoTo(n) * (vy[k - 1] + Worth(y[k], w)) = TwoTo(n) * vy[k - 1] + TwoTo(n) * Worth(y[k], w)
    BY <1>6, <2>3, <2>6
  <2>9. TwoTo(n) * vy[k - 1] \in Nat /\ TwoTo(n) * Worth(y[k], w) \in Nat
    BY <1>6, <2>3, <2>6
  <2>10. vz[n + k] = vx[n] + TwoTo(n) * vy[k]
    BY <1>6, <2>3, <2>7, <2>8, <2>9
  <2> QED BY <2>10
<1>9. m \in T
  <2>1. T \subseteq Nat
    OBVIOUS
  <2> HIDE DEF T
  <2> QED BY <1>7, <1>8, <2>1, Climb
<1>10. Number(z) = vz[n + m] /\ Number(x) = vx[n] /\ Number(y) = vy[m]
  BY <1>1, <1>2, NumberRange
<1>11. vz[n + m] = vx[n] + TwoTo(n) * vy[m]
  BY <1>9
<1>12. z \in Bits(n + m) /\ Number(z) = Number(x) + TwoTo(n) * Number(y)
  BY <1>1, <1>10, <1>11
<1> QED BY <1>12 DEF z

\* The slice [i, j) of x, and x cut at i.
Slice(x, i, j) == [k \in 1 .. j - i |-> x[i + k]]

\* A slice of a vector is the vector of its length.
LEMMA SliceBits ==
  ASSUME NEW n \in Nat, NEW x \in Bits(n), NEW i \in 0 .. n, NEW j \in i .. n
  PROVE  Slice(x, i, j) \in Bits(j - i) /\ j - i \in Nat
<1>1. \A k \in 1 .. j - i : i + k \in 1 .. n
  OBVIOUS
<1> QED BY <1>1 DEF Slice, Bits

\* A vector cut in two stands for low part + high part times the power between them.
LEMMA CutNumber ==
  ASSUME NEW n \in Nat, NEW x \in Bits(n), NEW i \in 0 .. n
  PROVE  LET low == Slice(x, 0, i)
             up  == Slice(x, i, n)
         IN  /\ low \in Bits(i) /\ up \in Bits(n - i)
             /\ Number(x) = Number(low) + TwoTo(i) * Number(up)
             /\ Number(x) % TwoTo(i) = Number(low) /\ Number(x) \div TwoTo(i) = Number(up)
<1> DEFINE low == Slice(x, 0, i)
           up == Slice(x, i, n)
<1>1. low \in Bits(i) /\ up \in Bits(n - i) /\ n - i \in Nat /\ i \in Nat
  <2>1. 0 \in 0 .. n /\ i \in 0 .. n /\ n \in i .. n /\ i - 0 = i
    OBVIOUS
  <2> QED BY <2>1, SliceBits
<1>2. x = low \o up
  <2>1. x \in Seq(BOOLEAN) /\ low \in Seq(BOOLEAN) /\ up \in Seq(BOOLEAN) /\ Len(x) = n /\ Len(low) = i
        /\ Len(up) = n - i
    BY <1>1, BitsLen DEF Bits
  <2>2. (\A k \in 1 .. i : low[k] = x[k]) /\ \A k \in 1 .. n - i : up[k] = x[i + k]
    BY DEF Slice
  <2> HIDE DEF low, up
  <2>3. Len(low \o up) = n /\ low \o up \in Seq(BOOLEAN)
    BY <2>1
  <2>4. ASSUME NEW k \in 1 .. n PROVE (low \o up)[k] = x[k]
    <3>1. CASE k <= i
      BY <2>1, <2>2, <3>1
    <3>2. CASE k > i
      <4>1. k - i \in 1 .. n - i /\ i + (k - i) = k
        BY <3>2
      <4>2. (low \o up)[k] = up[k - i]
        BY <2>1, <3>2
      <4>3. up[k - i] = x[i + (k - i)]
        BY <2>2, <4>1
      <4> QED BY <4>1, <4>2, <4>3, Zenon
    <3>3. k <= i \/ k > i
      OBVIOUS
    <3> QED BY <3>1, <3>2, <3>3, Zenon
  <2> QED BY <2>1, <2>3, <2>4
<1> HIDE DEF low, up
<1>3. i + (n - i) = n
  OBVIOUS
<1>4. Number(x) = Number(low) + TwoTo(i) * Number(up)
  BY <1>1, <1>2, JoinNumber
<1>5. TwoTo(i) \in Nat /\ TwoTo(i) > 0 /\ Number(low) \in 0 .. TwoTo(i) - 1 /\ Number(up) \in Int
  BY <1>1, NumberRange, TwoToIs
<1>6. /\ (Number(low) + TwoTo(i) * Number(up)) % TwoTo(i) = Number(low)
      /\ (Number(low) + TwoTo(i) * Number(up)) \div TwoTo(i) = Number(up)
  BY <1>5, QuotientIs, Zenon
<1> QED BY <1>1, <1>4, <1>6 DEF low, up

\* A bit of the vector is the bit of its number.
LEMMA OneBit ==
  ASSUME NEW x \in Bits(1)
  PROVE  Number(x) = Worth(x[1], 1) /\ x[1] \in BOOLEAN
<1>1. 1 \in 1 .. 1 /\ 1 - 1 = 0 /\ TwoTo(0) = 1
  BY TwoToIs
<1>2. numbers(x, 1)[1] = numbers(x, 1)[1 - 1] + Worth(x[1], TwoTo(1 - 1)) /\ x[1] \in BOOLEAN
  BY <1>1, NumbersWorth
<1>3. numbers(x, 1)[0] = 0 /\ Number(x) = numbers(x, 1)[1]
  BY NumbersStep, NumberRange
<1>4. Worth(x[1], 1) \in Nat
  BY DEF Worth
<1> QED BY <1>1, <1>2, <1>3, <1>4

\* The bits of the number of x are those of x.
LEMMA BitIs ==
  ASSUME NEW n \in Nat, NEW x \in Bits(n), NEW i \in 1 .. n
  PROVE  BitOf(Number(x), i - 1) = 1 <=> x[i]
<1> DEFINE up == Slice(x, i - 1, n)
           bit == Slice(up, 0, 1)
<1>1. i - 1 \in 0 .. n /\ n - (i - 1) \in Nat /\ 1 \in 0 .. n - (i - 1) /\ i - 1 \in Nat
  OBVIOUS
<1>2. up \in Bits(n - (i - 1)) /\ Number(x) \div TwoTo(i - 1) = Number(up)
  BY <1>1, CutNumber
<1>3. up[1] = x[i]
  BY DEF Slice
<1> HIDE DEF up
<1>4. bit \in Bits(1) /\ Number(up) % TwoTo(1) = Number(bit)
  BY <1>1, <1>2, CutNumber
<1>5. bit[1] = up[1]
  BY DEF Slice
<1> HIDE DEF bit
<1>6. TwoTo(1) = 2
  <2>1. TwoTo(0 + 1) = 2 * TwoTo(0) /\ TwoTo(0) = 1
    BY TwoToIs
  <2> QED BY <2>1
<1>7. BitOf(Number(x), i - 1) = Worth(bit[1], 1) /\ bit[1] \in BOOLEAN
  BY <1>2, <1>4, <1>6, OneBit DEF BitOf
<1>8. Worth(bit[1], 1) = 1 <=> bit[1]
  BY <1>7 DEF Worth
<1> QED BY <1>3, <1>5, <1>7, <1>8

\* Bits and numbers are two views of one thing.
LEMMA BitsOfNumber ==
  ASSUME NEW n \in Nat, NEW x \in Bits(n)
  PROVE  BitsOf(Number(x), n) = x
<1>1. ASSUME NEW i \in 1 .. n
      PROVE  (BitOf(Number(x), i - 1) = 1) = x[i]
  <2>1. BitOf(Number(x), i - 1) = 1 <=> x[i]
    BY BitIs
  <2>2. x[i] \in BOOLEAN
    BY DEF Bits
  <2> QED BY <2>1, <2>2
<1>2. x = [i \in 1 .. n |-> x[i]]
  BY DEF Bits
<1>3. BitsOf(Number(x), n) = [i \in 1 .. n |-> x[i]]
  BY <1>1, Zenon DEF BitsOf
<1> QED BY <1>2, <1>3

\* The bitwise circuits compute the bitwise operations on numbers.
LEMMA BitwiseExact ==
  ASSUME NEW n \in Nat, NEW a \in Bits(n), NEW b \in Bits(n)
  PROVE  /\ bitwise_and(a, b) \in Bits(n) /\ Number(bitwise_and(a, b)) = AndOf(Number(a), Number(b), n)
         /\ bitwise_or(a, b) \in Bits(n) /\ Number(bitwise_or(a, b)) = OrOf(Number(a), Number(b), n)
         /\ bitwise_xor(a, b) \in Bits(n) /\ Number(bitwise_xor(a, b)) = XorOf(Number(a), Number(b), n)
<1>1. DOMAIN a = 1 .. n /\ BitsOf(Number(a), n) = a /\ BitsOf(Number(b), n) = b
  BY BitsLen, BitsOfNumber
<1>2. /\ bitwise_and(a, b) = [i \in 1 .. n |-> a[i] /\ b[i]]
      /\ bitwise_or(a, b)  = [i \in 1 .. n |-> a[i] \/ b[i]]
      /\ bitwise_xor(a, b) = [i \in 1 .. n |-> a[i] # b[i]]
  BY <1>1 DEF bitwise_and, bitwise_or, bitwise_xor, bitwise_binary
<1>3. bitwise_and(a, b) \in Bits(n) /\ bitwise_or(a, b) \in Bits(n) /\ bitwise_xor(a, b) \in Bits(n)
  BY <1>2, Zenon DEF Bits
<1>4. /\ AndOf(Number(a), Number(b), n) = Number([i \in 1 .. n |-> a[i] /\ b[i]])
      /\ OrOf(Number(a), Number(b), n)  = Number([i \in 1 .. n |-> a[i] \/ b[i]])
      /\ XorOf(Number(a), Number(b), n) = Number([i \in 1 .. n |-> a[i] # b[i]])
  BY <1>1, Zenon DEF AndOf, OrOf, XorOf, Bitwise
<1> QED BY <1>2, <1>3, <1>4, Zenon

\* A slice stands for the number shifted down and wrapped.
LEMMA SliceNumber ==
  ASSUME NEW n \in Nat, NEW x \in Bits(n), NEW i \in 0 .. n, NEW j \in i .. n
  PROVE  Slice(x, i, j) \in Bits(j - i) /\ Number(Slice(x, i, j)) = (Number(x) \div TwoTo(i)) % TwoTo(j - i)
<1> DEFINE up == Slice(x, i, n)
<1>1. n - i \in Nat /\ j - i \in 0 .. n - i /\ (j - i) - 0 = j - i
  OBVIOUS
<1>2. up \in Bits(n - i) /\ Number(x) \div TwoTo(i) = Number(up)
  BY CutNumber
<1>3. Slice(up, 0, j - i) = Slice(x, i, j)
  <2>1. \A k \in 1 .. j - i : k \in 1 .. n - i /\ 0 + k = k
    OBVIOUS
  <2>2. \A k \in 1 .. n - i : up[k] = x[i + k]
    BY DEF Slice
  <2>3. Slice(up, 0, j - i) = [k \in 1 .. j - i |-> up[0 + k]] /\ Slice(x, i, j) = [k \in 1 .. j - i |-> x[i + k]]
    BY <1>1 DEF Slice
  <2> HIDE DEF up
  <2>4. \A k \in 1 .. j - i : up[0 + k] = x[i + k]
    BY <2>1, <2>2
  <2> QED BY <2>3, <2>4, Zenon
<1> HIDE DEF up
<1>4. Slice(up, 0, j - i) \in Bits(j - i) /\ Number(up) % TwoTo(j - i) = Number(Slice(up, 0, j - i))
  BY <1>1, <1>2, CutNumber
<1> QED BY <1>2, <1>3, <1>4

\* extract, concat and the extensions.
LEMMA SlicesExact ==
  ASSUME NEW n \in Nat \ {0}, NEW x \in Bits(n)
  PROVE  /\ \A high \in 0 .. n - 1, low \in 0 .. n - 1 : low <= high =>
              /\ extract(x, high, low) \in Bits(high - low + 1)
              /\ Number(extract(x, high, low)) = (Number(x) \div TwoTo(low)) % TwoTo(high - low + 1)
         /\ \A m \in Nat : \A y \in Bits(m) :
              concat(y, x) \in Bits(m + n) /\ Number(concat(y, x)) = Number(y) * TwoTo(n) + Number(x)
         /\ \A extra \in Nat :
              /\ zext(x, extra) \in Bits(n + extra) /\ Number(zext(x, extra)) = Number(x)
              /\ sext(x, extra) \in Bits(n + extra)
              /\ Number(sext(x, extra)) = Signed(Number(x), n) % TwoTo(n + extra)
<1>1. ASSUME NEW high \in 0 .. n - 1, NEW low \in 0 .. n - 1, low <= high
      PROVE  /\ extract(x, high, low) \in Bits(high - low + 1)
             /\ Number(extract(x, high, low)) = (Number(x) \div TwoTo(low)) % TwoTo(high - low + 1)
  <2>1. extract(x, high, low) = Slice(x, low, high + 1)
    <3>1. (high + 1) - (low + 1) + 1 = (high + 1) - low
          /\ \A k \in 1 .. (high + 1) - low : k + (low + 1) - 1 = low + k
      BY <1>1
    <3>2. extract(x, high, low) = [k \in 1 .. (high + 1) - (low + 1) + 1 |-> x[k + (low + 1) - 1]]
      BY <1>1 DEF extract
    <3> QED BY <3>1, <3>2, Zenon DEF Slice
  <2>2. low \in 0 .. n /\ high + 1 \in low .. n /\ (high + 1) - low = high - low + 1
    BY <1>1
  <2> QED BY <2>1, <2>2, SliceNumber
<1>2. Number(x) \in Nat /\ Number(x) < TwoTo(n) /\ TwoTo(n) \in Nat
  BY NumberRange, TwoToIs
<1>3. ASSUME NEW m \in Nat, NEW y \in Bits(m)
      PROVE  concat(y, x) \in Bits(m + n) /\ Number(concat(y, x)) = Number(y) * TwoTo(n) + Number(x)
  <2>1. concat(y, x) \in Bits(n + m) /\ Number(concat(y, x)) = Number(x) + TwoTo(n) * Number(y)
    BY JoinNumber DEF concat
  <2>2. Number(y) \in Nat /\ n + m = m + n
    BY NumberRange
  <2> QED BY <1>2, <2>1, <2>2
<1>4. ASSUME NEW extra \in Nat
      PROVE  zext(x, extra) \in Bits(n + extra) /\ Number(zext(x, extra)) = Number(x)
  <2>1. PICK no : no = Same_bits(extra, FALSE) /\ no \in Bits(extra) /\ Number(no) = 0
    BY SameNumber
  <2>2. zext(x, extra) = x \o no
    BY <2>1 DEF zext
  <2>3. no \in Bits(extra) /\ Number(no) = 0
    BY <2>1
  <2>4. x \o no \in Bits(n + extra) /\ Number(x \o no) = Number(x) + TwoTo(n) * Number(no)
    BY <2>3, JoinNumber
  <2> QED BY <1>2, <2>2, <2>3, <2>4
<1>5. ASSUME NEW extra \in Nat
      PROVE  /\ sext(x, extra) \in Bits(n + extra)
             /\ Number(sext(x, extra)) = Signed(Number(x), n) % TwoTo(n + extra)
  <2> DEFINE e == TwoTo(extra)
             s == Signed(Number(x), n)
             w == TwoTo(n)
  <2>1. /\ Last(x) \in BOOLEAN /\ (Last(x) <=> s < 0) /\ s \in Int /\ w \in Nat /\ w >= 1
        /\ Number(x) = IF s < 0 THEN s + w ELSE s
    BY <1>2, SignedOperands, TwoToIs
  <2>2. e \in Nat /\ e >= 1 /\ TwoTo(n + extra) = w * e
    BY TwoToIs, TwoToSum
  <2>3. \E y : y = Same_bits(extra, Last(x)) /\ y \in Bits(extra) /\ Number(y) = IF Last(x) THEN e - 1 ELSE 0
    <3>1. CASE Last(x)
      <4>1. Last(x) = TRUE
        BY <2>1, <3>1
      <4> QED BY <3>1, <4>1, SameNumber, Zenon
    <3>2. CASE ~ Last(x)
      <4>1. Last(x) = FALSE
        BY <2>1, <3>2
      <4> QED BY <3>2, <4>1, SameNumber, Zenon
    <3> QED BY <3>1, <3>2
  <2>4. PICK y : y = Same_bits(extra, Last(x)) /\ y \in Bits(extra) /\ Number(y) = IF Last(x) THEN e - 1 ELSE 0
    BY <2>3
  <2>5. sext(x, extra) = x \o y
    BY <2>4 DEF sext
  <2>6. x \o y \in Bits(n + extra) /\ Number(x \o y) = Number(x) + w * Number(y)
    BY <2>4, JoinNumber
  <2> HIDE DEF e, s, w
  <2>7. Number(x) + w * Number(y) = s % (w * e)
    <3>0. w * e \in Nat /\ w * e >= w
      BY <2>1, <2>2
    <3>1. CASE s < 0
      <4>1. Number(y) = e - 1 /\ Number(x) = s + w
        BY <2>1, <2>4, <3>1
      <4>2. w * (e - 1) = w * e - w
        BY <2>1, <2>2
      <4>3. -(w * e) <= s
        BY <1>2, <2>1, <3>0, <4>1 DEF w
      <4>4. s % (w * e) = s + w * e
        BY <2>1, <3>0, <3>1, <4>3, ModBelow
      <4> QED BY <2>1, <3>0, <4>1, <4>2, <4>4
    <3>2. CASE s >= 0
      <4>1. Number(y) = 0 /\ Number(x) = s
        BY <2>1, <2>4, <3>2
      <4>2. s < w * e
        BY <1>2, <2>1, <3>0, <4>1 DEF w
      <4>3. s % (w * e) = s
        BY <2>1, <3>0, <3>2, <4>2, ModBelow
      <4> QED BY <2>1, <4>1, <4>3
    <3> QED BY <2>1, <3>1, <3>2
  <2> QED BY <2>2, <2>5, <2>6, <2>7 DEF s
<1> QED BY <1>1, <1>3, <1>4, <1>5

\* The upper and the lower part of x change places.
LEMMA Turned ==
  ASSUME NEW n \in Nat, NEW x \in Bits(n), NEW c \in 0 .. n
  PROVE  LET y == Slice(x, c, n) \o Slice(x, 0, c)
         IN  /\ y \in Bits(n)
             /\ Number(y) = (Number(x) \div TwoTo(c)) + ((Number(x) * TwoTo(n - c)) % TwoTo(n))
<1> DEFINE low == Slice(x, 0, c)
           up == Slice(x, c, n)
           L == Number(low)
           U == Number(up)
           p == TwoTo(c)
           q == TwoTo(n - c)
<1>1. /\ low \in Bits(c) /\ up \in Bits(n - c) /\ Number(x) = L + p * U /\ Number(x) \div p = U
  BY CutNumber
<1>2. c \in Nat /\ n - c \in Nat /\ (n - c) + c = n
  OBVIOUS
<1>3. L \in Nat /\ L < p /\ U \in Nat /\ U < q /\ p \in Nat /\ q \in Nat /\ p >= 1 /\ q >= 1
  BY <1>1, <1>2, NumberRange, TwoToIs
<1>4. TwoTo((n - c) + c) = q * p
  BY <1>2, TwoToSum
<1>5. up \o low \in Bits((n - c) + c) /\ Number(up \o low) = U + q * L
  BY <1>1, <1>2, JoinNumber
<1> HIDE DEF low, up, L, U, p, q
<1>6. ((L + p * U) * q) % (q * p) = q * L
  <2>1. (L + p * U) * q = q * L + (q * p) * U
    BY <1>3
  <2>2. q * p \in Nat /\ q * p > 0 /\ q * L \in 0 .. q * p - 1
    <3>1. q * p \in Nat /\ q * p >= q /\ q * L \in Nat
      BY <1>3
    <3>2. q * L < q * p
      BY <1>3
    <3> QED BY <1>3, <3>1, <3>2
  <2>3. U \in Int
    BY <1>3
  <2>4. (q * L + (q * p) * U) % (q * p) = q * L
    BY <2>2, <2>3, QuotientIs, Zenon
  <2> QED BY <2>1, <2>4
<1>7. (Number(x) * q) % TwoTo(n) = q * L
  BY <1>1, <1>2, <1>4, <1>6
<1> QED BY <1>1, <1>2, <1>5, <1>7 DEF low, up, p, q, U

\* Rotation by any amount (circuits.rs rotate_left, rotate_right) is exact.
THEOREM RotationsExact ==
  ASSUME NEW n \in Nat \ {0}, NEW x \in Bits(n), NEW by \in Nat
  PROVE  LET k == by % n
         IN  /\ rotate_left(x, by) \in Bits(n)
             /\ Number(rotate_left(x, by)) = ((Number(x) * TwoTo(k)) % TwoTo(n)) + (Number(x) \div TwoTo(n - k))
             /\ rotate_right(x, by) \in Bits(n)
             /\ Number(rotate_right(x, by)) = (Number(x) \div TwoTo(k)) + ((Number(x) * TwoTo(n - k)) % TwoTo(n))
<1> DEFINE k == by % n
<1>1. k \in 0 .. n - 1 /\ k \in 0 .. n /\ n - k \in 0 .. n /\ n - (n - k) = k
  OBVIOUS
<1>2. Len(x) = n /\ DOMAIN x = 1 .. n
  BY BitsLen
<1>3. /\ rotate_left(x, by) = [i \in 1 .. n |-> x[((i - 1 + n - k) % n) + 1]]
      /\ rotate_right(x, by) = [i \in 1 .. n |-> x[((i - 1 + k) % n) + 1]]
  BY <1>2 DEF rotate_left, rotate_right
<1> HIDE DEF k
<1>4. ASSUME NEW c \in 0 .. n
      PROVE  Slice(x, c, n) \o Slice(x, 0, c) = [i \in 1 .. n |-> IF i <= n - c THEN x[c + i] ELSE x[i - (n - c)]]
  <2> DEFINE up == Slice(x, c, n)
             low == Slice(x, 0, c)
  <2>1. up \in Bits(n - c) /\ low \in Bits(c) /\ n - c \in Nat /\ c \in Nat
    BY CutNumber
  <2>2. (\A j \in 1 .. n - c : up[j] = x[c + j]) /\ \A j \in 1 .. c : low[j] = x[j]
    BY DEF Slice
  <2> HIDE DEF up, low
  <2>3. up \in Seq(BOOLEAN) /\ low \in Seq(BOOLEAN) /\ Len(up) = n - c /\ Len(low) = c
    BY <2>1, BitsLen DEF Bits
  <2>4. up \o low = [i \in 1 .. n |-> IF i <= n - c THEN up[i] ELSE low[i - (n - c)]]
    <3> DEFINE z == up \o low
    <3>1. z \in Seq(BOOLEAN) /\ Len(z) = n
      BY <2>3
    <3>2. \A i \in 1 .. n : z[i] = IF i <= n - c THEN up[i] ELSE low[i - (n - c)]
      BY <2>3
    <3> HIDE DEF z
    <3>3. z = [i \in 1 .. n |-> z[i]]
      BY <3>1
    <3> QED BY <3>2, <3>3, Zenon DEF z
  <2>5. ASSUME NEW i \in 1 .. n
        PROVE  (IF i <= n - c THEN up[i] ELSE low[i - (n - c)]) = IF i <= n - c THEN x[c + i] ELSE x[i - (n - c)]
    <3>1. CASE i <= n - c
      <4>1. i \in 1 .. n - c
        BY <3>1
      <4>2. up[i] = x[c + i]
        BY <2>2, <4>1, Zenon
      <4> QED BY <3>1, <4>2, Zenon
    <3>2. CASE ~ (i <= n - c)
      <4>1. i - (n - c) \in 1 .. c
        BY <3>2
      <4>2. low[i - (n - c)] = x[i - (n - c)]
        BY <2>2, <4>1, Zenon
      <4> QED BY <3>2, <4>2, Zenon
    <3> QED BY <3>1, <3>2, Zenon
  <2> QED BY <2>4, <2>5, Zenon DEF up, low
<1>5. rotate_right(x, by) = Slice(x, k, n) \o Slice(x, 0, k)
  <2>1. ASSUME NEW i \in 1 .. n
        PROVE  x[((i - 1 + k) % n) + 1] = IF i <= n - k THEN x[k + i] ELSE x[i - (n - k)]
    <3>1. CASE i <= n - k
      <4>1. (i - 1 + k) % n = i - 1 + k
        BY <1>1, <3>1, ModBelow
      <4>2. ((i - 1 + k) % n) + 1 = k + i
        BY <1>1, <4>1
      <4> QED BY <3>1, <4>2, Zenon
    <3>2. CASE ~ (i <= n - k)
      <4>1. (i - 1 + k) % n = (i - 1 + k) - n
        BY <1>1, <3>2, ModBelow
      <4>2. ((i - 1 + k) % n) + 1 = i - (n - k)
        BY <1>1, <4>1
      <4> QED BY <3>2, <4>2, Zenon
    <3> QED BY <3>1, <3>2, Zenon
  <2> QED BY <1>1, <1>3, <1>4, <2>1, Zenon
<1>6. rotate_left(x, by) = Slice(x, n - k, n) \o Slice(x, 0, n - k)
  <2>1. ASSUME NEW i \in 1 .. n
        PROVE  x[((i - 1 + n - k) % n) + 1] = IF i <= n - (n - k) THEN x[(n - k) + i] ELSE x[i - (n - (n - k))]
    <3>1. CASE i <= k
      <4>1. (i - 1 + n - k) % n = i - 1 + n - k
        BY <1>1, <3>1, ModBelow
      <4>2. ((i - 1 + n - k) % n) + 1 = (n - k) + i
        BY <1>1, <4>1
      <4> QED BY <1>1, <3>1, <4>2, Zenon
    <3>2. CASE ~ (i <= k)
      <4>1. (i - 1 + n - k) % n = (i - 1 + n - k) - n
        BY <1>1, <3>2, ModBelow
      <4>2. ((i - 1 + n - k) % n) + 1 = i - k
        BY <1>1, <4>1
      <4> QED BY <1>1, <3>2, <4>2, Zenon
    <3> QED BY <3>1, <3>2, Zenon
  <2> QED BY <1>1, <1>3, <1>4, <2>1, Zenon
<1>7. /\ rotate_right(x, by) \in Bits(n)
      /\ Number(rotate_right(x, by)) = (Number(x) \div TwoTo(k)) + ((Number(x) * TwoTo(n - k)) % TwoTo(n))
  BY <1>1, <1>5, Turned
<1>8. /\ rotate_left(x, by) \in Bits(n)
      /\ Number(rotate_left(x, by)) = (Number(x) \div TwoTo(n - k)) + ((Number(x) * TwoTo(k)) % TwoTo(n))
  <2>1. /\ Slice(x, n - k, n) \o Slice(x, 0, n - k) \in Bits(n)
        /\ Number(Slice(x, n - k, n) \o Slice(x, 0, n - k))
             = (Number(x) \div TwoTo(n - k)) + ((Number(x) * TwoTo(n - (n - k))) % TwoTo(n))
    BY <1>1, Turned
  <2> QED BY <1>1, <1>6, <2>1
<1>9. (Number(x) \div TwoTo(n - k)) + ((Number(x) * TwoTo(k)) % TwoTo(n))
        = ((Number(x) * TwoTo(k)) % TwoTo(n)) + (Number(x) \div TwoTo(n - k))
  <2>1. Number(x) \in Nat /\ TwoTo(n - k) \in Nat /\ TwoTo(n - k) >= 1 /\ TwoTo(k) \in Nat /\ TwoTo(n) \in Nat
        /\ TwoTo(n) >= 1
    BY <1>1, NumberRange, TwoToIs
  <2> QED BY <2>1
<1> QED BY <1>7, <1>8, <1>9 DEF k

\* A product may be taken modulo before or after.
LEMMA ModProduct ==
  ASSUME NEW m \in Nat, m > 0, NEW x \in Int, NEW y \in Int
  PROVE  ((x % m) * (y % m)) % m = (x * y) % m
<1> DEFINE p == x % m
           q == y % m
           i == x \div m
           j == y \div m
           r == (p * q) % m
           k == (p * q) \div m
<1>1. p \in Nat /\ q \in Nat /\ i \in Int /\ j \in Int /\ x = m * i + p /\ y = m * j + q
  OBVIOUS
<1> HIDE DEF p, q, i, j
<1>2. p * q \in Nat
  BY <1>1
<1>3. r \in 0 .. m - 1 /\ k \in Int /\ p * q = m * k + r
  BY <1>2
<1> HIDE DEF r, k
<1>4. x * y = r + m * (m * i * j + i * q + j * p + k)
  <2>1. x * y = (m * i + p) * (m * j + q)
    BY <1>1
  <2>2. (m * i + p) * (m * j + q) = m * (m * i * j + i * q + j * p) + p * q
    BY <1>1
  <2> DEFINE t == m * i * j + i * q + j * p
  <2>3. t \in Int
    BY <1>1
  <2> HIDE DEF t
  <2>4. m * t + (m * k + r) = r + m * (t + k)
    BY <1>3, <2>3
  <2>5. x * y = r + m * (t + k)
    BY <1>3, <2>1, <2>2, <2>4 DEF t
  <2> QED BY <2>5 DEF t
<1>5. m * i * j + i * q + j * p + k \in Int
  BY <1>1, <1>3
<1>6. (r + m * (m * i * j + i * q + j * p + k)) % m = r
  BY <1>3, <1>5, QuotientIs, Zenon
<1> QED BY <1>4, <1>6 DEF r, p, q

\* umul_overflow, which multiplies at twice the width, holds where the product leaves it.
THEOREM UMulOverflowExact ==
  ASSUME NEW n \in Nat \ {0}, NEW a \in Bits(n), NEW b \in Bits(n)
  PROVE  umul_overflow(a, b) <=> Number(a) * Number(b) >= TwoTo(n)
<1> DEFINE za == zext(a, n)
           zb == zext(b, n)
           product == mul_width(za, zb, 2 * n)
           up == Slice(product, n, 2 * n)
           A == Number(a)
           B == Number(b)
           w == TwoTo(n)
<1>1. 2 * n = n + n /\ 2 * n \in Nat /\ n \in Nat /\ n \in 0 .. 2 * n /\ 2 * n - n = n
  OBVIOUS
<1>2. za \in Bits(2 * n) /\ Number(za) = A /\ zb \in Bits(2 * n) /\ Number(zb) = B
  BY <1>1, SlicesExact
<1>3. TwoTo(2 * n) = w * w /\ w \in Nat /\ w >= 1 /\ A \in Nat /\ A < w /\ B \in Nat /\ B < w
  BY <1>1, TwoToSum, TwoToIs, NumberRange
<1>4. umul_overflow(a, b) <=> \E i \in n + 1 .. 2 * n : product[i]
  BY BitsLen DEF umul_overflow
<1> HIDE DEF za, zb
<1>5. product \in Bits(2 * n) /\ Number(product) = (A * B) % TwoTo(2 * n)
  BY <1>1, <1>2, MulWidthExact
<1> HIDE DEF product, A, B, w
<1>6. A * B \in Nat /\ A * B < w * w /\ w * w \in Nat
  <2>1. A * B <= A * w /\ A * w < w * w /\ A * B \in Nat /\ A * w \in Nat /\ w * w \in Nat
    BY <1>3
  <2> QED BY <2>1
<1>7. Number(product) = A * B
  BY <1>3, <1>5, <1>6, ModBelow
<1>8. up \in Bits(n) /\ Number(product) \div w = Number(up)
  BY <1>1, <1>5, CutNumber DEF w
<1>9. is_zero_bits(up) <=> Number(up) = 0
  BY <1>8, ZeroExact
<1>10. is_zero_bits(up) <=> ~ \E i \in n + 1 .. 2 * n : product[i]
  <2>1. DOMAIN up = 1 .. n /\ \A k \in 1 .. n : up[k] = product[n + k]
    BY <1>1 DEF Slice
  <2>2. \A i \in n + 1 .. 2 * n : i - n \in 1 .. n /\ n + (i - n) = i
    OBVIOUS
  <2>3. \A k \in 1 .. n : n + k \in n + 1 .. 2 * n
    OBVIOUS
  <2> HIDE DEF up
  <2>4. ASSUME NEW k \in 1 .. n, up[k] PROVE \E i \in n + 1 .. 2 * n : product[i]
    BY <2>1, <2>3, <2>4, Zenon
  <2>5. ASSUME NEW i \in n + 1 .. 2 * n, product[i] PROVE \E k \in 1 .. n : up[k]
    <3>1. i - n \in 1 .. n /\ up[i - n] = product[n + (i - n)] /\ n + (i - n) = i
      BY <2>1, <2>2, Zenon
    <3> QED BY <2>5, <3>1, Zenon
  <2>6. is_zero_bits(up) <=> ~ \E k \in 1 .. n : up[k]
    BY <2>1, Zenon DEF is_zero_bits
  <2> QED BY <2>4, <2>5, <2>6
<1> HIDE DEF up
<1>11. Number(up) = 0 <=> A * B < w
  <2>1. A * B \in Nat /\ w \in Nat /\ w >= 1
    BY <1>3, <1>6
  <2> QED BY <1>7, <1>8, <2>1
<1> QED BY <1>3, <1>4, <1>6, <1>9, <1>10, <1>11 DEF A, B, w

\* A product in range is what the lower half says, sign-extended; one out of
\* range is not.
LEMMA FitsHalf ==
  ASSUME NEW h \in Nat, h >= 1, NEW P \in Int, -(2 * (h * h)) <= P, P < 2 * (h * h), NEW s \in -h .. h - 1,
         s = Half((P % (2 * h * (2 * h))) % (2 * h), h)
  PROVE  (P % (2 * h * (2 * h)) = s % (2 * h * (2 * h))) <=> ~ (P < -h \/ P >= h)
<1> DEFINE w == 2 * h
           g == 2 * (h * h)
           W == 2 * h * (2 * h)
<1>1. w \in Nat /\ w >= 2 /\ w > 0 /\ W = w * w /\ g \in Nat /\ W = 2 * g /\ g >= h /\ W \in Nat /\ W > 0
  OBVIOUS
<1> HIDE DEF w, g, W
<1>2. P % W = (IF P < 0 THEN P + W ELSE P) /\ s % W = IF s < 0 THEN s + W ELSE s
  <2>1. -W <= P /\ P < W /\ -W <= s /\ s < W
    BY <1>1 DEF g
  <2> QED BY <1>1, <2>1, ModBelow
<1>3. P % W = s % W <=> P = s
  BY <1>1, <1>2 DEF g
<1>4. ASSUME -h <= P, P < h PROVE P = s
  <2>1. (P % W) % w = IF P < 0 THEN P + w ELSE P
    <3>1. CASE P >= 0
      BY <1>1, <1>2, <1>4, <3>1, ModBelow DEF w
    <3>2. CASE P < 0
      <4>1. P + w \in 0 .. w - 1 /\ w - 1 \in Int
        BY <1>4, <3>2 DEF w
      <4>2. ((P + w) + w * (w - 1)) % w = P + w
        BY <1>1, <4>1, QuotientIs, Zenon
      <4>3. (P + w) + w * (w - 1) = P + W
        BY <1>1
      <4> QED BY <1>2, <3>2, <4>2, <4>3
    <3> QED BY <3>1, <3>2
  <2>2. s = Half((P % W) % w, h)
    BY DEF w, W
  <2> QED BY <1>4, <2>1, <2>2 DEF Half, w
<1> QED BY <1>3, <1>4 DEF W

\* smul_overflow, on sign-extended operands, holds where the signed product leaves the range.
THEOREM SMulOverflowExact ==
  ASSUME NEW n \in Nat \ {0}, NEW a \in Bits(n), NEW b \in Bits(n)
  PROVE  smul_overflow(a, b) <=> OutOfRange(Signed(Number(a), n) * Signed(Number(b), n), n)
<1> DEFINE ea == sext(a, n)
           eb == sext(b, n)
           product == mul_width(ea, eb, 2 * n)
           low == SubSeq(product, 1, n)
           x == Signed(Number(a), n)
           y == Signed(Number(b), n)
           s == Signed(Number(low), n)
           h == TwoTo(n - 1)
           w == TwoTo(n)
           W == TwoTo(2 * n)
<1>1. 2 * n = n + n /\ 2 * n \in Nat /\ n \in Nat /\ n \in 0 .. 2 * n /\ 2 * n - n = n
  OBVIOUS
<1>2. ea \in Bits(2 * n) /\ Number(ea) = x % W /\ eb \in Bits(2 * n) /\ Number(eb) = y % W
  BY <1>1, SlicesExact
<1>3. /\ W = w * w /\ h \in Nat /\ h >= 1 /\ w = 2 * h /\ x \in -h .. h - 1 /\ y \in -h .. h - 1
  BY <1>1, TwoToSum, SignedOperands
<1>4. smul_overflow(a, b) <=> ~ eq_bits(product, sext(low, n))
  BY BitsLen DEF smul_overflow
<1> HIDE DEF ea, eb, x, y
<1>5. product \in Bits(2 * n) /\ Number(product) = ((x % W) * (y % W)) % W
  BY <1>1, <1>2, MulWidthExact
<1>6. low = Slice(product, 0, n)
  <2>1. low = [k \in 1 .. n |-> product[k]]
    <3> HIDE DEF product
    <3> QED BY <1>5
  <2>2. n = n - 0 /\ \A k \in 1 .. n - 0 : k = 0 + k
    OBVIOUS
  <2> QED BY <2>1, <2>2, Zenon DEF Slice
<1>7. low \in Bits(n) /\ Number(low) = Number(product) % w
  <2> HIDE DEF product, low
  <2> QED BY <1>1, <1>5, <1>6, CutNumber
<1> HIDE DEF product, low
<1>8. s \in -h .. h - 1 /\ s = Half(Number(low), h)
  BY <1>3, <1>7, SignedOperands DEF Half, Signed
<1>9. sext(low, n) \in Bits(2 * n) /\ Number(sext(low, n)) = s % W
  BY <1>1, <1>7, SlicesExact
<1>10. eq_bits(product, sext(low, n)) <=> Number(product) = s % W
  BY <1>1, <1>5, <1>9, EqExact
<1> HIDE DEF s, h, w, W
<1>11. W \in Nat /\ W > 0 /\ x \in Int /\ y \in Int /\ W = 2 * h * (2 * h)
  BY <1>3
<1>12. Number(product) = (x * y) % W
  BY <1>5, <1>11, ModProduct
<1>13. x * y \in Int /\ -(2 * (h * h)) <= x * y /\ x * y < 2 * (h * h)
  <2>1. \A p \in Nat, q \in Nat, m \in Nat : p <= m /\ q <= m => p * q <= m * m
    <3> SUFFICES ASSUME NEW p \in Nat, NEW q \in Nat, NEW m \in Nat, p <= m, q <= m PROVE p * q <= m * m
      OBVIOUS
    <3>1. p * q <= p * m /\ p * m <= m * m
      OBVIOUS
    <3> QED BY <3>1
  <2> DEFINE p == AbsInt(x)
             q == AbsInt(y)
  <2>2. p \in Nat /\ q \in Nat /\ p <= h /\ q <= h /\ (x = p \/ x = - p) /\ (y = q \/ y = - q)
    BY <1>3 DEF AbsInt
  <2> HIDE DEF p, q
  <2>3. p * q <= h * h /\ p * q \in Nat /\ h * h \in Nat /\ h * h >= 1
    BY <1>3, <2>1, <2>2
  <2>4. x * y = p * q \/ x * y = - (p * q)
    BY <2>2
  <2> QED BY <2>3, <2>4
<1>14. s = Half(((x * y) % W) % w, h)
  BY <1>7, <1>8, <1>12
<1>15. ((x * y) % W = s % W) <=> ~ (x * y < -h \/ x * y >= h)
  <2>1. s = Half(((x * y) % (2 * h * (2 * h))) % (2 * h), h)
    BY <1>3, <1>11, <1>14
  <2> DEFINE P == x * y
  <2>2. P \in Int /\ -(2 * (h * h)) <= P /\ P < 2 * (h * h) /\ s = Half((P % (2 * h * (2 * h))) % (2 * h), h)
    BY <1>13, <2>1
  <2> HIDE DEF P
  <2>3. (P % (2 * h * (2 * h)) = s % (2 * h * (2 * h))) <=> ~ (P < -h \/ P >= h)
    BY <1>3, <1>8, <2>2, FitsHalf
  <2> QED BY <1>11, <2>3 DEF P
<1>16. OutOfRange(x * y, n) <=> (x * y < -h \/ x * y >= h)
  BY DEF OutOfRange, h
<1> QED BY <1>4, <1>10, <1>12, <1>15, <1>16 DEF x, y

\* Shifting left by s is multiplying, whatever leaves at the top.
LEMMA StagesAre ==
  ASSUME NEW n \in Nat, NEW value, NEW amount, NEW dir, NEW signed
  PROVE  shift_stages(value, amount, dir, signed, n) =
           [k \in 0 .. n |-> IF k = 0 THEN value
              ELSE shift_stage(shift_stages(value, amount, dir, signed, n)[k - 1], amount[k], dir * TwoTo(k - 1),
                    signed)]
<1> DEFINE Solves(f, m) == f = [k \in 0 .. m |-> IF k = 0 THEN value
                                  ELSE shift_stage(f[k - 1], amount[k], dir * TwoTo(k - 1), signed)]
           T == {m \in 0 .. n : \E f : Solves(f, m)}
<1>1. \E f : Solves(f, 0)
  <2>1. Solves([k \in 0 .. 0 |-> value], 0)
    OBVIOUS
  <2> HIDE DEF Solves
  <2> QED BY <2>1
<1>2. ASSUME NEW m \in 1 .. n, NEW f, Solves(f, m - 1)
      PROVE  \E g : Solves(g, m)
  <2> DEFINE g == [k \in 0 .. m |-> IF k = m THEN shift_stage(f[m - 1], amount[m], dir * TwoTo(m - 1), signed)
                                    ELSE f[k]]
  <2>1. ASSUME NEW k \in 0 .. m
        PROVE  g[k] = IF k = 0 THEN value ELSE shift_stage(g[k - 1], amount[k], dir * TwoTo(k - 1), signed)
    BY <1>2
  <2>2. Solves(g, m)
    BY <2>1
  <2> HIDE DEF Solves
  <2> QED BY <2>2
<1> HIDE DEF Solves
<1>3. T \subseteq Nat /\ 0 \in T /\ \A m \in 1 .. n : m - 1 \in T => m \in T
  BY <1>1, <1>2
<1> HIDE DEF T
<1>4. n \in T
  BY <1>3, Climb
<1>5. \E f : Solves(f, n)
  BY <1>4 DEF T
<1> QED BY <1>5, Zenon DEF shift_stages, Solves

\* Bits moved twice in one direction are moved by the sum.
LEMMA MovedTwice ==
  ASSUME NEW n \in Nat \ {0}, NEW x \in Bits(n), NEW f \in BOOLEAN, NEW p \in Int, NEW q \in Int,
         (p >= 0 /\ q >= 0) \/ (p <= 0 /\ q <= 0)
  PROVE  /\ moved(x, p, f) \in Bits(n) /\ moved(x, 0, f) = x
         /\ moved(moved(x, p, f), q, f) = moved(x, p + q, f)
         /\ p >= 0 /\ f = x[n] => moved(x, p, f)[n] = f
<1> DEFINE y == moved(x, p, f)
<1>1. DOMAIN x = 1 .. n /\ \A i \in 1 .. n : x[i] \in BOOLEAN
  BY DEF Bits
<1>2. y = [i \in 1 .. n |-> IF i + p \in 1 .. n THEN x[i + p] ELSE f]
  BY <1>1 DEF moved
<1>3. moved(x, p + q, f) = [i \in 1 .. n |-> IF i + (p + q) \in 1 .. n THEN x[i + (p + q)] ELSE f]
  BY <1>1 DEF moved
<1>4. moved(x, 0, f) = x
  <2>1. moved(x, 0, f) = [i \in 1 .. n |-> IF i + 0 \in 1 .. n THEN x[i + 0] ELSE f]
    BY <1>1 DEF moved
  <2>2. \A i \in 1 .. n : (IF i + 0 \in 1 .. n THEN x[i + 0] ELSE f) = x[i]
    OBVIOUS
  <2>3. x = [i \in 1 .. n |-> x[i]]
    BY DEF Bits
  <2> QED BY <2>1, <2>2, <2>3, Zenon
<1> HIDE DEF y
<1>5. y \in Bits(n)
  BY <1>1, <1>2, Zenon DEF Bits
<1>6. \A i \in 1 .. n : y[i] = IF i + p \in 1 .. n THEN x[i + p] ELSE f
  BY <1>2
<1>7. moved(y, q, f) = [i \in 1 .. n |-> IF i + q \in 1 .. n THEN y[i + q] ELSE f]
  <2>1. DOMAIN y = 1 .. n
    BY <1>2
  <2> QED BY <2>1 DEF moved
<1>8. ASSUME NEW i \in 1 .. n
      PROVE  (IF i + q \in 1 .. n THEN y[i + q] ELSE f) = IF i + (p + q) \in 1 .. n THEN x[i + (p + q)] ELSE f
  <2>1. CASE i + q \in 1 .. n
    <3>1. y[i + q] = IF (i + q) + p \in 1 .. n THEN x[(i + q) + p] ELSE f
      BY <1>6, <2>1
    <3>2. (i + q) + p = i + (p + q)
      OBVIOUS
    <3> QED BY <2>1, <3>1, <3>2
  <2>2. CASE i + q \notin 1 .. n
    <3>1. i + (p + q) \notin 1 .. n
      BY <2>2
    <3> QED BY <2>2, <3>1
  <2> QED BY <2>1, <2>2
<1>9. moved(y, q, f) = moved(x, p + q, f)
  BY <1>3, <1>7, <1>8, Zenon
<1>10. ASSUME p >= 0, f = x[n] PROVE y[n] = f
  <2>1. n \in 1 .. n /\ (n + p \in 1 .. n => n + p = n)
    BY <1>10
  <2> QED BY <1>6, <1>10, <2>1
<1> QED BY <1>4, <1>5, <1>9, <1>10 DEF y

\* Where a stage that is taken moves the bits that were already moved.
LEMMA StagesMove ==
  ASSUME NEW n \in Nat \ {0}, NEW m \in Nat, NEW x \in Bits(n), NEW amount \in Bits(m), NEW dir \in {-1, 1},
         NEW signed \in BOOLEAN, NEW f \in BOOLEAN, f <=> signed /\ x[n], signed => dir = 1
  PROVE  shift_stages(x, amount, dir, signed, m)[m] = moved(x, dir * Number(amount), f)
<1> DEFINE out == shift_stages(x, amount, dir, signed, m)
           v == numbers(amount, m)
           T == {k \in 0 .. m : out[k] = moved(x, dir * v[k], f)}
<1>1. out[0] = x /\ \A k \in 1 .. m : out[k] = shift_stage(out[k - 1], amount[k], dir * TwoTo(k - 1), signed)
  <2>1. out = [k \in 0 .. m |-> IF k = 0 THEN x ELSE shift_stage(out[k - 1], amount[k], dir * TwoTo(k - 1), signed)]
    BY StagesAre
  <2> HIDE DEF out
  <2> QED BY <2>1
<1> HIDE DEF out
<1>2. 0 \in T
  <2>1. v[0] = 0 /\ dir * 0 = 0
    BY NumbersStep
  <2>2. moved(x, 0, f) = x
    BY MovedTwice
  <2> QED BY <1>1, <2>1, <2>2
<1>3. ASSUME NEW k \in 1 .. m, k - 1 \in T
      PROVE  k \in T
  <2> DEFINE y == out[k - 1]
             p == dir * v[k - 1]
             q == dir * TwoTo(k - 1)
  <2>1. v[k] = v[k - 1] + Worth(amount[k], TwoTo(k - 1)) /\ v[k - 1] \in Nat /\ amount[k] \in BOOLEAN
    BY NumbersWorth
  <2>2. TwoTo(k - 1) \in Nat
    BY TwoToStep
  <2>3. p \in Int /\ q \in Int /\ ((p >= 0 /\ q >= 0) \/ (p <= 0 /\ q <= 0)) /\ (signed => p >= 0)
    BY <2>1, <2>2
  <2>4. y = moved(x, p, f)
    BY <1>3
  <2>5. dir * v[k] = IF amount[k] THEN p + q ELSE p
    BY <2>1, <2>2 DEF Worth
  <2>6. out[k] = shift_stage(y, amount[k], q, signed)
    BY <1>1
  <2> HIDE DEF p, q, y
  <2>7. y \in Bits(n) /\ moved(y, q, f) = moved(x, p + q, f) /\ (p >= 0 /\ f = x[n] => y[n] = f)
    BY <2>3, <2>4, MovedTwice
  <2>8. (signed /\ Last(y)) = f
    <3>1. Last(y) = y[n] /\ y[n] \in BOOLEAN /\ x[n] \in BOOLEAN
      BY <2>7, SignBit
    <3> QED BY <2>3, <2>7, <3>1
  <2>9. out[k] = IF amount[k] THEN moved(y, q, f) ELSE y
    <3>1. out[k] = mux_bits(amount[k], moved(y, q, f), y)
      BY <2>6, <2>8, Zenon DEF shift_stage
    <3>2. DOMAIN moved(y, q, f) = 1 .. n /\ DOMAIN y = 1 .. n
      BY <2>7, BitsLen DEF moved
    <3>3. mux_bits(amount[k], moved(y, q, f), y) = [i \in 1 .. n |-> IF amount[k] THEN moved(y, q, f)[i] ELSE y[i]]
      BY <3>2 DEF mux_bits, mux
    <3>4. moved(y, q, f) = [i \in 1 .. n |-> moved(y, q, f)[i]] /\ y = [i \in 1 .. n |-> y[i]]
      BY <2>7, <3>2 DEF Bits, moved
    <3> QED BY <2>1, <3>1, <3>3, <3>4, Zenon
  <2>10. out[k] = moved(x, dir * v[k], f)
    BY <2>1, <2>4, <2>5, <2>7, <2>9
  <2> QED BY <2>10
<1>4. m \in T
  <2>1. T \subseteq Nat
    OBVIOUS
  <2> HIDE DEF T
  <2> QED BY <1>2, <1>3, <2>1, Climb
<1>5. Number(amount) = v[m]
  BY NumberRange
<1> QED BY <1>4, <1>5 DEF out

\* Bits moved down by s places: the upper part of x, and s copies of fill on top.
LEMMA DownNumber ==
  ASSUME NEW n \in Nat \ {0}, NEW x \in Bits(n), NEW f \in BOOLEAN, NEW s \in Nat, NEW c \in 0 .. n,
         c = IF s < n THEN s ELSE n
  PROVE  /\ moved(x, s, f) \in Bits(n)
         /\ Number(moved(x, s, f)) = (Number(x) \div TwoTo(c)) + TwoTo(n - c) * Worth(f, TwoTo(c) - 1)
<1> DEFINE up == Slice(x, c, n)
           fill == Same_bits(c, f)
<1>1. up \in Bits(n - c) /\ Number(x) \div TwoTo(c) = Number(up) /\ n - c \in Nat /\ c \in Nat /\ (n - c) + c = n
  BY CutNumber
<1>2. fill \in Bits(c) /\ Number(fill) = Worth(f, TwoTo(c) - 1)
  <2>1. CASE f = TRUE
    BY <1>1, <2>1, SameNumber, Zenon DEF Worth
  <2>2. CASE f = FALSE
    BY <1>1, <2>2, SameNumber, Zenon DEF Worth
  <2> QED BY <2>1, <2>2
<1>3. (\A j \in 1 .. n - c : up[j] = x[c + j]) /\ \A j \in 1 .. c : fill[j] = f
  BY DEF Slice, Same_bits
<1>4. moved(x, s, f) = [i \in 1 .. n |-> IF i + s \in 1 .. n THEN x[i + s] ELSE f]
  BY BitsLen DEF moved
<1> HIDE DEF up, fill
<1>5. moved(x, s, f) = up \o fill
  <2> DEFINE z == up \o fill
  <2>1. up \in Seq(BOOLEAN) /\ fill \in Seq(BOOLEAN) /\ Len(up) = n - c /\ Len(fill) = c
    BY <1>1, <1>2, BitsLen DEF Bits
  <2>2. z \in Seq(BOOLEAN) /\ Len(z) = n
    BY <2>1
  <2>3. \A i \in 1 .. n : z[i] = IF i <= n - c THEN up[i] ELSE fill[i - (n - c)]
    BY <2>1
  <2> HIDE DEF z
  <2>4. z = [i \in 1 .. n |-> z[i]]
    BY <2>2
  <2>5. ASSUME NEW i \in 1 .. n
        PROVE  z[i] = IF i + s \in 1 .. n THEN x[i + s] ELSE f
    <3>1. CASE i <= n - c
      <4>1. i \in 1 .. n - c /\ c = s /\ c + i = i + s /\ i + s \in 1 .. n
        BY <3>1
      <4>2. up[i] = x[i + s]
        BY <1>3, <4>1
      <4> QED BY <2>3, <3>1, <4>1, <4>2, Zenon
    <3>2. CASE ~ (i <= n - c)
      <4>1. i - (n - c) \in 1 .. c /\ i + s \notin 1 .. n
        BY <3>2
      <4>2. fill[i - (n - c)] = f
        BY <1>3, <4>1, Zenon
      <4> QED BY <2>3, <3>2, <4>1, <4>2, Zenon
    <3> QED BY <3>1, <3>2, Zenon
  <2> QED BY <1>4, <2>4, <2>5, Zenon DEF z
<1>6. up \o fill \in Bits((n - c) + c) /\ Number(up \o fill) = Number(up) + TwoTo(n - c) * Number(fill)
  BY <1>1, <1>2, JoinNumber
<1> QED BY <1>1, <1>2, <1>5, <1>6

\* The quotient of a negative number whose divisor is a power of two.
LEMMA SignedQuotient ==
  ASSUME NEW p \in Nat, NEW q \in Nat, p >= 1, q >= 1, NEW X \in 0 .. p * q - 1
  PROVE  /\ (X - p * q) \div p = (X \div p) - q
         /\ ((X - p * q) \div p) % (p * q) = (X \div p) + q * (p - 1)
         /\ (X \div p) % (p * q) = X \div p
<1> DEFINE d == X \div p
           r == X % p
<1>1. d \in Int /\ r \in 0 .. p - 1 /\ X = r + p * d
  OBVIOUS
<1>2. p * q \in Nat /\ p * q >= p /\ p * q >= q
  OBVIOUS
<1> HIDE DEF d, r
<1>3. 0 <= d /\ d < q
  <2>1. d < 0 => p * d <= - p
    BY <1>1
  <2>2. d >= q => p * d >= p * q
    BY <1>1
  <2> QED BY <1>1, <1>2, <2>1, <2>2
<1>4. X - p * q = r + p * (d - q) /\ d - q \in Int
  <2>1. p * (d - q) = p * d - p * q
    BY <1>1
  <2> QED BY <1>1, <1>2, <2>1
<1>5. (X - p * q) \div p = d - q
  <2>1. (r + p * (d - q)) \div p = d - q
    BY <1>1, <1>4, QuotientIs
  <2> QED BY <1>4, <2>1
<1>6. (d - q) % (p * q) = (d - q) + p * q
  <2> DEFINE m == p * q
  <2>1. m \in Nat /\ m > 0 /\ d - q \in Int /\ -m <= d - q /\ d - q < 0
    BY <1>1, <1>2, <1>3
  <2> HIDE DEF m
  <2>2. (d - q) % m = (d - q) + m
    BY <2>1, ModBelow
  <2> QED BY <2>2 DEF m
<1>7. (d - q) + p * q = d + q * (p - 1)
  <2>1. q * (p - 1) = p * q - q
    OBVIOUS
  <2> QED BY <1>1, <1>2, <2>1
<1>8. d % (p * q) = d
  <2> DEFINE m == p * q
  <2>1. m \in Nat /\ m > 0 /\ d \in Int /\ 0 <= d /\ d < m
    BY <1>1, <1>2, <1>3
  <2> HIDE DEF m
  <2> QED BY <2>1, ModBelow DEF m
<1> QED BY <1>5, <1>6, <1>7, <1>8 DEF d

\* The barrel shifters (circuits.rs shl, lshr, ashr): an amount of any width, an
\* amount of the width of the value or more included.
THEOREM ShiftsExact ==
  ASSUME NEW n \in Nat \ {0}, NEW m \in Nat, NEW x \in Bits(n), NEW amount \in Bits(m)
  PROVE  LET s == Number(amount)
             X == Number(x)
         IN  /\ shl(x, amount) \in Bits(n)
             /\ Number(shl(x, amount)) = IF s >= n THEN 0 ELSE (X * TwoTo(s)) % TwoTo(n)
             /\ lshr(x, amount) \in Bits(n)
             /\ Number(lshr(x, amount)) = IF s >= n THEN 0 ELSE X \div TwoTo(s)
             /\ ashr(x, amount) \in Bits(n)
             /\ Number(ashr(x, amount)) = (Signed(X, n) \div TwoTo(IF s < n THEN s ELSE n)) % TwoTo(n)
<1> DEFINE s == Number(amount)
           X == Number(x)
           c == IF s < n THEN s ELSE n
           p == TwoTo(c)
           q == TwoTo(n - c)
<1>1. s \in Nat /\ X \in Nat /\ X < TwoTo(n) /\ Len(amount) = m
  BY NumberRange, BitsLen
<1>2. c \in 0 .. n /\ c \in Nat /\ n - c \in Nat /\ c + (n - c) = n
  BY <1>1
<1>3. p \in Nat /\ q \in Nat /\ p >= 1 /\ q >= 1 /\ TwoTo(n) = p * q
  <2>1. TwoTo(c + (n - c)) = p * q
    BY <1>2, TwoToSum
  <2> QED BY <1>2, <2>1, TwoToIs
<1>4. x[n] \in BOOLEAN /\ Signed(X, n) = X - Worth(x[n], TwoTo(n)) /\ Last(x) = x[n]
  BY SignBit, SignedBits
<1>5. PICK no \in BOOLEAN : ~ no
  OBVIOUS
<1>6. PICK yes \in BOOLEAN : yes
  OBVIOUS
<1>7. no = FALSE /\ yes = TRUE
  BY <1>5, <1>6
<1>8. shift_by(x, amount, -1, no) = moved(x, - s, no)
  <2>1. shift_stages(x, amount, -1, no, m)[m] = moved(x, (-1) * s, no)
    BY <1>5, StagesMove
  <2>2. (-1) * s = - s
    BY <1>1
  <2> QED BY <1>1, <2>1, <2>2 DEF shift_by
<1>9. shift_by(x, amount, 1, no) = moved(x, s, no)
  <2>1. shift_stages(x, amount, 1, no, m)[m] = moved(x, 1 * s, no)
    BY <1>5, StagesMove
  <2>2. 1 * s = s
    BY <1>1
  <2> QED BY <1>1, <2>1, <2>2 DEF shift_by
<1>10. shift_by(x, amount, 1, yes) = moved(x, s, x[n])
  <2>1. shift_stages(x, amount, 1, yes, m)[m] = moved(x, 1 * s, x[n])
    <3> DEFINE f == x[n]
    <3>1. f \in BOOLEAN /\ (f <=> yes /\ f) /\ f = x[n]
      BY <1>4, <1>6
    <3> HIDE DEF f
    <3>2. f \in BOOLEAN /\ (f <=> yes /\ x[n]) /\ 1 \in {-1, 1} /\ (yes => 1 = 1) /\ yes \in BOOLEAN
      BY <3>1, Zenon
    <3>3. shift_stages(x, amount, 1, yes, m)[m] = moved(x, 1 * s, f)
      BY <3>2, StagesMove
    <3> QED BY <3>1, <3>3
  <2>2. 1 * s = s
    BY <1>1
  <2> QED BY <1>1, <2>1, <2>2 DEF shift_by
<1>11. shl(x, amount) = moved(x, - s, no) /\ lshr(x, amount) = moved(x, s, no)
       /\ ashr(x, amount) = moved(x, s, x[n])
  BY <1>7, <1>8, <1>9, <1>10, Zenon DEF shl, lshr, ashr
<1>12. lshr(x, amount) \in Bits(n) /\ Number(lshr(x, amount)) = IF s >= n THEN 0 ELSE X \div TwoTo(s)
  <2>1. moved(x, s, no) \in Bits(n) /\ Number(moved(x, s, no)) = (X \div p) + q * Worth(no, p - 1)
    BY <1>1, <1>2, DownNumber
  <2>2. Worth(no, p - 1) = 0 /\ q * 0 = 0 /\ X \div p \in Int
    BY <1>1, <1>3, <1>5 DEF Worth
  <2>3. Number(moved(x, s, no)) = X \div p
    BY <2>1, <2>2
  <2>4. CASE s < n
    BY <1>1, <1>11, <2>1, <2>3, <2>4
  <2>5. CASE ~ (s < n)
    <3>1. p = TwoTo(n)
      BY <2>5
    <3>2. X \div p = 0
      BY <1>1, <1>3, <3>1
    <3> QED BY <1>1, <1>11, <2>1, <2>3, <2>5, <3>2
  <2> QED BY <2>4, <2>5
<1>13. ashr(x, amount) \in Bits(n) /\ Number(ashr(x, amount)) = (Signed(X, n) \div p) % TwoTo(n)
  <2>1. moved(x, s, x[n]) \in Bits(n) /\ Number(moved(x, s, x[n])) = (X \div p) + q * Worth(x[n], p - 1)
    BY <1>1, <1>2, <1>4, DownNumber
  <2>2. X \in 0 .. p * q - 1
    BY <1>1, <1>3
  <2> HIDE DEF p, q, X, s
  <2>3. /\ ((X - p * q) \div p) % (p * q) = (X \div p) + q * (p - 1)
        /\ (X \div p) % (p * q) = X \div p
    BY <1>3, <2>2, SignedQuotient
  <2>4. CASE x[n]
    <3>1. Signed(X, n) = X - p * q /\ Worth(x[n], p - 1) = p - 1
      BY <1>3, <1>4, <2>4 DEF Worth
    <3> QED BY <1>3, <1>11, <2>1, <2>3, <3>1
  <2>5. CASE ~ x[n]
    <3>1. Signed(X, n) = X /\ Worth(x[n], p - 1) = 0 /\ q * 0 = 0 /\ X \div p \in Int
      BY <1>1, <1>3, <1>4, <2>2, <2>5 DEF Worth
    <3> QED BY <1>3, <1>11, <2>1, <2>3, <3>1
  <2> QED BY <1>4, <2>4, <2>5
<1>14. shl(x, amount) \in Bits(n) /\ Number(shl(x, amount)) = IF s >= n THEN 0 ELSE (X * TwoTo(s)) % TwoTo(n)
  <2>1. moved(x, - s, no) = Partial(x, c, n, yes)
    <3>1. moved(x, - s, no) = [i \in 1 .. n |-> IF i + (- s) \in 1 .. n THEN x[i + (- s)] ELSE no]
      BY BitsLen DEF moved
    <3>2. Partial(x, c, n, yes) = [i \in 1 .. n |-> i - c \in 1 .. n /\ x[i - c] /\ yes]
      BY BitsLen DEF Partial
    <3>3. \A i \in 1 .. n : x[i] \in BOOLEAN
      BY DEF Bits
    <3> HIDE DEF s
    <3>4. ASSUME NEW i \in 1 .. n
          PROVE  (IF i + (- s) \in 1 .. n THEN x[i + (- s)] ELSE no) = (i - c \in 1 .. n /\ x[i - c] /\ yes)
      <4>1. CASE i + (- s) \in 1 .. n
        <5>1. i - c = i + (- s)
          BY <1>1, <4>1
        <5> QED BY <1>6, <3>3, <4>1, <5>1
      <4>2. CASE i + (- s) \notin 1 .. n
        <5>1. i - c \notin 1 .. n
          BY <1>1, <4>2
        <5> QED BY <1>5, <4>2, <5>1
      <4> QED BY <4>1, <4>2
    <3> QED BY <3>1, <3>2, <3>4, Zenon
  <2>2. Partial(x, c, n, yes) \in Bits(n)
    BY <1>2, PartialNumber
  <2>3. PICK e \in Nat : X * Worth(yes, p) = Number(Partial(x, c, n, yes)) + TwoTo(n) * e
    BY <1>2, PartialNumber
  <2> DEFINE y == Number(Partial(x, c, n, yes))
             w == TwoTo(n)
  <2>4. y \in 0 .. w - 1 /\ w \in Nat /\ w > 0 /\ e \in Int
    BY <2>2, NumberRange, TwoToIs
  <2>5. X * p = y + w * e
    BY <1>6, <2>3 DEF Worth
  <2> HIDE DEF y, w, X, p
  <2>6. (y + w * e) % w = y
    BY <2>4, QuotientIs
  <2>7. y = (X * p) % w
    BY <2>5, <2>6
  <2>8. CASE s < n
    BY <1>1, <1>11, <2>1, <2>2, <2>7, <2>8 DEF y, w, p
  <2>9. CASE ~ (s < n)
    <3>1. p = w
      BY <2>9 DEF p, w
    <3>2. (0 + w * X) % w = 0 /\ X * p = 0 + w * X
      <4>1. 0 \in 0 .. w - 1 /\ X \in Int
        BY <1>1, <2>4
      <4> QED BY <2>4, <3>1, <4>1, QuotientIs
    <3> QED BY <1>1, <1>11, <2>1, <2>2, <2>7, <2>9, <3>2 DEF y
  <2> QED BY <2>8, <2>9
<1> QED BY <1>12, <1>13, <1>14

\* A product by a constant.
LEMMA ConstantSumsAre ==
  ASSUME NEW n \in Nat, NEW x, NEW b
  PROVE  constant_sums(x, b, n) =
           [j \in 0 .. n |-> IF j = 0 THEN <<>>
              ELSE IF b[j] THEN add_shifted(constant_sums(x, b, n)[j - 1], x, j) ELSE constant_sums(x, b, n)[j - 1]]
<1> DEFINE start == <<>>
           Solves(f, m) == f = [j \in 0 .. m |-> IF j = 0 THEN start
                                  ELSE IF b[j] THEN add_shifted(f[j - 1], x, j) ELSE f[j - 1]]
           T == {m \in 0 .. n : \E f : Solves(f, m)}
<1> HIDE DEF start
<1>1. \E f : Solves(f, 0)
  <2>1. Solves([j \in 0 .. 0 |-> start], 0)
    OBVIOUS
  <2> HIDE DEF Solves
  <2> QED BY <2>1
<1>2. ASSUME NEW m \in 1 .. n, NEW f, Solves(f, m - 1)
      PROVE  \E g : Solves(g, m)
  <2> DEFINE g == [j \in 0 .. m |-> IF j = m THEN IF b[m] THEN add_shifted(f[m - 1], x, m) ELSE f[m - 1] ELSE f[j]]
  <2>1. ASSUME NEW j \in 0 .. m
        PROVE  g[j] = IF j = 0 THEN start ELSE IF b[j] THEN add_shifted(g[j - 1], x, j) ELSE g[j - 1]
    BY <1>2
  <2>2. Solves(g, m)
    BY <2>1
  <2> HIDE DEF Solves
  <2> QED BY <2>2
<1> HIDE DEF Solves
<1>3. T \subseteq Nat /\ 0 \in T /\ \A m \in 1 .. n : m - 1 \in T => m \in T
  BY <1>1, <1>2
<1> HIDE DEF T
<1>4. n \in T
  BY <1>3, Climb
<1>5. \E f : Solves(f, n)
  BY <1>4 DEF T
<1> QED BY <1>5, Zenon DEF constant_sums, Solves, start

\* What the partial sum acc stands for; there is none before the first bit.
SumOf(acc) == IF acc = <<>> THEN 0 ELSE Number(acc)

\* Every partial sum of mul_const stands for a partial product.
LEMMA ConstantSums ==
  ASSUME NEW n \in Nat \ {0}, NEW x \in Bits(n), NEW b \in Bits(n)
  PROVE  \A j \in 0 .. n : LET acc == constant_sums(x, b, n)[j]
                           IN  /\ acc = <<>> \/ acc \in Bits(n)
                               /\ \E e \in Int : Number(x) * numbers(b, n)[j] = SumOf(acc) + TwoTo(n) * e
<1> DEFINE acc == constant_sums(x, b, n)
           X == Number(x)
           v == numbers(b, n)
           w == TwoTo(n)
           Kept(j) == /\ acc[j] = <<>> \/ acc[j] \in Bits(n)
                      /\ \E e \in Int : X * v[j] = SumOf(acc[j]) + w * e
           T == {j \in 0 .. n : Kept(j)}
<1>1. acc[0] = <<>> /\ \A j \in 1 .. n : acc[j] = IF b[j] THEN add_shifted(acc[j - 1], x, j) ELSE acc[j - 1]
  <2>1. acc = [j \in 0 .. n |-> IF j = 0 THEN <<>> ELSE IF b[j] THEN add_shifted(acc[j - 1], x, j) ELSE acc[j - 1]]
    BY ConstantSumsAre
  <2> HIDE DEF acc
  <2> QED BY <2>1
<1> HIDE DEF acc
<1>2. X \in Nat /\ w \in Nat /\ w >= 1 /\ Len(x) = n
  BY NumberRange, TwoToIs, BitsLen
<1>3. \A y \in Bits(n) : y # <<>> /\ SumOf(y) = Number(y) /\ Number(y) \in Nat
  BY BitsLen, NumberRange DEF SumOf
<1>4. 0 \in T
  <2>1. v[0] = 0 /\ SumOf(<<>>) = 0
    BY NumbersStep DEF SumOf
  <2> HIDE DEF X, v, w
  <2>2. X * v[0] = SumOf(acc[0]) + w * 0
    BY <1>1, <1>2, <2>1
  <2> QED BY <1>1, <2>2
<1>5. ASSUME NEW j \in 1 .. n, j - 1 \in T
      PROVE  j \in T
  <2>1. v[j] = v[j - 1] + Worth(b[j], TwoTo(j - 1)) /\ v[j - 1] \in Nat /\ b[j] \in BOOLEAN
    BY NumbersWorth
  <2>2. Kept(j - 1)
    BY <1>5
  <2>3. CASE ~ b[j]
    <3>1. v[j] = v[j - 1]
      BY <2>1, <2>3 DEF Worth
    <3>2. acc[j] = acc[j - 1]
      BY <1>1, <2>3
    <3> HIDE DEF X, v, w
    <3> QED BY <2>2, <3>1, <3>2
  <2>4. CASE b[j]
    <3> DEFINE old == acc[j - 1]
    <3>1. PICK yes \in BOOLEAN : yes
      OBVIOUS
    <3>2. yes = TRUE
      BY <3>1
    <3> DEFINE part == Partial(x, j - 1, n, yes)
    <3>3. acc[j] = add_shifted(old, x, j)
      BY <1>1, <2>4
    <3>4. acc[j] = IF old = <<>> THEN part ELSE add_bits(old, part)
      BY <1>2, <3>2, <3>3, Zenon DEF add_shifted
    <3>5. j - 1 \in 0 .. n
      OBVIOUS
    <3>6. part \in Bits(n)
      BY <3>5, PartialNumber
    <3>7. PICK d \in Nat : X * Worth(yes, TwoTo(j - 1)) = Number(part) + w * d
      BY <3>5, PartialNumber
    <3>8. X * TwoTo(j - 1) = Number(part) + w * d /\ v[j] = v[j - 1] + TwoTo(j - 1) /\ TwoTo(j - 1) \in Nat
      BY <2>1, <2>4, <3>1, <3>7, TwoToStep DEF Worth
    <3>9. PICK e \in Int : X * v[j - 1] = SumOf(old) + w * e
      BY <2>2
    <3>10. old = <<>> \/ old \in Bits(n)
      BY <2>2
    <3> HIDE DEF X, v, w, part, old
    <3>11. X * v[j] = (SumOf(old) + w * e) + (Number(part) + w * d)
      <4>1. X * (v[j - 1] + TwoTo(j - 1)) = X * v[j - 1] + X * TwoTo(j - 1)
        BY <1>2, <2>1, <3>8
      <4> QED BY <3>8, <3>9, <4>1
    <3>12. Number(part) \in Nat /\ part # <<>> /\ SumOf(part) = Number(part)
      BY <1>3, <3>6
    <3>13. CASE old = <<>>
      <4>1. acc[j] = part /\ SumOf(old) = 0
        BY <3>4, <3>13 DEF SumOf
      <4>2. X * v[j] = SumOf(acc[j]) + w * (e + d)
        BY <1>2, <3>11, <3>12, <4>1
      <4>3. e + d \in Int
        OBVIOUS
      <4> QED BY <3>6, <4>1, <4>2, <4>3
    <3>14. CASE old # <<>>
      <4>1. old \in Bits(n) /\ acc[j] = add_bits(old, part)
        BY <3>4, <3>10, <3>14
      <4>2. acc[j] \in Bits(n) /\ Number(acc[j]) = (Number(old) + Number(part)) % w
        BY <3>6, <4>1, SumsExact DEF w
      <4>3. SumOf(old) = Number(old) /\ Number(old) \in Nat /\ SumOf(acc[j]) = Number(acc[j])
            /\ Number(acc[j]) \in Nat
        BY <1>3, <4>1, <4>2
      <4>4. PICK g \in Int : Number(old) + Number(part) = Number(acc[j]) + w * g
        <5> DEFINE z == Number(old) + Number(part)
        <5>1. z \in Nat
          BY <3>12, <4>3
        <5> HIDE DEF z
        <5>2. z = (z % w) + w * (z \div w) /\ z \div w \in Int
          BY <1>2, <5>1
        <5> QED BY <4>2, <5>2 DEF z
      <4>5. X * v[j] = SumOf(acc[j]) + w * ((g + e) + d)
        <5>1. w * ((g + e) + d) = w * g + w * e + w * d
          BY <1>2
        <5> QED BY <1>2, <3>11, <3>12, <4>3, <4>4, <5>1
      <4>6. (g + e) + d \in Int
        OBVIOUS
      <4> QED BY <4>2, <4>5, <4>6
    <3> QED BY <3>13, <3>14
  <2> QED BY <2>1, <2>3, <2>4
<1>6. \A j \in 0 .. n : j \in T
  <2>1. T \subseteq Nat
    OBVIOUS
  <2> HIDE DEF T
  <2> QED BY <1>4, <1>5, <2>1, ClimbAll
<1> QED BY <1>6 DEF acc

\* The multiplier by a constant (circuits.rs mul_const) is the multiplier.
THEOREM MulConstExact ==
  ASSUME NEW n \in Nat \ {0}, NEW x \in Bits(n), NEW b \in Bits(n)
  PROVE  mul_const(x, b) \in Bits(n) /\ Number(mul_const(x, b)) = (Number(x) * Number(b)) % TwoTo(n)
<1> DEFINE X == Number(x)
           B == Number(b)
           w == TwoTo(n)
<1>1. Len(x) = n /\ Len(b) = n /\ DOMAIN b = 1 .. n
  BY BitsLen
<1>2. X \in Nat /\ X < w /\ B \in Nat /\ B < w /\ w \in Nat /\ w >= 1
  BY NumberRange, TwoToIs
<1> DEFINE none == \A j \in 1 .. n : ~ b[j]
           one == b[1] /\ \A j \in 2 .. n : ~ b[j]
           all == \A j \in 1 .. n : b[j]
           sum == unwrap_or_zero(constant_sums(x, b, n)[n], n)
<1>3. mul_const(x, b) = IF none THEN Same_bits(n, FALSE) ELSE IF one THEN x ELSE IF all THEN neg_bits(x) ELSE sum
  BY <1>1 DEF mul_const
<1>4. ASSUME none PROVE B = 0
  <2>1. is_zero_bits(b)
    BY <1>1, <1>4 DEF is_zero_bits
  <2> QED BY <2>1, ZeroExact
<1>5. ASSUME one PROVE B = 1
  <2>1. \A i \in 1 .. n : numbers(b, n)[i] = 1
    <3> DEFINE T == {i \in 0 .. n - 1 : numbers(b, n)[i + 1] = 1}
    <3>1. 0 \in T
      <4>1. 1 \in 1 .. n /\ 0 + 1 = 1 /\ 1 - 1 = 0
        OBVIOUS
      <4>2. numbers(b, n)[1] = IF b[1] THEN numbers(b, n)[1 - 1] + TwoTo(1 - 1) ELSE numbers(b, n)[1 - 1]
        BY <4>1, NumbersStep
      <4>3. numbers(b, n)[0] = 0
        BY NumbersStep
      <4>4. numbers(b, n)[1] = 1
        BY <1>5, <4>1, <4>2, <4>3, TwoToIs
      <4> QED BY <4>1, <4>4
    <3>2. ASSUME NEW i \in 1 .. n - 1, i - 1 \in T
          PROVE  i \in T
      <4>1. i + 1 \in 2 .. n /\ i + 1 \in 1 .. n /\ (i + 1) - 1 = i /\ (i - 1) + 1 = i
        OBVIOUS
      <4>2. numbers(b, n)[i + 1] = IF b[i + 1] THEN numbers(b, n)[(i + 1) - 1] + TwoTo((i + 1) - 1)
                                   ELSE numbers(b, n)[(i + 1) - 1]
        BY <4>1, NumbersStep
      <4>3. numbers(b, n)[i] = 1
        BY <3>2, <4>1
      <4> QED BY <1>5, <4>1, <4>2, <4>3
    <3>3. \A i \in 0 .. n - 1 : i \in T
      <4>1. T \subseteq Nat /\ n - 1 \in Nat
        OBVIOUS
      <4> HIDE DEF T
      <4> QED BY <3>1, <3>2, <4>1, ClimbAll
    <3> SUFFICES ASSUME NEW i \in 1 .. n PROVE numbers(b, n)[i] = 1
      OBVIOUS
    <3>4. i - 1 \in 0 .. n - 1 /\ (i - 1) + 1 = i
      OBVIOUS
    <3> QED BY <3>3, <3>4
  <2>2. B = numbers(b, n)[n] /\ n \in 1 .. n
    BY NumberRange
  <2> QED BY <2>1, <2>2
<1>6. ASSUME all PROVE B = w - 1
  <2>1. b = Same_bits(n, TRUE)
    <3>1. b = [i \in 1 .. n |-> b[i]] /\ \A i \in 1 .. n : b[i] \in BOOLEAN
      BY DEF Bits
    <3>2. \A i \in 1 .. n : b[i] = TRUE
      BY <1>6, <3>1
    <3> QED BY <3>1, <3>2, Zenon DEF Same_bits
  <2>2. Number(Same_bits(n, TRUE)) = w - 1
    BY SameNumber
  <2> QED BY <2>1, <2>2, Zenon
<1>7. sum \in Bits(n) /\ Number(sum) = (X * B) % w
  <2> DEFINE acc == constant_sums(x, b, n)[n]
  <2>1. n \in 0 .. n /\ B = numbers(b, n)[n]
    BY NumberRange
  <2>2. acc = <<>> \/ acc \in Bits(n)
    BY <2>1, ConstantSums
  <2>3. PICK e \in Int : X * B = SumOf(acc) + w * e
    BY <2>1, ConstantSums
  <2>4. sum \in Bits(n) /\ Number(sum) = SumOf(acc) /\ SumOf(acc) \in 0 .. w - 1
    <3>1. CASE acc = <<>>
      <4>1. sum = Same_bits(n, FALSE) /\ SumOf(acc) = 0
        BY <3>1, Zenon DEF unwrap_or_zero, SumOf
      <4>2. Same_bits(n, FALSE) \in Bits(n) /\ Number(Same_bits(n, FALSE)) = 0
        BY SameNumber
      <4>3. sum \in Bits(n) /\ Number(sum) = 0
        BY <4>1, <4>2, Zenon
      <4> HIDE DEF sum, acc
      <4>4. SumOf(acc) = 0
        BY <4>1, Zenon
      <4> QED BY <1>2, <4>3, <4>4
    <3>2. CASE acc # <<>>
      <4>1. sum = acc /\ SumOf(acc) = Number(acc) /\ acc \in Bits(n)
        BY <2>2, <3>2 DEF unwrap_or_zero, SumOf
      <4>2. Number(acc) \in Nat /\ Number(acc) < w
        BY <4>1, NumberRange
      <4> QED BY <1>2, <4>1, <4>2
    <3> QED BY <3>1, <3>2
  <2> HIDE DEF acc, sum, X, B, w
  <2>5. (SumOf(acc) + w * e) % w = SumOf(acc)
    BY <1>2, <2>4, QuotientIs
  <2> QED BY <2>3, <2>4, <2>5
<1>8. CASE none
  <2>1. mul_const(x, b) = Same_bits(n, FALSE)
    BY <1>3, <1>8, Zenon
  <2>2. Same_bits(n, FALSE) \in Bits(n) /\ Number(Same_bits(n, FALSE)) = 0
    BY SameNumber
  <2>3. mul_const(x, b) \in Bits(n) /\ Number(mul_const(x, b)) = 0
    BY <2>1, <2>2, Zenon
  <2>4. X * B = 0 /\ 0 % w = 0
    BY <1>2, <1>4, <1>8
  <2> QED BY <2>3, <2>4
<1>9. CASE ~ none /\ one
  <2>1. mul_const(x, b) = x
    BY <1>3, <1>9, Zenon
  <2>2. X * B = X
    BY <1>2, <1>5, <1>9
  <2>3. X % w = X
    BY <1>2, ModBelow
  <2> QED BY <2>1, <2>2, <2>3
<1>10. CASE ~ none /\ ~ one /\ all
  <2>1. mul_const(x, b) = neg_bits(x)
    BY <1>3, <1>10, Zenon
  <2>2. neg_bits(x) \in Bits(n) /\ Number(neg_bits(x)) = (- X) % w
    BY SumsExact
  <2>3. B = w - 1
    BY <1>6, <1>10
  <2> HIDE DEF X, B, w
  <2>4. X * B = (- X) + w * X
    BY <1>2, <2>3
  <2>5. ((- X) + w * X) % w = (- X) % w
    <3> DEFINE r == (- X) % w
               d == (- X) \div w
    <3>1. r \in 0 .. w - 1 /\ d \in Int /\ - X = r + w * d
      BY <1>2
    <3> HIDE DEF r, d
    <3>2. (- X) + w * X = r + w * (d + X) /\ d + X \in Int
      BY <1>2, <3>1
    <3>3. (r + w * (d + X)) % w = r
      BY <1>2, <3>1, <3>2, QuotientIs
    <3> QED BY <3>2, <3>3 DEF r
  <2> QED BY <2>1, <2>2, <2>4, <2>5 DEF X, B, w
<1>11. CASE ~ none /\ ~ one /\ ~ all
  <2>1. mul_const(x, b) = sum
    BY <1>3, <1>11, Zenon
  <2> QED BY <1>7, <2>1, Zenon
<1> HIDE DEF none, one, all
<1>12. none \/ (~ none /\ one) \/ (~ none /\ ~ one /\ all) \/ (~ none /\ ~ one /\ ~ all)
  BY Zenon
<1> QED BY <1>8, <1>9, <1>10, <1>11, <1>12, Zenon

\* Copies of x, one above the other (circuits.rs repeat).
LEMMA RepeatsAre ==
  ASSUME NEW n \in Nat, NEW x
  PROVE  repeats(x, n) = [k \in 0 .. n |-> IF k = 0 THEN <<>> ELSE repeats(x, n)[k - 1] \o x]
<1> DEFINE start == <<>>
           join(s) == s \o x
           Solves(f, m) == f = [k \in 0 .. m |-> IF k = 0 THEN start ELSE join(f[k - 1])]
           T == {m \in 0 .. n : \E f : Solves(f, m)}
<1> HIDE DEF start, join
<1>1. \E f : Solves(f, 0)
  <2>1. Solves([k \in 0 .. 0 |-> start], 0)
    OBVIOUS
  <2> HIDE DEF Solves
  <2> QED BY <2>1
<1>2. ASSUME NEW m \in 1 .. n, NEW f, Solves(f, m - 1)
      PROVE  \E g : Solves(g, m)
  <2> DEFINE g == [k \in 0 .. m |-> IF k = m THEN join(f[m - 1]) ELSE f[k]]
  <2>1. ASSUME NEW k \in 0 .. m
        PROVE  g[k] = IF k = 0 THEN start ELSE join(g[k - 1])
    BY <1>2
  <2>2. Solves(g, m)
    BY <2>1
  <2> HIDE DEF Solves
  <2> QED BY <2>2
<1> HIDE DEF Solves
<1>3. T \subseteq Nat /\ 0 \in T /\ \A m \in 1 .. n : m - 1 \in T => m \in T
  BY <1>1, <1>2
<1> HIDE DEF T
<1>4. n \in T
  BY <1>3, Climb
<1>5. \E f : Solves(f, n)
  BY <1>4 DEF T
<1> QED BY <1>5, Zenon DEF repeats, Solves, start, join

\* The table behind Repeated satisfies its own recursion.
LEMMA CopiesAre ==
  ASSUME NEW n \in Nat, NEW X, NEW w
  PROVE  copies(X, w, n) = [k \in 0 .. n |-> IF k = 0 THEN 0 ELSE copies(X, w, n)[k - 1] + X * TwoTo((k - 1) * w)]
<1> DEFINE Solves(f, m) == f = [k \in 0 .. m |-> IF k = 0 THEN 0 ELSE f[k - 1] + X * TwoTo((k - 1) * w)]
           T == {m \in 0 .. n : \E f : Solves(f, m)}
<1>1. \E f : Solves(f, 0)
  <2>1. Solves([k \in 0 .. 0 |-> 0], 0)
    OBVIOUS
  <2> HIDE DEF Solves
  <2> QED BY <2>1
<1>2. ASSUME NEW m \in 1 .. n, NEW f, Solves(f, m - 1)
      PROVE  \E g : Solves(g, m)
  <2> DEFINE g == [k \in 0 .. m |-> IF k = m THEN f[m - 1] + X * TwoTo((m - 1) * w) ELSE f[k]]
  <2>1. ASSUME NEW k \in 0 .. m
        PROVE  g[k] = IF k = 0 THEN 0 ELSE g[k - 1] + X * TwoTo((k - 1) * w)
    BY <1>2
  <2>2. Solves(g, m)
    BY <2>1
  <2> HIDE DEF Solves
  <2> QED BY <2>2
<1> HIDE DEF Solves
<1>3. T \subseteq Nat /\ 0 \in T /\ \A m \in 1 .. n : m - 1 \in T => m \in T
  BY <1>1, <1>2
<1> HIDE DEF T
<1>4. n \in T
  BY <1>3, Climb
<1>5. \E f : Solves(f, n)
  BY <1>4 DEF T
<1> QED BY <1>5, Zenon DEF copies, Solves

\* repeat puts the copies side by side.
LEMMA RepeatExact ==
  ASSUME NEW n \in Nat, NEW x \in Bits(n), NEW count \in Nat
  PROVE  /\ repeat(x, count) \in Bits(n * count)
         /\ Number(repeat(x, count)) = Repeated(Number(x), n, count)
<1> DEFINE out == repeats(x, count)
           X == Number(x)
           r == copies(X, n, count)
           T == {k \in 0 .. count : out[k] \in Bits(k * n) /\ Number(out[k]) = r[k]}
<1>1. out[0] = <<>> /\ \A k \in 1 .. count : out[k] = out[k - 1] \o x
  <2> DEFINE join(s) == s \o x
             start == <<>>
  <2>1. out = [k \in 0 .. count |-> IF k = 0 THEN start ELSE join(out[k - 1])]
    BY RepeatsAre, Zenon
  <2> HIDE DEF out, join, start
  <2>2. out[0] = start /\ \A k \in 1 .. count : out[k] = join(out[k - 1])
    BY <2>1
  <2> QED BY <2>2, Zenon DEF join, start
<1>2. r[0] = 0 /\ \A k \in 1 .. count : r[k] = r[k - 1] + X * TwoTo((k - 1) * n)
  <2>1. r = [k \in 0 .. count |-> IF k = 0 THEN 0 ELSE r[k - 1] + X * TwoTo((k - 1) * n)]
    BY CopiesAre
  <2> HIDE DEF r
  <2> QED BY <2>1
<1>3. X \in Nat
  BY NumberRange
<1> HIDE DEF out, r
<1>4. 0 \in T
  <2>1. <<>> \in Bits(0)
    BY DEF Bits
  <2>2. Number(<<>>) = numbers(<<>>, 0)[0]
    BY <2>1, NumberRange
  <2>3. numbers(<<>>, 0)[0] = 0
    BY NumbersStep
  <2>4. 0 * n = 0
    OBVIOUS
  <2> QED BY <1>1, <1>2, <2>1, <2>2, <2>3, <2>4
<1>5. ASSUME NEW k \in 1 .. count, k - 1 \in T
      PROVE  k \in T
  <2> DEFINE l == (k - 1) * n
  <2>1. l \in Nat /\ l + n = k * n /\ TwoTo(l) \in Nat
    <3>1. k - 1 \in Nat
      OBVIOUS
    <3>2. l \in Nat /\ l + n = k * n
      BY <3>1
    <3> HIDE DEF l
    <3> QED BY <3>2, TwoToIs
  <2>2. out[k - 1] \in Bits(l) /\ Number(out[k - 1]) = r[k - 1]
    BY <1>5
  <2>3. out[k] = out[k - 1] \o x /\ r[k] = r[k - 1] + X * TwoTo(l)
    BY <1>1, <1>2
  <2> HIDE DEF l
  <2>4. out[k] \in Bits(l + n) /\ Number(out[k]) = Number(out[k - 1]) + TwoTo(l) * X
    BY <2>1, <2>2, <2>3, JoinNumber
  <2>5. TwoTo(l) * X = X * TwoTo(l)
    BY <1>3, <2>1
  <2>6. out[k] \in Bits(k * n) /\ Number(out[k]) = r[k]
    BY <2>1, <2>2, <2>3, <2>4, <2>5
  <2> HIDE DEF X
  <2> QED BY <2>6
<1>6. count \in T
  <2>1. T \subseteq Nat
    OBVIOUS
  <2> HIDE DEF T
  <2> QED BY <1>4, <1>5, <2>1, Climb
<1>7. count * n = n * count
  OBVIOUS
<1> QED BY <1>6, <1>7 DEF repeat, Repeated, out, r

\* The cases of a selection, from the last back to the first (blast.rs BvSelect).
LEMMA ChoicesAre ==
  ASSUME NEW n \in Nat, NEW v
  PROVE  choices(v, n) = [k \in 0 .. n |-> IF k = 0 THEN Last(v)
                                           ELSE choose_case(v, n + 1 - k, choices(v, n)[k - 1])]
<1> DEFINE start == Last(v)
           Solves(f, m) == f = [k \in 0 .. m |-> IF k = 0 THEN start ELSE choose_case(v, n + 1 - k, f[k - 1])]
           T == {m \in 0 .. n : \E f : Solves(f, m)}
<1> HIDE DEF start
<1>1. \E f : Solves(f, 0)
  <2>1. Solves([k \in 0 .. 0 |-> start], 0)
    OBVIOUS
  <2> HIDE DEF Solves
  <2> QED BY <2>1
<1>2. ASSUME NEW m \in 1 .. n, NEW f, Solves(f, m - 1)
      PROVE  \E g : Solves(g, m)
  <2> DEFINE g == [k \in 0 .. m |-> IF k = m THEN choose_case(v, n + 1 - m, f[m - 1]) ELSE f[k]]
  <2>1. ASSUME NEW k \in 0 .. m
        PROVE  g[k] = IF k = 0 THEN start ELSE choose_case(v, n + 1 - k, g[k - 1])
    BY <1>2
  <2>2. Solves(g, m)
    BY <2>1
  <2> HIDE DEF Solves
  <2> QED BY <2>2
<1> HIDE DEF Solves
<1>3. T \subseteq Nat /\ 0 \in T /\ \A m \in 1 .. n : m - 1 \in T => m \in T
  BY <1>1, <1>2
<1> HIDE DEF T
<1>4. n \in T
  BY <1>3, Climb
<1>5. \E f : Solves(f, n)
  BY <1>4 DEF T
<1> QED BY <1>5, Zenon DEF choices, Solves, start

\* What a selection among the cases first .. m and the default is.
THEOREM SelectExact ==
  ASSUME NEW n \in Nat, NEW m \in Nat, NEW v, Len(v) = 2 * m + 1, v[Len(v)] \in Bits(n),
         \A k \in 1 .. m : v[2 * k - 1] \in BOOLEAN /\ v[2 * k] \in Bits(n)
  PROVE  LET cases == {k \in 1 .. m : v[2 * k - 1]}
         IN  /\ blast_select(v) \in Bits(n)
             /\ blast_select(v) = IF cases = {} THEN v[Len(v)] ELSE v[2 * Min(cases)]
<1> DEFINE result == choices(v, m)
           cases == {k \in 1 .. m : v[2 * k - 1]}
           Kept(k) == /\ result[k] \in Bits(n)
                      /\ (\A j \in m + 1 - k .. m : ~ v[2 * j - 1]) => result[k] = v[Len(v)]
                      /\ \A i \in m + 1 - k .. m :
                           v[2 * i - 1] /\ (\A j \in m + 1 - k .. i - 1 : ~ v[2 * j - 1]) => result[k] = v[2 * i]
           T == {k \in 0 .. m : Kept(k)}
<1>1. Last(v) = v[Len(v)]
  BY DEF Last
<1>2. result[0] = v[Len(v)] /\ \A k \in 1 .. m : result[k] = choose_case(v, m + 1 - k, result[k - 1])
  <2>1. result = [k \in 0 .. m |-> IF k = 0 THEN Last(v) ELSE choose_case(v, m + 1 - k, result[k - 1])]
    BY ChoicesAre
  <2> HIDE DEF result
  <2> QED BY <1>1, <2>1
<1> HIDE DEF result
<1>3. 0 \in T
  BY <1>2
<1>4. ASSUME NEW k \in 1 .. m, k - 1 \in T
      PROVE  k \in T
  <2> DEFINE c == m + 1 - k
  <2>1. c \in 1 .. m /\ v[2 * c - 1] \in BOOLEAN /\ v[2 * c] \in Bits(n) /\ m + 1 - (k - 1) = c + 1
    <3>1. c \in 1 .. m /\ m + 1 - (k - 1) = c + 1
      OBVIOUS
    <3> HIDE DEF c
    <3> QED BY <3>1
  <2>2. Kept(k - 1)
    BY <1>4
  <2>3. result[k] = choose_case(v, c, result[k - 1])
    BY <1>2
  <2> HIDE DEF c
  <2>4. result[k] = IF v[2 * c - 1] THEN v[2 * c] ELSE result[k - 1]
    <3> DEFINE t == v[2 * c]
               f == result[k - 1]
               p == v[2 * c - 1]
    <3>1. t \in Bits(n) /\ f \in Bits(n) /\ p \in BOOLEAN
      BY <2>1, <2>2
    <3>2. result[k] = mux_bits(p, t, f)
      BY <2>3 DEF choose_case
    <3> HIDE DEF t, f, p
    <3>3. mux_bits(p, t, f) = [i \in 1 .. n |-> IF p THEN t[i] ELSE f[i]]
      BY <3>1, BitsLen DEF mux_bits, mux
    <3>4. t = [i \in 1 .. n |-> t[i]] /\ f = [i \in 1 .. n |-> f[i]]
      BY <3>1 DEF Bits
    <3>5. mux_bits(p, t, f) = IF p THEN t ELSE f
      BY <3>1, <3>3, <3>4, Zenon
    <3> QED BY <3>2, <3>5 DEF t, f, p
  <2>5. result[k] \in Bits(n)
    BY <2>1, <2>2, <2>4
  <2>6. ASSUME \A j \in c .. m : ~ v[2 * j - 1]
        PROVE  result[k] = v[Len(v)]
    <3>1. ~ v[2 * c - 1] /\ \A j \in c + 1 .. m : ~ v[2 * j - 1]
      BY <2>1, <2>6
    <3> QED BY <2>1, <2>2, <2>4, <3>1
  <2>7. ASSUME NEW i \in c .. m, v[2 * i - 1], \A j \in c .. i - 1 : ~ v[2 * j - 1]
        PROVE  result[k] = v[2 * i]
    <3>1. CASE i = c
      BY <2>4, <2>7, <3>1
    <3>2. CASE i # c
      <4>1. i \in c + 1 .. m /\ c \in c .. i - 1 /\ \A j \in c + 1 .. i - 1 : j \in c .. i - 1
        BY <2>1, <3>2
      <4>2. ~ v[2 * c - 1] /\ \A j \in c + 1 .. i - 1 : ~ v[2 * j - 1]
        BY <2>7, <4>1
      <4> QED BY <2>1, <2>2, <2>4, <2>7, <4>1, <4>2
    <3> QED BY <3>1, <3>2
  <2>8. Kept(k)
    BY <2>5, <2>6, <2>7 DEF c
  <2> QED BY <2>8
<1>5. Kept(m)
  <2>1. T \subseteq Nat
    OBVIOUS
  <2>2. m \in T
    <3> HIDE DEF T
    <3> QED BY <1>3, <1>4, <2>1, Climb
  <2> QED BY <2>2
<1>6. blast_select(v) = result[m]
  <2>1. (Len(v) - 1) \div 2 = m
    OBVIOUS
  <2> QED BY <2>1, Zenon DEF blast_select, result
<1>7. m + 1 - m = 1
  OBVIOUS
<1>8. CASE cases = {}
  <2>1. \A j \in 1 .. m : ~ v[2 * j - 1]
    BY <1>8
  <2> QED BY <1>5, <1>6, <1>7, <1>8, <2>1
<1>9. CASE cases # {}
  <2> DEFINE i == Min(cases)
  <2>1. i \in cases /\ \A j \in cases : i <= j
    <3>1. cases \subseteq Nat
      OBVIOUS
    <3>2. PICK j \in cases : TRUE
      BY <1>9
    <3> HIDE DEF cases
    <3>3. \E j0 \in cases : \A k \in cases : j0 <= k
      BY <3>1, <3>2, LeastNumber
    <3> QED BY <3>3, Zenon DEF Min
  <2> HIDE DEF i
  <2>2. i \in 1 .. m /\ v[2 * i - 1]
    BY <2>1
  <2>3. \A j \in 1 .. i - 1 : ~ v[2 * j - 1]
    <3> SUFFICES ASSUME NEW j \in 1 .. i - 1, v[2 * j - 1] PROVE FALSE
      OBVIOUS
    <3>1. j \in cases /\ ~ (i <= j)
      BY <2>2
    <3> QED BY <2>1, <3>1
  <2>4. result[m] = v[2 * i]
    BY <1>5, <1>7, <2>2, <2>3
  <2> QED BY <1>5, <1>6, <1>9, <2>4 DEF i
<1> QED BY <1>8, <1>9

\* Only the least number has no negation, and only its quotient by -1 is out of
\* range (circuits.rs neg_overflow, sdiv_overflow).
LEMMA DivisionOverflow ==
  ASSUME NEW n \in Nat \ {0}, NEW a \in Bits(n), NEW b \in Bits(n)
  PROVE  /\ neg_overflow(a) <=> OutOfRange(- Signed(Number(a), n), n)
         /\ sdiv_overflow(a, b) <=> Number(b) # 0 /\ OutOfRange(Quot(Signed(Number(a), n), Signed(Number(b), n)), n)
<1> DEFINE h == TwoTo(n - 1)
           A == Number(a)
           B == Number(b)
           x == Signed(A, n)
           y == Signed(B, n)
           all == Same_bits(n, TRUE)
<1>1. h \in Nat /\ h >= 1 /\ TwoTo(n) = 2 * h /\ A \in Nat /\ A < 2 * h /\ B \in Nat /\ B < 2 * h
  BY SignBit
<1>2. /\ x \in Int /\ -h <= x /\ x < h /\ x = (IF A >= h THEN A - 2 * h ELSE A)
      /\ y \in Int /\ -h <= y /\ y < h /\ y = (IF B >= h THEN B - 2 * h ELSE B)
  BY <1>1, SignedBits DEF Signed
<1>3. eq_bits(a, MinBits(n)) <=> A = h
  BY EqExact, MinNumber
<1>4. eq_bits(b, all) <=> B = 2 * h - 1
  <2>1. all \in Bits(n) /\ Number(all) = 2 * h - 1
    BY <1>1, SameNumber
  <2> HIDE DEF all
  <2> QED BY <2>1, EqExact
<1>5. Len(a) = n /\ Len(b) = n
  BY BitsLen
<1>6. neg_overflow(a) <=> A = h
  BY <1>3, <1>5 DEF neg_overflow
<1>7. sdiv_overflow(a, b) <=> A = h /\ B = 2 * h - 1
  BY <1>3, <1>4, <1>5, Zenon DEF sdiv_overflow
<1> HIDE DEF x, y, A, B, h
<1>8. (A = h <=> x = -h) /\ (B = 2 * h - 1 <=> y = -1) /\ (B = 0 <=> y = 0)
  BY <1>1, <1>2
<1>9. /\ (-x < -h \/ -x >= h) <=> x = -h
      /\ Quot(x, -1) = -x
      /\ \A z \in -h .. h - 1 : z # 0 /\ z # -1 => -h <= Quot(x, z) /\ Quot(x, z) < h
  <2>1. x \in -h .. h - 1
    BY <1>1, <1>2
  <2> QED BY <1>1, <2>1, OnlyMin
<1>10. /\ OutOfRange(- x, n) <=> (-x < -h \/ -x >= h)
       /\ OutOfRange(Quot(x, y), n) <=> (Quot(x, y) < -h \/ Quot(x, y) >= h)
  BY DEF OutOfRange, h
<1>11. B # 0 /\ OutOfRange(Quot(x, y), n) <=> x = -h /\ y = -1
  <2>1. CASE y = -1
    <3>1. y # 0 /\ Quot(x, y) = - x
      BY <1>9, <2>1
    <3> QED BY <1>8, <1>9, <1>10, <2>1, <3>1
  <2>2. CASE y # -1 /\ y # 0
    <3>1. y \in -h .. h - 1
      BY <1>1, <1>2
    <3>2. -h <= Quot(x, y) /\ Quot(x, y) < h
      BY <1>9, <2>2, <3>1
    <3>3. Quot(x, y) \in Int
      <4>1. AbsInt(x) \in Nat /\ AbsInt(y) \in Nat /\ AbsInt(y) > 0
        BY <1>2, <2>2 DEF AbsInt
      <4>2. AbsInt(x) \div AbsInt(y) \in Int
        BY <4>1
      <4> QED BY <4>2 DEF Quot
    <3>4. ~ (Quot(x, y) < -h \/ Quot(x, y) >= h)
      BY <1>1, <3>2, <3>3
    <3> QED BY <1>10, <2>2, <3>4
  <2>3. CASE y = 0
    BY <1>8, <2>3
  <2> QED BY <2>1, <2>2, <2>3
<1> QED BY <1>6, <1>7, <1>8, <1>9, <1>10, <1>11 DEF x, y, A, B

\* The operators on two bit-vectors of one width.
LEMMA PairsExact ==
  ASSUME NEW n \in Nat \ {0}, NEW v, v[1] \in Bits(n), v[2] \in Bits(n), NEW known, NEW wh,
         NEW u, u[1] = Number(v[1]), u[2] = Number(v[2]), NEW node, node.op \in PairOps
  PROVE  /\ blast_bv(node, known, v) \in Bits(n)
         /\ Number(blast_bv(node, known, v)) = Meaning(node.op, u, node.par, wh, n)
<1> DEFINE a == v[1]
           b == v[2]
           A == Number(a)
           B == Number(b)
           r == blast_bv(node, known, v)
           m == Meaning(node.op, u, node.par, wh, n)
<1>1. a \in Bits(n) /\ b \in Bits(n) /\ n \in Nat /\ u[1] = A /\ u[2] = B
  OBVIOUS
<1> HIDE DEF a, b
<1>2. CASE node.op = "BvAnd"
  <2>1. r = bitwise_and(a, b)
    BY <1>2 DEF blast_bv, a, b
  <2>2. m = AndOf(A, B, n)
    BY <1>1, <1>2 DEF Meaning
  <2> QED BY <1>1, <2>1, <2>2, BitwiseExact
<1>3. CASE node.op = "BvOr"
  <2>1. r = bitwise_or(a, b)
    BY <1>3 DEF blast_bv, a, b
  <2>2. m = OrOf(A, B, n)
    BY <1>1, <1>3 DEF Meaning
  <2> QED BY <1>1, <2>1, <2>2, BitwiseExact
<1>4. CASE node.op = "BvXor"
  <2>1. r = bitwise_xor(a, b)
    BY <1>4 DEF blast_bv, a, b
  <2>2. m = XorOf(A, B, n)
    BY <1>1, <1>4 DEF Meaning
  <2> QED BY <1>1, <2>1, <2>2, BitwiseExact
<1>5. CASE node.op = "BvAdd"
  <2>1. r = add_bits(a, b)
    BY <1>5 DEF blast_bv, a, b
  <2>2. m = (A + B) % TwoTo(n)
    BY <1>1, <1>5 DEF Meaning
  <2> QED BY <1>1, <2>1, <2>2, SumsExact
<1>6. CASE node.op = "BvSub"
  <2>1. r = sub_bits(a, b)
    BY <1>6 DEF blast_bv, a, b
  <2>2. m = (A - B) % TwoTo(n)
    BY <1>1, <1>6 DEF Meaning
  <2> QED BY <1>1, <2>1, <2>2, SumsExact
<1>7. CASE node.op = "BvMul"
  <2>1. r = blast_mul(known, v)
    BY <1>7 DEF blast_bv
  <2>2. m = (A * B) % TwoTo(n)
    BY <1>1, <1>7 DEF Meaning
  <2>3. r \in {mul_const(b, a), mul_const(a, b), mul(a, b)}
    BY <2>1, Zenon DEF blast_mul, a, b
  <2>4. mul_const(b, a) \in Bits(n) /\ Number(mul_const(b, a)) = (B * A) % TwoTo(n)
    BY <1>1, MulConstExact
  <2>5. mul_const(a, b) \in Bits(n) /\ Number(mul_const(a, b)) = (A * B) % TwoTo(n)
    BY <1>1, MulConstExact
  <2>6. mul(a, b) \in Bits(n) /\ Number(mul(a, b)) = (A * B) % TwoTo(n)
    BY <1>1, MulWidthExact, BitsLen DEF mul
  <2>7. B * A = A * B
    BY <1>1, NumberRange
  <2>8. Number(mul_const(b, a)) = (A * B) % TwoTo(n)
    BY <2>4, <2>7, Zenon
  <2> QED BY <2>2, <2>3, <2>4, <2>5, <2>6, <2>8, Zenon
<1>8. CASE node.op = "BvUDiv"
  <2>1. r = udiv_urem(a, b).quo
    BY <1>8 DEF blast_bv, a, b
  <2>2. m = UDiv(A, B, n)
    BY <1>1, <1>8 DEF Meaning
  <2> QED BY <1>1, <2>1, <2>2, DivisionExact DEF UDiv
<1>9. CASE node.op = "BvURem"
  <2>1. r = udiv_urem(a, b).rem
    BY <1>9 DEF blast_bv, a, b
  <2>2. m = IF B = 0 THEN A ELSE A % B
    BY <1>1, <1>9 DEF Meaning
  <2> QED BY <1>1, <2>1, <2>2, DivisionExact
<1>10. CASE node.op = "BvSDiv"
  <2>1. r = sdiv(a, b)
    BY <1>10 DEF blast_bv, a, b
  <2>2. m = SDiv(A, B, n)
    BY <1>1, <1>10 DEF Meaning
  <2> QED BY <1>1, <2>1, <2>2, SDivExact
<1>11. CASE node.op = "BvSRem"
  <2>1. r = srem(a, b)
    BY <1>11 DEF blast_bv, a, b
  <2>2. m = SRem(A, B, n)
    BY <1>1, <1>11 DEF Meaning
  <2> QED BY <1>1, <2>1, <2>2, SRemExact
<1>12. CASE node.op = "BvSMod"
  <2>1. r = smod(a, b)
    BY <1>12 DEF blast_bv, a, b
  <2>2. m = SMod(A, B, n)
    BY <1>1, <1>12 DEF Meaning
  <2> QED BY <1>1, <2>1, <2>2, SModExact
<1>13. CASE node.op = "BvShl"
  <2>1. r = shl(a, b)
    BY <1>13 DEF blast_bv, a, b
  <2>2. m = IF B >= n THEN 0 ELSE (A * TwoTo(B)) % TwoTo(n)
    BY <1>1, <1>13 DEF Meaning
  <2>3. r \in Bits(n) /\ Number(r) = IF B >= n THEN 0 ELSE (A * TwoTo(B)) % TwoTo(n)
    <3>1. shl(a, b) \in Bits(n) /\ Number(shl(a, b)) = IF B >= n THEN 0 ELSE (A * TwoTo(B)) % TwoTo(n)
      BY <1>1, ShiftsExact, Zenon
    <3> QED BY <2>1, <3>1, Zenon
  <2> QED BY <2>2, <2>3
<1>14. CASE node.op = "BvLShr"
  <2>1. r = lshr(a, b)
    BY <1>14 DEF blast_bv, a, b
  <2>2. m = IF B >= n THEN 0 ELSE A \div TwoTo(B)
    BY <1>1, <1>14 DEF Meaning
  <2>3. r \in Bits(n) /\ Number(r) = IF B >= n THEN 0 ELSE A \div TwoTo(B)
    <3>1. lshr(a, b) \in Bits(n) /\ Number(lshr(a, b)) = IF B >= n THEN 0 ELSE A \div TwoTo(B)
      BY <1>1, ShiftsExact, Zenon
    <3> QED BY <2>1, <3>1, Zenon
  <2> QED BY <2>2, <2>3
<1>15. CASE node.op = "BvAShr"
  <2>1. r = ashr(a, b)
    BY <1>15 DEF blast_bv, a, b
  <2>2. m = (Signed(A, n) \div TwoTo(Min({B, n}))) % TwoTo(n)
    BY <1>1, <1>15 DEF Meaning
  <2>3. Min({B, n}) = IF B < n THEN B ELSE n
    <3>1. B \in Nat
      BY <1>1, NumberRange
    <3> HIDE DEF B
    <3> DEFINE c == IF B < n THEN B ELSE n
    <3>2. c \in {B, n} /\ (\A y \in {B, n} : c <= y) /\ \A z \in {B, n} : (\A y \in {B, n} : z <= y) => z = c
      BY <3>1
    <3> HIDE DEF c
    <3>3. Min({B, n}) = c
      BY <3>2 DEF Min
    <3> QED BY <3>3 DEF c
  <2>4. r \in Bits(n) /\ Number(r) = (Signed(A, n) \div TwoTo(IF B < n THEN B ELSE n)) % TwoTo(n)
    BY <1>1, <2>1, ShiftsExact
  <2> QED BY <2>2, <2>3, <2>4
<1>16. node.op \in PairOps
  OBVIOUS
<1> HIDE DEF r, m
<1> QED BY <1>2, <1>3, <1>4, <1>5, <1>6, <1>7, <1>8, <1>9, <1>10, <1>11, <1>12, <1>13, <1>14, <1>15, <1>16
        DEF PairOps, r, m

\* The comparator yields a Boolean.
LEMMA UltBoolean ==
  ASSUME NEW n \in Nat \ {0}, NEW a \in Bits(n), NEW b \in Bits(n)
  PROVE  ult(a, b) \in BOOLEAN
<1> DEFINE scan == ult_scan(a, b, n)
<1>1. scan[n] = ult_down(scan[n - 1], a, b, n + 1 - n)
  <2> DEFINE start == [lt |-> FALSE, eq |-> TRUE]
  <2>1. scan = [k \in 0 .. n |-> IF k = 0 THEN start ELSE ult_down(scan[k - 1], a, b, n + 1 - k)]
    BY ScanIs, Zenon
  <2> HIDE DEF scan, start
  <2> QED BY <2>1
<1> DEFINE old == scan[n - 1]
           i == n + 1 - n
<1>2. scan[n] = ult_bit(old, a[i], b[i])
  BY <1>1, Zenon DEF ult_down
<1>3. ult(a, b) = scan[n].lt
  BY BitsLen, Zenon DEF ult
<1> HIDE DEF scan, old, i
<1> DEFINE lt == old.lt \/ (old.eq /\ ~ a[i] /\ b[i])
           eq == old.eq /\ (a[i] = b[i])
<1>4. scan[n] = [lt |-> lt, eq |-> eq]
  BY <1>2, Zenon DEF ult_bit
<1>5. lt \in BOOLEAN
  BY Zenon
<1> HIDE DEF lt, eq
<1>6. scan[n].lt = lt
  BY <1>4
<1> QED BY <1>3, <1>5, <1>6, Zenon

\* A predicate is a Boolean.
LEMMA PredicateBooleans ==
  ASSUME NEW n \in Nat \ {0}, NEW a \in Bits(n), NEW b \in Bits(n)
  PROVE  /\ eq_bits(a, b) \in BOOLEAN /\ ult(a, b) \in BOOLEAN /\ ule(a, b) \in BOOLEAN
         /\ slt(a, b) \in BOOLEAN /\ sle(a, b) \in BOOLEAN
         /\ uadd_overflow(a, b) \in BOOLEAN /\ usub_overflow(a, b) \in BOOLEAN
         /\ sadd_overflow(a, b) \in BOOLEAN /\ ssub_overflow(a, b) \in BOOLEAN
         /\ umul_overflow(a, b) \in BOOLEAN /\ smul_overflow(a, b) \in BOOLEAN
         /\ sdiv_overflow(a, b) \in BOOLEAN /\ neg_overflow(a) \in BOOLEAN
<1>1. ult(a, b) \in BOOLEAN
  BY UltBoolean
<1>2. Last(a) \in BOOLEAN
  BY SignBit
<1>3. uadd_overflow(a, b) \in BOOLEAN
  BY AdderUsed DEF uadd_overflow
<1>4. eq_bits(a, b) \in BOOLEAN /\ neg_overflow(a) \in BOOLEAN /\ sdiv_overflow(a, b) \in BOOLEAN
  BY Zenon DEF eq_bits, neg_overflow, sdiv_overflow
<1>5. ule(a, b) \in BOOLEAN /\ sle(a, b) \in BOOLEAN
  BY Zenon DEF ule, sle
<1>6. slt(a, b) \in BOOLEAN
  BY <1>1, <1>2, Zenon DEF slt, mux
<1>7. sadd_overflow(a, b) \in BOOLEAN /\ ssub_overflow(a, b) \in BOOLEAN
  BY Zenon DEF sadd_overflow, ssub_overflow
<1>8. umul_overflow(a, b) \in BOOLEAN /\ smul_overflow(a, b) \in BOOLEAN
  BY Zenon DEF umul_overflow, smul_overflow
<1> QED BY <1>1, <1>3, <1>4, <1>5, <1>6, <1>7, <1>8 DEF usub_overflow

\* The comparisons and the overflow predicates.
LEMMA PredicatesExact ==
  ASSUME NEW n \in Nat \ {0}, NEW v, v[1] \in Bits(n), v[2] \in Bits(n), NEW wh,
         NEW u, u[1] = Number(v[1]), u[2] = Number(v[2]), NEW node, node.op \in PredicateOps \ {"BvNe"}
  PROVE  /\ blast_bool(node, v) = Meaning(node.op, u, node.par, wh, n)
         /\ Meaning(node.op, u, node.par, wh, n) \in BOOLEAN
<1> DEFINE a == v[1]
           b == v[2]
           A == Number(a)
           B == Number(b)
           r == blast_bool(node, v)
           m == Meaning(node.op, u, node.par, wh, n)
<1>1. a \in Bits(n) /\ b \in Bits(n) /\ n \in Nat /\ u[1] = A /\ u[2] = B
  OBVIOUS
<1>2. A \in Nat /\ B \in Nat /\ Signed(A, n) \in Int /\ Signed(B, n) \in Int
  BY <1>1, NumberRange, SignedBits
<1> HIDE DEF a, b
<1>3. CASE node.op = "BvEq"
  <2>1. r = eq_bits(a, b)
    BY <1>3 DEF blast_bool, a, b
  <2>2. m = (A = B)
    BY <1>1, <1>3 DEF Meaning
  <2>3. eq_bits(a, b) <=> (A = B)
    BY <1>1, <1>2, EqExact
  <2>4. (A = B) \in BOOLEAN
    BY DEF OutOfRange
  <2>5. eq_bits(a, b) \in BOOLEAN
    BY <1>1, PredicateBooleans, Zenon
  <2> QED BY <2>1, <2>2, <2>3, <2>4, <2>5, Zenon
<1>4. CASE node.op = "BvUlt"
  <2>1. r = ult(a, b)
    BY <1>4 DEF blast_bool, a, b
  <2>2. m = (A < B)
    BY <1>1, <1>4 DEF Meaning
  <2>3. ult(a, b) <=> (A < B)
    BY <1>1, <1>2, UltExact
  <2>4. (A < B) \in BOOLEAN
    BY DEF OutOfRange
  <2>5. ult(a, b) \in BOOLEAN
    BY <1>1, PredicateBooleans, Zenon
  <2> QED BY <2>1, <2>2, <2>3, <2>4, <2>5, Zenon
<1>5. CASE node.op = "BvUle"
  <2>1. r = ule(a, b)
    BY <1>5 DEF blast_bool, a, b
  <2>2. m = (A <= B)
    BY <1>1, <1>5 DEF Meaning
  <2>3. ule(a, b) <=> (A <= B)
    BY <1>1, <1>2, UltExact DEF ule
  <2>4. (A <= B) \in BOOLEAN
    BY DEF OutOfRange
  <2>5. ule(a, b) \in BOOLEAN
    BY <1>1, PredicateBooleans, Zenon
  <2> QED BY <2>1, <2>2, <2>3, <2>4, <2>5, Zenon
<1>6. CASE node.op = "BvSlt"
  <2>1. r = slt(a, b)
    BY <1>6 DEF blast_bool, a, b
  <2>2. m = (Signed(A, n) < Signed(B, n))
    BY <1>1, <1>6 DEF Meaning
  <2>3. slt(a, b) <=> (Signed(A, n) < Signed(B, n))
    BY <1>1, <1>2, SltExact
  <2>4. (Signed(A, n) < Signed(B, n)) \in BOOLEAN
    BY DEF OutOfRange
  <2>5. slt(a, b) \in BOOLEAN
    BY <1>1, PredicateBooleans, Zenon
  <2> QED BY <2>1, <2>2, <2>3, <2>4, <2>5, Zenon
<1>7. CASE node.op = "BvSle"
  <2>1. r = sle(a, b)
    BY <1>7 DEF blast_bool, a, b
  <2>2. m = (Signed(A, n) <= Signed(B, n))
    BY <1>1, <1>7 DEF Meaning
  <2>3. sle(a, b) <=> (Signed(A, n) <= Signed(B, n))
    BY <1>1, <1>2, SltExact DEF sle
  <2>4. (Signed(A, n) <= Signed(B, n)) \in BOOLEAN
    BY DEF OutOfRange
  <2>5. sle(a, b) \in BOOLEAN
    BY <1>1, PredicateBooleans, Zenon
  <2> QED BY <2>1, <2>2, <2>3, <2>4, <2>5, Zenon
<1>8. CASE node.op = "UAddOverflow"
  <2>1. r = uadd_overflow(a, b)
    BY <1>8 DEF blast_bool, a, b
  <2>2. m = (A + B >= TwoTo(n))
    BY <1>1, <1>8 DEF Meaning
  <2>3. uadd_overflow(a, b) <=> (A + B >= TwoTo(n))
    BY <1>1, <1>2, SumsExact
  <2>4. (A + B >= TwoTo(n)) \in BOOLEAN
    BY DEF OutOfRange
  <2>5. uadd_overflow(a, b) \in BOOLEAN
    BY <1>1, PredicateBooleans, Zenon
  <2> QED BY <2>1, <2>2, <2>3, <2>4, <2>5, Zenon
<1>9. CASE node.op = "SAddOverflow"
  <2>1. r = sadd_overflow(a, b)
    BY <1>9 DEF blast_bool, a, b
  <2>2. m = OutOfRange(Signed(A, n) + Signed(B, n), n)
    BY <1>1, <1>9 DEF Meaning
  <2>3. sadd_overflow(a, b) <=> OutOfRange(Signed(A, n) + Signed(B, n), n)
    BY <1>1, <1>2, SignedOverflow
  <2>4. OutOfRange(Signed(A, n) + Signed(B, n), n) \in BOOLEAN
    BY DEF OutOfRange
  <2>5. sadd_overflow(a, b) \in BOOLEAN
    BY <1>1, PredicateBooleans, Zenon
  <2> QED BY <2>1, <2>2, <2>3, <2>4, <2>5, Zenon
<1>10. CASE node.op = "USubOverflow"
  <2>1. r = usub_overflow(a, b)
    BY <1>10 DEF blast_bool, a, b
  <2>2. m = (A < B)
    BY <1>1, <1>10 DEF Meaning
  <2>3. usub_overflow(a, b) <=> (A < B)
    BY <1>1, <1>2, UltExact DEF usub_overflow
  <2>4. (A < B) \in BOOLEAN
    BY DEF OutOfRange
  <2>5. usub_overflow(a, b) \in BOOLEAN
    BY <1>1, PredicateBooleans, Zenon
  <2> QED BY <2>1, <2>2, <2>3, <2>4, <2>5, Zenon
<1>11. CASE node.op = "SSubOverflow"
  <2>1. r = ssub_overflow(a, b)
    BY <1>11 DEF blast_bool, a, b
  <2>2. m = OutOfRange(Signed(A, n) - Signed(B, n), n)
    BY <1>1, <1>11 DEF Meaning
  <2>3. ssub_overflow(a, b) <=> OutOfRange(Signed(A, n) - Signed(B, n), n)
    BY <1>1, <1>2, SignedOverflow
  <2>4. OutOfRange(Signed(A, n) - Signed(B, n), n) \in BOOLEAN
    BY DEF OutOfRange
  <2>5. ssub_overflow(a, b) \in BOOLEAN
    BY <1>1, PredicateBooleans, Zenon
  <2> QED BY <2>1, <2>2, <2>3, <2>4, <2>5, Zenon
<1>12. CASE node.op = "UMulOverflow"
  <2>1. r = umul_overflow(a, b)
    BY <1>12 DEF blast_bool, a, b
  <2>2. m = (A * B >= TwoTo(n))
    BY <1>1, <1>12 DEF Meaning
  <2>3. umul_overflow(a, b) <=> (A * B >= TwoTo(n))
    BY <1>1, <1>2, UMulOverflowExact
  <2>4. (A * B >= TwoTo(n)) \in BOOLEAN
    BY DEF OutOfRange
  <2>5. umul_overflow(a, b) \in BOOLEAN
    BY <1>1, PredicateBooleans, Zenon
  <2> QED BY <2>1, <2>2, <2>3, <2>4, <2>5, Zenon
<1>13. CASE node.op = "SMulOverflow"
  <2>1. r = smul_overflow(a, b)
    BY <1>13 DEF blast_bool, a, b
  <2>2. m = OutOfRange(Signed(A, n) * Signed(B, n), n)
    BY <1>1, <1>13 DEF Meaning
  <2>3. smul_overflow(a, b) <=> OutOfRange(Signed(A, n) * Signed(B, n), n)
    BY <1>1, <1>2, SMulOverflowExact
  <2>4. OutOfRange(Signed(A, n) * Signed(B, n), n) \in BOOLEAN
    BY DEF OutOfRange
  <2>5. smul_overflow(a, b) \in BOOLEAN
    BY <1>1, PredicateBooleans, Zenon
  <2> QED BY <2>1, <2>2, <2>3, <2>4, <2>5, Zenon
<1>14. CASE node.op = "SDivOverflow"
  <2>1. r = sdiv_overflow(a, b)
    BY <1>14 DEF blast_bool, a, b
  <2>2. m = (B # 0 /\ OutOfRange(Quot(Signed(A, n), Signed(B, n)), n))
    BY <1>1, <1>14 DEF Meaning
  <2>3. sdiv_overflow(a, b) <=> (B # 0 /\ OutOfRange(Quot(Signed(A, n), Signed(B, n)), n))
    BY <1>1, <1>2, DivisionOverflow
  <2>4. (B # 0 /\ OutOfRange(Quot(Signed(A, n), Signed(B, n)), n)) \in BOOLEAN
    BY DEF OutOfRange
  <2>5. sdiv_overflow(a, b) \in BOOLEAN
    BY <1>1, PredicateBooleans, Zenon
  <2> QED BY <2>1, <2>2, <2>3, <2>4, <2>5, Zenon
<1>15. node.op \in PredicateOps \ {"BvNe"}
  OBVIOUS
<1> HIDE DEF r, m
<1> QED BY <1>3, <1>4, <1>5, <1>6, <1>7, <1>8, <1>9, <1>10, <1>11, <1>12, <1>13, <1>14,
           <1>15
        DEF PredicateOps, r, m

\* What an operand or a result of width w is: as bits and as a number (or a Boolean).
Agree(w, d, b) == IF w = 0 THEN d \in BOOLEAN /\ b = d ELSE b \in Bits(w) /\ d = Number(b)

\* The operators on one bit-vector that keep its width.
LEMMA UnaryExact ==
  ASSUME NEW n \in Nat \ {0}, NEW v, v[1] \in Bits(n), NEW known, NEW wh, NEW u, u[1] = Number(v[1]), NEW node,
         node.op \in {"BvNot", "BvNeg", "BvRotateLeft", "BvRotateRight"},
         node.op \in {"BvRotateLeft", "BvRotateRight"} => node.par[1] \in Nat
  PROVE  blast_bv(node, known, v) \in Bits(n)
         /\ Number(blast_bv(node, known, v)) = Meaning(node.op, u, node.par, wh, n)
<1> DEFINE a == v[1]
           A == Number(a)
           by == node.par[1]
           low == node.par[2]
           r == blast_bv(node, known, v)
           m == Meaning(node.op, u, node.par, wh, n)
<1>1. a \in Bits(n) /\ n \in Nat /\ u[1] = A
  OBVIOUS
<1> HIDE DEF a, by, low
<1>2. ASSUME node.op = "BvNot" PROVE r \in Bits(n) /\ Number(r) = m
  <2>1. r = bitwise_not(a)
    BY <1>2 DEF blast_bv, a
  <2>2. m = TwoTo(n) - 1 - A
    BY <1>1, <1>2 DEF Meaning
  <2> QED BY <1>1, <2>1, <2>2, NotNumber
<1>3. ASSUME node.op = "BvNeg" PROVE r \in Bits(n) /\ Number(r) = m
  <2>1. r = neg_bits(a)
    BY <1>3 DEF blast_bv, a
  <2>2. m = (- A) % TwoTo(n)
    BY <1>1, <1>3 DEF Meaning
  <2> QED BY <1>1, <2>1, <2>2, SumsExact
<1>4. ASSUME node.op = "BvRotateLeft", by \in Nat PROVE r \in Bits(n) /\ Number(r) = m
  <2>1. r = rotate_left(a, by)
    BY <1>4 DEF blast_bv, a, by
  <2>2. m = ((A * TwoTo(by % n)) % TwoTo(n)) + (A \div TwoTo(n - (by % n)))
    BY <1>1, <1>4 DEF Meaning, by
  <2> QED BY <1>1, <1>4, <2>1, <2>2, RotationsExact
<1>5. ASSUME node.op = "BvRotateRight", by \in Nat PROVE r \in Bits(n) /\ Number(r) = m
  <2>1. r = rotate_right(a, by)
    BY <1>5 DEF blast_bv, a, by
  <2>2. m = (A \div TwoTo(by % n)) + ((A * TwoTo(n - (by % n))) % TwoTo(n))
    BY <1>1, <1>5 DEF Meaning, by
  <2> QED BY <1>1, <1>5, <2>1, <2>2, RotationsExact
<1> HIDE DEF r, m
<1> QED BY <1>2, <1>3, <1>4, <1>5 DEF r, m, by, low

\* The width and the parameters of an extension and of an extraction.
Extension(n, size, node) ==
  node.op \in {"BvZeroExtend", "BvSignExtend"} /\ node.par[1] \in Nat /\ size = n + node.par[1]
Extraction(n, by, low, size, node) ==
  /\ node.op = "BvExtract" /\ by \in Nat /\ low \in Nat /\ node.par[1] = by /\ node.par[2] = low
  /\ by < n /\ low <= by /\ size = by - low + 1

\* The extensions.
LEMMA ExtendsExact ==
  ASSUME NEW n \in Nat \ {0}, NEW v, v[1] \in Bits(n), NEW known, NEW wh, NEW u, u[1] = Number(v[1]), NEW node,
         NEW size, Extension(n, size, node)
  PROVE  blast_bv(node, known, v) \in Bits(size)
         /\ Number(blast_bv(node, known, v)) = Meaning(node.op, u, node.par, wh, n)
<1>0. PICK by \in Nat : node.par[1] = by
  BY DEF Extension
<1> USE <1>0 DEF Extension
<1> DEFINE a == v[1]
           A == Number(a)
           r == blast_bv(node, known, v)
           m == Meaning(node.op, u, node.par, wh, n)
<1>1. a \in Bits(n) /\ n \in Nat /\ u[1] = A
  OBVIOUS
<1> HIDE DEF a
<1>6. ASSUME node.op = "BvZeroExtend" PROVE r \in Bits(n + by) /\ Number(r) = m
  <2>1. r = zext(a, by)
    BY <1>6 DEF blast_bv, a
  <2>2. m = A
    BY <1>1, <1>6 DEF Meaning
  <2> QED BY <1>1, <1>6, <2>1, <2>2, SlicesExact
<1>7. ASSUME node.op = "BvSignExtend" PROVE r \in Bits(n + by) /\ Number(r) = m
  <2>1. r = sext(a, by)
    BY <1>7 DEF blast_bv, a
  <2>2. m = Signed(A, n) % TwoTo(n + by)
    BY <1>1, <1>7 DEF Meaning
  <2> QED BY <1>1, <1>7, <2>1, <2>2, SlicesExact
<1> HIDE DEF r, m
<1> QED BY <1>6, <1>7 DEF r, m

\* An extraction.
LEMMA ExtractExact ==
  ASSUME NEW n \in Nat \ {0}, NEW v, v[1] \in Bits(n), NEW known, NEW wh, NEW u, u[1] = Number(v[1]), NEW node,
         NEW by, NEW low, NEW size, Extraction(n, by, low, size, node)
  PROVE  blast_bv(node, known, v) \in Bits(size)
         /\ Number(blast_bv(node, known, v)) = Meaning(node.op, u, node.par, wh, n)
<1> USE DEF Extraction
<1> DEFINE a == v[1]
           A == Number(a)
           r == blast_bv(node, known, v)
           m == Meaning(node.op, u, node.par, wh, n)
<1>1. a \in Bits(n) /\ n \in Nat /\ u[1] = A
  OBVIOUS
<1> HIDE DEF a
<1>8. ASSUME node.op = "BvExtract"
      PROVE  r \in Bits(by - low + 1) /\ Number(r) = m
  <2>1. r = extract(a, by, low)
    BY <1>8 DEF blast_bv, a
  <2>2. m = (A \div TwoTo(low)) % TwoTo(by - low + 1)
    BY <1>1, <1>8 DEF Meaning
  <2>3. by \in 0 .. n - 1 /\ low \in 0 .. n - 1
    BY <1>8
  <2> QED BY <1>1, <1>8, <2>1, <2>2, <2>3, SlicesExact
<1> HIDE DEF r, m
<1> QED BY <1>8 DEF r, m

\* A repetition.
LEMMA RepeatsExact ==
  ASSUME NEW n \in Nat \ {0}, NEW v, v[1] \in Bits(n), NEW known, NEW wh, NEW u, u[1] = Number(v[1]), NEW node,
         node.op = "BvRepeat", NEW by \in Nat, node.par[1] = by
  PROVE  blast_bv(node, known, v) \in Bits(n * by)
         /\ Number(blast_bv(node, known, v)) = Meaning(node.op, u, node.par, wh, n)
<1> DEFINE a == v[1]
           A == Number(a)
           r == blast_bv(node, known, v)
           m == Meaning(node.op, u, node.par, wh, n)
<1>1. a \in Bits(n) /\ n \in Nat /\ u[1] = A
  OBVIOUS
<1> HIDE DEF a
<1>9. ASSUME node.op = "BvRepeat" PROVE r \in Bits(n * by) /\ Number(r) = m
  <2>1. r = repeat(a, by)
    BY <1>9 DEF blast_bv, a
  <2>2. m = Repeated(A, n, by)
    BY <1>1, <1>9 DEF Meaning
  <2> QED BY <1>1, <1>9, <2>1, <2>2, RepeatExact
<1> HIDE DEF r, m
<1> QED BY <1>9 DEF r, m

\* The negation that does not fit.
LEMMA NegOverflowExact ==
  ASSUME NEW n \in Nat \ {0}, NEW v, v[1] \in Bits(n), NEW known, NEW wh, NEW u, u[1] = Number(v[1]), NEW node,
         node.op = "NegOverflow"
  PROVE  blast_bool(node, v) = Meaning(node.op, u, node.par, wh, n)
         /\ Meaning(node.op, u, node.par, wh, n) \in BOOLEAN
<1> DEFINE a == v[1]
           A == Number(a)
           by == node.par[1]
           low == node.par[2]
           r == blast_bv(node, known, v)
           m == Meaning(node.op, u, node.par, wh, n)
<1>1. a \in Bits(n) /\ n \in Nat /\ u[1] = A
  OBVIOUS
<1> HIDE DEF a, by, low
<1>10. ASSUME node.op = "NegOverflow" PROVE blast_bool(node, v) = m /\ m \in BOOLEAN
  <2>1. blast_bool(node, v) = neg_overflow(a)
    BY <1>10 DEF blast_bool, a
  <2>2. m = OutOfRange(- Signed(A, n), n)
    BY <1>1, <1>10 DEF Meaning
  <2>3. neg_overflow(a) <=> OutOfRange(- Signed(A, n), n)
    BY <1>1, DivisionOverflow
  <2>4. OutOfRange(- Signed(A, n), n) \in BOOLEAN
    BY DEF OutOfRange
  <2>5. neg_overflow(a) \in BOOLEAN
    BY <1>1, PredicateBooleans, Zenon
  <2> QED BY <2>1, <2>2, <2>3, <2>4, <2>5, Zenon
<1> HIDE DEF r, m
<1> QED BY <1>10 DEF r, m, by, low

\* MuxBits as one equation.
LEMMA MuxChooses ==
  ASSUME NEW n \in Nat, NEW t \in Bits(n), NEW f \in Bits(n), NEW p \in BOOLEAN
  PROVE  mux_bits(p, t, f) = IF p THEN t ELSE f
<1>1. mux_bits(p, t, f) = [i \in 1 .. n |-> IF p THEN t[i] ELSE f[i]]
  BY BitsLen DEF mux_bits, mux
<1>2. t = [i \in 1 .. n |-> t[i]] /\ f = [i \in 1 .. n |-> f[i]]
  BY DEF Bits
<1> QED BY <1>1, <1>2, Zenon

\* BvConcat puts its first operand above its second.
LEMMA JoinsExact ==
  ASSUME NEW n \in Nat \ {0}, NEW m \in Nat, NEW v, v[1] \in Bits(m), v[2] \in Bits(n), NEW known,
         NEW u, u[1] = Number(v[1]), u[2] = Number(v[2]), NEW node, node.op = "BvConcat"
  PROVE  /\ blast_bv(node, known, v) \in Bits(m + n)
         /\ Number(blast_bv(node, known, v)) = Meaning(node.op, u, node.par, m, n)
<1> DEFINE a == v[1]
           b == v[2]
<1>1. a \in Bits(m) /\ b \in Bits(n) /\ u[1] = Number(a) /\ u[2] = Number(b)
  OBVIOUS
<1>2. blast_bv(node, known, v) = concat(a, b)
  BY DEF blast_bv
<1>3. Meaning(node.op, u, node.par, m, n) = Number(a) * TwoTo(n) + Number(b)
  BY DEF Meaning
<1> HIDE DEF a, b
<1> QED BY <1>1, <1>2, <1>3, SlicesExact

\* BvIte chooses between its operands.
LEMMA IteExact ==
  ASSUME NEW n \in Nat \ {0}, NEW v, v[1] \in BOOLEAN, v[2] \in Bits(n), v[3] \in Bits(n), NEW known, NEW wh,
         NEW u, u[1] = v[1], u[2] = Number(v[2]), u[3] = Number(v[3]), NEW node, node.op = "BvIte"
  PROVE  /\ blast_bv(node, known, v) \in Bits(n)
         /\ Number(blast_bv(node, known, v)) = Meaning(node.op, u, node.par, wh, n)
<1> DEFINE p == v[1]
           t == v[2]
           f == v[3]
<1>1. p \in BOOLEAN /\ t \in Bits(n) /\ f \in Bits(n) /\ u[1] = p /\ u[2] = Number(t) /\ u[3] = Number(f)
      /\ n \in Nat
  OBVIOUS
<1>2. blast_bv(node, known, v) = mux_bits(p, t, f)
  BY DEF blast_bv
<1>3. Meaning(node.op, u, node.par, wh, n) = IF u[1] THEN u[2] ELSE u[3]
  BY DEF Meaning
<1> HIDE DEF p, t, f
<1>4. mux_bits(p, t, f) = IF p THEN t ELSE f
  BY <1>1, MuxChooses
<1>5. CASE p
  BY <1>1, <1>2, <1>3, <1>4, <1>5
<1>6. CASE ~ p
  BY <1>1, <1>2, <1>3, <1>4, <1>6
<1> QED BY <1>5, <1>6

\* The operands of a selection of m cases: a condition and a value for each, and
\* the value when none holds.
SelectOperands(n, m, u, v) ==
  /\ Len(v) = 2 * m + 1 /\ Len(u) = Len(v)
  /\ v[Len(v)] \in Bits(n) /\ u[Len(v)] = Number(v[Len(v)])
  /\ \A k \in 1 .. m : /\ v[2 * k - 1] \in BOOLEAN /\ v[2 * k] \in Bits(n)
                       /\ u[2 * k - 1] = v[2 * k - 1] /\ u[2 * k] = Number(v[2 * k])

\* BvSelect takes the first case that holds, and the default when none does.
LEMMA SelectsExact ==
  ASSUME NEW n \in Nat \ {0}, NEW m \in Nat, NEW u, NEW v, SelectOperands(n, m, u, v), NEW known, NEW wh,
         NEW node, node.op = "BvSelect"
  PROVE  /\ blast_bv(node, known, v) \in Bits(n)
         /\ Number(blast_bv(node, known, v)) = Meaning(node.op, u, node.par, wh, n)
<1> USE DEF SelectOperands
<1> DEFINE cases == {k \in 1 .. m : v[2 * k - 1]}
           l == Len(v)
<1>1. blast_bv(node, known, v) = blast_select(v)
  BY DEF blast_bv
<1>2. /\ blast_select(v) \in Bits(n)
      /\ blast_select(v) = IF cases = {} THEN v[l] ELSE v[2 * Min(cases)]
  BY SelectExact
<1>3. (Len(u) - 1) \div 2 = m
  OBVIOUS
<1>4. Meaning(node.op, u, node.par, wh, n) =
        LET hits == {k \in 1 .. m : u[2 * k - 1]} IN IF hits = {} THEN u[l] ELSE u[2 * Min(hits)]
  <2>1. Meaning(node.op, u, node.par, wh, n) =
          LET hits == {k \in 1 .. (Len(u) - 1) \div 2 : u[2 * k - 1]} IN IF hits = {} THEN u[Len(u)]
                                                                         ELSE u[2 * Min(hits)]
    BY DEF Meaning
  <2>2. Len(u) = l
    OBVIOUS
  <2> QED BY <1>3, <2>1, <2>2, Zenon
<1>5. {k \in 1 .. m : u[2 * k - 1]} = cases
  OBVIOUS
<1>6. Meaning(node.op, u, node.par, wh, n) = IF cases = {} THEN u[l] ELSE u[2 * Min(cases)]
  BY <1>4, <1>5, Zenon
<1>7. CASE cases = {}
  BY <1>1, <1>2, <1>6, <1>7
<1>8. CASE cases # {}
  <2>1. Min(cases) \in 1 .. m
    <3>1. cases \subseteq Nat /\ cases \subseteq 1 .. m
      OBVIOUS
    <3>2. PICK j \in cases : TRUE
      BY <1>8
    <3> HIDE DEF cases
    <3>3. \E j0 \in cases : \A k \in cases : j0 <= k
      BY <3>1, <3>2, LeastNumber
    <3>4. Min(cases) \in cases
      BY <3>3, Zenon DEF Min
    <3> QED BY <3>1, <3>4
  <2> DEFINE c == Min(cases)
  <2> HIDE DEF c
  <2>2. u[2 * c] = Number(v[2 * c])
    BY <2>1 DEF c
  <2>3. blast_select(v) = v[2 * c] /\ Meaning(node.op, u, node.par, wh, n) = u[2 * c]
    BY <1>2, <1>6, <1>8, Zenon DEF c
  <2> QED BY <1>1, <1>2, <2>2, <2>3
<1> QED BY <1>7, <1>8

\* The connectives.
BoolPairs == {"BoolAnd", "BoolOr", "BoolImplies", "BoolEq"}
\* The Boolean connectives are the propositional ones.
LEMMA ConnectivesExact ==
  ASSUME NEW v, NEW u, v[1] \in BOOLEAN, u[1] = v[1], NEW node, NEW wh, NEW n
  PROVE  /\ node.op = "BoolNot" =>
              /\ blast_bool(node, v) = Meaning(node.op, u, node.par, wh, n)
              /\ Meaning(node.op, u, node.par, wh, n) \in BOOLEAN
         /\ node.op \in BoolPairs /\ v[2] \in BOOLEAN /\ u[2] = v[2] =>
              /\ blast_bool(node, v) = Meaning(node.op, u, node.par, wh, n)
              /\ Meaning(node.op, u, node.par, wh, n) \in BOOLEAN
         /\ node.op = "BoolIte" /\ v[2] \in BOOLEAN /\ u[2] = v[2] /\ v[3] \in BOOLEAN /\ u[3] = v[3] =>
              /\ blast_bool(node, v) = Meaning(node.op, u, node.par, wh, n)
              /\ Meaning(node.op, u, node.par, wh, n) \in BOOLEAN
<1> DEFINE r == blast_bool(node, v)
           m == Meaning(node.op, u, node.par, wh, n)
<1>1. ASSUME node.op = "BoolNot" PROVE r = m /\ m \in BOOLEAN
  <2>1. r = ~ v[1] /\ m = ~ u[1]
    BY <1>1 DEF blast_bool, Meaning
  <2> QED BY <2>1
<1>2. ASSUME node.op = "BoolAnd", v[2] \in BOOLEAN, u[2] = v[2] PROVE r = m /\ m \in BOOLEAN
  <2>1. r = (v[1] /\ v[2]) /\ m = (u[1] /\ u[2])
    BY <1>2 DEF blast_bool, Meaning
  <2> QED BY <1>2, <2>1
<1>3. ASSUME node.op = "BoolOr", v[2] \in BOOLEAN, u[2] = v[2] PROVE r = m /\ m \in BOOLEAN
  <2>1. r = (v[1] \/ v[2]) /\ m = (u[1] \/ u[2])
    BY <1>3 DEF blast_bool, Meaning
  <2> QED BY <1>3, <2>1
<1>4. ASSUME node.op = "BoolImplies", v[2] \in BOOLEAN, u[2] = v[2] PROVE r = m /\ m \in BOOLEAN
  <2>1. r = (v[1] => v[2]) /\ m = (u[1] => u[2])
    BY <1>4 DEF blast_bool, Meaning
  <2> QED BY <1>4, <2>1
<1>5. ASSUME node.op = "BoolEq", v[2] \in BOOLEAN, u[2] = v[2] PROVE r = m /\ m \in BOOLEAN
  <2>1. r = (v[1] = v[2]) /\ m = (u[1] = u[2])
    BY <1>5 DEF blast_bool, Meaning
  <2> QED BY <1>5, <2>1
<1>6. ASSUME node.op = "BoolIte", v[2] \in BOOLEAN, u[2] = v[2], v[3] \in BOOLEAN, u[3] = v[3]
      PROVE  r = m /\ m \in BOOLEAN
  <2>1. r = (IF v[1] THEN v[2] ELSE v[3]) /\ m = (IF u[1] THEN u[2] ELSE u[3])
    BY <1>6 DEF blast_bool, Meaning, mux
  <2> QED BY <1>6, <2>1
<1> HIDE DEF r, m
<1> QED BY <1>1, <1>2, <1>3, <1>4, <1>5, <1>6, Zenon DEF r, m, BoolPairs

\* The operand widths each group of operators asks for, and the width of its
\* result (term_builder's sort checks).
LEMMA PairSorts ==
  ASSUME NEW op, NEW w \in Seq(Nat), NEW par, WellSorted(op, w, par), op \in PairOps
  PROVE  Len(w) = 2 /\ w[2] \in Nat \ {0} /\ w[1] = w[2] /\ Width(op, w, par) = w[2]
<1>0. \A k \in 1 .. Len(w) : w[k] \in Nat
  OBVIOUS
<1>1. Len(w) = 2 /\ w[2] \in Nat \ {0} /\ w[1] = w[2]
  BY <1>0 DEF WellSorted, PairOps, PredicateOps
<1>2. Width(op, w, par) = w[2]
  BY <1>1 DEF Width, PairOps, PredicateOps
<1> QED BY <1>1, <1>2

\* The sorts WellSorted gives a predicate on two vectors,
LEMMA PredicateSorts ==
  ASSUME NEW op, NEW w \in Seq(Nat), NEW par, WellSorted(op, w, par), op \in PredicateOps
  PROVE  Len(w) = 2 /\ w[2] \in Nat \ {0} /\ w[1] = w[2] /\ Width(op, w, par) = 0
<1>0. \A k \in 1 .. Len(w) : w[k] \in Nat
  OBVIOUS
<1>1. Len(w) = 2 /\ w[2] \in Nat \ {0} /\ w[1] = w[2]
  BY <1>0 DEF WellSorted, PairOps, PredicateOps
<1>2. Width(op, w, par) = 0
  BY <1>1 DEF Width, PairOps, PredicateOps
<1> QED BY <1>1, <1>2

\* an operation that keeps its width,
LEMMA SameSorts ==
  ASSUME NEW op, NEW w \in Seq(Nat), NEW par, WellSorted(op, w, par),
         op \in {"BvNot", "BvNeg", "BvRotateLeft", "BvRotateRight"}
  PROVE  Len(w) = 1 /\ w[1] \in Nat \ {0} /\ Width(op, w, par) = w[1]
<1>0. \A k \in 1 .. Len(w) : w[k] \in Nat
  OBVIOUS
<1>1. Len(w) = 1 /\ w[1] \in Nat \ {0}
  BY <1>0 DEF WellSorted, PairOps, PredicateOps
<1>2. Width(op, w, par) = w[1]
  BY <1>1 DEF Width, PairOps, PredicateOps
<1> QED BY <1>1, <1>2

\* an extension,
LEMMA ExtendSorts ==
  ASSUME NEW op, NEW w \in Seq(Nat), NEW par, WellSorted(op, w, par), op \in {"BvZeroExtend", "BvSignExtend"}
  PROVE  Len(w) = 1 /\ w[1] \in Nat \ {0} /\ Width(op, w, par) = w[1] + par[1]
<1>0. \A k \in 1 .. Len(w) : w[k] \in Nat
  OBVIOUS
<1>1. Len(w) = 1 /\ w[1] \in Nat \ {0}
  BY <1>0 DEF WellSorted, PairOps, PredicateOps
<1>2. Width(op, w, par) = w[1] + par[1]
  BY <1>1 DEF Width, PairOps, PredicateOps
<1> QED BY <1>1, <1>2

\* an extraction,
LEMMA ExtractSorts ==
  ASSUME NEW op, NEW w \in Seq(Nat), NEW par, WellSorted(op, w, par), op = "BvExtract"
  PROVE  Len(w) = 1 /\ w[1] \in Nat /\ par[1] < w[1] /\ par[2] <= par[1] /\ Width(op, w, par) = par[1] - par[2] + 1
<1>0. \A k \in 1 .. Len(w) : w[k] \in Nat
  OBVIOUS
<1>1. Len(w) = 1 /\ w[1] \in Nat /\ par[1] < w[1] /\ par[2] <= par[1]
  BY <1>0 DEF WellSorted, PairOps, PredicateOps
<1>2. Width(op, w, par) = par[1] - par[2] + 1
  BY <1>1 DEF Width, PairOps, PredicateOps
<1> QED BY <1>1, <1>2

\* a repetition,
LEMMA RepeatSorts ==
  ASSUME NEW op, NEW w \in Seq(Nat), NEW par, WellSorted(op, w, par), op = "BvRepeat"
  PROVE  Len(w) = 1 /\ w[1] \in Nat \ {0} /\ par[1] > 0 /\ Width(op, w, par) = w[1] * par[1]
<1>0. \A k \in 1 .. Len(w) : w[k] \in Nat
  OBVIOUS
<1>1. Len(w) = 1 /\ w[1] \in Nat \ {0} /\ par[1] > 0
  <2>1. Len(w) = 1 /\ w[1] > 0 /\ par[1] > 0
    BY DEF WellSorted, PairOps, PredicateOps
  <2> QED BY <1>0, <2>1
<1>2. Width(op, w, par) = w[1] * par[1]
  BY <1>1 DEF Width, PairOps, PredicateOps
<1> QED BY <1>1, <1>2

\* the overflow of a negation,
LEMMA NegOverflowSorts ==
  ASSUME NEW op, NEW w \in Seq(Nat), NEW par, WellSorted(op, w, par), op = "NegOverflow"
  PROVE  Len(w) = 1 /\ w[1] \in Nat \ {0} /\ Width(op, w, par) = 0
<1>0. \A k \in 1 .. Len(w) : w[k] \in Nat
  OBVIOUS
<1>1. Len(w) = 1 /\ w[1] \in Nat \ {0}
  BY <1>0 DEF WellSorted, PairOps, PredicateOps
<1>2. Width(op, w, par) = 0
  BY <1>1 DEF Width, PairOps, PredicateOps
<1> QED BY <1>1, <1>2

\* a concatenation,
LEMMA ConcatSorts ==
  ASSUME NEW op, NEW w \in Seq(Nat), NEW par, WellSorted(op, w, par), op = "BvConcat"
  PROVE  Len(w) = 2 /\ w[1] \in Nat \ {0} /\ w[2] \in Nat \ {0} /\ Width(op, w, par) = w[1] + w[2]
<1>0. \A k \in 1 .. Len(w) : w[k] \in Nat
  OBVIOUS
<1>1. Len(w) = 2 /\ w[1] \in Nat \ {0} /\ w[2] \in Nat \ {0}
  <2>1. Len(w) = 2 /\ w[1] > 0 /\ w[2] > 0
    BY DEF WellSorted, PairOps, PredicateOps
  <2> QED BY <1>0, <2>1
<1>2. Width(op, w, par) = w[1] + w[2]
  BY <1>1 DEF Width, PairOps, PredicateOps
<1> QED BY <1>1, <1>2

\* a choice between vectors,
LEMMA IteSorts ==
  ASSUME NEW op, NEW w \in Seq(Nat), NEW par, WellSorted(op, w, par), op = "BvIte"
  PROVE  Len(w) = 3 /\ w[3] \in Nat \ {0} /\ w[1] = 0 /\ w[2] = w[3] /\ Width(op, w, par) = w[3]
<1>0. \A k \in 1 .. Len(w) : w[k] \in Nat
  OBVIOUS
<1>1. Len(w) = 3 /\ w[3] \in Nat \ {0} /\ w[1] = 0 /\ w[2] = w[3]
  <2>1. Len(w) = 3 /\ w[2] > 0 /\ w[1] = 0 /\ w[3] = w[2]
    BY DEF WellSorted, PairOps, PredicateOps
  <2> QED BY <1>0, <2>1
<1>2. Width(op, w, par) = w[3]
  BY <1>1 DEF Width, PairOps, PredicateOps
<1> QED BY <1>1, <1>2

\* a choice between several,
LEMMA SelectSorts ==
  ASSUME NEW op, NEW w \in Seq(Nat), NEW par, WellSorted(op, w, par), op = "BvSelect"
  PROVE  /\ Len(w) % 2 = 1 /\ w[Len(w)] \in Nat \ {0} /\ Width(op, w, par) = w[Len(w)]
         /\ \A k \in 1 .. (Len(w) - 1) \div 2 : w[2 * k - 1] = 0 /\ w[2 * k] = w[Len(w)]
<1>0. \A k \in 1 .. Len(w) : w[k] \in Nat
  OBVIOUS
<1>1. /\ Len(w) % 2 = 1 /\ w[Len(w)] \in Nat \ {0}
      /\ \A k \in 1 .. (Len(w) - 1) \div 2 : w[2 * k - 1] = 0 /\ w[2 * k] = w[Len(w)]
  BY <1>0 DEF WellSorted, PairOps, PredicateOps
<1>2. Width(op, w, par) = w[Len(w)]
  BY <1>1 DEF Width, PairOps, PredicateOps
<1> QED BY <1>1, <1>2

\* a negation,
LEMMA NotSorts ==
  ASSUME NEW op, NEW w \in Seq(Nat), NEW par, WellSorted(op, w, par), op = "BoolNot"
  PROVE  Len(w) = 1 /\ w[1] = 0 /\ Width(op, w, par) = 0
<1>0. \A k \in 1 .. Len(w) : w[k] \in Nat
  OBVIOUS
<1>1. Len(w) = 1 /\ w[1] = 0
  BY <1>0 DEF WellSorted, PairOps, PredicateOps
<1>2. Width(op, w, par) = 0
  BY <1>1 DEF Width, PairOps, PredicateOps
<1> QED BY <1>1, <1>2

\* a connective,
LEMMA ConnectiveSorts ==
  ASSUME NEW op, NEW w \in Seq(Nat), NEW par, WellSorted(op, w, par), op \in BoolPairs
  PROVE  Len(w) = 2 /\ w[1] = 0 /\ w[2] = 0 /\ Width(op, w, par) = 0
<1>0. \A k \in 1 .. Len(w) : w[k] \in Nat
  OBVIOUS
<1>1. Len(w) = 2 /\ w[1] = 0 /\ w[2] = 0
  BY <1>0 DEF WellSorted, PairOps, PredicateOps, BoolPairs
<1>2. Width(op, w, par) = 0
  BY <1>1 DEF Width, PairOps, PredicateOps, BoolPairs
<1> QED BY <1>1, <1>2

\* and a choice between propositions.
LEMMA BoolIteSorts ==
  ASSUME NEW op, NEW w \in Seq(Nat), NEW par, WellSorted(op, w, par), op = "BoolIte"
  PROVE  Len(w) = 3 /\ w[1] = 0 /\ w[2] = 0 /\ w[3] = 0 /\ Width(op, w, par) = 0
<1>0. \A k \in 1 .. Len(w) : w[k] \in Nat
  OBVIOUS
<1>1. Len(w) = 3 /\ w[1] = 0 /\ w[2] = 0 /\ w[3] = 0
  BY <1>0 DEF WellSorted, PairOps, PredicateOps
<1>2. Width(op, w, par) = 0
  BY <1>1 DEF Width, PairOps, PredicateOps
<1> QED BY <1>1, <1>2

\* The circuit of a node stands for what its operator means (blast.rs
\* blast_query_with_limits, the case of every NodeKind with operands): operands
\* of any widths, given bits v that stand for u.
NodeFits(node, w) ==
  /\ node.op \notin {"BoolXor", "BvNe"}
  /\ node.op \in ParamOps => node.par[1] \in Nat
  /\ node.op = "BvExtract" => node.par[2] \in Nat
  /\ WellSorted(node.op, w, node.par)
Stands(w, u, v) == w \in Seq(Nat) /\ Len(u) = Len(w) /\ Len(v) = Len(w)
                     /\ \A k \in 1 .. Len(w) : Agree(w[k], u[k], v[k])

\* The operators that have a case, and what a wide or a Boolean result is.
LEMMA OperandsStand ==
  ASSUME NEW w, NEW u, NEW v, Stands(w, u, v)
  PROVE  /\ \A k \in 1 .. Len(w) : w[k] # 0 => v[k] \in Bits(w[k]) /\ u[k] = Number(v[k])
         /\ \A k \in 1 .. Len(w) : w[k] = 0 => v[k] \in BOOLEAN /\ u[k] = v[k]
<1> QED BY DEF Agree, Stands

NodeGood(node, w, u, v, known) ==
  LET width == Width(node.op, w, node.par)
  IN  width \in Nat /\ Agree(width, Meaning(node.op, u, node.par, w[1], w[Len(w)]),
                             IF width = 0 THEN blast_bool(node, v) ELSE blast_bv(node, known, v))
\* A bit-vector node is exact when its bits stand for the meaning,
LEMMA WideGood ==
  ASSUME NEW node, NEW w, NEW u, NEW v, NEW known, NEW r \in Nat \ {0}, Width(node.op, w, node.par) = r,
         blast_bv(node, known, v) \in Bits(r),
         Number(blast_bv(node, known, v)) = Meaning(node.op, u, node.par, w[1], w[Len(w)])
  PROVE  NodeGood(node, w, u, v, known)
<1> DEFINE width == Width(node.op, w, node.par)
           m == Meaning(node.op, u, node.par, w[1], w[Len(w)])
           rb == blast_bool(node, v)
           rv == blast_bv(node, known, v)
<1>1. width = r /\ rv \in Bits(r) /\ Number(rv) = m
  OBVIOUS
<1> HIDE DEF width, m, rb, rv
<1>2. width \in Nat /\ Agree(width, m, IF width = 0 THEN rb ELSE rv)
  BY <1>1 DEF Agree
<1> QED BY <1>2, Zenon DEF NodeGood, width, m, rb, rv
\* a Boolean one when it is the meaning.
LEMMA BoolGood ==
  ASSUME NEW node, NEW w, NEW u, NEW v, NEW known, Width(node.op, w, node.par) = 0,
         blast_bool(node, v) = Meaning(node.op, u, node.par, w[1], w[Len(w)]),
         Meaning(node.op, u, node.par, w[1], w[Len(w)]) \in BOOLEAN
  PROVE  NodeGood(node, w, u, v, known)
<1> DEFINE width == Width(node.op, w, node.par)
           m == Meaning(node.op, u, node.par, w[1], w[Len(w)])
           rb == blast_bool(node, v)
           rv == blast_bv(node, known, v)
<1>1. width = 0 /\ rb = m /\ m \in BOOLEAN
  BY Zenon
<1> HIDE DEF width, m, rb, rv
<1>2. width \in Nat /\ Agree(width, m, IF width = 0 THEN rb ELSE rv)
  BY <1>1 DEF Agree
<1> QED BY <1>2, Zenon DEF NodeGood, width, m, rb, rv

\* Every well-sorted operation blast.rs has a circuit for is exact on operands that are:
\* the case split of blast_node over all operators.
THEOREM NodeExact ==
  ASSUME NEW node, NEW w, NodeFits(node, w), NEW u, NEW v, Stands(w, u, v), NEW known
  PROVE  NodeGood(node, w, u, v, known)
<1> DEFINE op == node.op
           par == node.par
           n == w[Len(w)]
           Kept == NodeGood(node, w, u, v, known)
           rv == blast_bv(node, known, v)
           rb == blast_bool(node, v)
<1>0. w \in Seq(Nat) /\ Len(u) = Len(w) /\ Len(v) = Len(w)
  BY Zenon DEF Stands
<1>1. WellSorted(op, w, par)
  BY Zenon DEF NodeFits
<1>2. op # "BoolXor" /\ op # "BvNe"
  BY Zenon DEF NodeFits
<1>3. op \in ParamOps => par[1] \in Nat
  BY Zenon DEF NodeFits
<1>4. op = "BvExtract" => par[2] \in Nat
  BY Zenon DEF NodeFits
<1>5. \A k \in 1 .. Len(w) : w[k] # 0 => v[k] \in Bits(w[k]) /\ u[k] = Number(v[k])
  BY OperandsStand
<1>6. \A k \in 1 .. Len(w) : w[k] = 0 => v[k] \in BOOLEAN /\ u[k] = v[k]
  BY OperandsStand
<1> HIDE DEF op, par
<1>7. ASSUME op \in PairOps PROVE Kept
  <2>1. Len(w) = 2 /\ w[2] \in Nat \ {0} /\ w[1] = w[2] /\ Width(op, w, par) = w[2]
    BY <1>0, <1>1, <1>7, PairSorts
  <2>0. n = w[2]
    BY <2>1
  <2>2. n \in Nat \ {0}
    BY <2>1
  <2>4. v[1] \in Bits(n) /\ v[2] \in Bits(n) /\ u[1] = Number(v[1]) /\ u[2] = Number(v[2])
    BY <1>5, <1>6, <2>0, <2>1, <2>2
  <2>5. Width(op, w, par) = n
    BY <2>0, <2>1, <2>2
  <2> HIDE DEF n
  <2>6. \A wh : rv \in Bits(n) /\ Number(rv) = Meaning(op, u, par, wh, n)
    BY <1>7, <2>2, <2>4, PairsExact DEF op, par
  <2> QED BY <2>2, <2>5, <2>6, WideGood DEF n, op, par
<1>8. ASSUME op \in PredicateOps PROVE Kept
  <2>1. Len(w) = 2 /\ w[2] \in Nat \ {0} /\ w[1] = w[2] /\ Width(op, w, par) = 0
    BY <1>0, <1>1, <1>8, PredicateSorts
  <2>0. n = w[2]
    BY <2>1
  <2>2. n \in Nat \ {0}
    BY <2>1
  <2>3. op \in PredicateOps \ {"BvNe"}
    BY <1>2, <1>8
  <2>4. v[1] \in Bits(n) /\ v[2] \in Bits(n) /\ u[1] = Number(v[1]) /\ u[2] = Number(v[2])
    BY <1>5, <1>6, <2>0, <2>1, <2>2
  <2>5. Width(op, w, par) = 0
    BY <2>0, <2>1, <2>2
  <2> HIDE DEF n
  <2>6. \A wh : rb = Meaning(op, u, par, wh, n) /\ Meaning(op, u, par, wh, n) \in BOOLEAN
    BY <1>8, <2>2, <2>3, <2>4, PredicatesExact DEF op, par
  <2> QED BY <2>5, <2>6, BoolGood, Zenon DEF n, op, par
<1>9. ASSUME op \in {"BvNot", "BvNeg", "BvRotateLeft", "BvRotateRight"} PROVE Kept
  <2>1. Len(w) = 1 /\ w[1] \in Nat \ {0} /\ Width(op, w, par) = w[1]
    BY <1>0, <1>1, <1>9, SameSorts
  <2>0. n = w[1]
    BY <2>1
  <2>2. n \in Nat \ {0}
    BY <2>1
  <2>3. op \in {"BvRotateLeft", "BvRotateRight"} => par[1] \in Nat
    BY <1>3 DEF ParamOps
  <2>4. v[1] \in Bits(n) /\ u[1] = Number(v[1])
    BY <1>5, <1>6, <2>0, <2>1, <2>2
  <2>5. Width(op, w, par) = n
    BY <2>0, <2>1, <2>2
  <2> HIDE DEF n
  <2>6. \A wh : rv \in Bits(n) /\ Number(rv) = Meaning(op, u, par, wh, n)
    BY <1>9, <2>2, <2>3, <2>4, UnaryExact DEF op, par
  <2> QED BY <2>2, <2>5, <2>6, WideGood DEF n, op, par
<1>10. ASSUME op \in {"BvZeroExtend", "BvSignExtend"} PROVE Kept
  <2>1. Len(w) = 1 /\ w[1] \in Nat \ {0} /\ Width(op, w, par) = w[1] + par[1]
    BY <1>0, <1>1, <1>10, ExtendSorts
  <2>0. n = w[1]
    BY <2>1
  <2>2. n \in Nat \ {0}
    BY <2>1
  <2>3. PICK by \in Nat : par[1] = by
    BY <1>3, <1>10 DEF ParamOps
  <2>4. v[1] \in Bits(n) /\ u[1] = Number(v[1])
    BY <1>5, <1>6, <2>0, <2>1, <2>2
  <2> DEFINE size == n + by
  <2>5. size \in Nat \ {0}
    BY <2>1, <2>2, <2>3
  <2>6. Width(op, w, par) = size
    BY <2>0, <2>1, <2>2, <2>3
  <2>8. Extension(n, size, node)
    BY <1>10, <2>3 DEF Extension, op, par
  <2> HIDE DEF n, size
  <2>7. \A wh : rv \in Bits(size) /\ Number(rv) = Meaning(op, u, par, wh, n)
    BY <2>2, <2>4, <2>8, ExtendsExact DEF op, par
  <2> QED BY <2>5, <2>6, <2>7, WideGood DEF n, op, par
<1>11. ASSUME op = "BvExtract" PROVE Kept
  <2>1. Len(w) = 1 /\ w[1] \in Nat /\ par[1] < w[1] /\ par[2] <= par[1] /\ Width(op, w, par) = par[1] - par[2] + 1
    BY <1>0, <1>1, <1>11, ExtractSorts
  <2>2. n = w[1]
    BY <2>1
  <2>3. par[1] \in Nat /\ par[2] \in Nat
    BY <1>3, <1>4, <1>11 DEF ParamOps
  <2>4. PICK by \in Nat, low \in Nat : par[1] = by /\ par[2] = low
    BY <2>3
  <2>5. n \in Nat \ {0} /\ by < n /\ low <= by
    BY <2>1, <2>2, <2>4
  <2>6. v[1] \in Bits(n) /\ u[1] = Number(v[1])
    BY <1>5, <2>1, <2>2, <2>5
  <2> DEFINE size == by - low + 1
  <2>7. size \in Nat \ {0}
    BY <2>5
  <2>8. Width(op, w, par) = size
    BY <2>1, <2>4
  <2>10. Extraction(n, by, low, size, node)
    BY <1>11, <2>4, <2>5 DEF Extraction, op, par
  <2>11. n \in Nat \ {0}
    BY <2>5
  <2> HIDE DEF n, size
  <2>9. \A wh : rv \in Bits(size) /\ Number(rv) = Meaning(op, u, par, wh, n)
    BY <2>6, <2>10, <2>11, ExtractExact DEF op, par
  <2> QED BY <2>7, <2>8, <2>9, WideGood DEF n, op, par
<1>12. ASSUME op = "BvRepeat" PROVE Kept
  <2>1. Len(w) = 1 /\ w[1] \in Nat \ {0} /\ par[1] > 0 /\ Width(op, w, par) = w[1] * par[1]
    BY <1>0, <1>1, <1>12, RepeatSorts
  <2>0. n = w[1]
    BY <2>1
  <2>2. n \in Nat \ {0}
    BY <2>1
  <2>3. PICK by \in Nat : par[1] = by
    BY <1>3, <1>12 DEF ParamOps
  <2>4. v[1] \in Bits(n) /\ u[1] = Number(v[1])
    BY <1>5, <1>6, <2>0, <2>1, <2>2
  <2>5. n * by \in Nat \ {0}
    <3>1. n \in Nat /\ n > 0 /\ by \in Nat /\ by > 0
      BY <2>1, <2>2, <2>3
    <3> HIDE DEF n
    <3>2. n * by \in Nat /\ n * by > 0
      BY <3>1
    <3> QED BY <3>2
  <2>6. Width(op, w, par) = n * by
    BY <2>0, <2>1, <2>2, <2>3
  <2> HIDE DEF n
  <2>7. \A wh : rv \in Bits(n * by) /\ Number(rv) = Meaning(op, u, par, wh, n)
    BY <1>12, <2>2, <2>3, <2>4, RepeatsExact DEF op, par
  <2> QED BY <2>5, <2>6, <2>7, WideGood DEF n, op, par
<1>13. ASSUME op = "NegOverflow" PROVE Kept
  <2>1. Len(w) = 1 /\ w[1] \in Nat \ {0} /\ Width(op, w, par) = 0
    BY <1>0, <1>1, <1>13, NegOverflowSorts
  <2>0. n = w[1]
    BY <2>1
  <2>2. n \in Nat \ {0}
    BY <2>1
  <2>4. v[1] \in Bits(n) /\ u[1] = Number(v[1])
    BY <1>5, <1>6, <2>0, <2>1, <2>2
  <2>5. Width(op, w, par) = 0
    BY <2>0, <2>1, <2>2
  <2> HIDE DEF n
  <2>6. \A wh : rb = Meaning(op, u, par, wh, n) /\ Meaning(op, u, par, wh, n) \in BOOLEAN
    BY <1>13, <2>2, <2>4, NegOverflowExact DEF op, par
  <2> QED BY <2>5, <2>6, BoolGood, Zenon DEF n, op, par
<1>14. ASSUME op = "BvConcat" PROVE Kept
  <2>1. Len(w) = 2 /\ w[1] \in Nat \ {0} /\ w[2] \in Nat \ {0} /\ Width(op, w, par) = w[1] + w[2]
    BY <1>0, <1>1, <1>14, ConcatSorts
  <2>0. n = w[2]
    BY <2>1
  <2>2. n \in Nat \ {0}
    BY <2>1
  <2> DEFINE h == w[1]
  <2>4. v[1] \in Bits(h) /\ v[2] \in Bits(n) /\ u[1] = Number(v[1]) /\ u[2] = Number(v[2])
    BY <1>5, <1>6, <2>0, <2>1, <2>2
  <2>5. h \in Nat
    BY <2>1
  <2>6. h + n \in Nat \ {0}
    BY <2>0, <2>1, <2>2
  <2>7. Width(op, w, par) = h + n
    BY <2>0, <2>1, <2>2
  <2> HIDE DEF n, h
  <2>8. rv \in Bits(h + n) /\ Number(rv) = Meaning(op, u, par, h, n)
    BY <1>14, <2>2, <2>4, <2>5, JoinsExact DEF op, par
  <2> QED BY <2>6, <2>7, <2>8, WideGood DEF n, op, par, h
<1>15. ASSUME op = "BvIte" PROVE Kept
  <2>1. Len(w) = 3 /\ w[3] \in Nat \ {0} /\ w[1] = 0 /\ w[2] = w[3] /\ Width(op, w, par) = w[3]
    BY <1>0, <1>1, <1>15, IteSorts
  <2>0. n = w[3]
    BY <2>1
  <2>2. n \in Nat \ {0}
    BY <2>1
  <2>4. v[2] \in Bits(n) /\ v[3] \in Bits(n) /\ u[2] = Number(v[2]) /\ u[3] = Number(v[3])
    BY <1>5, <1>6, <2>0, <2>1, <2>2
  <2>5. v[1] \in BOOLEAN /\ u[1] = v[1]
    BY <1>5, <1>6, <2>0, <2>1, <2>2
  <2>6. Width(op, w, par) = n
    BY <2>0, <2>1, <2>2
  <2> HIDE DEF n
  <2>7. \A wh : rv \in Bits(n) /\ Number(rv) = Meaning(op, u, par, wh, n)
    BY <1>15, <2>2, <2>4, <2>5, IteExact DEF op, par
  <2> QED BY <2>2, <2>6, <2>7, WideGood DEF n, op, par
<1>16. ASSUME op = "BvSelect" PROVE Kept
  <2> DEFINE c == (Len(w) - 1) \div 2
  <2>1. /\ Len(w) % 2 = 1 /\ n \in Nat \ {0} /\ Width(op, w, par) = n
        /\ \A k \in 1 .. c : w[2 * k - 1] = 0 /\ w[2 * k] = n
    BY <1>0, <1>1, <1>16, SelectSorts
  <2>2. c \in Nat /\ Len(w) = 2 * c + 1
    <3> DEFINE l == Len(w)
    <3>1. l \in Nat /\ l % 2 = 1
      BY <1>0, <2>1
    <3> HIDE DEF l
    <3>2. (l - 1) \div 2 \in Nat /\ l = 2 * ((l - 1) \div 2) + 1
      BY <3>1
    <3> QED BY <3>2 DEF l
  <2> HIDE DEF c
  <2>3. \A k \in 1 .. c : /\ v[2 * k - 1] \in BOOLEAN /\ v[2 * k] \in Bits(n)
                          /\ u[2 * k - 1] = v[2 * k - 1] /\ u[2 * k] = Number(v[2 * k])
    <3> SUFFICES ASSUME NEW k \in 1 .. c
                 PROVE  /\ v[2 * k - 1] \in BOOLEAN /\ v[2 * k] \in Bits(n)
                        /\ u[2 * k - 1] = v[2 * k - 1] /\ u[2 * k] = Number(v[2 * k])
      OBVIOUS
    <3> DEFINE e == 2 * k
               o == 2 * k - 1
    <3>1. o \in 1 .. Len(w) /\ e \in 1 .. Len(w)
      BY <2>2
    <3>2. w[e] = n /\ w[e] # 0 /\ w[o] = 0
      BY <2>1
    <3> HIDE DEF n, e, o
    <3>3. v[e] \in Bits(n) /\ u[e] = Number(v[e]) /\ v[o] \in BOOLEAN /\ u[o] = v[o]
      BY <1>5, <1>6, <3>1, <3>2
    <3> QED BY <3>3, Zenon DEF e, o
  <2>4. v[Len(v)] \in Bits(n) /\ u[Len(v)] = Number(v[Len(v)])
    <3> DEFINE l == Len(v)
    <3>1. l = Len(w) /\ l \in 1 .. Len(w) /\ n = w[l] /\ w[l] # 0
      BY <1>0, <2>1, <2>2
    <3> HIDE DEF l, n
    <3>2. v[l] \in Bits(n) /\ u[l] = Number(v[l])
      BY <1>5, <3>1
    <3> QED BY <3>2, Zenon DEF l
  <2>5. Len(v) = 2 * c + 1 /\ Len(u) = Len(v)
    BY <1>0, <2>2
  <2>6. SelectOperands(n, c, u, v)
    <3> HIDE DEF n
    <3> QED BY <2>3, <2>4, <2>5, Zenon DEF SelectOperands
  <2>7. n \in Nat \ {0}
    BY <2>1
  <2> HIDE DEF n
  <2>8. \A wh : rv \in Bits(n) /\ Number(rv) = Meaning(op, u, par, wh, n)
    BY <1>16, <2>2, <2>6, <2>7, SelectsExact DEF op, par
  <2> QED BY <2>1, <2>8, WideGood DEF n, op, par
<1>17. ASSUME op = "BoolNot" PROVE Kept
  <2>1. Len(w) = 1 /\ w[1] = 0 /\ Width(op, w, par) = 0
    BY <1>0, <1>1, <1>17, NotSorts
  <2>4. v[1] \in BOOLEAN /\ u[1] = v[1]
    BY <1>5, <1>6, <2>1
  <2>5. Width(op, w, par) = 0
    BY <2>1
  <2> HIDE DEF n
  <2>6. \A wh : rb = Meaning(op, u, par, wh, n) /\ Meaning(op, u, par, wh, n) \in BOOLEAN
    BY <1>17, <2>4, ConnectivesExact DEF op, par
  <2> QED BY <2>5, <2>6, BoolGood, Zenon DEF n, op, par
<1>18. ASSUME op \in BoolPairs PROVE Kept
  <2>1. Len(w) = 2 /\ w[1] = 0 /\ w[2] = 0 /\ Width(op, w, par) = 0
    BY <1>0, <1>1, <1>18, ConnectiveSorts
  <2>4. v[1] \in BOOLEAN /\ u[1] = v[1] /\ v[2] \in BOOLEAN /\ u[2] = v[2]
    BY <1>5, <1>6, <2>1
  <2>5. Width(op, w, par) = 0
    BY <2>1
  <2> HIDE DEF n
  <2>6. \A wh : rb = Meaning(op, u, par, wh, n) /\ Meaning(op, u, par, wh, n) \in BOOLEAN
    BY <1>18, <2>4, ConnectivesExact DEF op, par
  <2> QED BY <2>5, <2>6, BoolGood, Zenon DEF n, op, par
<1>19. ASSUME op = "BoolIte" PROVE Kept
  <2>1. Len(w) = 3 /\ w[1] = 0 /\ w[2] = 0 /\ w[3] = 0 /\ Width(op, w, par) = 0
    BY <1>0, <1>1, <1>19, BoolIteSorts
  <2>4. v[1] \in BOOLEAN /\ u[1] = v[1] /\ v[2] \in BOOLEAN /\ u[2] = v[2] /\ v[3] \in BOOLEAN /\ u[3] = v[3]
    BY <1>5, <1>6, <2>1
  <2>5. Width(op, w, par) = 0
    BY <2>1
  <2> HIDE DEF n
  <2>6. \A wh : rb = Meaning(op, u, par, wh, n) /\ Meaning(op, u, par, wh, n) \in BOOLEAN
    BY <1>19, <2>4, ConnectivesExact DEF op, par
  <2> QED BY <2>5, <2>6, BoolGood, Zenon DEF n, op, par
<1>20. \/ op \in PairOps \/ op \in PredicateOps \/ op \in {"BvNot", "BvNeg", "BvRotateLeft", "BvRotateRight"}
       \/ op \in {"BvZeroExtend", "BvSignExtend"} \/ op = "BvExtract" \/ op = "BvRepeat" \/ op = "NegOverflow"
       \/ op = "BvConcat" \/ op = "BvIte" \/ op = "BvSelect" \/ op = "BoolNot" \/ op \in BoolPairs \/ op = "BoolIte"
  BY <1>0, <1>1, <1>2, Zenon DEF WellSorted, BoolPairs
<1> HIDE DEF Kept, op
<1> QED BY <1>7, <1>8, <1>9, <1>10, <1>11, <1>12, <1>13, <1>14, <1>15, <1>16, <1>17, <1>18, <1>19, <1>20,
      Zenon DEF Kept

\* A number modulo 2p: its residue modulo p and one more bit.
LEMMA OneMoreBit ==
  ASSUME NEW p \in Nat, p >= 1, NEW V \in Nat
  PROVE  /\ (V \div p) % 2 \in {0, 1}
         /\ V % (2 * p) = (V % p) + p * ((V \div p) % 2)
<1> DEFINE q == V \div p
           r == V % p
           e == q % 2
           c == q \div 2
<1>1. q \in Nat /\ r \in 0 .. p - 1 /\ V = r + p * q
  OBVIOUS
<1> HIDE DEF q, r
<1>2. e \in {0, 1} /\ c \in Nat /\ q = e + 2 * c
  BY <1>1
<1> HIDE DEF e, c
<1>3. p * q = p * e + (2 * p) * c
  BY <1>1, <1>2
<1>4. p * e \in {0, p}
  BY <1>2
<1> DEFINE s == r + p * e
           m == 2 * p
<1>5. s \in 0 .. m - 1 /\ m \in Nat /\ m > 0
  BY <1>1, <1>4
<1>6. V = s + m * c
  BY <1>1, <1>2, <1>3, <1>4
<1> HIDE DEF s, m
<1>7. V % m = s
  BY <1>2, <1>5, <1>6, QuotientIs
<1> QED BY <1>2, <1>7 DEF s, m, r, e, q

\* The bits of a number that fits stand for it.
LEMMA NumberOfBits ==
  ASSUME NEW w \in Nat, NEW V \in 0 .. TwoTo(w) - 1
  PROVE  BitsOf(V, w) \in Bits(w) /\ Number(BitsOf(V, w)) = V
<1> DEFINE x == BitsOf(V, w)
           T == {k \in 0 .. w : numbers(x, w)[k] = V % TwoTo(k)}
<1>0. V \in Nat
  BY TwoToIs
<1>1. x \in Bits(w)
  <2>1. \A i \in 1 .. w : (BitOf(V, i - 1) = 1) \in BOOLEAN
    OBVIOUS
  <2> QED BY <2>1, Zenon DEF BitsOf, Bits
<1>2. \A i \in 1 .. w : x[i] <=> BitOf(V, i - 1) = 1
  BY DEF BitsOf
<1> HIDE DEF x
<1>3. 0 \in T
  <2>1. TwoTo(0) = 1 /\ V % 1 = 0
    BY <1>0, TwoToIs
  <2> QED BY <2>1, NumbersStep
<1>4. ASSUME NEW k \in 1 .. w, k - 1 \in T
      PROVE  k \in T
  <2> DEFINE p == TwoTo(k - 1)
             old == numbers(x, w)[k - 1]
             e == (V \div p) % 2
  <2>1. p \in Nat /\ p >= 1 /\ TwoTo(k) = 2 * p
    BY TwoToStep
  <2>2. old = V % p
    BY <1>4
  <2>3. numbers(x, w)[k] = IF x[k] THEN old + p ELSE old
    BY NumbersStep
  <2>4. x[k] <=> e = 1
    BY <1>2 DEF BitOf
  <2> HIDE DEF p, old
  <2>5. e \in {0, 1} /\ V % (2 * p) = (V % p) + p * e
    BY <1>0, <2>1, OneMoreBit
  <2>6. V % p \in Nat
    BY <1>0, <2>1
  <2> HIDE DEF e
  <2>7. CASE e = 1
    BY <2>1, <2>2, <2>3, <2>4, <2>5, <2>6, <2>7
  <2>8. CASE e = 0
    BY <2>1, <2>2, <2>3, <2>4, <2>5, <2>6, <2>8
  <2> QED BY <2>5, <2>7, <2>8
<1>5. T \subseteq Nat
  OBVIOUS
<1> HIDE DEF T
<1>6. w \in T
  BY <1>3, <1>4, <1>5, Climb
<1>7. numbers(x, w)[w] = V % TwoTo(w)
  BY <1>6 DEF T
<1>8. V % TwoTo(w) = V
  BY <1>0, TwoToIs, ModBelow
<1>9. Number(x) = numbers(x, w)[w]
  BY <1>1, NumberRange
<1> QED BY <1>1, <1>7, <1>8, <1>9 DEF x

\* The sums of the bytes (ir.rs: a constant's little-endian bytes).
LEMMA ByteSumsAre ==
  ASSUME NEW n \in Nat, NEW bytes
  PROVE  byte_sums(bytes, n) =
           [k \in 0 .. n |-> IF k = 0 THEN 0 ELSE byte_sums(bytes, n)[k - 1] + bytes[k] * TwoTo(ByteBits * (k - 1))]
<1> DEFINE Solves(f, m) == f = [k \in 0 .. m |-> IF k = 0 THEN 0
                                                 ELSE f[k - 1] + bytes[k] * TwoTo(ByteBits * (k - 1))]
           T == {m \in 0 .. n : \E f : Solves(f, m)}
<1>1. \E f : Solves(f, 0)
  <2>1. Solves([k \in 0 .. 0 |-> 0], 0)
    OBVIOUS
  <2> HIDE DEF Solves
  <2> QED BY <2>1
<1>2. ASSUME NEW m \in 1 .. n, NEW f, Solves(f, m - 1)
      PROVE  \E g : Solves(g, m)
  <2> DEFINE g == [k \in 0 .. m |-> IF k = m THEN f[m - 1] + bytes[m] * TwoTo(ByteBits * (m - 1)) ELSE f[k]]
  <2>1. ASSUME NEW k \in 0 .. m
        PROVE  g[k] = IF k = 0 THEN 0 ELSE g[k - 1] + bytes[k] * TwoTo(ByteBits * (k - 1))
    BY <1>2
  <2>2. Solves(g, m)
    BY <2>1
  <2> HIDE DEF Solves
  <2> QED BY <2>2
<1> HIDE DEF Solves
<1>3. T \subseteq Nat /\ 0 \in T /\ \A m \in 1 .. n : m - 1 \in T => m \in T
  BY <1>1, <1>2
<1> HIDE DEF T
<1>4. n \in T
  BY <1>3, Climb
<1>5. \E f : Solves(f, n)
  BY <1>4 DEF T
<1> QED BY <1>5, Zenon DEF byte_sums, Solves

\* The bits of the first k bytes.
ByteRun(bytes, k) == [b \in 1 .. k * ByteBits |-> get_bit(bytes, b - 1)]

\* A place in a run of bytes is a byte and a place in it.
LEMMA BitInByte ==
  ASSUME NEW q \in Nat, NEW i \in 1 .. ByteBits
  PROVE  ((q * ByteBits + i) - 1) \div ByteBits = q /\ ((q * ByteBits + i) - 1) % ByteBits = i - 1
<1> DEFINE r == i - 1
<1>1. ByteBits \in Nat /\ ByteBits > 0 /\ r \in 0 .. ByteBits - 1
  BY BytesAssumption
<1>2. (q * ByteBits + i) - 1 = r + ByteBits * q
  BY <1>1
<1> HIDE DEF r
<1>3. (r + ByteBits * q) % ByteBits = r /\ (r + ByteBits * q) \div ByteBits = q
  BY <1>1, QuotientIs
<1> QED BY <1>2, <1>3 DEF r

\* A run longer by one byte has that byte on top.
LEMMA RunGrows ==
  ASSUME NEW n \in Nat, NEW bytes \in [1 .. n -> 0 .. Base - 1], NEW k \in 1 .. n
  PROVE  /\ ByteRun(bytes, k) = ByteRun(bytes, k - 1) \o BitsOf(bytes[k], ByteBits)
         /\ BitsOf(bytes[k], ByteBits) \in Bits(ByteBits) /\ Number(BitsOf(bytes[k], ByteBits)) = bytes[k]
<1> DEFINE B == ByteBits
           s == (k - 1) * B
           low == ByteRun(bytes, k - 1)
           up == BitsOf(bytes[k], B)
           all == ByteRun(bytes, k)
<1>1. B \in Nat /\ B > 0 /\ k - 1 \in Nat
  BY BytesAssumption
<1>2. s \in Nat /\ k * B = s + B
  <2> HIDE DEF B
  <2>1. k * B = (k - 1) * B + B
    BY <1>1
  <2> QED BY <1>1, <2>1
<1>3. up \in Bits(B) /\ Number(up) = bytes[k]
  BY <1>1, NumberOfBits DEF Base
<1>4. Len(bytes) = n
  OBVIOUS
<1>5. ASSUME NEW i \in 1 .. B
      PROVE  get_bit(bytes, (s + i) - 1) = up[i]
  <2>1. ((s + i) - 1) \div B = k - 1 /\ ((s + i) - 1) % B = i - 1
    BY <1>1, BitInByte
  <2>2. k - 1 < Len(bytes) /\ (k - 1) + 1 = k
    BY <1>4
  <2>3. up[i] = (BitOf(bytes[k], i - 1) = 1)
    BY <1>1 DEF BitsOf
  <2>4. get_bit(bytes, (s + i) - 1) = (k - 1 < Len(bytes) /\ BitOf(bytes[(k - 1) + 1], i - 1) = 1)
    <3> DEFINE at == (s + i) - 1
    <3>1. at \div B = k - 1 /\ at % B = i - 1
      BY <2>1
    <3> HIDE DEF at
    <3>2. get_bit(bytes, at) = (k - 1 < Len(bytes) /\ BitOf(bytes[(k - 1) + 1], i - 1) = 1)
      BY <3>1, Zenon DEF get_bit
    <3> QED BY <3>2, Zenon DEF at
  <2> HIDE DEF up, s
  <2>5. (k - 1 < Len(bytes) /\ BitOf(bytes[(k - 1) + 1], i - 1) = 1) = (BitOf(bytes[k], i - 1) = 1)
    BY <2>2
  <2> QED BY <2>3, <2>4, <2>5
<1>6. low = [b \in 1 .. s |-> get_bit(bytes, b - 1)] /\ all = [b \in 1 .. s + B |-> get_bit(bytes, b - 1)]
  BY <1>2 DEF ByteRun
<1>7. up = [i \in 1 .. B |-> up[i]]
  BY <1>3, Zenon DEF Bits
<1>8. all = low \o up
  <2> DEFINE f(b) == get_bit(bytes, b - 1)
  <2>1. \A i \in 1 .. B : f(s + i) = up[i]
    BY <1>5
  <2>2. low = [b \in 1 .. s |-> f(b)] /\ all = [b \in 1 .. s + B |-> f(b)]
    BY <1>6
  <2> HIDE DEF f, low, up, all, s, B
  <2>3. \A b \in 1 .. s : f(b) \in BOOLEAN
    BY Zenon DEF f, get_bit
  <2>4. low \in Bits(s)
    BY <2>2, <2>3, Zenon DEF Bits
  <2> DEFINE z == low \o up
  <2>5. z \in Bits(s + B)
    BY <1>1, <1>2, <1>3, <2>4, JoinBits
  <2>6. (\A b \in 1 .. s : z[b] = low[b]) /\ \A i \in 1 .. B : z[s + i] = up[i]
    BY <1>1, <1>2, <1>3, <2>4, JoinBits
  <2> HIDE DEF z
  <2>7. ASSUME NEW b \in 1 .. s + B PROVE z[b] = f(b)
    <3>1. CASE b <= s
      BY <1>2, <2>2, <2>6, <3>1
    <3>2. CASE b > s
      <4>1. b - s \in 1 .. B /\ s + (b - s) = b
        BY <1>1, <1>2, <3>2
      <4>2. f(s + (b - s)) = up[b - s] /\ z[s + (b - s)] = up[b - s]
        BY <2>1, <2>6, <4>1, Zenon
      <4> QED BY <4>1, <4>2, Zenon
    <3> QED BY <1>2, <3>1, <3>2
  <2>8. z = [b \in 1 .. s + B |-> z[b]]
    BY <2>5, Zenon DEF Bits
  <2>9. z = all
    BY <2>2, <2>7, <2>8
  <2> QED BY <2>9 DEF z
<1> QED BY <1>3, <1>8

\* The bits of the bytes stand for their number.
LEMMA RunsNumber ==
  ASSUME NEW n \in Nat, NEW bytes \in [1 .. n -> 0 .. Base - 1]
  PROVE  ByteRun(bytes, n) \in Bits(n * ByteBits) /\ Number(ByteRun(bytes, n)) = Value(bytes)
<1> DEFINE B == ByteBits
           v == byte_sums(bytes, n)
           T == {k \in 0 .. n : ByteRun(bytes, k) \in Bits(k * B) /\ Number(ByteRun(bytes, k)) = v[k]}
<1>1. B \in Nat /\ B > 0
  BY BytesAssumption
<1>2. v[0] = 0 /\ \A k \in 1 .. n : v[k] = v[k - 1] + bytes[k] * TwoTo(B * (k - 1))
  <2>1. v = [k \in 0 .. n |-> IF k = 0 THEN 0 ELSE v[k - 1] + bytes[k] * TwoTo(B * (k - 1))]
    BY ByteSumsAre
  <2> HIDE DEF v
  <2> QED BY <2>1
<1>3. Value(bytes) = v[n]
  BY DEF Value
<1> HIDE DEF v
<1>4. 0 \in T
  <2> DEFINE r == ByteRun(bytes, 0)
  <2>1. 0 * B = 0
    BY <1>1
  <2>2. r \in Bits(0)
    BY <2>1 DEF ByteRun, Bits
  <2> HIDE DEF r
  <2>3. Number(r) = numbers(r, 0)[0] /\ numbers(r, 0)[0] = 0
    BY <2>2, NumberRange, NumbersStep
  <2> QED BY <1>2, <2>1, <2>2, <2>3 DEF r
<1>5. ASSUME NEW k \in 1 .. n, k - 1 \in T
      PROVE  k \in T
  <2> DEFINE s == (k - 1) * B
             low == ByteRun(bytes, k - 1)
             up == BitsOf(bytes[k], B)
  <2>1. s \in Nat /\ k * B = s + B /\ B * (k - 1) = s
    <3> HIDE DEF B
    <3>1. k * B = (k - 1) * B + B /\ B * (k - 1) = (k - 1) * B /\ (k - 1) * B \in Nat
      BY <1>1
    <3> QED BY <3>1
  <2>2. ByteRun(bytes, k) = low \o up /\ up \in Bits(B) /\ Number(up) = bytes[k]
    BY RunGrows
  <2>3. low \in Bits(s) /\ Number(low) = v[k - 1]
    BY <1>5
  <2>4. v[k] = v[k - 1] + bytes[k] * TwoTo(s)
    BY <1>2, <2>1
  <2> HIDE DEF s, low, up, B
  <2>5. low \o up \in Bits(s + B) /\ Number(low \o up) = Number(low) + TwoTo(s) * Number(up)
    BY <1>1, <2>1, <2>2, <2>3, JoinNumber
  <2>6. TwoTo(s) \in Nat /\ Number(low) \in Nat /\ Number(up) \in Nat
    BY <1>1, <2>1, <2>2, <2>3, TwoToIs, NumberRange
  <2>7. Number(low \o up) = v[k]
    BY <2>2, <2>3, <2>4, <2>5, <2>6
  <2>8. ByteRun(bytes, k) \in Bits(k * B)
    BY <2>1, <2>2, <2>5
  <2>9. Number(ByteRun(bytes, k)) = v[k]
    BY <2>2, <2>7
  <2> QED BY <2>8, <2>9
<1>6. T \subseteq Nat
  OBVIOUS
<1> HIDE DEF T
<1>7. n \in T
  BY <1>4, <1>5, <1>6, Climb
<1> QED BY <1>3, <1>7 DEF T

\* A constant's bits stand for the number of its bytes (blast.rs, the case of
\* BvConst): its bytes are those of its width and its unused high bits clear.
THEOREM ConstantExact ==
  ASSUME NEW w \in Nat \ {0}, NEW bytes \in [1 .. NumBytes(w) -> 0 .. Base - 1], Value(bytes) < TwoTo(w)
  PROVE  LET x == [b \in 1 .. w |-> get_bit(bytes, b - 1)]
         IN  x \in Bits(w) /\ Number(x) = Value(bytes)
<1> DEFINE B == ByteBits
           n == NumBytes(w)
           l == n * B
           all == ByteRun(bytes, n)
           low == Slice(all, 0, w)
           V == Value(bytes)
<1>1. B \in Nat /\ B > 0
  BY BytesAssumption
<1>2. n \in Nat /\ w <= l /\ l \in Nat
  <2> DEFINE z == w + B - 1
             q == z \div B
             r == z % B
  <2>1. n = q
    BY DEF NumBytes
  <2>2. z \in Nat
    BY <1>1
  <2> HIDE DEF B
  <2>3. z = w + B - 1
    OBVIOUS
  <2> HIDE DEF z
  <2>4. q \in Nat /\ r \in 0 .. B - 1 /\ z = r + B * q
    BY <1>1, <2>2
  <2> HIDE DEF q, r
  <2>5. B * q = q * B /\ q * B \in Nat
    BY <1>1, <2>4
  <2>6. w <= q * B
    BY <1>1, <2>3, <2>4, <2>5
  <2> QED BY <2>1, <2>4, <2>5, <2>6
<1>3. all \in Bits(l) /\ Number(all) = V
  BY <1>2, RunsNumber
<1>4. low = [b \in 1 .. w |-> get_bit(bytes, b - 1)]
  <2>1. \A b \in 1 .. w : all[0 + b] = get_bit(bytes, b - 1)
    BY <1>2 DEF ByteRun
  <2>2. w - 0 = w
    OBVIOUS
  <2> HIDE DEF all
  <2> QED BY <2>1, <2>2 DEF Slice
<1> HIDE DEF l, all, V, n
<1>5. low \in Bits(w) /\ Number(all) % TwoTo(w) = Number(low)
  <2>1. w \in 0 .. l
    BY <1>2
  <2> QED BY <1>2, <1>3, <2>1, CutNumber
<1>6. V \in Nat /\ V < TwoTo(w)
  BY <1>2, <1>3, NumberRange DEF V
<1>7. V % TwoTo(w) = V
  <2>1. TwoTo(w) \in Nat /\ TwoTo(w) > 0
    BY TwoToIs
  <2> QED BY <1>6, <2>1, ModBelow
<1> HIDE DEF low
<1> QED BY <1>3, <1>4, <1>5, <1>7 DEF V

\* Every operand of a node comes before it.
Ordered(n) == \A i \in DOMAIN n : n[i].args \in Seq(1 .. i - 1)

\* What every node means, and the bits of every node, are solutions of their
\* recursions (the loop over the nodes of blast_query_with_limits).
LEMMA DenoteIs ==
  ASSUME NEW len \in Nat, NEW n, DOMAIN n = 1 .. len, Ordered(n), NEW env
  PROVE  denote(n, env) = [i \in DOMAIN n |-> denote_node(n, env, i, Operands(denote(n, env), n[i]))]
<1> DEFINE F(i, v) == denote_node(n, env, i, v)
           Solves(f, m) == f = [i \in 1 .. m |-> F(i, Operands(f, n[i]))]
           T == {m \in 0 .. len : \E f : Solves(f, m)}
<1> HIDE DEF F
<1>1. \E f : Solves(f, 0)
  <2>1. Solves([i \in 1 .. 0 |-> 0], 0)
    OBVIOUS
  <2> HIDE DEF Solves
  <2> QED BY <2>1
<1>2. ASSUME NEW m \in 1 .. len, NEW f, Solves(f, m - 1)
      PROVE  \E g : Solves(g, m)
  <2> DEFINE last == F(m, Operands(f, n[m]))
             g == [i \in 1 .. m |-> IF i = m THEN last ELSE f[i]]
  <2>1. ASSUME NEW i \in 1 .. m PROVE Operands(g, n[i]) = Operands(f, n[i])
    <3>1. n[i].args \in Seq(1 .. i - 1)
      BY DEF Ordered
    <3>2. \A k \in DOMAIN n[i].args : n[i].args[k] \in 1 .. i - 1
      BY <3>1
    <3>3. \A k \in DOMAIN n[i].args : g[n[i].args[k]] = f[n[i].args[k]]
      <4> HIDE DEF last
      <4> QED BY <3>2
    <3> HIDE DEF g
    <3> QED BY <3>3, Zenon DEF Operands
  <2>2. \A i \in 1 .. m - 1 : f[i] = F(i, Operands(f, n[i]))
    BY <1>2
  <2>3. ASSUME NEW i \in 1 .. m PROVE g[i] = F(i, Operands(g, n[i]))
    <3>1. Operands(g, n[i]) = Operands(f, n[i])
      BY <2>1
    <3> DEFINE old == Operands(f, n[i])
    <3>2. CASE i = m
      <4>1. g[i] = last
        <5> HIDE DEF last
        <5> QED BY <3>2
      <4> QED BY <3>1, <3>2, <4>1, Zenon
    <3>3. CASE i # m
      <4>1. g[i] = f[i]
        <5> HIDE DEF last
        <5> QED BY <3>3
      <4>2. f[i] = F(i, old)
        BY <2>2, <3>3
      <4> QED BY <3>1, <4>1, <4>2, Zenon
    <3> QED BY <3>2, <3>3
  <2>4. Solves(g, m)
    <3>1. g = [i \in 1 .. m |-> g[i]]
      BY Zenon
    <3> HIDE DEF g
    <3> QED BY <2>3, <3>1, Zenon
  <2> HIDE DEF Solves, g
  <2> QED BY <2>4
<1> HIDE DEF Solves
<1>3. T \subseteq Nat /\ 0 \in T /\ \A m \in 1 .. len : m - 1 \in T => m \in T
  BY <1>1, <1>2
<1> HIDE DEF T
<1>4. len \in T
  BY <1>3, Climb
<1>5. \E f : Solves(f, len)
  BY <1>4 DEF T
<1>6. \E f : f = [i \in DOMAIN n |-> denote_node(n, env, i, Operands(f, n[i]))]
  BY <1>5, Zenon DEF Solves, F
<1> QED BY <1>6, Zenon DEF denote

\* The bits of the whole arena (blast.rs) satisfy the recursion over its nodes.
LEMMA BlastIs ==
  ASSUME NEW len \in Nat, NEW n, DOMAIN n = 1 .. len, Ordered(n), NEW inp
  PROVE  blast(n, inp) = [i \in DOMAIN n |-> blast_node(n, inp, i, Operands(blast(n, inp), n[i]))]
<1> DEFINE F(i, v) == blast_node(n, inp, i, v)
           Solves(f, m) == f = [i \in 1 .. m |-> F(i, Operands(f, n[i]))]
           T == {m \in 0 .. len : \E f : Solves(f, m)}
<1> HIDE DEF F
<1>1. \E f : Solves(f, 0)
  <2>1. Solves([i \in 1 .. 0 |-> 0], 0)
    OBVIOUS
  <2> HIDE DEF Solves
  <2> QED BY <2>1
<1>2. ASSUME NEW m \in 1 .. len, NEW f, Solves(f, m - 1)
      PROVE  \E g : Solves(g, m)
  <2> DEFINE last == F(m, Operands(f, n[m]))
             g == [i \in 1 .. m |-> IF i = m THEN last ELSE f[i]]
  <2>1. ASSUME NEW i \in 1 .. m PROVE Operands(g, n[i]) = Operands(f, n[i])
    <3>1. n[i].args \in Seq(1 .. i - 1)
      BY DEF Ordered
    <3>2. \A k \in DOMAIN n[i].args : n[i].args[k] \in 1 .. i - 1
      BY <3>1
    <3>3. \A k \in DOMAIN n[i].args : g[n[i].args[k]] = f[n[i].args[k]]
      <4> HIDE DEF last
      <4> QED BY <3>2
    <3> HIDE DEF g
    <3> QED BY <3>3, Zenon DEF Operands
  <2>2. \A i \in 1 .. m - 1 : f[i] = F(i, Operands(f, n[i]))
    BY <1>2
  <2>3. ASSUME NEW i \in 1 .. m PROVE g[i] = F(i, Operands(g, n[i]))
    <3>1. Operands(g, n[i]) = Operands(f, n[i])
      BY <2>1
    <3> DEFINE old == Operands(f, n[i])
    <3>2. CASE i = m
      <4>1. g[i] = last
        <5> HIDE DEF last
        <5> QED BY <3>2
      <4> QED BY <3>1, <3>2, <4>1, Zenon
    <3>3. CASE i # m
      <4>1. g[i] = f[i]
        <5> HIDE DEF last
        <5> QED BY <3>3
      <4>2. f[i] = F(i, old)
        BY <2>2, <3>3
      <4> QED BY <3>1, <4>1, <4>2, Zenon
    <3> QED BY <3>2, <3>3
  <2>4. Solves(g, m)
    <3>1. g = [i \in 1 .. m |-> g[i]]
      BY Zenon
    <3> HIDE DEF g
    <3> QED BY <2>3, <3>1, Zenon
  <2> HIDE DEF Solves, g
  <2> QED BY <2>4
<1> HIDE DEF Solves
<1>3. T \subseteq Nat /\ 0 \in T /\ \A m \in 1 .. len : m - 1 \in T => m \in T
  BY <1>1, <1>2
<1> HIDE DEF T
<1>4. len \in T
  BY <1>3, Climb
<1>5. \E f : Solves(f, len)
  BY <1>4 DEF T
<1>6. \E f : f = [i \in DOMAIN n |-> blast_node(n, inp, i, Operands(f, n[i]))]
  BY <1>5, Zenon DEF Solves, F
<1> QED BY <1>6, Zenon DEF blast

\* An arena that can be blasted, and a number for each of its variables.
SortedArena(n) == \A i \in DOMAIN n : SortedNode(n, i)
Assigns(n, env) ==
  /\ DOMAIN env = VariablesOf(n)
  /\ \A i \in DOMAIN env : n[i].op = "BvVar" => env[i] \in 0 .. TwoTo(n[i].w) - 1

LeafOps == {"BvConst", "BoolConst", "BvVar", "BoolVar"}

\* A node without operands.
LEMMA LeafExact ==
  ASSUME NEW n, NEW i \in DOMAIN n, SortedNode(n, i), n[i].op \in LeafOps, NEW env, Assigns(n, env), NEW u, NEW v
  PROVE  n[i].w \in Nat /\ Agree(n[i].w, denote_node(n, env, i, u), blast_node(n, bits_env(n, env), i, v))
<1> DEFINE node == n[i]
           w == node.w
           d == denote_node(n, env, i, u)
           b == blast_node(n, bits_env(n, env), i, v)
<1>1. CASE node.op = "BvConst"
  <2> DEFINE par == node.par
             x == [k \in 1 .. w |-> get_bit(par, k - 1)]
  <2>1. ValidWidth(w) /\ par \in [1 .. NumBytes(w) -> 0 .. Base - 1] /\ Value(par) < TwoTo(w)
    BY <1>1 DEF SortedNode
  <2>2. d = Value(par)
    BY <1>1 DEF denote_node
  <2>3. b = x
    BY <1>1 DEF blast_node
  <2>4. w \in Nat \ {0}
    BY <2>1, BytesAssumption DEF ValidWidth
  <2> HIDE DEF par, w, d, b
  <2>5. x \in Bits(w) /\ Number(x) = Value(par)
    BY <2>1, <2>4, ConstantExact
  <2> HIDE DEF x
  <2>6. w \in Nat /\ Agree(w, d, b)
    BY <2>2, <2>3, <2>4, <2>5 DEF Agree
  <2> QED BY <2>6 DEF w, d, b
<1>2. CASE node.op = "BoolConst"
  <2> DEFINE p == node.par[1]
  <2>1. w = 0 /\ p \in BOOLEAN
    BY <1>2 DEF SortedNode
  <2>2. d = p
    BY <1>2 DEF denote_node
  <2>3. b = p
    BY <1>2 DEF blast_node
  <2> HIDE DEF p, w, d, b
  <2>4. w \in Nat /\ Agree(w, d, b)
    BY <2>1, <2>2, <2>3 DEF Agree
  <2> QED BY <2>4 DEF w, d, b
<1>3. CASE node.op = "BvVar"
  <2> DEFINE e == env[i]
  <2>1. ValidWidth(w)
    BY <1>3 DEF SortedNode
  <2>2. w \in Nat \ {0}
    BY <2>1, BytesAssumption DEF ValidWidth
  <2>3. i \in DOMAIN env /\ e \in 0 .. TwoTo(w) - 1
    BY <1>3 DEF Assigns, VariablesOf
  <2>4. d = e
    BY <1>3 DEF denote_node
  <2>5. b = bits_env(n, env)[i]
    BY <1>3 DEF blast_node
  <2>6. bits_env(n, env)[i] = BitsOf(e, w)
    BY <2>2, <2>3 DEF bits_env, as_bits
  <2> HIDE DEF e, w, d, b
  <2>7. BitsOf(e, w) \in Bits(w) /\ Number(BitsOf(e, w)) = e
    BY <2>2, <2>3, NumberOfBits
  <2>8. w \in Nat /\ Agree(w, d, b)
    BY <2>2, <2>4, <2>5, <2>6, <2>7 DEF Agree
  <2> QED BY <2>8 DEF w, d, b
<1>4. CASE node.op = "BoolVar"
  <2> DEFINE e == env[i] = 1
  <2>1. w = 0
    BY <1>4 DEF SortedNode
  <2>2. i \in DOMAIN env
    BY <1>4 DEF Assigns, VariablesOf
  <2>3. d = e
    BY <1>4 DEF denote_node
  <2>4. b = bits_env(n, env)[i]
    BY <1>4 DEF blast_node
  <2>5. bits_env(n, env)[i] = e
    BY <2>1, <2>2, Zenon DEF bits_env, as_bits
  <2>6. e \in BOOLEAN
    OBVIOUS
  <2> HIDE DEF e, w, d, b
  <2>7. w \in Nat /\ Agree(w, d, b)
    BY <2>1, <2>3, <2>4, <2>5, <2>6 DEF Agree
  <2> QED BY <2>7 DEF w, d, b
<1> QED BY <1>1, <1>2, <1>3, <1>4 DEF LeafOps

\* A node with operands, given that the bits of its operands stand for them.
LEMMA InnerExact ==
  ASSUME NEW n, NEW i \in DOMAIN n, SortedNode(n, i), n[i].op \notin LeafOps, NEW env, NEW D, NEW B,
         \A j \in 1 .. i - 1 : n[j].w \in Nat /\ Agree(n[j].w, D[j], B[j])
  PROVE  /\ n[i].w \in Nat
         /\ Agree(n[i].w, denote_node(n, env, i, Operands(D, n[i])),
                  blast_node(n, bits_env(n, env), i, Operands(B, n[i])))
<1> DEFINE node == n[i]
           W == Widths(n, node)
           u == Operands(D, node)
           v == Operands(B, node)
           known == [k \in DOMAIN node.args |-> n[node.args[k]].op = "BvConst"]
           width == Width(node.op, W, node.par)
           m == Meaning(node.op, u, node.par, W[1], W[Len(W)])
           rb == blast_bool(node, v)
           rv == blast_bv(node, known, v)
<1>1. node.args \in Seq(1 .. i - 1)
  BY DEF SortedNode
<1>2. NodeFits(node, W) /\ node.w = width
  <2>1. /\ node.op \notin {"BoolXor", "BvNe"}
        /\ node.op \in ParamOps => node.par[1] \in Nat
        /\ node.op = "BvExtract" => node.par[2] \in Nat
        /\ WellSorted(node.op, Widths(n, node), node.par)
        /\ node.w = Width(node.op, Widths(n, node), node.par)
    BY Zenon DEF SortedNode, LeafOps
  <2> QED BY <2>1, Zenon DEF NodeFits
<1>3. Stands(W, u, v)
  <2> DEFINE a == node.args
             l == Len(a)
  <2>1. l \in Nat /\ DOMAIN a = 1 .. l /\ \A k \in 1 .. l : a[k] \in 1 .. i - 1
    <3> DEFINE S == 1 .. i - 1
    <3>1. a \in Seq(S)
      BY <1>1
    <3> HIDE DEF S, a
    <3>2. l \in Nat /\ DOMAIN a = 1 .. l /\ \A k \in 1 .. l : a[k] \in S
      BY <3>1
    <3> QED BY <3>2 DEF S
  <2> HIDE DEF a, l
  <2>2. /\ W = [k \in 1 .. l |-> n[a[k]].w]
        /\ u = [k \in 1 .. l |-> D[a[k]]]
        /\ v = [k \in 1 .. l |-> B[a[k]]]
    BY <2>1, Zenon DEF Widths, Operands, a
  <2>3. \A k \in 1 .. l : n[a[k]].w \in Nat /\ Agree(n[a[k]].w, D[a[k]], B[a[k]])
    BY <2>1
  <2> HIDE DEF W, u, v
  <2>4. W \in Seq(Nat) /\ Len(W) = l /\ Len(u) = l /\ Len(v) = l
    BY <2>1, <2>2, <2>3
  <2>5. \A k \in 1 .. l : Agree(W[k], u[k], v[k])
    BY <2>2, <2>3
  <2> QED BY <2>4, <2>5 DEF Stands
<1>4. NodeGood(node, W, u, v, known)
  <2> HIDE DEF node, W, u, v, known
  <2> QED BY <1>2, <1>3, NodeExact
<1>5. width \in Nat /\ Agree(width, m, IF width = 0 THEN rb ELSE rv)
  BY <1>4, Zenon DEF NodeGood
<1>6. denote_node(n, env, i, u) = m
  BY DEF denote_node, LeafOps
<1>7. blast_node(n, bits_env(n, env), i, v) = IF node.w = 0 THEN rb ELSE rv
  BY DEF blast_node, LeafOps
<1> DEFINE dn == denote_node(n, env, i, u)
           bn == blast_node(n, bits_env(n, env), i, v)
           w == node.w
<1>8. w = width /\ dn = m /\ bn = IF w = 0 THEN rb ELSE rv
  BY <1>2, <1>6, <1>7
<1> HIDE DEF dn, bn, w, width, m, rb, rv
<1>9. w \in Nat /\ Agree(w, dn, bn)
  BY <1>5, <1>8
<1> QED BY <1>9 DEF w, dn, bn

\* CircuitsExact, for arenas of any length and widths: the circuit that
\* blast_query_with_limits builds for a node (blast.rs, circuits.rs) computes,
\* from the bits of any assignment of the variables, what the node means
\* (BitVectors).
THEOREM BlastExact ==
  ASSUME NEW len \in Nat, NEW n, DOMAIN n = 1 .. len, SortedArena(n), NEW env, Assigns(n, env)
  PROVE  \A i \in DOMAIN n : ExactAt(n, env, i)
<1> DEFINE D == denote(n, env)
           inp == bits_env(n, env)
           B == blast(n, inp)
           T == {m \in 0 .. len : \A i \in 1 .. m : n[i].w \in Nat /\ Agree(n[i].w, D[i], B[i])}
<1>1. Ordered(n)
  BY DEF SortedArena, SortedNode, Ordered
<1>2. \A i \in DOMAIN n : D[i] = denote_node(n, env, i, Operands(D, n[i]))
  <2>1. D = [i \in DOMAIN n |-> denote_node(n, env, i, Operands(D, n[i]))]
    BY <1>1, DenoteIs
  <2> HIDE DEF D
  <2> QED BY <2>1, Zenon
<1>3. \A i \in DOMAIN n : B[i] = blast_node(n, inp, i, Operands(B, n[i]))
  <2>1. B = [i \in DOMAIN n |-> blast_node(n, inp, i, Operands(B, n[i]))]
    BY <1>1, BlastIs
  <2> HIDE DEF B
  <2> QED BY <2>1, Zenon
<1> HIDE DEF D, B
<1>4. 0 \in T
  OBVIOUS
<1>5. ASSUME NEW m \in 1 .. len, m - 1 \in T
      PROVE  m \in T
  <2>1. \A i \in 1 .. m - 1 : n[i].w \in Nat /\ Agree(n[i].w, D[i], B[i])
    BY <1>5
  <2>2. m \in DOMAIN n /\ SortedNode(n, m)
    BY DEF SortedArena
  <2>3. n[m].w \in Nat /\ Agree(n[m].w, D[m], B[m])
    <3>1. CASE n[m].op \in LeafOps
      <4>1. n[m].w \in Nat
            /\ Agree(n[m].w, denote_node(n, env, m, Operands(D, n[m])), blast_node(n, inp, m, Operands(B, n[m])))
        BY <2>2, <3>1, LeafExact
      <4> QED BY <1>2, <1>3, <2>2, <4>1
    <3>2. CASE n[m].op \notin LeafOps
      <4>1. n[m].w \in Nat
            /\ Agree(n[m].w, denote_node(n, env, m, Operands(D, n[m])), blast_node(n, inp, m, Operands(B, n[m])))
        BY <2>1, <2>2, <3>2, InnerExact
      <4> QED BY <1>2, <1>3, <2>2, <4>1
    <3> QED BY <3>1, <3>2
  <2>4. \A i \in 1 .. m : i \in 1 .. m - 1 \/ i = m
    OBVIOUS
  <2> QED BY <2>1, <2>3, <2>4
<1>6. T \subseteq Nat
  OBVIOUS
<1> HIDE DEF T
<1>7. len \in T
  BY <1>4, <1>5, <1>6, Climb
<1>8. \A i \in DOMAIN n : n[i].w \in Nat /\ Agree(n[i].w, D[i], B[i])
  BY <1>7 DEF T
<1>9. ASSUME NEW i \in DOMAIN n PROVE B[i] = as_bits(n[i].w, D[i])
  <2> DEFINE w == n[i].w
             b == B[i]
             d == D[i]
  <2>1. w \in Nat /\ Agree(w, d, b)
    BY <1>8
  <2> HIDE DEF w, b, d
  <2>2. ASSUME w = 0 PROVE b = as_bits(w, d)
    BY <2>1, <2>2 DEF Agree, as_bits
  <2>3. ASSUME w # 0 PROVE b = as_bits(w, d)
    <3>1. b \in Bits(w) /\ d = Number(b)
      BY <2>1, <2>3 DEF Agree
    <3>2. BitsOf(Number(b), w) = b
      BY <2>1, <3>1, BitsOfNumber
    <3> QED BY <2>3, <3>1, <3>2 DEF as_bits
  <2>4. b = as_bits(w, d)
    BY <2>2, <2>3
  <2> QED BY <2>4 DEF w, b, d
<1> QED BY <1>9, Zenon DEF ExactAt, D, B

=============================================================================
