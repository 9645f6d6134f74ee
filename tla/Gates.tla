-------------------------------- MODULE Gates --------------------------------
(***************************************************************************)
(* The gate arena of the bit-blaster (crates/qfbvsmtrs/src/gates.rs) and   *)
(* the encoding of an arena as CNF (cnf.rs).                               *)
(*                                                                         *)
(* A gate is known by its CNF variable, its position in the arena (the     *)
(* code's GateId plus one).  The blaster may call the constructors in any  *)
(* order on any gates it has been given; xnor, implies, and_many and       *)
(* or_many are sequences of such calls.  Bits are 0 and 1.                 *)
(***************************************************************************)
EXTENDS Integers, Sequences

CONSTANTS
  MaxGates,      \* bound: size of the arena
  CheckEvery     \* gates encoded between two looks at the limits (4096)

ASSUME GatesAssumption == MaxGates \in Nat /\ CheckEvery \in Nat \ {0}

False == 1
True == 2
Kinds == {"const", "input", "not", "and", "or", "xor", "mux"}

\* GateKind: operands x, y, z (sel, t, f of a mux), the value of a constant or
\* the number of an input.
Gate(kind, x, y, z) == [kind |-> kind, x |-> x, y |-> y, z |-> z]
GateKind == [kind : Kinds, x : Nat, y : Nat, z : Nat]

VARIABLES
  gates,         \* GateArena.gates
  inputs,        \* GateArena.input_count
  call,          \* the last constructor call: [op, x, y, z, id]
  pc,            \* "build", "encode", "done" or "timeout"
  index,         \* the gate the encoder is at
  clauses,       \* the clauses pushed, each a set of literals
  assertion      \* the gate asserted

vars == <<gates, inputs, call, pc, index, clauses, assertion>>
building == <<pc, index, clauses, assertion>>

-----------------------------------------------------------------------------
\* GateArena: a constructor returns the arena and the gate.

Is(gs, id) == [gates |-> gs, id |-> id]

AddRaw(gs, g) ==
  IF \E i \in DOMAIN gs : gs[i] = g THEN Is(gs, CHOOSE i \in DOMAIN gs : gs[i] = g)
  ELSE Is(Append(gs, g), Len(gs) + 1)

IsNot(gs, a, b) == gs[a] = Gate("not", b, 0, 0)
NegationPair(gs, a, b) == IsNot(gs, a, b) \/ IsNot(gs, b, a)
Low(a, b) == IF a <= b THEN a ELSE b
High(a, b) == IF a <= b THEN b ELSE a

MkNot(gs, x) ==
  IF x = False THEN Is(gs, True)
  ELSE IF x = True THEN Is(gs, False)
  ELSE IF gs[x].kind = "not" THEN Is(gs, gs[x].x)
  ELSE AddRaw(gs, Gate("not", x, 0, 0))

\* Mutant: x and not x fold to true.
MkAndPair(gs, x, y) ==
  LET a == Low(x, y)
      b == High(x, y)
  IN  IF a = False THEN Is(gs, False)
      ELSE IF a = True THEN Is(gs, b)
      ELSE IF a = b THEN Is(gs, a)
      ELSE IF NegationPair(gs, a, b) THEN Is(gs, True)
      ELSE AddRaw(gs, Gate("and", a, b, 0))

MkAnd(gs, x, y) ==
  LET a == Low(x, y)
      b == High(x, y)
  IN  IF a = False \/ b = False THEN Is(gs, False)
      ELSE IF a = True THEN Is(gs, b)
      ELSE IF b = True \/ a = b THEN Is(gs, a)
      ELSE IF NegationPair(gs, a, b) THEN Is(gs, False)
      ELSE AddRaw(gs, Gate("and", a, b, 0))

MkOr(gs, x, y) ==
  LET a == Low(x, y)
      b == High(x, y)
  IN  IF a = True \/ b = True THEN Is(gs, True)
      ELSE IF a = False THEN Is(gs, b)
      ELSE IF b = False \/ a = b THEN Is(gs, a)
      ELSE IF NegationPair(gs, a, b) THEN Is(gs, True)
      ELSE AddRaw(gs, Gate("or", a, b, 0))

MkXor(gs, x, y) ==
  LET a == Low(x, y)
      b == High(x, y)
  IN  IF a = False THEN Is(gs, b)
      ELSE IF b = False THEN Is(gs, a)
      ELSE IF a = b THEN Is(gs, False)
      ELSE IF a = True THEN MkNot(gs, b)
      ELSE IF b = True THEN MkNot(gs, a)
      ELSE AddRaw(gs, Gate("xor", a, b, 0))

MkMux(gs, sel, t, f) ==
  IF sel = True THEN Is(gs, t)
  ELSE IF sel = False THEN Is(gs, f)
  ELSE IF t = f THEN Is(gs, t)
  ELSE IF t = True /\ f = False THEN Is(gs, sel)
  ELSE IF t = False /\ f = True THEN MkNot(gs, sel)
  ELSE AddRaw(gs, Gate("mux", sel, t, f))

-----------------------------------------------------------------------------
Init ==
  /\ gates = <<Gate("const", 0, 0, 0), Gate("const", 1, 0, 0)>>
  /\ inputs = 0
  /\ call = [op |-> "const", x |-> 1, y |-> 0, z |-> 0, id |-> True]
  /\ pc = "build" /\ index = 1 /\ clauses = {} /\ assertion = True

Room == pc = "build" /\ Len(gates) < MaxGates

Input ==
  /\ Room
  /\ LET r == AddRaw(gates, Gate("input", inputs, 0, 0))
     IN  /\ gates' = r.gates
         /\ call' = [op |-> "input", x |-> inputs, y |-> 0, z |-> 0, id |-> r.id]
  /\ inputs' = inputs + 1
  /\ UNCHANGED building

Made(op, x, y, z, result) ==
  /\ gates' = result.gates
  /\ call' = [op |-> op, x |-> x, y |-> y, z |-> z, id |-> result.id]
  /\ UNCHANGED <<inputs, building>>

Not(x) == Room /\ Made("not", x, 0, 0, MkNot(gates, x))
And(x, y) == Room /\ Made("and", x, y, 0, MkAnd(gates, x, y))
Or(x, y) == Room /\ Made("or", x, y, 0, MkOr(gates, x, y))
Xor(x, y) == Room /\ Made("xor", x, y, 0, MkXor(gates, x, y))
Mux(s, t, f) == Room /\ Made("mux", s, t, f, MkMux(gates, s, t, f))

-----------------------------------------------------------------------------
\* encode_with_limits.

\* push_clause drops a clause with a literal and its complement.
Tautology(c) == \E l \in c : -l \in c
Pushed(cs) == {c \in cs : ~Tautology(c)}

\* Mutant: the clause that makes the mux follow its else branch is missing.
GateClausesNoElse(g, gate) ==
  LET a == gate.x
      b == gate.y
      c == gate.z
  IN  CASE gate.kind = "const" -> {{IF gate.x = 1 THEN g ELSE -g}}
        [] gate.kind = "input" -> {}
        [] gate.kind = "not" -> {{g, a}, {-g, -a}}
        [] gate.kind = "and" -> {{-g, a}, {-g, b}, {g, -a, -b}}
        [] gate.kind = "or" -> {{g, -a}, {g, -b}, {-g, a, b}}
        [] gate.kind = "xor" -> {{-a, -b, -g}, {-a, b, g}, {a, -b, g}, {a, b, -g}}
        [] gate.kind = "mux" -> {{-a, -b, g}, {-a, b, -g}, {a, -c, g}}

GateClauses(g, gate) ==
  LET a == gate.x
      b == gate.y
      c == gate.z
  IN  CASE gate.kind = "const" -> {{IF gate.x = 1 THEN g ELSE -g}}
        [] gate.kind = "input" -> {}
        [] gate.kind = "not" -> {{g, a}, {-g, -a}}
        [] gate.kind = "and" -> {{-g, a}, {-g, b}, {g, -a, -b}}
        [] gate.kind = "or" -> {{g, -a}, {g, -b}, {-g, a, b}}
        [] gate.kind = "xor" -> {{-a, -b, -g}, {-a, b, g}, {a, -b, g}, {a, b, -g}}
        [] gate.kind = "mux" -> {{-a, -b, g}, {-a, b, -g}, {a, -c, g}, {a, c, -g}}

Encode(g) ==
  /\ pc = "build" /\ g \in DOMAIN gates
  /\ pc' = "encode" /\ assertion' = g
  /\ UNCHANGED <<gates, inputs, call, index, clauses>>

EncodeGate ==
  /\ pc = "encode" /\ index <= Len(gates)
  /\ clauses' = clauses \cup Pushed(GateClauses(index, gates[index]))
  /\ index' = index + 1
  /\ UNCHANGED <<gates, inputs, call, pc, assertion>>

\* check_limits finds the deadline passed or the token set.
Timeout ==
  /\ pc = "encode" /\ index <= Len(gates) /\ (index - 1) % CheckEvery = 0
  /\ pc' = "timeout"
  /\ UNCHANGED <<gates, inputs, call, index, clauses, assertion>>

EncodeDone ==
  /\ pc = "encode" /\ index > Len(gates)
  /\ clauses' = clauses \cup Pushed({{assertion}})
  /\ pc' = "done"
  /\ UNCHANGED <<gates, inputs, call, index, assertion>>

Over == pc \in {"done", "timeout"} /\ UNCHANGED vars

Next ==
  \/ Input
  \/ \E x, y \in DOMAIN gates : And(x, y) \/ Or(x, y) \/ Xor(x, y)
  \/ \E x \in DOMAIN gates : Not(x) \/ Encode(x)
  \/ \E s, t, f \in DOMAIN gates : Mux(s, t, f)
  \/ EncodeGate \/ Timeout \/ EncodeDone
  \/ Over

Spec == Init /\ [][Next]_vars

-----------------------------------------------------------------------------
\* What gates and clauses mean.

Bit == {0, 1}

\* The value a gate computes from the values of its operands.
GateValue(gate, val) ==
  CASE gate.kind = "const" -> gate.x
    [] gate.kind = "not" -> 1 - val[gate.x]
    [] gate.kind = "and" -> IF val[gate.x] = 1 /\ val[gate.y] = 1 THEN 1 ELSE 0
    [] gate.kind = "or" -> IF val[gate.x] = 1 \/ val[gate.y] = 1 THEN 1 ELSE 0
    [] gate.kind = "xor" -> IF val[gate.x] # val[gate.y] THEN 1 ELSE 0
    [] gate.kind = "mux" -> IF val[gate.x] = 1 THEN val[gate.y] ELSE val[gate.z]

\* Every gate but the inputs has the value it computes.
Correct(gs, val, i) == gs[i].kind = "input" \/ val[i] = GateValue(gs[i], val)
Consistent(gs, val) == \A i \in DOMAIN gs : Correct(gs, val, i)

True1(val, l) == IF l > 0 THEN val[l] = 1 ELSE val[-l] = 0
SatisfiesAll(cs, val) == \A c \in cs : \E l \in c : True1(val, l)

-----------------------------------------------------------------------------
\* Properties.

\* Every variable has its type.
TypeOK ==
  /\ gates \in Seq(GateKind) /\ inputs \in Nat
  /\ call \in [op : Kinds, x : Nat, y : Nat, z : Nat, id : DOMAIN gates]
  /\ pc \in {"build", "encode", "done", "timeout"}
  /\ index \in 1..(Len(gates) + 1)
  /\ clauses \subseteq SUBSET Int /\ assertion \in DOMAIN gates

\* Hash consing: no gate is built twice, whatever the order of the calls.
NoDuplicates == \A i, j \in DOMAIN gates : gates[i] = gates[j] => i = j

\* In every valuation of the arena, the gate id has the value of `gate'.
Means(gs, id, gate) ==
  \A val \in [DOMAIN gs -> Bit] : Consistent(gs, val) => val[id] = GateValue(gate, val)

\* The gate a constructor returns has the value of the operation that was asked
\* for, in every valuation of the arena: folding of constants, of equal operands,
\* of negations and the reuse of old gates never change the function.
CallMeans ==
  call.op # "input" => Means(gates, call.id, Gate(call.op, call.x, call.y, call.z))

\* The finished CNF is satisfied by exactly the valuations of the circuit that
\* make the asserted gate true: nothing is lost with a dropped clause and nothing
\* else is let in.
EncodingExact ==
  pc = "done" =>
    \A val \in [DOMAIN gates -> Bit] :
      SatisfiesAll(clauses, val) <=> Consistent(gates, val) /\ val[assertion] = 1

-----------------------------------------------------------------------------
\* The inductive invariant.

\* Operands of a gate are in S.
OperandsIn(gate, S) ==
  /\ gate.kind \in {"not", "and", "or", "xor", "mux"} => gate.x \in S
  /\ gate.kind \in {"and", "or", "xor", "mux"} => gate.y \in S
  /\ gate.kind = "mux" => gate.z \in S

\* The constants come first, every gate after its operands, inputs are numbered
\* below the counter, no gate occurs twice.
Arena(gs, n) ==
  /\ gs \in Seq(GateKind) /\ Len(gs) >= 2
  /\ gs[1] = Gate("const", 0, 0, 0) /\ gs[2] = Gate("const", 1, 0, 0)
  /\ \A i \in DOMAIN gs : gs[i].kind = "const" => gs[i].x \in Bit
  /\ \A i \in DOMAIN gs : OperandsIn(gs[i], 1..(i - 1))
  /\ \A i \in DOMAIN gs : gs[i].kind = "not" => gs[i].y = 0 /\ gs[i].z = 0
  /\ \A i \in DOMAIN gs : gs[i].kind = "input" => gs[i].x < n
  /\ \A i, j \in DOMAIN gs : gs[i] = gs[j] => i = j

\* What has been encoded so far.
CorrectBefore(gs, val, n) == \A i \in DOMAIN gs : i < n => Correct(gs, val, i)
EncodedInv ==
  /\ pc = "build" => index = 1 /\ clauses = {}
  /\ pc = "encode" =>
       \A val \in [DOMAIN gates -> Bit] :
         SatisfiesAll(clauses, val) <=> CorrectBefore(gates, val, index)

GatesInv == TypeOK /\ Arena(gates, inputs) /\ CallMeans /\ EncodedInv /\ EncodingExact
=============================================================================
