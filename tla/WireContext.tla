----------------------------- MODULE WireContext -----------------------------
(***************************************************************************)
(* The Context of the Rust client of smt-wire (api.rs Context and Term): a *)
(* user builds terms with the operations of the builder, states what a     *)
(* query asks, and goes on whatever fails.  A term is a Context and a      *)
(* reference, and outlives Context::reset: the reference then names no     *)
(* node, or another one.  A term of another Context is always refused and  *)
(* left out.                                                               *)
(***************************************************************************)
EXTENDS WireBuilder

CONSTANTS Seeds,       \* [b, ops, calls, rounds]: the Context a user starts with, the
                       \* operations it goes on to call and how often, and its requests
          Names,       \* names of variables and assertions, as bytes
          MaxAmount    \* bound: extensions and rotations

VARIABLES b,          \* ContextInner::builder
          kept,       \* references of terms the user has from before a reset
          ops, calls, \* the operations this user calls, and how many are left
          last        \* the last Context operation: [op, args, par, ref]

contextVars == <<b, kept, ops, calls, last>>

NoOp == [op |-> "none", args |-> <<>>, par |-> <<>>, ref |-> None]

ContextInit == /\ \E s \in Seeds : b = s.b /\ ops = s.ops /\ calls = s.calls
               /\ kept = {} /\ last = NoOp

\* Context::from_expression_bytes: the last node of a symbol is the one a later
\* declaration finds.
from_expression_bytes(expr) ==
  LET variable_at == {i \in DOMAIN expr.nodes : expr.nodes[i].tag \in VarTags}
      name(i) == blob_ref(expr, expr.nodes[i].payload)
  IN  [NewBuilder EXCEPT
         !.nodes = expr.nodes, !.children = expr.children, !.blob = expr.blob,
         !.symbols = {[name |-> name(i), width |-> expr.nodes[i].width] : i \in variable_at},
         !.vars = {[name |-> name(i), width |-> expr.nodes[i].width,
                    ref |-> NodeRef(result_sort(expr.nodes[i].tag), i - 1)]
                   : i \in {j \in variable_at : \A k \in variable_at : name(k) = name(j) => k <= j}}]

\* The terms a user has, as their references: a BvTerm or a BoolTerm by its sort.
Handles == {NodeRef(result_sort(b.nodes[i].tag), i - 1) : i \in DOMAIN b.nodes} \cup kept
Bvs     == {ref \in Handles : SortOf(ref) = "bv"}
Bools   == {ref \in Handles : SortOf(ref) = "bool"}

\* An operand is a term or an integer: a u64, or an i64 cast to one.
TermArg(ref) == [kind |-> "term", ref |-> ref]
IntArg(v)    == [kind |-> "int", v |-> v]
Integers64   == -(2 ^ (WordBits - 1)) .. 2 ^ WordBits - 1
Operands     == {TermArg(ref) : ref \in Bvs} \cup {IntArg(v) : v \in Integers64}

coerce_bv_operand(c, x, width) ==
  IF x.kind = "int" THEN bv_const(c, x.v % 2 ^ WordBits, width)
  ELSE Checked(expect_bv(c, x.ref) /\ WidthOf(c, x.ref) = width, c, Done(c, x.ref))

\* a op b, where b may be an integer that becomes a constant of a's width.
context_binary(c, a, x, F(_, _, _)) ==
  IF ~ expect_bv(c, a) THEN Fail(c)
  ELSE Then(coerce_bv_operand(c, x, WidthOf(c, a)), LAMBDA d, ref : F(d, a, ref))

context_bool_eq(c, x, y) ==
  Then(bool_binary(c, "BoolAnd", x, y), LAMBDA b1, bothTrue :
  Then(bool_not(b1, x), LAMBDA b2, notX :
  Then(bool_not(b2, y), LAMBDA b3, notY :
  Then(bool_binary(b3, "BoolAnd", notX, notY), LAMBDA b4, bothFalse :
       bool_binary(b4, "BoolOr", bothTrue, bothFalse)))))

Call(op, args, par, r) ==
  /\ op \in ops /\ calls > 0
  /\ b' = r.b /\ calls' = calls - 1
  /\ last' = [op |-> op, args |-> args, par |-> par, ref |-> r.ref]
  /\ UNCHANGED ops
Op(op, args, par, r) == Call(op, args, par, r) /\ UNCHANGED kept

Declare == \E name \in Names, width \in 0 .. MaxBvWidth + 1 :
  Op("Declare", <<>>, <<name, width>>,
     IF width = 0 THEN bool_var(b, name) ELSE bv_var(b, name, width))

Constant == \E v \in Integers64, width \in 0 .. MaxBvWidth + 1 :
  Op("Constant", <<>>, <<v, width>>, bv_const(b, v % 2 ^ WordBits, width))

ConstantWide == \E bytes \in UNION {[1 .. k -> {0, Base - 1}] : k \in 1 .. NumBytes(MaxBvWidth)},
                   width \in 1 .. MaxBvWidth :
  Op("ConstantWide", <<>>, <<Value(bytes), width, Len(bytes)>>, bv_const_wide(b, bytes, width))

Truth == \E value \in BOOLEAN : Op("Truth", <<>>, <<value>>, bool_const(b, value))

Unary == \E x \in Bvs :
  \/ \E op \in UnaryTags : Op(op, <<TermArg(x)>>, <<>>, bv_unary(b, op, x))
  \/ Op("NegOverflow", <<TermArg(x)>>, <<>>, neg_ovf(b, x))

Negation == \E x \in Bools : Op("BoolNot", <<TermArg(x)>>, <<>>, bool_not(b, x))

Reversed == [BvUgt |-> "BvUlt", BvUge |-> "BvUle", BvSgt |-> "BvSlt", BvSge |-> "BvSle"]

Arithmetic == \E op \in BinaryTags, a \in Bvs, x \in Operands :
  Op(op, <<TermArg(a), x>>, <<>>, context_binary(b, a, x, LAMBDA c, p, q : bv_binary(c, op, p, q)))

Compare == \E a \in Bvs, x \in Operands :
  \/ \E op \in ComparisonTags :
       Op(op, <<TermArg(a), x>>, <<>>, context_binary(b, a, x, LAMBDA c, p, q : bv_comparison(c, op, p, q)))
  \/ \E op \in DOMAIN Reversed :
       Op(op, <<TermArg(a), x>>, <<>>, context_binary(b, a, x, LAMBDA c, p, q : bv_comparison(c, Reversed[op], q, p)))
  \/ Op("BvNe", <<TermArg(a), x>>, <<>>, context_binary(b, a, x, LAMBDA c, p, q : bv_ne(c, p, q)))

Overflows == \E op \in OverflowTags, a \in Bvs, x \in Operands :
  Op(op, <<TermArg(a), x>>, <<>>, context_binary(b, a, x, LAMBDA c, p, q : bv_comparison(c, op, p, q)))

BoolBinary == \E x \in Bools, y \in Bools :
  \/ \E op \in BoolPairs : Op(op, <<TermArg(x), TermArg(y)>>, <<>>, bool_binary(b, op, x, y))
  \/ Op("BoolEq", <<TermArg(x), TermArg(y)>>, <<>>, context_bool_eq(b, x, y))

\* ExprBuilder::bool_xor has no counterpart in Context: a user of the builder itself.
Xor == \E x \in Bools, y \in Bools : Op("BoolXor", <<TermArg(x), TermArg(y)>>, <<>>, bool_xor(b, x, y))

Extract == \E x \in Bvs, hi \in 0 .. MaxBvWidth, lo \in 0 .. MaxBvWidth :
  Op("BvExtract", <<TermArg(x)>>, <<hi, lo>>, bv_extract(b, x, hi, lo))

Concat == \E x \in Bvs, y \in Bvs :
  Op("BvConcat", <<TermArg(x), TermArg(y)>>, <<>>, bv_concat(b, x, y))

Amount == \E x \in Bvs, k \in 0 .. MaxAmount :
  \/ \E op \in ExtendTags : Op(op, <<TermArg(x)>>, <<k>>, bv_extend(b, op, x, k))
  \/ Op("BvRotateLeft", <<TermArg(x)>>, <<k>>, bv_rotate_left(b, x, k))
  \/ Op("BvRotateRight", <<TermArg(x)>>, <<k>>, bv_rotate_right(b, x, k))

\* Context::ite, bv_ite and bool_ite; branches of different sorts are refused.
Ite == \E cond \in Bools, x \in Bvs \cup Bools, y \in Bvs \cup Bools :
  Op("BvIte", <<TermArg(cond), TermArg(x), TermArg(y)>>, <<>>,
     IF SortOf(x) # SortOf(y) THEN Fail(b)
     ELSE IF SortOf(x) = "bv" THEN bv_ite(b, cond, x, y) ELSE bool_ite(b, cond, x, y))

Select == \E s1 \in Bools, s2 \in Bools, x \in Bvs, y \in Bvs, d \in Bvs, pairs \in 0 .. 2 :
  Op("BvSelect", SubSeq(<<TermArg(s1), TermArg(x), TermArg(s2), TermArg(y)>>, 1, 2 * pairs) \o <<TermArg(d)>>,
     <<pairs>>, bv_select(b, SubSeq(<<s1, s2>>, 1, pairs), SubSeq(<<x, y>>, 1, pairs), d))

\* What a query is made of.  par is the number of assertions a mutex asks for.
AssertTerm  == \E root \in Bools : Op("Assert", <<TermArg(root)>>, <<>>, assert(b, root))
AssertNamed == \E root \in Bools, name \in Names :
                 Op("AssertNamed", <<TermArg(root)>>, <<name>>, assert_named(b, name, root))
AssertMutex == \E x \in Bools, y \in Bools, z \in Bools :
                 Op("AssertMutex", <<TermArg(x), TermArg(y), TermArg(z)>>, <<>>, assert_mutex(b, <<x, y, z>>))
Assume      == \E root \in Bools : Op("Assume", <<TermArg(root)>>, <<>>, assume(b, root))
ClearAssumptions == Op("ClearAssumptions", <<>>, <<>>, Done([b EXCEPT !.assumptions = <<>>], 0))
Push  == Op("Push", <<>>, <<>>, Done(push(b), 0))
Pop   == Op("Pop", <<>>, <<>>, Checked(b.scopes # <<>>, b, Done(pop(b), 0)))
Reset == Call("Reset", <<>>, <<>>, Done(NewBuilder, 0)) /\ kept' = Handles

ContextNext ==
  \/ Declare \/ Constant \/ ConstantWide \/ Truth \/ Unary \/ Negation \/ Arithmetic \/ Compare \/ Overflows
  \/ BoolBinary \/ Xor \/ Extract \/ Concat \/ Amount \/ Ite \/ Select
  \/ AssertTerm \/ AssertNamed \/ AssertMutex \/ Assume \/ ClearAssumptions \/ Push \/ Pop \/ Reset

ContextSpec == ContextInit /\ [][ContextNext]_contextVars

------------------------------------------------------------------------------
\* The eager checks of the builder suffice: whatever a user calls, in whatever
\* order, and whichever calls fail half way or meet a limit, the buffer passes
\* the server's validation and the query refers to what is in it.
BufferValid ==
  /\ validate(b)
  /\ \A k \in DOMAIN b.assertions : expect_bool(b, b.assertions[k].root)
  /\ \A k \in DOMAIN b.assumptions : expect_bool(b, b.assumptions[k])
  /\ \A k \in DOMAIN b.scopes : b.scopes[k] <= Len(b.assertions)
  /\ \A v \in b.vars : NodeAt(b, v.ref).width = v.width /\ blob_ref(b, NodeAt(b, v.ref).payload) = v.name

------------------------------------------------------------------------------
\* The inductive invariant.  The parts of a builder; of the nodes' fields, those
\* that say where something is.
IsTable(s) == s \in Seq({s[i] : i \in DOMAIN s})
TablesInv(c) ==
  /\ c = [nodes |-> c.nodes, children |-> c.children, blob |-> c.blob, assertions |-> c.assertions,
          assumptions |-> c.assumptions, scopes |-> c.scopes, symbols |-> c.symbols, vars |-> c.vars]
  /\ IsTable(c.nodes) /\ IsTable(c.children) /\ IsTable(c.blob)
  /\ IsTable(c.assertions) /\ IsTable(c.assumptions) /\ c.scopes \in Seq(Nat)
  /\ \A i \in DOMAIN c.nodes :
       /\ c.nodes[i].arity \in Nat /\ c.nodes[i].children \in Nat
       /\ (c.nodes[i].tag \in VarTags \/ (c.nodes[i].tag = "BvConst" /\ c.nodes[i].width > WordBits)) =>
            c.nodes[i].payload \in Nat

\* Every node passes the two passes of the validation.
NodesInv(c) ==
  /\ Len(c.nodes) <= SortBit
  /\ \A i \in DOMAIN c.nodes : validate_header(c, c.nodes[i]) /\ validate_operands(c, i)

\* The builder's maps know every variable, and nothing that is not one.
SymbolsInv(c) ==
  /\ \A i \in DOMAIN c.nodes : c.nodes[i].tag \in VarTags =>
       [name |-> blob_ref(c, c.nodes[i].payload), width |-> c.nodes[i].width] \in c.symbols
  /\ \A s, t \in c.symbols : s.name = t.name => s.width = t.width
  /\ \A v \in c.vars :
       /\ Index(v.ref) + 1 \in DOMAIN c.nodes /\ NodeAt(c, v.ref).tag \in VarTags
       /\ NodeAt(c, v.ref).width = v.width /\ blob_ref(c, NodeAt(c, v.ref).payload) = v.name

\* An assertion is a Boolean of the buffer, and its name a text of the blob.  The
\* scopes are the lengths the assertions had, in that order.
AssertionInv(c, a) == /\ expect_bool(c, a.root)
                      /\ a.name # None => a.name \in Nat /\ HasText(c, a.name)
QueryInv(c) ==
  /\ \A k \in DOMAIN c.assertions : AssertionInv(c, c.assertions[k])
  /\ \A k \in DOMAIN c.assumptions : expect_bool(c, c.assumptions[k])
  /\ \A k \in DOMAIN c.scopes : c.scopes[k] <= Len(c.assertions)
  /\ \A j, k \in DOMAIN c.scopes : j <= k => c.scopes[j] <= c.scopes[k]

BuilderInv(c) == TablesInv(c) /\ NodesInv(c) /\ SymbolsInv(c) /\ QueryInv(c)

\* A name is a &str; a user starts with a builder that has been made by the
\* operations above or from expression bytes that were validated.
ASSUME ContextAssumption ==
  /\ \A name \in Names : IsTable(name) /\ IsText(name)
  /\ \A s \in Seeds : BuilderInv(s.b)
==============================================================================
