------------------------------- MODULE Scripts -------------------------------
(***************************************************************************)
(* The SMT-LIB reader (smt-qfbv-smtlib lib.rs ScriptLowerer) on the query  *)
(* builder of qfbvsmtrs (frontend.rs).  It reads a script one command at a *)
(* time: declarations and definitions go into its tables, terms are        *)
(* lowered at once, definitions with parameters are macros that are        *)
(* expanded where they are applied.  A script gives one query, whatever    *)
(* its commands; an error anywhere discards it.  A script here is parsed   *)
(* already: its terms are the records below.                               *)
(***************************************************************************)
EXTENDS Queries

CONSTANTS ScriptSeeds,   \* [options, commands]: the reader's options, and the commands
                         \* a script may have at each position
          MaxExpansion   \* FrontendOptions::max_macro_expansion_depth

VARIABLES options,           \* "server_text" or "standalone"
          commands,          \* the commands this script may have: a set for each position
          script,            \* the commands read so far
          env,               \* ScriptLowerer::env: name -> [id, w]
          declared_symbols,  \* ScriptLowerer::declared_symbols
          functions,         \* ScriptLowerer::functions: name -> [params, w, body]
          want,              \* want_model and want_core, as a set
          get_values,        \* ScriptLowerer::get_values
          saw_check_sat,
          status             \* of the reader: "off", "reading", "failed" or "read"

readerVars == <<options, commands, script, env, declared_symbols, functions,
                want, get_values, saw_check_sat, status>>

\* Terms of a script.  An operator is applied to terms; an indexed one also has
\* numbers; digits come with the most significant first.
Symbol(name)             == [form |-> "symbol", name |-> name]
Literal(radix, ds, w)    == [form |-> "literal", radix |-> radix, digits |-> ds, width |-> w]
Truth(value)             == [form |-> "truth", value |-> value]
Apply(op, args)          == [form |-> "apply", op |-> op, args |-> args]
Indexed(op, par, arg)    == [form |-> "indexed", op |-> op, par |-> par, arg |-> arg]
LetIn(bindings, body)    == [form |-> "let", bindings |-> bindings, body |-> body]
Annotated(term)          == [form |-> "annotated", term |-> term]

NoBindings == [name \in {} |-> <<>>]

------------------------------------------------------------------------------
(* Lowering a term.                                                        *)

\* LoweredExpr: the node, with the sort the reader keeps for it.  id = None is
\* an error, which ends the script.
Lowered(n, id, w) == [n |-> n, id |-> id, w |-> w]
Refused(n)        == Lowered(n, None, 0)
Typed(r, w)       == Lowered(r.n, r.id, w)
After(r, F(_))    == IF r.id = None THEN Refused(r.n) ELSE F(r)
Expect(ok, n, r)  == IF ok THEN r ELSE Refused(n)

UnarySink    == [bvnot |-> "BvNot", bvneg |-> "BvNeg"]
FoldSink     == [bvand |-> "BvAnd", bvor |-> "BvOr", bvxor |-> "BvXor", bvadd |-> "BvAdd", bvmul |-> "BvMul"]
InvertedSink == [bvnand |-> "BvAnd", bvnor |-> "BvOr", bvxnor |-> "BvXor"]
BinarySink   == [bvsub |-> "BvSub", bvudiv |-> "BvUDiv", bvurem |-> "BvURem", bvsdiv |-> "BvSDiv",
                 bvsrem |-> "BvSRem", bvsmod |-> "BvSMod", bvshl |-> "BvShl", bvlshr |-> "BvLShr", bvashr |-> "BvAShr"]
CompareSink  == [bvult |-> "BvUlt", bvule |-> "BvUle", bvslt |-> "BvSlt", bvsle |-> "BvSle",
                 bvuaddo |-> "UAddOverflow", bvsaddo |-> "SAddOverflow", bvusubo |-> "USubOverflow",
                 bvssubo |-> "SSubOverflow", bvumulo |-> "UMulOverflow", bvsmulo |-> "SMulOverflow",
                 bvsdivo |-> "SDivOverflow"]
SwappedSink  == [bvugt |-> "BvUlt", bvuge |-> "BvUle", bvsgt |-> "BvSlt", bvsge |-> "BvSle"]
BoolSink     == [implies |-> "BoolImplies", xor |-> "BoolXor"]
IndexedSink  == [extract |-> "BvExtract", zero_extend |-> "BvZeroExtend", sign_extend |-> "BvSignExtend", repeat |-> "BvRepeat",
                 rotate_left |-> "BvRotateLeft", rotate_right |-> "BvRotateRight"]

\* decimal_to_le_bytes: long division by the base of a byte, as many times as
\* there are bytes.
DivideDigits(ds) ==
  FoldLeft(LAMBDA acc, d : LET v == acc.carry * 10 + d
                               q == v \div Base
                           IN  [carry |-> v % Base,
                                quotient |-> IF acc.quotient # <<>> \/ q # 0 THEN Append(acc.quotient, q)
                                             ELSE <<>>],
           [carry |-> 0, quotient |-> <<>>], ds)

decimal_to_le_bytes(ds, len) ==
  FoldLeft(LAMBDA acc, k : LET step == DivideDigits(acc.digits)
                           IN  [digits |-> step.quotient,
                                bytes  |-> Append(acc.bytes, IF acc.digits = <<>> THEN 0 ELSE step.carry)],
           [digits |-> ds, bytes |-> <<>>], [k \in 1 .. len |-> k]).bytes

\* literal_bytes: a digit of #b is a bit, a digit of #x four.
literal_bytes(ds, bitsPerDigit, w) ==
  SetBits(Zeros(w), {bit \in 0 .. w - 1 :
                       BitOf(ds[Len(ds) - bit \div bitsPerDigit], bit % bitsPerDigit) = 1})

\* (_ bvN w), #b... and #x...; the width of the last two is their length.
literal(n, t) ==
  LET bitsPerDigit == IF t.radix = 2 THEN 1 ELSE 4
      w == IF t.radix = 10 THEN t.width ELSE Len(t.digits) * bitsPerDigit
  IN  Expect(ValidWidth(w) /\ t.digits # <<>> /\ \A k \in DOMAIN t.digits : t.digits[k] < t.radix, n,
             Typed(bv_const_bytes(n, IF t.radix = 10
                                     THEN mask_unused_high_bits(decimal_to_le_bytes(t.digits, NumBytes(w)), w)
                                     ELSE mask_unused_high_bits(literal_bytes(t.digits, bitsPerDigit, w), w), w), w))

\* g is the reader's tables, locals the names bound around the term and depth
\* how many macros it is in.
RECURSIVE expr_with_locals(_, _, _, _, _)

atom_expr(g, n, name, locals) ==
  CASE name \in DOMAIN locals -> Lowered(n, locals[name].id, locals[name].w)
    [] name \notin DOMAIN locals /\ name \in DOMAIN g.env -> Lowered(n, g.env[name].id, g.env[name].w)
    [] OTHER -> Refused(n)

\* The operands from left to right, F after each, the value so far in a.
FoldArgs(g, first, rest, locals, depth, F(_, _)) ==
  FoldLeft(LAMBDA acc, t : After(acc, LAMBDA a : After(expr_with_locals(g, a.n, t, locals, depth),
                                                       LAMBDA x : F(a, x))),
           first, rest)

Collect(acc, x) == [n |-> x.n, ok |-> x.id # None, xs |-> Append(acc.xs, [id |-> x.id, w |-> x.w])]
LowerAll(g, n, ts, locals, depth) ==
  FoldLeft(LAMBDA acc, t : IF ~ acc.ok THEN acc ELSE Collect(acc, expr_with_locals(g, acc.n, t, locals, depth)),
           [n |-> n, ok |-> TRUE, xs |-> <<>>], ts)

equality_node(n, a, x) ==
  IF a.w = x.w THEN Typed(build(n, IF a.w = 0 THEN "BoolEq" ELSE "BvEq", <<a.id, x.id>>, <<>>), 0)
  ELSE Refused(n)

\* fold_bool and fold_bv: an operator of one sort (w = 0 is Bool) over the
\* operands; a Boolean one has an identity for no operands.
FoldSort(a, x, op, isBool) ==
  Expect((x.w = 0) = isBool /\ a.w = x.w, x.n, Typed(build(x.n, op, <<a.id, x.id>>, <<>>), a.w))
fold_expr(g, n, ts, locals, depth, op, isBool) ==
  IF ts = <<>> THEN IF isBool THEN Typed(bool_const(n, op = "BoolAnd"), 0) ELSE Refused(n)
  ELSE After(expr_with_locals(g, n, ts[1], locals, depth), LAMBDA first :
         Expect((first.w = 0) = isBool, first.n,
                FoldArgs(g, first, Tail(ts), locals, depth, LAMBDA a, x : FoldSort(a, x, op, isBool))))

\* Each operand equals the one before it.
Conjoined(both, x) == [n |-> both.n, id |-> both.id, w |-> 0, previous |-> x]
EqualsPrevious(a, x) ==
  After(equality_node(x.n, a.previous, x), LAMBDA eq : Conjoined(bool_and(eq.n, a.id, eq.id), x))
equals_rest(g, start, first, rest, locals, depth) ==
  FoldArgs(g, [n |-> first.n, id |-> start.id, w |-> 0, previous |-> first], rest, locals, depth, EqualsPrevious)
equals_from(g, start, ts, locals, depth) ==
  After(expr_with_locals(g, start.n, ts[1], locals, depth),
        LAMBDA first : equals_rest(g, start, first, Tail(ts), locals, depth))
equals(g, n, ts, locals, depth) ==
  IF Len(ts) < 2 THEN Refused(n) ELSE equals_from(g, bool_const(n, TRUE), ts, locals, depth)

\* No two operands are equal.
Pairs(m) == SelectSeq([k \in 1 .. m * m |-> <<((k - 1) \div m) + 1, ((k - 1) % m) + 1>>], LAMBDA p : p[1] < p[2])
NotBoth(ne, a) == Typed(bool_and(ne.n, a.id, ne.id), 0)
distinct(n, all) ==
  IF Len(all.xs) < 2 \/ ~ all.ok THEN Refused(n)
  ELSE FoldLeft(LAMBDA acc, p : After(acc, LAMBDA a :
                  After(equality_node(a.n, all.xs[p[1]], all.xs[p[2]]), LAMBDA eq :
                    NotBoth(bool_not(eq.n, eq.id), a))),
                Typed(bool_const(all.n, TRUE), 0), Pairs(Len(all.xs)))

\* ite_expr, unary_bool, unary_bv, binary_bool, binary_bv, cmp, overflow and
\* concat: the number of operands, their sorts, and the sort of the result.
Shape(sink, arity, sorts, result) == [sink |-> sink, arity |-> arity, sorts |-> sorts, result |-> result]
SortsFit(sorts, xs) ==
  CASE sorts = "bool"    -> \A k \in DOMAIN xs : xs[k].w = 0
    [] sorts = "bv"      -> \A k \in DOMAIN xs : xs[k].w > 0
    [] sorts = "same bv" -> \A k \in DOMAIN xs : xs[k].w > 0 /\ xs[k].w = xs[1].w
    [] sorts = "ite"     -> xs[1].w = 0 /\ xs[2].w = xs[3].w
ResultSort(result, xs) ==
  CASE result = "bool" -> 0
    [] result = "same" -> Last(xs).w
    [] result = "sum"  -> xs[1].w + xs[2].w
SinkOf(shape, xs) == IF shape.sink # "Ite" THEN shape.sink ELSE IF xs[2].w = 0 THEN "BoolIte" ELSE "BvIte"

\* bvugt and its like are the converse comparisons.
Ordered(op, xs) == IF op \in DOMAIN SwappedSink THEN <<xs[2], xs[1]>> ELSE xs
Sink(shape, n, xs) ==
  Expect(SortsFit(shape.sorts, xs), n,
         Typed(build(n, SinkOf(shape, xs), [k \in DOMAIN xs |-> xs[k].id], <<>>), ResultSort(shape.result, xs)))
fixed_op(n, op, shape, all) ==
  IF Len(all.xs) # shape.arity \/ ~ all.ok THEN Refused(n) ELSE Sink(shape, all.n, Ordered(op, all.xs))

FixedShape(op) ==
  CASE op = "ite"    -> Shape("Ite", 3, "ite", "same")
    [] op = "not"    -> Shape("BoolNot", 1, "bool", "bool")
    [] op = "bvnego" -> Shape("NegOverflow", 1, "bv", "bool")
    [] op = "concat" -> Shape("BvConcat", 2, "bv", "sum")
    [] op = "bvcomp" -> Shape("BvEq", 2, "same bv", "bool")
    [] op \in DOMAIN BoolSink    -> Shape(BoolSink[op], 2, "bool", "bool")
    [] op \in DOMAIN UnarySink   -> Shape(UnarySink[op], 1, "bv", "same")
    [] op \in DOMAIN BinarySink  -> Shape(BinarySink[op], 2, "same bv", "same")
    [] op \in DOMAIN CompareSink -> Shape(CompareSink[op], 2, "same bv", "bool")
    [] op \in DOMAIN SwappedSink -> Shape(SwappedSink[op], 2, "same bv", "bool")
FixedOps == {"ite", "not", "bvnego", "concat", "bvcomp"} \cup DOMAIN BoolSink \cup DOMAIN UnarySink
            \cup DOMAIN BinarySink \cup DOMAIN CompareSink \cup DOMAIN SwappedSink

\* bvcomp chooses between the bits one and zero.
OneBit(eq, one, none) == Typed(bv_ite(none.n, eq.id, one.id, none.id), 1)
ThenZero(eq, one) == OneBit(eq, one, bv_const(one.n, 0, 1))
bvcomp(eq) == After(eq, LAMBDA r : ThenZero(r, bv_const(r.n, 1, 1)))

indexed_op(g, n, t, locals, depth) ==
  After(expr_with_locals(g, n, t.arg, locals, depth), LAMBDA x :
    Expect(/\ x.w > 0 /\ t.op \in DOMAIN IndexedSink
           /\ t.op = "extract" => t.par[2] <= t.par[1]
           /\ t.op = "repeat" => t.par[1] > 0, x.n,
           Typed(build(x.n, IndexedSink[t.op], <<x.id>>, t.par),
                 CASE t.op = "extract" -> t.par[1] - t.par[2] + 1
                   [] t.op \in {"zero_extend", "sign_extend"} -> x.w + t.par[1]
                   [] t.op = "repeat" -> x.w * t.par[1]
                   [] OTHER -> x.w)))

\* The names of a sequence of binders with the values given for them.
NamesOf(binders) == [k \in DOMAIN binders |-> binders[k].name]
Bound(binders, xs) ==
  [name \in {binders[k].name : k \in DOMAIN binders} |->
     xs[CHOOSE k \in DOMAIN binders : binders[k].name = name]]

\* Mutant of let_expr: a binding sees the ones before it.
let_in_turn(g, n, t, locals, depth) ==
  LET all == FoldLeft(LAMBDA acc, binding :
               IF ~ acc.ok THEN acc
               ELSE LET x == expr_with_locals(g, acc.n, binding.term, acc.locals, depth)
                    IN  [n |-> x.n, ok |-> x.id # None,
                         locals |-> (binding.name :> [id |-> x.id, w |-> x.w]) @@ acc.locals],
               [n |-> n, ok |-> IsInjective(NamesOf(t.bindings)), locals |-> locals], t.bindings)
  IN  IF ~ all.ok THEN Refused(n) ELSE expr_with_locals(g, all.n, t.body, all.locals, depth)

\* The values are all lowered outside the names they are bound to.
LetBody(g, n, t, all, locals, depth) ==
  IF ~ all.ok THEN Refused(n)
  ELSE expr_with_locals(g, all.n, t.body, Bound(t.bindings, all.xs) @@ locals, depth)
let_expr(g, n, t, locals, depth) ==
  IF ~ IsInjective(NamesOf(t.bindings)) THEN Refused(n)
  ELSE LetBody(g, n, t, LowerAll(g, n, [k \in DOMAIN t.bindings |-> t.bindings[k].term], locals, depth),
               locals, depth)

\* A macro: the body sees its parameters and what is global now, not the names
\* around the application.
function_call(g, n, f, all, depth) ==
  IF Len(all.xs) # Len(f.params) \/ depth >= MaxExpansion \/ ~ all.ok
     \/ \E k \in DOMAIN all.xs : all.xs[k].w # f.params[k].w
  THEN Refused(n)
  ELSE After(expr_with_locals(g, all.n, f.body, Bound(f.params, all.xs), depth + 1),
             LAMBDA x : Expect(x.w = f.w, x.n, x))

FoldShape(op) == CASE op = "and" -> "BoolAnd" [] op = "or" -> "BoolOr"
                   [] op \in DOMAIN FoldSink -> FoldSink[op] [] OTHER -> InvertedSink[op]
FoldOps == {"and", "or"} \cup DOMAIN FoldSink \cup DOMAIN InvertedSink

Finish(op, r) == CASE op \in DOMAIN InvertedSink -> After(r, LAMBDA x : Typed(bv_not(x.n, x.id), x.w))
                   [] op = "bvcomp" -> bvcomp(r)
                   [] OTHER -> r

list_expr(g, n, op, ts, locals, depth) ==
  IF op \in DOMAIN g.functions THEN function_call(g, n, g.functions[op], LowerAll(g, n, ts, locals, depth), depth)
  ELSE IF op = "eq" THEN equals(g, n, ts, locals, depth)
  ELSE IF op = "distinct" THEN distinct(n, LowerAll(g, n, ts, locals, depth))
  ELSE IF op \in FoldOps
  THEN Finish(op, fold_expr(g, n, ts, locals, depth, FoldShape(op), op \in {"and", "or"}))
  ELSE IF op \in FixedOps
  THEN Finish(op, fixed_op(n, op, FixedShape(op), LowerAll(g, n, ts, locals, depth)))
  ELSE Refused(n)

expr_with_locals(g, n, t, locals, depth) ==
  CASE t.form = "symbol"    -> atom_expr(g, n, t.name, locals)
    [] t.form = "truth"     -> Typed(bool_const(n, t.value), 0)
    [] t.form = "literal"   -> literal(n, t)
    [] t.form = "apply"     -> list_expr(g, n, t.op, t.args, locals, depth)
    [] t.form = "indexed"   -> indexed_op(g, n, t, locals, depth)
    [] t.form = "let"       -> let_expr(g, n, t, locals, depth)
    [] t.form = "annotated" -> expr_with_locals(g, n, t.term, locals, depth)
------------------------------------------------------------------------------
(* The commands.                                                           *)

Tables == [env |-> env, functions |-> functions]

LowerTerm(n, t) == expr_with_locals(Tables, n, t, NoBindings, 0)

NextCommands == IF Len(script) < Len(commands) THEN commands[Len(script) + 1] ELSE {}

\* The next command of the script has the given name and succeeds or fails.
Read(c, cmd, ok) ==
  /\ status = "reading" /\ c.cmd = cmd
  /\ script' = Append(script, c)
  /\ status' = IF ok THEN "reading" ELSE "failed"
  /\ UNCHANGED <<options, commands, ops, last, target, command, calls, edits>>

Tables0   == <<env, declared_symbols, functions>>
Wants     == <<want, get_values, saw_check_sat>>
QueryVars == <<arena, assertions, assumptions, scopes>>

Logics == IF options = "server_text" THEN {"QF_BV"} ELSE {"QF_BV", "ALL"}

SetLogic == \E c \in NextCommands :
  /\ Read(c, "set-logic", c.logic \in Logics)
  /\ UNCHANGED <<Tables0, Wants, QueryVars>>

\* set-option, set-info, echo, exit; reset and reset-assertions are refused.
NoOpCommand == \E c \in NextCommands :
  /\ Read(c, "set-info", TRUE) \/ Read(c, "reset", FALSE)
  /\ UNCHANGED <<Tables0, Wants, QueryVars>>

Incremental == options = "standalone"
PushCommand == \E c \in NextCommands :
  /\ Read(c, "push", Incremental)
  /\ scopes' = IF Incremental THEN scopes \o [k \in 1 .. c.levels |-> Len(assertions)] ELSE scopes
  /\ UNCHANGED <<Tables0, Wants, arena, assertions, assumptions>>

\* The assertions go back, one level after the other up to one that is not there;
\* declarations, definitions and assumptions stay.
PopCommand == \E c \in NextCommands :
  LET levels == IF Incremental THEN Min({c.levels, Len(scopes)}) ELSE 0
      to     == Len(scopes) - levels
  IN  /\ Read(c, "pop", Incremental /\ c.levels <= Len(scopes))
      /\ assertions' = IF levels > 0 THEN SubSeq(assertions, 1, scopes[to + 1]) ELSE assertions
      /\ scopes' = SubSeq(scopes, 1, to)
      /\ UNCHANGED <<Tables0, Wants, arena, assumptions>>

\* A name bound to the term r: a new variable, or the body of a definition.
Define(c, r, symbols) ==
  /\ Read(c, c.cmd, r.id # None)
  /\ arena' = r.n
  /\ IF r.id = None THEN UNCHANGED <<env, declared_symbols>>
     ELSE /\ env' = (c.name :> [id |-> r.id, w |-> c.w]) @@ env
          /\ declared_symbols' = declared_symbols \cup symbols
  /\ UNCHANGED <<functions, Wants, assertions, assumptions, scopes>>

DeclareConst == \E c \in NextCommands :
  /\ c.cmd = "declare-const"
  /\ Define(c, IF c.w = 0 THEN bool_var_external(arena, c.name, 0)
               ELSE bv_var_external(arena, c.name, c.w, 0), {c.name})

\* A definition without parameters is lowered now.
OfSort(r, w) == Expect(r.w = w, r.n, r)
DefineConst == \E c \in NextCommands :
  /\ c.cmd = "define-fun" /\ c.params = <<>>
  /\ Define(c, OfSort(LowerTerm(arena, c.body), c.w), {})

\* One with parameters is lowered where it is applied.
DefineFun == \E c \in NextCommands :
  /\ c.cmd = "define-fun" /\ c.params # <<>>
  /\ LET ok == IsInjective(NamesOf(c.params))
     IN  /\ Read(c, "define-fun", ok)
         /\ functions' = IF ok THEN (c.name :> [params |-> c.params, w |-> c.w, body |-> c.body]) @@ functions
                         ELSE functions
  /\ UNCHANGED <<env, declared_symbols, Wants, QueryVars>>

AssertLowered(c, x) ==
  /\ Read(c, "assert", x.id # None)
  /\ arena' = x.n
  /\ assertions' = IF x.id # None THEN Append(assertions, [root |-> x.id, name |-> c.name]) ELSE assertions
  /\ UNCHANGED <<Tables0, Wants, assumptions, scopes>>
AssertCommand == \E c \in NextCommands :
  c.cmd = "assert" /\ AssertLowered(c, OfSort(LowerTerm(arena, c.term), 0))

CheckSat == \E c \in NextCommands :
  /\ Read(c, "check-sat", TRUE)
  /\ saw_check_sat' = TRUE
  /\ UNCHANGED <<Tables0, want, get_values, QueryVars>>

\* The assumptions are lowered and kept one by one, up to one that is refused.
Assumed(acc, r) == [n |-> r.n, ok |-> r.id # None,
                    roots |-> IF r.id = None THEN acc.roots ELSE Append(acc.roots, r.id)]
AssumeAll(terms) ==
  FoldLeft(LAMBDA acc, t : IF acc.ok THEN Assumed(acc, OfSort(LowerTerm(acc.n, t), 0)) ELSE acc,
           [n |-> arena, ok |-> TRUE, roots |-> <<>>], terms)
AssumeLowered(c, all) ==
  /\ Read(c, "check-sat-assuming", all.ok)
  /\ arena' = all.n
  /\ assumptions' = assumptions \o all.roots
  /\ saw_check_sat' = (saw_check_sat \/ all.ok)
  /\ UNCHANGED <<Tables0, want, get_values, assertions, scopes>>
CheckSatAssuming == \E c \in NextCommands : c.cmd = "check-sat-assuming" /\ AssumeLowered(c, AssumeAll(c.terms))

\* Each symbol is mentioned in an assertion that holds anyway, so that the
\* query has it.
Mention(acc, r) == [n |-> r.n, ok |-> TRUE, roots |-> Append(acc.roots, [root |-> r.id, name |-> ""])]
SelfEquality(n, x) == equality_node(n, x, x)
MentionAll(names) ==
  FoldLeft(LAMBDA acc, name :
             IF ~ acc.ok \/ name \notin declared_symbols THEN [acc EXCEPT !.ok = FALSE]
             ELSE Mention(acc, SelfEquality(acc.n, atom_expr(Tables, acc.n, name, NoBindings))),
           [n |-> arena, ok |-> TRUE, roots |-> <<>>], names)
ValueAsked(c, all) ==
  /\ Read(c, "get-value", all.ok)
  /\ arena' = all.n
  /\ assertions' = assertions \o all.roots
  /\ want' = want \cup {"model"}
  /\ get_values' = get_values \o SubSeq(c.names, 1, Len(all.roots))
  /\ UNCHANGED <<Tables0, saw_check_sat, assumptions, scopes>>
GetValue == \E c \in NextCommands : c.cmd = "get-value" /\ ValueAsked(c, MentionAll(c.names))

GetModel == \E c \in NextCommands :
  /\ Read(c, "get-model", TRUE)
  /\ want' = want \cup {"model"}
  /\ UNCHANGED <<Tables0, get_values, saw_check_sat, QueryVars>>

GetUnsatCore == \E c \in NextCommands :
  /\ Read(c, "get-unsat-core", TRUE)
  /\ want' = want \cup {"core"}
  /\ UNCHANGED <<Tables0, get_values, saw_check_sat, QueryVars>>

\* The end of lower_script: a script without check-sat is an error.
EndOfScript ==
  /\ status = "reading"
  /\ status' = IF saw_check_sat THEN "read" ELSE "failed"
  /\ UNCHANGED <<options, commands, script, Tables0, Wants, vars>>

------------------------------------------------------------------------------
ReaderInit ==
  \/ /\ Init /\ status = "off" /\ options = "none" /\ commands = <<>>
     /\ script = <<>> /\ env = NoBindings /\ declared_symbols = {} /\ functions = NoBindings
     /\ want = {} /\ get_values = <<>> /\ saw_check_sat = FALSE
  \/ \E s \in ScriptSeeds :
       /\ options = s.options /\ commands = s.commands /\ status = "reading"
       /\ script = <<>> /\ env = NoBindings /\ declared_symbols = {} /\ functions = NoBindings
       /\ want = {} /\ get_values = <<>> /\ saw_check_sat = FALSE
       /\ arena = <<>> /\ ops = {} /\ calls = 0 /\ edits = 0 /\ last = NoCall
       /\ assertions = <<>> /\ assumptions = <<>> /\ scopes = <<>>
       /\ target = None /\ command = "Solve"

ReadScript == \/ SetLogic \/ NoOpCommand \/ PushCommand \/ PopCommand \/ DeclareConst \/ DefineConst
              \/ DefineFun \/ AssertCommand \/ CheckSat \/ CheckSatAssuming \/ GetValue \/ GetModel
              \/ GetUnsatCore \/ EndOfScript

ReaderNext == ReadScript \/ (status = "off" /\ Next /\ UNCHANGED readerVars) \/ (status \in {"failed", "read"} /\ UNCHANGED <<vars, readerVars>>)

ReaderSpec == ReaderInit /\ [][ReaderNext]_<<vars, readerVars>>

------------------------------------------------------------------------------
(* What SMT-LIB says of a script: a term has a value in an environment of  *)
(* values, a definition keeps the environment it was made in, and pop      *)
(* brings back everything push has saved.                                  *)

Undefined == [v |-> 0, w |-> -1]

ResultWidth(op, w, par) ==
  CASE op \in {"BvIte", "BoolIte"} -> w[2]
    [] op = "BvExtract" -> par[1] - par[2] + 1
    [] op = "BvConcat"  -> w[1] + w[2]
    [] op \in {"BvZeroExtend", "BvSignExtend"} -> w[1] + par[1]
    [] op = "BvRepeat"  -> w[1] * par[1]
    [] op \in CmpOps \cup OverflowOps \cup {"NegOverflow", "BvEq"} -> 0
    [] OTHER -> w[1]

OperationAt(op, xs, w, par) ==
  IF \A k \in DOMAIN xs : w[k] >= 0 /\ WellSorted(op, w, par)
  THEN [v |-> Meaning(op, [k \in DOMAIN xs |-> xs[k].v], par, w[1], w[Len(w)]), w |-> ResultWidth(op, w, par)]
  ELSE Undefined
Operation(op, xs, par) == OperationAt(op, xs, [k \in DOMAIN xs |-> xs[k].w], par)

Pairwise(op, xs) == FoldLeft(LAMBDA acc, x : Operation(op, <<acc, x>>, <<>>), xs[1], Tail(xs))
SameSort(xs) == \A k \in DOMAIN xs : xs[k].w >= 0 /\ xs[k].w = xs[1].w
Bools(xs)    == \A k \in DOMAIN xs : xs[k].w = 0
Bool(value)  == [v |-> value, w |-> 0]

LiteralValue(t) ==
  LET w == CASE t.radix = 2 -> Len(t.digits) [] t.radix = 16 -> 4 * Len(t.digits) [] OTHER -> t.width
  IN  IF ValidWidth(w) /\ t.digits # <<>> /\ \A k \in DOMAIN t.digits : t.digits[k] < t.radix
      THEN [v |-> FoldLeft(LAMBDA acc, d : acc * t.radix + d, 0, t.digits) % 2 ^ w, w |-> w]
      ELSE Undefined

RECURSIVE ValueOf(_, _, _)

OfWidth(x, w) == IF x.w = w THEN x ELSE Undefined
CallValue(f, xs) ==
  IF Len(xs) # Len(f.params) \/ \E k \in DOMAIN xs : xs[k].w # f.params[k].w THEN Undefined
  ELSE OfWidth(ValueOf(f.body, Bound(f.params, xs), f.scope), f.w)

\* The operators of bit-vectors and Booleans that are one operation of BitVectors.
SinkValue(op, shape, xs) ==
  IF Len(xs) # shape.arity THEN Undefined ELSE Operation(shape.sink, Ordered(op, xs), <<>>)
FoldValue(op, xs) == IF xs # <<>> /\ xs[1].w > 0 THEN Pairwise(FoldShape(op), xs) ELSE Undefined

ApplyValue(op, xs, scope) ==
  IF op \in DOMAIN scope.functions THEN CallValue(scope.functions[op], xs)
  ELSE CASE op = "and" /\ Bools(xs) -> Bool(\A k \in DOMAIN xs : xs[k].v)
         [] op = "or"  /\ Bools(xs) -> Bool(\E k \in DOMAIN xs : xs[k].v)
         [] op = "eq" /\ Len(xs) > 1 /\ SameSort(xs) -> Bool(\A j, k \in DOMAIN xs : xs[j].v = xs[k].v)
         [] op = "distinct" /\ Len(xs) > 1 /\ SameSort(xs) -> Bool(\A j, k \in DOMAIN xs : j # k => xs[j].v # xs[k].v)
         [] op = "ite" /\ Len(xs) = 3 /\ Bools(<<xs[1]>>) /\ SameSort(Tail(xs)) -> IF xs[1].v THEN xs[2] ELSE xs[3]
         [] op = "bvcomp" /\ Len(xs) = 2 /\ SameSort(xs) /\ xs[1].w > 0 ->
              [v |-> IF xs[1].v = xs[2].v THEN 1 ELSE 0, w |-> 1]
         [] op \in FixedOps \ {"ite", "bvcomp"} -> SinkValue(op, FixedShape(op), xs)
         [] op \in DOMAIN FoldSink -> FoldValue(op, xs)
         [] op \in DOMAIN InvertedSink -> Operation("BvNot", <<FoldValue(op, xs)>>, <<>>)
         [] OTHER -> Undefined

\* The operands' values first.
Strictly(F(_), xs) == IF \E k \in DOMAIN xs : xs[k].w < 0 THEN Undefined ELSE F(xs)

ValueOf(t, locals, scope) ==
  CASE t.form = "symbol" -> (CASE t.name \in DOMAIN locals -> locals[t.name]
                               [] t.name \notin DOMAIN locals /\ t.name \in DOMAIN scope.globals -> scope.globals[t.name]
                               [] OTHER -> Undefined)
    [] t.form = "truth"     -> Bool(t.value)
    [] t.form = "literal"   -> LiteralValue(t)
    [] t.form = "annotated" -> ValueOf(t.term, locals, scope)
    [] t.form = "indexed"   ->
         Strictly(LAMBDA xs : IF xs[1].w = 0 THEN Undefined ELSE Operation(IndexedSink[t.op], xs, t.par),
                  <<ValueOf(t.arg, locals, scope)>>)
    [] t.form = "apply"     ->
         Strictly(LAMBDA xs : ApplyValue(t.op, xs, scope),
                  [k \in DOMAIN t.args |-> ValueOf(t.args[k], locals, scope)])
    [] t.form = "let"       ->
         IF ~ IsInjective(NamesOf(t.bindings)) THEN Undefined
         ELSE Strictly(LAMBDA xs : ValueOf(t.body, Bound(t.bindings, xs) @@ locals, scope),
                       [k \in DOMAIN t.bindings |-> ValueOf(t.bindings[k].term, locals, scope)])

\* Reading the script with values for its variables: the scope, what the scopes
\* around it were, whether the script is legal so far, the verdict the last
\* check-sat asks for and whether its question still stands: nothing has been
\* asserted or popped since, and no check before it had assumptions; all the
\* assumptions there were, and the values of the symbols get-value names.
Fresh(c, scope) == c.name \notin DOMAIN scope.globals \cup DOMAIN scope.functions

Legal(r, ok, next) == IF ok THEN next ELSE [r EXCEPT !.legal = FALSE]

\* The commands with terms, given the values of the terms.
Check(r, xs) ==
  LET assumed == \A k \in DOMAIN xs : xs[k].v
  IN  Legal(r, Bools(xs), [r EXCEPT !.checked = TRUE, !.verdict = r.scope.holds /\ assumed,
                                    !.stands = ~ r.assuming, !.assumed = @ /\ assumed,
                                    !.assuming = @ \/ xs # <<>>])
StepWithTerms(r, c, xs) ==
  CASE c.cmd = "define-fun" ->
         Legal(r, xs[1].w = c.w /\ Fresh(c, r.scope), [r EXCEPT !.scope.globals = (c.name :> xs[1]) @@ @])
    [] c.cmd = "assert" -> Legal(r, xs[1].w = 0, [r EXCEPT !.scope.holds = @ /\ xs[1].v, !.stands = FALSE])
    [] c.cmd \in {"check-sat", "check-sat-assuming"} -> Check(r, xs)

Step(values, r, c) ==
  CASE c.cmd = "set-logic" -> Legal(r, c.logic \in Logics, r)
    [] c.cmd = "set-info"  -> r
    [] c.cmd = "push" -> Legal(r, options = "standalone", [r EXCEPT !.outer = @ \o [k \in 1 .. c.levels |-> r.scope]])
    [] c.cmd = "pop"  -> Legal(r, options = "standalone" /\ c.levels <= Len(r.outer),
                               [r EXCEPT !.scope = IF c.levels = 0 THEN @ ELSE r.outer[Len(r.outer) - c.levels + 1],
                                         !.outer = SubSeq(@, 1, Len(@) - c.levels),
                                         !.stands = @ /\ c.levels = 0])
    [] c.cmd = "declare-const" ->
         Legal(r, (c.w = 0 \/ ValidWidth(c.w)) /\ Fresh(c, r.scope),
               [r EXCEPT !.scope.globals = (c.name :> [v |-> values[<<c.name, c.w>>], w |-> c.w]) @@ @])
    [] c.cmd = "define-fun" /\ c.params # <<>> ->
         Legal(r, IsInjective(NamesOf(c.params)) /\ Fresh(c, r.scope),
               [r EXCEPT !.scope.functions =
                  (c.name :> [params |-> c.params, w |-> c.w, body |-> c.body, scope |-> r.scope]) @@ @])
    [] c.cmd = "get-value" ->
         Legal(r, r.checked /\ Range(c.names) \subseteq DOMAIN r.scope.globals \cap declared_symbols,
               [r EXCEPT !.printed = [name \in Range(c.names) |-> r.scope.globals[name]] @@ @])
    [] c.cmd \in {"get-model", "get-unsat-core"} -> [r EXCEPT !.legal = @ /\ r.checked]
    [] c.cmd = "reset" -> [r EXCEPT !.legal = FALSE]
    [] OTHER ->
         LET terms == CASE c.cmd = "define-fun" -> <<c.body>> [] c.cmd = "assert" -> <<c.term>>
                        [] c.cmd = "check-sat" -> <<>> [] c.cmd = "check-sat-assuming" -> c.terms
         IN  StepWithTerms(r, c, [k \in DOMAIN terms |-> ValueOf(terms[k], NoBindings, r.scope)])

Run(values) ==
  FoldLeft(LAMBDA r, c : IF r.legal THEN Step(values, r, c) ELSE r,
           [scope |-> [globals |-> NoBindings, functions |-> NoBindings, holds |-> TRUE],
            outer |-> <<>>, legal |-> TRUE, checked |-> FALSE, verdict |-> TRUE, stands |-> FALSE,
            assumed |-> TRUE, assuming |-> FALSE, printed |-> NoBindings], script)

Declared == {<<c.name, c.w>> : c \in {d \in Range(script) : d.cmd = "declare-const"}}
Defined  == {c.name : c \in {d \in Range(script) : d.cmd = "define-fun"}}

\* Whether a script is legal does not depend on the values.
AnyValues == [s \in Declared |-> IF s[2] = 0 THEN FALSE ELSE 0]
ValuesOf(e) == [s \in Declared |->
                  LET i == CHOOSE i \in VariablesOf(arena) : arena[i].par[1] = s[1] /\ arena[i].w = s[2]
                  IN  IF s[2] = 0 THEN e[i] = 1 ELSE e[i]]

\* format_get_values of frontend.rs: the first variable of that name in the model.
model_get(e, name) ==
  LET i == Min({j \in VariablesOf(arena) : arena[j].par[1] = name})
  IN  IF arena[i].w = 0 THEN Bool(e[i] = 1) ELSE [v |-> e[i], w |-> arena[i].w]

\* The reader takes every legal script whose macros are not nested too deeply,
\* and gives it one query, whatever names, scopes and macros the script has: an
\* assignment satisfies it exactly when the assertions in force at the end of the
\* script hold, with the assumptions of every check-sat-assuming.  That is what
\* the last check-sat asks, as SMT-LIB means it, as long as nothing was asserted
\* or popped after it and no check before it had assumptions.  The value printed
\* for a symbol is the value of that symbol.  A script that declares a name again
\* with another sort, after a pop, has two variables of that name; what is printed
\* for it is left open.
GivesVerdict(d, roots, e, r) ==
  /\ (\A root \in roots : d[root]) = (r.scope.holds /\ r.assumed)
  /\ r.stands => (\A root \in roots : d[root]) = r.verdict
  /\ \A name \in Range(get_values) :
       Cardinality({s \in Declared : s[1] = name}) = 1 => model_get(e, name) = r.printed[name]
ReadAs(roots, r) ==
  /\ r.legal /\ r.checked /\ Cardinality(Defined) <= MaxExpansion => status = "read"
  /\ r.legal /\ status = "read" =>
       \A e \in Envs : GivesVerdict(denote(arena, e), roots, e, Run(ValuesOf(e)))
ScriptsMean ==
  status \in {"failed", "read"} =>
    ReadAs({assertions[k].root : k \in DOMAIN assertions} \cup Range(assumptions), Run(AnyValues))
==============================================================================
