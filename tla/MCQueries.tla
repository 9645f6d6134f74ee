------------------------------ MODULE MCQueries ------------------------------
(* Queries and Scripts on small instances.  A seed of Queries is the terms a *)
(* caller declared and one family of constructors, so that the rewrites that *)
(* feed one another meet within a few calls.                                 *)
EXTENDS Scripts

\* The vocabulary of the specification is arithmetic's: TwoTo is 2^k, and bits
\* and numbers are two views of one thing.
ASSUME Vocabulary ==
  /\ \A k \in 0 .. 8 : TwoTo(k) = 2 ^ k
  /\ \A w \in 0 .. MaxBvWidth : \A k \in 0 .. 2 ^ w - 1 :
       Number(BitsOf(k, w)) = k /\ \A i \in 1 .. w : BitsOf(k, w)[i] <=> (k \div 2 ^ (i - 1)) % 2 = 1

Var(name, w)  == Term(IF w = 0 THEN "BoolVar" ELSE "BvVar", <<>>, <<name, 0>>, w)
Num(value, w) == Term("BvConst", <<>>, word_bytes(value, w), w)

MCSeeds == {
  \* sums and products, and the equations their polynomials decide
  [arena |-> <<Var("x", 2), Num(1, 2)>>,
   ops |-> {"BvAdd", "BvSub", "BvMul", "BvNeg", "BvNot", "BvShl", "BvEq"}, calls |-> 3],
  \* bit masks
  [arena |-> <<Var("x", 2), Num(1, 2)>>,
   ops |-> {"BvAnd", "BvOr", "BvXor", "BvNot", "BvShl", "BvLShr", "BvAdd"}, calls |-> 3],
  [arena |-> <<Var("x", 3), Num(1, 3), Num(6, 3)>>,
   ops |-> {"BvAnd", "BvOr", "BvXor", "BvNot", "BvShl", "BvLShr", "BvAdd"}, calls |-> 2],
  \* slices and extensions
  [arena |-> <<Var("x", 2), Var("y", 1), Num(2, 2)>>,
   ops |-> {"BvExtract", "BvConcat", "BvZeroExtend", "BvSignExtend", "BvEq", "BvUlt", "BvUle", "BvAnd"}, calls |-> 2],
  [arena |-> <<Var("x", 3)>>,
   ops |-> {"BvRepeat", "BvRotateLeft", "BvRotateRight", "BvExtract", "BvConcat"}, calls |-> 3],
  [arena |-> <<Num(5, 3), Var("y", 1)>>,
   ops |-> {"BvRepeat", "BvRotateLeft", "BvRotateRight", "BvExtract", "BvConcat", "BvSignExtend"}, calls |-> 2],
  \* every operator on two variables and on constants
  [arena |-> <<Var("x", 3), Var("y", 3)>>,
   ops |-> BinaryOps \cup UnaryOps, calls |-> 1],
  [arena |-> <<Num(2, 2), Var("x", 2), Num(3, 2), Num(0, 2)>>,
   ops |-> {"BvAShr", "BvUDiv", "BvURem", "BvSDiv", "BvSRem", "BvSMod", "BvSlt", "BvNe"}, calls |-> 2],
  \* Booleans and choices
  [arena |-> <<Var("p", 0), Var("q", 0), Num(0, 1), Num(1, 1)>>,
   ops |-> {"BoolNot", "BoolAnd", "BoolOr", "BoolImplies", "BoolEq", "BoolXor", "BoolIte", "BvIte", "BvEq"}, calls |-> 2],
  [arena |-> <<Var("p", 0), Var("q", 0), Var("x", 2), Num(1, 2)>>, ops |-> {"BvSelect", "BvIte"}, calls |-> 2],
  \* declarations, constants and scopes
  [arena |-> <<Var("x", 2), Var("p", 0), Num(1, 2)>>, ops |-> {"Declare", "Constant"}, calls |-> 2],
  [arena |-> <<Var("x", 2), Var("p", 0), Var("y", 2), Term("BvUlt", <<1, 3>>, <<>>, 0),
              Term("BvIte", <<2, 3, 1>>, <<>>, 2)>>,
   ops |-> {"edit"}, calls |-> 0]}
------------------------------------------------------------------------------
(* Scripts, most of them a few commands in every order.                      *)
Logic(l)              == [cmd |-> "set-logic", logic |-> l]
Other(cmd)            == [cmd |-> cmd]
Level(cmd, k)         == [cmd |-> cmd, levels |-> k]
Decl(name, w)         == [cmd |-> "declare-const", name |-> name, w |-> w]
Param(name, w)        == [name |-> name, w |-> w]
Def(name, ps, w, t)   == [cmd |-> "define-fun", name |-> name, params |-> ps, w |-> w, body |-> t]
Asserted(t)           == [cmd |-> "assert", term |-> t, name |-> ""]
Named(name, t)        == [cmd |-> "assert", term |-> t, name |-> name]
Assuming(ts)          == [cmd |-> "check-sat-assuming", terms |-> ts]
Values(names)         == [cmd |-> "get-value", names |-> names]
Bind(name, t)         == [name |-> name, term |-> t]

x == Symbol("x")
y == Symbol("y")
p == Symbol("p")
Bin(ds)  == Literal(2, ds, 0)
Dec(ds, w) == Literal(10, ds, w)
App1(op, a) == Apply(op, <<a>>)
App2(op, a, b) == Apply(op, <<a, b>>)

\* Scopes, declarations that outlive them, values
ScopeScript == {Decl("x", 1), Decl("x", 2), Level("push", 1), Level("pop", 1),
                Asserted(App2("eq", x, Bin(<<1>>))), Other("check-sat"), Values(<<"x">>)}

\* Macros: a parameter with the name of a global, an application inside a let
\* that binds the same name, a macro in a macro, a definition before its symbol
MacroScript == {Decl("x", 1), Decl("y", 1),
                Def("f", <<Param("x", 1)>>, 1, App2("bvxor", x, y)),
                Def("g", <<Param("y", 1)>>, 0, App2("eq", App1("f", y), x)),
                Def("c", <<>>, 1, App1("bvnot", x)),
                Asserted(LetIn(<<Bind("y", x), Bind("x", y)>>, App1("g", App2("bvand", x, Symbol("c"))))),
                Other("check-sat")}

\* Assumptions, several checks, cores, what is refused
CheckScript == {Decl("p", 0), Named("a", p), Assuming(<<App1("not", p)>>), Other("check-sat"),
                Other("get-unsat-core"), Other("get-model"), Values(<<"p", "y">>), Level("push", 2), Level("pop", 0),
                Other("reset"), Other("set-info"), Logic("QF_BV"), Logic("ALL")}

\* One term after the other: n-ary operators, literals, indices
Bits3 == <<x, y, Bin(<<1, 0>>)>>
Preds == {Apply("eq", Bits3), Apply("distinct", Bits3), Apply("and", <<p, p, Truth(FALSE)>>), Apply("or", <<>>),
          App2("implies", p, App2("bvult", x, y)), App2("xor", p, App2("bvsge", x, y)),
          App2("bvugt", x, y), App2("bvsaddo", x, y), App1("bvnego", x),
          App2("eq", Apply("ite", <<p, x, y>>), Apply("bvadd", Bits3)),
          App2("eq", Apply("bvnand", Bits3), Apply("bvxnor", Bits3)),
          App2("eq", App2("bvcomp", x, y), Indexed("extract", <<1, 1>>, x)),
          App2("eq", App2("concat", x, y), Literal(16, <<9>>, 0)),
          App2("eq", Dec(<<1, 2, 9>>, 2), App2("bvsmod", x, y)),
          App2("eq", Dec(<<2, 3>>, 4), Indexed("sign_extend", <<2>>, x)),
          App2("eq", Dec(<<>>, 2), x), App2("eq", Literal(2, <<1, 2>>, 0), x), App2("eq", Dec(<<3>>, 5), x),
          App2("eq", Indexed("repeat", <<2>>, x), Indexed("zero_extend", <<2>>, y)),
          App2("eq", Indexed("repeat", <<0>>, x), x), App2("eq", Indexed("rotate_left", <<3>>, x), App1("bvneg", y)),
          App2("eq", Indexed("rotate_right", <<1>>, x), Indexed("extract", <<0, 1>>, y)),
          LetIn(<<Bind("x", y), Bind("y", x)>>, App2("bvule", x, App2("bvsub", y, x))),
          LetIn(<<Bind("x", y), Bind("x", x)>>, p), Annotated(p), x, Apply("ite", <<p, x, p>>),
          App2("eq", x, p), App1("not", x), App2("bvadd", x, p), App2("bvfoo", x, y), App2("bvult", x, Bin(<<1>>))}
TermScript == <<{Decl("x", 2)}, {Decl("y", 2)}, {Decl("p", 0)}, {Asserted(t) : t \in Preds}, {Other("check-sat")}>>

AnyOrder(cs, length) == [k \in 1 .. length |-> cs]

MCScriptSeeds ==
  {[options |-> "standalone", commands |-> AnyOrder(ScopeScript, 6)],
   [options |-> "standalone", commands |-> AnyOrder(MacroScript, 4) \o <<MacroScript, MacroScript, {Other("check-sat")}>>],
   [options |-> "standalone", commands |-> AnyOrder(CheckScript, 4)],
   [options |-> "server_text", commands |-> AnyOrder(CheckScript, 3)],
   [options |-> "server_text", commands |-> TermScript]}
==============================================================================
