-------------------------------- MODULE Rumba ---------------------------------
(***************************************************************************)
(* The simplifier (smt-server rumba_backend.rs): it walks the DAG of a     *)
(* SIMPLIFY target, copies the structure and hands every maximal island of *)
(* mixed Boolean-arithmetic of one width to the library rumba, with what   *)
(* is not of that kind or width as opaque variables.                       *)
(*                                                                         *)
(* rumba itself is external: it returns some expression with the meaning   *)
(* of the one it is given, or panics (mode).                               *)
(***************************************************************************)
EXTENDS Translations

CONSTANT MaxRumbaVariables   \* MAX_RUMBA_VARIABLES: variables of an island

ASSUME RumbaAssumption == MaxRumbaVariables \in Nat

MaxRumbaWidth == WordBits    \* MAX_RUMBA_WIDTH, like WordBits, is 64

------------------------------------------------------------------------------
(* rumba's expressions.  The operators of the library: -x and x - y scale  *)
(* by -1.                                                                  *)

NoExpr       == [op |-> "none"]
Var(id)      == [op |-> "Var", id |-> id]
Const(v)     == [op |-> "Const", v |-> v]
Not(x)       == [op |-> "Not", arg |-> x]
Scale(c, x)  == [op |-> "Scale", v |-> c, arg |-> x]
Nary(op, xs) == [op |-> op, args |-> xs]

RECURSIVE MbaValue(_, _, _)
MbaValue(e, env, w) ==
  LET fold(op, zero) == FoldLeft(LAMBDA acc, x : Apply(op, acc, MbaValue(x, env, w), w), zero, e.args)
  IN  CASE e.op = "Var"   -> env[e.id]
        [] e.op = "Const" -> e.v % 2 ^ w
        [] e.op = "Not"   -> 2 ^ w - 1 - MbaValue(e.arg, env, w)
        [] e.op = "Scale" -> (e.v * MbaValue(e.arg, env, w)) % 2 ^ w
        [] e.op = "And"   -> fold("BvAnd", 2 ^ w - 1)
        [] e.op = "Or"    -> fold("BvOr", 0)
        [] e.op = "Xor"   -> fold("BvXor", 0)
        [] e.op = "Add"   -> fold("BvAdd", 0)
        [] e.op = "Mul"   -> fold("BvMul", 1)

\* What rumba makes of e: nothing, e itself, something shorter where e is
\* constant or one of its variables, something longer with the other operators.
Modes == {"panics", "keeps", "reduces", "negates", "pads"}

simplify_mba(mode, e, count, w) ==
  LET envs == [1 .. count -> 0 .. 2 ^ w - 1]
      short == {Const(v) : v \in 0 .. 2 ^ w - 1} \cup {Var(i) : i \in 1 .. count}
      equal == {s \in short : \A env \in envs : MbaValue(s, env, w) = MbaValue(e, env, w)}
  IN  CASE mode = "panics"   -> NoExpr
        [] mode = "keeps"    -> e
        [] mode = "reduces"  -> IF equal = {} THEN e ELSE CHOOSE s \in equal : TRUE
        [] mode = "negates"  -> Scale(-1, Nary("Add", <<Not(e), Const(1)>>))
        [] mode = "pads"     -> Nary("Or", <<Nary("And", <<Nary("Mul", <<e, Nary("Mul", <<>>)>>), Nary("And", <<>>)>>),
                                             Nary("Xor", <<>>)>>)

------------------------------------------------------------------------------
(* IslandConversion: the island under a node, and its variables.           *)

is_mba_op(tag) == tag \in {"BvNot", "BvNeg", "BvAnd", "BvOr", "BvXor", "BvAdd", "BvSub", "BvMul"}
NaryOp == [BvAnd |-> "And", BvOr |-> "Or", BvXor |-> "Xor", BvAdd |-> "Add", BvMul |-> "Mul"]

Named(name)   == [kind |-> "named", name |-> name]
Boundary(ref) == [kind |-> "boundary", ref |-> ref]

Converted(e, vars) == [e |-> e, vars |-> vars]
TooMany(vars)      == Converted(NoExpr, vars)

\* named and boundary: the variable there is, or a new one if there is room.
island_var(vars, var) ==
  LET known == {i \in DOMAIN vars : vars[i] = var}
  IN  IF known # {} THEN Converted(Var(Min(known)), vars)
      ELSE IF Len(vars) >= MaxRumbaVariables THEN TooMany(vars)
      ELSE Converted(Var(Len(vars) + 1), Append(vars, var))

\* nary: the operands of nested nodes of one tag and width, in their order.
RECURSIVE operands(_, _, _, _)
operands(view, width, tag, ref) ==
  LET node == NodeAt(view, ref)
      kids == ChildrenOf(view, node)
  IN  IF SortOf(ref) = "bv" /\ node.tag = tag /\ node.width = width
      THEN FoldLeft(LAMBDA acc, kid : acc \o operands(view, width, tag, kid), <<>>, kids)
      ELSE <<ref>>

RECURSIVE convert(_, _, _, _)
AddConverted(terms, r) == [ok |-> r.e # NoExpr, terms |-> Append(terms, r.e), vars |-> r.vars]
convert_all(view, width, refs, vars) ==
  FoldLeft(LAMBDA acc, ref :
             AddConverted(acc.terms, IF acc.ok THEN convert(view, width, ref, acc.vars) ELSE TooMany(acc.vars)),
           [ok |-> TRUE, terms |-> <<>>, vars |-> vars], refs)

\* Guarded against, though operands of the operators have their width.
island_leaf(width, node, ref) == SortOf(ref) # "bv" \/ node.width # width

\* An operator of the island, given its operands.
convert_operator(tag, all) ==
  IF ~ all.ok THEN TooMany(all.vars)
  ELSE Converted(CASE tag = "BvNot" -> Not(all.terms[1])
                   [] tag = "BvNeg" -> Scale(-1, all.terms[1])
                   [] tag = "BvSub" -> Nary("Add", <<all.terms[1], Scale(-1, all.terms[2])>>)
                   [] tag \in DOMAIN NaryOp -> Nary(NaryOp[tag], all.terms), all.vars)
convert_node(view, width, ref, node, vars) ==
  IF island_leaf(width, node, ref) THEN island_var(vars, Boundary(ref))
  ELSE IF node.tag = "BvVar" THEN island_var(vars, Named(blob_ref(view, node.payload)))
  ELSE IF node.tag = "BvConst" /\ node.width <= MaxRumbaWidth THEN Converted(Const(node.payload % 2 ^ width), vars)
  ELSE IF is_mba_op(node.tag)
  THEN convert_operator(node.tag,
         convert_all(view, width,
                     IF node.tag \in DOMAIN NaryOp THEN operands(view, width, node.tag, ref) ELSE ChildrenOf(view, node),
                     vars))
  ELSE island_var(vars, Boundary(ref))
convert(view, width, ref, vars) == convert_node(view, width, ref, NodeAt(view, ref), vars)

------------------------------------------------------------------------------
(* IslandSimplifier.  Its state is [b, memo]; a step returns [st, ref].    *)

NewSimplifier == [b |-> NewBuilder, memo |-> <<>>]
Step(st, ref) == [st |-> st, ref |-> ref]

\* A constructor of the builder, applied to the simplifier's builder.
Build(st, r)  == Step([st EXCEPT !.b = r.b], r.ref)
On(r, F(_, _)) == IF r.ref = None THEN r ELSE F(r.st, r.ref)

RECURSIVE process(_, _, _, _)
RECURSIVE lower(_, _, _, _, _, _)

\* The steps for a sequence of items in turn, each on what the one before left.
AddStep(refs, r) == [ok |-> r.ref # None, st |-> r.st, refs |-> Append(refs, r.ref)]
Each(st, items, F(_, _)) ==
  FoldLeft(LAMBDA acc, x : AddStep(acc.refs, IF acc.ok THEN F(acc.st, x) ELSE Step(acc.st, None)),
           [ok |-> TRUE, st |-> st, refs |-> <<>>], items)

RumbaTag == [And |-> "BvAnd", Or |-> "BvOr", Xor |-> "BvXor", Add |-> "BvAdd", Mul |-> "BvMul"]
Identity(op, width) == CASE op = "And" -> 2 ^ width - 1 [] op = "Mul" -> 1 [] OTHER -> 0

Chain(all, tag) ==
  IF ~ all.ok THEN Step(all.st, None)
  ELSE FoldLeft(LAMBDA acc, ref : On(acc, LAMBDA s, x : Build(s, bv_binary(s.b, tag, x, ref))),
                Step(all.st, Head(all.refs)), Tail(all.refs))
lower_const(st, v, width) == Build(st, bv_const(st.b, v % 2 ^ width, width))
lower_nary(mode, view, st, e, width, vars) ==
  IF e.args = <<>> THEN lower_const(st, Identity(e.op, width), width)
  ELSE Chain(Each(st, e.args, LAMBDA s, x : lower(mode, view, s, x, width, vars)), RumbaTag[e.op])

\* The one operand of Not or Scale is lowered first, the factor after it.
lower_unary(e, width, arg) ==
  On(arg, LAMBDA s, x :
    IF e.op = "Not" THEN Build(s, bv_unary(s.b, "BvNot", x))
    ELSE On(lower_const(s, e.v, width), LAMBDA q, c : Build(q, bv_binary(q.b, "BvMul", c, x))))

lower(mode, view, st, e, width, vars) ==
  CASE e.op = "Var" -> IF vars[e.id].kind = "named" THEN Build(st, bv_var(st.b, vars[e.id].name, width))
                       ELSE process(mode, view, st, vars[e.id].ref)
    [] e.op = "Const" -> lower_const(st, e.v, width)
    [] e.op \in {"Not", "Scale"} -> lower_unary(e, width, lower(mode, view, st, e.arg, width, vars))
    [] OTHER -> lower_nary(mode, view, st, e, width, vars)

\* try_island: NoIsland where it has too many variables or rumba panics.
NoIsland == [st |-> NewSimplifier, ref |-> None, none |-> TRUE]
LowerIsland(mode, view, st, e, width, vars) ==
  IF e = NoExpr THEN NoIsland ELSE lower(mode, view, st, e, width, vars)
SimplifyIsland(mode, view, st, c, width) ==
  IF c.e = NoExpr THEN NoIsland
  ELSE LowerIsland(mode, view, st, simplify_mba(mode, c.e, Len(c.vars), width), width, c.vars)
try_island(mode, view, st, ref) ==
  SimplifyIsland(mode, view, st, convert(view, NodeAt(view, ref).width, ref, <<>>), NodeAt(view, ref).width)

\* copy_node: the node with its operands simplified, by the builder's constructor.
rebuild_node(b, view, node, x) ==
  CASE node.tag = "BvVar"  -> bv_var(b, blob_ref(view, node.payload), node.width)
    [] node.tag = "BvConst" -> IF node.width <= MaxRumbaWidth THEN bv_const(b, node.payload % 2 ^ node.width, node.width)
                               ELSE bv_const_wide(b, blob_ref(view, node.payload), node.width)
    [] node.tag \in UnaryTags   -> bv_unary(b, node.tag, x[1])
    [] node.tag \in BinaryTags  -> bv_binary(b, node.tag, x[1], x[2])
    [] node.tag = "BvExtract"   -> bv_extract(b, x[1], node.hi, node.lo)
    [] node.tag = "BvConcat"    -> bv_concat(b, x[1], x[2])
    [] node.tag \in ExtendTags  -> bv_extend(b, node.tag, x[1], node.hi)
    [] node.tag = "BvIte"       -> bv_ite(b, x[1], x[2], x[3])
    [] node.tag = "BvSelect"    -> bv_select(b, [p \in 1 .. node.hi |-> x[2 * p - 1]], [p \in 1 .. node.hi |-> x[2 * p]], Last(x))
    [] node.tag = "BoolTrue"    -> bool_const(b, TRUE)
    [] node.tag = "BoolFalse"   -> bool_const(b, FALSE)
    [] node.tag = "BoolVar"     -> bool_var(b, blob_ref(view, node.payload))
    [] node.tag = "BoolNot"     -> bool_not(b, x[1])
    [] node.tag \in BoolPairs   -> bool_binary(b, node.tag, x[1], x[2])
    [] node.tag \in CompareTags -> bv_comparison(b, node.tag, x[1], x[2])
    [] node.tag = "NegOverflow" -> neg_ovf(b, x[1])

Rebuilt(view, node, all) ==
  IF ~ all.ok THEN Step(all.st, None) ELSE Build(all.st, rebuild_node(all.st.b, view, node, all.refs))
copy_node(mode, view, st, ref) ==
  Rebuilt(view, NodeAt(view, ref),
          Each(st, ChildrenOf(view, NodeAt(view, ref)), LAMBDA s, kid : process(mode, view, s, kid)))

IslandOrCopy(mode, view, st, ref, island) == IF island = NoIsland THEN copy_node(mode, view, st, ref) ELSE island
process_uncached(mode, view, st, ref) ==
  LET node   == NodeAt(view, ref)
      rooted == SortOf(ref) = "bv" /\ is_mba_op(node.tag) /\ node.width <= MaxRumbaWidth
  IN  IslandOrCopy(mode, view, st, ref, IF rooted THEN try_island(mode, view, st, ref) ELSE NoIsland)

process(mode, view, st, ref) ==
  LET known == {k \in DOMAIN st.memo : st.memo[k].of = ref}
  IN  IF known # {} THEN Step(st, st.memo[Min(known)].is)
      ELSE On(process_uncached(mode, view, st, ref),
              LAMBDA s, x : Step([s EXCEPT !.memo = Append(@, [of |-> ref, is |-> x])], x))

\* simplify_request: the rebuilt expression, or the request's own where it failed.
Simplified(r, root) ==
  IF root.ref = None THEN [expr |-> r.expr, target |-> r.target]
  ELSE [expr |-> [nodes |-> root.st.b.nodes, children |-> root.st.b.children, blob |-> root.st.b.blob],
        target |-> root.ref]
simplify_request(r) == {Simplified(r, process(mode, r.expr, NewSimplifier, r.target)) : mode \in Modes}
==============================================================================
