---------------------------- MODULE WireLowering -----------------------------
(***************************************************************************)
(* qfbvsmtrs wire.rs: a wire request becomes a query of the solver, and    *)
(* the solver's model becomes the entries of a response.                   *)
(***************************************************************************)
EXTENDS WireMessages

CONSTANTS PolyBudget, PolyDegree, PolyTerms, PolyWidth, MaskWidth, MaskDepth   \* see Terms

S == INSTANCE Semantics

NoQuery == [ok |-> FALSE]

\* bv_const_bytes: the payload's bytes, or the blob's where the constant is wide.
const_bytes(expr, node) ==
  IF node.width <= WordBits
  THEN SubSeq(word_le(node.payload), 1, NumBytes(node.width))
  ELSE blob_ref(expr, node.payload)

\* A leaf.  A symbol that occurs in several nodes is one variable, which
\* refers to the first of them.
lower_leaf(expr, i, n, terms) ==
  LET node == expr.nodes[i]
      name == blob_ref(expr, node.payload)
      same == {j \in 1 .. i - 1 : /\ expr.nodes[j].tag = node.tag /\ expr.nodes[j].width = node.width
                                  /\ node.tag \in VarTags /\ blob_ref(expr, expr.nodes[j].payload) = name}
      ref  == NodeRef(result_sort(node.tag), i - 1)
  IN  CASE node.tag \in VarTags /\ same # {} -> S!Same(n, terms[Min(same)])
        [] node.tag = "BvVar" /\ same = {}   -> S!bv_var_external(n, name, node.width, ref)
        [] node.tag = "BoolVar" /\ same = {} -> S!bool_var_external(n, name, ref)
        [] node.tag = "BvConst"   -> S!bv_const_bytes(n, const_bytes(expr, node), node.width)
        [] node.tag = "BoolTrue"  -> S!bool_const(n, TRUE)
        [] node.tag = "BoolFalse" -> S!bool_const(n, FALSE)

\* lower_bv and lower_bool: the builder's constructor of an operator, given
\* the terms of its operands.
Bounds(node) == IF node.tag = "BvExtract" THEN <<node.hi, node.lo>> ELSE <<node.hi>>
lower_operator(node, n, terms, kids) ==
  S!build_from(n, node.tag, terms, [k \in DOMAIN kids |-> Index(kids[k]) + 1], Bounds(node))

lower_node(expr, i, n, terms) ==
  IF expr.nodes[i].tag \in Leaves THEN lower_leaf(expr, i, n, terms)
  ELSE lower_operator(expr.nodes[i], n, terms, ChildrenOf(expr, expr.nodes[i]))

AddTerm(terms, r) == [n |-> r.n, terms |-> Append(terms, r.id)]
lower_nodes(expr) ==
  FoldLeft(LAMBDA acc, i : AddTerm(acc.terms, lower_node(expr, i, acc.n, acc.terms)),
           [n |-> <<>>, terms |-> <<>>], [i \in DOMAIN expr.nodes |-> i])

\* query_from_wire: named assertions are the first ones.  SIMPLIFY gives a
\* query no target.
QueryOf(r, lowered) ==
  LET term(ref) == lowered.terms[Index(ref) + 1]
  IN  IF S!None \in Range(lowered.terms) THEN NoQuery
      ELSE [ok |-> TRUE, arena |-> lowered.n,
            assertions |-> [k \in DOMAIN r.assertions |->
                              [root |-> term(r.assertions[k]),
                               name |-> IF k \in DOMAIN r.names THEN blob_ref(r.expr, r.names[k]) ELSE <<>>]],
            assumptions |-> [k \in DOMAIN r.assumptions |-> term(r.assumptions[k])],
            target |-> IF r.command \in Optimizing THEN term(r.target) ELSE S!None,
            command |-> r.command, signed |-> "SIGNED" \in r.flags]
query_from_wire(r) == QueryOf(r, lower_nodes(r.expr))

\* model_to_wire: an entry per variable; env gives each its number.
model_to_wire(arena, env) ==
  LET variables == SelectSeq([i \in DOMAIN arena |-> i], LAMBDA i : i \in S!VariablesOf(arena))
  IN  [k \in DOMAIN variables |->
         LET node == arena[variables[k]]
         IN  [ref |-> node.par[2],
              value |-> IF node.w = 0 THEN BoolScalar(env[variables[k]])
                        ELSE BvScalar(env[variables[k]], node.w)]]
==============================================================================
