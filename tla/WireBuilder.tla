----------------------------- MODULE WireBuilder -----------------------------
(***************************************************************************)
(* The expression builder of smt-wire (builder.rs ExprBuilder): the        *)
(* constructors with their eager checks, the derived operators, and        *)
(* compact.  An operation returns [b, ref]: the builder it leaves and the  *)
(* reference it returns, None if it failed; what a failed operation had    *)
(* already appended stays.                                                 *)
(***************************************************************************)
EXTENDS WireExpr, Functions

\* The HashMaps symbols, bv_vars and bool_vars as sets; width 0 is Bool.
NewBuilder == [nodes |-> <<>>, children |-> <<>>, blob |-> <<>>, assertions |-> <<>>,
               assumptions |-> <<>>, scopes |-> <<>>, symbols |-> {}, vars |-> {}]

Done(b, ref) == [b |-> b, ref |-> ref]
Fail(b)      == Done(b, None)

\* The ? operator: go on with the builder and the reference of a successful step.
Then(r, F(_, _)) == IF r.ref = None THEN r ELSE F(r.b, r.ref)

meta_for(b, ref) == validate_node_ref(b, ref, SortOf(ref))
expect_bv(b, ref)   == meta_for(b, ref) /\ SortOf(ref) = "bv"
expect_bool(b, ref) == meta_for(b, ref) /\ SortOf(ref) = "bool"
WidthOf(b, ref)     == NodeAt(b, ref).width
expect_same_bv_width(b, x, y) == expect_bv(b, x) /\ expect_bv(b, y) /\ WidthOf(b, x) = WidthOf(b, y)

push_blob(b, bytes) ==
  IF Len(b.blob) + Len(bytes) >= BlobBase THEN Fail(b)
  ELSE Done([b EXCEPT !.blob = @ \o bytes], Payload(Len(b.blob), Len(bytes)))

\* The children are appended before the index is checked: they stay if it fails.
push_node(b, tag, width, children, hi, lo, payload) ==
  IF \/ Len(children) > 2 * MaxPairs + 1 \/ Len(b.children) >= BlobBase
     \/ \E k \in DOMAIN children : ~ meta_for(b, children[k])
  THEN Fail(b)
  ELSE LET start == IF children = <<>> THEN 0 ELSE Len(b.children)
           node  == RawNode(tag, Len(children), hi, width, lo, start, payload)
           c     == [b EXCEPT !.children = @ \o children]
       IN  IF Len(b.nodes) >= SortBit THEN Fail(c)
           ELSE Done([c EXCEPT !.nodes = Append(@, node)], NodeRef(result_sort(tag), Len(b.nodes)))

Checked(ok, b, r) == IF ok THEN r ELSE Fail(b)

------------------------------------------------------------------------------
\* Mutant of expect_symbol_signature: a symbol may change its width.
any_signature(b, name, width) == TRUE

expect_symbol_signature(b, name, width) == \A s \in b.symbols : s.name = name => s.width = width

\* bv_var (width > 0) and bool_var (width 0): the symbol is declared first, then
\* its old node is found or a new one made.
variable(b, name, width) ==
  IF ~ expect_symbol_signature(b, name, width) THEN Fail(b)
  ELSE LET d == [b EXCEPT !.symbols = @ \cup {[name |-> name, width |-> width]}]
           old == {v \in d.vars : v.name = name /\ v.width = width}
       IN  IF old # {} THEN Done(d, (CHOOSE v \in old : TRUE).ref)
           ELSE Then(push_blob(d, name), LAMBDA c, payload :
                Then(push_node(c, IF width = 0 THEN "BoolVar" ELSE "BvVar", width, <<>>, 0, 0, payload),
                     LAMBDA e, ref :
                       Done([e EXCEPT !.vars = @ \cup {[name |-> name, width |-> width, ref |-> ref]}], ref)))

bv_var(b, name, width) == Checked(ValidWidth(width), b, variable(b, name, width))
bool_var(b, name)      == variable(b, name, 0)

\* A u64 is its WordBits bits; a wide constant gets its bytes and zeros above.
word_le(value) == [k \in 1 .. WordBits \div ByteBits |-> (value \div Base ^ (k - 1)) % Base]

bv_const(b, value, width) ==
  IF ~ ValidWidth(width) THEN Fail(b)
  ELSE IF width <= WordBits
       THEN push_node(b, "BvConst", width, <<>>, 0, 0, value % 2 ^ width)
       ELSE Then(push_blob(b, mask_unused_high_bits(resize(word_le(value), width), width)),
                 LAMBDA c, payload : push_node(c, "BvConst", width, <<>>, 0, 0, payload))

bv_const_wide(b, bytes, width) ==
  IF ~ ValidWidth(width) \/ Len(bytes) # NumBytes(width) THEN Fail(b)
  ELSE LET normalized == mask_unused_high_bits(bytes, width)
       IN  IF width <= WordBits THEN bv_const(b, Value(normalized), width)
           ELSE Then(push_blob(b, normalized),
                     LAMBDA c, payload : push_node(c, "BvConst", width, <<>>, 0, 0, payload))

bool_const(b, value) == push_node(b, IF value THEN "BoolTrue" ELSE "BoolFalse", 0, <<>>, 0, 0, 0)

bv_unary(b, tag, x) == Checked(expect_bv(b, x), b, push_node(b, tag, WidthOf(b, x), <<x>>, 0, 0, 0))
bv_binary(b, tag, x, y) ==
  Checked(expect_same_bv_width(b, x, y), b, push_node(b, tag, WidthOf(b, x), <<x, y>>, 0, 0, 0))
\* bv_comparison and overflow_binary
bv_comparison(b, tag, x, y) ==
  Checked(expect_same_bv_width(b, x, y), b, push_node(b, tag, 0, <<x, y>>, 0, 0, 0))
neg_ovf(b, x) == Checked(expect_bv(b, x), b, push_node(b, "NegOverflow", 0, <<x>>, 0, 0, 0))
bool_binary(b, tag, x, y) ==
  Checked(expect_bool(b, x) /\ expect_bool(b, y), b, push_node(b, tag, 0, <<x, y>>, 0, 0, 0))
bool_not(b, x) == Checked(expect_bool(b, x), b, push_node(b, "BoolNot", 0, <<x>>, 0, 0, 0))

bv_extract(b, x, hi, lo) ==
  Checked(expect_bv(b, x) /\ lo <= hi /\ hi < WidthOf(b, x), b,
          push_node(b, "BvExtract", hi - lo + 1, <<x>>, hi, lo, 0))

bv_concat(b, high, low) ==
  Checked(expect_bv(b, high) /\ expect_bv(b, low) /\ ValidWidth(WidthOf(b, high) + WidthOf(b, low)), b,
          push_node(b, "BvConcat", WidthOf(b, high) + WidthOf(b, low), <<high, low>>, 0, 0, 0))

bv_extend(b, tag, x, amount) ==
  Checked(expect_bv(b, x) /\ ValidWidth(WidthOf(b, x) + amount), b,
          push_node(b, tag, WidthOf(b, x) + amount, <<x>>, amount, 0, 0))

bv_ite(b, cond, x, y) ==
  Checked(expect_bool(b, cond) /\ expect_same_bv_width(b, x, y), b,
          push_node(b, "BvIte", WidthOf(b, x), <<cond, x, y>>, 0, 0, 0))

bv_select(b, selectors, values, default) ==
  Checked(/\ Len(selectors) = Len(values) /\ Len(selectors) <= MaxPairs
          /\ expect_bv(b, default)
          /\ \A k \in DOMAIN selectors :
               expect_bool(b, selectors[k]) /\ expect_same_bv_width(b, values[k], default), b,
          push_node(b, "BvSelect", WidthOf(b, default),
                    [k \in 1 .. 2 * Len(selectors) + 1 |->
                       IF k > 2 * Len(selectors) THEN default
                       ELSE IF k % 2 = 1 THEN selectors[(k + 1) \div 2] ELSE values[k \div 2]],
                    Len(selectors), 0, 0))

------------------------------------------------------------------------------
(* The derived operators: several nodes, in the order the code adds them.  *)

bv_ne(b, x, y) == Then(bv_comparison(b, "BvEq", x, y), LAMBDA c, eq : bool_not(c, eq))

\* (a or not b) and (not a or b)
bool_eq(b, x, y) ==
  Checked(expect_bool(b, x) /\ expect_bool(b, y), b,
    Then(bool_not(b, y), LAMBDA b1, notY :
    Then(bool_binary(b1, "BoolOr", x, notY), LAMBDA b2, left :
    Then(bool_not(b2, x), LAMBDA b3, notX :
    Then(bool_binary(b3, "BoolOr", notX, y), LAMBDA b4, right :
         bool_binary(b4, "BoolAnd", left, right))))))

bool_xor(b, x, y) == Then(bool_eq(b, x, y), LAMBDA c, eq : bool_not(c, eq))

bool_ite(b, cond, x, y) ==
  Checked(expect_bool(b, cond) /\ expect_bool(b, x) /\ expect_bool(b, y), b,
    Then(bool_binary(b, "BoolAnd", cond, x), LAMBDA b1, yes :
    Then(bool_not(b1, cond), LAMBDA b2, notCond :
    Then(bool_binary(b2, "BoolAnd", notCond, y), LAMBDA b3, no :
         bool_binary(b3, "BoolOr", yes, no)))))

\* Mutant of Rotate: both shifts by the same amount.
RotateSame(b, x, k, there, back) ==
  IF ~ expect_bv(b, x) THEN Fail(b)
  ELSE Then(bv_const(b, k % WidthOf(b, x), WidthOf(b, x)), LAMBDA b1, near :
       Then(bv_binary(b1, there, x, near), LAMBDA b2, moved :
       Then(bv_binary(b2, back, x, near), LAMBDA b3, wrapped :
            bv_binary(b3, "BvOr", moved, wrapped))))

\* bv_rotate_left ("BvShl", "BvLShr") and bv_rotate_right (the other way round).
Rotate(b, x, k, there, back) ==
  IF ~ expect_bv(b, x) THEN Fail(b)
  ELSE LET w == WidthOf(b, x)
           amount == k % w
       IN  IF amount = 0 THEN Done(b, x)
           ELSE Then(bv_const(b, amount, w), LAMBDA b1, near :
                Then(bv_const(b1, w - amount, w), LAMBDA b2, far :
                Then(bv_binary(b2, there, x, near), LAMBDA b3, moved :
                Then(bv_binary(b3, back, x, far), LAMBDA b4, wrapped :
                     bv_binary(b4, "BvOr", moved, wrapped)))))
bv_rotate_left(b, x, amount)  == Rotate(b, x, amount, "BvShl", "BvLShr")
bv_rotate_right(b, x, amount) == Rotate(b, x, amount, "BvLShr", "BvShl")

------------------------------------------------------------------------------
AddAssertion(b, root, name) ==
  [b EXCEPT !.assertions = Append(@, [root |-> root, name |-> name])]

\* assert and assert_named; the name of an anonymous assertion is None.
assert(b, root) == Checked(expect_bool(b, root), b, Done(AddAssertion(b, root, None), root))
assert_named(b, name, root) ==
  Checked(expect_bool(b, root), b,
          Then(push_blob(b, name), LAMBDA c, ref : Done(AddAssertion(c, root, ref), root)))

\* Not both of two selectors.
exclude(b, x, y) ==
  Then(bool_binary(b, "BoolAnd", x, y), LAMBDA b1, both :
  Then(bool_not(b1, both), LAMBDA b2, notBoth : assert(b2, notBoth)))

\* The k-th pair of positions (i, j), if nothing has failed before it.
exclude_pair(selectors, r, k) ==
  LET i == (k - 1) \div Len(selectors) + 1
      j == ((k - 1) % Len(selectors)) + 1
  IN  IF i >= j THEN r ELSE Then(r, LAMBDA c, ref : exclude(c, selectors[i], selectors[j]))

\* after[k]: the k first of count pairs have been looked at.
exclude_pairs(b, selectors, count) ==
  LET after[k \in 0 .. count] ==
        IF k = 0 THEN Done(b, 0) ELSE exclude_pair(selectors, after[k - 1], k)
  IN  after

\* Every pair of selectors excludes each other; pairs asserted before a failure stay.
assert_mutex(b, selectors) ==
  LET count == Len(selectors) * Len(selectors)
  IN  Checked(\A k \in DOMAIN selectors : expect_bool(b, selectors[k]), b,
              exclude_pairs(b, selectors, count)[count])

assume(b, root) ==
  Checked(expect_bool(b, root), b, Done([b EXCEPT !.assumptions = Append(@, root)], root))

push(b) == [b EXCEPT !.scopes = Append(@, Len(b.assertions))]
pop(b)  == [b EXCEPT !.scopes = Front(@), !.assertions = SubSeq(@, 1, Last(b.scopes))]

------------------------------------------------------------------------------
\* mark_ref for every root: the children of a marked node are marked.  Children
\* precede their node, so the recursion marks what a pass from the last node to
\* the first marks; marking[k] is after its first k of count nodes.
Positions(refs) == {Index(r) + 1 : r \in Range(refs)}
mark_children(b, live, i) ==
  IF i \in live THEN live \cup Positions(ChildrenOf(b, b.nodes[i])) ELSE live
mark_from_end(b, live, k) == mark_children(b, live, Len(b.nodes) - k + 1)
mark_refs(b, roots, count) ==
  LET marking[k \in 0 .. count] ==
        IF k = 0 THEN Positions(roots) ELSE mark_from_end(b, marking[k - 1], k)
  IN  marking
marked(b, roots) == mark_refs(b, roots, Len(b.nodes))[Len(b.nodes)]

\* The first loop of compact: next_index after the first i nodes.
next_index(live, count) ==
  LET next[i \in 0 .. count] ==
        IF i = 0 THEN 0 ELSE IF i \in live THEN next[i - 1] + 1 ELSE next[i - 1]
  IN  next

\* Its second loop for node i: the new children and the new node are appended.
copy_live(b, old_to_new, c, i) ==
  LET node  == b.nodes[i]
      kids  == ChildrenOf(b, node)
      start == IF node.arity = 0 THEN 0 ELSE Len(c.children)
  IN  [nodes    |-> Append(c.nodes, RawNode(node.tag, node.arity, node.hi, node.width, node.lo, start, node.payload)),
       children |-> c.children \o [k \in 1 .. node.arity |-> old_to_new[Index(kids[k]) + 1]]]

copied(b, live, old_to_new, count) ==
  LET after[i \in 0 .. count] ==
        IF i = 0 THEN [nodes |-> <<>>, children |-> <<>>]
        ELSE IF i \in live THEN copy_live(b, old_to_new, after[i - 1], i) ELSE after[i - 1]
  IN  after

\* compact: the marked nodes in their old order, their children renumbered, the
\* whole blob.  old_to_new gives the new reference of a marked node.
compact(b, roots) ==
  LET count == Len(b.nodes)
      live  == marked(b, roots)
      next  == next_index(live, count)
      old_to_new == [i \in live |-> NodeRef(result_sort(b.nodes[i].tag), next[i - 1])]
      copy  == copied(b, live, old_to_new, count)[count]
  IN  [expr |-> [nodes |-> copy.nodes, children |-> copy.children, blob |-> b.blob], old_to_new |-> old_to_new]

remap_ref(compacted, ref)   == compacted.old_to_new[Index(ref) + 1]
remap_refs(compacted, refs) == [k \in DOMAIN refs |-> remap_ref(compacted, refs[k])]
\* new_to_old: the old reference of a new one, None if there is none.
original_ref(compacted, ref) ==
  LET old == {i \in DOMAIN compacted.old_to_new : compacted.old_to_new[i] = ref}
  IN  IF old = {} THEN None ELSE NodeRef(SortOf(ref), (CHOOSE i \in old : TRUE) - 1)

------------------------------------------------------------------------------
\* A node unfolded: what it is whatever its position and its children's.
\* level[n] unfolds every node to depth n; a node is not deeper than its position.
unfold_node(c, above, i) ==
  LET node == c.nodes[i]
      kids == ChildrenOf(c, node)
  IN  <<node.tag, node.width, node.hi, node.lo,
        IF node.tag \in VarTags THEN blob_ref(c, node.payload)
        ELSE IF node.tag = "BvConst" THEN <<ConstNumber(c, node)>> ELSE <<>>,
        [k \in 1 .. node.arity |-> above[Index(kids[k]) + 1]]>>
unfold_all(c, above) == [i \in DOMAIN c.nodes |-> unfold_node(c, above, i)]
unfold_none(c)       == [i \in DOMAIN c.nodes |-> <<>>]
unfolding(c, depth) ==
  LET level[n \in 0 .. depth] == IF n = 0 THEN unfold_none(c) ELSE unfold_all(c, level[n - 1])
  IN  level
Unfolded(c, ref, depth) == unfolding(c, depth)[depth][Index(ref) + 1]
==============================================================================
