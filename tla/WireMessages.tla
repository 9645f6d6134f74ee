---------------------------- MODULE WireMessages -----------------------------
(***************************************************************************)
(* The messages of the wire protocol (request.rs, response.rs): what a     *)
(* client may send and what each side accepts.  A message is a record of   *)
(* its envelope's fields and its blocks, the bytes that carry them are     *)
(* left out; flag bytes are sets of flags and an unknown bit is "other".   *)
(***************************************************************************)
EXTENDS WireBuilder

CONSTANT MaxCount    \* u16::MAX: assertions, names and assumptions of a request

ASSUME CountAssumption == MaxCount \in Nat

RequestFlags  == {"WANT_MODEL", "WANT_CORE", "SIGNED"}
ResponseFlags == {"HAS_MODEL", "HAS_CORE", "HAS_VALUE", "HAS_EXPR", "HAS_MESSAGE"}
Optimizing    == {"Minimize", "Maximize"}

validate_command_flags(command, flags) ==
  /\ command = "Solve" => "SIGNED" \notin flags
  /\ command = "Simplify" => flags = {}
  /\ command \in Optimizing => "WANT_CORE" \notin flags

\* The names of the named assertions, which come first.
AssertionNames(r) == [k \in DOMAIN r.names |-> blob_ref(r.expr, r.names[k])]

\* BinaryRequest::validate: what the server checks of a request it parsed.
validate_request(r) ==
  /\ r.flags \subseteq RequestFlags
  /\ Len(r.names) <= Len(r.assertions)
  /\ validate(r.expr)
  /\ \A k \in DOMAIN r.assertions : validate_node_ref(r.expr, r.assertions[k], "bool")
  /\ \A k \in DOMAIN r.assumptions : validate_node_ref(r.expr, r.assumptions[k], "bool")
  /\ \A k \in DOMAIN r.names : HasText(r.expr, r.names[k])
  /\ "WANT_CORE" \in r.flags => IsInjective(AssertionNames(r))
  /\ validate_command_flags(r.command, r.flags)
  /\ r.command = "Simplify" =>
       /\ r.assertions = <<>> /\ r.names = <<>> /\ r.assumptions = <<>>
       /\ validate_node_ref(r.expr, r.target, SortOf(r.target))
  /\ r.command \in Optimizing => validate_node_ref(r.expr, r.target, "bv")
  /\ r.command = "Solve" => r.target = 0

\* BinaryRequest::new: the request, or NoRequest where it is refused.
NoRequest == [command |-> "none"]

new_request(id, command, flags, expr, assertions, names, assumptions, target) ==
  LET r == [id |-> id, command |-> command, flags |-> flags, expr |-> expr,
            assertions |-> assertions, names |-> names, assumptions |-> assumptions,
            target |-> IF target = None THEN 0 ELSE target]
  IN  IF /\ Len(assertions) <= MaxCount /\ Len(assumptions) <= MaxCount
         /\ command # "Solve" => target # None
         /\ validate_request(r)
      THEN r ELSE NoRequest

\* Mutant of build_request: the assertions keep their order, the names come first.
build_request_unsorted(b, id, command, flags, target) ==
  LET ordered   == IF command = "Simplify" THEN <<>> ELSE b.assertions
      named     == SelectSeq(ordered, LAMBDA a : a.name # None)
      roots     == [k \in DOMAIN ordered |-> ordered[k].root]
      assumed   == IF command = "Simplify" THEN <<>> ELSE b.assumptions
      compacted == compact(b, roots \o assumed \o (IF target = None THEN <<>> ELSE <<target>>))
  IN  [request |-> new_request(id, command, flags,
                     compacted.expr, remap_refs(compacted, roots),
                     [k \in DOMAIN named |-> named[k].name], remap_refs(compacted, assumed),
                     IF target = None THEN None ELSE remap_ref(compacted, target)),
       compacted |-> compacted]

\* The named and the other assertions, each in their order.
part_step(part, a) ==
  IF a.name # None THEN [named |-> Append(part.named, a), unnamed |-> part.unnamed]
  ELSE [named |-> part.named, unnamed |-> Append(part.unnamed, a)]
partition(assertions, count) ==
  LET after[k \in 0 .. count] ==
        IF k = 0 THEN [named |-> <<>>, unnamed |-> <<>>] ELSE part_step(after[k - 1], assertions[k])
  IN  after

\* ExprBuilder::build_request and Context::build_request: named assertions
\* first, and only the nodes the roots reach.  new_to_old stays with the client.
build_request(b, id, command, flags, target) ==
  LET stated      == IF command = "Simplify" THEN <<>> ELSE b.assertions
      parts       == partition(stated, Len(stated))[Len(stated)]
      named       == parts.named
      ordered     == named \o parts.unnamed
      assumptions == IF command = "Simplify" THEN <<>> ELSE b.assumptions
      roots       == [k \in DOMAIN ordered |-> ordered[k].root]
      live        == roots \o assumptions \o (IF target = None THEN <<>> ELSE <<target>>)
      compacted   == compact(b, live)
  IN  [request |-> new_request(id, command, flags,
                     compacted.expr, remap_refs(compacted, roots),
                     [k \in DOMAIN named |-> named[k].name], remap_refs(compacted, assumptions),
                     IF target = None THEN None ELSE remap_ref(compacted, target)),
       compacted |-> compacted]

------------------------------------------------------------------------------
(* What a request says, and what the builder it is made of says: each       *)
(* assertion is its name, if it has one, and its term, wherever its nodes.  *)

Occurrences(seq) == [x \in Range(seq) |-> Cardinality({k \in DOMAIN seq : seq[k] = x})]

UnfoldedAll(c, refs, depth) == [k \in DOMAIN refs |-> Unfolded(c, refs[k], depth)]

Stated(b, depth) ==
  [k \in DOMAIN b.assertions |->
     <<IF b.assertions[k].name = None THEN {} ELSE {blob_ref(b, b.assertions[k].name)},
       Unfolded(b, b.assertions[k].root, depth)>>]
Sent(r, depth) ==
  [k \in DOMAIN r.assertions |->
     <<IF k \in DOMAIN r.names THEN {blob_ref(r.expr, r.names[k])} ELSE {},
       Unfolded(r.expr, r.assertions[k], depth)>>]

Roots(r) == r.assertions \o r.assumptions \o (IF r.command = "Solve" THEN <<>> ELSE <<r.target>>)

HasDuplicates(c) == \E j, k \in DOMAIN c.assertions :
                      /\ j # k /\ c.assertions[j].name # None /\ c.assertions[k].name # None
                      /\ blob_ref(c, c.assertions[j].name) = blob_ref(c, c.assertions[k].name)

\* The same terms under the same names, as often; nothing that no root needs.
SaysTheSame(b, r, target) ==
  LET depth == Len(b.nodes)
  IN  /\ r.command # "Simplify" =>
           /\ Occurrences(Sent(r, depth)) = Occurrences(Stated(b, depth))
           /\ UnfoldedAll(r.expr, r.assumptions, depth) = UnfoldedAll(b, b.assumptions, depth)
      /\ r.command # "Solve" => Unfolded(r.expr, r.target, depth) = Unfolded(b, target, depth)
      /\ marked(r.expr, Roots(r)) = DOMAIN r.expr.nodes

------------------------------------------------------------------------------
(* Responses.  A scalar is [width, bytes], of width 0 for a Boolean.       *)

BoolScalar(value)      == [width |-> 0, bytes |-> <<value>>]
BvScalar(value, width) == [width |-> width, bytes |-> word_bytes(value, width)]
ScalarNumber(scalar)   == Value(scalar.bytes)

validate_scalar(s) ==
  IF s.width = 0 THEN s.bytes \in {<<0>>, <<1>>}
  ELSE /\ ValidWidth(s.width) /\ Len(s.bytes) = NumBytes(s.width)
       /\ mask_unused_high_bits(s.bytes, s.width) = s.bytes

validate_entries(entries) == \A k \in DOMAIN entries : validate_scalar(entries[k].value)

\* ModelBlock::validate_against_expr: every entry is a variable of the
\* expression, with a value of its width, and equal symbols have equal values.
validate_against_expr(entries, expr) ==
  LET node(k) == NodeAt(expr, entries[k].ref)
  IN  /\ \A k \in DOMAIN entries :
           /\ validate_node_ref(expr, entries[k].ref, SortOf(entries[k].ref))
           /\ node(k).tag \in VarTags
           /\ entries[k].value.width = node(k).width
      /\ \A j, k \in DOMAIN entries :
           /\ entries[j].ref = entries[k].ref => j = k
           /\ blob_ref(expr, node(j).payload) = blob_ref(expr, node(k).payload) =>
                entries[j].value = entries[k].value

validate_simplified(block) ==
  validate(block.expr) /\ validate_node_ref(block.expr, block.target, SortOf(block.target))

\* BinaryResponse::validate: the flags a status may have and the block they ask for.
validate_response(r) ==
  /\ r.flags \subseteq ResponseFlags
  /\ CASE r.status = "Error" -> r.flags = {"HAS_MESSAGE"} /\ r.block.kind = "message"
       [] r.status = "Unknown" ->
            \/ r.flags = {} /\ r.block.kind = "empty"
            \/ r.flags = {"HAS_MESSAGE"} /\ r.block.kind = "message"
       [] r.status = "Sat" ->
            \/ r.flags = {} /\ r.block.kind = "empty"
            \/ /\ r.flags = {"HAS_MODEL"} /\ r.block.kind = "model"
               /\ validate_entries(r.block.entries)
            \/ /\ r.flags \in {{"HAS_VALUE"}, {"HAS_VALUE", "HAS_MODEL"}} /\ r.block.kind = "value"
               /\ validate_scalar(r.block.optimum)
               /\ validate_entries(r.block.entries)
               /\ "HAS_MODEL" \notin r.flags => r.block.entries = <<>>
       [] r.status = "Unsat" ->
            \/ r.flags = {} /\ r.block.kind = "empty"
            \/ r.flags = {"HAS_CORE"} /\ r.block.kind = "core"
       [] r.status = "Simplified" ->
            r.flags = {"HAS_EXPR"} /\ r.block.kind = "simplified" /\ validate_simplified(r.block)
==============================================================================
