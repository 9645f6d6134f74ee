------------------------------- MODULE WireExpr -------------------------------
(***************************************************************************)
(* Expression buffers of the wire protocol (smt-wire expr.rs) and the      *)
(* builder that makes them (builder.rs ExprBuilder).  A buffer is          *)
(* [nodes, children, blob]; the layout of its bytes is left out.  Node     *)
(* references, blob references and constants keep their encodings: bit 31  *)
(* of a reference is the sort, a blob reference is offset and length in    *)
(* one payload, a constant is in the payload or, when wide, in the blob.   *)
(* The limits of the fields are constants, so that they are met.           *)
(***************************************************************************)
EXTENDS Bytes

CONSTANTS SortBit,    \* 2^31: the sort bit of a reference and the largest node count
          BlobBase,   \* 2^32: offsets and lengths are below it
          WordBits,   \* 64: wider constants are in the blob
          MaxPairs    \* 127: pairs of a BV_SELECT, so that its arity fits a byte

ASSUME WireAssumption == /\ SortBit \in Nat \ {0} /\ BlobBase \in Nat \ {0}
                         /\ WordBits \in Nat /\ WordBits % ByteBits = 0 /\ MaxPairs \in Nat

None == -1

UnaryTags   == {"BvNot", "BvNeg"}
BinaryTags  == {"BvAnd", "BvOr", "BvXor", "BvAdd", "BvSub", "BvMul", "BvUDiv", "BvURem",
                "BvSDiv", "BvSRem", "BvSMod", "BvShl", "BvLShr", "BvAShr"}
BoolPairs   == {"BoolAnd", "BoolOr", "BoolImplies"}
ComparisonTags == {"BvEq", "BvUlt", "BvUle", "BvSlt", "BvSle"}
OverflowTags   == {"UAddOverflow", "SAddOverflow", "USubOverflow", "SSubOverflow",
                   "UMulOverflow", "SMulOverflow", "SDivOverflow"}
CompareTags == ComparisonTags \cup OverflowTags
ExtendTags  == {"BvZeroExtend", "BvSignExtend"}
VarTags     == {"BvVar", "BoolVar"}
Leaves      == VarTags \cup {"BvConst", "BoolTrue", "BoolFalse"}
BvTags      == UnaryTags \cup BinaryTags \cup ExtendTags
               \cup {"BvVar", "BvConst", "BvExtract", "BvConcat", "BvIte", "BvSelect"}
BoolTags    == BoolPairs \cup CompareTags
               \cup {"BoolTrue", "BoolFalse", "BoolVar", "BoolNot", "NegOverflow"}

result_sort(tag) == IF tag \in BvTags THEN "bv" ELSE "bool"

\* The arity of a tag; None for BV_SELECT, whose arity is odd.
fixed_arity(tag) ==
  IF tag \in Leaves THEN 0
  ELSE IF tag \in UnaryTags \cup ExtendTags \cup {"BvExtract", "BoolNot", "NegOverflow"} THEN 1
  ELSE IF tag \in BinaryTags \cup BoolPairs \cup CompareTags \cup {"BvConcat"} THEN 2
  ELSE IF tag = "BvIte" THEN 3 ELSE None

NodeRef(sort, index) == index + (IF sort = "bool" THEN SortBit ELSE 0)
Index(ref)  == ref % SortBit
SortOf(ref) == IF ref < SortBit THEN "bv" ELSE "bool"

Payload(offset, len) == offset * BlobBase + len
BlobOffset(payload)  == payload \div BlobBase
BlobLen(payload)     == payload % BlobBase

RawNode(tag, arity, hi, width, lo, children, payload) ==
  [tag |-> tag, arity |-> arity, hi |-> hi, width |-> width, lo |-> lo,
   children |-> children, payload |-> payload]

NodeAt(b, ref)     == b.nodes[Index(ref) + 1]
ChildrenOf(b, node) == SubSeq(b.children, node.children + 1, node.children + node.arity)

\* blob_ref and blob_str; the largest byte value stands for bytes that are not UTF-8.
InBlob(b, payload)   == BlobOffset(payload) + BlobLen(payload) <= Len(b.blob)
blob_ref(b, payload) == SubSeq(b.blob, BlobOffset(payload) + 1, BlobOffset(payload) + BlobLen(payload))
IsText(bytes)        == \A k \in DOMAIN bytes : bytes[k] # Base - 1
HasText(b, payload)  == InBlob(b, payload) /\ IsText(blob_ref(b, payload))

\* Term::value_bytes_le and format_bv_const, as a number.
ConstNumber(c, node) ==
  (IF node.width <= WordBits THEN node.payload ELSE Value(blob_ref(c, node.payload))) % 2 ^ node.width

------------------------------------------------------------------------------
(* ExprView::validate: what a server accepts.                              *)

validate_arity(node) ==
  IF node.tag = "BvSelect" THEN node.arity % 2 = 1 ELSE node.arity = fixed_arity(node.tag)

validate_node_width(node) ==
  IF result_sort(node.tag) = "bool" THEN node.width = 0 ELSE ValidWidth(node.width)

\* The first pass: each node by itself, and one signature per symbol.
validate_header(b, node) ==
  /\ node.tag \in BvTags \cup BoolTags
  /\ validate_arity(node)
  /\ validate_node_width(node)
  /\ node.tag \in VarTags => HasText(b, node.payload)
  /\ node.tag = "BvConst" /\ node.width > WordBits =>
       BlobLen(node.payload) = NumBytes(node.width) /\ InBlob(b, node.payload)

validate_symbols(b) ==
  \A i, j \in DOMAIN b.nodes :
    LET m == b.nodes[i]
        n == b.nodes[j]
    IN  m.tag \in VarTags /\ n.tag \in VarTags /\ blob_ref(b, m.payload) = blob_ref(b, n.payload)
          => result_sort(m.tag) = result_sort(n.tag) /\ m.width = n.width

validate_node_ref(b, ref, sort) ==
  /\ Index(ref) + 1 \in DOMAIN b.nodes
  /\ SortOf(ref) = sort
  /\ result_sort(NodeAt(b, ref).tag) = sort

\* validate_ref: the operand exists, has the sort asked for, and is an earlier node.
expect_child(b, i, ref, sort) == validate_node_ref(b, ref, sort) /\ Index(ref) + 1 < i

\* The operands of node i have the sorts and widths its tag asks for.
operands_fit(b, i, node, kids) ==
  LET bv(k)   == expect_child(b, i, kids[k], "bv")
      bool(k) == expect_child(b, i, kids[k], "bool")
      w(k)    == NodeAt(b, kids[k]).width
  IN  /\ node.tag \in UnaryTags   => bv(1) /\ node.width = w(1)
      /\ node.tag \in BinaryTags  => bv(1) /\ bv(2) /\ w(1) = w(2) /\ node.width = w(1)
      /\ node.tag \in CompareTags => bv(1) /\ bv(2) /\ w(1) = w(2)
      /\ node.tag \in BoolPairs   => bool(1) /\ bool(2)
      /\ node.tag = "BoolNot"     => bool(1)
      /\ node.tag = "NegOverflow" => bv(1)
      /\ node.tag \in ExtendTags  => bv(1) /\ node.width = w(1) + node.hi
      /\ node.tag = "BvConcat"    => bv(1) /\ bv(2) /\ node.width = w(1) + w(2)
      /\ node.tag = "BvExtract"   => /\ bv(1) /\ node.lo <= node.hi /\ node.hi < w(1)
                                     /\ node.width = node.hi - node.lo + 1
      /\ node.tag = "BvIte" => bool(1) /\ bv(2) /\ bv(3) /\ w(2) = w(3) /\ node.width = w(2)
      /\ node.tag = "BvSelect" =>
           /\ node.hi = (node.arity - 1) \div 2
           /\ bv(node.arity) /\ node.width = w(node.arity)
           /\ \A p \in 1 .. node.hi : bool(2 * p - 1) /\ bv(2 * p) /\ w(2 * p) = w(node.arity)

\* The second pass: the operands are there, and fit.
validate_operands(b, i) ==
  /\ b.nodes[i].arity > 0 => b.nodes[i].children + b.nodes[i].arity <= Len(b.children)
  /\ operands_fit(b, i, b.nodes[i], ChildrenOf(b, b.nodes[i]))

validate(b) ==
  /\ Len(b.nodes) <= SortBit
  /\ \A i \in DOMAIN b.nodes : validate_header(b, b.nodes[i])
  /\ validate_symbols(b)
  /\ \A i \in DOMAIN b.nodes : validate_operands(b, i)
==============================================================================
