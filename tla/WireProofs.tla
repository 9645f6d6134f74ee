------------------------------ MODULE WireProofs ------------------------------
(***************************************************************************)
(* Proofs about the Rust client's builder and the requests made of it.     *)
(* First, that its eager checks suffice (BufferValid): for every limit of  *)
(* the wire format, every set of names and every sequence of operations,   *)
(* failed ones included, the buffer of a Context passes the server's       *)
(* validation and its query refers to what is in the buffer.  Then, that   *)
(* compaction and reordering change nothing of what a query says, and that *)
(* a request is refused only where it has to be (RequestsSay).             *)
(***************************************************************************)
EXTENDS WireContext, WireMessages, SequenceTheorems, FiniteSetTheorems, WellFoundedInduction, TLAPS

(* Tables: sequences whose entries are of no set known before. *)

LEMMA TableLen ==
  ASSUME NEW s, IsTable(s)
  PROVE  Len(s) \in Nat /\ DOMAIN s = 1 .. Len(s)
<1>1. s \in Seq({s[i] : i \in DOMAIN s})
  BY DEF IsTable
<1> QED BY <1>1

LEMMA SeqIsTable ==
  ASSUME NEW S, NEW s \in Seq(S)
  PROVE  IsTable(s)
<1>1. Len(s) \in Nat /\ DOMAIN s = 1 .. Len(s) /\ \A i \in 1 .. Len(s) : s[i] \in {s[j] : j \in DOMAIN s}
  OBVIOUS
<1> QED BY <1>1 DEF IsTable

\* A function on 1 .. n is a table.
LEMMA FunctionIsTable ==
  ASSUME NEW n \in Nat, NEW s, s = [k \in 1 .. n |-> s[k]]
  PROVE  IsTable(s) /\ Len(s) = n
<1>1. s \in [1 .. n -> {s[k] : k \in 1 .. n}]
  OBVIOUS
<1>2. s \in Seq({s[k] : k \in 1 .. n})
  BY <1>1, IsASeq
<1>3. Len(s) = n
  BY <1>1, <1>2
<1> QED BY <1>2, <1>3, SeqIsTable

LEMMA AppendTable ==
  ASSUME NEW s, IsTable(s), NEW e
  PROVE  /\ IsTable(Append(s, e)) /\ Len(Append(s, e)) = Len(s) + 1 /\ Len(s) \in Nat
         /\ \A i \in 1 .. Len(s) : Append(s, e)[i] = s[i]
         /\ Append(s, e)[Len(s) + 1] = e
<1> DEFINE T == {s[i] : i \in DOMAIN s} \cup {e}
<1>1. s \in Seq(T) /\ e \in T
  BY DEF IsTable
<1>2. Append(s, e) \in Seq(T) /\ Len(Append(s, e)) = Len(s) + 1 /\ Len(s) \in Nat
      /\ (\A i \in 1 .. Len(s) : Append(s, e)[i] = s[i])
      /\ Append(s, e)[Len(s) + 1] = e
  BY <1>1
<1> QED BY <1>2, SeqIsTable

LEMMA JoinTable ==
  ASSUME NEW s, IsTable(s), NEW t, IsTable(t)
  PROVE  /\ IsTable(s \o t) /\ Len(s \o t) = Len(s) + Len(t) /\ Len(s) \in Nat /\ Len(t) \in Nat
         /\ \A i \in 1 .. Len(s) : (s \o t)[i] = s[i]
         /\ \A i \in 1 .. Len(t) : (s \o t)[Len(s) + i] = t[i]
<1> DEFINE T == {s[i] : i \in DOMAIN s} \cup {t[i] : i \in DOMAIN t}
<1>1. s \in Seq(T) /\ t \in Seq(T)
  BY DEF IsTable
<1> HIDE DEF T
<1>2. s \o t \in Seq(T) /\ Len(s \o t) = Len(s) + Len(t) /\ Len(s) \in Nat /\ Len(t) \in Nat
  BY <1>1
<1>3. \A i \in 1 .. Len(s) : (s \o t)[i] = s[i]
  BY <1>1, <1>2
<1>4. \A i \in 1 .. Len(t) : (s \o t)[Len(s) + i] = t[i]
  BY <1>1, <1>2
<1> QED BY <1>2, <1>3, <1>4, SeqIsTable

\* The part of a table that a longer one begins with.
Prefix(s, t) == Len(s) <= Len(t) /\ \A i \in 1 .. Len(s) : t[i] = s[i]

\* The entries of a part of a table.
LEMMA TablePart ==
  ASSUME NEW s, IsTable(s), NEW from \in Nat, NEW len \in Nat, from + len <= Len(s)
  PROVE  SubSeq(s, from + 1, from + len) = [i \in 1 .. len |-> s[from + i]]
<1> DEFINE T == {s[i] : i \in DOMAIN s}
<1>1. s \in Seq(T) /\ Len(s) \in Nat /\ DOMAIN s = 1 .. Len(s)
  BY TableLen DEF IsTable
<1> HIDE DEF T
<1>2. SubSeq(s, from + 1, from + len) = [i \in 1 .. len |-> s[i + (from + 1) - 1]]
  BY <1>1, SubSeqProperties
<1>3. \A i \in 1 .. len : i + (from + 1) - 1 = from + i
  OBVIOUS
<1> QED BY <1>2, <1>3

LEMMA PrefixPart ==
  ASSUME NEW s, IsTable(s), NEW t, IsTable(t), Prefix(s, t),
         NEW from \in Nat, NEW len \in Nat, from + len <= Len(s)
  PROVE  SubSeq(t, from + 1, from + len) = SubSeq(s, from + 1, from + len)
<1>1. Len(s) \in Nat /\ Len(t) \in Nat /\ Len(s) <= Len(t)
  BY TableLen DEF Prefix
<1>2. SubSeq(t, from + 1, from + len) = [i \in 1 .. len |-> t[from + i]]
  BY <1>1, TablePart
<1>3. SubSeq(s, from + 1, from + len) = [i \in 1 .. len |-> s[from + i]]
  BY <1>1, TablePart
<1>4. \A i \in 1 .. len : t[from + i] = s[from + i]
  BY <1>1 DEF Prefix
<1> QED BY <1>2, <1>3, <1>4

------------------------------------------------------------------------------
(* The encodings. *)

\* Euclidean division by M is unique.
LEMMA Remainder ==
  ASSUME NEW M \in Nat \ {0}, NEW q \in Nat, NEW r \in 0 .. M - 1
  PROVE  (q * M + r) % M = r /\ (q * M + r) \div M = q /\ q * M + r \in Nat
OBVIOUS

\* A number is its quotient and its remainder.
LEMMA Divided ==
  ASSUME NEW M \in Nat \ {0}, NEW x \in Nat
  PROVE  x \div M \in Nat /\ x % M \in 0 .. M - 1
OBVIOUS

\* The index and the sort of a reference.
LEMMA RefParts ==
  ASSUME NEW sort \in {"bv", "bool"}, NEW index \in 0 .. SortBit - 1
  PROVE  /\ Index(NodeRef(sort, index)) = index /\ SortOf(NodeRef(sort, index)) = sort
         /\ NodeRef(sort, index) # None
<1>1. SortBit \in Nat \ {0}
  BY WireAssumption
<1>2. CASE sort = "bv"
  <2>1. NodeRef(sort, index) = index /\ 0 * SortBit + index = index
    BY <1>1, <1>2 DEF NodeRef
  <2>2. index % SortBit = index
    BY <2>1, <1>1, Remainder
  <2> QED BY <1>1, <1>2, <2>1, <2>2 DEF Index, SortOf, None
<1>3. CASE sort = "bool"
  <2>1. NodeRef(sort, index) = index + SortBit /\ 1 * SortBit + index = index + SortBit
    BY <1>1, <1>3 DEF NodeRef
  <2>2. (index + SortBit) % SortBit = index
    BY <2>1, <1>1, Remainder
  <2> QED BY <1>1, <1>3, <2>1, <2>2 DEF Index, SortOf, None
<1> QED BY <1>2, <1>3

\* The offset and the length of a payload.
LEMMA PayloadParts ==
  ASSUME NEW offset \in Nat, NEW len \in 0 .. BlobBase - 1
  PROVE  /\ BlobOffset(Payload(offset, len)) = offset /\ BlobLen(Payload(offset, len)) = len
         /\ Payload(offset, len) \in Nat
BY Remainder, WireAssumption DEF BlobOffset, BlobLen, Payload

LEMMA PayloadRange ==
  ASSUME NEW payload \in Nat
  PROVE  BlobOffset(payload) \in Nat /\ BlobLen(payload) \in Nat
BY Divided, WireAssumption DEF BlobOffset, BlobLen

------------------------------------------------------------------------------
(* What is appended to a builder leaves what was there before valid. *)

\* d has the nodes, the children and the blob of c, and possibly more of them.
Grown(c, d) == Prefix(c.nodes, d.nodes) /\ Prefix(c.children, d.children) /\ Prefix(c.blob, d.blob)

LEMMA RefKept ==
  ASSUME NEW c, NEW d, IsTable(c.nodes), IsTable(d.nodes), Prefix(c.nodes, d.nodes),
         NEW ref, NEW sort, validate_node_ref(c, ref, sort)
  PROVE  validate_node_ref(d, ref, sort) /\ NodeAt(d, ref) = NodeAt(c, ref)
<1>1. /\ Len(c.nodes) \in Nat /\ DOMAIN c.nodes = 1 .. Len(c.nodes)
      /\ Len(d.nodes) \in Nat /\ DOMAIN d.nodes = 1 .. Len(d.nodes)
  BY TableLen
<1>2. Index(ref) + 1 \in DOMAIN c.nodes
  BY DEF validate_node_ref
<1>3. Index(ref) + 1 \in DOMAIN d.nodes /\ NodeAt(d, ref) = NodeAt(c, ref)
  BY <1>1, <1>2 DEF Prefix, NodeAt
<1> QED BY <1>3 DEF validate_node_ref

LEMMA BlobKept ==
  ASSUME NEW c, NEW d, IsTable(c.blob), IsTable(d.blob), Prefix(c.blob, d.blob),
         NEW payload \in Nat, InBlob(c, payload)
  PROVE  InBlob(d, payload) /\ blob_ref(d, payload) = blob_ref(c, payload)
<1>1. /\ BlobOffset(payload) \in Nat /\ BlobLen(payload) \in Nat
      /\ Len(c.blob) \in Nat /\ Len(d.blob) \in Nat /\ Len(c.blob) <= Len(d.blob)
  BY PayloadRange, TableLen DEF Prefix
<1>2. BlobOffset(payload) + BlobLen(payload) <= Len(c.blob)
  BY DEF InBlob
<1>3. blob_ref(d, payload) = blob_ref(c, payload)
  BY <1>1, <1>2, PrefixPart DEF blob_ref
<1> QED BY <1>1, <1>2, <1>3 DEF InBlob

\* The payload of a node is a number where it refers to the blob.
Placed(node) ==
  (node.tag \in VarTags \/ (node.tag = "BvConst" /\ node.width > WordBits)) => node.payload \in Nat

LEMMA HeaderKept ==
  ASSUME NEW c, NEW d, IsTable(c.blob), IsTable(d.blob), Prefix(c.blob, d.blob),
         NEW node, Placed(node), validate_header(c, node)
  PROVE  validate_header(d, node)
<1>1. node.tag \in VarTags => HasText(d, node.payload)
  BY BlobKept DEF validate_header, HasText, Placed
<1>2. node.tag = "BvConst" /\ node.width > WordBits =>
        BlobLen(node.payload) = NumBytes(node.width) /\ InBlob(d, node.payload)
  BY BlobKept DEF validate_header, Placed
<1> QED BY <1>1, <1>2 DEF validate_header

LEMMA FitKept ==
  ASSUME NEW c, NEW d, IsTable(c.nodes), IsTable(d.nodes), Prefix(c.nodes, d.nodes),
         NEW i, NEW node, NEW kids, operands_fit(c, i, node, kids)
  PROVE  operands_fit(d, i, node, kids)
<1>1. \A ref, sort : expect_child(c, i, ref, sort) =>
        expect_child(d, i, ref, sort) /\ NodeAt(d, ref) = NodeAt(c, ref)
  BY RefKept DEF expect_child
<1>2. \A k : expect_child(c, i, kids[k], "bv") =>
        expect_child(d, i, kids[k], "bv") /\ NodeAt(d, kids[k]) = NodeAt(c, kids[k])
  BY <1>1
<1>3. \A k : expect_child(c, i, kids[k], "bool") => expect_child(d, i, kids[k], "bool")
  BY <1>1
<1> QED BY <1>2, <1>3 DEF operands_fit

\* The operands of a node are where they were.
LEMMA ChildrenKept ==
  ASSUME NEW c, NEW d, IsTable(c.children), IsTable(d.children), Prefix(c.children, d.children),
         NEW node, node.arity \in Nat, node.children \in Nat,
         node.arity > 0 => node.children + node.arity <= Len(c.children)
  PROVE  ChildrenOf(d, node) = ChildrenOf(c, node)
<1>1. CASE node.arity > 0
  BY <1>1, PrefixPart DEF ChildrenOf
<1>2. CASE node.arity = 0
  <2>1. \A s : SubSeq(s, node.children + 1, node.children) = <<>>
    BY SubSeqEmpty
  <2> QED BY <2>1, <1>2 DEF ChildrenOf
<1> QED BY <1>1, <1>2

LEMMA OperandsKept ==
  ASSUME NEW c, NEW d, TablesInv(c), TablesInv(d), Grown(c, d),
         NEW i \in DOMAIN c.nodes, validate_operands(c, i)
  PROVE  validate_operands(d, i)
<1>1. /\ d.nodes[i] = c.nodes[i] /\ c.nodes[i].arity \in Nat /\ c.nodes[i].children \in Nat
      /\ Len(c.children) \in Nat /\ Len(d.children) \in Nat /\ Len(c.children) <= Len(d.children)
  BY TableLen DEF TablesInv, Grown, Prefix
<1>2. ChildrenOf(d, c.nodes[i]) = ChildrenOf(c, c.nodes[i])
  BY <1>1, ChildrenKept DEF TablesInv, Grown, validate_operands
<1>3. operands_fit(d, i, c.nodes[i], ChildrenOf(c, c.nodes[i]))
  BY FitKept DEF TablesInv, Grown, validate_operands
<1> QED BY <1>1, <1>2, <1>3 DEF validate_operands

------------------------------------------------------------------------------
(* A builder that grows by valid nodes keeps the invariant. *)

\* The maps and the query of a builder are those of another.
SameQuery(c, d) ==
  /\ d.assertions = c.assertions /\ d.assumptions = c.assumptions /\ d.scopes = c.scopes
  /\ d.symbols = c.symbols /\ d.vars = c.vars

\* A node is one the validation accepts, and if it is a variable a declared one.
ValidNode(d, i) ==
  /\ validate_header(d, d.nodes[i]) /\ validate_operands(d, i)
  /\ d.nodes[i].tag \in VarTags =>
       [name |-> blob_ref(d, d.nodes[i].payload), width |-> d.nodes[i].width] \in d.symbols

LEMMA BoolKept ==
  ASSUME NEW c, NEW d, IsTable(c.nodes), IsTable(d.nodes), Prefix(c.nodes, d.nodes),
         NEW ref, expect_bool(c, ref)
  PROVE  expect_bool(d, ref)
BY RefKept DEF expect_bool, meta_for

LEMMA SymbolKept ==
  ASSUME NEW c, NEW d, TablesInv(c), TablesInv(d), Grown(c, d), NodesInv(c),
         NEW i \in DOMAIN c.nodes, c.nodes[i].tag \in VarTags
  PROVE  d.nodes[i] = c.nodes[i] /\ blob_ref(d, c.nodes[i].payload) = blob_ref(c, c.nodes[i].payload)
<1>1. d.nodes[i] = c.nodes[i] /\ c.nodes[i].payload \in Nat
  BY TableLen DEF TablesInv, Grown, Prefix
<1>2. InBlob(c, c.nodes[i].payload)
  BY DEF NodesInv, validate_header, HasText
<1> QED BY <1>1, <1>2, BlobKept DEF TablesInv, Grown

LEMMA GrowKeeps ==
  ASSUME NEW c, NEW d, BuilderInv(c), TablesInv(d), Grown(c, d), SameQuery(c, d),
         Len(d.nodes) <= SortBit,
         \A i \in DOMAIN d.nodes \ DOMAIN c.nodes : ValidNode(d, i)
  PROVE  BuilderInv(d)
<1>1. /\ TablesInv(c) /\ NodesInv(c) /\ SymbolsInv(c) /\ QueryInv(c)
      /\ IsTable(c.nodes) /\ IsTable(d.nodes) /\ Prefix(c.nodes, d.nodes)
      /\ IsTable(c.blob) /\ IsTable(d.blob) /\ Prefix(c.blob, d.blob)
  BY DEF BuilderInv, TablesInv, Grown
<1>2. \A i \in DOMAIN c.nodes : i \in DOMAIN d.nodes /\ d.nodes[i] = c.nodes[i] /\ Placed(c.nodes[i])
  <2>1. /\ Len(c.nodes) \in Nat /\ DOMAIN c.nodes = 1 .. Len(c.nodes)
        /\ Len(d.nodes) \in Nat /\ DOMAIN d.nodes = 1 .. Len(d.nodes)
    BY <1>1, TableLen
  <2>2. \A i \in DOMAIN c.nodes : i \in DOMAIN d.nodes /\ d.nodes[i] = c.nodes[i]
    BY <1>1, <2>1 DEF Prefix
  <2>3. \A i \in DOMAIN c.nodes : Placed(c.nodes[i])
    BY <1>1 DEF TablesInv, Placed
  <2> QED BY <2>2, <2>3
<1>3. NodesInv(d)
  <2>1. ASSUME NEW i \in DOMAIN c.nodes
        PROVE  validate_header(d, d.nodes[i]) /\ validate_operands(d, i)
    <3>1. validate_header(c, c.nodes[i]) /\ validate_operands(c, i)
      BY <1>1 DEF NodesInv
    <3>2. validate_header(d, c.nodes[i])
      BY <1>1, <1>2, <3>1, HeaderKept
    <3>3. validate_operands(d, i)
      BY <1>1, <3>1, OperandsKept
    <3> QED BY <1>2, <3>2, <3>3
  <2> QED BY <2>1 DEF NodesInv, ValidNode
<1>4. SymbolsInv(d)
  <2>1. \A i \in DOMAIN c.nodes : c.nodes[i].tag \in VarTags =>
          d.nodes[i] = c.nodes[i] /\ blob_ref(d, c.nodes[i].payload) = blob_ref(c, c.nodes[i].payload)
    BY <1>1, SymbolKept
  <2>2. ASSUME NEW i \in DOMAIN d.nodes, d.nodes[i].tag \in VarTags
        PROVE  [name |-> blob_ref(d, d.nodes[i].payload), width |-> d.nodes[i].width] \in d.symbols
    <3>1. CASE i \in DOMAIN c.nodes
      <4>1. c.nodes[i].tag \in VarTags
        BY <1>2, <2>2, <3>1
      <4>2. [name |-> blob_ref(c, c.nodes[i].payload), width |-> c.nodes[i].width] \in c.symbols
        BY <1>1, <3>1, <4>1 DEF SymbolsInv
      <4> QED BY <2>1, <3>1, <4>1, <4>2 DEF SameQuery
    <3>2. CASE i \notin DOMAIN c.nodes
      BY <2>2, <3>2 DEF ValidNode
    <3> QED BY <3>1, <3>2
  <2>3. ASSUME NEW v \in d.vars
        PROVE  /\ Index(v.ref) + 1 \in DOMAIN d.nodes /\ NodeAt(d, v.ref).tag \in VarTags
               /\ NodeAt(d, v.ref).width = v.width /\ blob_ref(d, NodeAt(d, v.ref).payload) = v.name
    <3>1. /\ Index(v.ref) + 1 \in DOMAIN c.nodes /\ NodeAt(c, v.ref).tag \in VarTags
          /\ NodeAt(c, v.ref).width = v.width /\ blob_ref(c, NodeAt(c, v.ref).payload) = v.name
      BY <1>1 DEF SymbolsInv, SameQuery
    <3> QED BY <1>2, <2>1, <3>1 DEF NodeAt
  <2>4. \A s, t \in d.symbols : s.name = t.name => s.width = t.width
    BY <1>1 DEF SymbolsInv, SameQuery
  <2> QED BY <2>2, <2>3, <2>4 DEF SymbolsInv
<1>5. QueryInv(d)
  <2>1. \A ref : expect_bool(c, ref) => expect_bool(d, ref)
    BY <1>1, BoolKept
  <2>2. \A name \in Nat : HasText(c, name) => HasText(d, name)
    BY <1>1, BlobKept DEF HasText
  <2>3. \A a : AssertionInv(c, a) => AssertionInv(d, a)
    BY <2>1, <2>2 DEF AssertionInv
  <2> QED BY <1>1, <2>1, <2>3 DEF QueryInv, SameQuery
<1> QED BY <1>3, <1>4, <1>5 DEF BuilderInv

------------------------------------------------------------------------------
(* push_blob and push_node. *)

\* A builder with other tables.
LEMMA WithTables ==
  ASSUME NEW c, TablesInv(c), NEW X
  PROVE  /\ [c EXCEPT !.blob = X] =
              [nodes |-> c.nodes, children |-> c.children, blob |-> X, assertions |-> c.assertions,
               assumptions |-> c.assumptions, scopes |-> c.scopes, symbols |-> c.symbols, vars |-> c.vars]
         /\ [c EXCEPT !.children = X] =
              [nodes |-> c.nodes, children |-> X, blob |-> c.blob, assertions |-> c.assertions,
               assumptions |-> c.assumptions, scopes |-> c.scopes, symbols |-> c.symbols, vars |-> c.vars]
         /\ [c EXCEPT !.nodes = X] =
              [nodes |-> X, children |-> c.children, blob |-> c.blob, assertions |-> c.assertions,
               assumptions |-> c.assumptions, scopes |-> c.scopes, symbols |-> c.symbols, vars |-> c.vars]
BY DEF TablesInv

LEMMA PrefixSame ==
  ASSUME NEW s, IsTable(s)
  PROVE  Prefix(s, s)
BY TableLen DEF Prefix

\* The bytes are in the blob, where the payload says, and the rest is as it was.
LEMMA PushBlob ==
  ASSUME NEW c, BuilderInv(c), NEW bytes, IsTable(bytes)
  PROVE  /\ BuilderInv(push_blob(c, bytes).b) /\ Grown(c, push_blob(c, bytes).b)
         /\ SameQuery(c, push_blob(c, bytes).b) /\ push_blob(c, bytes).b.nodes = c.nodes
         /\ push_blob(c, bytes).ref # None =>
              /\ push_blob(c, bytes).ref \in Nat
              /\ BlobLen(push_blob(c, bytes).ref) = Len(bytes)
              /\ InBlob(push_blob(c, bytes).b, push_blob(c, bytes).ref)
              /\ blob_ref(push_blob(c, bytes).b, push_blob(c, bytes).ref) = bytes
<1>1. /\ TablesInv(c) /\ IsTable(c.nodes) /\ IsTable(c.children) /\ IsTable(c.blob)
      /\ Prefix(c.nodes, c.nodes) /\ Prefix(c.children, c.children) /\ Prefix(c.blob, c.blob)
  BY PrefixSame DEF BuilderInv, TablesInv
<1>2. CASE Len(c.blob) + Len(bytes) >= BlobBase
  <2>1. push_blob(c, bytes) = [b |-> c, ref |-> None]
    BY <1>2 DEF push_blob, Fail, Done
  <2> QED BY <1>1, <2>1 DEF Grown, SameQuery
<1>3. CASE ~ (Len(c.blob) + Len(bytes) >= BlobBase)
  <2> DEFINE d == [c EXCEPT !.blob = c.blob \o bytes]
             payload == Payload(Len(c.blob), Len(bytes))
  <2>1. push_blob(c, bytes) = [b |-> d, ref |-> payload]
    BY <1>3 DEF push_blob, Done
  <2>2. d = [nodes |-> c.nodes, children |-> c.children, blob |-> c.blob \o bytes, assertions |-> c.assertions,
             assumptions |-> c.assumptions, scopes |-> c.scopes, symbols |-> c.symbols, vars |-> c.vars]
    BY <1>1, WithTables
  <2> HIDE DEF d, payload
  <2>3. /\ d.nodes = c.nodes /\ d.children = c.children /\ d.blob = c.blob \o bytes /\ SameQuery(c, d)
    BY <2>2 DEF SameQuery
  <2>4. /\ IsTable(d.blob) /\ Len(d.blob) = Len(c.blob) + Len(bytes) /\ Len(c.blob) \in Nat /\ Len(bytes) \in Nat
        /\ \A i \in 1 .. Len(c.blob) : d.blob[i] = c.blob[i]
        /\ \A i \in 1 .. Len(bytes) : d.blob[Len(c.blob) + i] = bytes[i]
    <3> DEFINE s == c.blob
    <3>0. IsTable(s)
      BY <1>1
    <3> HIDE DEF s
    <3>1. /\ IsTable(s \o bytes) /\ Len(s \o bytes) = Len(s) + Len(bytes)
          /\ Len(s) \in Nat /\ Len(bytes) \in Nat
          /\ \A i \in 1 .. Len(s) : (s \o bytes)[i] = s[i]
          /\ \A i \in 1 .. Len(bytes) : (s \o bytes)[Len(s) + i] = bytes[i]
      BY <3>0, JoinTable
    <3> QED BY <2>3, <3>1 DEF s
  <2>5. Grown(c, d)
    BY <1>1, <2>3, <2>4 DEF Grown, Prefix
  <2>6. TablesInv(d)
    BY <1>1, <2>2, <2>3, <2>4 DEF TablesInv
  <2>7. BuilderInv(d)
    <3>1. Len(d.nodes) <= SortBit
      BY <2>3 DEF BuilderInv, NodesInv
    <3> QED BY <2>3, <2>5, <2>6, <3>1, GrowKeeps
  <2>8. /\ BlobOffset(payload) = Len(c.blob) /\ BlobLen(payload) = Len(bytes) /\ payload \in Nat
    <3>1. Len(bytes) \in 0 .. BlobBase - 1
      BY <1>3, <2>4, WireAssumption
    <3> QED BY <2>4, <3>1, PayloadParts DEF payload
  <2>9. InBlob(d, payload)
    BY <2>4, <2>8 DEF InBlob
  <2>10. blob_ref(d, payload) = bytes
    <3>2. blob_ref(d, payload) = SubSeq(d.blob, Len(c.blob) + 1, Len(c.blob) + Len(bytes))
      BY <2>8 DEF blob_ref
    <3>3. SubSeq(d.blob, Len(c.blob) + 1, Len(c.blob) + Len(bytes)) =
            [i \in 1 .. Len(bytes) |-> d.blob[Len(c.blob) + i]]
      <4> DEFINE s == d.blob
                 from == Len(c.blob)
                 len == Len(bytes)
      <4>1. IsTable(s) /\ from \in Nat /\ len \in Nat /\ from + len <= Len(s)
        BY <2>4
      <4> HIDE DEF s, from, len
      <4>2. SubSeq(s, from + 1, from + len) = [i \in 1 .. len |-> s[from + i]]
        BY <4>1, TablePart
      <4> QED BY <4>2 DEF s, from, len
    <3>5. bytes = [i \in 1 .. Len(bytes) |-> bytes[i]]
      BY <2>4 DEF IsTable
    <3> QED BY <2>4, <3>2, <3>3, <3>5
  <2> QED BY <2>1, <2>3, <2>5, <2>7, <2>8, <2>9, <2>10
<1> QED BY <1>2, <1>3

\* What the caller of push_node has checked: the node is one the validation
\* accepts at the end of the builder.  Where its operands start does not matter.
Fits(c, node, children) ==
  /\ IsTable(children) /\ node.arity = Len(children)
  /\ validate_header(c, node) /\ Placed(node)
  /\ operands_fit(c, Len(c.nodes) + 1, node, children)
  /\ node.tag \in VarTags =>
       [name |-> blob_ref(c, node.payload), width |-> node.width] \in c.symbols

LEMMA FitsAnywhere ==
  ASSUME NEW c, NEW tag, NEW arity, NEW hi, NEW width, NEW lo, NEW payload, NEW children, NEW start,
         Fits(c, RawNode(tag, arity, hi, width, lo, 0, payload), children)
  PROVE  Fits(c, RawNode(tag, arity, hi, width, lo, start, payload), children)
<1> DEFINE m == RawNode(tag, arity, hi, width, lo, 0, payload)
           n == RawNode(tag, arity, hi, width, lo, start, payload)
<1>1. /\ n.tag = m.tag /\ n.arity = m.arity /\ n.hi = m.hi /\ n.width = m.width /\ n.lo = m.lo
      /\ n.payload = m.payload
  BY DEF RawNode
<1>2. Fits(c, m, children)
  OBVIOUS
<1> HIDE DEF m, n
<1>3. validate_header(c, n)
  BY <1>1, <1>2 DEF Fits, validate_header, validate_arity, validate_node_width
<1>4. operands_fit(c, Len(c.nodes) + 1, n, children)
  BY <1>1, <1>2 DEF Fits, operands_fit
<1>5. Fits(c, n, children)
  BY <1>1, <1>2, <1>3, <1>4 DEF Fits, Placed
<1> QED BY <1>5 DEF n

\* The builder after the children were appended, and after the node was.
LEMMA AppendChildren ==
  ASSUME NEW c, BuilderInv(c), NEW children, IsTable(children), NEW d,
         d = [c EXCEPT !.children = c.children \o children]
  PROVE  /\ BuilderInv(d) /\ Grown(c, d) /\ SameQuery(c, d) /\ d.nodes = c.nodes /\ d.blob = c.blob
         /\ d.children = c.children \o children
<1>1. /\ TablesInv(c) /\ IsTable(c.nodes) /\ IsTable(c.children) /\ IsTable(c.blob)
      /\ Prefix(c.nodes, c.nodes) /\ Prefix(c.blob, c.blob)
  BY PrefixSame DEF BuilderInv, TablesInv
<1>2. d = [nodes |-> c.nodes, children |-> c.children \o children, blob |-> c.blob, assertions |-> c.assertions,
           assumptions |-> c.assumptions, scopes |-> c.scopes, symbols |-> c.symbols, vars |-> c.vars]
  BY <1>1, WithTables
<1>3. d.nodes = c.nodes /\ d.children = c.children \o children /\ d.blob = c.blob /\ SameQuery(c, d)
  BY <1>2 DEF SameQuery
<1>4. IsTable(d.children) /\ Prefix(c.children, d.children)
  <2> DEFINE s == c.children
  <2>1. IsTable(s)
    BY <1>1
  <2> HIDE DEF s
  <2>2. IsTable(s \o children) /\ Len(s) \in Nat /\ Len(children) \in Nat
        /\ Len(s \o children) = Len(s) + Len(children) /\ \A i \in 1 .. Len(s) : (s \o children)[i] = s[i]
    BY <2>1, JoinTable
  <2>3. IsTable(s \o children) /\ Prefix(s, s \o children)
    BY <2>2 DEF Prefix
  <2> QED BY <2>3, <1>3 DEF s
<1>5. Grown(c, d)
  BY <1>1, <1>3, <1>4 DEF Grown
<1>6. TablesInv(d)
  BY <1>1, <1>2, <1>3, <1>4 DEF TablesInv
<1>7. Len(d.nodes) <= SortBit
  BY <1>3 DEF BuilderInv, NodesInv
<1> QED BY <1>3, <1>5, <1>6, <1>7, GrowKeeps

WithNode(c, node) == [c EXCEPT !.nodes = Append(c.nodes, node)]

LEMMA AppendNode ==
  ASSUME NEW c, BuilderInv(c), Len(c.nodes) < SortBit, NEW node, NEW children, Fits(c, node, children),
         node.children \in Nat, node.arity > 0 => node.children + node.arity <= Len(c.children),
         node.arity > 0 => ChildrenOf(c, node) = children,
         NEW d, d = WithNode(c, node)
  PROVE  /\ BuilderInv(d) /\ Grown(c, d) /\ SameQuery(c, d) /\ d.blob = c.blob
         /\ Len(d.nodes) = Len(c.nodes) + 1 /\ d.nodes[Len(c.nodes) + 1] = node
         /\ IsTable(d.nodes)
<1>1. /\ TablesInv(c) /\ IsTable(c.nodes) /\ IsTable(c.children) /\ IsTable(c.blob)
      /\ Prefix(c.children, c.children) /\ Prefix(c.blob, c.blob)
  BY PrefixSame DEF BuilderInv, TablesInv
<1>2. d = [nodes |-> Append(c.nodes, node), children |-> c.children, blob |-> c.blob, assertions |-> c.assertions,
           assumptions |-> c.assumptions, scopes |-> c.scopes, symbols |-> c.symbols, vars |-> c.vars]
  BY <1>1, WithTables DEF WithNode
<1>3. d.nodes = Append(c.nodes, node) /\ d.children = c.children /\ d.blob = c.blob /\ SameQuery(c, d)
  BY <1>2 DEF SameQuery
<1>4. /\ IsTable(d.nodes) /\ Len(d.nodes) = Len(c.nodes) + 1 /\ Len(c.nodes) \in Nat
      /\ \A i \in 1 .. Len(c.nodes) : d.nodes[i] = c.nodes[i]
      /\ d.nodes[Len(c.nodes) + 1] = node
  <2> DEFINE s == c.nodes
  <2>1. IsTable(s)
    BY <1>1
  <2> HIDE DEF s
  <2>2. /\ IsTable(Append(s, node)) /\ Len(Append(s, node)) = Len(s) + 1 /\ Len(s) \in Nat
        /\ \A i \in 1 .. Len(s) : Append(s, node)[i] = s[i]
        /\ Append(s, node)[Len(s) + 1] = node
    BY <2>1, AppendTable
  <2> QED BY <2>2, <1>3 DEF s
<1>5. DOMAIN c.nodes = 1 .. Len(c.nodes) /\ DOMAIN d.nodes = 1 .. Len(c.nodes) + 1
  BY <1>1, <1>4, TableLen
<1>6. Grown(c, d) /\ Prefix(c.nodes, d.nodes)
  BY <1>1, <1>3, <1>4 DEF Grown, Prefix
<1>7. /\ node.arity \in Nat /\ Placed(node) /\ validate_header(c, node)
      /\ operands_fit(c, Len(c.nodes) + 1, node, children) /\ IsTable(children) /\ node.arity = Len(children)
  BY TableLen DEF Fits
<1>8. TablesInv(d)
  <2>1. \A i \in DOMAIN c.nodes : c.nodes[i].arity \in Nat /\ c.nodes[i].children \in Nat /\ Placed(c.nodes[i])
    BY <1>1 DEF TablesInv, Placed
  <2>2. \A i \in DOMAIN d.nodes : d.nodes[i].arity \in Nat /\ d.nodes[i].children \in Nat /\ Placed(d.nodes[i])
    BY <2>1, <1>4, <1>5, <1>7
  <2>3. IsTable(d.assertions) /\ IsTable(d.assumptions) /\ d.scopes \in Seq(Nat)
    BY <1>1, <1>3 DEF TablesInv, SameQuery
  <2>4. d = [nodes |-> d.nodes, children |-> d.children, blob |-> d.blob, assertions |-> d.assertions,
             assumptions |-> d.assumptions, scopes |-> d.scopes, symbols |-> d.symbols, vars |-> d.vars]
    BY <1>2
  <2> QED BY <1>1, <1>3, <1>4, <2>2, <2>3, <2>4 DEF TablesInv, Placed
<1>9. ValidNode(d, Len(c.nodes) + 1)
  <2> DEFINE i == Len(c.nodes) + 1
  <2>1. validate_header(d, node)
    BY <1>1, <1>3, <1>7, HeaderKept
  <2>2. operands_fit(d, i, node, children)
    BY <1>1, <1>4, <1>6, <1>7, FitKept
  <2>3. ChildrenOf(d, node) = children
    <3>1. CASE node.arity > 0
      BY <3>1, <1>3 DEF ChildrenOf
    <3>2. CASE node.arity = 0
      <4>1. children = <<>>
        <5>1. children \in Seq({children[k] : k \in DOMAIN children})
          BY <1>7 DEF IsTable
        <5> QED BY <5>1, <3>2, <1>7, EmptySeq
      <4>2. SubSeq(d.children, node.children + 1, node.children + node.arity) = <<>>
        BY <3>2, SubSeqEmpty
      <4> QED BY <4>1, <4>2 DEF ChildrenOf
    <3> QED BY <3>1, <3>2, <1>7
  <2>4. validate_operands(d, i)
    BY <1>3, <1>4, <2>2, <2>3 DEF validate_operands
  <2>5. node.tag \in VarTags => [name |-> blob_ref(d, node.payload), width |-> node.width] \in d.symbols
    BY <1>3 DEF Fits, SameQuery, blob_ref
  <2> QED BY <1>4, <2>1, <2>4, <2>5 DEF ValidNode
<1>10. BuilderInv(d)
  <2>1. Len(d.nodes) <= SortBit
    BY <1>4, WireAssumption
  <2>2. \A i \in DOMAIN d.nodes \ DOMAIN c.nodes : ValidNode(d, i)
    BY <1>4, <1>5, <1>9
  <2> QED BY <1>3, <1>6, <1>8, <2>1, <2>2, GrowKeeps
<1> QED BY <1>3, <1>4, <1>6, <1>10

\* What was appended is the part of the table behind the old one.
LEMMA JoinPart ==
  ASSUME NEW s, IsTable(s), NEW t, IsTable(t)
  PROVE  SubSeq(s \o t, Len(s) + 1, Len(s) + Len(t)) = t
<1>1. /\ IsTable(s \o t) /\ Len(s \o t) = Len(s) + Len(t) /\ Len(s) \in Nat /\ Len(t) \in Nat
      /\ \A i \in 1 .. Len(t) : (s \o t)[Len(s) + i] = t[i]
  BY JoinTable
<1> DEFINE u == s \o t
           from == Len(s)
           len == Len(t)
<1>2. IsTable(u) /\ from \in Nat /\ len \in Nat /\ from + len <= Len(u)
  BY <1>1
<1> HIDE DEF u, from, len
<1>3. SubSeq(u, from + 1, from + len) = [i \in 1 .. len |-> u[from + i]]
  BY <1>2, TablePart
<1>4. t = [i \in 1 .. Len(t) |-> t[i]]
  BY DEF IsTable
<1> QED BY <1>1, <1>3, <1>4 DEF u, from, len

LEMMA PushNode ==
  ASSUME NEW c, BuilderInv(c), NEW tag, NEW width, NEW children, NEW hi, NEW lo, NEW payload,
         Fits(c, RawNode(tag, Len(children), hi, width, lo, 0, payload), children),
         NEW r, r = push_node(c, tag, width, children, hi, lo, payload)
  PROVE  /\ BuilderInv(r.b) /\ SameQuery(c, r.b) /\ r.b.blob = c.blob
         /\ r.ref # None =>
              /\ Index(r.ref) + 1 \in DOMAIN r.b.nodes /\ NodeAt(r.b, r.ref).tag = tag
              /\ NodeAt(r.b, r.ref).width = width /\ NodeAt(r.b, r.ref).payload = payload
<1> DEFINE start == IF children = <<>> THEN 0 ELSE Len(c.children)
           node == RawNode(tag, Len(children), hi, width, lo, start, payload)
           d == [c EXCEPT !.children = c.children \o children]
           e == [d EXCEPT !.nodes = Append(d.nodes, node)]
           refused == \/ Len(children) > 2 * MaxPairs + 1 \/ Len(c.children) >= BlobBase
                      \/ \E k \in DOMAIN children : ~ meta_for(c, children[k])
<1>1. r = IF refused THEN [b |-> c, ref |-> None]
          ELSE IF Len(c.nodes) >= SortBit THEN [b |-> d, ref |-> None]
          ELSE [b |-> e, ref |-> NodeRef(result_sort(tag), Len(c.nodes))]
  <2>1. d.nodes = c.nodes
    BY WithTables DEF BuilderInv
  <2> QED BY <2>1 DEF push_node, Fail, Done
<1>2. Fits(c, node, children)
  BY FitsAnywhere
<1>3. IsTable(children) /\ Len(children) \in Nat /\ IsTable(c.children) /\ Len(c.children) \in Nat
  BY <1>2, TableLen DEF Fits, BuilderInv, TablesInv
<1>4. /\ node.tag = tag /\ node.width = width /\ node.payload = payload /\ node.children = start
      /\ node.arity = Len(children)
  BY DEF RawNode
<1>5. start \in Nat
  BY <1>3
<1>6. /\ BuilderInv(d) /\ Grown(c, d) /\ SameQuery(c, d) /\ d.nodes = c.nodes /\ d.blob = c.blob
      /\ d.children = c.children \o children
  BY <1>3, AppendChildren
<1>7. CASE refused
  BY <1>1, <1>7 DEF SameQuery
<1>8. CASE ~ refused /\ Len(c.nodes) >= SortBit
  BY <1>1, <1>6, <1>8
<1>9. CASE ~ refused /\ ~ (Len(c.nodes) >= SortBit)
  <2>1. Fits(d, node, children)
    <3>1. IsTable(c.blob) /\ IsTable(d.blob) /\ Prefix(c.blob, d.blob)
          /\ IsTable(c.nodes) /\ IsTable(d.nodes) /\ Prefix(c.nodes, d.nodes)
      BY <1>6 DEF BuilderInv, TablesInv, Grown
    <3> HIDE DEF d, node
    <3>2. validate_header(d, node)
      BY <1>2, <3>1, HeaderKept DEF Fits
    <3>3. operands_fit(d, Len(c.nodes) + 1, node, children)
      BY <1>2, <3>1, FitKept DEF Fits
    <3>4. blob_ref(d, node.payload) = blob_ref(c, node.payload)
      BY <1>6 DEF blob_ref
    <3> QED BY <1>2, <1>6, <3>2, <3>3, <3>4 DEF Fits, SameQuery
  <2>2. Len(d.nodes) \in Nat /\ Len(d.nodes) < SortBit
    BY <1>6, <1>9, TableLen, WireAssumption DEF BuilderInv, TablesInv
  <2>3. node.arity > 0 => children # <<>>
    BY <1>4
  <2>4. node.arity > 0 => node.children + node.arity <= Len(d.children)
    <3>1. Len(c.children \o children) = Len(c.children) + Len(children)
      <4> DEFINE s == c.children
      <4>1. IsTable(s)
        BY <1>3
      <4> HIDE DEF s
      <4>2. Len(s \o children) = Len(s) + Len(children)
        BY <4>1, <1>3, JoinTable
      <4> QED BY <4>2 DEF s
    <3> QED BY <1>3, <1>4, <1>6, <2>3, <3>1
  <2>5. node.arity > 0 => ChildrenOf(d, node) = children
    <3>1. SubSeq(c.children \o children, Len(c.children) + 1, Len(c.children) + Len(children)) = children
      <4> DEFINE s == c.children
      <4>1. IsTable(s)
        BY <1>3
      <4> HIDE DEF s
      <4>2. SubSeq(s \o children, Len(s) + 1, Len(s) + Len(children)) = children
        BY <4>1, <1>3, JoinPart
      <4> QED BY <4>2 DEF s
    <3>2. node.arity > 0 => node.children = Len(c.children)
      BY <1>4, <2>3
    <3> HIDE DEF d, node, start
    <3> QED BY <1>4, <1>6, <3>1, <3>2 DEF ChildrenOf
  <2>6. /\ BuilderInv(e) /\ SameQuery(d, e) /\ e.blob = d.blob /\ IsTable(e.nodes)
        /\ Len(e.nodes) = Len(d.nodes) + 1 /\ e.nodes[Len(d.nodes) + 1] = node
    <3>1. node.children \in Nat /\ e = WithNode(d, node)
      BY <1>4, <1>5 DEF WithNode
    <3> HIDE DEF d, e, node
    <3>2. BuilderInv(d)
      BY <1>6
    <3> QED BY ONLY <3>2, <2>1, <2>2, <2>4, <2>5, <3>1, AppendNode
  <2> HIDE DEF d, e, node
  <2>7. r.b = e /\ r.ref = NodeRef(result_sort(tag), Len(c.nodes))
    BY <1>1, <1>9
  <2>8. Index(r.ref) = Len(c.nodes)
    <3>1. result_sort(tag) \in {"bv", "bool"} /\ Len(c.nodes) \in 0 .. SortBit - 1
      BY <1>6, <2>2, WireAssumption DEF result_sort
    <3> QED BY <3>1, <2>7, RefParts
  <2>9. Index(r.ref) + 1 \in DOMAIN r.b.nodes
    BY <2>2, <2>6, <2>7, <2>8, <1>6, TableLen
  <2>10. NodeAt(r.b, r.ref) = node
    BY <2>6, <2>7, <2>8, <1>6 DEF NodeAt
  <2>11. SameQuery(c, e) /\ e.blob = c.blob
    BY <1>6, <2>6 DEF SameQuery
  <2> QED BY <1>4, <2>6, <2>7, <2>9, <2>10, <2>11
<1> QED BY <1>7, <1>8, <1>9

------------------------------------------------------------------------------
(* The constructors check what the validation will. *)

\* A reference that passes the builder's checks is an operand of the next node.
LEMMA NextChild ==
  ASSUME NEW c, BuilderInv(c), NEW x
  PROVE  /\ expect_bv(c, x) => expect_child(c, Len(c.nodes) + 1, x, "bv") /\ ValidWidth(WidthOf(c, x))
         /\ expect_bool(c, x) => expect_child(c, Len(c.nodes) + 1, x, "bool")
<1>1. Len(c.nodes) \in Nat /\ DOMAIN c.nodes = 1 .. Len(c.nodes)
  BY TableLen DEF BuilderInv, TablesInv
<1>2. ASSUME NEW sort, validate_node_ref(c, x, sort)
      PROVE  expect_child(c, Len(c.nodes) + 1, x, sort)
  BY <1>1, <1>2 DEF expect_child, validate_node_ref
<1>3. ASSUME expect_bv(c, x)
      PROVE  ValidWidth(WidthOf(c, x))
  <2>1. Index(x) + 1 \in DOMAIN c.nodes /\ result_sort(NodeAt(c, x).tag) = "bv"
    BY <1>3 DEF expect_bv, meta_for, validate_node_ref
  <2>2. validate_header(c, NodeAt(c, x))
    BY <2>1 DEF BuilderInv, NodesInv, NodeAt
  <2> QED BY <2>1, <2>2 DEF validate_header, validate_node_width, WidthOf
<1> QED BY <1>2, <1>3 DEF expect_bv, expect_bool, meta_for

\* The header of a node that has operands.
LEMMA InnerHeader ==
  ASSUME NEW c, NEW node, node.tag \in BvTags \cup BoolTags, node.tag \notin Leaves,
         validate_arity(node), validate_node_width(node)
  PROVE  validate_header(c, node) /\ Placed(node) /\ node.tag \notin VarTags
<1>1. node.tag \notin VarTags /\ node.tag # "BvConst"
  BY DEF Leaves
<1> QED BY <1>1 DEF validate_header, Placed

\* The classes of the tags that have operands.
LEMMA TagClasses ==
  /\ \A t \in UnaryTags : t \in BvTags /\ t \notin Leaves /\ fixed_arity(t) = 1 /\ t # "BvSelect"
  /\ \A t \in ExtendTags : t \in BvTags /\ t \notin Leaves /\ fixed_arity(t) = 1 /\ t # "BvSelect"
  /\ \A t \in BinaryTags : t \in BvTags /\ t \notin Leaves /\ fixed_arity(t) = 2 /\ t # "BvSelect"
  /\ \A t \in CompareTags : t \in BoolTags /\ t \notin BvTags /\ t \notin Leaves /\ fixed_arity(t) = 2 /\ t # "BvSelect"
  /\ \A t \in BoolPairs : t \in BoolTags /\ t \notin BvTags /\ t \notin Leaves /\ fixed_arity(t) = 2 /\ t # "BvSelect"
  /\ \A t \in {"BoolNot", "NegOverflow"} : t \in BoolTags /\ t \notin BvTags /\ t \notin Leaves /\ fixed_arity(t) = 1
  /\ \A t \in {"BvExtract", "BvConcat", "BvIte", "BvSelect"} : t \in BvTags /\ t \notin Leaves
  /\ fixed_arity("BvExtract") = 1 /\ fixed_arity("BvConcat") = 2 /\ fixed_arity("BvIte") = 3
<1>1. \A t \in UnaryTags : t \in BvTags /\ t \notin Leaves /\ fixed_arity(t) = 1 /\ t # "BvSelect"
  BY DEF UnaryTags, ExtendTags, BinaryTags, BoolPairs, CompareTags, ComparisonTags, OverflowTags, BvTags, BoolTags,
         Leaves, VarTags, fixed_arity
<1>2. \A t \in ExtendTags : t \in BvTags /\ t \notin Leaves /\ fixed_arity(t) = 1 /\ t # "BvSelect"
  BY DEF UnaryTags, ExtendTags, BinaryTags, BoolPairs, CompareTags, ComparisonTags, OverflowTags, BvTags, BoolTags,
         Leaves, VarTags, fixed_arity
<1>3. \A t \in BinaryTags : t \in BvTags /\ t \notin Leaves /\ fixed_arity(t) = 2 /\ t # "BvSelect"
  BY DEF UnaryTags, ExtendTags, BinaryTags, BoolPairs, CompareTags, ComparisonTags, OverflowTags, BvTags, BoolTags,
         Leaves, VarTags, fixed_arity
<1>4. \A t \in CompareTags : t \in BoolTags /\ t \notin BvTags /\ t \notin Leaves /\ fixed_arity(t) = 2 /\ t # "BvSelect"
  BY DEF UnaryTags, ExtendTags, BinaryTags, BoolPairs, CompareTags, ComparisonTags, OverflowTags, BvTags, BoolTags,
         Leaves, VarTags, fixed_arity
<1>5. \A t \in BoolPairs : t \in BoolTags /\ t \notin BvTags /\ t \notin Leaves /\ fixed_arity(t) = 2 /\ t # "BvSelect"
  BY DEF UnaryTags, ExtendTags, BinaryTags, BoolPairs, CompareTags, ComparisonTags, OverflowTags, BvTags, BoolTags,
         Leaves, VarTags, fixed_arity
<1>6. \A t \in {"BoolNot", "NegOverflow"} : t \in BoolTags /\ t \notin BvTags /\ t \notin Leaves /\ fixed_arity(t) = 1
  BY DEF UnaryTags, ExtendTags, BinaryTags, BoolPairs, CompareTags, ComparisonTags, OverflowTags, BvTags, BoolTags,
         Leaves, VarTags, fixed_arity
<1>7. \A t \in {"BvExtract", "BvConcat", "BvIte", "BvSelect"} : t \in BvTags /\ t \notin Leaves
  BY DEF UnaryTags, ExtendTags, BinaryTags, BoolPairs, CompareTags, ComparisonTags, OverflowTags, BvTags, BoolTags,
         Leaves, VarTags
<1>8. fixed_arity("BvExtract") = 1 /\ fixed_arity("BvConcat") = 2 /\ fixed_arity("BvIte") = 3
  BY DEF UnaryTags, ExtendTags, BinaryTags, BoolPairs, CompareTags, ComparisonTags, OverflowTags, BvTags, BoolTags,
         Leaves, VarTags, fixed_arity
<1> QED BY <1>1, <1>2, <1>3, <1>4, <1>5, <1>6, <1>7, <1>8

\* One class at a time: only the line of operands_fit for its tag asks anything.
LEMMA ClassesApart ==
  ASSUME NEW t
  PROVE  /\ t \in UnaryTags => t \notin BinaryTags \cup CompareTags \cup BoolPairs \cup ExtendTags
                \cup {"BoolNot", "NegOverflow", "BvConcat", "BvExtract", "BvIte", "BvSelect"}
         /\ t \in BinaryTags => t \notin UnaryTags \cup CompareTags \cup BoolPairs \cup ExtendTags
                \cup {"BoolNot", "NegOverflow", "BvConcat", "BvExtract", "BvIte", "BvSelect"}
         /\ t \in CompareTags => t \notin UnaryTags \cup BinaryTags \cup BoolPairs \cup ExtendTags
                \cup {"BoolNot", "NegOverflow", "BvConcat", "BvExtract", "BvIte", "BvSelect"}
         /\ t \in BoolPairs => t \notin UnaryTags \cup BinaryTags \cup CompareTags \cup ExtendTags
                \cup {"BoolNot", "NegOverflow", "BvConcat", "BvExtract", "BvIte", "BvSelect"}
         /\ t \in ExtendTags => t \notin UnaryTags \cup BinaryTags \cup CompareTags \cup BoolPairs
                \cup {"BoolNot", "NegOverflow", "BvConcat", "BvExtract", "BvIte", "BvSelect"}
         /\ t \in {"BoolNot", "NegOverflow", "BvConcat", "BvExtract", "BvIte", "BvSelect"} =>
              t \notin UnaryTags \cup BinaryTags \cup CompareTags \cup BoolPairs \cup ExtendTags
BY DEF UnaryTags, ExtendTags, BinaryTags, BoolPairs, CompareTags, ComparisonTags, OverflowTags

LEMMA OneKid ==
  ASSUME NEW x
  PROVE  IsTable(<<x>>) /\ Len(<<x>>) = 1 /\ <<x>>[1] = x
<1>1. <<x>> \in Seq({x})
  OBVIOUS
<1> QED BY <1>1, SeqIsTable

LEMMA TwoKids ==
  ASSUME NEW x, NEW y
  PROVE  IsTable(<<x, y>>) /\ Len(<<x, y>>) = 2 /\ <<x, y>>[1] = x /\ <<x, y>>[2] = y
<1>1. <<x, y>> \in Seq({x, y})
  OBVIOUS
<1> QED BY <1>1, SeqIsTable

LEMMA ThreeKids ==
  ASSUME NEW x, NEW y, NEW z
  PROVE  /\ IsTable(<<x, y, z>>) /\ Len(<<x, y, z>>) = 3
         /\ <<x, y, z>>[1] = x /\ <<x, y, z>>[2] = y /\ <<x, y, z>>[3] = z
<1>1. <<x, y, z>> \in Seq({x, y, z})
  OBVIOUS
<1> QED BY <1>1, SeqIsTable

\* push_node for a node with operands.
LEMMA PushInner ==
  ASSUME NEW c, BuilderInv(c), NEW tag \in BvTags \cup BoolTags, tag \notin Leaves,
         NEW width, NEW children, IsTable(children), NEW hi, NEW lo, NEW node,
         node = RawNode(tag, Len(children), hi, width, lo, 0, 0),
         validate_arity(node), validate_node_width(node),
         operands_fit(c, Len(c.nodes) + 1, node, children)
  PROVE  BuilderInv(push_node(c, tag, width, children, hi, lo, 0).b)
<1>1. node.tag = tag /\ node.arity = Len(children)
  BY DEF RawNode
<1>2. Fits(c, node, children)
  BY <1>1, InnerHeader DEF Fits
<1> QED BY <1>2, PushNode

LEMMA UnaryKeeps ==
  ASSUME NEW c, BuilderInv(c), NEW tag \in UnaryTags, NEW x
  PROVE  BuilderInv(bv_unary(c, tag, x).b)
<1> DEFINE ok == expect_bv(c, x)
<1>1. CASE ~ ok
  BY <1>1 DEF bv_unary, Checked, Fail, Done
<1>2. CASE ok
  <2> DEFINE node == RawNode(tag, Len(<<x>>), 0, WidthOf(c, x), 0, 0, 0)
  <2>1. expect_child(c, Len(c.nodes) + 1, x, "bv") /\ ValidWidth(WidthOf(c, x))
    BY <1>2, NextChild DEF expect_same_bv_width
  <2>2. /\ node.tag = tag /\ node.arity = 1 /\ node.width = WidthOf(c, x)
        /\ node.hi = 0 /\ node.lo = 0
    BY OneKid DEF RawNode
  <2> HIDE DEF node
  <2>3. tag \in BvTags \cup BoolTags /\ tag \notin Leaves
    BY TagClasses
  <2>4. validate_arity(node) /\ validate_node_width(node)
    BY <1>2, <2>1, <2>2, TagClasses DEF result_sort, validate_arity, validate_node_width
  <2>5. operands_fit(c, Len(c.nodes) + 1, node, <<x>>)
    BY <1>2, <2>1, <2>2, OneKid, ClassesApart DEF operands_fit, WidthOf, expect_same_bv_width
  <2>6. BuilderInv(push_node(c, tag, WidthOf(c, x), <<x>>, 0, 0, 0).b)
    BY <2>3, <2>4, <2>5, OneKid, PushInner DEF node
  <2> QED BY <1>2, <2>6 DEF bv_unary, Checked
<1> QED BY <1>1, <1>2

LEMMA BinaryKeeps ==
  ASSUME NEW c, BuilderInv(c), NEW tag \in BinaryTags, NEW x, NEW y
  PROVE  BuilderInv(bv_binary(c, tag, x, y).b)
<1> DEFINE ok == expect_same_bv_width(c, x, y)
<1>1. CASE ~ ok
  BY <1>1 DEF bv_binary, Checked, Fail, Done
<1>2. CASE ok
  <2> DEFINE node == RawNode(tag, Len(<<x, y>>), 0, WidthOf(c, x), 0, 0, 0)
  <2>1. /\ expect_child(c, Len(c.nodes) + 1, x, "bv") /\ ValidWidth(WidthOf(c, x))
        /\ expect_child(c, Len(c.nodes) + 1, y, "bv") /\ ValidWidth(WidthOf(c, y))
    BY <1>2, NextChild DEF expect_same_bv_width
  <2>2. /\ node.tag = tag /\ node.arity = 2 /\ node.width = WidthOf(c, x)
        /\ node.hi = 0 /\ node.lo = 0
    BY TwoKids DEF RawNode
  <2> HIDE DEF node
  <2>3. tag \in BvTags \cup BoolTags /\ tag \notin Leaves
    BY TagClasses
  <2>4. validate_arity(node) /\ validate_node_width(node)
    BY <1>2, <2>1, <2>2, TagClasses DEF result_sort, validate_arity, validate_node_width
  <2>5. operands_fit(c, Len(c.nodes) + 1, node, <<x, y>>)
    BY <1>2, <2>1, <2>2, TwoKids, ClassesApart DEF operands_fit, WidthOf, expect_same_bv_width
  <2>6. BuilderInv(push_node(c, tag, WidthOf(c, x), <<x, y>>, 0, 0, 0).b)
    BY <2>3, <2>4, <2>5, TwoKids, PushInner DEF node
  <2> QED BY <1>2, <2>6 DEF bv_binary, Checked
<1> QED BY <1>1, <1>2

LEMMA CompareKeeps ==
  ASSUME NEW c, BuilderInv(c), NEW tag \in CompareTags, NEW x, NEW y
  PROVE  BuilderInv(bv_comparison(c, tag, x, y).b)
<1> DEFINE ok == expect_same_bv_width(c, x, y)
<1>1. CASE ~ ok
  BY <1>1 DEF bv_comparison, Checked, Fail, Done
<1>2. CASE ok
  <2> DEFINE node == RawNode(tag, Len(<<x, y>>), 0, 0, 0, 0, 0)
  <2>1. /\ expect_child(c, Len(c.nodes) + 1, x, "bv") /\ ValidWidth(WidthOf(c, x))
        /\ expect_child(c, Len(c.nodes) + 1, y, "bv") /\ ValidWidth(WidthOf(c, y))
    BY <1>2, NextChild DEF expect_same_bv_width
  <2>2. /\ node.tag = tag /\ node.arity = 2 /\ node.width = 0
        /\ node.hi = 0 /\ node.lo = 0
    BY TwoKids DEF RawNode
  <2> HIDE DEF node
  <2>3. tag \in BvTags \cup BoolTags /\ tag \notin Leaves
    BY TagClasses
  <2>4. validate_arity(node) /\ validate_node_width(node)
    BY <1>2, <2>1, <2>2, TagClasses DEF result_sort, validate_arity, validate_node_width
  <2>5. operands_fit(c, Len(c.nodes) + 1, node, <<x, y>>)
    BY <1>2, <2>1, <2>2, TwoKids, ClassesApart DEF operands_fit, WidthOf, expect_same_bv_width
  <2>6. BuilderInv(push_node(c, tag, 0, <<x, y>>, 0, 0, 0).b)
    BY <2>3, <2>4, <2>5, TwoKids, PushInner DEF node
  <2> QED BY <1>2, <2>6 DEF bv_comparison, Checked
<1> QED BY <1>1, <1>2

LEMMA BoolBinaryKeeps ==
  ASSUME NEW c, BuilderInv(c), NEW tag \in BoolPairs, NEW x, NEW y
  PROVE  BuilderInv(bool_binary(c, tag, x, y).b)
<1> DEFINE ok == expect_bool(c, x) /\ expect_bool(c, y)
<1>1. CASE ~ ok
  BY <1>1 DEF bool_binary, Checked, Fail, Done
<1>2. CASE ok
  <2> DEFINE node == RawNode(tag, Len(<<x, y>>), 0, 0, 0, 0, 0)
  <2>1. /\ expect_child(c, Len(c.nodes) + 1, x, "bool")
        /\ expect_child(c, Len(c.nodes) + 1, y, "bool")
    BY <1>2, NextChild DEF expect_same_bv_width
  <2>2. /\ node.tag = tag /\ node.arity = 2 /\ node.width = 0
        /\ node.hi = 0 /\ node.lo = 0
    BY TwoKids DEF RawNode
  <2> HIDE DEF node
  <2>3. tag \in BvTags \cup BoolTags /\ tag \notin Leaves
    BY TagClasses
  <2>4. validate_arity(node) /\ validate_node_width(node)
    BY <1>2, <2>1, <2>2, TagClasses DEF result_sort, validate_arity, validate_node_width
  <2>5. operands_fit(c, Len(c.nodes) + 1, node, <<x, y>>)
    BY <1>2, <2>1, <2>2, TwoKids, ClassesApart DEF operands_fit, WidthOf, expect_same_bv_width
  <2>6. BuilderInv(push_node(c, tag, 0, <<x, y>>, 0, 0, 0).b)
    BY <2>3, <2>4, <2>5, TwoKids, PushInner DEF node
  <2> QED BY <1>2, <2>6 DEF bool_binary, Checked
<1> QED BY <1>1, <1>2

LEMMA ExtendKeeps ==
  ASSUME NEW c, BuilderInv(c), NEW tag \in ExtendTags, NEW x, NEW amount
  PROVE  BuilderInv(bv_extend(c, tag, x, amount).b)
<1> DEFINE ok == expect_bv(c, x) /\ ValidWidth(WidthOf(c, x) + amount)
<1>1. CASE ~ ok
  BY <1>1 DEF bv_extend, Checked, Fail, Done
<1>2. CASE ok
  <2> DEFINE node == RawNode(tag, Len(<<x>>), amount, WidthOf(c, x) + amount, 0, 0, 0)
  <2>1. expect_child(c, Len(c.nodes) + 1, x, "bv") /\ ValidWidth(WidthOf(c, x))
    BY <1>2, NextChild DEF expect_same_bv_width
  <2>2. /\ node.tag = tag /\ node.arity = 1 /\ node.width = WidthOf(c, x) + amount
        /\ node.hi = amount /\ node.lo = 0
    BY OneKid DEF RawNode
  <2> HIDE DEF node
  <2>3. tag \in BvTags \cup BoolTags /\ tag \notin Leaves
    BY TagClasses
  <2>4. validate_arity(node) /\ validate_node_width(node)
    BY <1>2, <2>1, <2>2, TagClasses DEF result_sort, validate_arity, validate_node_width
  <2>5. operands_fit(c, Len(c.nodes) + 1, node, <<x>>)
    BY <1>2, <2>1, <2>2, OneKid, ClassesApart DEF operands_fit, WidthOf, expect_same_bv_width
  <2>6. BuilderInv(push_node(c, tag, WidthOf(c, x) + amount, <<x>>, amount, 0, 0).b)
    BY <2>3, <2>4, <2>5, OneKid, PushInner DEF node
  <2> QED BY <1>2, <2>6 DEF bv_extend, Checked
<1> QED BY <1>1, <1>2

LEMMA BoolNotKeeps ==
  ASSUME NEW c, BuilderInv(c), NEW x
  PROVE  BuilderInv(bool_not(c, x).b)
<1> DEFINE ok == expect_bool(c, x)
<1>1. CASE ~ ok
  BY <1>1 DEF bool_not, Checked, Fail, Done
<1>2. CASE ok
  <2> DEFINE node == RawNode("BoolNot", Len(<<x>>), 0, 0, 0, 0, 0)
  <2>1. expect_child(c, Len(c.nodes) + 1, x, "bool")
    BY <1>2, NextChild DEF expect_same_bv_width
  <2>2. /\ node.tag = "BoolNot" /\ node.arity = 1 /\ node.width = 0
        /\ node.hi = 0 /\ node.lo = 0
    BY OneKid DEF RawNode
  <2> HIDE DEF node
  <2>3. "BoolNot" \in BvTags \cup BoolTags /\ "BoolNot" \notin Leaves
    BY TagClasses
  <2>4. validate_arity(node) /\ validate_node_width(node)
    BY <1>2, <2>1, <2>2, TagClasses DEF result_sort, validate_arity, validate_node_width
  <2>5. operands_fit(c, Len(c.nodes) + 1, node, <<x>>)
    BY <1>2, <2>1, <2>2, OneKid, ClassesApart DEF operands_fit, WidthOf, expect_same_bv_width
  <2>6. BuilderInv(push_node(c, "BoolNot", 0, <<x>>, 0, 0, 0).b)
    BY <2>3, <2>4, <2>5, OneKid, PushInner DEF node
  <2> QED BY <1>2, <2>6 DEF bool_not, Checked
<1> QED BY <1>1, <1>2

LEMMA NegOvfKeeps ==
  ASSUME NEW c, BuilderInv(c), NEW x
  PROVE  BuilderInv(neg_ovf(c, x).b)
<1> DEFINE ok == expect_bv(c, x)
<1>1. CASE ~ ok
  BY <1>1 DEF neg_ovf, Checked, Fail, Done
<1>2. CASE ok
  <2> DEFINE node == RawNode("NegOverflow", Len(<<x>>), 0, 0, 0, 0, 0)
  <2>1. expect_child(c, Len(c.nodes) + 1, x, "bv") /\ ValidWidth(WidthOf(c, x))
    BY <1>2, NextChild DEF expect_same_bv_width
  <2>2. /\ node.tag = "NegOverflow" /\ node.arity = 1 /\ node.width = 0
        /\ node.hi = 0 /\ node.lo = 0
    BY OneKid DEF RawNode
  <2> HIDE DEF node
  <2>3. "NegOverflow" \in BvTags \cup BoolTags /\ "NegOverflow" \notin Leaves
    BY TagClasses
  <2>4. validate_arity(node) /\ validate_node_width(node)
    BY <1>2, <2>1, <2>2, TagClasses DEF result_sort, validate_arity, validate_node_width
  <2>5. operands_fit(c, Len(c.nodes) + 1, node, <<x>>)
    BY <1>2, <2>1, <2>2, OneKid, ClassesApart DEF operands_fit, WidthOf, expect_same_bv_width
  <2>6. BuilderInv(push_node(c, "NegOverflow", 0, <<x>>, 0, 0, 0).b)
    BY <2>3, <2>4, <2>5, OneKid, PushInner DEF node
  <2> QED BY <1>2, <2>6 DEF neg_ovf, Checked
<1> QED BY <1>1, <1>2

LEMMA ExtractKeeps ==
  ASSUME NEW c, BuilderInv(c), NEW x, NEW hi \in Nat, NEW lo \in Nat
  PROVE  BuilderInv(bv_extract(c, x, hi, lo).b)
<1> DEFINE ok == expect_bv(c, x) /\ lo <= hi /\ hi < WidthOf(c, x)
<1>1. CASE ~ ok
  BY <1>1 DEF bv_extract, Checked, Fail, Done
<1>2. CASE ok
  <2> DEFINE node == RawNode("BvExtract", Len(<<x>>), hi, hi - lo + 1, lo, 0, 0)
  <2>1. expect_child(c, Len(c.nodes) + 1, x, "bv") /\ ValidWidth(WidthOf(c, x))
    BY <1>2, NextChild DEF expect_same_bv_width
  <2>2. /\ node.tag = "BvExtract" /\ node.arity = 1 /\ node.width = hi - lo + 1
        /\ node.hi = hi /\ node.lo = lo
    BY OneKid DEF RawNode
  <2> HIDE DEF node
  <2>3. "BvExtract" \in BvTags \cup BoolTags /\ "BvExtract" \notin Leaves
    BY TagClasses
  <2>4. validate_arity(node) /\ validate_node_width(node)
    <3>1. ValidWidth(hi - lo + 1)
      BY <1>2, <2>1, BytesAssumption DEF ValidWidth
    <3> QED BY <2>2, <3>1, TagClasses DEF result_sort, validate_arity, validate_node_width
  <2>5. operands_fit(c, Len(c.nodes) + 1, node, <<x>>)
    BY <1>2, <2>1, <2>2, OneKid, ClassesApart DEF operands_fit, WidthOf, expect_same_bv_width
  <2>6. BuilderInv(push_node(c, "BvExtract", hi - lo + 1, <<x>>, hi, lo, 0).b)
    BY <2>3, <2>4, <2>5, OneKid, PushInner DEF node
  <2> QED BY <1>2, <2>6 DEF bv_extract, Checked
<1> QED BY <1>1, <1>2

LEMMA ConcatKeeps ==
  ASSUME NEW c, BuilderInv(c), NEW x, NEW y
  PROVE  BuilderInv(bv_concat(c, x, y).b)
<1> DEFINE ok == expect_bv(c, x) /\ expect_bv(c, y) /\ ValidWidth(WidthOf(c, x) + WidthOf(c, y))
<1>1. CASE ~ ok
  BY <1>1 DEF bv_concat, Checked, Fail, Done
<1>2. CASE ok
  <2> DEFINE node == RawNode("BvConcat", Len(<<x, y>>), 0, WidthOf(c, x) + WidthOf(c, y), 0, 0, 0)
  <2>1. /\ expect_child(c, Len(c.nodes) + 1, x, "bv") /\ ValidWidth(WidthOf(c, x))
        /\ expect_child(c, Len(c.nodes) + 1, y, "bv") /\ ValidWidth(WidthOf(c, y))
    BY <1>2, NextChild DEF expect_same_bv_width
  <2>2. /\ node.tag = "BvConcat" /\ node.arity = 2 /\ node.width = WidthOf(c, x) + WidthOf(c, y)
        /\ node.hi = 0 /\ node.lo = 0
    BY TwoKids DEF RawNode
  <2> HIDE DEF node
  <2>3. "BvConcat" \in BvTags \cup BoolTags /\ "BvConcat" \notin Leaves
    BY TagClasses
  <2>4. validate_arity(node) /\ validate_node_width(node)
    BY <1>2, <2>1, <2>2, TagClasses DEF result_sort, validate_arity, validate_node_width
  <2>5. operands_fit(c, Len(c.nodes) + 1, node, <<x, y>>)
    BY <1>2, <2>1, <2>2, TwoKids, ClassesApart DEF operands_fit, WidthOf, expect_same_bv_width
  <2>6. BuilderInv(push_node(c, "BvConcat", WidthOf(c, x) + WidthOf(c, y), <<x, y>>, 0, 0, 0).b)
    BY <2>3, <2>4, <2>5, TwoKids, PushInner DEF node
  <2> QED BY <1>2, <2>6 DEF bv_concat, Checked
<1> QED BY <1>1, <1>2

LEMMA IteKeeps ==
  ASSUME NEW c, BuilderInv(c), NEW cond, NEW x, NEW y
  PROVE  BuilderInv(bv_ite(c, cond, x, y).b)
<1> DEFINE ok == expect_bool(c, cond) /\ expect_same_bv_width(c, x, y)
<1>1. CASE ~ ok
  BY <1>1 DEF bv_ite, Checked, Fail, Done
<1>2. CASE ok
  <2> DEFINE node == RawNode("BvIte", Len(<<cond, x, y>>), 0, WidthOf(c, x), 0, 0, 0)
  <2>1. /\ expect_child(c, Len(c.nodes) + 1, cond, "bool")
        /\ expect_child(c, Len(c.nodes) + 1, x, "bv") /\ ValidWidth(WidthOf(c, x))
        /\ expect_child(c, Len(c.nodes) + 1, y, "bv") /\ ValidWidth(WidthOf(c, y))
    BY <1>2, NextChild DEF expect_same_bv_width
  <2>2. /\ node.tag = "BvIte" /\ node.arity = 3 /\ node.width = WidthOf(c, x)
        /\ node.hi = 0 /\ node.lo = 0
    BY ThreeKids DEF RawNode
  <2> HIDE DEF node
  <2>3. "BvIte" \in BvTags \cup BoolTags /\ "BvIte" \notin Leaves
    BY TagClasses
  <2>4. validate_arity(node) /\ validate_node_width(node)
    BY <1>2, <2>1, <2>2, TagClasses DEF result_sort, validate_arity, validate_node_width
  <2>5. operands_fit(c, Len(c.nodes) + 1, node, <<cond, x, y>>)
    BY <1>2, <2>1, <2>2, ThreeKids, ClassesApart DEF operands_fit, WidthOf, expect_same_bv_width
  <2>6. BuilderInv(push_node(c, "BvIte", WidthOf(c, x), <<cond, x, y>>, 0, 0, 0).b)
    BY <2>3, <2>4, <2>5, ThreeKids, PushInner DEF node
  <2> QED BY <1>2, <2>6 DEF bv_ite, Checked
<1> QED BY <1>1, <1>2

\* The operands of a select: a selector and a value in turn, and the default.
LEMMA SelectKeeps ==
  ASSUME NEW c, BuilderInv(c), NEW selectors, IsTable(selectors), NEW values, IsTable(values), NEW default
  PROVE  BuilderInv(bv_select(c, selectors, values, default).b)
<1> DEFINE n == Len(selectors)
           ok == /\ Len(selectors) = Len(values) /\ Len(selectors) <= MaxPairs
                 /\ expect_bv(c, default)
                 /\ \A k \in DOMAIN selectors :
                      expect_bool(c, selectors[k]) /\ expect_same_bv_width(c, values[k], default)
           kids == [k \in 1 .. 2 * n + 1 |->
                      IF k > 2 * n THEN default
                      ELSE IF k % 2 = 1 THEN selectors[(k + 1) \div 2] ELSE values[k \div 2]]
           i == Len(c.nodes) + 1
<1>1. CASE ~ ok
  BY <1>1 DEF bv_select, Checked, Fail, Done
<1>2. CASE ok
  <2> DEFINE node == RawNode("BvSelect", Len(kids), n, WidthOf(c, default), 0, 0, 0)
  <2>1. n \in Nat /\ DOMAIN selectors = 1 .. n
    BY TableLen
  <2>2. IsTable(kids) /\ Len(kids) = 2 * n + 1
    <3>1. 2 * n + 1 \in Nat /\ kids = [k \in 1 .. 2 * n + 1 |-> kids[k]]
      BY <2>1
    <3> HIDE DEF kids
    <3> QED BY <3>1, FunctionIsTable
  <2>3. kids[2 * n + 1] = default
    BY <2>1
  <2>4. \A p \in 1 .. n : kids[2 * p - 1] = selectors[p] /\ kids[2 * p] = values[p]
    BY <2>1
  <2>5. expect_child(c, i, default, "bv") /\ ValidWidth(WidthOf(c, default))
    BY <1>2, NextChild
  <2>6. ASSUME NEW p \in 1 .. n
        PROVE  /\ expect_child(c, i, selectors[p], "bool") /\ expect_child(c, i, values[p], "bv")
               /\ WidthOf(c, values[p]) = WidthOf(c, default)
    BY <1>2, <2>1, NextChild DEF expect_same_bv_width
  <2> HIDE DEF kids
  <2>7. /\ node.tag = "BvSelect" /\ node.arity = 2 * n + 1 /\ node.width = WidthOf(c, default) /\ node.hi = n
    BY <2>2 DEF RawNode
  <2> HIDE DEF node
  <2>8. validate_arity(node)
    BY <2>1, <2>7 DEF validate_arity
  <2>9. validate_node_width(node)
    BY <2>5, <2>7, TagClasses DEF validate_node_width, result_sort
  <2>10. operands_fit(c, i, node, kids)
    <3>1. node.hi = (node.arity - 1) \div 2
      <4>1. node.arity - 1 = n * 2 + 0
        BY <2>1, <2>7
      <4> HIDE DEF n
      <4>2. \A q \in Nat : (q * 2 + 0) \div 2 = q
        OBVIOUS
      <4>3. (n * 2 + 0) \div 2 = n
        BY <2>1, <4>2
      <4> QED BY <2>7, <4>1, <4>3
    <3>2. expect_child(c, i, kids[node.arity], "bv") /\ node.width = NodeAt(c, kids[node.arity]).width
      BY <2>3, <2>5, <2>7 DEF WidthOf
    <3>3. \A p \in 1 .. node.hi :
            /\ expect_child(c, i, kids[2 * p - 1], "bool") /\ expect_child(c, i, kids[2 * p], "bv")
            /\ NodeAt(c, kids[2 * p]).width = NodeAt(c, kids[node.arity]).width
      BY <2>3, <2>4, <2>6, <2>7 DEF WidthOf
    <3> HIDE DEF i
    <3> QED BY <2>7, <3>1, <3>2, <3>3, ClassesApart DEF operands_fit
  <2>11. BuilderInv(push_node(c, "BvSelect", WidthOf(c, default), kids, n, 0, 0).b)
    <3>1. node = RawNode("BvSelect", Len(kids), n, WidthOf(c, default), 0, 0, 0)
      BY DEF node
    <3>2. "BvSelect" \in BvTags \cup BoolTags /\ "BvSelect" \notin Leaves
      BY TagClasses
    <3> QED BY <2>2, <2>8, <2>9, <2>10, <3>1, <3>2, PushInner
  <2> QED BY <1>2, <2>11 DEF bv_select, Checked, kids
<1> QED BY <1>1, <1>2

\* Leaves that are not variables.
LEMMA PushLeaf ==
  ASSUME NEW c, BuilderInv(c), NEW tag \in {"BvConst", "BoolTrue", "BoolFalse"}, NEW width, NEW payload,
         tag = "BvConst" => ValidWidth(width), tag # "BvConst" => width = 0,
         tag = "BvConst" /\ width > WordBits =>
           payload \in Nat /\ BlobLen(payload) = NumBytes(width) /\ InBlob(c, payload)
  PROVE  BuilderInv(push_node(c, tag, width, <<>>, 0, 0, payload).b)
<1> DEFINE node == RawNode(tag, Len(<<>>), 0, width, 0, 0, payload)
<1>1. node.tag = tag /\ node.arity = 0 /\ node.width = width /\ node.payload = payload
  BY EmptySeq DEF RawNode
<1>2. /\ tag \in BvTags \cup BoolTags /\ tag \in Leaves /\ tag \notin VarTags /\ tag # "BvSelect"
      /\ tag = "BvConst" <=> tag \in BvTags
  BY DEF UnaryTags, ExtendTags, BinaryTags, BvTags, BoolTags, Leaves, VarTags
<1> HIDE DEF node
<1>3. validate_arity(node) /\ validate_node_width(node)
  BY <1>1, <1>2 DEF validate_arity, validate_node_width, fixed_arity, result_sort
<1>4. validate_header(c, node) /\ Placed(node)
  BY <1>1, <1>2, <1>3 DEF validate_header, Placed
<1>5. operands_fit(c, Len(c.nodes) + 1, node, <<>>)
  BY <1>1 DEF operands_fit, UnaryTags, ExtendTags, BinaryTags, BoolPairs, CompareTags, ComparisonTags, OverflowTags
<1>6. IsTable(<<>>) /\ Len(<<>>) = 0
  BY EmptySeq, SeqIsTable
<1>7. Fits(c, node, <<>>)
  BY <1>1, <1>2, <1>4, <1>5, <1>6 DEF Fits
<1> QED BY <1>7, PushNode DEF node

\* Any value, of any width, is a constant of as many bytes as the width takes.
LEMMA NumBytesNat ==
  ASSUME NEW w \in Nat \ {0}
  PROVE  NumBytes(w) \in Nat \ {0}
<1>1. w + ByteBits - 1 \in Nat /\ w + ByteBits - 1 >= ByteBits
  BY BytesAssumption
<1>2. (w + ByteBits - 1) \div ByteBits \in Nat \ {0}
  BY <1>1, BytesAssumption
<1> QED BY <1>2 DEF NumBytes

\* Masking changes no length.
LEMMA MaskLen ==
  ASSUME NEW bytes, IsTable(bytes), NEW w
  PROVE  IsTable(mask_unused_high_bits(bytes, w)) /\ Len(mask_unused_high_bits(bytes, w)) = Len(bytes)
<1>1. CASE w % ByteBits = 0 \/ bytes = <<>>
  BY <1>1 DEF mask_unused_high_bits
<1>2. CASE ~ (w % ByteBits = 0 \/ bytes = <<>>)
  <2> DEFINE v == bytes[Len(bytes)] % 2 ^ (w % ByteBits)
             s == [bytes EXCEPT ![Len(bytes)] = v]
  <2>1. mask_unused_high_bits(bytes, w) = s
    BY <1>2 DEF mask_unused_high_bits
  <2>2. Len(bytes) \in Nat /\ bytes = [k \in 1 .. Len(bytes) |-> bytes[k]]
    BY DEF IsTable
  <2> HIDE DEF v
  <2>3. s = [k \in 1 .. Len(bytes) |-> s[k]]
    BY <2>2
  <2> HIDE DEF s
  <2>4. IsTable(s) /\ Len(s) = Len(bytes)
    BY <2>2, <2>3, FunctionIsTable
  <2> QED BY <2>1, <2>4
<1> QED BY <1>1, <1>2

\* A wide constant: its bytes in the blob, then its node.
LEMMA WideKeeps ==
  ASSUME NEW c, BuilderInv(c), NEW bytes, IsTable(bytes), NEW width, ValidWidth(width),
         Len(bytes) = NumBytes(width), NEW r, r = push_blob(c, bytes)
  PROVE  /\ BuilderInv(r.b)
         /\ r.ref # None => BuilderInv(push_node(r.b, "BvConst", width, <<>>, 0, 0, r.ref).b)
<1>1. BuilderInv(r.b)
  BY PushBlob
<1>2. ASSUME r.ref # None
      PROVE  BuilderInv(push_node(r.b, "BvConst", width, <<>>, 0, 0, r.ref).b)
  <2>1. r.ref \in Nat /\ BlobLen(r.ref) = NumBytes(width) /\ InBlob(r.b, r.ref)
    BY <1>2, PushBlob
  <2> QED BY <1>1, <2>1, PushLeaf
<1> QED BY <1>1, <1>2

LEMMA ConstKeeps ==
  ASSUME NEW c, BuilderInv(c), NEW value, NEW width
  PROVE  BuilderInv(bv_const(c, value, width).b)
<1>1. CASE ~ ValidWidth(width)
  BY <1>1 DEF bv_const, Fail, Done
<1>2. CASE ValidWidth(width) /\ width <= WordBits
  <2>1. width \in Nat \ {0} /\ WordBits \in Nat
    BY <1>2, BytesAssumption, WireAssumption DEF ValidWidth
  <2>2. ~ (width > WordBits)
    BY <1>2, <2>1
  <2> DEFINE v == value % 2 ^ width
  <2> HIDE DEF v
  <2>3. BuilderInv(push_node(c, "BvConst", width, <<>>, 0, 0, v).b)
    BY <1>2, <2>2, PushLeaf
  <2> QED BY <1>2, <2>3 DEF bv_const, v
<1>3. CASE ValidWidth(width) /\ ~ (width <= WordBits)
  <2> DEFINE r == resize(word_le(value), width)
             bytes == mask_unused_high_bits(r, width)
  <2>1. NumBytes(width) \in Nat
    BY <1>3, NumBytesNat, BytesAssumption DEF ValidWidth
  <2>2. r = [k \in 1 .. NumBytes(width) |-> r[k]]
    BY DEF resize
  <2> HIDE DEF r
  <2>3. IsTable(r) /\ Len(r) = NumBytes(width)
    BY <2>1, <2>2, FunctionIsTable
  <2>4. IsTable(bytes) /\ Len(bytes) = NumBytes(width)
    BY <2>3, MaskLen
  <2> HIDE DEF bytes
  <2> DEFINE p == push_blob(c, bytes)
  <2>5. /\ BuilderInv(p.b)
        /\ p.ref # None => BuilderInv(push_node(p.b, "BvConst", width, <<>>, 0, 0, p.ref).b)
    BY <1>3, <2>4, WideKeeps
  <2> QED BY <1>3, <2>5 DEF bv_const, Then, bytes, r
<1> QED BY <1>1, <1>2, <1>3

LEMMA ConstWideKeeps ==
  ASSUME NEW c, BuilderInv(c), NEW bytes, IsTable(bytes), NEW width
  PROVE  BuilderInv(bv_const_wide(c, bytes, width).b)
<1> DEFINE normalized == mask_unused_high_bits(bytes, width)
<1>1. IsTable(normalized) /\ Len(normalized) = Len(bytes)
  BY MaskLen
<1>2. CASE ~ ValidWidth(width) \/ Len(bytes) # NumBytes(width)
  BY <1>2 DEF bv_const_wide, Fail, Done
<1>3. CASE ~ (~ ValidWidth(width) \/ Len(bytes) # NumBytes(width)) /\ width <= WordBits
  <2>1. BuilderInv(bv_const(c, Value(normalized), width).b)
    BY ConstKeeps
  <2> QED BY <1>3, <2>1 DEF bv_const_wide
<1>4. CASE ~ (~ ValidWidth(width) \/ Len(bytes) # NumBytes(width)) /\ ~ (width <= WordBits)
  <2> HIDE DEF normalized
  <2> DEFINE p == push_blob(c, normalized)
  <2>1. /\ BuilderInv(p.b)
        /\ p.ref # None => BuilderInv(push_node(p.b, "BvConst", width, <<>>, 0, 0, p.ref).b)
    BY <1>1, <1>4, WideKeeps
  <2> QED BY <1>4, <2>1 DEF bv_const_wide, Then, normalized
<1> QED BY <1>2, <1>3, <1>4

LEMMA BoolConstKeeps ==
  ASSUME NEW c, BuilderInv(c), NEW value
  PROVE  BuilderInv(bool_const(c, value).b)
<1> DEFINE tag == IF value THEN "BoolTrue" ELSE "BoolFalse"
<1>1. tag \in {"BvConst", "BoolTrue", "BoolFalse"} /\ tag # "BvConst"
  OBVIOUS
<1> HIDE DEF tag
<1>2. BuilderInv(push_node(c, tag, 0, <<>>, 0, 0, 0).b)
  BY <1>1, PushLeaf
<1> QED BY <1>2 DEF bool_const, tag

------------------------------------------------------------------------------
(* The maps and the query. *)

\* A builder with the nodes of another.
LEMMA SameNodes ==
  ASSUME NEW c, BuilderInv(c), NEW d,
         d = [nodes |-> c.nodes, children |-> c.children, blob |-> c.blob, assertions |-> d.assertions,
              assumptions |-> d.assumptions, scopes |-> d.scopes, symbols |-> d.symbols, vars |-> d.vars],
         IsTable(d.assertions), IsTable(d.assumptions), d.scopes \in Seq(Nat)
  PROVE  /\ TablesInv(d) /\ NodesInv(d) /\ d.nodes = c.nodes
         /\ \A ref : expect_bool(d, ref) <=> expect_bool(c, ref)
         /\ \A a : AssertionInv(d, a) <=> AssertionInv(c, a)
         /\ \A ref : NodeAt(d, ref) = NodeAt(c, ref)
         /\ \A payload : blob_ref(d, payload) = blob_ref(c, payload)
<1>1. d.nodes = c.nodes /\ d.children = c.children /\ d.blob = c.blob
  OBVIOUS
<1>2. /\ TablesInv(c) /\ NodesInv(c) /\ IsTable(c.nodes) /\ IsTable(c.children) /\ IsTable(c.blob)
      /\ Prefix(c.nodes, c.nodes) /\ Prefix(c.children, c.children) /\ Prefix(c.blob, c.blob)
  BY PrefixSame DEF BuilderInv, TablesInv
<1>3. TablesInv(d)
  BY <1>1, <1>2 DEF TablesInv
<1>4. Grown(c, d)
  BY <1>1, <1>2 DEF Grown
<1>5. NodesInv(d)
  <2>1. ASSUME NEW i \in DOMAIN c.nodes
        PROVE  validate_header(d, c.nodes[i]) /\ validate_operands(d, i)
    <3>1. validate_header(c, c.nodes[i]) /\ validate_operands(c, i) /\ Placed(c.nodes[i])
      BY <1>2 DEF NodesInv, TablesInv, Placed
    <3>2. validate_header(d, c.nodes[i])
      BY <1>1, <1>2, <3>1, HeaderKept
    <3>3. validate_operands(d, i)
      BY <1>2, <1>3, <1>4, <3>1, OperandsKept
    <3> QED BY <3>2, <3>3
  <2> QED BY <1>1, <1>2, <2>1 DEF NodesInv
<1>6. \A ref : NodeAt(d, ref) = NodeAt(c, ref)
  BY <1>1 DEF NodeAt
<1>7. \A ref : expect_bool(d, ref) <=> expect_bool(c, ref)
  BY <1>1, <1>6 DEF expect_bool, meta_for, validate_node_ref
<1>8. \A payload : blob_ref(d, payload) = blob_ref(c, payload)
  BY <1>1 DEF blob_ref
<1>9. \A a : AssertionInv(d, a) <=> AssertionInv(c, a)
  <2>1. \A payload : HasText(d, payload) <=> HasText(c, payload)
    BY <1>1, <1>8 DEF HasText, InBlob
  <2> QED BY <1>7, <2>1 DEF AssertionInv
<1> QED BY <1>1, <1>3, <1>5, <1>6, <1>7, <1>8, <1>9

\* The signature of a symbol is fixed when it is declared.
LEMMA DeclareKeeps ==
  ASSUME NEW c, BuilderInv(c), NEW name, NEW width, expect_symbol_signature(c, name, width), NEW d,
         d = [c EXCEPT !.symbols = c.symbols \cup {[name |-> name, width |-> width]}]
  PROVE  BuilderInv(d) /\ [name |-> name, width |-> width] \in d.symbols
<1> DEFINE new == [name |-> name, width |-> width]
<1>1. /\ d = [nodes |-> c.nodes, children |-> c.children, blob |-> c.blob, assertions |-> d.assertions,
              assumptions |-> d.assumptions, scopes |-> d.scopes, symbols |-> d.symbols, vars |-> d.vars]
      /\ d.assertions = c.assertions /\ d.assumptions = c.assumptions /\ d.scopes = c.scopes /\ d.vars = c.vars
      /\ d.symbols = c.symbols \cup {new}
  BY DEF BuilderInv, TablesInv
<1>2. /\ TablesInv(d) /\ NodesInv(d) /\ d.nodes = c.nodes
      /\ \A ref : expect_bool(d, ref) <=> expect_bool(c, ref)
      /\ \A a : AssertionInv(d, a) <=> AssertionInv(c, a)
      /\ \A ref : NodeAt(d, ref) = NodeAt(c, ref)
      /\ \A payload : blob_ref(d, payload) = blob_ref(c, payload)
  <2>1. IsTable(d.assertions) /\ IsTable(d.assumptions) /\ d.scopes \in Seq(Nat)
    BY <1>1 DEF BuilderInv, TablesInv
  <2> QED BY ONLY <1>1, <2>1, BuilderInv(c), SameNodes
<1>3. QueryInv(d)
  BY <1>1, <1>2 DEF BuilderInv, QueryInv
<1>4. SymbolsInv(d)
  <2>1. \A s \in c.symbols : s.name = name => s.width = width
    BY DEF expect_symbol_signature
  <2>2. \A s, t \in c.symbols : s.name = t.name => s.width = t.width
    BY DEF BuilderInv, SymbolsInv
  <2>3. new.name = name /\ new.width = width
    OBVIOUS
  <2> HIDE DEF new
  <2>4. \A s, t \in d.symbols : s.name = t.name => s.width = t.width
    BY <1>1, <2>1, <2>2, <2>3
  <2>5. ASSUME NEW i \in DOMAIN d.nodes, d.nodes[i].tag \in VarTags
        PROVE  [name |-> blob_ref(d, d.nodes[i].payload), width |-> d.nodes[i].width] \in d.symbols
    <3>1. [name |-> blob_ref(c, c.nodes[i].payload), width |-> c.nodes[i].width] \in c.symbols
      BY <1>2, <2>5 DEF BuilderInv, SymbolsInv
    <3>2. c.symbols \subseteq d.symbols
      BY <1>1
    <3> QED BY <1>2, <3>1, <3>2
  <2>6. \A v \in d.vars :
          /\ Index(v.ref) + 1 \in DOMAIN d.nodes /\ NodeAt(d, v.ref).tag \in VarTags
          /\ NodeAt(d, v.ref).width = v.width /\ blob_ref(d, NodeAt(d, v.ref).payload) = v.name
    <3>1. SymbolsInv(c)
      BY DEF BuilderInv
    <3> QED BY ONLY <1>1, <1>2, <3>1 DEF SymbolsInv
  <2> QED BY <2>4, <2>5, <2>6 DEF SymbolsInv
<1> QED BY <1>1, <1>2, <1>3, <1>4 DEF BuilderInv

\* A variable is remembered with the node that was made for it.
LEMMA RememberKeeps ==
  ASSUME NEW c, BuilderInv(c), NEW name, NEW width, NEW ref,
         Index(ref) + 1 \in DOMAIN c.nodes, NodeAt(c, ref).tag \in VarTags,
         NodeAt(c, ref).width = width, blob_ref(c, NodeAt(c, ref).payload) = name, NEW d,
         d = [c EXCEPT !.vars = c.vars \cup {[name |-> name, width |-> width, ref |-> ref]}]
  PROVE  BuilderInv(d)
<1> DEFINE new == [name |-> name, width |-> width, ref |-> ref]
<1>1. /\ d = [nodes |-> c.nodes, children |-> c.children, blob |-> c.blob, assertions |-> d.assertions,
              assumptions |-> d.assumptions, scopes |-> d.scopes, symbols |-> d.symbols, vars |-> d.vars]
      /\ d.assertions = c.assertions /\ d.assumptions = c.assumptions /\ d.scopes = c.scopes
      /\ d.symbols = c.symbols /\ d.vars = c.vars \cup {new}
  BY DEF BuilderInv, TablesInv
<1>2. /\ TablesInv(d) /\ NodesInv(d) /\ d.nodes = c.nodes
      /\ \A x : expect_bool(d, x) <=> expect_bool(c, x)
      /\ \A x : AssertionInv(d, x) <=> AssertionInv(c, x)
      /\ \A x : NodeAt(d, x) = NodeAt(c, x)
      /\ \A payload : blob_ref(d, payload) = blob_ref(c, payload)
  <2>1. IsTable(d.assertions) /\ IsTable(d.assumptions) /\ d.scopes \in Seq(Nat)
    BY <1>1 DEF BuilderInv, TablesInv
  <2> QED BY ONLY <1>1, <2>1, BuilderInv(c), SameNodes
<1>3. QueryInv(d)
  BY <1>1, <1>2 DEF BuilderInv, QueryInv
<1>4. SymbolsInv(d)
  <2>1. new.name = name /\ new.width = width /\ new.ref = ref
    OBVIOUS
  <2> HIDE DEF new
  <2>2. ASSUME NEW v \in d.vars
        PROVE  /\ Index(v.ref) + 1 \in DOMAIN d.nodes /\ NodeAt(d, v.ref).tag \in VarTags
               /\ NodeAt(d, v.ref).width = v.width /\ blob_ref(d, NodeAt(d, v.ref).payload) = v.name
    <3>1. CASE v = new
      BY <1>2, <2>1, <3>1
    <3>2. CASE v \in c.vars
      BY <1>2, <3>2 DEF BuilderInv, SymbolsInv
    <3> QED BY <1>1, <3>1, <3>2
  <2>3. ASSUME NEW i \in DOMAIN d.nodes, d.nodes[i].tag \in VarTags
        PROVE  [name |-> blob_ref(d, d.nodes[i].payload), width |-> d.nodes[i].width] \in d.symbols
    <3>1. [name |-> blob_ref(c, c.nodes[i].payload), width |-> c.nodes[i].width] \in c.symbols
      BY <1>2, <2>3 DEF BuilderInv, SymbolsInv
    <3> QED BY <1>1, <1>2, <3>1
  <2>4. \A s, t \in d.symbols : s.name = t.name => s.width = t.width
    BY <1>1 DEF BuilderInv, SymbolsInv
  <2> QED BY <2>2, <2>3, <2>4 DEF SymbolsInv
<1> QED BY <1>2, <1>3, <1>4 DEF BuilderInv

\* The node of a variable whose name is in the blob and in the map.
LEMMA PushVariable ==
  ASSUME NEW c, BuilderInv(c), NEW name, IsText(name), NEW width, width = 0 \/ ValidWidth(width),
         [name |-> name, width |-> width] \in c.symbols,
         NEW payload \in Nat, InBlob(c, payload), blob_ref(c, payload) = name,
         NEW tag, tag = IF width = 0 THEN "BoolVar" ELSE "BvVar"
  PROVE  Fits(c, RawNode(tag, Len(<<>>), 0, width, 0, 0, payload), <<>>)
<1> DEFINE node == RawNode(tag, Len(<<>>), 0, width, 0, 0, payload)
<1>1. node.tag = tag /\ node.arity = 0 /\ node.width = width /\ node.payload = payload
  BY EmptySeq DEF RawNode
<1>2. /\ tag \in BvTags \cup BoolTags /\ tag \in Leaves /\ tag \in VarTags /\ tag # "BvSelect" /\ tag # "BvConst"
  BY DEF UnaryTags, ExtendTags, BinaryTags, BvTags, BoolTags, Leaves, VarTags
<1>3. result_sort(tag) = "bool" <=> width = 0
  BY DEF result_sort, UnaryTags, ExtendTags, BinaryTags, BvTags
<1> HIDE DEF node
<1>4. validate_arity(node) /\ validate_node_width(node)
  BY <1>1, <1>2, <1>3 DEF validate_arity, validate_node_width, fixed_arity
<1>5. validate_header(c, node) /\ Placed(node)
  BY <1>1, <1>2, <1>4 DEF validate_header, Placed, HasText
<1>6. operands_fit(c, Len(c.nodes) + 1, node, <<>>)
  BY <1>1 DEF operands_fit, UnaryTags, ExtendTags, BinaryTags, BoolPairs, CompareTags, ComparisonTags, OverflowTags
<1>7. IsTable(<<>>) /\ Len(<<>>) = 0
  BY EmptySeq, SeqIsTable
<1>8. Fits(c, node, <<>>)
  BY <1>1, <1>2, <1>5, <1>6, <1>7 DEF Fits
<1> QED BY <1>8 DEF node

LEMMA VariableKeeps ==
  ASSUME NEW c, BuilderInv(c), NEW name, IsTable(name), IsText(name), NEW width, width = 0 \/ ValidWidth(width)
  PROVE  BuilderInv(variable(c, name, width).b)
<1> DEFINE tag == IF width = 0 THEN "BoolVar" ELSE "BvVar"
           d == [c EXCEPT !.symbols = c.symbols \cup {[name |-> name, width |-> width]}]
           p == push_blob(d, name)
           q == push_node(p.b, tag, width, <<>>, 0, 0, p.ref)
           e == [q.b EXCEPT !.vars = q.b.vars \cup {[name |-> name, width |-> width, ref |-> q.ref]}]
           old == {v \in d.vars : v.name = name /\ v.width = width}
<1>1. variable(c, name, width).b = IF ~ expect_symbol_signature(c, name, width) THEN c
                                   ELSE IF old # {} THEN d
                                   ELSE IF p.ref = None THEN p.b
                                   ELSE IF q.ref = None THEN q.b
                                   ELSE e
  BY DEF variable, Then, Fail, Done
<1>2. CASE ~ expect_symbol_signature(c, name, width)
  BY <1>1, <1>2
<1>3. CASE expect_symbol_signature(c, name, width)
  <2>1. BuilderInv(d) /\ [name |-> name, width |-> width] \in d.symbols
    BY <1>3, DeclareKeeps
  <2> HIDE DEF d
  <2>2. /\ BuilderInv(p.b) /\ SameQuery(d, p.b)
        /\ p.ref # None => p.ref \in Nat /\ InBlob(p.b, p.ref) /\ blob_ref(p.b, p.ref) = name
    BY <2>1, PushBlob
  <2> HIDE DEF p
  <2>3. ASSUME p.ref # None
        PROVE  /\ BuilderInv(q.b)
               /\ q.ref # None =>
                    /\ Index(q.ref) + 1 \in DOMAIN q.b.nodes /\ NodeAt(q.b, q.ref).tag \in VarTags
                    /\ NodeAt(q.b, q.ref).width = width /\ blob_ref(q.b, NodeAt(q.b, q.ref).payload) = name
    <3>1. [name |-> name, width |-> width] \in p.b.symbols
      BY <2>1, <2>2 DEF SameQuery
    <3>2. tag = (IF width = 0 THEN "BoolVar" ELSE "BvVar") /\ tag \in VarTags
      BY DEF VarTags
    <3> HIDE DEF tag
    <3>3. Fits(p.b, RawNode(tag, Len(<<>>), 0, width, 0, 0, p.ref), <<>>)
      BY <2>2, <2>3, <3>1, <3>2, PushVariable
    <3>4. /\ BuilderInv(q.b) /\ q.b.blob = p.b.blob
          /\ q.ref # None =>
               /\ Index(q.ref) + 1 \in DOMAIN q.b.nodes /\ NodeAt(q.b, q.ref).tag = tag
               /\ NodeAt(q.b, q.ref).width = width /\ NodeAt(q.b, q.ref).payload = p.ref
      BY <2>2, <3>3, PushNode
    <3>5. blob_ref(q.b, p.ref) = blob_ref(p.b, p.ref)
      BY <3>4 DEF blob_ref
    <3> HIDE DEF q
    <3> QED BY <2>2, <2>3, <3>2, <3>4, <3>5
  <2> HIDE DEF q
  <2>4. ASSUME p.ref # None, q.ref # None
        PROVE  BuilderInv(e)
    BY <2>3, <2>4, RememberKeeps
  <2> QED BY <1>1, <1>3, <2>1, <2>2, <2>3, <2>4
<1> QED BY <1>2, <1>3

LEMMA BvVarKeeps ==
  ASSUME NEW c, BuilderInv(c), NEW name, IsTable(name), IsText(name), NEW width
  PROVE  BuilderInv(bv_var(c, name, width).b) /\ BuilderInv(bool_var(c, name).b)
<1>1. BuilderInv(variable(c, name, 0).b) /\ (ValidWidth(width) => BuilderInv(variable(c, name, width).b))
  BY VariableKeeps
<1> QED BY <1>1 DEF bv_var, bool_var, Checked, Fail, Done

------------------------------------------------------------------------------
(* The derived operators: each step checks its operands for itself. *)

LEMMA DerivedKeep ==
  ASSUME NEW c, BuilderInv(c), NEW x, NEW y, NEW z
  PROVE  /\ BuilderInv(bv_ne(c, x, y).b) /\ BuilderInv(bool_eq(c, x, y).b) /\ BuilderInv(bool_xor(c, x, y).b)
         /\ BuilderInv(bool_ite(c, x, y, z).b) /\ BuilderInv(context_bool_eq(c, x, y).b)
<1>1. \A d, u : BuilderInv(d) => BuilderInv(bool_not(d, u).b)
  BY BoolNotKeeps
<1>2. /\ \A d, u, v : BuilderInv(d) => BuilderInv(bool_binary(d, "BoolAnd", u, v).b)
      /\ \A d, u, v : BuilderInv(d) => BuilderInv(bool_binary(d, "BoolOr", u, v).b)
  BY BoolBinaryKeeps DEF BoolPairs
<1>3. \A d, u, v : BuilderInv(d) => BuilderInv(bv_comparison(d, "BvEq", u, v).b)
  BY CompareKeeps DEF CompareTags, ComparisonTags
<1>4. BuilderInv(bv_ne(c, x, y).b)
  BY <1>1, <1>3 DEF bv_ne, Then
<1>5. \A d, u, v : BuilderInv(d) => BuilderInv(bool_eq(d, u, v).b)
  BY <1>1, <1>2 DEF bool_eq, Then, Checked, Fail, Done
<1>6. BuilderInv(bool_xor(c, x, y).b)
  BY <1>1, <1>5 DEF bool_xor, Then
<1>7. BuilderInv(bool_ite(c, x, y, z).b)
  BY <1>1, <1>2 DEF bool_ite, Then, Checked, Fail, Done
<1>8. BuilderInv(context_bool_eq(c, x, y).b)
  BY <1>1, <1>2 DEF context_bool_eq, Then
<1> QED BY <1>4, <1>5, <1>6, <1>7, <1>8

LEMMA RotateKeeps ==
  ASSUME NEW c, BuilderInv(c), NEW x, NEW k
  PROVE  BuilderInv(bv_rotate_left(c, x, k).b) /\ BuilderInv(bv_rotate_right(c, x, k).b)
<1>1. \A d, v, w : BuilderInv(d) => BuilderInv(bv_const(d, v, w).b)
  BY ConstKeeps
<1>2. \A d, u, v : BuilderInv(d) => /\ BuilderInv(bv_binary(d, "BvShl", u, v).b)
                                    /\ BuilderInv(bv_binary(d, "BvLShr", u, v).b)
                                    /\ BuilderInv(bv_binary(d, "BvOr", u, v).b)
  BY BinaryKeeps DEF BinaryTags
<1>3. BuilderInv(Rotate(c, x, k, "BvShl", "BvLShr").b)
  BY <1>1, <1>2 DEF Rotate, Then, Fail, Done
<1>4. BuilderInv(Rotate(c, x, k, "BvLShr", "BvShl").b)
  BY <1>1, <1>2 DEF Rotate, Then, Fail, Done
<1> QED BY <1>3, <1>4 DEF bv_rotate_left, bv_rotate_right

\* An operand that is an integer becomes a constant.
LEMMA CoerceKeeps ==
  ASSUME NEW c, BuilderInv(c), NEW x, NEW width
  PROVE  BuilderInv(coerce_bv_operand(c, x, width).b)
<1>1. BuilderInv(bv_const(c, x.v % 2 ^ WordBits, width).b)
  BY ConstKeeps
<1> QED BY <1>1 DEF coerce_bv_operand, Checked, Fail, Done

------------------------------------------------------------------------------
(* Assertions, assumptions and scopes. *)

\* A new query over the same nodes and symbols.
LEMMA QueryKeeps ==
  ASSUME NEW c, BuilderInv(c), NEW d,
         d = [nodes |-> c.nodes, children |-> c.children, blob |-> c.blob, assertions |-> d.assertions,
              assumptions |-> d.assumptions, scopes |-> d.scopes, symbols |-> c.symbols, vars |-> c.vars],
         IsTable(d.assertions), IsTable(d.assumptions), d.scopes \in Seq(Nat),
         \A k \in DOMAIN d.assertions : AssertionInv(c, d.assertions[k]),
         \A k \in DOMAIN d.assumptions : expect_bool(c, d.assumptions[k]),
         \A k \in DOMAIN d.scopes : d.scopes[k] <= Len(d.assertions),
         \A j, k \in DOMAIN d.scopes : j <= k => d.scopes[j] <= d.scopes[k]
  PROVE  BuilderInv(d)
<1>1. d.symbols = c.symbols /\ d.vars = c.vars
  OBVIOUS
<1>2. /\ TablesInv(d) /\ NodesInv(d) /\ d.nodes = c.nodes
      /\ \A ref : expect_bool(d, ref) <=> expect_bool(c, ref)
      /\ \A a : AssertionInv(d, a) <=> AssertionInv(c, a)
      /\ \A ref : NodeAt(d, ref) = NodeAt(c, ref)
      /\ \A payload : blob_ref(d, payload) = blob_ref(c, payload)
  BY <1>1, SameNodes
<1>3. QueryInv(d)
  BY <1>2 DEF QueryInv
<1>4. SymbolsInv(d)
  <2>1. SymbolsInv(c)
    BY DEF BuilderInv
  <2>2. ASSUME NEW i \in DOMAIN d.nodes, d.nodes[i].tag \in VarTags
        PROVE  [name |-> blob_ref(d, d.nodes[i].payload), width |-> d.nodes[i].width] \in d.symbols
    BY <1>1, <1>2, <2>1, <2>2 DEF SymbolsInv
  <2>3. ASSUME NEW v \in d.vars
        PROVE  /\ Index(v.ref) + 1 \in DOMAIN d.nodes /\ NodeAt(d, v.ref).tag \in VarTags
               /\ NodeAt(d, v.ref).width = v.width /\ blob_ref(d, NodeAt(d, v.ref).payload) = v.name
    BY <1>1, <1>2, <2>1 DEF SymbolsInv
  <2>4. \A s, t \in d.symbols : s.name = t.name => s.width = t.width
    BY <1>1, <2>1 DEF SymbolsInv
  <2> QED BY <2>2, <2>3, <2>4 DEF SymbolsInv
<1> QED BY <1>2, <1>3, <1>4 DEF BuilderInv

LEMMA AddAssertionKeeps ==
  ASSUME NEW c, BuilderInv(c), NEW root, expect_bool(c, root),
         NEW name, name # None => name \in Nat /\ HasText(c, name)
  PROVE  BuilderInv(AddAssertion(c, root, name))
<1> DEFINE e == [root |-> root, name |-> name]
           s == c.assertions
           d == AddAssertion(c, root, name)
<1>1. /\ d = [nodes |-> c.nodes, children |-> c.children, blob |-> c.blob, assertions |-> d.assertions,
              assumptions |-> d.assumptions, scopes |-> d.scopes, symbols |-> c.symbols, vars |-> c.vars]
      /\ d.assertions = Append(s, e) /\ d.assumptions = c.assumptions /\ d.scopes = c.scopes
  <2>1. c = [nodes |-> c.nodes, children |-> c.children, blob |-> c.blob, assertions |-> c.assertions,
             assumptions |-> c.assumptions, scopes |-> c.scopes, symbols |-> c.symbols, vars |-> c.vars]
    BY DEF BuilderInv, TablesInv
  <2> HIDE DEF e
  <2>2. d = [c EXCEPT !.assertions = Append(c.assertions, e)]
    BY DEF AddAssertion, e
  <2> HIDE DEF d
  <2>3. d = [nodes |-> c.nodes, children |-> c.children, blob |-> c.blob, assertions |-> Append(c.assertions, e),
             assumptions |-> c.assumptions, scopes |-> c.scopes, symbols |-> c.symbols, vars |-> c.vars]
    BY <2>1, <2>2
  <2> QED BY <2>3
<1>2. IsTable(s) /\ IsTable(c.assumptions) /\ c.scopes \in Seq(Nat) /\ QueryInv(c) /\ AssertionInv(c, e)
  BY DEF BuilderInv, TablesInv, AssertionInv
<1>3. \A k \in DOMAIN s : AssertionInv(c, s[k])
  BY <1>2 DEF QueryInv
<1>4. /\ \A k \in DOMAIN c.assumptions : expect_bool(c, c.assumptions[k])
      /\ \A k \in DOMAIN c.scopes : c.scopes[k] <= Len(s)
      /\ \A j, k \in DOMAIN c.scopes : j <= k => c.scopes[j] <= c.scopes[k]
  BY <1>2 DEF QueryInv
<1> HIDE DEF s, d, e
<1>5. /\ IsTable(Append(s, e)) /\ Len(Append(s, e)) = Len(s) + 1 /\ Len(s) \in Nat
      /\ \A i \in 1 .. Len(s) : Append(s, e)[i] = s[i]
      /\ Append(s, e)[Len(s) + 1] = e
  BY <1>2, AppendTable
<1>6. DOMAIN s = 1 .. Len(s) /\ DOMAIN Append(s, e) = 1 .. Len(s) + 1
  BY <1>2, <1>5, TableLen
<1>7. \A k \in DOMAIN d.assertions : AssertionInv(c, d.assertions[k])
  <2>1. ASSUME NEW k \in 1 .. Len(s) + 1
        PROVE  AssertionInv(c, Append(s, e)[k])
    <3>1. CASE k \in 1 .. Len(s)
      BY <1>3, <1>5, <1>6, <3>1
    <3>2. CASE k = Len(s) + 1
      BY <1>2, <1>5, <3>2
    <3> QED BY <1>5, <3>1, <3>2
  <2> QED BY <1>1, <1>6, <2>1
<1>8. \A k \in DOMAIN d.scopes : d.scopes[k] <= Len(d.assertions)
  BY <1>1, <1>2, <1>4, <1>5
<1>9. IsTable(d.assertions) /\ IsTable(d.assumptions) /\ d.scopes \in Seq(Nat)
  BY <1>1, <1>2, <1>5
<1>10. /\ \A k \in DOMAIN d.assumptions : expect_bool(c, d.assumptions[k])
       /\ \A j, k \in DOMAIN d.scopes : j <= k => d.scopes[j] <= d.scopes[k]
  BY <1>1, <1>4
<1>11. BuilderInv(d)
  BY ONLY BuilderInv(c), <1>1, <1>7, <1>8, <1>9, <1>10, QueryKeeps
<1> QED BY <1>11 DEF d

LEMMA AssertKeeps ==
  ASSUME NEW c, BuilderInv(c), NEW root
  PROVE  BuilderInv(assert(c, root).b)
BY AddAssertionKeeps DEF assert, Checked, Fail, Done

LEMMA AssertNamedKeeps ==
  ASSUME NEW c, BuilderInv(c), NEW name, IsTable(name), IsText(name), NEW root
  PROVE  BuilderInv(assert_named(c, name, root).b)
<1> DEFINE p == push_blob(c, name)
<1>1. /\ BuilderInv(p.b) /\ Grown(c, p.b)
      /\ p.ref # None => p.ref \in Nat /\ HasText(p.b, p.ref)
  BY PushBlob DEF HasText
<1>2. expect_bool(c, root) => expect_bool(p.b, root)
  BY <1>1, BoolKept DEF BuilderInv, TablesInv, Grown
<1> HIDE DEF p
<1>3. expect_bool(c, root) => BuilderInv(AddAssertion(p.b, root, p.ref))
  BY <1>1, <1>2, AddAssertionKeeps
<1> QED BY <1>1, <1>3 DEF assert_named, Checked, Fail, Done, Then, p

LEMMA ExcludeKeeps ==
  ASSUME NEW c, BuilderInv(c), NEW x, NEW y
  PROVE  BuilderInv(exclude(c, x, y).b)
<1>1. \A d, u : BuilderInv(d) => BuilderInv(bool_not(d, u).b) /\ BuilderInv(assert(d, u).b)
  BY BoolNotKeeps, AssertKeeps
<1>2. \A d, u, v : BuilderInv(d) => BuilderInv(bool_binary(d, "BoolAnd", u, v).b)
  BY BoolBinaryKeeps DEF BoolPairs
<1> QED BY <1>1, <1>2 DEF exclude, Then

LEMMA ExcludePairKeeps ==
  ASSUME NEW selectors, NEW r, BuilderInv(r.b), NEW k
  PROVE  BuilderInv(exclude_pair(selectors, r, k).b)
<1>1. \A x, y : BuilderInv(exclude(r.b, x, y).b)
  BY ExcludeKeeps
<1> QED BY <1>1 DEF exclude_pair, Then

\* A set of numbers that has a member has a least one.
LEMMA LeastNumber ==
  ASSUME NEW T, T \subseteq Nat, NEW m \in T
  PROVE  \E n \in T : \A k \in T : n <= k
<1>1. PICK n \in T : \A k \in T : <<k, n>> \notin OpToRel(<, Nat)
  BY NatLessThanWellFounded, WFMin
<1>2. \A k \in T : ~ (k < n)
  BY <1>1 DEF OpToRel
<1> QED BY <1>2

\* A set that has 0 and, with a number below count, the next one, has count.
LEMMA Climb ==
  ASSUME NEW count \in Nat, NEW T, T \subseteq Nat, 0 \in T, \A m \in 1 .. count : m - 1 \in T => m \in T
  PROVE  count \in T
<1> DEFINE missing == {k \in 0 .. count : k \notin T}
<1>1. ASSUME NEW s \in missing
      PROVE  FALSE
  <2>1. PICK m \in missing : \A k \in missing : m <= k
    <3>1. missing \subseteq Nat
      OBVIOUS
    <3> HIDE DEF missing
    <3> QED BY <1>1, <3>1, LeastNumber
  <2>2. m \in 1 .. count /\ m - 1 \in 0 .. count /\ ~ (m <= m - 1)
    BY <2>1
  <2> QED BY <2>1, <2>2
<1> QED BY <1>1

\* The recursive functions of the model satisfy the equation that defines them:
\* there is a function that does, one index after the other.
LEMMA ExcludePairs ==
  ASSUME NEW count \in Nat, NEW c, NEW selectors
  PROVE  exclude_pairs(c, selectors, count) =
           [k \in 0 .. count |-> IF k = 0 THEN Done(c, 0)
                                 ELSE exclude_pair(selectors, exclude_pairs(c, selectors, count)[k - 1], k)]
<1> DEFINE Solves(f, m) == f = [k \in 0 .. m |-> IF k = 0 THEN Done(c, 0) ELSE exclude_pair(selectors, f[k - 1], k)]
           T == {m \in 0 .. count : \E f : Solves(f, m)}
<1>1. \E f : Solves(f, 0)
  <2>1. Solves([k \in 0 .. 0 |-> Done(c, 0)], 0)
    OBVIOUS
  <2> HIDE DEF Solves
  <2> QED BY <2>1
<1>2. ASSUME NEW m \in 1 .. count, NEW f, Solves(f, m - 1)
      PROVE  \E g : Solves(g, m)
  <2> DEFINE g == [k \in 0 .. m |-> IF k = m THEN exclude_pair(selectors, f[m - 1], m) ELSE f[k]]
  <2>1. ASSUME NEW k \in 0 .. m
        PROVE  g[k] = IF k = 0 THEN Done(c, 0) ELSE exclude_pair(selectors, g[k - 1], k)
    BY <1>2
  <2>2. Solves(g, m)
    BY <2>1
  <2> HIDE DEF Solves
  <2> QED BY <2>2
<1> HIDE DEF Solves
<1>3. T \subseteq Nat /\ 0 \in T /\ \A m \in 1 .. count : m - 1 \in T => m \in T
  BY <1>1, <1>2
<1> HIDE DEF T
<1>4. count \in T
  BY <1>3, Climb
<1>5. \E f : Solves(f, count)
  BY <1>4 DEF T
<1> QED BY <1>5, Zenon DEF exclude_pairs, Solves

\* The pairs of a mutex, one after the other, up to the first that fails.
LEMMA MutexKeeps ==
  ASSUME NEW c, BuilderInv(c), NEW selectors, IsTable(selectors)
  PROVE  BuilderInv(assert_mutex(c, selectors).b)
<1> DEFINE count == Len(selectors) * Len(selectors)
           after == exclude_pairs(c, selectors, count)
           bad == {k \in 0 .. count : ~ BuilderInv(after[k].b)}
<1>1. count \in Nat
  BY TableLen
<1> HIDE DEF count
<1>2. after = [k \in 0 .. count |-> IF k = 0 THEN Done(c, 0) ELSE exclude_pair(selectors, after[k - 1], k)]
  BY <1>1, ExcludePairs
<1> HIDE DEF after
<1>3. ASSUME NEW m \in bad
      PROVE  FALSE
  <2>1. PICK k \in bad : \A l \in bad : k <= l
    <3>1. bad \subseteq Nat
      BY <1>1
    <3> HIDE DEF bad
    <3> QED BY <1>3, <3>1, LeastNumber
  <2>2. k \in 0 .. count /\ ~ BuilderInv(after[k].b)
    BY <2>1
  <2>3. CASE k = 0
    <3>1. after[k].b = c
      BY <1>2, <2>2, <2>3 DEF Done
    <3> QED BY <2>2, <3>1
  <2>4. CASE k # 0
    <3>1. k - 1 \in 0 .. count /\ ~ (k <= k - 1)
      BY <1>1, <2>2, <2>4
    <3>2. BuilderInv(after[k - 1].b)
      BY <2>1, <3>1
    <3>3. after[k] = exclude_pair(selectors, after[k - 1], k)
      BY <1>2, <2>2, <2>4
    <3>4. BuilderInv(after[k].b)
      BY <3>2, <3>3, ExcludePairKeeps
    <3> QED BY <2>2, <3>4
  <2> QED BY <2>3, <2>4
<1>4. count \in 0 .. count
  BY <1>1
<1>5. BuilderInv(after[count].b)
  BY <1>3, <1>4
<1> QED BY <1>5 DEF assert_mutex, Checked, Fail, Done, after, count

\* The parts of a query a builder starts from.
LEMMA QueryParts ==
  ASSUME NEW c, BuilderInv(c)
  PROVE  /\ c = [nodes |-> c.nodes, children |-> c.children, blob |-> c.blob, assertions |-> c.assertions,
                 assumptions |-> c.assumptions, scopes |-> c.scopes, symbols |-> c.symbols, vars |-> c.vars]
         /\ IsTable(c.assertions) /\ IsTable(c.assumptions) /\ c.scopes \in Seq(Nat)
         /\ Len(c.assertions) \in Nat /\ DOMAIN c.assertions = 1 .. Len(c.assertions)
         /\ Len(c.scopes) \in Nat /\ DOMAIN c.scopes = 1 .. Len(c.scopes)
         /\ \A k \in DOMAIN c.assertions : AssertionInv(c, c.assertions[k])
         /\ \A k \in DOMAIN c.assumptions : expect_bool(c, c.assumptions[k])
         /\ \A k \in DOMAIN c.scopes : c.scopes[k] \in Nat /\ c.scopes[k] <= Len(c.assertions)
         /\ \A j, k \in DOMAIN c.scopes : j <= k => c.scopes[j] <= c.scopes[k]
<1>1. /\ c = [nodes |-> c.nodes, children |-> c.children, blob |-> c.blob, assertions |-> c.assertions,
              assumptions |-> c.assumptions, scopes |-> c.scopes, symbols |-> c.symbols, vars |-> c.vars]
      /\ IsTable(c.assertions) /\ IsTable(c.assumptions) /\ c.scopes \in Seq(Nat)
  BY DEF BuilderInv, TablesInv
<1>2. Len(c.assertions) \in Nat /\ DOMAIN c.assertions = 1 .. Len(c.assertions)
  BY <1>1, TableLen
<1>3. /\ Len(c.scopes) \in Nat /\ DOMAIN c.scopes = 1 .. Len(c.scopes)
      /\ \A k \in DOMAIN c.scopes : c.scopes[k] \in Nat
  BY <1>1
<1>4. QueryInv(c)
  BY DEF BuilderInv
<1> QED BY <1>1, <1>2, <1>3, <1>4 DEF QueryInv

LEMMA QueryExcept ==
  ASSUME NEW c, NEW x, NEW y,
         c = [nodes |-> c.nodes, children |-> c.children, blob |-> c.blob, assertions |-> c.assertions,
              assumptions |-> c.assumptions, scopes |-> c.scopes, symbols |-> c.symbols, vars |-> c.vars]
  PROVE  /\ [c EXCEPT !.assumptions = x] =
              [nodes |-> c.nodes, children |-> c.children, blob |-> c.blob, assertions |-> c.assertions,
               assumptions |-> x, scopes |-> c.scopes, symbols |-> c.symbols, vars |-> c.vars]
         /\ [c EXCEPT !.scopes = x] =
              [nodes |-> c.nodes, children |-> c.children, blob |-> c.blob, assertions |-> c.assertions,
               assumptions |-> c.assumptions, scopes |-> x, symbols |-> c.symbols, vars |-> c.vars]
         /\ [c EXCEPT !.assertions = x, !.scopes = y] =
              [nodes |-> c.nodes, children |-> c.children, blob |-> c.blob, assertions |-> x,
               assumptions |-> c.assumptions, scopes |-> y, symbols |-> c.symbols, vars |-> c.vars]
<1>1. [c EXCEPT !.assumptions = x] =
        [nodes |-> c.nodes, children |-> c.children, blob |-> c.blob, assertions |-> c.assertions,
         assumptions |-> x, scopes |-> c.scopes, symbols |-> c.symbols, vars |-> c.vars]
  OBVIOUS
<1>2. [c EXCEPT !.scopes = x] =
        [nodes |-> c.nodes, children |-> c.children, blob |-> c.blob, assertions |-> c.assertions,
         assumptions |-> c.assumptions, scopes |-> x, symbols |-> c.symbols, vars |-> c.vars]
  OBVIOUS
<1>3. [c EXCEPT !.assertions = x, !.scopes = y] =
        [nodes |-> c.nodes, children |-> c.children, blob |-> c.blob, assertions |-> x,
         assumptions |-> c.assumptions, scopes |-> y, symbols |-> c.symbols, vars |-> c.vars]
  <2> DEFINE d == [c EXCEPT !.assertions = x, !.scopes = y]
  <2>1. d = [c EXCEPT !.assertions = x, !.scopes = y]
    OBVIOUS
  <2> HIDE DEF d
  <2>2. d = [nodes |-> c.nodes, children |-> c.children, blob |-> c.blob, assertions |-> x,
             assumptions |-> c.assumptions, scopes |-> y, symbols |-> c.symbols, vars |-> c.vars]
    BY <2>1
  <2> QED BY <2>2 DEF d
<1> QED BY <1>1, <1>2, <1>3

LEMMA EmptyTable == IsTable(<<>>) /\ Len(<<>>) = 0 /\ DOMAIN <<>> = {} /\ <<>> \in Seq(Nat)
<1>1. <<>> \in Seq(Nat) /\ Len(<<>>) = 0
  BY EmptySeq
<1>2. IsTable(<<>>)
  BY <1>1, SeqIsTable
<1>3. DOMAIN <<>> = 1 .. 0
  BY <1>1, <1>2, TableLen
<1> QED BY <1>1, <1>2, <1>3

LEMMA AssumeKeeps ==
  ASSUME NEW c, BuilderInv(c), NEW root
  PROVE  BuilderInv(assume(c, root).b)
<1>1. CASE ~ expect_bool(c, root)
  BY <1>1 DEF assume, Checked, Fail, Done
<1>2. CASE expect_bool(c, root)
  <2> DEFINE s == c.assumptions
             d == [c EXCEPT !.assumptions = Append(c.assumptions, root)]
  <2>1. /\ d = [nodes |-> c.nodes, children |-> c.children, blob |-> c.blob, assertions |-> d.assertions,
                assumptions |-> d.assumptions, scopes |-> d.scopes, symbols |-> c.symbols, vars |-> c.vars]
        /\ d.assumptions = Append(s, root) /\ d.assertions = c.assertions /\ d.scopes = c.scopes
    <3> DEFINE x == Append(c.assumptions, root)
    <3> HIDE DEF x
    <3>1. d = [nodes |-> c.nodes, children |-> c.children, blob |-> c.blob, assertions |-> c.assertions,
               assumptions |-> x, scopes |-> c.scopes, symbols |-> c.symbols, vars |-> c.vars]
      BY QueryParts, QueryExcept DEF x
    <3> HIDE DEF d
    <3> QED BY <3>1 DEF x
  <2>2. IsTable(s) /\ \A k \in DOMAIN s : expect_bool(c, s[k])
    BY QueryParts
  <2> HIDE DEF s, d
  <2>3. /\ IsTable(Append(s, root)) /\ Len(Append(s, root)) = Len(s) + 1 /\ Len(s) \in Nat
        /\ \A i \in 1 .. Len(s) : Append(s, root)[i] = s[i]
        /\ Append(s, root)[Len(s) + 1] = root
    BY <2>2, AppendTable
  <2>4. DOMAIN s = 1 .. Len(s) /\ DOMAIN Append(s, root) = 1 .. Len(s) + 1
    BY <2>2, <2>3, TableLen
  <2>5. \A k \in DOMAIN d.assumptions : expect_bool(c, d.assumptions[k])
    <3>1. ASSUME NEW k \in 1 .. Len(s) + 1
          PROVE  expect_bool(c, Append(s, root)[k])
      <4>1. CASE k \in 1 .. Len(s)
        BY <2>2, <2>3, <2>4, <4>1
      <4>2. CASE k = Len(s) + 1
        BY <1>2, <2>3, <4>2
      <4> QED BY <2>3, <4>1, <4>2
    <3> QED BY <2>1, <2>4, <3>1
  <2>6. /\ IsTable(d.assertions) /\ IsTable(d.assumptions) /\ d.scopes \in Seq(Nat)
        /\ \A k \in DOMAIN d.assertions : AssertionInv(c, d.assertions[k])
        /\ \A k \in DOMAIN d.scopes : d.scopes[k] <= Len(d.assertions)
        /\ \A j, k \in DOMAIN d.scopes : j <= k => d.scopes[j] <= d.scopes[k]
    BY <2>1, <2>3, QueryParts
  <2>7. BuilderInv(d)
    BY ONLY BuilderInv(c), <2>1, <2>5, <2>6, QueryKeeps
  <2> QED BY <1>2, <2>7 DEF assume, Checked, Done, d
<1> QED BY <1>1, <1>2

LEMMA ClearKeeps ==
  ASSUME NEW c, BuilderInv(c)
  PROVE  BuilderInv([c EXCEPT !.assumptions = <<>>])
<1> DEFINE d == [c EXCEPT !.assumptions = <<>>]
<1>1. /\ d = [nodes |-> c.nodes, children |-> c.children, blob |-> c.blob, assertions |-> d.assertions,
              assumptions |-> d.assumptions, scopes |-> d.scopes, symbols |-> c.symbols, vars |-> c.vars]
      /\ d.assumptions = <<>> /\ d.assertions = c.assertions /\ d.scopes = c.scopes
  BY QueryParts
<1> HIDE DEF d
<1>2. IsTable(<<>>) /\ DOMAIN <<>> = {}
  BY EmptyTable
<1>3. /\ IsTable(d.assertions) /\ IsTable(d.assumptions) /\ d.scopes \in Seq(Nat)
      /\ \A k \in DOMAIN d.assertions : AssertionInv(c, d.assertions[k])
      /\ \A k \in DOMAIN d.assumptions : expect_bool(c, d.assumptions[k])
      /\ \A k \in DOMAIN d.scopes : d.scopes[k] <= Len(d.assertions)
      /\ \A j, k \in DOMAIN d.scopes : j <= k => d.scopes[j] <= d.scopes[k]
  BY <1>1, <1>2, QueryParts
<1>4. BuilderInv(d)
  BY ONLY BuilderInv(c), <1>1, <1>3, QueryKeeps
<1> QED BY <1>4 DEF d

LEMMA PushKeeps ==
  ASSUME NEW c, BuilderInv(c)
  PROVE  BuilderInv(push(c))
<1> DEFINE s == c.scopes
           n == Len(c.assertions)
           d == push(c)
<1>1. /\ d = [nodes |-> c.nodes, children |-> c.children, blob |-> c.blob, assertions |-> d.assertions,
              assumptions |-> d.assumptions, scopes |-> d.scopes, symbols |-> c.symbols, vars |-> c.vars]
      /\ d.assumptions = c.assumptions /\ d.assertions = c.assertions /\ d.scopes = Append(s, n)
  <2> DEFINE x == Append(s, n)
  <2> HIDE DEF x
  <2>1. d = [nodes |-> c.nodes, children |-> c.children, blob |-> c.blob, assertions |-> c.assertions,
             assumptions |-> c.assumptions, scopes |-> x, symbols |-> c.symbols, vars |-> c.vars]
    BY QueryParts, QueryExcept DEF push, x
  <2> HIDE DEF d
  <2> QED BY <2>1 DEF x
<1>2. /\ s \in Seq(Nat) /\ n \in Nat /\ Len(s) \in Nat /\ DOMAIN s = 1 .. Len(s)
      /\ \A k \in DOMAIN s : s[k] \in Nat /\ s[k] <= n
      /\ \A j, k \in DOMAIN s : j <= k => s[j] <= s[k]
  BY QueryParts
<1>3. n = Len(c.assertions)
  OBVIOUS
<1> HIDE DEF s, n, d
<1>4. /\ Append(s, n) \in Seq(Nat) /\ DOMAIN Append(s, n) = 1 .. Len(s) + 1
      /\ \A k \in 1 .. Len(s) : Append(s, n)[k] = s[k]
      /\ Append(s, n)[Len(s) + 1] = n
  BY <1>2
<1>5. \A k \in DOMAIN d.scopes : d.scopes[k] <= Len(d.assertions)
  <2>1. ASSUME NEW k \in 1 .. Len(s) + 1
        PROVE  Append(s, n)[k] <= n
    BY <1>2, <1>4
  <2> QED BY <1>1, <1>3, <1>4, <2>1
<1>6. \A j, k \in DOMAIN d.scopes : j <= k => d.scopes[j] <= d.scopes[k]
  <2>1. ASSUME NEW j \in 1 .. Len(s) + 1, NEW k \in 1 .. Len(s) + 1, j <= k
        PROVE  Append(s, n)[j] <= Append(s, n)[k]
    <3>1. CASE k = Len(s) + 1
      BY <1>2, <1>4, <3>1
    <3>2. CASE k \in 1 .. Len(s)
      <4>1. j \in 1 .. Len(s)
        BY <1>2, <2>1, <3>2
      <4> QED BY <1>2, <1>4, <2>1, <3>2, <4>1
    <3> QED BY <1>2, <3>1, <3>2
  <2> QED BY <1>1, <1>4, <2>1
<1>7. /\ IsTable(d.assertions) /\ IsTable(d.assumptions) /\ d.scopes \in Seq(Nat)
      /\ \A k \in DOMAIN d.assertions : AssertionInv(c, d.assertions[k])
      /\ \A k \in DOMAIN d.assumptions : expect_bool(c, d.assumptions[k])
  BY <1>1, <1>4, QueryParts
<1>8. BuilderInv(d)
  BY ONLY BuilderInv(c), <1>1, <1>5, <1>6, <1>7, QueryKeeps
<1> QED BY <1>8 DEF d

\* The scopes below the one that is left are no longer than it was.
LEMMA PopKeeps ==
  ASSUME NEW c, BuilderInv(c), c.scopes # <<>>
  PROVE  BuilderInv(pop(c))
<1> DEFINE s == c.scopes
           a == c.assertions
           n == s[Len(s)]
           d == pop(c)
<1>1. /\ s \in Seq(Nat) /\ Len(s) \in Nat /\ DOMAIN s = 1 .. Len(s)
      /\ \A k \in DOMAIN s : s[k] \in Nat /\ s[k] <= Len(a)
      /\ \A j, k \in DOMAIN s : j <= k => s[j] <= s[k]
      /\ IsTable(a) /\ Len(a) \in Nat /\ DOMAIN a = 1 .. Len(a)
      /\ \A k \in DOMAIN a : AssertionInv(c, a[k])
  BY QueryParts
<1>2. /\ d = [nodes |-> c.nodes, children |-> c.children, blob |-> c.blob, assertions |-> d.assertions,
              assumptions |-> d.assumptions, scopes |-> d.scopes, symbols |-> c.symbols, vars |-> c.vars]
      /\ d.assumptions = c.assumptions /\ d.assertions = SubSeq(a, 1, n) /\ d.scopes = SubSeq(s, 1, Len(s) - 1)
  <2> DEFINE x == SubSeq(a, 1, n)
             y == SubSeq(s, 1, Len(s) - 1)
  <2>0. d = [c EXCEPT !.assertions = x, !.scopes = y]
    BY DEF pop, Front, Last
  <2> HIDE DEF x, y
  <2>1. d = [nodes |-> c.nodes, children |-> c.children, blob |-> c.blob, assertions |-> x,
             assumptions |-> c.assumptions, scopes |-> y, symbols |-> c.symbols, vars |-> c.vars]
    <3> HIDE DEF d
    <3> QED BY <2>0, QueryParts, QueryExcept
  <2> HIDE DEF d
  <2> QED BY <2>1 DEF x, y
<1>3. Len(s) > 0
  BY <1>1, EmptySeq
<1> HIDE DEF s, a, d
<1>4. n \in Nat /\ n <= Len(a) /\ \A k \in 1 .. Len(s) : s[k] <= n
  BY <1>1, <1>3
<1>5. /\ SubSeq(a, 1, n) = [k \in 1 .. n |-> a[k]] /\ IsTable(SubSeq(a, 1, n)) /\ Len(SubSeq(a, 1, n)) = n
  <2>1. SubSeq(a, 0 + 1, 0 + n) = [k \in 1 .. n |-> a[0 + k]]
    BY <1>1, <1>4, TablePart
  <2>2. \A k \in 1 .. n : 0 + k = k
    OBVIOUS
  <2>3. SubSeq(a, 1, n) = [k \in 1 .. n |-> a[k]]
    BY <1>4, <2>1, <2>2
  <2> DEFINE t == SubSeq(a, 1, n)
  <2>4. t = [k \in 1 .. n |-> t[k]]
    BY <2>3
  <2> HIDE DEF t
  <2>5. IsTable(t) /\ Len(t) = n
    BY <1>4, <2>4, FunctionIsTable
  <2> QED BY <2>3, <2>5 DEF t
<1>6. /\ SubSeq(s, 1, Len(s) - 1) \in Seq(Nat) /\ DOMAIN SubSeq(s, 1, Len(s) - 1) = 1 .. Len(s) - 1
      /\ \A k \in 1 .. Len(s) - 1 : SubSeq(s, 1, Len(s) - 1)[k] = s[k]
  BY <1>1, <1>3
<1>7. \A k \in DOMAIN d.assertions : AssertionInv(c, d.assertions[k])
  BY <1>1, <1>2, <1>4, <1>5
<1>8. \A k \in DOMAIN d.scopes : d.scopes[k] <= Len(d.assertions)
  BY <1>1, <1>2, <1>3, <1>4, <1>5, <1>6
<1>9. \A j, k \in DOMAIN d.scopes : j <= k => d.scopes[j] <= d.scopes[k]
  BY <1>1, <1>2, <1>3, <1>6
<1>10. /\ IsTable(d.assertions) /\ IsTable(d.assumptions) /\ d.scopes \in Seq(Nat)
       /\ \A k \in DOMAIN d.assumptions : expect_bool(c, d.assumptions[k])
  BY <1>2, <1>5, <1>6, QueryParts
<1>11. BuilderInv(d)
  BY ONLY BuilderInv(c), <1>2, <1>7, <1>8, <1>9, <1>10, QueryKeeps
<1> QED BY <1>11 DEF d

LEMMA NewBuilderKeeps == BuilderInv(NewBuilder)
<1>1. /\ IsTable(<<>>) /\ Len(<<>>) = 0 /\ DOMAIN <<>> = {} /\ <<>> \in Seq(Nat)
  BY EmptyTable
<1>2. /\ NewBuilder.nodes = <<>> /\ NewBuilder.children = <<>> /\ NewBuilder.blob = <<>>
      /\ NewBuilder.assertions = <<>> /\ NewBuilder.assumptions = <<>> /\ NewBuilder.scopes = <<>>
      /\ NewBuilder.symbols = {} /\ NewBuilder.vars = {}
  BY DEF NewBuilder
<1>3. TablesInv(NewBuilder)
  BY <1>1, <1>2 DEF TablesInv, NewBuilder
<1>4. NodesInv(NewBuilder)
  BY <1>1, <1>2, WireAssumption DEF NodesInv
<1>5. SymbolsInv(NewBuilder) /\ QueryInv(NewBuilder)
  BY <1>1, <1>2 DEF SymbolsInv, QueryInv
<1> QED BY <1>3, <1>4, <1>5 DEF BuilderInv

------------------------------------------------------------------------------
\* What the validation asks of the symbols: one signature, because the builder's
\* map has one, and a width of zero is a Bool.
LEMMA SymbolsValid ==
  ASSUME NEW c, BuilderInv(c)
  PROVE  validate_symbols(c)
<1>1. ASSUME NEW i \in DOMAIN c.nodes, NEW j \in DOMAIN c.nodes,
             c.nodes[i].tag \in VarTags, c.nodes[j].tag \in VarTags,
             blob_ref(c, c.nodes[i].payload) = blob_ref(c, c.nodes[j].payload)
      PROVE  result_sort(c.nodes[i].tag) = result_sort(c.nodes[j].tag) /\ c.nodes[i].width = c.nodes[j].width
  <2>1. c.nodes[i].width = c.nodes[j].width
    <3>1. /\ [name |-> blob_ref(c, c.nodes[i].payload), width |-> c.nodes[i].width] \in c.symbols
          /\ [name |-> blob_ref(c, c.nodes[j].payload), width |-> c.nodes[j].width] \in c.symbols
          /\ \A s, t \in c.symbols : s.name = t.name => s.width = t.width
      BY <1>1 DEF BuilderInv, SymbolsInv
    <3> QED BY <1>1, <3>1
  <2>2. validate_node_width(c.nodes[i]) /\ validate_node_width(c.nodes[j])
    BY DEF BuilderInv, NodesInv, validate_header
  <2>3. \A t : result_sort(t) = "bv" \/ result_sort(t) = "bool"
    BY DEF result_sort
  <2> QED BY <2>1, <2>2, <2>3 DEF validate_node_width, ValidWidth
<1> QED BY <1>1 DEF validate_symbols

LEMMA BuilderIsValid ==
  ASSUME BuilderInv(b)
  PROVE  BufferValid
<1>1. validate(b)
  BY SymbolsValid DEF BuilderInv, NodesInv, validate
<1> QED BY <1>1 DEF BufferValid, BuilderInv, QueryInv, AssertionInv, SymbolsInv

\* A parsed expression: three tables, and numbers in the fields of the nodes.
Parsed(expr) ==
  /\ IsTable(expr.nodes) /\ IsTable(expr.children) /\ IsTable(expr.blob)
  /\ \A i \in DOMAIN expr.nodes :
       expr.nodes[i].arity \in Nat /\ expr.nodes[i].children \in Nat /\ expr.nodes[i].payload \in Nat

\* Context::from_expression_bytes of what the validation accepts is a Context
\* like any other: what is built on it afterwards stays valid too.
THEOREM FromBytesKeeps ==
  ASSUME NEW expr, Parsed(expr), validate(expr)
  PROVE  BuilderInv(from_expression_bytes(expr))
<1> DEFINE at == {i \in DOMAIN expr.nodes : expr.nodes[i].tag \in VarTags}
           name(i) == blob_ref(expr, expr.nodes[i].payload)
           newest == {j \in at : \A k \in at : name(k) = name(j) => k <= j}
           syms == {[name |-> name(i), width |-> expr.nodes[i].width] : i \in at}
           vs == {[name |-> name(i), width |-> expr.nodes[i].width,
                   ref |-> NodeRef(result_sort(expr.nodes[i].tag), i - 1)] : i \in newest}
           c == from_expression_bytes(expr)
<1>1. c = [nodes |-> expr.nodes, children |-> expr.children, blob |-> expr.blob, assertions |-> <<>>,
           assumptions |-> <<>>, scopes |-> <<>>, symbols |-> syms, vars |-> vs]
  <2> HIDE DEF syms, vs
  <2>1. c = [NewBuilder EXCEPT !.nodes = expr.nodes, !.children = expr.children, !.blob = expr.blob,
                               !.symbols = syms, !.vars = vs]
    BY DEF from_expression_bytes, syms, vs
  <2> HIDE DEF c
  <2> QED BY <2>1 DEF NewBuilder
<1>2. /\ c.nodes = expr.nodes /\ c.children = expr.children /\ c.blob = expr.blob
      /\ c.assertions = <<>> /\ c.assumptions = <<>> /\ c.scopes = <<>> /\ c.symbols = syms /\ c.vars = vs
      /\ c = [nodes |-> c.nodes, children |-> c.children, blob |-> c.blob, assertions |-> c.assertions,
              assumptions |-> c.assumptions, scopes |-> c.scopes, symbols |-> c.symbols, vars |-> c.vars]
  <2> HIDE DEF c, syms, vs
  <2> QED BY <1>1
<1> HIDE DEF c
<1>3. TablesInv(c)
  BY <1>2, EmptyTable DEF TablesInv, Parsed
<1>4. \A p : blob_ref(c, p) = blob_ref(expr, p) /\ InBlob(c, p) = InBlob(expr, p)
  BY <1>2 DEF blob_ref, InBlob
<1>5. NodesInv(c)
  <2>1. Len(c.nodes) <= SortBit
    BY <1>2 DEF validate
  <2>2. ASSUME NEW i \in DOMAIN c.nodes
        PROVE  validate_header(c, c.nodes[i])
    <3>1. validate_header(expr, c.nodes[i])
      BY <1>2 DEF validate
    <3> QED BY <1>4, <3>1 DEF validate_header, HasText
  <2>3. ASSUME NEW i \in DOMAIN c.nodes
        PROVE  validate_operands(c, i)
    <3>1. validate_operands(expr, i)
      BY <1>2 DEF validate
    <3>2. \A ref, sort : expect_child(c, i, ref, sort) = expect_child(expr, i, ref, sort) /\ NodeAt(c, ref) = NodeAt(expr, ref)
      BY <1>2 DEF expect_child, validate_node_ref, NodeAt
    <3>3. \A node, kids : operands_fit(expr, i, node, kids) => operands_fit(c, i, node, kids)
      BY <3>2 DEF operands_fit
    <3>4. \A node : ChildrenOf(c, node) = ChildrenOf(expr, node)
      BY <1>2 DEF ChildrenOf
    <3> QED BY <1>2, <3>1, <3>3, <3>4 DEF validate_operands
  <2> QED BY <2>1, <2>2, <2>3 DEF NodesInv
<1>6. SymbolsInv(c)
  <2>1. ASSUME NEW i \in DOMAIN c.nodes, c.nodes[i].tag \in VarTags
        PROVE  [name |-> blob_ref(c, c.nodes[i].payload), width |-> c.nodes[i].width] \in c.symbols
    BY <1>2, <1>4, <2>1
  <2>2. \A s, t \in c.symbols : s.name = t.name => s.width = t.width
    <3>1. ASSUME NEW i \in at, NEW j \in at, name(i) = name(j)
          PROVE  expr.nodes[i].width = expr.nodes[j].width
      <4>1. validate_symbols(expr)
        BY DEF validate
      <4> QED BY <3>1, <4>1 DEF validate_symbols
    <3>2. ASSUME NEW s \in syms, NEW t \in syms, s.name = t.name
          PROVE  s.width = t.width
      <4>1. PICK i \in at : s = [name |-> name(i), width |-> expr.nodes[i].width]
        OBVIOUS
      <4>2. PICK j \in at : t = [name |-> name(j), width |-> expr.nodes[j].width]
        OBVIOUS
      <4>3. /\ s.name = name(i) /\ s.width = expr.nodes[i].width
            /\ t.name = name(j) /\ t.width = expr.nodes[j].width
        BY <4>1, <4>2
      <4>4. name(i) = name(j)
        BY <3>2, <4>3
      <4>5. expr.nodes[i].width = expr.nodes[j].width
        BY ONLY <3>1, <4>4, i \in at, j \in at
      <4> QED BY <4>3, <4>5
    <3> QED BY <1>2, <3>2
  <2>3. ASSUME NEW v \in c.vars
        PROVE  /\ Index(v.ref) + 1 \in DOMAIN c.nodes /\ NodeAt(c, v.ref).tag \in VarTags
               /\ NodeAt(c, v.ref).width = v.width /\ blob_ref(c, NodeAt(c, v.ref).payload) = v.name
    <3>1. PICK i \in newest : v = [name |-> name(i), width |-> expr.nodes[i].width,
                                   ref |-> NodeRef(result_sort(expr.nodes[i].tag), i - 1)]
      BY <1>2
    <3>2. /\ v.name = name(i) /\ v.width = expr.nodes[i].width
          /\ v.ref = NodeRef(result_sort(expr.nodes[i].tag), i - 1)
          /\ i \in DOMAIN expr.nodes /\ expr.nodes[i].tag \in VarTags
      BY <3>1
    <3>3. i - 1 \in 0 .. SortBit - 1 /\ (i - 1) + 1 = i
      <4>1. Len(expr.nodes) \in Nat /\ DOMAIN expr.nodes = 1 .. Len(expr.nodes)
        BY TableLen DEF Parsed
      <4>2. Len(expr.nodes) <= SortBit
        BY DEF validate
      <4> QED BY <3>2, <4>1, <4>2, WireAssumption
    <3>4. Index(v.ref) = i - 1
      BY <3>2, <3>3, RefParts DEF result_sort
    <3> QED BY <1>2, <1>4, <3>2, <3>3, <3>4 DEF NodeAt
  <2> QED BY <2>1, <2>2, <2>3 DEF SymbolsInv
<1>7. QueryInv(c)
  BY <1>2, EmptyTable DEF QueryInv
<1> QED BY <1>3, <1>5, <1>6, <1>7 DEF BuilderInv, c

------------------------------------------------------------------------------
LEMMA ContextBoolEqKeeps ==
  ASSUME NEW c, BuilderInv(c), NEW x, NEW y
  PROVE  BuilderInv(context_bool_eq(c, x, y).b)
<1>1. \A d, u : BuilderInv(d) => BuilderInv(bool_not(d, u).b)
  BY BoolNotKeeps
<1>2. \A d, u, v : BuilderInv(d) => BuilderInv(bool_binary(d, "BoolAnd", u, v).b) /\ BuilderInv(bool_binary(d, "BoolOr", u, v).b)
  BY BoolBinaryKeeps DEF BoolPairs
<1> QED BY <1>1, <1>2 DEF context_bool_eq, Then

\* The first pairs of two.
LEMMA FirstOfTwo ==
  ASSUME NEW x, NEW y, NEW n \in 0 .. 2
  PROVE  IsTable(SubSeq(<<x, y>>, 1, n))
<1> DEFINE s == <<x, y>>
<1>1. IsTable(s) /\ Len(s) = 2
  BY TwoKids
<1> HIDE DEF s
<1>2. SubSeq(s, 0 + 1, 0 + n) = [i \in 1 .. n |-> s[0 + i]]
  BY <1>1, TablePart
<1>3. 0 + 1 = 1 /\ 0 + n = n /\ n \in Nat
  OBVIOUS
<1> DEFINE t == SubSeq(s, 1, n)
<1>4. t = [i \in 1 .. n |-> t[i]]
  BY <1>2, <1>3
<1> HIDE DEF t
<1>5. IsTable(t)
  BY <1>3, <1>4, FunctionIsTable
<1> QED BY <1>5 DEF t, s

\* One step per operation of the Context.
LEMMA ContextStep ==
  ASSUME BuilderInv(b), ContextNext
  PROVE  BuilderInv(b')
<1>1. CASE Declare
  <2>1. PICK name \in Names, width \in 0 .. MaxBvWidth + 1 :
          b' = (IF width = 0 THEN bool_var(b, name) ELSE bv_var(b, name, width)).b
    BY <1>1 DEF Declare, Op, Call
  <2>2. IsTable(name) /\ IsText(name)
    BY ContextAssumption
  <2> QED BY <2>1, <2>2, BvVarKeeps
<1>2. CASE Constant
  BY <1>2, ConstKeeps DEF Constant, Op, Call
<1>3. CASE ConstantWide
  <2>1. PICK bytes \in UNION {[1 .. k -> {0, Base - 1}] : k \in 1 .. NumBytes(MaxBvWidth)},
             width \in 1 .. MaxBvWidth : b' = bv_const_wide(b, bytes, width).b
    BY <1>3 DEF ConstantWide, Op, Call
  <2>2. PICK k \in 1 .. NumBytes(MaxBvWidth) : bytes \in [1 .. k -> {0, Base - 1}]
    OBVIOUS
  <2>3. k \in Nat /\ bytes = [l \in 1 .. k |-> bytes[l]]
    BY <2>2
  <2>4. IsTable(bytes)
    BY <2>3, FunctionIsTable
  <2> QED BY <2>1, <2>4, ConstWideKeeps
<1>4. CASE Truth
  BY <1>4, BoolConstKeeps DEF Truth, Op, Call
<1>5. CASE Unary
  BY <1>5, UnaryKeeps, NegOvfKeeps DEF Unary, Op, Call
<1>6. CASE Arithmetic
  <2>1. PICK op \in BinaryTags, a \in Bvs, x \in Operands :
          b' = context_binary(b, a, x, LAMBDA c, p, q : bv_binary(c, op, p, q)).b
    BY <1>6 DEF Arithmetic, Op, Call
  <2> QED BY <2>1, CoerceKeeps, BinaryKeeps DEF context_binary, Then, Fail, Done
<1>7. CASE Compare
  <2>1. PICK a \in Bvs, x \in Operands :
          \/ \E op \in ComparisonTags : b' = context_binary(b, a, x, LAMBDA c, p, q : bv_comparison(c, op, p, q)).b
          \/ \E op \in DOMAIN Reversed :
               b' = context_binary(b, a, x, LAMBDA c, p, q : bv_comparison(c, Reversed[op], q, p)).b
          \/ b' = context_binary(b, a, x, LAMBDA c, p, q : bv_ne(c, p, q)).b
    BY <1>7 DEF Compare, Op, Call
  <2>2. ComparisonTags \subseteq CompareTags /\ \A op \in DOMAIN Reversed : Reversed[op] \in CompareTags
    BY DEF Reversed, CompareTags, ComparisonTags
  <2>3. CASE \E op \in ComparisonTags : b' = context_binary(b, a, x, LAMBDA c, p, q : bv_comparison(c, op, p, q)).b
    BY <2>2, <2>3, CoerceKeeps, CompareKeeps DEF context_binary, Then, Fail, Done
  <2>4. CASE \E op \in DOMAIN Reversed :
               b' = context_binary(b, a, x, LAMBDA c, p, q : bv_comparison(c, Reversed[op], q, p)).b
    <3>1. PICK op \in DOMAIN Reversed :
            b' = context_binary(b, a, x, LAMBDA c, p, q : bv_comparison(c, Reversed[op], q, p)).b
      BY <2>4
    <3> QED BY <2>2, <3>1, CoerceKeeps, CompareKeeps DEF context_binary, Then, Fail, Done
  <2>5. CASE b' = context_binary(b, a, x, LAMBDA c, p, q : bv_ne(c, p, q)).b
    BY <2>5, CoerceKeeps, DerivedKeep DEF context_binary, Then, Fail, Done
  <2> QED BY <2>1, <2>3, <2>4, <2>5
<1>8. CASE Overflows
  <2>1. PICK op \in OverflowTags, a \in Bvs, x \in Operands :
          b' = context_binary(b, a, x, LAMBDA c, p, q : bv_comparison(c, op, p, q)).b
    BY <1>8 DEF Overflows, Op, Call
  <2>2. op \in CompareTags
    BY DEF CompareTags
  <2> QED BY <2>1, <2>2, CoerceKeeps, CompareKeeps DEF context_binary, Then, Fail, Done
<1>9. CASE BoolBinary
  BY <1>9, BoolBinaryKeeps, ContextBoolEqKeeps DEF BoolBinary, Op, Call
<1>10. CASE Extract
  <2>1. PICK x \in Bvs, hi \in 0 .. MaxBvWidth, lo \in 0 .. MaxBvWidth : b' = bv_extract(b, x, hi, lo).b
    BY <1>10 DEF Extract, Op, Call
  <2> QED BY <2>1, ExtractKeeps
<1>11. CASE Concat
  BY <1>11, ConcatKeeps DEF Concat, Op, Call
<1>12. CASE Amount
  BY <1>12, ExtendKeeps, RotateKeeps DEF Amount, Op, Call
<1>13. CASE Ite
  BY <1>13, IteKeeps, DerivedKeep DEF Ite, Op, Call, Fail, Done
<1>14. CASE Select
  <2>1. PICK s1 \in Bools, s2 \in Bools, x \in Bvs, y \in Bvs, d \in Bvs, pairs \in 0 .. 2 :
          Op("BvSelect", SubSeq(<<TermArg(s1), TermArg(x), TermArg(s2), TermArg(y)>>, 1, 2 * pairs) \o <<TermArg(d)>>,
             <<pairs>>, bv_select(b, SubSeq(<<s1, s2>>, 1, pairs), SubSeq(<<x, y>>, 1, pairs), d))
    BY <1>14, Zenon DEF Select
  <2> DEFINE r == bv_select(b, SubSeq(<<s1, s2>>, 1, pairs), SubSeq(<<x, y>>, 1, pairs), d)
  <2>2. IsTable(SubSeq(<<s1, s2>>, 1, pairs)) /\ IsTable(SubSeq(<<x, y>>, 1, pairs))
    BY FirstOfTwo
  <2>3. BuilderInv(r.b)
    BY <2>2, SelectKeeps
  <2>4. b' = r.b
    BY <2>1, Zenon DEF Op, Call
  <2> QED BY <2>3, <2>4
<1>15. CASE AssertTerm
  BY <1>15, AssertKeeps DEF AssertTerm, Op, Call
<1>16. CASE AssertNamed
  <2>1. PICK root \in Bools, name \in Names : b' = assert_named(b, name, root).b
    BY <1>16 DEF AssertNamed, Op, Call
  <2> QED BY <2>1, ContextAssumption, AssertNamedKeeps
<1>17. CASE AssertMutex
  <2>1. PICK x \in Bools, y \in Bools, z \in Bools : b' = assert_mutex(b, <<x, y, z>>).b
    BY <1>17 DEF AssertMutex, Op, Call
  <2>2. IsTable(<<x, y, z>>)
    BY ThreeKids
  <2> QED BY <2>1, <2>2, MutexKeeps
<1>18. CASE Assume
  BY <1>18, AssumeKeeps DEF Assume, Op, Call
<1>19. CASE ClearAssumptions
  BY <1>19, ClearKeeps DEF ClearAssumptions, Op, Call, Done
<1>20. CASE Push
  BY <1>20, PushKeeps DEF Push, Op, Call, Done
<1>21. CASE Pop
  BY <1>21, PopKeeps DEF Pop, Op, Call, Checked, Fail, Done
<1>22. CASE Reset
  BY <1>22, NewBuilderKeeps DEF Reset, Call, Done
<1>23. CASE Negation
  BY <1>23, BoolNotKeeps DEF Negation, Op, Call
<1>24. CASE Xor
  BY <1>24, DerivedKeep DEF Xor, Op, Call
<1> QED
  BY <1>1, <1>2, <1>3, <1>4, <1>5, <1>6, <1>7, <1>8, <1>9, <1>10, <1>11, <1>12, <1>13, <1>14, <1>15,
     <1>16, <1>17, <1>18, <1>19, <1>20, <1>21, <1>22, <1>23, <1>24 DEF ContextNext

LEMMA BuilderInvEver == ContextSpec => []BuilderInv(b)
<1>1. ContextInit => BuilderInv(b)
  BY ContextAssumption DEF ContextInit
<1>2. BuilderInv(b) /\ [ContextNext]_contextVars => BuilderInv(b)'
  <2>1. CASE UNCHANGED contextVars
    BY <2>1 DEF contextVars, BuilderInv, TablesInv, NodesInv, SymbolsInv, QueryInv
  <2> QED BY <2>1, ContextStep
<1> QED BY <1>1, <1>2, PTL DEF ContextSpec

\* Whatever a user calls, in whatever order, and whichever calls fail half way or
\* meet a limit: the buffer passes the server's validation and the query refers
\* to what is in it (builder.rs, expr.rs ExprView::validate).
THEOREM BufferValidEver == ContextSpec => []BufferValid
BY BuilderInvEver, BuilderIsValid, PTL

------------------------------------------------------------------------------
(* Compaction.  What a node's operands are, first. *)

\* The part of the invariant of a builder that a buffer has too.
Buffer(c) ==
  /\ IsTable(c.nodes) /\ IsTable(c.children)
  /\ \A i \in DOMAIN c.nodes : c.nodes[i].arity \in Nat /\ c.nodes[i].children \in Nat
  /\ NodesInv(c)

\* Every tag is of one of the classes that operands_fit tells apart.
LEMMA TagCases ==
  ASSUME NEW t \in BvTags \cup BoolTags
  PROVE  \/ t \in Leaves \/ t \in UnaryTags \/ t \in BinaryTags \/ t \in CompareTags \/ t \in BoolPairs
         \/ t \in ExtendTags \/ t \in {"BoolNot", "NegOverflow", "BvConcat", "BvExtract", "BvIte", "BvSelect"}
BY DEF BvTags, BoolTags, Leaves, VarTags

LEMMA LeafArity ==
  ASSUME NEW t \in Leaves
  PROVE  fixed_arity(t) = 0 /\ t # "BvSelect"
BY DEF fixed_arity, Leaves, VarTags

\* The k-th operand of node i.
Kid(c, i, k) == c.children[c.nodes[i].children + k]

LEMMA KidsOf ==
  ASSUME NEW c, Buffer(c), NEW i \in DOMAIN c.nodes
  PROVE  /\ c.nodes[i].arity \in Nat
         /\ ChildrenOf(c, c.nodes[i]) = [k \in 1 .. c.nodes[i].arity |-> Kid(c, i, k)]
<1> DEFINE node == c.nodes[i]
<1>1. node.arity \in Nat /\ node.children \in Nat /\ IsTable(c.children)
  BY DEF Buffer
<1>2. node.arity > 0 => node.children + node.arity <= Len(c.children)
  BY DEF Buffer, NodesInv, validate_operands
<1> HIDE DEF node
<1>3. CASE node.arity > 0
  <2> DEFINE from == node.children
             len  == node.arity
             kids == c.children
  <2>1. from \in Nat /\ len \in Nat /\ from + len <= Len(kids) /\ IsTable(kids)
    BY <1>1, <1>2, <1>3
  <2> HIDE DEF from, len, kids
  <2>2. SubSeq(kids, from + 1, from + len) = [k \in 1 .. len |-> kids[from + k]]
    BY <2>1, TablePart
  <2> QED BY <1>1, <2>2 DEF ChildrenOf, Kid, node, from, len, kids
<1>4. CASE node.arity = 0
  <2>1. ChildrenOf(c, node) = <<>>
    BY <1>1, <1>4, SubSeqEmpty DEF ChildrenOf
  <2>2. [k \in 1 .. node.arity |-> Kid(c, i, k)] = <<>>
    BY <1>4
  <2> QED BY <1>1, <2>1, <2>2 DEF node
<1> QED BY <1>1, <1>3, <1>4 DEF node

LEMMA KidEarlier ==
  ASSUME NEW c, Buffer(c), NEW i \in DOMAIN c.nodes, NEW k \in 1 .. c.nodes[i].arity
  PROVE  expect_child(c, i, Kid(c, i, k), "bv") \/ expect_child(c, i, Kid(c, i, k), "bool")
<1> DEFINE node == c.nodes[i]
           kids == ChildrenOf(c, node)
           arity == node.arity
           tag == node.tag
<1>1. arity \in Nat /\ kids[k] = Kid(c, i, k) /\ k \in 1 .. arity
  BY KidsOf
<1>2. /\ tag \in BvTags \cup BoolTags /\ operands_fit(c, i, node, kids)
      /\ tag # "BvSelect" => arity = fixed_arity(tag)
      /\ tag = "BvSelect" => arity % 2 = 1
  BY DEF Buffer, NodesInv, validate_header, validate_operands, validate_arity
<1> DEFINE bv(m) == expect_child(c, i, kids[m], "bv")
           bool(m) == expect_child(c, i, kids[m], "bool")
<1>3. /\ tag \in UnaryTags \cup ExtendTags \cup {"BvExtract", "NegOverflow"} => bv(1)
      /\ tag \in BinaryTags \cup CompareTags \cup {"BvConcat"} => bv(1) /\ bv(2)
      /\ tag \in BoolPairs => bool(1) /\ bool(2)
      /\ tag = "BoolNot" => bool(1)
      /\ tag = "BvIte" => bool(1) /\ bv(2) /\ bv(3)
      /\ tag = "BvSelect" =>
           /\ node.hi = (arity - 1) \div 2 /\ bv(arity)
           /\ \A p \in 1 .. node.hi : bool(2 * p - 1) /\ bv(2 * p)
  BY <1>2 DEF operands_fit
<1> HIDE DEF bv, bool, kids, arity, tag
<1>4. CASE tag \in Leaves
  BY <1>1, <1>2, <1>4, LeafArity
<1>5. CASE tag \in UnaryTags \cup ExtendTags \cup {"BvExtract", "NegOverflow"}
  <2>1. arity = 1
    BY <1>2, <1>5, TagClasses
  <2> QED BY <1>1, <1>3, <1>5, <2>1 DEF bv
<1>6. CASE tag \in BinaryTags \cup CompareTags \cup {"BvConcat"}
  <2>1. arity = 2
    BY <1>2, <1>6, TagClasses
  <2>2. k = 1 \/ k = 2
    BY <1>1, <2>1
  <2> QED BY <1>1, <1>3, <1>6, <2>2 DEF bv
<1>7. CASE tag \in BoolPairs
  <2>1. arity = 2
    BY <1>2, <1>7, TagClasses
  <2>2. k = 1 \/ k = 2
    BY <1>1, <2>1
  <2> QED BY <1>1, <1>3, <1>7, <2>2 DEF bool
<1>8. CASE tag = "BoolNot"
  <2>1. arity = 1
    BY <1>2, <1>8, TagClasses
  <2> QED BY <1>1, <1>3, <1>8, <2>1 DEF bool
<1>9. CASE tag = "BvIte"
  <2>1. arity = 3
    BY <1>2, <1>9, TagClasses
  <2>2. k = 1 \/ k = 2 \/ k = 3
    BY <1>1, <2>1
  <2> QED BY <1>1, <1>3, <1>9, <2>2 DEF bv, bool
<1>10. CASE tag = "BvSelect"
  <2>1. /\ node.hi = (arity - 1) \div 2 /\ arity % 2 = 1 /\ bv(arity)
        /\ \A p \in 1 .. node.hi : bool(2 * p - 1) /\ bv(2 * p)
    BY <1>2, <1>3, <1>10
  <2> HIDE DEF node
  <2>2. arity = 2 * node.hi + 1 /\ node.hi \in Nat
    BY <1>1, <2>1
  <2>3. \/ k = arity
        \/ \E p \in 1 .. node.hi : k = 2 * p - 1 \/ k = 2 * p
    <3>1. CASE k % 2 = 0
      <4>1. k = 2 * (k \div 2) /\ k \div 2 \in 1 .. node.hi
        BY <1>1, <2>2, <3>1
      <4> QED BY <4>1
    <3>2. CASE k % 2 = 1
      <4>1. k = 2 * ((k + 1) \div 2) - 1 /\ (k + 1) \div 2 \in 1 .. node.hi + 1
        BY <1>1, <2>2, <3>2
      <4>2. CASE (k + 1) \div 2 \in 1 .. node.hi
        BY <4>1, <4>2
      <4>3. CASE (k + 1) \div 2 = node.hi + 1
        BY <2>2, <4>1, <4>3, <1>1
      <4> QED BY <2>2, <4>1, <4>2, <4>3
    <3> QED BY <1>1, <3>1, <3>2
  <2> QED BY <1>1, <2>1, <2>3 DEF bv, bool
<1> QED BY <1>2, <1>4, <1>5, <1>6, <1>7, <1>8, <1>9, <1>10, TagCases

\* The position of the k-th operand of node i.
KidPos(c, i, k) == Index(Kid(c, i, k)) + 1

LEMMA KidBefore ==
  ASSUME NEW c, Buffer(c), NEW i \in DOMAIN c.nodes, NEW k \in 1 .. c.nodes[i].arity
  PROVE  KidPos(c, i, k) \in DOMAIN c.nodes /\ KidPos(c, i, k) < i
BY KidEarlier DEF KidPos, expect_child, validate_node_ref

------------------------------------------------------------------------------
(* mark_ref. *)

\* The roots of a request are nodes of the builder.
Rooted(c, roots) == IsTable(roots) /\ \A k \in DOMAIN roots : Index(roots[k]) + 1 \in DOMAIN c.nodes

LEMMA MarkRefs ==
  ASSUME NEW count \in Nat, NEW c, NEW roots
  PROVE  mark_refs(c, roots, count) =
           [k \in 0 .. count |-> IF k = 0 THEN Positions(roots)
                                 ELSE mark_from_end(c, mark_refs(c, roots, count)[k - 1], k)]
<1> DEFINE Solves(f, m) == f = [k \in 0 .. m |-> IF k = 0 THEN Positions(roots) ELSE mark_from_end(c, f[k - 1], k)]
           T == {m \in 0 .. count : \E f : Solves(f, m)}
<1>1. \E f : Solves(f, 0)
  <2>1. Solves([k \in 0 .. 0 |-> Positions(roots)], 0)
    OBVIOUS
  <2> HIDE DEF Solves
  <2> QED BY <2>1
<1>2. ASSUME NEW m \in 1 .. count, NEW f, Solves(f, m - 1)
      PROVE  \E g : Solves(g, m)
  <2> DEFINE g == [k \in 0 .. m |-> IF k = m THEN mark_from_end(c, f[m - 1], m) ELSE f[k]]
  <2>1. ASSUME NEW k \in 0 .. m
        PROVE  g[k] = IF k = 0 THEN Positions(roots) ELSE mark_from_end(c, g[k - 1], k)
    BY <1>2
  <2>2. Solves(g, m)
    BY <2>1
  <2> HIDE DEF Solves
  <2> QED BY <2>2
<1> HIDE DEF Solves
<1>3. T \subseteq Nat /\ 0 \in T /\ \A m \in 1 .. count : m - 1 \in T => m \in T
  BY <1>1, <1>2
<1> HIDE DEF T
<1>4. count \in T
  BY <1>3, Climb
<1>5. \E f : Solves(f, count)
  BY <1>4 DEF T
<1> QED BY <1>5, Zenon DEF mark_refs, Solves

\* The operands of the nodes of a set are in it too, those of the nodes after n.
ClosedAfter(c, live, n) == \A j \in live : j > n => \A k \in 1 .. c.nodes[j].arity : KidPos(c, j, k) \in live

\* Nothing is in a set but the roots and the operands of what is.
Needed(c, live, roots) ==
  \A j \in live : j \in Positions(roots) \/ \E i \in live : \E k \in 1 .. c.nodes[i].arity : j = KidPos(c, i, k)

Marking(c, roots, live, n) ==
  Positions(roots) \subseteq live /\ live \subseteq DOMAIN c.nodes /\ ClosedAfter(c, live, n) /\ Needed(c, live, roots)

\* One step of the pass: the operands of node i are before it.
LEMMA MarkStep ==
  ASSUME NEW c, Buffer(c), NEW roots, NEW live, NEW i \in DOMAIN c.nodes, Marking(c, roots, live, i)
  PROVE  Marking(c, roots, mark_children(c, live, i), i - 1)
<1> DEFINE new == mark_children(c, live, i)
           kids == {KidPos(c, i, k) : k \in 1 .. c.nodes[i].arity}
<1>1. Len(c.nodes) \in Nat /\ DOMAIN c.nodes = 1 .. Len(c.nodes)
  BY TableLen DEF Buffer
<1>2. new = IF i \in live THEN live \cup kids ELSE live
  <2> DEFINE arity == c.nodes[i].arity
             refs == ChildrenOf(c, c.nodes[i])
  <2>1. arity \in Nat /\ refs = [k \in 1 .. arity |-> Kid(c, i, k)]
    BY KidsOf
  <2> HIDE DEF arity, refs
  <2>2. {Index(r) + 1 : r \in Range(refs)} = {KidPos(c, i, k) : k \in 1 .. arity}
    BY <2>1 DEF Range, KidPos
  <2> QED BY <2>2 DEF mark_children, Positions, arity, refs
<1>3. \A p \in kids : p \in DOMAIN c.nodes /\ p < i
  BY KidBefore
<1> HIDE DEF new
<1>4. Positions(roots) \subseteq new /\ new \subseteq DOMAIN c.nodes /\ live \subseteq new
  BY <1>2, <1>3 DEF Marking
<1>5. ClosedAfter(c, new, i - 1)
  <2> SUFFICES ASSUME NEW j \in new, j > i - 1, NEW k \in 1 .. c.nodes[j].arity
               PROVE  KidPos(c, j, k) \in new
    BY DEF ClosedAfter
  <2>1. j \in live /\ (j = i \/ j > i)
    BY <1>1, <1>2, <1>3, <1>4
  <2>2. CASE j = i
    BY <1>2, <2>1, <2>2
  <2>3. CASE j > i
    BY <1>4, <2>1, <2>3 DEF Marking, ClosedAfter
  <2> QED BY <2>1, <2>2, <2>3
<1>6. Needed(c, new, roots)
  <2> SUFFICES ASSUME NEW j \in new
               PROVE  j \in Positions(roots) \/ \E l \in new : \E k \in 1 .. c.nodes[l].arity : j = KidPos(c, l, k)
    BY DEF Needed
  <2>1. CASE j \in live
    BY <1>4, <2>1 DEF Marking, Needed
  <2>2. CASE i \in live /\ j \in kids
    BY <1>4, <2>2
  <2> QED BY <1>2, <2>1, <2>2
<1> QED BY <1>4, <1>5, <1>6 DEF Marking, new

LEMMA MarkedFacts ==
  ASSUME NEW c, Buffer(c), NEW roots, Rooted(c, roots)
  PROVE  Marking(c, roots, marked(c, roots), 0)
<1> DEFINE count == Len(c.nodes)
           marking == mark_refs(c, roots, count)
           bad == {k \in 0 .. count : ~ Marking(c, roots, marking[k], count - k)}
<1>1. count \in Nat /\ DOMAIN c.nodes = 1 .. count
  BY TableLen DEF Buffer
<1> HIDE DEF count
<1>2. marking = [k \in 0 .. count |->
                   IF k = 0 THEN Positions(roots) ELSE mark_from_end(c, marking[k - 1], k)]
  BY <1>1, MarkRefs
<1> HIDE DEF marking
<1>3. ASSUME NEW m \in bad
      PROVE  FALSE
  <2>1. PICK k \in bad : \A l \in bad : k <= l
    <3>1. bad \subseteq Nat
      BY <1>1
    <3> HIDE DEF bad
    <3> QED BY <1>3, <3>1, LeastNumber
  <2>2. k \in 0 .. count /\ ~ Marking(c, roots, marking[k], count - k)
    BY <2>1
  <2>3. CASE k = 0
    <3>1. marking[k] = Positions(roots)
      BY <1>2, <2>2, <2>3
    <3>2. Positions(roots) \subseteq DOMAIN c.nodes
      BY DEF Rooted, Positions, Range
    <3>3. ClosedAfter(c, Positions(roots), count - k)
      BY <1>1, <2>3, <3>2 DEF ClosedAfter
    <3> QED BY <2>2, <3>1, <3>2, <3>3 DEF Marking, Needed
  <2>4. CASE k # 0
    <3> DEFINE i == count - k + 1
    <3>1. k - 1 \in 0 .. count /\ ~ (k <= k - 1) /\ i = count - (k - 1) /\ i \in 1 .. count /\ i - 1 = count - k
      BY <1>1, <2>2, <2>4
    <3>2. Marking(c, roots, marking[k - 1], i)
      BY <2>1, <3>1
    <3>3. marking[k] = mark_children(c, marking[k - 1], i)
      BY <1>2, <2>2, <2>4 DEF mark_from_end, count
    <3> HIDE DEF i
    <3>4. Marking(c, roots, marking[k], i - 1)
      BY <1>1, <3>1, <3>2, <3>3, MarkStep
    <3> QED BY <2>2, <3>1, <3>4
  <2> QED BY <2>3, <2>4
<1>4. count \in 0 .. count /\ count - count = 0
  BY <1>1
<1>5. Marking(c, roots, marking[count], 0)
  BY <1>3, <1>4
<1> QED BY <1>5 DEF marked, marking, count

------------------------------------------------------------------------------
(* The first loop of compact. *)

LEMMA NextIndex ==
  ASSUME NEW count \in Nat, NEW live
  PROVE  next_index(live, count) =
           [i \in 0 .. count |-> IF i = 0 THEN 0
                                 ELSE IF i \in live THEN next_index(live, count)[i - 1] + 1
                                      ELSE next_index(live, count)[i - 1]]
<1> DEFINE Solves(f, m) == f = [i \in 0 .. m |-> IF i = 0 THEN 0 ELSE IF i \in live THEN f[i - 1] + 1 ELSE f[i - 1]]
           T == {m \in 0 .. count : \E f : Solves(f, m)}
<1>1. \E f : Solves(f, 0)
  <2>1. Solves([i \in 0 .. 0 |-> 0], 0)
    OBVIOUS
  <2> HIDE DEF Solves
  <2> QED BY <2>1
<1>2. ASSUME NEW m \in 1 .. count, NEW f, Solves(f, m - 1)
      PROVE  \E g : Solves(g, m)
  <2> DEFINE g == [i \in 0 .. m |-> IF i = m THEN IF m \in live THEN f[m - 1] + 1 ELSE f[m - 1] ELSE f[i]]
  <2>1. ASSUME NEW i \in 0 .. m
        PROVE  g[i] = IF i = 0 THEN 0 ELSE IF i \in live THEN g[i - 1] + 1 ELSE g[i - 1]
    BY <1>2
  <2>2. Solves(g, m)
    BY <2>1
  <2> HIDE DEF Solves
  <2> QED BY <2>2
<1> HIDE DEF Solves
<1>3. T \subseteq Nat /\ 0 \in T /\ \A m \in 1 .. count : m - 1 \in T => m \in T
  BY <1>1, <1>2
<1> HIDE DEF T
<1>4. count \in T
  BY <1>3, Climb
<1>5. \E f : Solves(f, count)
  BY <1>4 DEF T
<1> QED BY <1>5, Zenon DEF next_index, Solves

LEMMA NextRange ==
  ASSUME NEW count \in Nat, NEW live
  PROVE  \A i \in 0 .. count : next_index(live, count)[i] \in 0 .. i
<1> DEFINE next == next_index(live, count)
           bad == {i \in 0 .. count : next[i] \notin 0 .. i}
<1>1. next = [i \in 0 .. count |-> IF i = 0 THEN 0 ELSE IF i \in live THEN next[i - 1] + 1 ELSE next[i - 1]]
  BY NextIndex
<1> HIDE DEF next
<1>2. ASSUME NEW m \in bad
      PROVE  FALSE
  <2>1. PICK i \in bad : \A l \in bad : i <= l
    <3>1. bad \subseteq Nat
      OBVIOUS
    <3> HIDE DEF bad
    <3> QED BY <1>2, <3>1, LeastNumber
  <2>2. i # 0
    BY <1>1
  <2>3. i - 1 \in 0 .. count /\ ~ (i <= i - 1)
    BY <2>1, <2>2
  <2>4. next[i - 1] \in 0 .. i - 1
    BY <2>1, <2>3
  <2>5. next[i] = next[i - 1] + 1 \/ next[i] = next[i - 1]
    BY <1>1, <2>1, <2>2
  <2> QED BY <2>1, <2>4, <2>5
<1> QED BY <1>2 DEF next

\* The counter only goes up, and does at every marked node.
LEMMA NextGrows ==
  ASSUME NEW count \in Nat, NEW live
  PROVE  \A j \in 0 .. count : \A i \in 0 .. j : next_index(live, count)[i] <= next_index(live, count)[j]
<1> DEFINE next == next_index(live, count)
           bad == {j \in 0 .. count : \E i \in 0 .. j : ~ (next[i] <= next[j])}
<1>1. next = [i \in 0 .. count |-> IF i = 0 THEN 0 ELSE IF i \in live THEN next[i - 1] + 1 ELSE next[i - 1]]
  BY NextIndex
<1>2. \A i \in 0 .. count : next[i] \in Nat
  BY NextRange
<1> HIDE DEF next
<1>3. ASSUME NEW m \in bad
      PROVE  FALSE
  <2>1. PICK j \in bad : \A l \in bad : j <= l
    <3>1. bad \subseteq Nat
      OBVIOUS
    <3> HIDE DEF bad
    <3> QED BY <1>3, <3>1, LeastNumber
  <2>2. PICK i \in 0 .. j : ~ (next[i] <= next[j])
    BY <2>1
  <2>3. i # j
    BY <1>2, <2>1, <2>2
  <2>4. j - 1 \in 0 .. count /\ ~ (j <= j - 1) /\ i \in 0 .. j - 1
    BY <2>1, <2>2, <2>3
  <2>5. next[i] <= next[j - 1]
    BY <2>1, <2>4
  <2>6. next[j] = next[j - 1] + 1 \/ next[j] = next[j - 1]
    BY <1>1, <2>1, <2>4
  <2> QED BY <1>2, <2>1, <2>2, <2>4, <2>5, <2>6
<1> QED BY <1>3 DEF next

------------------------------------------------------------------------------
(* The second loop of compact. *)

LEMMA Copied ==
  ASSUME NEW count \in Nat, NEW c, NEW live, NEW new
  PROVE  copied(c, live, new, count) =
           [i \in 0 .. count |-> IF i = 0 THEN [nodes |-> <<>>, children |-> <<>>]
                                 ELSE IF i \in live THEN copy_live(c, new, copied(c, live, new, count)[i - 1], i)
                                      ELSE copied(c, live, new, count)[i - 1]]
<1> DEFINE Solves(f, m) == f = [i \in 0 .. m |-> IF i = 0 THEN [nodes |-> <<>>, children |-> <<>>]
                                                 ELSE IF i \in live THEN copy_live(c, new, f[i - 1], i) ELSE f[i - 1]]
           T == {m \in 0 .. count : \E f : Solves(f, m)}
<1>1. \E f : Solves(f, 0)
  <2>1. Solves([i \in 0 .. 0 |-> [nodes |-> <<>>, children |-> <<>>]], 0)
    OBVIOUS
  <2> HIDE DEF Solves
  <2> QED BY <2>1
<1>2. ASSUME NEW m \in 1 .. count, NEW f, Solves(f, m - 1)
      PROVE  \E g : Solves(g, m)
  <2> DEFINE g == [i \in 0 .. m |-> IF i = m THEN IF m \in live THEN copy_live(c, new, f[m - 1], m)
                                    ELSE f[m - 1] ELSE f[i]]
  <2>1. ASSUME NEW i \in 0 .. m
        PROVE  g[i] = IF i = 0 THEN [nodes |-> <<>>, children |-> <<>>]
                      ELSE IF i \in live THEN copy_live(c, new, g[i - 1], i) ELSE g[i - 1]
    BY <1>2
  <2>2. Solves(g, m)
    BY <2>1
  <2> HIDE DEF Solves
  <2> QED BY <2>2
<1> HIDE DEF Solves
<1>3. T \subseteq Nat /\ 0 \in T /\ \A m \in 1 .. count : m - 1 \in T => m \in T
  BY <1>1, <1>2
<1> HIDE DEF T
<1>4. count \in T
  BY <1>3, Climb
<1>5. \E f : Solves(f, count)
  BY <1>4 DEF T
<1> QED BY <1>5, Zenon DEF copied, Solves

\* The node at p of a copy is node j of the builder, with its operands renumbered.
IsCopy(c, new, copy, j, p) ==
  LET m == copy.nodes[p]
      n == c.nodes[j]
  IN  /\ m = RawNode(n.tag, n.arity, n.hi, n.width, n.lo, m.children, n.payload)
      /\ m.children \in Nat /\ (n.arity > 0 => m.children + n.arity <= Len(copy.children))
      /\ \A k \in 1 .. n.arity : copy.children[m.children + k] = new[KidPos(c, j, k)]

Tables(copy) == IsTable(copy.nodes) /\ IsTable(copy.children)

LEMMA CopyStep ==
  ASSUME NEW c, Buffer(c), NEW new, NEW copy, Tables(copy), NEW i \in DOMAIN c.nodes
  PROVE  LET after == copy_live(c, new, copy, i)
         IN  /\ Tables(after) /\ Len(copy.nodes) \in Nat /\ Len(after.nodes) = Len(copy.nodes) + 1
             /\ IsCopy(c, new, after, i, Len(copy.nodes) + 1)
             /\ \A j \in DOMAIN c.nodes : \A p \in 1 .. Len(copy.nodes) :
                  IsCopy(c, new, copy, j, p) => IsCopy(c, new, after, j, p)
<1> DEFINE after == copy_live(c, new, copy, i)
           n == c.nodes[i]
           arity == n.arity
           start == IF arity = 0 THEN 0 ELSE Len(copy.children)
           node == RawNode(n.tag, n.arity, n.hi, n.width, n.lo, start, n.payload)
           refs == [k \in 1 .. arity |-> new[KidPos(c, i, k)]]
<1>1. /\ after.nodes = Append(copy.nodes, node)
      /\ after.children = copy.children \o [k \in 1 .. arity |-> new[Index(ChildrenOf(c, n)[k]) + 1]]
  BY DEF copy_live
<1>2. arity \in Nat /\ ChildrenOf(c, n) = [k \in 1 .. arity |-> Kid(c, i, k)]
  BY KidsOf
<1>3. Len(copy.children) \in Nat /\ Len(copy.nodes) \in Nat
  BY TableLen DEF Tables
<1> HIDE DEF after, arity
<1>4. after.children = copy.children \o refs
  <2>1. \A k \in 1 .. arity : ChildrenOf(c, n)[k] = Kid(c, i, k)
    BY <1>2
  <2> HIDE DEF n
  <2>2. [k \in 1 .. arity |-> new[Index(ChildrenOf(c, n)[k]) + 1]] = refs
    BY <2>1 DEF KidPos
  <2> QED BY <1>1, <2>2
<1>5. refs = [k \in 1 .. arity |-> refs[k]] /\ \A k \in 1 .. arity : refs[k] = new[KidPos(c, i, k)]
  OBVIOUS
<1> HIDE DEF refs
<1>6. IsTable(refs) /\ Len(refs) = arity
  BY <1>2, <1>5, FunctionIsTable
<1>7. /\ IsTable(after.children) /\ Len(after.children) = Len(copy.children) + arity
      /\ \A k \in 1 .. Len(copy.children) : after.children[k] = copy.children[k]
      /\ \A k \in 1 .. arity : after.children[Len(copy.children) + k] = refs[k]
  <2> DEFINE old == copy.children
  <2>1. IsTable(old) /\ after.children = old \o refs
    BY <1>4 DEF Tables
  <2> HIDE DEF old
  <2>2. /\ IsTable(old \o refs) /\ Len(old \o refs) = Len(old) + Len(refs)
        /\ \A k \in 1 .. Len(old) : (old \o refs)[k] = old[k]
        /\ \A k \in 1 .. Len(refs) : (old \o refs)[Len(old) + k] = refs[k]
    <3>1. IsTable(refs) /\ IsTable(old)
      BY <1>6, <2>1
    <3> QED BY ONLY <3>1, JoinTable
  <2> QED BY <1>6, <2>1, <2>2 DEF old
<1>8. /\ IsTable(after.nodes) /\ Len(after.nodes) = Len(copy.nodes) + 1
      /\ \A k \in 1 .. Len(copy.nodes) : after.nodes[k] = copy.nodes[k]
      /\ after.nodes[Len(copy.nodes) + 1] = node
  BY <1>1, AppendTable DEF Tables
<1>9. IsCopy(c, new, after, i, Len(copy.nodes) + 1)
  <2> DEFINE m == after.nodes[Len(copy.nodes) + 1]
  <2>1. m = node
    BY <1>8
  <2>2. node.children = start
    BY DEF RawNode
  <2>3. start \in Nat /\ (arity > 0 => start = Len(copy.children))
    BY <1>2, <1>3
  <2> HIDE DEF start
  <2>4. m = RawNode(n.tag, n.arity, n.hi, n.width, n.lo, m.children, n.payload)
    BY <2>1, <2>2
  <2>5. m.children = start
    BY <2>1, <2>2
  <2> HIDE DEF m, n
  <2>6. arity > 0 => m.children + arity <= Len(after.children)
    BY <1>2, <1>3, <1>7, <2>3, <2>5
  <2>7. \A k \in 1 .. arity : after.children[m.children + k] = new[KidPos(c, i, k)]
    BY <1>2, <1>5, <1>7, <2>3, <2>5
  <2> QED BY <2>3, <2>4, <2>5, <2>6, <2>7 DEF IsCopy, arity, m, n
<1>10. ASSUME NEW j \in DOMAIN c.nodes, NEW p \in 1 .. Len(copy.nodes), IsCopy(c, new, copy, j, p)
       PROVE  IsCopy(c, new, after, j, p)
  <2> DEFINE m == copy.nodes[p]
             s == m.children
             len == c.nodes[j].arity
  <2>1. /\ m = RawNode(c.nodes[j].tag, c.nodes[j].arity, c.nodes[j].hi, c.nodes[j].width, c.nodes[j].lo, s, c.nodes[j].payload)
        /\ s \in Nat /\ (len > 0 => s + len <= Len(copy.children))
        /\ \A k \in 1 .. len : copy.children[s + k] = new[KidPos(c, j, k)]
    BY <1>10 DEF IsCopy
  <2>2. len \in Nat
    BY KidsOf
  <2>3. after.nodes[p] = m
    BY <1>8
  <2> HIDE DEF m, s, len
  <2>4. len > 0 => s + len <= Len(after.children)
    BY <1>2, <1>3, <1>7, <2>1, <2>2
  <2>5. \A k \in 1 .. len : after.children[s + k] = new[KidPos(c, j, k)]
    <3> TAKE k \in 1 .. len
    <3>1. s + k \in 1 .. Len(copy.children)
      BY <1>3, <2>1, <2>2
    <3> QED BY <1>7, <2>1, <3>1
  <2>6. after.nodes[p].children = s
    BY <2>3 DEF s
  <2> QED BY <2>1, <2>3, <2>4, <2>5, <2>6 DEF IsCopy, len
<1> QED BY <1>3, <1>7, <1>8, <1>9, <1>10 DEF Tables, after

\* After the first i nodes: the marked ones among them, in their order.
CopiedInv(c, live, new, next, copy, i) ==
  /\ Tables(copy) /\ Len(copy.nodes) = next[i]
  /\ \A j \in live : j <= i => IsCopy(c, new, copy, j, next[j - 1] + 1)
  /\ \A p \in 1 .. next[i] : \E j \in live : j <= i /\ p = next[j - 1] + 1

LEMMA CopiedKeeps ==
  ASSUME NEW c, Buffer(c), NEW live, live \subseteq DOMAIN c.nodes, NEW new
  PROVE  LET count == Len(c.nodes)
         IN  CopiedInv(c, live, new, next_index(live, count), copied(c, live, new, count)[count], count)
<1> DEFINE count == Len(c.nodes)
           next == next_index(live, count)
           after == copied(c, live, new, count)
           bad == {i \in 0 .. count : ~ CopiedInv(c, live, new, next, after[i], i)}
<1>1. count \in Nat /\ DOMAIN c.nodes = 1 .. count
  BY TableLen DEF Buffer
<1> HIDE DEF count
<1>2. next = [i \in 0 .. count |-> IF i = 0 THEN 0 ELSE IF i \in live THEN next[i - 1] + 1 ELSE next[i - 1]]
  BY <1>1, NextIndex
<1>3. \A i \in 0 .. count : next[i] \in 0 .. i
  BY <1>1, NextRange
<1>4. \A j \in 0 .. count : \A i \in 0 .. j : next[i] <= next[j]
  BY <1>1, NextGrows
<1>5. after = [i \in 0 .. count |->
                 IF i = 0 THEN [nodes |-> <<>>, children |-> <<>>]
                 ELSE IF i \in live THEN copy_live(c, new, after[i - 1], i) ELSE after[i - 1]]
  BY <1>1, Copied
<1> HIDE DEF next, after
<1>6. ASSUME NEW mm \in bad
      PROVE  FALSE
  <2>1. PICK i \in bad : \A l \in bad : i <= l
    <3>1. bad \subseteq Nat
      BY <1>1
    <3> HIDE DEF bad
    <3> QED BY <1>6, <3>1, LeastNumber
  <2>2. i \in 0 .. count /\ ~ CopiedInv(c, live, new, next, after[i], i)
    BY <2>1
  <2>3. CASE i = 0
    <3>1. after[i] = [nodes |-> <<>>, children |-> <<>>] /\ next[i] = 0
      BY <1>2, <1>5, <2>2, <2>3
    <3>2. Tables(after[i]) /\ Len(after[i].nodes) = next[i]
      BY <3>1, EmptyTable DEF Tables
    <3>3. \A j \in live : ~ (j <= i)
      BY <1>1, <2>3
    <3> QED BY <2>2, <3>1, <3>2, <3>3 DEF CopiedInv
  <2>4. CASE i # 0
    <3>1. i - 1 \in 0 .. count /\ ~ (i <= i - 1) /\ i \in 1 .. count
      BY <1>1, <2>2, <2>4
    <3>2. CopiedInv(c, live, new, next, after[i - 1], i - 1)
      BY <2>1, <3>1
    <3>3. next[i - 1] \in Nat
      BY <1>3, <3>1
    <3>4. CASE i \in live
      <4>1. next[i] = next[i - 1] + 1 /\ after[i] = copy_live(c, new, after[i - 1], i)
        BY <1>2, <1>5, <2>4, <3>1, <3>4
      <4>2. Tables(after[i - 1]) /\ Len(after[i - 1].nodes) = next[i - 1]
        BY <3>2 DEF CopiedInv
      <4>3. /\ Tables(after[i]) /\ Len(after[i].nodes) = next[i]
            /\ IsCopy(c, new, after[i], i, next[i - 1] + 1)
            /\ \A j \in DOMAIN c.nodes : \A p \in 1 .. next[i - 1] :
                 IsCopy(c, new, after[i - 1], j, p) => IsCopy(c, new, after[i], j, p)
        <5> DEFINE old == after[i - 1]
                   at == next[i - 1]
        <5> HIDE DEF old, at
        <5>1. Tables(old) /\ Len(old.nodes) = at /\ after[i] = copy_live(c, new, old, i) /\ next[i] = at + 1
          BY <4>1, <4>2 DEF old, at
        <5>2. i \in DOMAIN c.nodes
          BY <1>1, <3>1
        <5>3. LET now == copy_live(c, new, old, i)
              IN  /\ Tables(now) /\ Len(now.nodes) = Len(old.nodes) + 1
                  /\ IsCopy(c, new, now, i, Len(old.nodes) + 1)
                  /\ \A j \in DOMAIN c.nodes : \A p \in 1 .. Len(old.nodes) :
                       IsCopy(c, new, old, j, p) => IsCopy(c, new, now, j, p)
          BY <5>1, <5>2, CopyStep
        <5> QED BY <5>1, <5>3 DEF old, at
      <4>4. ASSUME NEW j \in live, j <= i
            PROVE  IsCopy(c, new, after[i], j, next[j - 1] + 1)
        <5>1. CASE j = i
          BY <4>3, <5>1
        <5>2. CASE j # i
          <6>1. j <= i - 1 /\ j \in 1 .. count /\ j - 1 \in 0 .. count /\ j \in 0 .. i - 1
            BY <1>1, <3>1, <4>4, <5>2
          <6>2. next[j] = next[j - 1] + 1 /\ next[j] <= next[i - 1] /\ next[j - 1] \in Nat
            <7>1. next[j] = next[j - 1] + 1
              BY <1>2, <6>1
            <7>2. next[j] <= next[i - 1]
              BY <1>4, <3>1, <6>1
            <7>3. next[j - 1] \in Nat
              BY <1>3, <6>1
            <7> QED BY <7>1, <7>2, <7>3
          <6>3. next[j - 1] + 1 \in 1 .. next[i - 1]
            BY <3>3, <6>2
          <6>4. IsCopy(c, new, after[i - 1], j, next[j - 1] + 1)
            BY <3>2, <6>1 DEF CopiedInv
          <6> QED BY <1>1, <4>3, <6>1, <6>3, <6>4
        <5> QED BY <5>1, <5>2
      <4>5. ASSUME NEW p \in 1 .. next[i]
            PROVE  \E j \in live : j <= i /\ p = next[j - 1] + 1
        <5>1. CASE p = next[i]
          BY <1>1, <2>2, <3>4, <4>1, <5>1
        <5>2. CASE p \in 1 .. next[i - 1]
          <6>1. PICK j \in live : j <= i - 1 /\ p = next[j - 1] + 1
            BY <3>2, <5>2 DEF CopiedInv
          <6> QED BY <1>1, <3>1, <6>1
        <5> QED BY <3>3, <4>1, <5>1, <5>2
      <4> QED BY <2>2, <4>3, <4>4, <4>5 DEF CopiedInv
    <3>5. CASE i \notin live
      <4>1. next[i] = next[i - 1] /\ after[i] = after[i - 1]
        BY <1>2, <1>5, <2>4, <3>1, <3>5
      <4>2. \A j \in live : j <= i <=> j <= i - 1
        BY <1>1, <3>1, <3>5
      <4> QED BY <2>2, <3>2, <4>1, <4>2 DEF CopiedInv
    <3> QED BY <3>4, <3>5
  <2> QED BY <2>3, <2>4
<1>7. count \in 0 .. count
  BY <1>1
<1>8. CopiedInv(c, live, new, next, after[count], count)
  BY <1>6, <1>7
<1> QED BY <1>8 DEF next, after, count

------------------------------------------------------------------------------
(* What compact returns. *)

\* The marked nodes of c, in their order and one copy of each, with the blob of c.
Compaction(c, live, next, new, d) ==
  /\ d = [nodes |-> d.nodes, children |-> d.children, blob |-> c.blob]
  /\ IsTable(d.nodes) /\ IsTable(d.children) /\ Len(d.nodes) <= Len(c.nodes)
  /\ DOMAIN new = live
  /\ \A j \in live :
       /\ next[j - 1] \in Nat /\ next[j - 1] + 1 \in DOMAIN d.nodes
       /\ new[j] = NodeRef(result_sort(c.nodes[j].tag), next[j - 1])
       /\ Index(new[j]) = next[j - 1] /\ SortOf(new[j]) = result_sort(c.nodes[j].tag)
       /\ IsCopy(c, new, d, j, next[j - 1] + 1)
  /\ \A p \in DOMAIN d.nodes : \E j \in live : p = next[j - 1] + 1
  /\ \A i, j \in live : i < j => next[i - 1] < next[j - 1]

LEMMA CompactCopies ==
  ASSUME NEW c, Buffer(c), NEW roots, Rooted(c, roots)
  PROVE  LET full == compact(c, roots)
         IN  Compaction(c, marked(c, roots), next_index(marked(c, roots), Len(c.nodes)), full.old_to_new, full.expr)
<1> DEFINE count == Len(c.nodes)
           live == marked(c, roots)
           next == next_index(live, count)
           new == [i \in live |-> NodeRef(result_sort(c.nodes[i].tag), next[i - 1])]
           copy == copied(c, live, new, count)[count]
           full == compact(c, roots)
           d == full.expr
<1>1. count \in Nat /\ DOMAIN c.nodes = 1 .. count /\ count <= SortBit /\ SortBit \in Nat
  BY TableLen, WireAssumption DEF Buffer, NodesInv
<1>2. live \subseteq DOMAIN c.nodes
  BY MarkedFacts DEF Marking
<1>3. d = [nodes |-> copy.nodes, children |-> copy.children, blob |-> c.blob] /\ full.old_to_new = new
  BY DEF compact
<1>4. CopiedInv(c, live, new, next, copy, count)
  BY <1>2, CopiedKeeps
<1> HIDE DEF count, live
<1>5. \A i \in 0 .. count : next[i] \in 0 .. i
  BY <1>1, NextRange
<1>6. \A j \in 0 .. count : \A i \in 0 .. j : next[i] <= next[j]
  BY <1>1, NextGrows
<1>7. \A j \in live : next[j] = next[j - 1] + 1
  <2>1. next = [i \in 0 .. count |-> IF i = 0 THEN 0 ELSE IF i \in live THEN next[i - 1] + 1 ELSE next[i - 1]]
    BY <1>1, NextIndex
  <2> HIDE DEF next
  <2> QED BY <1>1, <1>2, <2>1
<1>8. DOMAIN new = live /\ \A j \in live : new[j] = NodeRef(result_sort(c.nodes[j].tag), next[j - 1])
  OBVIOUS
<1> HIDE DEF d, full, copy, next, new
<1>9. d.nodes = copy.nodes /\ d.children = copy.children /\ d.blob = c.blob
  BY <1>3
<1>10. IsTable(d.nodes) /\ IsTable(d.children) /\ Len(d.nodes) = next[count] /\ DOMAIN d.nodes = 1 .. next[count]
  BY <1>4, <1>9, TableLen DEF CopiedInv, Tables
<1>11. ASSUME NEW j \in live
       PROVE  /\ next[j - 1] \in Nat /\ next[j - 1] + 1 \in DOMAIN d.nodes
              /\ Index(new[j]) = next[j - 1] /\ SortOf(new[j]) = result_sort(c.nodes[j].tag)
              /\ IsCopy(c, new, d, j, next[j - 1] + 1)
  <2>1. j \in 1 .. count /\ j - 1 \in 0 .. count /\ j <= count /\ j \in 0 .. count
    BY <1>1, <1>2
  <2>2. next[j - 1] \in 0 .. j - 1 /\ next[j] <= next[count] /\ next[j] = next[j - 1] + 1
    <3>1. next[j - 1] \in 0 .. j - 1
      BY <1>5, <2>1
    <3>2. count \in 0 .. count /\ j \in 0 .. count
      BY <1>1, <2>1
    <3>3. next[j] <= next[count]
      BY <1>6, <3>2
    <3> QED BY <1>7, <3>1, <3>3
  <2>3. next[count] \in Nat
    BY <1>1, <1>5
  <2>4. next[j - 1] + 1 \in 1 .. next[count] /\ next[j - 1] \in 0 .. SortBit - 1
    BY <1>1, <2>1, <2>2, <2>3
  <2>5. result_sort(c.nodes[j].tag) \in {"bv", "bool"}
    BY DEF result_sort
  <2>6. Index(new[j]) = next[j - 1] /\ SortOf(new[j]) = result_sort(c.nodes[j].tag)
    <3> DEFINE sort == result_sort(c.nodes[j].tag)
               index == next[j - 1]
    <3>1. sort \in {"bv", "bool"} /\ index \in 0 .. SortBit - 1 /\ new[j] = NodeRef(sort, index)
      BY <1>8, <2>4, <2>5
    <3> HIDE DEF sort, index
    <3>2. Index(new[j]) = index /\ SortOf(new[j]) = sort
      BY <3>1, RefParts
    <3> QED BY <3>2 DEF sort, index
  <2>7. IsCopy(c, new, copy, j, next[j - 1] + 1)
    BY <1>4, <2>1 DEF CopiedInv
  <2>8. IsCopy(c, new, d, j, next[j - 1] + 1)
    BY <1>9, <2>7 DEF IsCopy
  <2> QED BY <1>10, <2>2, <2>4, <2>6, <2>8
<1>12. \A p \in DOMAIN d.nodes : \E j \in live : p = next[j - 1] + 1
  BY <1>4, <1>10 DEF CopiedInv
<1>13. ASSUME NEW i \in live, NEW j \in live, i < j
       PROVE  next[i - 1] < next[j - 1]
  <2>1. i \in 0 .. count /\ i - 1 \in 0 .. count /\ j - 1 \in 0 .. count /\ i \in 0 .. j - 1
    BY <1>1, <1>2, <1>13
  <2>2. next[i] = next[i - 1] + 1 /\ next[i] <= next[j - 1] /\ next[i - 1] \in Nat /\ next[j - 1] \in Nat
    BY <1>5, <1>6, <1>7, <2>1
  <2> QED BY <2>2
<1>14. Len(d.nodes) <= Len(c.nodes)
  BY <1>1, <1>5, <1>10 DEF count
<1>15. d = [nodes |-> d.nodes, children |-> d.children, blob |-> c.blob]
  BY <1>3, <1>9
<1>16. Compaction(c, live, next, new, d)
  BY <1>8, <1>9, <1>10, <1>11, <1>12, <1>13, <1>14, <1>15 DEF Compaction
<1> QED BY <1>3, <1>16 DEF live, next, count, d, full

\* The fields of a copied node are those of the old one.
SameFields(c, new, d, j, p) ==
  LET m == d.nodes[p]
      n == c.nodes[j]
  IN  /\ m.tag = n.tag /\ m.arity = n.arity /\ m.hi = n.hi /\ m.width = n.width /\ m.lo = n.lo
      /\ m.payload = n.payload /\ n.arity \in Nat
      /\ ChildrenOf(d, m) = [k \in 1 .. n.arity |-> new[KidPos(c, j, k)]]
      /\ (m.arity > 0 => m.children + m.arity <= Len(d.children))
      /\ m.children \in Nat

LEMMA CopyFields ==
  ASSUME NEW c, Buffer(c), NEW live, NEW next, NEW new, NEW d, Compaction(c, live, next, new, d),
         live \subseteq DOMAIN c.nodes, NEW j \in live
  PROVE  SameFields(c, new, d, j, next[j - 1] + 1)
<1> DEFINE m == d.nodes[next[j - 1] + 1]
           n == c.nodes[j]
           s == m.children
           len == n.arity
<1>1. /\ m = RawNode(n.tag, n.arity, n.hi, n.width, n.lo, s, n.payload)
      /\ s \in Nat /\ (len > 0 => s + len <= Len(d.children)) /\ IsTable(d.children)
      /\ \A k \in 1 .. len : d.children[s + k] = new[KidPos(c, j, k)]
  BY DEF Compaction, IsCopy
<1>2. len \in Nat
  BY KidsOf
<1> HIDE DEF m, s
<1>3. /\ m.tag = n.tag /\ m.arity = len /\ m.hi = n.hi /\ m.width = n.width /\ m.lo = n.lo
      /\ m.payload = n.payload
  BY <1>1 DEF RawNode
<1>4. m.children = s
  BY DEF s
<1> HIDE DEF n, len
<1>5. ChildrenOf(d, m) = SubSeq(d.children, s + 1, s + len)
  BY <1>3, <1>4 DEF ChildrenOf
<1>6. SubSeq(d.children, s + 1, s + len) = [k \in 1 .. len |-> new[KidPos(c, j, k)]]
  <2>1. CASE len > 0
    <3> DEFINE kids == d.children
    <3>1. IsTable(kids) /\ s + len <= Len(kids) /\ \A k \in 1 .. len : kids[s + k] = new[KidPos(c, j, k)]
      BY <1>1, <2>1
    <3> HIDE DEF kids
    <3>2. SubSeq(kids, s + 1, s + len) = [k \in 1 .. len |-> kids[s + k]]
      BY <1>1, <1>2, <3>1, TablePart
    <3> QED BY <3>1, <3>2 DEF kids
  <2>2. CASE len = 0
    <3>1. SubSeq(d.children, s + 1, s + len) = <<>>
      BY <1>1, <2>2, SubSeqEmpty
    <3>2. [k \in 1 .. len |-> new[KidPos(c, j, k)]] = <<>>
      BY <2>2
    <3> QED BY <3>1, <3>2
  <2> QED BY <1>2, <2>1, <2>2
<1> QED BY <1>1, <1>2, <1>3, <1>4, <1>5, <1>6 DEF SameFields, m, n, s, len

------------------------------------------------------------------------------
(* What the server checks of a compacted buffer. *)

LEMMA RefCopied ==
  ASSUME NEW c, Buffer(c), NEW live, NEW next, NEW new, NEW d, Compaction(c, live, next, new, d),
         live \subseteq DOMAIN c.nodes, NEW ref, NEW sort, validate_node_ref(c, ref, sort), Index(ref) + 1 \in live
  PROVE  /\ validate_node_ref(d, new[Index(ref) + 1], sort)
         /\ NodeAt(d, new[Index(ref) + 1]).width = NodeAt(c, ref).width
<1> DEFINE j == Index(ref) + 1
           p == next[j - 1] + 1
           moved == new[j]
<1>1. j \in live /\ result_sort(c.nodes[j].tag) = sort
  BY DEF validate_node_ref, NodeAt
<1> HIDE DEF j
<1>2. p \in DOMAIN d.nodes /\ Index(moved) + 1 = p /\ SortOf(moved) = sort
  BY <1>1 DEF Compaction
<1>3. d.nodes[p].tag = c.nodes[j].tag /\ d.nodes[p].width = c.nodes[j].width
  <2>1. SameFields(c, new, d, j, p)
    BY <1>1, CopyFields
  <2> QED BY <2>1 DEF SameFields
<1> HIDE DEF p, moved
<1>4. validate_node_ref(d, moved, sort) /\ NodeAt(d, moved).width = c.nodes[j].width
  BY <1>1, <1>2, <1>3 DEF validate_node_ref, NodeAt
<1> QED BY <1>4 DEF NodeAt, j, moved

\* Operands that are the same nodes elsewhere fit the same node elsewhere.
LEMMA FitMoved ==
  ASSUME NEW c, NEW d, NEW i, NEW p, NEW n, NEW m, NEW kids, NEW refs,
         m.tag = n.tag, m.arity = n.arity, m.hi = n.hi, m.width = n.width, m.lo = n.lo,
         n.tag \in BvTags \cup BoolTags, n.arity \in Nat, validate_arity(n), operands_fit(c, i, n, kids),
         \A k \in 1 .. n.arity : \A sort \in {"bv", "bool"} :
           expect_child(c, i, kids[k], sort) =>
             expect_child(d, p, refs[k], sort) /\ NodeAt(d, refs[k]).width = NodeAt(c, kids[k]).width
  PROVE  operands_fit(d, p, m, refs)
<1> DEFINE arity == n.arity
           tag == n.tag
           hi == n.hi
           width == n.width
           bv(k)    == expect_child(c, i, kids[k], "bv")
           bool(k)  == expect_child(c, i, kids[k], "bool")
           w(k)     == NodeAt(c, kids[k]).width
           bv2(k)   == expect_child(d, p, refs[k], "bv")
           bool2(k) == expect_child(d, p, refs[k], "bool")
           w2(k)    == NodeAt(d, refs[k]).width
<1>1. \A k \in 1 .. arity : (bv(k) => bv2(k) /\ w2(k) = w(k)) /\ (bool(k) => bool2(k))
  OBVIOUS
<1>2. arity \in Nat /\ (tag # "BvSelect" => arity = fixed_arity(tag)) /\ (tag = "BvSelect" => arity % 2 = 1)
  BY DEF validate_arity
<1>3. /\ tag \in UnaryTags   => bv(1) /\ width = w(1)
      /\ tag \in BinaryTags  => bv(1) /\ bv(2) /\ w(1) = w(2) /\ width = w(1)
      /\ tag \in CompareTags => bv(1) /\ bv(2) /\ w(1) = w(2)
      /\ tag \in BoolPairs   => bool(1) /\ bool(2)
      /\ tag = "BoolNot"     => bool(1)
      /\ tag = "NegOverflow" => bv(1)
      /\ tag \in ExtendTags  => bv(1) /\ width = w(1) + hi
      /\ tag = "BvConcat"    => bv(1) /\ bv(2) /\ width = w(1) + w(2)
      /\ tag = "BvExtract"   => bv(1) /\ n.lo <= hi /\ hi < w(1) /\ width = hi - n.lo + 1
      /\ tag = "BvIte" => bool(1) /\ bv(2) /\ bv(3) /\ w(2) = w(3) /\ width = w(2)
      /\ tag = "BvSelect" =>
           /\ hi = (arity - 1) \div 2 /\ bv(arity) /\ width = w(arity)
           /\ \A q \in 1 .. hi : bool(2 * q - 1) /\ bv(2 * q) /\ w(2 * q) = w(arity)
  BY DEF operands_fit
<1> HIDE DEF arity, tag, hi, width, bv, bool, w, bv2, bool2, w2
<1>4. /\ tag \in UnaryTags   => bv2(1) /\ width = w2(1)
      /\ tag \in BinaryTags  => bv2(1) /\ bv2(2) /\ w2(1) = w2(2) /\ width = w2(1)
      /\ tag \in CompareTags => bv2(1) /\ bv2(2) /\ w2(1) = w2(2)
      /\ tag \in BoolPairs   => bool2(1) /\ bool2(2)
      /\ tag = "BoolNot"     => bool2(1)
      /\ tag = "NegOverflow" => bv2(1)
      /\ tag \in ExtendTags  => bv2(1) /\ width = w2(1) + hi
      /\ tag = "BvConcat"    => bv2(1) /\ bv2(2) /\ width = w2(1) + w2(2)
      /\ tag = "BvExtract"   => bv2(1) /\ n.lo <= hi /\ hi < w2(1) /\ width = hi - n.lo + 1
      /\ tag = "BvIte" => bool2(1) /\ bv2(2) /\ bv2(3) /\ w2(2) = w2(3) /\ width = w2(2)
  <2>1. /\ tag \in UnaryTags \cup ExtendTags \cup {"BoolNot", "NegOverflow", "BvExtract"} => arity = 1
        /\ tag \in BinaryTags \cup CompareTags \cup BoolPairs \cup {"BvConcat"} => arity = 2
        /\ tag = "BvIte" => arity = 3
    BY <1>2, TagClasses
  <2>2. /\ arity = 1 => 1 \in 1 .. arity
        /\ arity = 2 => 1 \in 1 .. arity /\ 2 \in 1 .. arity
        /\ arity = 3 => 1 \in 1 .. arity /\ 2 \in 1 .. arity /\ 3 \in 1 .. arity
    OBVIOUS
  <2> QED BY <1>1, <1>3, <2>1, <2>2
<1>5. tag = "BvSelect" =>
        /\ hi = (arity - 1) \div 2 /\ bv2(arity) /\ width = w2(arity)
        /\ \A q \in 1 .. hi : bool2(2 * q - 1) /\ bv2(2 * q) /\ w2(2 * q) = w2(arity)
  <2> SUFFICES ASSUME tag = "BvSelect"
               PROVE  /\ hi = (arity - 1) \div 2 /\ bv2(arity) /\ width = w2(arity)
                      /\ \A q \in 1 .. hi : bool2(2 * q - 1) /\ bv2(2 * q) /\ w2(2 * q) = w2(arity)
    OBVIOUS
  <2>1. arity % 2 = 1 /\ hi = (arity - 1) \div 2
    BY <1>2, <1>3
  <2>2. arity \in 1 .. arity /\ \A q \in 1 .. hi : 2 * q - 1 \in 1 .. arity /\ 2 * q \in 1 .. arity
    BY <1>2, <2>1
  <2> QED BY <1>1, <1>3, <2>2
<1> QED BY <1>4, <1>5 DEF operands_fit, arity, tag, hi, width, bv2, bool2, w2

LEMMA OperandsCopied ==
  ASSUME NEW c, Buffer(c), NEW live, NEW next, NEW new, NEW d, Compaction(c, live, next, new, d),
         live \subseteq DOMAIN c.nodes, ClosedAfter(c, live, 0), NEW j \in live
  PROVE  validate_operands(d, next[j - 1] + 1)
<1> DEFINE n == c.nodes[j]
           p == next[j - 1] + 1
           m == d.nodes[p]
           kids == ChildrenOf(c, n)
           refs == ChildrenOf(d, m)
<1>1. /\ m.tag = n.tag /\ m.arity = n.arity /\ m.hi = n.hi /\ m.width = n.width /\ m.lo = n.lo
      /\ n.arity \in Nat /\ refs = [k \in 1 .. n.arity |-> new[KidPos(c, j, k)]]
      /\ (m.arity > 0 => m.children + m.arity <= Len(d.children))
  BY CopyFields DEF SameFields
<1>2. kids = [k \in 1 .. n.arity |-> Kid(c, j, k)]
  BY KidsOf
<1>3. /\ n.tag \in BvTags \cup BoolTags /\ validate_arity(n) /\ operands_fit(c, j, n, kids)
  BY DEF Buffer, NodesInv, validate_header, validate_operands
<1>4. ASSUME NEW k \in 1 .. n.arity, NEW sort \in {"bv", "bool"}, expect_child(c, j, kids[k], sort)
      PROVE  expect_child(d, p, refs[k], sort) /\ NodeAt(d, refs[k]).width = NodeAt(c, kids[k]).width
  <2> DEFINE ref == Kid(c, j, k)
             l == KidPos(c, j, k)
  <2>1. kids[k] = ref /\ refs[k] = new[l]
    BY <1>1, <1>2
  <2>2. validate_node_ref(c, ref, sort) /\ Index(ref) + 1 = l
    BY <1>4, <2>1 DEF expect_child, KidPos
  <2>3. l \in live /\ l < j
    <3>1. Len(c.nodes) \in Nat /\ DOMAIN c.nodes = 1 .. Len(c.nodes)
      BY TableLen DEF Buffer
    <3>2. j > 0
      BY <3>1
    <3> QED BY <3>2, KidBefore DEF ClosedAfter
  <2> HIDE DEF ref, l
  <2>4. validate_node_ref(d, new[l], sort) /\ NodeAt(d, new[l]).width = NodeAt(c, ref).width
    BY <2>2, <2>3, RefCopied
  <2>5. Index(new[l]) + 1 = next[l - 1] + 1 /\ next[l - 1] < next[j - 1]
    BY <2>3 DEF Compaction
  <2>6. next[l - 1] + 1 < next[j - 1] + 1
    <3>1. next[l - 1] \in Nat /\ next[j - 1] \in Nat
      BY <2>3 DEF Compaction
    <3> QED BY <2>5, <3>1
  <2> QED BY <2>1, <2>4, <2>5, <2>6 DEF expect_child
<1> HIDE DEF n, m, p, kids, refs
<1>5. operands_fit(d, p, m, refs)
  <2>1. /\ m.tag = n.tag /\ m.arity = n.arity /\ m.hi = n.hi /\ m.width = n.width /\ m.lo = n.lo
        /\ n.arity \in Nat
    BY <1>1
  <2> QED BY <1>3, <1>4, <2>1, FitMoved
<1> QED BY <1>1, <1>5 DEF validate_operands, m, p, refs

\* A buffer with the same blob sees the same text.
LEMMA HeaderCopied ==
  ASSUME NEW c, NEW d, d.blob = c.blob, NEW n, NEW m,
         m.tag = n.tag, m.arity = n.arity, m.width = n.width, m.payload = n.payload, validate_header(c, n)
  PROVE  validate_header(d, m)
BY DEF validate_header, validate_arity, validate_node_width, HasText, InBlob, blob_ref

\* Compaction drops nodes and renumbers the rest, and the server accepts the
\* result: operands still precede their node and have the sorts and widths asked
\* for, and every root is there, of its sort.  So the code's error for a live
\* node with a child that is not live is never reached.
THEOREM CompactIsValid ==
  ASSUME NEW c, BuilderInv(c), NEW roots, Rooted(c, roots)
  PROVE  LET full == compact(c, roots)
         IN  /\ validate(full.expr)
             /\ \A k \in DOMAIN roots : \A sort :
                  validate_node_ref(c, roots[k], sort) => validate_node_ref(full.expr, remap_ref(full, roots[k]), sort)
<1> DEFINE live == marked(c, roots)
           next == next_index(live, Len(c.nodes))
           full == compact(c, roots)
           new == full.old_to_new
           d == full.expr
<1>0. Buffer(c)
  BY DEF BuilderInv, TablesInv, Buffer
<1>1. Compaction(c, live, next, new, d)
  BY <1>0, CompactCopies
<1>2. live \subseteq DOMAIN c.nodes /\ ClosedAfter(c, live, 0) /\ Positions(roots) \subseteq live
  BY <1>0, MarkedFacts DEF Marking
<1> HIDE DEF live, next, new, d, full
<1>3. Len(d.nodes) <= SortBit
  BY <1>0, <1>1, WireAssumption, TableLen DEF Compaction, NodesInv, Buffer
<1>4. ASSUME NEW p \in DOMAIN d.nodes
      PROVE  validate_header(d, d.nodes[p]) /\ validate_operands(d, p)
  <2>1. PICK j \in live : p = next[j - 1] + 1
    BY <1>1 DEF Compaction
  <2> DEFINE n == c.nodes[j]
             m == d.nodes[p]
  <2>2. m.tag = n.tag /\ m.arity = n.arity /\ m.width = n.width /\ m.payload = n.payload
    <3>1. SameFields(c, new, d, j, p)
      BY <1>0, <1>1, <1>2, <2>1, CopyFields
    <3> QED BY <3>1 DEF SameFields
  <2>3. validate_header(c, n)
    BY <1>0, <1>2 DEF Buffer, NodesInv
  <2>4. d.blob = c.blob
    BY <1>1 DEF Compaction
  <2> HIDE DEF n, m
  <2>5. validate_header(d, m)
    BY <2>2, <2>3, <2>4, HeaderCopied
  <2>6. validate_operands(d, p)
    BY <1>0, <1>1, <1>2, <2>1, OperandsCopied
  <2> QED BY <2>5, <2>6 DEF m
<1>5. validate_symbols(d)
  <2> SUFFICES ASSUME NEW p \in DOMAIN d.nodes, NEW q \in DOMAIN d.nodes,
                      d.nodes[p].tag \in VarTags, d.nodes[q].tag \in VarTags,
                      blob_ref(d, d.nodes[p].payload) = blob_ref(d, d.nodes[q].payload)
               PROVE  result_sort(d.nodes[p].tag) = result_sort(d.nodes[q].tag) /\ d.nodes[p].width = d.nodes[q].width
    BY DEF validate_symbols
  <2>1. PICK i \in live : p = next[i - 1] + 1
    BY <1>1 DEF Compaction
  <2>2. PICK j \in live : q = next[j - 1] + 1
    BY <1>1 DEF Compaction
  <2>3. /\ d.nodes[p].tag = c.nodes[i].tag /\ d.nodes[p].width = c.nodes[i].width
        /\ d.nodes[p].payload = c.nodes[i].payload
    <3>1. SameFields(c, new, d, i, p)
      BY <1>0, <1>1, <1>2, <2>1, CopyFields
    <3> QED BY <3>1 DEF SameFields
  <2>4. /\ d.nodes[q].tag = c.nodes[j].tag /\ d.nodes[q].width = c.nodes[j].width
        /\ d.nodes[q].payload = c.nodes[j].payload
    <3>1. SameFields(c, new, d, j, q)
      BY <1>0, <1>1, <1>2, <2>2, CopyFields
    <3> QED BY <3>1 DEF SameFields
  <2>5. \A payload : blob_ref(d, payload) = blob_ref(c, payload)
    <3>1. d.blob = c.blob
      BY <1>1 DEF Compaction
    <3> QED BY <3>1 DEF blob_ref
  <2>6. validate_symbols(c) /\ i \in DOMAIN c.nodes /\ j \in DOMAIN c.nodes
    BY <1>2, SymbolsValid
  <2>7. blob_ref(c, c.nodes[i].payload) = blob_ref(c, c.nodes[j].payload)
    BY <2>3, <2>4, <2>5
  <2> QED BY <2>3, <2>4, <2>6, <2>7 DEF validate_symbols
<1>6. ASSUME NEW k \in DOMAIN roots, NEW sort, validate_node_ref(c, roots[k], sort)
      PROVE  validate_node_ref(d, remap_ref(full, roots[k]), sort)
  <2>1. Index(roots[k]) + 1 \in live
    BY <1>2 DEF Positions, Range
  <2> QED BY <1>0, <1>1, <1>2, <1>6, <2>1, RefCopied DEF remap_ref, new
<1> QED BY <1>3, <1>4, <1>5, <1>6 DEF validate, d, full

------------------------------------------------------------------------------
(* References there and back. *)

\* A reference is a u32: a sort bit and an index.
IsRef(ref) == ref \in 0 .. 2 * SortBit - 1

LEMMA RefWhole ==
  ASSUME NEW ref, IsRef(ref)
  PROVE  Index(ref) \in 0 .. SortBit - 1 /\ ref = NodeRef(SortOf(ref), Index(ref))
<1>1. SortBit \in Nat \ {0} /\ ref \in Nat /\ ref < 2 * SortBit
  BY WireAssumption DEF IsRef
<1>2. CASE ref < SortBit
  <2>1. ref = 0 * SortBit + ref /\ ref \in 0 .. SortBit - 1
    BY <1>1, <1>2
  <2>2. ref % SortBit = ref
    BY <1>1, <2>1, Remainder
  <2> QED BY <1>1, <1>2, <2>1, <2>2 DEF Index, SortOf, NodeRef
<1>3. CASE ~ (ref < SortBit)
  <2> DEFINE r == ref - SortBit
  <2>1. ref = 1 * SortBit + r /\ r \in 0 .. SortBit - 1
    BY <1>1, <1>3
  <2> HIDE DEF r
  <2>2. (1 * SortBit + r) % SortBit = r
    BY <1>1, <2>1, Remainder
  <2>3. Index(ref) = r
    BY <2>1, <2>2 DEF Index
  <2>4. SortOf(ref) = "bool"
    BY <1>3 DEF SortOf
  <2> QED BY <1>1, <2>1, <2>3, <2>4 DEF NodeRef
<1> QED BY <1>2, <1>3

\* The old node of a new reference is the one that was copied to it.
LEMMA OriginalOf ==
  ASSUME NEW c, Buffer(c), NEW live, NEW next, NEW new, NEW d, Compaction(c, live, next, new, d), live \subseteq DOMAIN c.nodes,
         NEW full, full.old_to_new = new, NEW j \in live
  PROVE  original_ref(full, new[j]) = NodeRef(result_sort(c.nodes[j].tag), j - 1)
<1> DEFINE old == {i \in DOMAIN new : new[i] = new[j]}
<1>1. Len(c.nodes) \in Nat /\ DOMAIN c.nodes = 1 .. Len(c.nodes)
  BY TableLen DEF Buffer
<1>2. DOMAIN new = live /\ SortOf(new[j]) = result_sort(c.nodes[j].tag)
  BY DEF Compaction
<1>3. ASSUME NEW i \in old
      PROVE  i = j
  <2>1. i \in live /\ new[i] = new[j]
    BY <1>2
  <2>2. next[i - 1] = next[j - 1]
    <3>1. Index(new[i]) = next[i - 1] /\ Index(new[j]) = next[j - 1]
      BY <2>1 DEF Compaction
    <3> QED BY <2>1, <3>1
  <2>3. next[i - 1] \in Nat /\ next[j - 1] \in Nat
    BY <2>1 DEF Compaction
  <2>4. (i < j => next[i - 1] < next[j - 1]) /\ (j < i => next[j - 1] < next[i - 1])
    BY <2>1 DEF Compaction
  <2>5. i \in Nat /\ j \in Nat
    BY <1>1, <2>1
  <2> QED BY <2>2, <2>3, <2>4, <2>5
<1>4. j \in old
  BY <1>2
<1>5. old = {j}
  BY <1>3, <1>4
<1>6. (CHOOSE i \in old : TRUE) = j
  BY <1>5
<1> QED BY <1>2, <1>5, <1>6 DEF original_ref

\* remap_ref and original_ref are each other's inverse, between the marked nodes
\* of the builder and all nodes of the compacted buffer: an entry of a model that
\* comes back finds the variable it is about, and a reference that is sent finds
\* its node.
THEOREM CompactRoundTrip ==
  ASSUME NEW c, BuilderInv(c), NEW roots, Rooted(c, roots)
  PROVE  LET full == compact(c, roots)
         IN  /\ \A ref : IsRef(ref) /\ meta_for(c, ref) /\ Index(ref) + 1 \in marked(c, roots) =>
                  meta_for(full.expr, remap_ref(full, ref)) /\ original_ref(full, remap_ref(full, ref)) = ref
             /\ \A ref : IsRef(ref) /\ meta_for(full.expr, ref) =>
                  meta_for(c, original_ref(full, ref)) /\ remap_ref(full, original_ref(full, ref)) = ref
<1> DEFINE live == marked(c, roots)
           next == next_index(live, Len(c.nodes))
           full == compact(c, roots)
           new == full.old_to_new
           d == full.expr
<1>0. Buffer(c)
  BY DEF BuilderInv, TablesInv, Buffer
<1>1. Compaction(c, live, next, new, d)
  BY <1>0, CompactCopies
<1>2. live \subseteq DOMAIN c.nodes
  BY <1>0, MarkedFacts DEF Marking
<1>3. Len(c.nodes) \in Nat /\ DOMAIN c.nodes = 1 .. Len(c.nodes) /\ Len(c.nodes) <= SortBit /\ SortBit \in Nat
  BY <1>0, TableLen, WireAssumption DEF Buffer, NodesInv
<1> HIDE DEF live, next, new, d, full
<1>4. ASSUME NEW ref, IsRef(ref), meta_for(c, ref), Index(ref) + 1 \in live
      PROVE  meta_for(d, remap_ref(full, ref)) /\ original_ref(full, remap_ref(full, ref)) = ref
  <2> DEFINE j == Index(ref) + 1
             sort == SortOf(ref)
  <2>1. validate_node_ref(c, ref, sort) /\ result_sort(c.nodes[j].tag) = sort /\ j \in live
    BY <1>4 DEF meta_for, validate_node_ref, NodeAt
  <2>2. remap_ref(full, ref) = new[j]
    BY DEF remap_ref, new
  <2>3. validate_node_ref(d, new[j], sort)
    BY <1>0, <1>1, <1>2, <2>1, RefCopied
  <2>4. original_ref(full, new[j]) = NodeRef(sort, j - 1)
    BY <1>0, <1>1, <1>2, <2>1, OriginalOf DEF new
  <2>5. Index(ref) \in 0 .. SortBit - 1 /\ ref = NodeRef(sort, Index(ref))
    BY <1>4, RefWhole
  <2>6. j - 1 = Index(ref)
    BY <1>3, <2>5
  <2>7. SortOf(new[j]) = sort
    BY <2>3 DEF validate_node_ref
  <2> QED BY <2>2, <2>3, <2>4, <2>5, <2>6, <2>7 DEF meta_for
<1>5. ASSUME NEW ref, IsRef(ref), meta_for(d, ref)
      PROVE  meta_for(c, original_ref(full, ref)) /\ remap_ref(full, original_ref(full, ref)) = ref
  <2> DEFINE p == Index(ref) + 1
             sort == SortOf(ref)
  <2>1. p \in DOMAIN d.nodes /\ result_sort(d.nodes[p].tag) = sort
    BY <1>5 DEF meta_for, validate_node_ref, NodeAt
  <2>2. PICK j \in live : p = next[j - 1] + 1
    BY <1>1, <2>1 DEF Compaction
  <2>3. d.nodes[p].tag = c.nodes[j].tag
    <3>1. SameFields(c, new, d, j, p)
      BY <1>0, <1>1, <1>2, <2>2, CopyFields
    <3> QED BY <3>1 DEF SameFields
  <2>4. Index(ref) \in 0 .. SortBit - 1 /\ ref = NodeRef(sort, Index(ref))
    BY <1>5, RefWhole
  <2>5. next[j - 1] \in Nat /\ new[j] = NodeRef(result_sort(c.nodes[j].tag), next[j - 1]) /\ DOMAIN new = live
    BY <1>1, <2>2 DEF Compaction
  <2>6. Index(ref) = next[j - 1]
    BY <1>3, <2>2, <2>4, <2>5
  <2>7. ref = new[j]
    BY <2>1, <2>3, <2>4, <2>5, <2>6
  <2>8. original_ref(full, ref) = NodeRef(sort, j - 1)
    BY <1>0, <1>1, <1>2, <2>1, <2>3, <2>7, OriginalOf DEF new
  <2> DEFINE back == NodeRef(sort, j - 1)
  <2>9. Index(back) = j - 1 /\ SortOf(back) = sort
    <3>1. j - 1 \in 0 .. SortBit - 1 /\ sort \in {"bv", "bool"}
      BY <1>2, <1>3, <2>2 DEF SortOf
    <3> QED BY <3>1, RefParts
  <2> HIDE DEF back
  <2>10. Index(back) + 1 = j
    BY <1>2, <1>3, <2>2, <2>9
  <2>11. meta_for(c, back)
    BY <1>2, <2>1, <2>2, <2>3, <2>9, <2>10 DEF meta_for, validate_node_ref, NodeAt
  <2>12. remap_ref(full, back) = ref
    BY <2>7, <2>10 DEF remap_ref, new
  <2> QED BY <2>8, <2>11, <2>12 DEF back
<1> QED BY <1>4, <1>5 DEF live, d, full

------------------------------------------------------------------------------
(* A term is what it was. *)

LEMMA Unfolding ==
  ASSUME NEW depth \in Nat, NEW c
  PROVE  unfolding(c, depth) =
           [n \in 0 .. depth |-> IF n = 0 THEN unfold_none(c) ELSE unfold_all(c, unfolding(c, depth)[n - 1])]
<1> DEFINE Solves(f, m) == f = [n \in 0 .. m |-> IF n = 0 THEN unfold_none(c) ELSE unfold_all(c, f[n - 1])]
           T == {m \in 0 .. depth : \E f : Solves(f, m)}
<1>1. \E f : Solves(f, 0)
  <2>1. Solves([n \in 0 .. 0 |-> unfold_none(c)], 0)
    OBVIOUS
  <2> HIDE DEF Solves
  <2> QED BY <2>1
<1>2. ASSUME NEW m \in 1 .. depth, NEW f, Solves(f, m - 1)
      PROVE  \E g : Solves(g, m)
  <2> DEFINE g == [n \in 0 .. m |-> IF n = m THEN unfold_all(c, f[m - 1]) ELSE f[n]]
  <2>1. ASSUME NEW n \in 0 .. m
        PROVE  g[n] = IF n = 0 THEN unfold_none(c) ELSE unfold_all(c, g[n - 1])
    BY <1>2
  <2>2. Solves(g, m)
    BY <2>1
  <2> HIDE DEF Solves
  <2> QED BY <2>2
<1> HIDE DEF Solves
<1>3. T \subseteq Nat /\ 0 \in T /\ \A m \in 1 .. depth : m - 1 \in T => m \in T
  BY <1>1, <1>2
<1> HIDE DEF T
<1>4. depth \in T
  BY <1>3, Climb
<1>5. \E f : Solves(f, depth)
  BY <1>4 DEF T
<1> QED BY <1>5, Zenon DEF unfolding, Solves

\* One level: copies have equal unfoldings when their operands' copies have.
LEMMA UnfoldCopy ==
  ASSUME NEW c, Buffer(c), NEW live, NEW next, NEW new, NEW d, Compaction(c, live, next, new, d), live \subseteq DOMAIN c.nodes,
         ClosedAfter(c, live, 0), NEW above, NEW below,
         \A i \in live : below[next[i - 1] + 1] = above[i], NEW j \in live
  PROVE  unfold_node(d, below, next[j - 1] + 1) = unfold_node(c, above, j)
<1> DEFINE n == c.nodes[j]
           p == next[j - 1] + 1
           m == d.nodes[p]
           kids == ChildrenOf(c, n)
           refs == ChildrenOf(d, m)
           pos(k) == KidPos(c, j, k)
<1>1. SameFields(c, new, d, j, p)
  BY CopyFields
<1>2. /\ m.tag = n.tag /\ m.arity = n.arity /\ m.hi = n.hi /\ m.width = n.width /\ m.lo = n.lo
      /\ m.payload = n.payload /\ refs = [k \in 1 .. n.arity |-> new[pos(k)]]
  BY <1>1 DEF SameFields
<1>3. kids = [k \in 1 .. n.arity |-> Kid(c, j, k)]
  BY KidsOf
<1>4. ASSUME NEW k \in 1 .. n.arity
      PROVE  below[Index(refs[k]) + 1] = above[Index(kids[k]) + 1]
  <2>1. refs[k] = new[pos(k)] /\ Index(kids[k]) + 1 = pos(k)
    BY <1>2, <1>3 DEF KidPos
  <2>2. pos(k) \in live
    <3>1. j > 0
      BY TableLen DEF Buffer
    <3> QED BY <3>1 DEF ClosedAfter
  <2>3. Index(new[pos(k)]) = next[pos(k) - 1]
    BY <2>2 DEF Compaction
  <2> QED BY <2>1, <2>2, <2>3
<1>5. [k \in 1 .. m.arity |-> below[Index(refs[k]) + 1]] = [k \in 1 .. n.arity |-> above[Index(kids[k]) + 1]]
  BY <1>2, <1>4
<1>6. blob_ref(d, m.payload) = blob_ref(c, n.payload)
  <2>1. d.blob = c.blob
    BY DEF Compaction
  <2> QED BY <1>2, <2>1 DEF blob_ref
<1>7. ConstNumber(d, m) = ConstNumber(c, n)
  BY <1>2, <1>6 DEF ConstNumber
<1> QED BY <1>2, <1>5, <1>6, <1>7 DEF unfold_node

LEMMA UnfoldCopies ==
  ASSUME NEW c, Buffer(c), NEW live, NEW next, NEW new, NEW d, Compaction(c, live, next, new, d), live \subseteq DOMAIN c.nodes,
         ClosedAfter(c, live, 0), NEW depth \in Nat
  PROVE  \A n \in 0 .. depth : \A j \in live : unfolding(d, depth)[n][next[j - 1] + 1] = unfolding(c, depth)[n][j]
<1> DEFINE above == unfolding(c, depth)
           below == unfolding(d, depth)
           Same(n) == \A j \in live : below[n][next[j - 1] + 1] = above[n][j]
           bad == {n \in 0 .. depth : ~ Same(n)}
<1>1. /\ above = [n \in 0 .. depth |-> IF n = 0 THEN unfold_none(c) ELSE unfold_all(c, above[n - 1])]
      /\ below = [n \in 0 .. depth |-> IF n = 0 THEN unfold_none(d) ELSE unfold_all(d, below[n - 1])]
  BY Unfolding
<1>2. \A j \in live : j \in DOMAIN c.nodes /\ next[j - 1] + 1 \in DOMAIN d.nodes
  BY DEF Compaction
<1> HIDE DEF above, below
<1>3. ASSUME NEW mm \in bad
      PROVE  FALSE
  <2>1. PICK n \in bad : \A l \in bad : n <= l
    <3>1. bad \subseteq Nat
      OBVIOUS
    <3> HIDE DEF bad
    <3> QED BY <1>3, <3>1, LeastNumber
  <2>2. n \in 0 .. depth /\ ~ Same(n)
    BY <2>1
  <2>3. CASE n = 0
    <3>1. above[n] = [i \in DOMAIN c.nodes |-> <<>>] /\ below[n] = [i \in DOMAIN d.nodes |-> <<>>]
      BY <1>1, <2>2, <2>3 DEF unfold_none
    <3>2. Same(n)
      BY <1>2, <3>1
    <3> QED BY <2>2, <3>2
  <2>4. CASE n # 0
    <3>1. n - 1 \in 0 .. depth /\ ~ (n <= n - 1)
      BY <2>2, <2>4
    <3>2. Same(n - 1)
      BY <2>1, <3>1
    <3>3. above[n] = unfold_all(c, above[n - 1]) /\ below[n] = unfold_all(d, below[n - 1])
      BY <1>1, <2>2, <2>4
    <3> DEFINE up == above[n - 1]
               low == below[n - 1]
    <3>4. \A i \in live : low[next[i - 1] + 1] = up[i]
      BY <3>2
    <3>5. above[n] = unfold_all(c, up) /\ below[n] = unfold_all(d, low)
      BY <3>3
    <3> HIDE DEF up, low
    <3>6. \A j \in live : unfold_node(d, low, next[j - 1] + 1) = unfold_node(c, up, j)
      BY <3>4, UnfoldCopy
    <3>7. \A j \in live : above[n][j] = unfold_node(c, up, j) /\ below[n][next[j - 1] + 1] = unfold_node(d, low, next[j - 1] + 1)
      BY <1>2, <3>5 DEF unfold_all
    <3> QED BY <2>2, <3>6, <3>7
  <2> QED BY <2>3, <2>4
<1> QED BY <1>3 DEF above, below

\* However the nodes are dropped and renumbered, a reference unfolds to the term
\* it unfolded to before: same operators, widths, parameters, constants and
\* names, operand by operand, to any depth.
THEOREM CompactUnfolds ==
  ASSUME NEW c, BuilderInv(c), NEW roots, Rooted(c, roots), NEW depth \in Nat,
         NEW ref, Index(ref) + 1 \in marked(c, roots)
  PROVE  LET full == compact(c, roots)
         IN  Unfolded(full.expr, remap_ref(full, ref), depth) = Unfolded(c, ref, depth)
<1> DEFINE live == marked(c, roots)
           next == next_index(live, Len(c.nodes))
           full == compact(c, roots)
           new == full.old_to_new
           d == full.expr
           j == Index(ref) + 1
<1>0. Buffer(c)
  BY DEF BuilderInv, TablesInv, Buffer
<1>1. Compaction(c, live, next, new, d)
  BY <1>0, CompactCopies
<1>2. live \subseteq DOMAIN c.nodes /\ ClosedAfter(c, live, 0)
  BY <1>0, MarkedFacts DEF Marking
<1> HIDE DEF live, next, new, d, full
<1>3. \A n \in 0 .. depth : \A i \in live : unfolding(d, depth)[n][next[i - 1] + 1] = unfolding(c, depth)[n][i]
  BY <1>0, <1>1, <1>2, UnfoldCopies
<1>4. j \in live
  BY DEF live
<1>5. Index(remap_ref(full, ref)) + 1 = next[j - 1] + 1
  BY <1>1, <1>4 DEF Compaction, remap_ref, new
<1>6. Unfolded(d, remap_ref(full, ref), depth) = Unfolded(c, ref, depth)
  BY <1>3, <1>4, <1>5 DEF Unfolded
<1> QED BY <1>6 DEF d, full

------------------------------------------------------------------------------
(* Nothing in a compacted buffer but what its roots need. *)

LEMMA PositionsIn ==
  ASSUME NEW refs, NEW k \in DOMAIN refs
  PROVE  Index(refs[k]) + 1 \in Positions(refs)
BY DEF Positions, Range

LEMMA PositionsOut ==
  ASSUME NEW refs, NEW p \in Positions(refs)
  PROVE  \E k \in DOMAIN refs : p = Index(refs[k]) + 1
BY DEF Positions, Range

LEMMA PositionsJoin ==
  ASSUME NEW s, IsTable(s), NEW t, IsTable(t)
  PROVE  Positions(s \o t) = Positions(s) \cup Positions(t)
<1> DEFINE u == s \o t
<1>1. /\ IsTable(u) /\ Len(u) = Len(s) + Len(t) /\ Len(s) \in Nat /\ Len(t) \in Nat
      /\ \A i \in 1 .. Len(s) : u[i] = s[i]
      /\ \A i \in 1 .. Len(t) : u[Len(s) + i] = t[i]
  BY JoinTable
<1> HIDE DEF u
<1>2. DOMAIN u = 1 .. Len(s) + Len(t) /\ DOMAIN s = 1 .. Len(s) /\ DOMAIN t = 1 .. Len(t)
  BY <1>1, TableLen
<1>3. ASSUME NEW p \in Positions(u)
      PROVE  p \in Positions(s) \cup Positions(t)
  <2>1. PICK k \in DOMAIN u : p = Index(u[k]) + 1
    BY <1>3, PositionsOut
  <2>2. CASE k <= Len(s)
    <3>1. k \in DOMAIN s /\ u[k] = s[k]
      BY <1>1, <1>2, <2>1, <2>2
    <3> QED BY <2>1, <3>1, PositionsIn
  <2>3. CASE ~ (k <= Len(s))
    <3>1. k - Len(s) \in 1 .. Len(t) /\ Len(s) + (k - Len(s)) = k
      BY <1>1, <1>2, <2>1, <2>3
    <3>2. u[k] = t[k - Len(s)] /\ k - Len(s) \in DOMAIN t
      BY <1>1, <1>2, <3>1
    <3> QED BY <2>1, <3>2, PositionsIn
  <2> QED BY <2>2, <2>3
<1>4. ASSUME NEW p \in Positions(s)
      PROVE  p \in Positions(u)
  <2>1. PICK k \in DOMAIN s : p = Index(s[k]) + 1
    BY <1>4, PositionsOut
  <2>2. k \in DOMAIN u /\ u[k] = s[k]
    BY <1>1, <1>2, <2>1
  <2> QED BY <2>1, <2>2, PositionsIn
<1>5. ASSUME NEW p \in Positions(t)
      PROVE  p \in Positions(u)
  <2>1. PICK k \in DOMAIN t : p = Index(t[k]) + 1
    BY <1>5, PositionsOut
  <2>2. Len(s) + k \in DOMAIN u /\ u[Len(s) + k] = t[k]
    BY <1>1, <1>2, <2>1
  <2>3. Index(u[Len(s) + k]) + 1 \in Positions(u)
    BY <2>2, PositionsIn
  <2> QED BY <2>1, <2>2, <2>3
<1> QED BY <1>3, <1>4, <1>5 DEF u

LEMMA BufferCopied ==
  ASSUME NEW c, Buffer(c), NEW live, NEW next, NEW new, NEW d, Compaction(c, live, next, new, d),
         live \subseteq DOMAIN c.nodes, validate(d)
  PROVE  Buffer(d)
<1>1. ASSUME NEW p \in DOMAIN d.nodes
      PROVE  d.nodes[p].arity \in Nat /\ d.nodes[p].children \in Nat
  <2>1. PICK j \in live : p = next[j - 1] + 1
    BY DEF Compaction
  <2>2. SameFields(c, new, d, j, p)
    BY <2>1, CopyFields
  <2> QED BY <2>2 DEF SameFields
<1>2. IsTable(d.nodes) /\ IsTable(d.children)
  BY DEF Compaction
<1>3. NodesInv(d)
  BY DEF validate, NodesInv
<1> QED BY <1>1, <1>2, <1>3 DEF Buffer

\* The operands of a copy are the copies of the operands.
LEMMA KidCopied ==
  ASSUME NEW c, Buffer(c), NEW live, NEW next, NEW new, NEW d, Compaction(c, live, next, new, d),
         live \subseteq DOMAIN c.nodes, ClosedAfter(c, live, 0), NEW i \in live, NEW k \in 1 .. c.nodes[i].arity
  PROVE  /\ KidPos(c, i, k) \in live /\ k \in 1 .. d.nodes[next[i - 1] + 1].arity
         /\ KidPos(d, next[i - 1] + 1, k) = next[KidPos(c, i, k) - 1] + 1
<1> DEFINE p == next[i - 1] + 1
           j == KidPos(c, i, k)
<1>1. SameFields(c, new, d, i, p) /\ IsCopy(c, new, d, i, p)
  BY CopyFields DEF Compaction
<1>2. j \in live
  <2>1. i > 0
    BY TableLen DEF Buffer
  <2> QED BY <2>1 DEF ClosedAfter
<1>3. d.nodes[p].arity = c.nodes[i].arity
  BY <1>1 DEF SameFields
<1>4. d.children[d.nodes[p].children + k] = new[j]
  BY <1>1 DEF IsCopy
<1>5. Index(new[j]) = next[j - 1]
  BY <1>2 DEF Compaction
<1> HIDE DEF p, j
<1>6. KidPos(d, p, k) = next[j - 1] + 1
  BY <1>4, <1>5 DEF KidPos, Kid
<1> QED BY <1>2, <1>3, <1>6 DEF p, j

\* Every node of the compacted buffer is reached from the new roots.
LEMMA CompactTight ==
  ASSUME NEW c, Buffer(c), NEW roots, NEW live, NEW next, NEW new, NEW d, Compaction(c, live, next, new, d),
         Marking(c, roots, live, 0), Buffer(d), NEW tops, Rooted(d, tops),
         \A j \in Positions(roots) : next[j - 1] + 1 \in Positions(tops)
  PROVE  marked(d, tops) = DOMAIN d.nodes
<1> DEFINE count == Len(d.nodes)
           found == marked(d, tops)
           missing == {n \in 0 .. count : \E p \in DOMAIN d.nodes : p \notin found /\ n = count - p}
<1>1. count \in Nat /\ DOMAIN d.nodes = 1 .. count
  BY TableLen DEF Buffer
<1>2. Marking(d, tops, found, 0)
  BY MarkedFacts
<1>3. live \subseteq DOMAIN c.nodes /\ ClosedAfter(c, live, 0) /\ Needed(c, live, roots)
  BY DEF Marking
<1>4. Len(c.nodes) \in Nat /\ DOMAIN c.nodes = 1 .. Len(c.nodes)
  BY TableLen DEF Buffer
<1> HIDE DEF count, found
<1>5. ASSUME NEW mm \in missing
      PROVE  FALSE
  <2>1. PICK n \in missing : \A l \in missing : n <= l
    <3>1. missing \subseteq Nat
      BY <1>1
    <3> HIDE DEF missing
    <3> QED BY <1>5, <3>1, LeastNumber
  <2>2. PICK p \in DOMAIN d.nodes : p \notin found /\ n = count - p
    BY <2>1
  <2>3. PICK j \in live : p = next[j - 1] + 1
    BY DEF Compaction
  <2>4. CASE j \in Positions(roots)
    BY <1>2, <2>2, <2>3, <2>4 DEF Marking
  <2>5. CASE \E i \in live : \E k \in 1 .. c.nodes[i].arity : j = KidPos(c, i, k)
    <3>1. PICK i \in live : \E k \in 1 .. c.nodes[i].arity : j = KidPos(c, i, k)
      BY <2>5
    <3>2. PICK k \in 1 .. c.nodes[i].arity : j = KidPos(c, i, k)
      BY <3>1
    <3> DEFINE q == next[i - 1] + 1
    <3>3. j < i
      BY <1>3, <3>2, KidBefore
    <3>4. q \in DOMAIN d.nodes /\ p < q
      <4>1. next[i - 1] \in Nat /\ next[j - 1] \in Nat /\ next[j - 1] < next[i - 1] /\ q \in DOMAIN d.nodes
        BY <3>3 DEF Compaction
      <4> QED BY <2>3, <4>1
    <3>5. q \in found
      <4>1. CASE q \notin found
        <5>1. count - q \in 0 .. count /\ ~ (n <= count - q)
          BY <1>1, <2>2, <3>4
        <5>2. count - q \in missing
          BY <3>4, <4>1, <5>1
        <5> QED BY <2>1, <5>1, <5>2
      <4> QED BY <4>1
    <3>6. KidPos(d, q, k) = next[j - 1] + 1 /\ k \in 1 .. d.nodes[q].arity
      BY <1>3, <3>2, KidCopied
    <3>7. q > 0
      BY <1>1, <3>4
    <3>8. KidPos(d, q, k) \in found
      BY <1>2, <3>5, <3>6, <3>7 DEF Marking, ClosedAfter
    <3> QED BY <2>2, <2>3, <3>6, <3>8
  <2> QED BY <1>3, <2>3, <2>4, <2>5 DEF Needed
<1>6. \A p \in DOMAIN d.nodes : p \in found
  <2> SUFFICES ASSUME NEW p \in DOMAIN d.nodes, p \notin found
               PROVE  FALSE
    OBVIOUS
  <2>1. count - p \in 0 .. count
    BY <1>1
  <2>2. count - p \in missing
    BY <2>1
  <2> QED BY <1>5, <2>2
<1>7. found \subseteq DOMAIN d.nodes
  BY <1>2 DEF Marking
<1> QED BY <1>6, <1>7 DEF found

------------------------------------------------------------------------------
(* The order of the assertions. *)

LEMMA Partition ==
  ASSUME NEW count \in Nat, NEW s
  PROVE  partition(s, count) =
           [k \in 0 .. count |-> IF k = 0 THEN [named |-> <<>>, unnamed |-> <<>>]
                                 ELSE part_step(partition(s, count)[k - 1], s[k])]
<1> DEFINE Solves(f, m) == f = [k \in 0 .. m |-> IF k = 0 THEN [named |-> <<>>, unnamed |-> <<>>]
                                                 ELSE part_step(f[k - 1], s[k])]
           T == {m \in 0 .. count : \E f : Solves(f, m)}
<1>1. \E f : Solves(f, 0)
  <2>1. Solves([k \in 0 .. 0 |-> [named |-> <<>>, unnamed |-> <<>>]], 0)
    OBVIOUS
  <2> HIDE DEF Solves
  <2> QED BY <2>1
<1>2. ASSUME NEW m \in 1 .. count, NEW f, Solves(f, m - 1)
      PROVE  \E g : Solves(g, m)
  <2> DEFINE g == [k \in 0 .. m |-> IF k = m THEN part_step(f[m - 1], s[m]) ELSE f[k]]
  <2>1. ASSUME NEW k \in 0 .. m
        PROVE  g[k] = IF k = 0 THEN [named |-> <<>>, unnamed |-> <<>>] ELSE part_step(g[k - 1], s[k])
    BY <1>2
  <2>2. Solves(g, m)
    BY <2>1
  <2> HIDE DEF Solves
  <2> QED BY <2>2
<1> HIDE DEF Solves
<1>3. T \subseteq Nat /\ 0 \in T /\ \A m \in 1 .. count : m - 1 \in T => m \in T
  BY <1>1, <1>2
<1> HIDE DEF T
<1>4. count \in T
  BY <1>3, Climb
<1>5. \E f : Solves(f, count)
  BY <1>4 DEF T
<1> QED BY <1>5, Zenon DEF partition, Solves

\* The entries of a part are entries of the table, once each, and all are in one part.
PartInv(s, part, n, f, g) ==
  /\ IsTable(part.named) /\ IsTable(part.unnamed)
  /\ \A k \in 1 .. Len(part.named) : f[k] \in 1 .. n /\ part.named[k] = s[f[k]] /\ s[f[k]].name # None
  /\ \A k \in 1 .. Len(part.unnamed) : g[k] \in 1 .. n /\ part.unnamed[k] = s[g[k]] /\ s[g[k]].name = None
  /\ \A j, k \in 1 .. Len(part.named) : f[j] = f[k] => j = k
  /\ \A j, k \in 1 .. Len(part.unnamed) : g[j] = g[k] => j = k
  /\ \A m \in 1 .. n : \/ \E k \in 1 .. Len(part.named) : m = f[k]
                       \/ \E k \in 1 .. Len(part.unnamed) : m = g[k]

\* The entries of a table are entries of another up to n, those at positions f.
Positioned(t, s, f, n) ==
  /\ \A k \in 1 .. Len(t) : f[k] \in 1 .. n /\ t[k] = s[f[k]]
  /\ \A j, k \in 1 .. Len(t) : f[j] = f[k] => j = k
OneMore(f, t, n) == [k \in 1 .. Len(t) + 1 |-> IF k = Len(t) + 1 THEN n + 1 ELSE f[k]]

LEMMA Extend ==
  ASSUME NEW t, IsTable(t), NEW s, NEW f, NEW n \in Nat, Positioned(t, s, f, n)
  PROVE  /\ Positioned(Append(t, s[n + 1]), s, OneMore(f, t, n), n + 1)
         /\ OneMore(f, t, n)[Len(t) + 1] = n + 1
         /\ \A k \in 1 .. Len(t) : OneMore(f, t, n)[k] = f[k]
<1> DEFINE x == s[n + 1]
           u == Append(t, x)
           h == OneMore(f, t, n)
<1>0. /\ \A k \in 1 .. Len(t) : f[k] \in 1 .. n /\ t[k] = s[f[k]]
      /\ \A j, k \in 1 .. Len(t) : f[j] = f[k] => j = k
  BY DEF Positioned
<1>1. /\ IsTable(u) /\ Len(u) = Len(t) + 1 /\ Len(t) \in Nat
      /\ \A k \in 1 .. Len(t) : u[k] = t[k]
      /\ u[Len(t) + 1] = x
  BY AppendTable
<1>2. h[Len(t) + 1] = n + 1 /\ \A k \in 1 .. Len(t) : h[k] = f[k]
  BY <1>1 DEF OneMore
<1>3. \A k \in 1 .. Len(t) + 1 : k = Len(t) + 1 \/ k \in 1 .. Len(t)
  BY <1>1
<1> HIDE DEF x, u, h
<1>4. \A k \in 1 .. Len(t) : f[k] \in 1 .. n + 1 /\ f[k] # n + 1
  BY <1>0
<1>5. ASSUME NEW k \in 1 .. Len(u)
      PROVE  h[k] \in 1 .. n + 1 /\ u[k] = s[h[k]]
  <2>1. CASE k = Len(t) + 1
    BY <1>1, <1>2, <2>1 DEF x
  <2>2. CASE k \in 1 .. Len(t)
    BY <1>0, <1>1, <1>2, <1>4, <2>2
  <2> QED BY <1>1, <1>3, <2>1, <2>2
<1>6. ASSUME NEW j \in 1 .. Len(u), NEW k \in 1 .. Len(u), h[j] = h[k]
      PROVE  j = k
  <2>1. (j = Len(t) + 1 \/ j \in 1 .. Len(t)) /\ (k = Len(t) + 1 \/ k \in 1 .. Len(t))
    BY <1>1, <1>3
  <2>2. CASE j = Len(t) + 1 \/ k = Len(t) + 1
    BY <1>2, <1>4, <1>6, <2>1, <2>2
  <2>3. CASE j \in 1 .. Len(t) /\ k \in 1 .. Len(t)
    BY <1>0, <1>2, <1>6, <2>3
  <2> QED BY <2>1, <2>2, <2>3
<1> QED BY <1>1, <1>2, <1>5, <1>6 DEF Positioned, x, u, h

LEMMA PartStep ==
  ASSUME NEW s, NEW part, NEW n \in Nat, NEW f, NEW g, PartInv(s, part, n, f, g)
  PROVE  \E h, l : PartInv(s, part_step(part, s[n + 1]), n + 1, h, l)
<1> DEFINE x == s[n + 1]
           named == part.named
           others == part.unnamed
           after == part_step(part, x)
<1>1. /\ IsTable(named) /\ IsTable(others)
      /\ \A k \in 1 .. Len(named) : f[k] \in 1 .. n /\ named[k] = s[f[k]] /\ s[f[k]].name # None
      /\ \A k \in 1 .. Len(others) : g[k] \in 1 .. n /\ others[k] = s[g[k]] /\ s[g[k]].name = None
      /\ \A j, k \in 1 .. Len(named) : f[j] = f[k] => j = k
      /\ \A j, k \in 1 .. Len(others) : g[j] = g[k] => j = k
      /\ \A m \in 1 .. n : \/ \E k \in 1 .. Len(named) : m = f[k]
                           \/ \E k \in 1 .. Len(others) : m = g[k]
  BY DEF PartInv
<1>2. \A m \in 1 .. n + 1 : m = n + 1 \/ m \in 1 .. n
  OBVIOUS
<1>3. 1 .. n \subseteq 1 .. n + 1
  OBVIOUS
<1> HIDE DEF named, others
<1>4. CASE x.name # None
  <2> DEFINE h == OneMore(f, named, n)
             new == Append(named, x)
  <2>1. after = [named |-> new, unnamed |-> others]
    BY <1>4 DEF part_step, named, others
  <2>2. after.named = new /\ after.unnamed = others
    BY <2>1
  <2>3. /\ IsTable(new) /\ Len(new) = Len(named) + 1 /\ Len(named) \in Nat
        /\ \A k \in 1 .. Len(new) : h[k] \in 1 .. n + 1 /\ new[k] = s[h[k]]
        /\ \A j, k \in 1 .. Len(new) : h[j] = h[k] => j = k
        /\ h[Len(named) + 1] = n + 1 /\ \A k \in 1 .. Len(named) : h[k] = f[k]
    <3>1. Positioned(named, s, f, n)
      BY <1>1 DEF Positioned
    <3>2. /\ Positioned(new, s, h, n + 1) /\ h[Len(named) + 1] = n + 1
          /\ \A k \in 1 .. Len(named) : h[k] = f[k]
      BY <1>1, <3>1, Extend
    <3>3. IsTable(new) /\ Len(new) = Len(named) + 1 /\ Len(named) \in Nat
      BY <1>1, AppendTable
    <3> QED BY <3>2, <3>3 DEF Positioned
  <2> HIDE DEF h, new, x, after
  <2>4. \A k \in 1 .. Len(new) : k = Len(named) + 1 \/ k \in 1 .. Len(named)
    BY <2>3
  <2>5. \A k \in 1 .. Len(new) : s[h[k]].name # None
    BY <1>1, <1>4, <2>3, <2>4 DEF x
  <2>6. \A k \in 1 .. Len(named) : k \in 1 .. Len(new)
    BY <2>3
  <2>7. Len(named) + 1 \in 1 .. Len(new)
    BY <2>3
  <2>8. ASSUME NEW m \in 1 .. n + 1
        PROVE  (\E k \in 1 .. Len(new) : m = h[k]) \/ (\E k \in 1 .. Len(others) : m = g[k])
    <3>1. CASE m = n + 1
      BY <2>3, <2>7, <3>1
    <3>2. CASE m \in 1 .. n
      <4>1. CASE \E k \in 1 .. Len(named) : m = f[k]
        BY <2>3, <2>6, <4>1
      <4>2. CASE \E k \in 1 .. Len(others) : m = g[k]
        BY <4>2
      <4> QED BY <1>1, <3>2, <4>1, <4>2
    <3> QED BY <1>2, <3>1, <3>2
  <2>9. \A k \in 1 .. Len(others) : g[k] \in 1 .. n + 1 /\ others[k] = s[g[k]] /\ s[g[k]].name = None
    BY <1>1, <1>3
  <2>10. PartInv(s, after, n + 1, h, g)
    BY <1>1, <2>2, <2>3, <2>5, <2>8, <2>9 DEF PartInv
  <2> QED BY <2>10 DEF after, x
<1>5. CASE x.name = None
  <2> DEFINE h == OneMore(g, others, n)
             new == Append(others, x)
  <2>1. after = [named |-> named, unnamed |-> new]
    BY <1>5 DEF part_step, named, others
  <2>2. after.named = named /\ after.unnamed = new
    BY <2>1
  <2>3. /\ IsTable(new) /\ Len(new) = Len(others) + 1 /\ Len(others) \in Nat
        /\ \A k \in 1 .. Len(new) : h[k] \in 1 .. n + 1 /\ new[k] = s[h[k]]
        /\ \A j, k \in 1 .. Len(new) : h[j] = h[k] => j = k
        /\ h[Len(others) + 1] = n + 1 /\ \A k \in 1 .. Len(others) : h[k] = g[k]
    <3>1. Positioned(others, s, g, n)
      BY <1>1 DEF Positioned
    <3>2. /\ Positioned(new, s, h, n + 1) /\ h[Len(others) + 1] = n + 1
          /\ \A k \in 1 .. Len(others) : h[k] = g[k]
      BY <1>1, <3>1, Extend
    <3>3. IsTable(new) /\ Len(new) = Len(others) + 1 /\ Len(others) \in Nat
      BY <1>1, AppendTable
    <3> QED BY <3>2, <3>3 DEF Positioned
  <2> HIDE DEF h, new, x, after
  <2>4. \A k \in 1 .. Len(new) : k = Len(others) + 1 \/ k \in 1 .. Len(others)
    BY <2>3
  <2>5. \A k \in 1 .. Len(new) : s[h[k]].name = None
    BY <1>1, <1>5, <2>3, <2>4 DEF x
  <2>6. \A k \in 1 .. Len(others) : k \in 1 .. Len(new)
    BY <2>3
  <2>7. Len(others) + 1 \in 1 .. Len(new)
    BY <2>3
  <2>8. ASSUME NEW m \in 1 .. n + 1
        PROVE  (\E k \in 1 .. Len(named) : m = f[k]) \/ (\E k \in 1 .. Len(new) : m = h[k])
    <3>1. CASE m = n + 1
      BY <2>3, <2>7, <3>1
    <3>2. CASE m \in 1 .. n
      <4>1. CASE \E k \in 1 .. Len(others) : m = g[k]
        BY <2>3, <2>6, <4>1
      <4>2. CASE \E k \in 1 .. Len(named) : m = f[k]
        BY <4>2
      <4> QED BY <1>1, <3>2, <4>1, <4>2
    <3> QED BY <1>2, <3>1, <3>2
  <2>9. \A k \in 1 .. Len(named) : f[k] \in 1 .. n + 1 /\ named[k] = s[f[k]] /\ s[f[k]].name # None
    BY <1>1, <1>3
  <2>10. PartInv(s, after, n + 1, f, h)
    BY <1>1, <2>2, <2>3, <2>5, <2>8, <2>9 DEF PartInv
  <2> QED BY <2>10 DEF after, x
<1> QED BY <1>4, <1>5

LEMMA PartitionKeeps ==
  ASSUME NEW s, NEW count \in Nat
  PROVE  \E f, g : PartInv(s, partition(s, count)[count], count, f, g)
<1> DEFINE after == partition(s, count)
           Good(n) == \E f, g : PartInv(s, after[n], n, f, g)
           bad == {n \in 0 .. count : ~ Good(n)}
<1>1. after = [k \in 0 .. count |->
                 IF k = 0 THEN [named |-> <<>>, unnamed |-> <<>>] ELSE part_step(after[k - 1], s[k])]
  BY Partition
<1> HIDE DEF after
<1>2. ASSUME NEW mm \in bad
      PROVE  FALSE
  <2>1. PICK n \in bad : \A l \in bad : n <= l
    <3>1. bad \subseteq Nat
      OBVIOUS
    <3> HIDE DEF bad
    <3> QED BY <1>2, <3>1, LeastNumber
  <2>2. n \in 0 .. count /\ ~ Good(n)
    BY <2>1
  <2>3. CASE n = 0
    <3>1. after[n] = [named |-> <<>>, unnamed |-> <<>>]
      BY <1>1, <2>2, <2>3
    <3>2. after[n].named = <<>> /\ after[n].unnamed = <<>>
      BY <3>1
    <3>3. 1 .. Len(<<>>) = {} /\ 1 .. n = {} /\ IsTable(<<>>)
      BY <2>3, EmptyTable
    <3>4. PartInv(s, after[n], n, <<>>, <<>>)
      BY <3>2, <3>3 DEF PartInv
    <3> QED BY <2>2, <3>4
  <2>4. CASE n # 0
    <3> DEFINE m == n - 1
    <3>1. m \in 0 .. count /\ ~ (n <= m) /\ m \in Nat /\ m + 1 = n
      BY <2>2, <2>4
    <3>2. Good(m)
      BY <2>1, <3>1
    <3>3. PICK f, g : PartInv(s, after[m], m, f, g)
      BY <3>2
    <3>4. after[n] = part_step(after[m], s[n])
      BY <1>1, <2>2, <2>4
    <3> HIDE DEF m
    <3>5. \E h, l : PartInv(s, part_step(after[m], s[m + 1]), m + 1, h, l)
      BY <3>1, <3>3, PartStep
    <3> QED BY <2>2, <3>1, <3>4, <3>5
  <2> QED BY <2>3, <2>4
<1>3. Good(count)
  BY <1>2
<1> QED BY <1>3 DEF after

\* The assertions of a request are those of the builder in another order, the
\* named ones first.
Permutes(s, named, ordered, h) ==
  /\ IsTable(named) /\ IsTable(ordered)
  /\ h \in Bijection(DOMAIN ordered, DOMAIN s)
  /\ \A k \in DOMAIN ordered :
       /\ ordered[k] = s[h[k]]
       /\ k \in DOMAIN named <=> s[h[k]].name # None
  /\ \A k \in DOMAIN named : k \in DOMAIN ordered /\ named[k] = s[h[k]]

LEMMA OrderedPermutes ==
  ASSUME NEW s, IsTable(s)
  PROVE  LET part == partition(s, Len(s))[Len(s)]
         IN  \E h : Permutes(s, part.named, part.named \o part.unnamed, h)
<1> DEFINE count == Len(s)
           part == partition(s, count)[count]
           named == part.named
           others == part.unnamed
           ordered == named \o others
<1>1. count \in Nat /\ DOMAIN s = 1 .. count
  BY TableLen
<1> HIDE DEF count
<1>2. PICK f, g : PartInv(s, part, count, f, g)
  BY <1>1, PartitionKeeps
<1>3. /\ IsTable(named) /\ IsTable(others)
      /\ \A k \in 1 .. Len(named) : f[k] \in 1 .. count /\ named[k] = s[f[k]] /\ s[f[k]].name # None
      /\ \A k \in 1 .. Len(others) : g[k] \in 1 .. count /\ others[k] = s[g[k]] /\ s[g[k]].name = None
      /\ \A j, k \in 1 .. Len(named) : f[j] = f[k] => j = k
      /\ \A j, k \in 1 .. Len(others) : g[j] = g[k] => j = k
      /\ \A m \in 1 .. count : \/ \E k \in 1 .. Len(named) : m = f[k]
                               \/ \E k \in 1 .. Len(others) : m = g[k]
  BY <1>2 DEF PartInv
<1> HIDE DEF named, others
<1>4. /\ IsTable(ordered) /\ Len(ordered) = Len(named) + Len(others) /\ Len(named) \in Nat /\ Len(others) \in Nat
      /\ \A i \in 1 .. Len(named) : ordered[i] = named[i]
      /\ \A i \in 1 .. Len(others) : ordered[Len(named) + i] = others[i]
  BY <1>3, JoinTable
<1> HIDE DEF ordered
<1>5. DOMAIN ordered = 1 .. Len(named) + Len(others) /\ DOMAIN named = 1 .. Len(named)
  BY <1>3, <1>4, TableLen
<1> DEFINE h == [k \in DOMAIN ordered |-> IF k <= Len(named) THEN f[k] ELSE g[k - Len(named)]]
<1>6. \A k \in DOMAIN ordered : \/ k \in 1 .. Len(named) /\ h[k] = f[k]
                                \/ k \notin 1 .. Len(named) /\ k - Len(named) \in 1 .. Len(others) /\ h[k] = g[k - Len(named)]
                                   /\ Len(named) + (k - Len(named)) = k
  BY <1>4, <1>5
<1>7. DOMAIN h = DOMAIN ordered
  OBVIOUS
<1>8. h = [k \in DOMAIN ordered |-> h[k]]
  OBVIOUS
<1> HIDE DEF h
<1>9. \A k \in DOMAIN ordered : /\ h[k] \in DOMAIN s /\ ordered[k] = s[h[k]]
                                /\ k \in DOMAIN named <=> s[h[k]].name # None
  <2> TAKE k \in DOMAIN ordered
  <2>1. CASE k \in 1 .. Len(named) /\ h[k] = f[k]
    BY <1>1, <1>3, <1>4, <1>5, <2>1
  <2>2. CASE /\ k \notin 1 .. Len(named) /\ k - Len(named) \in 1 .. Len(others)
             /\ h[k] = g[k - Len(named)] /\ Len(named) + (k - Len(named)) = k
    BY <1>1, <1>3, <1>4, <1>5, <2>2
  <2> QED BY <1>6, <2>1, <2>2
<1>10. ASSUME NEW j \in DOMAIN ordered, NEW k \in DOMAIN ordered, h[j] = h[k]
       PROVE  j = k
  <2>1. j \in DOMAIN named <=> k \in DOMAIN named
    BY <1>9, <1>10
  <2>2. CASE j \in 1 .. Len(named) /\ k \in 1 .. Len(named)
    BY <1>3, <1>6, <1>10, <2>2
  <2>3. CASE j \notin 1 .. Len(named) /\ k \notin 1 .. Len(named)
    <3>1. j - Len(named) = k - Len(named)
      BY <1>3, <1>6, <1>10, <2>3
    <3> QED BY <1>4, <1>5, <3>1
  <2> QED BY <1>5, <2>1, <2>2, <2>3
<1>11. ASSUME NEW m \in DOMAIN s
       PROVE  \E k \in DOMAIN ordered : h[k] = m
  <2>1. CASE \E k \in 1 .. Len(named) : m = f[k]
    <3>1. PICK k \in 1 .. Len(named) : m = f[k]
      BY <2>1
    <3>2. k \in DOMAIN ordered
      BY <1>4, <1>5
    <3> QED BY <1>6, <3>1, <3>2
  <2>2. CASE \E k \in 1 .. Len(others) : m = g[k]
    <3>1. PICK k \in 1 .. Len(others) : m = g[k]
      BY <2>2
    <3>2. Len(named) + k \in DOMAIN ordered /\ Len(named) + k \notin 1 .. Len(named) /\ (Len(named) + k) - Len(named) = k
      BY <1>4, <1>5
    <3>3. h[Len(named) + k] = m
      BY <1>6, <3>1, <3>2
    <3> QED BY <3>2, <3>3
  <2> QED BY <1>1, <1>3, <2>1, <2>2
<1>12. h \in Bijection(DOMAIN ordered, DOMAIN s)
  <2>1. h \in [DOMAIN ordered -> DOMAIN s]
    BY <1>8, <1>9
  <2> QED BY <1>7, <1>10, <1>11, <2>1 DEF Bijection, Injection, Surjection, IsInjective
<1>13. \A k \in DOMAIN named : k \in DOMAIN ordered /\ named[k] = s[h[k]]
  <2> TAKE k \in DOMAIN named
  <2>1. k \in DOMAIN ordered
    BY <1>4, <1>5
  <2> QED BY <1>4, <1>5, <1>9, <2>1
<1>14. Permutes(s, named, ordered, h)
  BY <1>3, <1>4, <1>9, <1>12, <1>13 DEF Permutes
<1> QED BY <1>14 DEF named, others, ordered, count

\* A table in another order has the same entries, as often.
LEMMA SameOccurrences ==
  ASSUME NEW s, IsTable(s), NEW t, IsTable(t), NEW h \in Bijection(DOMAIN t, DOMAIN s),
         \A k \in DOMAIN t : t[k] = s[h[k]]
  PROVE  Occurrences(t) = Occurrences(s)
<1>1. /\ h \in [DOMAIN t -> DOMAIN s] /\ \A m \in DOMAIN s : \E k \in DOMAIN t : h[k] = m
      /\ \A j, k \in DOMAIN t : h[j] = h[k] => j = k
  BY DEF Bijection, Injection, Surjection, IsInjective
<1>2. Range(t) = Range(s)
  BY <1>1 DEF Range
<1>3. ASSUME NEW x
      PROVE  Cardinality({k \in DOMAIN t : t[k] = x}) = Cardinality({k \in DOMAIN s : s[k] = x})
  <2> DEFINE T == {k \in DOMAIN t : t[k] = x}
             S == {k \in DOMAIN s : s[k] = x}
             r == [k \in T |-> h[k]]
  <2>1. IsFiniteSet(T)
    <3>1. Len(t) \in Nat /\ DOMAIN t = 1 .. Len(t)
      BY TableLen
    <3>2. IsFiniteSet(1 .. Len(t))
      BY <3>1, FS_Interval
    <3> QED BY <3>1, <3>2, FS_Subset
  <2>2. r \in [T -> S]
    BY <1>1
  <2>3. \A j, k \in T : r[j] = r[k] => j = k
    BY <1>1
  <2>4. \A m \in S : \E k \in T : r[k] = m
    BY <1>1
  <2>5. r \in Bijection(T, S)
    BY <2>2, <2>3, <2>4 DEF Bijection, Injection, Surjection, IsInjective
  <2>6. ExistsBijection(T, S)
    BY <2>5 DEF ExistsBijection
  <2> HIDE DEF T, S
  <2>7. Cardinality(S) = Cardinality(T)
    BY <2>1, <2>6, FS_Bijection
  <2> QED BY <2>7 DEF T, S
<1> QED BY <1>2, <1>3 DEF Occurrences

------------------------------------------------------------------------------
(* The request. *)

\* What the callers of build_request pass: a target of the builder, where the
\* command has one.
Addressed(c, command, target) ==
  /\ command \in {"Solve", "Simplify"} \cup Optimizing
  /\ command = "Solve" => target = None
  /\ command = "Simplify" => target # None /\ meta_for(c, target)
  /\ command \in Optimizing => target # None /\ expect_bv(c, target)

\* The parts a request is put together from.
IsDraft(c, command, target, named, ordered, h, roots, assumed, tops) ==
  /\ Permutes(IF command = "Simplify" THEN <<>> ELSE c.assertions, named, ordered, h)
  /\ roots = [k \in DOMAIN ordered |-> ordered[k].root] /\ Rooted(c, roots)
  /\ assumed = (IF command = "Simplify" THEN <<>> ELSE c.assumptions) /\ Rooted(c, assumed)
  /\ tops = (IF target = None THEN <<>> ELSE <<target>>) /\ Rooted(c, tops)

LEMMA MappedTable ==
  ASSUME NEW s, IsTable(s), NEW t, t = [k \in DOMAIN s |-> t[k]]
  PROVE  IsTable(t)
<1>1. Len(s) \in Nat /\ DOMAIN s = 1 .. Len(s)
  BY TableLen
<1>2. t = [k \in 1 .. Len(s) |-> t[k]]
  BY <1>1
<1> QED BY <1>1, <1>2, FunctionIsTable

LEMMA RootedJoin ==
  ASSUME NEW c, NEW s, Rooted(c, s), NEW t, Rooted(c, t)
  PROVE  Rooted(c, s \o t)
<1>1. IsTable(s) /\ IsTable(t)
  BY DEF Rooted
<1>2. IsTable(s \o t) /\ Positions(s \o t) = Positions(s) \cup Positions(t)
  BY <1>1, JoinTable, PositionsJoin
<1>3. \A k \in DOMAIN (s \o t) : Index((s \o t)[k]) + 1 \in Positions(s) \cup Positions(t)
  BY <1>2, PositionsIn
<1>4. \A p \in Positions(s) \cup Positions(t) : p \in DOMAIN c.nodes
  BY PositionsOut DEF Rooted
<1> QED BY <1>2, <1>3, <1>4 DEF Rooted

LEMMA RequestDraft ==
  ASSUME NEW c, BuilderInv(c), NEW id, NEW command, NEW flags, NEW target, Addressed(c, command, target)
  PROVE  \E named, ordered, h, roots, assumed, tops :
           /\ IsDraft(c, command, target, named, ordered, h, roots, assumed, tops)
           /\ LET full == compact(c, (roots \o assumed) \o tops)
              IN  build_request(c, id, command, flags, target).request =
                    new_request(id, command, flags, full.expr, remap_refs(full, roots),
                                [k \in DOMAIN named |-> named[k].name], remap_refs(full, assumed),
                                IF target = None THEN None ELSE remap_ref(full, target))
<1> DEFINE stated == IF command = "Simplify" THEN <<>> ELSE c.assertions
           part == partition(stated, Len(stated))[Len(stated)]
           named == part.named
           ordered == named \o part.unnamed
           roots == [k \in DOMAIN ordered |-> ordered[k].root]
           assumed == IF command = "Simplify" THEN <<>> ELSE c.assumptions
           tops == IF target = None THEN <<>> ELSE <<target>>
           full == compact(c, (roots \o assumed) \o tops)
           names == [k \in DOMAIN named |-> named[k].name]
           moved == IF target = None THEN None ELSE remap_ref(full, target)
<1>1. build_request(c, id, command, flags, target).request =
        new_request(id, command, flags, full.expr, remap_refs(full, roots), names, remap_refs(full, assumed), moved)
  BY DEF build_request
<1>2. IsTable(stated) /\ IsTable(assumed)
  BY EmptyTable DEF BuilderInv, TablesInv
<1>3. /\ \A k \in DOMAIN stated : Index(stated[k].root) + 1 \in DOMAIN c.nodes
      /\ \A k \in DOMAIN assumed : Index(assumed[k]) + 1 \in DOMAIN c.nodes
  BY EmptyTable DEF BuilderInv, QueryInv, AssertionInv, expect_bool, meta_for, validate_node_ref
<1> HIDE DEF stated
<1>4. PICK h : Permutes(stated, named, ordered, h)
  BY <1>2, OrderedPermutes
<1> HIDE DEF named, ordered, assumed
<1>5. Rooted(c, roots)
  <2>1. IsTable(roots)
    <3>1. IsTable(ordered)
      BY <1>4 DEF Permutes
    <3>2. roots = [k \in DOMAIN ordered |-> roots[k]]
      OBVIOUS
    <3> HIDE DEF roots
    <3> QED BY <3>1, <3>2, MappedTable
  <2>2. ASSUME NEW k \in DOMAIN ordered
        PROVE  Index(roots[k]) + 1 \in DOMAIN c.nodes
    <3>1. h[k] \in DOMAIN stated /\ ordered[k] = stated[h[k]]
      BY <1>4 DEF Permutes, Bijection, Injection
    <3> QED BY <1>3, <3>1
  <2> QED BY <2>1, <2>2 DEF Rooted
<1>6. Rooted(c, assumed)
  BY <1>2, <1>3 DEF Rooted
<1>7. Rooted(c, tops)
  <2>1. CASE target = None
    BY <2>1, EmptyTable DEF Rooted
  <2>2. CASE target # None
    <3>1. Index(target) + 1 \in DOMAIN c.nodes
      BY <2>2 DEF Addressed, expect_bv, meta_for, validate_node_ref
    <3>2. IsTable(<<target>>) /\ DOMAIN <<target>> = 1 .. 1 /\ <<target>>[1] = target
      BY OneKid, TableLen
    <3> QED BY <2>2, <3>1, <3>2 DEF Rooted
  <2> QED BY <2>1, <2>2
<1>8. IsDraft(c, command, target, named, ordered, h, roots, assumed, tops)
  BY <1>4, <1>5, <1>6, <1>7 DEF IsDraft, stated, assumed
<1> HIDE DEF roots, tops
<1> QED BY <1>1, <1>8

\* References that move with their nodes.
LEMMA RemapTable ==
  ASSUME NEW c, Buffer(c), NEW live, NEW next, NEW full, Compaction(c, live, next, full.old_to_new, full.expr),
         NEW refs, IsTable(refs), Positions(refs) \subseteq live
  PROVE  /\ DOMAIN remap_refs(full, refs) = DOMAIN refs
         /\ \A k \in DOMAIN refs : /\ remap_refs(full, refs)[k] = remap_ref(full, refs[k])
                                   /\ Index(refs[k]) + 1 \in live
         /\ Rooted(full.expr, remap_refs(full, refs))
         /\ \A j \in Positions(refs) : next[j - 1] + 1 \in Positions(remap_refs(full, refs))
<1> DEFINE t == remap_refs(full, refs)
<1>1. /\ DOMAIN t = DOMAIN refs /\ t = [k \in DOMAIN refs |-> t[k]]
      /\ \A k \in DOMAIN refs : t[k] = remap_ref(full, refs[k])
  BY DEF remap_refs
<1> HIDE DEF t
<1>2. \A k \in DOMAIN refs : Index(refs[k]) + 1 \in live
  BY PositionsIn
<1>3. \A k \in DOMAIN refs : /\ Index(t[k]) + 1 = next[(Index(refs[k]) + 1) - 1] + 1
                             /\ Index(t[k]) + 1 \in DOMAIN full.expr.nodes
  BY <1>1, <1>2 DEF Compaction, remap_ref
<1>4. IsTable(t)
  BY <1>1, MappedTable
<1>5. Rooted(full.expr, t)
  BY <1>1, <1>3, <1>4 DEF Rooted
<1>6. ASSUME NEW j \in Positions(refs)
      PROVE  next[j - 1] + 1 \in Positions(t)
  <2>1. PICK k \in DOMAIN refs : j = Index(refs[k]) + 1
    BY PositionsOut
  <2>2. Index(t[k]) + 1 \in Positions(t)
    BY <1>1, PositionsIn
  <2> QED BY <1>3, <2>1, <2>2
<1> QED BY <1>1, <1>2, <1>5, <1>6 DEF t

LEMMA DraftRooted ==
  ASSUME NEW c, NEW command, NEW target, NEW named, NEW ordered, NEW h, NEW roots, NEW assumed, NEW tops,
         IsDraft(c, command, target, named, ordered, h, roots, assumed, tops)
  PROVE  /\ Rooted(c, (roots \o assumed) \o tops)
         /\ Positions((roots \o assumed) \o tops) = Positions(roots) \cup Positions(assumed) \cup Positions(tops)
         /\ IsTable(roots) /\ IsTable(assumed) /\ IsTable(tops)
<1> DEFINE both == roots \o assumed
<1>1. /\ Rooted(c, roots) /\ Rooted(c, assumed) /\ Rooted(c, tops)
      /\ IsTable(roots) /\ IsTable(assumed) /\ IsTable(tops)
  BY DEF IsDraft, Rooted
<1>2. Rooted(c, both) /\ Positions(both) = Positions(roots) \cup Positions(assumed)
  BY <1>1, RootedJoin, PositionsJoin
<1> HIDE DEF both
<1>3. IsTable(both)
  BY <1>2 DEF Rooted
<1>4. Rooted(c, both \o tops) /\ Positions(both \o tops) = Positions(both) \cup Positions(tops)
  BY <1>1, <1>2, <1>3, RootedJoin, PositionsJoin
<1> QED BY <1>1, <1>2, <1>4 DEF both

\* A reference that moved is one.
LEMMA MovedIsThere ==
  ASSUME NEW c, NEW live, NEW next, NEW full, Compaction(c, live, next, full.old_to_new, full.expr),
         validate(full.expr), NEW ref, Index(ref) + 1 \in live
  PROVE  /\ remap_ref(full, ref) # None
         /\ Index(remap_ref(full, ref)) = next[(Index(ref) + 1) - 1]
         /\ Index(remap_ref(full, ref)) + 1 \in DOMAIN full.expr.nodes
<1> DEFINE j == Index(ref) + 1
           d == full.expr
<1>1. /\ remap_ref(full, ref) = NodeRef(result_sort(c.nodes[j].tag), next[j - 1])
      /\ Index(remap_ref(full, ref)) = next[j - 1]
      /\ next[j - 1] \in Nat /\ next[j - 1] + 1 \in DOMAIN d.nodes
  BY DEF Compaction, remap_ref
<1>2. IsTable(d.nodes) /\ Len(d.nodes) <= SortBit
  BY DEF Compaction, validate
<1>3. next[j - 1] \in 0 .. SortBit - 1
  BY <1>1, <1>2, TableLen, WireAssumption
<1>4. result_sort(c.nodes[j].tag) \in {"bv", "bool"}
  BY DEF result_sort
<1>5. remap_ref(full, ref) # None
  BY <1>1, <1>3, <1>4, RefParts
<1> QED BY <1>1, <1>5

\* What a request that is sent is made of.
LEMMA RequestMade ==
  ASSUME NEW id, NEW command, NEW flags, NEW expr, NEW assertions, NEW names, NEW assumptions, NEW target, NEW r,
         r = new_request(id, command, flags, expr, assertions, names, assumptions, target), r # NoRequest
  PROVE  /\ validate_request(r)
         /\ r.command = command /\ r.expr = expr /\ r.assertions = assertions /\ r.names = names
         /\ r.assumptions = assumptions /\ r.target = (IF target = None THEN 0 ELSE target)
<1> DEFINE made == [id |-> id, command |-> command, flags |-> flags, expr |-> expr,
                    assertions |-> assertions, names |-> names, assumptions |-> assumptions,
                    target |-> IF target = None THEN 0 ELSE target]
<1>1. r = made /\ validate_request(made)
  BY DEF new_request
<1> QED BY <1>1

\* The request says what the builder does: each assertion under its name, as
\* often, whatever the order, the assumptions in their order and the target, all
\* of them the terms they were, and carries no node that none of them needs.
\* What is sent has passed the validation that the server repeats.
THEOREM RequestSays ==
  ASSUME NEW c, BuilderInv(c), NEW id, NEW command, NEW flags, NEW target, Addressed(c, command, target),
         build_request(c, id, command, flags, target).request # NoRequest
  PROVE  LET r == build_request(c, id, command, flags, target).request
         IN  validate_request(r) /\ SaysTheSame(c, r, target)
<1> DEFINE r == build_request(c, id, command, flags, target).request
           depth == Len(c.nodes)
<1>1. PICK named, ordered, h, roots, assumed, tops :
        /\ IsDraft(c, command, target, named, ordered, h, roots, assumed, tops)
        /\ LET full == compact(c, (roots \o assumed) \o tops)
           IN  r = new_request(id, command, flags, full.expr, remap_refs(full, roots),
                               [k \in DOMAIN named |-> named[k].name], remap_refs(full, assumed),
                               IF target = None THEN None ELSE remap_ref(full, target))
  BY RequestDraft
<1> DEFINE all == (roots \o assumed) \o tops
           full == compact(c, all)
           names == [k \in DOMAIN named |-> named[k].name]
           moved == IF target = None THEN None ELSE remap_ref(full, target)
           live == marked(c, all)
           next == next_index(live, Len(c.nodes))
           d == full.expr
<1>2. r = new_request(id, command, flags, d, remap_refs(full, roots), names, remap_refs(full, assumed), moved)
  BY <1>1
<1>3. /\ IsDraft(c, command, target, named, ordered, h, roots, assumed, tops)
      /\ IsTable(roots) /\ IsTable(assumed) /\ IsTable(tops)
  BY <1>1, DraftRooted
<1>4. r # NoRequest
  OBVIOUS
<1> HIDE DEF r, names, moved
<1>5. /\ validate_request(r)
      /\ r.command = command /\ r.expr = d /\ r.assertions = remap_refs(full, roots) /\ r.names = names
      /\ r.assumptions = remap_refs(full, assumed) /\ r.target = (IF moved = None THEN 0 ELSE moved)
  <2> HIDE DEF d, full
  <2> QED BY <1>2, <1>4, RequestMade
<1>6. Rooted(c, all) /\ Positions(all) = Positions(roots) \cup Positions(assumed) \cup Positions(tops)
  BY <1>3, DraftRooted
<1> HIDE DEF all
<1>7. Buffer(c) /\ depth \in Nat
  BY TableLen DEF BuilderInv, TablesInv, Buffer
<1>8. Compaction(c, live, next, full.old_to_new, d) /\ Marking(c, all, live, 0)
  BY <1>6, <1>7, CompactCopies, MarkedFacts
<1>9. validate(d)
  BY <1>6, CompactIsValid
<1> HIDE DEF depth
<1>10. \A ref : Index(ref) + 1 \in live => Unfolded(d, remap_ref(full, ref), depth) = Unfolded(c, ref, depth)
  BY <1>6, <1>7, CompactUnfolds
<1>11. \A name : blob_ref(d, name) = blob_ref(c, name)
  <2>1. d.blob = c.blob
    BY <1>8 DEF Compaction
  <2> QED BY <2>1 DEF blob_ref
<1>12. Positions(roots) \subseteq live /\ Positions(assumed) \subseteq live /\ Positions(tops) \subseteq live
  BY <1>6, <1>8 DEF Marking
<1> HIDE DEF live, next, d, full
<1>13. /\ DOMAIN r.assertions = DOMAIN roots
       /\ \A k \in DOMAIN roots : r.assertions[k] = remap_ref(full, roots[k]) /\ Index(roots[k]) + 1 \in live
       /\ Rooted(d, r.assertions)
       /\ \A j \in Positions(roots) : next[j - 1] + 1 \in Positions(r.assertions)
  <2> DEFINE t == remap_refs(full, roots)
  <2>1. Compaction(c, live, next, full.old_to_new, full.expr)
    BY <1>8 DEF d
  <2>2. /\ DOMAIN t = DOMAIN roots
        /\ \A k \in DOMAIN roots : t[k] = remap_ref(full, roots[k]) /\ Index(roots[k]) + 1 \in live
        /\ Rooted(full.expr, t)
        /\ \A j \in Positions(roots) : next[j - 1] + 1 \in Positions(t)
    BY ONLY <1>3, <1>7, <1>12, <2>1, RemapTable
  <2> HIDE DEF t
  <2>3. r.assertions = t
    BY <1>5 DEF t
  <2> QED BY <2>2, <2>3 DEF d
<1>14. /\ DOMAIN r.assumptions = DOMAIN assumed
       /\ \A k \in DOMAIN assumed : r.assumptions[k] = remap_ref(full, assumed[k]) /\ Index(assumed[k]) + 1 \in live
       /\ Rooted(d, r.assumptions)
       /\ \A j \in Positions(assumed) : next[j - 1] + 1 \in Positions(r.assumptions)
  <2> DEFINE t == remap_refs(full, assumed)
  <2>1. Compaction(c, live, next, full.old_to_new, full.expr)
    BY <1>8 DEF d
  <2>2. /\ DOMAIN t = DOMAIN assumed
        /\ \A k \in DOMAIN assumed : t[k] = remap_ref(full, assumed[k]) /\ Index(assumed[k]) + 1 \in live
        /\ Rooted(full.expr, t)
        /\ \A j \in Positions(assumed) : next[j - 1] + 1 \in Positions(t)
    BY ONLY <1>3, <1>7, <1>12, <2>1, RemapTable
  <2> HIDE DEF t
  <2>3. r.assumptions = t
    BY <1>5 DEF t
  <2> QED BY <2>2, <2>3 DEF d
<1>15. ASSUME command # "Simplify"
       PROVE  Occurrences(Sent(r, depth)) = Occurrences(Stated(c, depth))
  <2> DEFINE s == Stated(c, depth)
             t == Sent(r, depth)
             a == c.assertions
  <2>1. /\ Permutes(a, named, ordered, h) /\ DOMAIN roots = DOMAIN ordered
        /\ \A k \in DOMAIN roots : roots[k] = ordered[k].root
    BY <1>3, <1>15 DEF IsDraft
  <2>2. IsTable(a) /\ DOMAIN s = DOMAIN a /\ s = [k \in DOMAIN a |-> s[k]]
    BY DEF Stated, BuilderInv, TablesInv
  <2>3. DOMAIN t = DOMAIN ordered /\ t = [k \in DOMAIN ordered |-> t[k]]
    BY <1>13, <2>1 DEF Sent
  <2>4. ASSUME NEW k \in DOMAIN ordered
        PROVE  t[k] = s[h[k]]
    <3> DEFINE e == a[h[k]]
    <3>1. h[k] \in DOMAIN a /\ ordered[k] = e /\ (k \in DOMAIN named <=> e.name # None)
      BY <2>1 DEF Permutes, Bijection, Injection
    <3>2. r.assertions[k] = remap_ref(full, e.root) /\ Index(e.root) + 1 \in live
      BY <1>13, <2>1, <3>1
    <3>3. Unfolded(r.expr, r.assertions[k], depth) = Unfolded(c, e.root, depth)
      BY <1>5, <1>10, <3>2
    <3>4. k \in DOMAIN r.names <=> e.name # None
      BY <1>5, <3>1 DEF names
    <3>5. k \in DOMAIN r.names => blob_ref(r.expr, r.names[k]) = blob_ref(c, e.name)
      <4>1. k \in DOMAIN r.names => r.names[k] = named[k].name /\ named[k] = e
        BY <1>5, <2>1, <3>1 DEF names, Permutes
      <4> QED BY <1>5, <1>11, <4>1
    <3>6. s[h[k]] = <<IF e.name = None THEN {} ELSE {blob_ref(c, e.name)}, Unfolded(c, e.root, depth)>>
      BY <3>1 DEF Stated
    <3>7. t[k] = <<IF k \in DOMAIN r.names THEN {blob_ref(r.expr, r.names[k])} ELSE {},
                   Unfolded(r.expr, r.assertions[k], depth)>>
      BY <1>13, <2>1 DEF Sent
    <3> HIDE DEF e, s, t
    <3> QED BY <3>3, <3>4, <3>5, <3>6, <3>7
  <2>5. IsTable(ordered) /\ h \in Bijection(DOMAIN ordered, DOMAIN a)
    BY <2>1 DEF Permutes
  <2> HIDE DEF s, t, a
  <2>6. IsTable(s) /\ IsTable(t)
    BY <2>2, <2>3, <2>5, MappedTable
  <2>7. Occurrences(t) = Occurrences(s)
    BY <2>2, <2>3, <2>4, <2>5, <2>6, SameOccurrences
  <2> QED BY <2>7 DEF s, t
<1>16. ASSUME command # "Simplify"
       PROVE  UnfoldedAll(r.expr, r.assumptions, depth) = UnfoldedAll(c, c.assumptions, depth)
  <2>1. assumed = c.assumptions
    BY <1>3, <1>16 DEF IsDraft
  <2>2. \A k \in DOMAIN assumed : Unfolded(d, r.assumptions[k], depth) = Unfolded(c, assumed[k], depth)
    BY <1>10, <1>14
  <2> QED BY <1>5, <1>14, <2>1, <2>2 DEF UnfoldedAll
<1>17. ASSUME command # "Solve"
       PROVE  /\ r.target = remap_ref(full, target) /\ Index(target) + 1 \in live
              /\ Index(r.target) + 1 \in DOMAIN d.nodes
              /\ next[(Index(target) + 1) - 1] + 1 = Index(r.target) + 1
              /\ Positions(tops) = {Index(target) + 1}
  <2>1. target # None /\ tops = <<target>>
    BY <1>3, <1>17 DEF IsDraft, Addressed
  <2>2. Positions(tops) = {Index(target) + 1}
    BY <2>1 DEF Positions, Range
  <2>3. Index(target) + 1 \in live
    BY <1>12, <2>2
  <2>4. /\ remap_ref(full, target) # None
        /\ Index(remap_ref(full, target)) = next[(Index(target) + 1) - 1]
        /\ Index(remap_ref(full, target)) + 1 \in DOMAIN d.nodes
    BY <1>8, <1>9, <2>3, MovedIsThere DEF d
  <2>5. moved = remap_ref(full, target)
    BY <2>1 DEF moved
  <2>6. r.target = remap_ref(full, target)
    BY <1>5, <2>4, <2>5
  <2> QED BY <2>2, <2>3, <2>4, <2>6
<1>18. marked(d, Roots(r)) = DOMAIN d.nodes
  <2> DEFINE x == r.assertions
             y == r.assumptions
             z == IF r.command = "Solve" THEN <<>> ELSE <<r.target>>
  <2>1. Rooted(d, x) /\ Rooted(d, y)
    BY <1>13, <1>14
  <2>2. Rooted(d, z) /\ \A j \in Positions(tops) : next[j - 1] + 1 \in Positions(z)
    <3>1. CASE command = "Solve"
      <4>1. tops = <<>>
        BY <1>3, <3>1 DEF IsDraft, Addressed
      <4>2. z = <<>>
        BY <1>5, <3>1
      <4>3. Positions(<<>>) = {}
        BY EmptyTable, PositionsOut
      <4> QED BY <4>1, <4>2, <4>3, EmptyTable DEF Rooted
    <3>2. CASE command # "Solve"
      <4>1. z = <<r.target>>
        BY <1>5, <3>2
      <4>2. IsTable(z) /\ DOMAIN z = 1 .. 1 /\ z[1] = r.target
        BY <4>1, OneKid, TableLen
      <4> HIDE DEF z
      <4>3. Rooted(d, z)
        BY <1>17, <3>2, <4>2 DEF Rooted
      <4>4. Index(r.target) + 1 \in Positions(z)
        BY <4>2, PositionsIn
      <4> QED BY <1>17, <3>2, <4>3, <4>4
    <3> QED BY <3>1, <3>2
  <2>3. Roots(r) = (x \o y) \o z
    BY DEF Roots
  <2> HIDE DEF x, y, z
  <2> DEFINE both == x \o y
  <2>4. IsTable(x) /\ IsTable(y) /\ IsTable(z)
    BY <2>1, <2>2 DEF Rooted
  <2>5. Rooted(d, both) /\ Positions(both) = Positions(x) \cup Positions(y)
    BY <2>1, <2>4, RootedJoin, PositionsJoin
  <2> HIDE DEF both
  <2>6. IsTable(both)
    BY <2>5 DEF Rooted
  <2>7. Rooted(d, both \o z) /\ Positions(both \o z) = Positions(both) \cup Positions(z)
    BY <2>2, <2>4, <2>5, <2>6, RootedJoin, PositionsJoin
  <2>8. Roots(r) = both \o z
    BY <2>3 DEF both
  <2>9. Rooted(d, Roots(r)) /\ Positions(Roots(r)) = Positions(x) \cup Positions(y) \cup Positions(z)
    BY <2>5, <2>7, <2>8
  <2>10. \A j \in Positions(all) : next[j - 1] + 1 \in Positions(Roots(r))
    BY <1>6, <1>13, <1>14, <2>2, <2>9 DEF x, y
  <2>11. Buffer(d)
    BY <1>7, <1>8, <1>9, BufferCopied DEF Marking
  <2> QED BY <1>7, <1>8, <2>9, <2>10, <2>11, CompactTight
<1>19. command # "Solve" => Unfolded(r.expr, r.target, depth) = Unfolded(c, target, depth)
  BY <1>5, <1>10, <1>17
<1>20. SaysTheSame(c, r, target)
  BY <1>5, <1>15, <1>16, <1>18, <1>19 DEF SaysTheSame, depth
<1> QED BY <1>5, <1>20 DEF r

\* The request has as many assertions as the builder.
LEMMA PermutesLen ==
  ASSUME NEW s, IsTable(s), NEW named, NEW ordered, NEW h, Permutes(s, named, ordered, h)
  PROVE  Len(ordered) = Len(s) /\ Len(named) <= Len(ordered)
<1>1. /\ IsTable(named) /\ IsTable(ordered) /\ h \in Bijection(DOMAIN ordered, DOMAIN s)
      /\ DOMAIN named \subseteq DOMAIN ordered
  BY DEF Permutes
<1>2. /\ Len(s) \in Nat /\ DOMAIN s = 1 .. Len(s)
      /\ Len(named) \in Nat /\ DOMAIN named = 1 .. Len(named)
      /\ Len(ordered) \in Nat /\ DOMAIN ordered = 1 .. Len(ordered)
  BY <1>1, TableLen
<1>3. /\ IsFiniteSet(DOMAIN ordered) /\ Cardinality(DOMAIN ordered) = Len(ordered)
      /\ Cardinality(DOMAIN s) = Len(s)
  <2>1. \A n \in Nat : IsFiniteSet(1 .. n) /\ Cardinality(1 .. n) = n
    BY FS_Interval
  <2> QED BY <1>2, <2>1
<1>4. ExistsBijection(DOMAIN ordered, DOMAIN s)
  BY <1>1 DEF ExistsBijection
<1>5. Cardinality(DOMAIN s) = Cardinality(DOMAIN ordered)
  BY <1>3, <1>4, FS_Bijection
<1>6. Len(named) <= Len(ordered)
  <2>1. CASE Len(named) = 0
    BY <1>2, <2>1
  <2>2. CASE Len(named) # 0
    <3>1. Len(named) \in DOMAIN named
      BY <1>2, <2>2
    <3> QED BY <1>1, <1>2, <3>1
  <2> QED BY <2>1, <2>2
<1> QED BY <1>3, <1>5, <1>6

\* Names are ambiguous in the request where they are in the builder.
LEMMA NamesMoved ==
  ASSUME NEW c, NEW named, NEW ordered, NEW h, Permutes(c.assertions, named, ordered, h),
         NEW r, r.expr.blob = c.blob, r.names = [k \in DOMAIN named |-> named[k].name]
  PROVE  IsInjective(AssertionNames(r)) <=> ~ HasDuplicates(c)
<1> DEFINE a == c.assertions
           text == AssertionNames(r)
<1>1. /\ \A k \in DOMAIN named : /\ k \in DOMAIN ordered /\ h[k] \in DOMAIN a
                                 /\ named[k] = a[h[k]] /\ a[h[k]].name # None
      /\ \A m \in DOMAIN a : a[m].name # None => \E k \in DOMAIN named : h[k] = m
      /\ \A j, k \in DOMAIN named : h[j] = h[k] => j = k
  BY DEF Permutes, Bijection, Injection, Surjection, IsInjective
<1>2. /\ DOMAIN text = DOMAIN named
      /\ \A k \in DOMAIN named : text[k] = blob_ref(c, a[h[k]].name)
  <2>1. DOMAIN r.names = DOMAIN named /\ \A k \in DOMAIN named : r.names[k] = a[h[k]].name
    BY <1>1
  <2>2. \A name : blob_ref(r.expr, name) = blob_ref(c, name)
    BY DEF blob_ref
  <2>3. DOMAIN text = DOMAIN r.names /\ \A k \in DOMAIN r.names : text[k] = blob_ref(r.expr, r.names[k])
    BY DEF AssertionNames
  <2> HIDE DEF text, a
  <2> QED BY <2>1, <2>2, <2>3
<1> HIDE DEF text, a
<1>3. ASSUME HasDuplicates(c)
      PROVE  ~ IsInjective(text)
  <2>1. PICK j, k \in DOMAIN a : /\ j # k /\ a[j].name # None /\ a[k].name # None
                                 /\ blob_ref(c, a[j].name) = blob_ref(c, a[k].name)
    BY <1>3 DEF HasDuplicates, a
  <2>2. PICK i \in DOMAIN named : h[i] = j
    BY <1>1, <2>1
  <2>3. PICK l \in DOMAIN named : h[l] = k
    BY <1>1, <2>1
  <2>4. i # l /\ text[i] = text[l]
    BY <1>2, <2>1, <2>2, <2>3
  <2> QED BY <1>2, <2>4 DEF IsInjective
<1>4. ASSUME NEW j \in DOMAIN text, NEW k \in DOMAIN text, text[j] = text[k], j # k
      PROVE  HasDuplicates(c)
  <2>1. /\ h[j] \in DOMAIN a /\ h[k] \in DOMAIN a /\ h[j] # h[k]
        /\ a[h[j]].name # None /\ a[h[k]].name # None
        /\ blob_ref(c, a[h[j]].name) = blob_ref(c, a[h[k]].name)
    BY <1>1, <1>2, <1>4
  <2> QED BY <2>1 DEF HasDuplicates, a
<1> QED BY <1>3, <1>4 DEF IsInjective, text

\* Nothing else stops a request: what the builder holds always makes one, of
\* every command, unless a core is asked for and two assertions have one name, or
\* a count does not fit its field.
THEOREM RequestAccepted ==
  ASSUME NEW c, BuilderInv(c), NEW id, NEW command, NEW flags, NEW target, Addressed(c, command, target),
         flags \subseteq RequestFlags, validate_command_flags(command, flags),
         command = "Simplify" \/ (Len(c.assertions) <= MaxCount /\ Len(c.assumptions) <= MaxCount)
  PROVE  build_request(c, id, command, flags, target).request # NoRequest
           <=> ("WANT_CORE" \in flags => ~ HasDuplicates(c))
<1> DEFINE r == build_request(c, id, command, flags, target).request
<1>1. PICK named, ordered, h, roots, assumed, tops :
        /\ IsDraft(c, command, target, named, ordered, h, roots, assumed, tops)
        /\ LET full == compact(c, (roots \o assumed) \o tops)
           IN  r = new_request(id, command, flags, full.expr, remap_refs(full, roots),
                               [k \in DOMAIN named |-> named[k].name], remap_refs(full, assumed),
                               IF target = None THEN None ELSE remap_ref(full, target))
  BY ONLY BuilderInv(c), Addressed(c, command, target), RequestDraft
<1> DEFINE all == (roots \o assumed) \o tops
           full == compact(c, all)
           names == [k \in DOMAIN named |-> named[k].name]
           moved == IF target = None THEN None ELSE remap_ref(full, target)
           live == marked(c, all)
           next == next_index(live, Len(c.nodes))
           d == full.expr
           stated == IF command = "Simplify" THEN <<>> ELSE c.assertions
           x == remap_refs(full, roots)
           y == remap_refs(full, assumed)
           made == [id |-> id, command |-> command, flags |-> flags, expr |-> d, assertions |-> x,
                    names |-> names, assumptions |-> y, target |-> IF moved = None THEN 0 ELSE moved]
<1>2. r = new_request(id, command, flags, d, x, names, y, moved)
  BY <1>1
<1> HIDE DEF r
<1>3. /\ IsDraft(c, command, target, named, ordered, h, roots, assumed, tops)
      /\ Rooted(c, all) /\ Positions(all) = Positions(roots) \cup Positions(assumed) \cup Positions(tops)
      /\ IsTable(roots) /\ IsTable(assumed) /\ IsTable(tops)
  BY <1>1, DraftRooted
<1>4. /\ Permutes(stated, named, ordered, h) /\ DOMAIN roots = DOMAIN ordered
      /\ \A k \in DOMAIN roots : roots[k] = ordered[k].root
  BY <1>3 DEF IsDraft
<1> HIDE DEF all, names, moved, stated
<1>5. Buffer(c) /\ QueryInv(c)
  BY DEF BuilderInv, TablesInv, Buffer
<1>6. Compaction(c, live, next, full.old_to_new, d) /\ Marking(c, all, live, 0) /\ validate(d)
  BY <1>3, <1>5, CompactCopies, MarkedFacts, CompactIsValid
<1>7. /\ Positions(roots) \subseteq live /\ Positions(assumed) \subseteq live /\ Positions(tops) \subseteq live
      /\ live \subseteq DOMAIN c.nodes /\ d.blob = c.blob
  BY <1>3, <1>6 DEF Marking, Compaction
<1> HIDE DEF live, next, full, d
<1>8. \A ref, sort : validate_node_ref(c, ref, sort) /\ Index(ref) + 1 \in live =>
        validate_node_ref(d, remap_ref(full, ref), sort)
  BY <1>5, <1>6, <1>7, RefCopied DEF remap_ref
<1>9. /\ DOMAIN x = DOMAIN roots /\ IsTable(x)
      /\ \A k \in DOMAIN roots : x[k] = remap_ref(full, roots[k]) /\ Index(roots[k]) + 1 \in live
  <2>1. Compaction(c, live, next, full.old_to_new, full.expr)
    BY <1>6 DEF d
  <2>2. IsTable(roots) /\ Positions(roots) \subseteq live /\ Buffer(c)
    BY <1>3, <1>5, <1>7
  <2>3. /\ DOMAIN x = DOMAIN roots
        /\ \A k \in DOMAIN roots : x[k] = remap_ref(full, roots[k]) /\ Index(roots[k]) + 1 \in live
        /\ Rooted(full.expr, x)
        /\ \A j \in Positions(roots) : next[j - 1] + 1 \in Positions(x)
    BY ONLY <2>1, <2>2, RemapTable
  <2> HIDE DEF x
  <2> QED BY <2>3 DEF Rooted
<1>10. /\ DOMAIN y = DOMAIN assumed /\ IsTable(y)
       /\ \A k \in DOMAIN assumed : y[k] = remap_ref(full, assumed[k]) /\ Index(assumed[k]) + 1 \in live
  <2>1. Compaction(c, live, next, full.old_to_new, full.expr)
    BY <1>6 DEF d
  <2>2. IsTable(assumed) /\ Positions(assumed) \subseteq live /\ Buffer(c)
    BY <1>3, <1>5, <1>7
  <2>3. /\ DOMAIN y = DOMAIN assumed
        /\ \A k \in DOMAIN assumed : y[k] = remap_ref(full, assumed[k]) /\ Index(assumed[k]) + 1 \in live
        /\ Rooted(full.expr, y)
        /\ \A j \in Positions(assumed) : next[j - 1] + 1 \in Positions(y)
    BY ONLY <2>1, <2>2, RemapTable
  <2> HIDE DEF y
  <2> QED BY <2>3 DEF Rooted
<1> HIDE DEF x, y
<1>11. /\ IsTable(stated) /\ \A k \in DOMAIN stated : AssertionInv(c, stated[k])
       /\ \A k \in DOMAIN assumed : validate_node_ref(c, assumed[k], "bool")
  <2>1. /\ IsTable(c.assertions) /\ \A k \in DOMAIN c.assertions : AssertionInv(c, c.assertions[k])
        /\ \A k \in DOMAIN c.assumptions : validate_node_ref(c, c.assumptions[k], "bool")
    BY <1>5 DEF BuilderInv, TablesInv, QueryInv, expect_bool, meta_for
  <2> QED BY <1>3, <2>1, EmptyTable DEF IsDraft, stated
<1>12. ASSUME NEW k \in DOMAIN ordered
       PROVE  /\ AssertionInv(c, ordered[k]) /\ ordered[k] = stated[h[k]]
              /\ k \in DOMAIN named <=> ordered[k].name # None
  BY <1>4, <1>11 DEF Permutes, Bijection, Injection
<1>13. \A k \in DOMAIN x : validate_node_ref(d, x[k], "bool")
  <2> TAKE k \in DOMAIN x
  <2>1. validate_node_ref(c, roots[k], "bool")
    BY <1>4, <1>9, <1>12 DEF AssertionInv, expect_bool, meta_for
  <2> QED BY <1>8, <1>9, <2>1
<1>14. \A k \in DOMAIN y : validate_node_ref(d, y[k], "bool")
  BY <1>8, <1>10, <1>11
<1>15. \A k \in DOMAIN names : HasText(d, names[k])
  <2> TAKE k \in DOMAIN names
  <2>1. k \in DOMAIN named /\ names[k] = named[k].name
    BY DEF names
  <2>2. k \in DOMAIN ordered /\ named[k] = ordered[k]
    BY <1>4, <2>1 DEF Permutes
  <2>3. HasText(c, names[k])
    BY <1>12, <2>1, <2>2 DEF AssertionInv
  <2> QED BY <1>7, <2>3 DEF HasText, InBlob, blob_ref
<1>16. Len(x) = Len(stated) /\ Len(names) <= Len(x) /\ Len(y) = Len(assumed)
  <2>1. IsTable(named) /\ IsTable(ordered) /\ Len(ordered) = Len(stated) /\ Len(named) <= Len(ordered)
    BY <1>4, <1>11, PermutesLen DEF Permutes
  <2>2. DOMAIN names = DOMAIN named /\ IsTable(names)
    <3>1. DOMAIN names = DOMAIN named /\ names = [k \in DOMAIN named |-> names[k]]
      BY DEF names
    <3> QED BY <2>1, <3>1, MappedTable
  <2>3. ASSUME NEW s, NEW t, IsTable(s), IsTable(t), DOMAIN s = DOMAIN t
        PROVE  Len(s) = Len(t)
    <3>1. Len(s) \in Nat /\ DOMAIN s = 1 .. Len(s) /\ Len(t) \in Nat /\ DOMAIN t = 1 .. Len(t)
      BY <2>3, TableLen
    <3>2. \A m, n \in Nat : 1 .. m = 1 .. n => m = n
      OBVIOUS
    <3> QED BY <2>3, <3>1, <3>2
  <2> QED BY <1>3, <1>4, <1>9, <1>10, <2>1, <2>2, <2>3
<1>17. Len(x) <= MaxCount /\ Len(y) <= MaxCount
  <2>1. CASE command = "Simplify"
    BY <1>3, <1>16, <2>1, EmptyTable, CountAssumption DEF IsDraft, stated
  <2>2. CASE command # "Simplify"
    BY <1>3, <1>16, <2>2 DEF IsDraft, stated
  <2> QED BY <2>1, <2>2
<1>18. ASSUME command # "Solve"
       PROVE  /\ moved # None /\ moved = remap_ref(full, target)
              /\ \A sort : validate_node_ref(c, target, sort) => validate_node_ref(d, moved, sort)
  <2>1. target # None /\ tops = <<target>>
    BY <1>3, <1>18 DEF IsDraft, Addressed
  <2>2. Index(target) + 1 \in live
    BY <1>7, <2>1 DEF Positions, Range
  <2>3. remap_ref(full, target) # None
    BY <1>6, <2>2, MovedIsThere DEF d
  <2> QED BY <1>8, <2>1, <2>2, <2>3 DEF moved
<1>19. command = "Solve" => moved = None
  BY DEF Addressed, moved
<1>20. command = "Simplify" => x = <<>> /\ names = <<>> /\ y = <<>>
  <2> SUFFICES ASSUME command = "Simplify"
               PROVE  x = <<>> /\ names = <<>> /\ y = <<>>
    OBVIOUS
  <2>1. stated = <<>> /\ assumed = <<>>
    BY <1>3 DEF IsDraft, stated
  <2>2. Len(x) = 0 /\ Len(y) = 0
    BY <1>16, <2>1, EmptyTable
  <2>3. \A s : IsTable(s) /\ Len(s) = 0 => s = <<>>
    BY EmptySeq DEF IsTable
  <2>4. IsTable(names) /\ Len(names) \in Nat
    <3>1. names = [k \in DOMAIN named |-> names[k]] /\ IsTable(named)
      BY <1>4 DEF names, Permutes
    <3> QED BY <3>1, MappedTable, TableLen
  <2>5. Len(names) = 0
    BY <1>16, <2>2, <2>4
  <2> QED BY <1>9, <1>10, <2>2, <2>3, <2>4, <2>5
<1>21. /\ made.id = id /\ made.command = command /\ made.flags = flags /\ made.expr = d /\ made.assertions = x
       /\ made.names = names /\ made.assumptions = y /\ made.target = (IF moved = None THEN 0 ELSE moved)
  OBVIOUS
<1>22. ASSUME "WANT_CORE" \in flags
       PROVE  IsInjective(AssertionNames(made)) <=> ~ HasDuplicates(c)
  <2>1. command # "Simplify"
    BY <1>22 DEF validate_command_flags
  <2>2. Permutes(c.assertions, named, ordered, h)
    BY <1>4, <2>1 DEF stated
  <2>3. names = [k \in DOMAIN named |-> named[k].name]
    BY DEF names
  <2> HIDE DEF made
  <2> QED BY ONLY <1>7, <1>21, <2>2, <2>3, NamesMoved
<1>23. r = IF /\ Len(x) <= MaxCount /\ Len(y) <= MaxCount /\ (command # "Solve" => moved # None)
              /\ validate_request(made)
           THEN made ELSE NoRequest
  BY <1>2 DEF new_request
<1> HIDE DEF made
<1>24. validate_request(made) <=> ("WANT_CORE" \in flags => IsInjective(AssertionNames(made)))
  <2>1. command = "Simplify" => validate_node_ref(d, made.target, SortOf(made.target))
    <3>1. command = "Simplify" => validate_node_ref(c, target, SortOf(target))
      BY DEF Addressed, meta_for
    <3>2. command = "Simplify" => validate_node_ref(d, moved, SortOf(target)) /\ made.target = moved
      BY <1>18, <1>21, <3>1
    <3> QED BY <3>2 DEF validate_node_ref
  <2>2. command \in Optimizing => validate_node_ref(d, made.target, "bv")
    <3>1. command \in Optimizing => command # "Solve" /\ validate_node_ref(c, target, "bv")
      BY DEF Addressed, expect_bv, meta_for, Optimizing
    <3> QED BY <1>18, <1>21, <3>1
  <2>3. command = "Solve" => made.target = 0
    BY <1>19, <1>21
  <2> QED BY <1>6, <1>13, <1>14, <1>15, <1>16, <1>20, <1>21, <2>1, <2>2, <2>3 DEF validate_request
<1>25. made # NoRequest
  <2>1. made.command # "none" /\ NoRequest.command = "none"
    BY <1>21 DEF Addressed, Optimizing, NoRequest
  <2> QED BY <2>1
<1>26. r # NoRequest <=> validate_request(made)
  BY <1>17, <1>18, <1>23, <1>25
<1> QED BY <1>22, <1>24, <1>26 DEF r

\* What a request of the Context says and when there is one, whatever is asked.
RequestsSay ==
  \A id, command, flags, target : Addressed(b, command, target) =>
    LET r == build_request(b, id, command, flags, target).request
    IN  /\ r # NoRequest => validate_request(r) /\ SaysTheSame(b, r, target)
        /\ /\ flags \subseteq RequestFlags /\ validate_command_flags(command, flags)
           /\ command = "Simplify" \/ (Len(b.assertions) <= MaxCount /\ Len(b.assumptions) <= MaxCount)
           => (r # NoRequest <=> ("WANT_CORE" \in flags => ~ HasDuplicates(b)))

\* Whatever a user has built, in whatever order, with whichever calls failed: what
\* it then asks is sent as it was built, and is sent unless a core would be
\* ambiguous or a count does not fit (builder.rs build_request and compact,
\* request.rs BinaryRequest::new and validate).
THEOREM RequestsSayEver == ContextSpec => []RequestsSay
<1>1. BuilderInv(b) => RequestsSay
  <2> SUFFICES ASSUME BuilderInv(b), NEW id, NEW command, NEW flags, NEW target, Addressed(b, command, target)
               PROVE  LET r == build_request(b, id, command, flags, target).request
                      IN  /\ r # NoRequest => validate_request(r) /\ SaysTheSame(b, r, target)
                          /\ /\ flags \subseteq RequestFlags /\ validate_command_flags(command, flags)
                             /\ command = "Simplify" \/ (Len(b.assertions) <= MaxCount /\ Len(b.assumptions) <= MaxCount)
                             => (r # NoRequest <=> ("WANT_CORE" \in flags => ~ HasDuplicates(b)))
    BY Zenon DEF RequestsSay
  <2> QED BY RequestSays, RequestAccepted
<1> QED BY <1>1, BuilderInvEver, PTL
==============================================================================
