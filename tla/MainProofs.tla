------------------------------ MODULE MainProofs ------------------------------
(***************************************************************************)
(* The process of main.rs: a migration that reports success has lost       *)
(* nothing, for every tree, any size of the batches and any number of      *)
(* runs; and a backend's answer is true of its query, for every query and  *)
(* every width of the target, whatever interrupts the backend.             *)
(***************************************************************************)
EXTENDS Main, FiniteSetTheorems, WellFoundedInduction, TLAPS

LEMMA LeastNat ==
  ASSUME NEW T \in SUBSET Nat, T # {}
  PROVE  \E x \in T : \A y \in T : x <= y
<1> DEFINE R == {ss \in Nat \X Nat : ss[1] < ss[2]}
<1>0. IsWellFoundedOn(R, Nat)
  BY NatLessThanWellFounded DEF OpToRel
<1> HIDE DEF R
<1>1. PICK x \in T : \A y \in T : ~ (<<y, x>> \in R)
  BY <1>0, WFMin
<1>2. ASSUME NEW y \in T PROVE x <= y
  <2>1. x \in Nat /\ y \in Nat /\ <<y, x>> \notin R
    BY <1>1
  <2>2. y < x => <<y, x>> \in R
    BY <2>1 DEF R
  <2> QED BY <2>1, <2>2
<1> QED BY <1>2
LEMMA FileFields ==
  ASSUME NEW f \in File
  PROVE  f.request \in Keys /\ f.answer \in Answers \cup {Missing}
BY DEF File

LEMMA ReportCounts ==
  ASSUME NEW r \in Reports
  PROVE  /\ r.inserted \in Int /\ r.duplicates \in Int
         /\ r.missing_response \in Int /\ r.read_errors \in Int /\ r.bad_hash \in Int
BY DEF Reports

LEMMA MigrationInvInit ==
  ASSUME MigrationInit(Trees) \/ MigrationInit({<<>>})
  PROVE  MigrationInv
<1>1. tree \in Seq(File) /\ Len(tree) \in Nat
  <2>1. CASE MigrationInit(Trees)
    BY <2>1, MigrationAssumption DEF MigrationInit
  <2>2. CASE MigrationInit({<<>>})
    BY <2>2 DEF MigrationInit
  <2> QED BY <2>1, <2>2
<1>i. /\ rows = [k \in Keys |-> NoRow] /\ stage = "stopped" /\ scanned = 0 /\ batch = <<>> /\ report = EmptyReport
  BY DEF MigrationInit
<1>2. MigrationTypeOK
  BY <1>1, <1>i DEF MigrationTypeOK, Stages, Reports, EmptyReport
<1> QED
  BY <1>2, <1>i DEF MigrationInv, BatchImportable, ReadIsKept, AllCounted, NoBatchLeft, Running

\* A file that is scanned and not read leaves the rows and the batch as they are.
LEMMA SkipKeeps ==
  ASSUME MigrationInv, InChunk, UNCHANGED <<rows, tree, batch>>,
         scanned' = scanned + 1, stage' = ScanNext, report' \in Reports,
         report'.inserted + report'.duplicates + skipped' = report.inserted + report.duplicates + skipped + 1,
         unread \subseteq unread', ~ Importable(tree[scanned + 1]) \/ scanned + 1 \in unread'
  PROVE  MigrationInv'
<1>0. /\ Running /\ scanned \in Nat /\ Len(tree) \in Nat /\ scanned < Len(tree)
      /\ Len(batch) \in Nat /\ stage' \in {"scanning", "inserting"}
  BY DEF MigrationInv, MigrationTypeOK, InChunk, Running, ScanNext
<1>1. MigrationTypeOK'
  BY <1>0 DEF MigrationInv, MigrationTypeOK, Stages
<1>2. BatchImportable'
  BY DEF MigrationInv, BatchImportable, Importable
<1>3. ReadIsKept'
  <2> SUFFICES ASSUME NEW i \in 1 .. scanned', Importable(tree[i]), i \notin unread' PROVE Kept(i)'
    BY DEF ReadIsKept, Importable
  <2>1. i \in 1 .. scanned
    BY <1>0
  <2>2. Kept(i)
    BY <1>0, <2>1 DEF MigrationInv, ReadIsKept
  <2> QED BY <2>2 DEF Kept, InBatch
<1>4. AllCounted'
  <2>1. scanned = report.inserted + report.duplicates + skipped + Len(batch)
    BY <1>0 DEF MigrationInv, AllCounted
  <2>2. /\ report.inserted + report.duplicates + skipped \in Int
        /\ report'.inserted + report'.duplicates + skipped' \in Int
    <3>1. report \in Reports /\ report' \in Reports
      BY DEF MigrationInv, MigrationTypeOK
    <3>2. report.inserted + report.duplicates + skipped \in Int
      BY <3>1, ReportCounts DEF skipped
    <3>3. report'.inserted + report'.duplicates + skipped' \in Int
      BY <3>1, ReportCounts DEF skipped
    <3> QED BY <3>2, <3>3
  <2> QED BY <1>0, <2>1, <2>2 DEF AllCounted
<1>5. NoBatchLeft'
  BY <1>0 DEF NoBatchLeft, ScanNext, ChunkEnds
<1> QED BY <1>1, <1>2, <1>3, <1>4, <1>5 DEF MigrationInv

\* One more in one of the counts of files that are not imported.
LEMMA CountOne ==
  ASSUME MigrationInv, NEW f \in {"missing_response", "read_errors", "bad_hash"}, Count(f)
  PROVE  /\ report' \in Reports
         /\ report'.inserted + report'.duplicates + skipped' = report.inserted + report.duplicates + skipped + 1
<1>1. report \in Reports
  BY DEF MigrationInv, MigrationTypeOK
<1>2. CASE f = "missing_response"
  BY <1>1, <1>2 DEF Count, Reports, skipped
<1>3. CASE f = "read_errors"
  BY <1>1, <1>3 DEF Count, Reports, skipped
<1>4. CASE f = "bad_hash"
  BY <1>1, <1>4 DEF Count, Reports, skipped
<1> QED BY <1>2, <1>3, <1>4

LEMMA SkipStep ==
  ASSUME MigrationInv, SkipBadName \/ SkipMissing \/ SkipUnreadable \/ SkipWrongHash
  PROVE  MigrationInv'
<1>0. InChunk /\ scanned + 1 \in DOMAIN tree /\ tree[scanned + 1] \in File
  BY DEF MigrationInv, MigrationTypeOK, InChunk, SkipBadName, SkipMissing, SkipUnreadable, SkipWrongHash
<1>1. CASE SkipBadName
  <2>1. ~ Importable(tree[scanned + 1])
    BY <1>0, <1>1, MigrationAssumption DEF SkipBadName, Importable, File
  <2> QED BY <1>0, <1>1, <2>1, CountOne, SkipKeeps DEF SkipBadName, Skip
<1>2. CASE SkipMissing
  <2>1. ~ Importable(tree[scanned + 1])
    BY <1>2 DEF SkipMissing, Importable
  <2> QED BY <1>0, <1>2, <2>1, CountOne, SkipKeeps DEF SkipMissing, Skip
<1>3. CASE SkipUnreadable
  BY <1>0, <1>3, CountOne, SkipKeeps DEF SkipUnreadable, Skip
<1>4. CASE SkipWrongHash
  <2>1. ~ Importable(tree[scanned + 1])
    BY <1>4 DEF SkipWrongHash, Importable
  <2> QED BY <1>0, <1>4, <2>1, CountOne, SkipKeeps DEF SkipWrongHash, Skip
<1> QED BY <1>1, <1>2, <1>3, <1>4

LEMMA ReadPairStep ==
  ASSUME MigrationInv, ReadPair
  PROVE  MigrationInv'
<1>0. /\ Running /\ scanned \in Nat /\ Len(tree) \in Nat /\ scanned < Len(tree)
      /\ batch \in Seq(File) /\ Len(batch) \in Nat /\ stage' \in {"scanning", "inserting"}
      /\ tree[scanned + 1] \in File
  BY DEF MigrationInv, MigrationTypeOK, ReadPair, InChunk, Running, ScanNext
<1>b. /\ batch' \in Seq(File) /\ Len(batch') = Len(batch) + 1 /\ DOMAIN batch' = 1 .. Len(batch) + 1
      /\ batch'[Len(batch) + 1] = tree[scanned + 1]
      /\ \A i \in DOMAIN batch : i \in DOMAIN batch' /\ batch'[i] = batch[i]
  BY <1>0 DEF ReadPair
<1>1. MigrationTypeOK'
  BY <1>0, <1>b DEF MigrationInv, MigrationTypeOK, Stages, ReadPair
<1>2. BatchImportable'
  <2> SUFFICES ASSUME NEW i \in DOMAIN batch' PROVE Importable(batch'[i])
    BY DEF BatchImportable, Importable
  <2>1. CASE i \in DOMAIN batch
    BY <1>b, <2>1 DEF MigrationInv, BatchImportable, Importable
  <2>2. CASE i \notin DOMAIN batch
    <3>1. i = Len(batch) + 1
      BY <1>0, <1>b, <2>2
    <3> QED BY <1>b, <3>1 DEF ReadPair, Importable
  <2> QED BY <2>1, <2>2
<1>3. ReadIsKept'
  <2> SUFFICES ASSUME NEW i \in 1 .. scanned', Importable(tree[i]), i \notin unread' PROVE Kept(i)'
    BY DEF ReadIsKept, Importable, ReadPair
  <2>1. CASE i \in 1 .. scanned
    <3>1. Kept(i)
      BY <1>0, <2>1 DEF MigrationInv, ReadIsKept, ReadPair
    <3> QED BY <1>b, <3>1 DEF Kept, InBatch, ReadPair
  <2>2. CASE i = scanned + 1
    <3>1. Len(batch) + 1 \in DOMAIN batch'
      BY <1>0, <1>b
    <3> QED BY <1>b, <2>2, <3>1 DEF Kept, InBatch, ReadPair
  <2> QED BY <1>0, <2>1, <2>2 DEF ReadPair
<1>4. AllCounted'
  <2>1. scanned = report.inserted + report.duplicates + skipped + Len(batch)
    BY <1>0 DEF MigrationInv, AllCounted
  <2>2. report.inserted + report.duplicates + skipped \in Int
    BY ReportCounts DEF MigrationInv, MigrationTypeOK, skipped
  <2>3. report' = report /\ skipped' = skipped
    BY DEF ReadPair, skipped
  <2> QED BY <1>0, <1>b, <2>1, <2>2, <2>3 DEF AllCounted, ReadPair
<1>5. NoBatchLeft'
  BY <1>0 DEF NoBatchLeft, ScanNext, ChunkEnds, ReadPair
<1> QED BY <1>1, <1>2, <1>3, <1>4, <1>5 DEF MigrationInv

\* The pairs of the batch are in rows once they are inserted.
LEMMA Inserted ==
  ASSUME MigrationInv, InsertBatch
  PROVE  /\ rows' \in [Keys -> Answers \cup {NoRow}]
         /\ \A k \in Keys : rows[k] # NoRow => rows'[k] # NoRow
         /\ \A k \in InBatch : rows'[k] # NoRow
<1>1. \A i \in DOMAIN batch : batch[i] \in File /\ batch[i].request \in Keys /\ batch[i].answer \in Answers
  <2> SUFFICES ASSUME NEW i \in DOMAIN batch
               PROVE  batch[i] \in File /\ batch[i].request \in Keys /\ batch[i].answer \in Answers
    OBVIOUS
  <2>1. batch[i] \in File
    BY DEF MigrationInv, MigrationTypeOK
  <2>2. batch[i].answer # Missing
    BY DEF MigrationInv, BatchImportable, Importable
  <2> QED BY <2>1, <2>2, FileFields
<1>2. ASSUME NEW k \in Fresh PROVE batch[FirstOf(k)].answer \in Answers
  <2>1. Of(k) \in SUBSET Nat /\ Of(k) # {}
    BY DEF Of, Fresh, InBatch, MigrationInv, MigrationTypeOK
  <2>2. \E i \in Of(k) : \A j \in Of(k) : i <= j
    BY <2>1, LeastNat
  <2>3. FirstOf(k) \in Of(k)
    BY <2>2 DEF FirstOf
  <2> QED BY <1>1, <2>3 DEF Of
<1>3. rows' = [k \in Keys |-> IF k \in Fresh THEN batch[FirstOf(k)].answer ELSE rows[k]]
  BY DEF InsertBatch
<1>4. ASSUME NEW k \in Keys PROVE rows'[k] \in Answers \cup {NoRow} /\ (k \in Fresh \/ rows[k] # NoRow => rows'[k] # NoRow)
  <2>1. CASE k \in Fresh
    BY <1>2, <1>3, <2>1, MigrationAssumption
  <2>2. CASE k \notin Fresh
    BY <1>3, <2>2 DEF MigrationInv, MigrationTypeOK
  <2> QED BY <2>1, <2>2
<1>5. \A k \in InBatch : k \in Keys /\ (k \in Fresh \/ rows[k] # NoRow)
  BY <1>1 DEF InBatch, Fresh
<1> QED BY <1>3, <1>4, <1>5

LEMMA InsertBatchStep ==
  ASSUME MigrationInv, InsertBatch
  PROVE  MigrationInv'
<1>0. /\ Running /\ scanned \in Nat /\ Len(tree) \in Nat /\ scanned <= Len(tree) /\ Len(batch) \in Nat
      /\ stage' = "scanning" /\ batch' = <<>> /\ batch' \in Seq(File) /\ Len(batch') = 0
  BY DEF MigrationInv, MigrationTypeOK, InsertBatch, Running
<1>c. Cardinality(Fresh) \in Nat
  <2>1. \A i \in DOMAIN batch : batch[i] \in File
    BY DEF MigrationInv, MigrationTypeOK
  <2>2. Fresh \subseteq Keys
    BY <2>1, FileFields DEF Fresh, InBatch
  <2> QED BY <2>2, MigrationAssumption, FS_Subset, FS_CardinalityType
<1>r. report \in Reports
  BY DEF MigrationInv, MigrationTypeOK
<1>1. MigrationTypeOK'
  <2>1. report' \in Reports
    <3>1. /\ report.inserted + Cardinality(Fresh) \in Int
          /\ report.duplicates + (Len(batch) - Cardinality(Fresh)) \in Int
      BY <1>0, <1>c, <1>r, ReportCounts
    <3> QED BY <1>r, <3>1 DEF InsertBatch, Reports
  <2> QED BY <1>0, <2>1, Inserted DEF MigrationInv, MigrationTypeOK, Stages, InsertBatch
<1>2. BatchImportable'
  BY <1>0 DEF BatchImportable
<1>3. ReadIsKept'
  <2> SUFFICES ASSUME NEW i \in 1 .. scanned, Importable(tree[i]), i \notin unread PROVE Kept(i)'
    BY DEF ReadIsKept, Importable, InsertBatch
  <2>1. Kept(i)
    BY <1>0 DEF MigrationInv, ReadIsKept
  <2>2. tree[i].request \in Keys
    <3>1. tree[i] \in File
      BY <1>0 DEF MigrationInv, MigrationTypeOK
    <3> QED BY <3>1, FileFields
  <2> QED BY <2>1, <2>2, Inserted DEF Kept, InsertBatch
<1>4. AllCounted'
  <2>1. scanned = report.inserted + report.duplicates + skipped + Len(batch)
    BY <1>0 DEF MigrationInv, AllCounted
  <2>2. /\ report'.inserted = report.inserted + Cardinality(Fresh)
        /\ report'.duplicates = report.duplicates + (Len(batch) - Cardinality(Fresh))
    BY <1>r DEF InsertBatch, Reports
  <2>3. skipped' = skipped
    BY <1>r DEF InsertBatch, Reports, skipped
  <2>4. skipped \in Int
    BY <1>r, ReportCounts DEF skipped
  <2> QED BY <1>0, <1>c, <1>r, <2>1, <2>2, <2>3, <2>4, ReportCounts DEF AllCounted, InsertBatch
<1>5. NoBatchLeft'
  BY <1>0 DEF NoBatchLeft
<1> QED BY <1>1, <1>2, <1>3, <1>4, <1>5 DEF MigrationInv

\* Starting, ending and being overtaken by a server.
LEMMA OtherSteps ==
  ASSUME MigrationInv, Start \/ Abort \/ Report \/ ServerRecords \/ UNCHANGED migrationVars
  PROVE  MigrationInv'
<1>1. CASE Start
  <2>1. EmptyReport \in Reports
    BY DEF EmptyReport, Reports
  <2> QED BY <1>1, <2>1 DEF Start, MigrationInv, MigrationTypeOK, BatchImportable, ReadIsKept, AllCounted, NoBatchLeft,
                            Stages, Running, EmptyReport, skipped
<1>2. CASE Abort
  BY <1>2 DEF Abort, MigrationInv, MigrationTypeOK, BatchImportable, ReadIsKept, AllCounted, NoBatchLeft,
              Stages, Running, Importable
<1>3. CASE Report
  <2>1. MigrationTypeOK' /\ BatchImportable' /\ NoBatchLeft'
    BY <1>3 DEF Report, MigrationInv, MigrationTypeOK, BatchImportable, NoBatchLeft, Stages, Importable
  <2>2. ReadIsKept' /\ AllCounted'
    BY <1>3 DEF Report, MigrationInv, ReadIsKept, AllCounted, Running, Importable, Kept, InBatch, skipped
  <2> QED BY <2>1, <2>2 DEF MigrationInv
<1>4. CASE ServerRecords
  <2>0. PICK k \in Keys, v \in Answers : rows[k] = NoRow /\ rows' = [rows EXCEPT ![k] = v]
    BY <1>4 DEF ServerRecords
  <2>u. UNCHANGED <<tree, stage, scanned, batch, report, unread, runs>>
    BY <1>4 DEF ServerRecords
  <2>1. MigrationTypeOK'
    BY <2>0, <2>u DEF MigrationInv, MigrationTypeOK
  <2>2. BatchImportable' /\ AllCounted' /\ NoBatchLeft'
    BY <2>u DEF MigrationInv, BatchImportable, AllCounted, NoBatchLeft, Importable, Running, skipped
  <2>3. ReadIsKept'
    <3> SUFFICES ASSUME Running, NEW i \in 1 .. scanned, Importable(tree[i]), i \notin unread PROVE Kept(i)'
      BY <2>u DEF ReadIsKept, Importable, Running
    <3>1. Kept(i)
      BY DEF MigrationInv, ReadIsKept
    <3>2. tree[i].request \in Keys
      <4>1. tree[i] \in File
        BY DEF MigrationInv, MigrationTypeOK
      <4> QED BY <4>1, FileFields
    <3>3. rows[tree[i].request] # NoRow => rows'[tree[i].request] # NoRow
      BY <2>0, <3>2, MigrationAssumption DEF MigrationInv, MigrationTypeOK
    <3> QED BY <2>u, <3>1, <3>3 DEF Kept, InBatch
  <2> QED BY <2>1, <2>2, <2>3 DEF MigrationInv
<1>5. CASE UNCHANGED migrationVars
  BY <1>5 DEF migrationVars, MigrationInv, MigrationTypeOK, BatchImportable, ReadIsKept, AllCounted, NoBatchLeft,
              Running, Importable, Kept, InBatch, skipped
<1> QED BY <1>1, <1>2, <1>3, <1>4, <1>5

LEMMA MigrationInvStep == MigrationInv /\ [MigrationNext]_migrationVars => MigrationInv'
BY SkipStep, ReadPairStep, InsertBatchStep, OtherSteps DEF MigrationNext

LEMMA InvLosesNothing == MigrationInv => MigrationLosesNothing
<1> SUFFICES ASSUME MigrationInv, stage = "reported" PROVE MigrationLosesNothing
  BY DEF MigrationLosesNothing
<1>1. scanned = Len(tree) /\ batch = <<>> /\ InBatch = {} /\ Running
  BY DEF MigrationInv, NoBatchLeft, InBatch, Running
<1>2. \A i \in DOMAIN tree : Importable(tree[i]) /\ i \notin unread => rows[tree[i].request] # NoRow
  BY <1>1 DEF MigrationInv, MigrationTypeOK, ReadIsKept, Kept
<1>3. Len(tree) = report.inserted + report.duplicates + skipped
  <2>1. report.inserted + report.duplicates + skipped \in Int
    BY ReportCounts DEF MigrationInv, MigrationTypeOK, skipped
  <2> QED BY <1>1, <2>1 DEF MigrationInv, AllCounted
<1> QED BY <1>2, <1>3 DEF MigrationLosesNothing

------------------------------------------------------------------------------
(* One job on one backend.                                                 *)

LEMMA JobFacts ==
  ASSUME job \in Jobs
  PROVE  /\ job.models \in SUBSET SUBSET Bits /\ job.signed \in BOOLEAN
         /\ job.command \in Commands /\ job.backend \in Routed(job.command)
BY BackendsAssumption DEF Jobs

\* An answer that claims nothing is true.
LEMMA NothingIsTrue ==
  ASSUME NEW r \in {NoResult, Unknown, Failed, [status |-> "running"]}
  PROVE  True(job, r)
BY DEF True, NoResult, Unknown, Failed

\* A step that leaves Z3's hunt alone, and whose answers are true.
LEMMA Keeps ==
  ASSUME BackendsInv, UNCHANGED <<job, bit, optimum>>, PlaceInv',
         at' = "z3" => at = "z3" \/ at = "start", at' = "start" => at = "start",
         worker' = worker \/ True(job, worker'), result' = result \/ True(job, result')
  PROVE  BackendsInv'
<1>1. HuntInv'
  <2>1. CASE at' = "z3" /\ at # "z3"
    BY <2>1, BackendsAssumption DEF BackendsInv, HuntInv
  <2>2. CASE at' = "z3" => at = "z3"
    BY <2>2 DEF BackendsInv, HuntInv
  <2> QED BY <2>1, <2>2
<1>2. True(job, worker)' /\ True(job, result)'
  BY DEF BackendsInv
<1> QED BY <1>1, <1>2 DEF BackendsInv

\* Two values that are the same up to their lowest bit are equal, and one that
\* is better in its order is better in the hunt's.
LEMMA SameIsEqual ==
  ASSUME NEW u \in SUBSET Bits, NEW v \in SUBSET Bits, Same(u, v, 0)
  PROVE  u = v
<1>1. \A k \in Bits : k >= 0
  BY BackendsAssumption DEF Bits
<1>2. \A k \in Bits : k \in u <=> k \in v
  BY <1>1 DEF Same
<1> QED BY <1>2

LEMMA BetterIsFrom ==
  ASSUME job \in Jobs, job.command \in Optimizing, NEW u \in SUBSET Bits, NEW v \in SUBSET Bits, Better(job, u, v)
  PROVE  BetterFrom(job, u, v, 0)
<1> DEFINE top == Width - 1
<1>1. top \in Bits /\ \A k \in Bits : k \in Int /\ k >= 0
  BY BackendsAssumption DEF Bits
<1>2. \A s \in SUBSET Bits : \A k \in Bits : k \in Inverted(s) <=> IF k = top THEN k \notin s ELSE k \in s
  BY <1>1 DEF Inverted
<1>3. job.command = "Minimize" \/ job.command = "Maximize"
  BY DEF Optimizing
<1> HIDE DEF top
<1>4. CASE job.command = "Minimize" /\ ~ job.signed
  <2>1. PICK k \in Bits : k \in v /\ k \notin u /\ \A j \in Bits : j > k => (j \in u <=> j \in v)
    BY <1>4 DEF Better, Below, Less
  <2> QED BY <1>1, <1>4, <2>1 DEF BetterFrom, Same, PreferOne
<1>5. CASE job.command = "Maximize" /\ ~ job.signed
  <2>1. PICK k \in Bits : k \in u /\ k \notin v /\ \A j \in Bits : j > k => (j \in v <=> j \in u)
    BY <1>5 DEF Better, Below, Less
  <2> QED BY <1>1, <1>5, <2>1 DEF BetterFrom, Same, PreferOne
<1>6. CASE job.command = "Minimize" /\ job.signed
  <2>1. PICK k \in Bits : /\ k \in Inverted(v) /\ k \notin Inverted(u)
                          /\ \A j \in Bits : j > k => (j \in Inverted(u) <=> j \in Inverted(v))
    BY <1>6 DEF Better, Below, Less
  <2>2. \A j \in Bits : j > k => (j \in u <=> j \in v)
    BY <1>2, <2>1
  <2>3. IF k = top THEN k \in u /\ k \notin v ELSE k \in v /\ k \notin u
    BY <1>2, <2>1
  <2> QED BY <1>1, <1>6, <2>2, <2>3 DEF BetterFrom, Same, PreferOne, top
<1>7. CASE job.command = "Maximize" /\ job.signed
  <2>1. PICK k \in Bits : /\ k \in Inverted(u) /\ k \notin Inverted(v)
                          /\ \A j \in Bits : j > k => (j \in Inverted(v) <=> j \in Inverted(u))
    BY <1>7 DEF Better, Below, Less
  <2>2. \A j \in Bits : j > k => (j \in u <=> j \in v)
    BY <1>2, <2>1
  <2>3. IF k = top THEN k \in v /\ k \notin u ELSE k \in u /\ k \notin v
    BY <1>2, <2>1
  <2> QED BY <1>1, <1>7, <2>2, <2>3 DEF BetterFrom, Same, PreferOne, top
<1> QED BY <1>3, <1>4, <1>5, <1>6, <1>7

\* One more bit decided: a model still has the bits fixed so far, and none is
\* better there (the loop of optimize_z3).
LEMMA HuntStep ==
  ASSUME job \in Jobs, bit \in 1 .. Width, \A k \in optimum : k \in Bits /\ k >= bit,
         Leads(job, optimum, bit), Decide(Asked # {})
  PROVE  /\ \A k \in optimum' : k \in Bits /\ k >= bit - 1
         /\ Leads(job, optimum', bit - 1)
<1> DEFINE n == bit - 1
           p == PreferOne(job, n)
           one == n \in optimum'
<1>1. n \in Bits /\ bit \in Int /\ Width \in Int /\ \A k \in Bits : k \in Int /\ (k >= n <=> k = n \/ k >= bit)
  BY BackendsAssumption DEF Bits
<1>p. p \in BOOLEAN
  BY DEF PreferOne
<1>2. Asked = {u \in job.models : Same(u, optimum, bit) /\ (n \in u) = p}
  BY <1>1, BackendsAssumption DEF Asked, prefer_one
<1>3. /\ n \notin optimum
      /\ (Asked # {}) = p => optimum' = optimum \cup {n}
      /\ ~ ((Asked # {}) = p) => optimum' = optimum
  BY <1>1 DEF Decide, prefer_one
<1>4. one <=> ((Asked # {}) <=> p)
  BY <1>3, <1>p
<1>5. \A k \in Bits : k >= bit => (k \in optimum' <=> k \in optimum)
  BY <1>1, <1>3
<1>6. \A k \in optimum' : k \in Bits /\ k >= n
  BY <1>1, <1>3
<1>7. \A u : Same(u, optimum', n) <=> Same(u, optimum, bit) /\ (n \in u <=> one)
  BY <1>1, <1>5 DEF Same
<1> HIDE DEF one, n, p
<1>8. \E u \in job.models : Same(u, optimum', n)
  <2>1. CASE Asked # {}
    BY <1>2, <1>4, <1>7, <1>p, <2>1
  <2>2. CASE Asked = {}
    <3>1. PICK u \in job.models : Same(u, optimum, bit)
      BY DEF Leads
    <3>2. ~ (n \in u <=> p)
      BY <1>2, <1>p, <2>2, <3>1
    <3> QED BY <1>4, <1>7, <1>p, <2>2, <3>1, <3>2
  <2> QED BY <2>1, <2>2
<1>9. ASSUME NEW u \in job.models, BetterFrom(job, u, optimum', n) PROVE FALSE
  <2>1. PICK k \in Bits : /\ k >= n /\ (k \in u <=> PreferOne(job, k)) /\ ~ (k \in optimum' <=> PreferOne(job, k))
                          /\ Same(u, optimum', k + 1)
    BY <1>9 DEF BetterFrom
  <2>2. CASE k >= bit
    <3>1. Same(u, optimum, k + 1)
      BY <1>1, <1>5, <2>1, <2>2 DEF Same
    <3>2. BetterFrom(job, u, optimum, bit)
      BY <1>5, <2>1, <2>2, <3>1 DEF BetterFrom
    <3> QED BY <3>2 DEF Leads
  <2>3. CASE k = n
    <3>1. ~ (one <=> p) /\ (n \in u <=> p)
      BY <2>1, <2>3 DEF one, p
    <3>2. Asked = {}
      BY <1>4, <1>p, <3>1
    <3>3. Same(u, optimum, bit)
      BY <1>1, <1>5, <2>1, <2>3 DEF Same, n
    <3> QED BY <1>2, <1>p, <3>1, <3>2, <3>3
  <2> QED BY <1>1, <2>1, <2>2, <2>3
<1> QED BY <1>6, <1>8, <1>9 DEF Leads, n

\* The end of the hunt: the optimum is attained, and no model is better.
LEMMA HuntEnds ==
  ASSUME BackendsInv, at = "z3", bit = 0, job.command \in Optimizing
  PROVE  IsBest(job, optimum)
<1>1. job \in Jobs /\ optimum \in SUBSET Bits /\ Leads(job, optimum, 0)
  BY BackendsAssumption DEF BackendsInv, HuntInv
<1>2. \A u \in job.models : u \in SUBSET Bits
  BY <1>1, JobFacts
<1>3. PICK u \in job.models : Same(u, optimum, 0)
  BY <1>1 DEF Leads
<1>4. optimum \in job.models
  BY <1>1, <1>2, <1>3, SameIsEqual
<1>5. \A w \in job.models : ~ Better(job, w, optimum)
  BY <1>1, <1>2, BetterIsFrom DEF Leads
<1> QED BY <1>4, <1>5 DEF IsBest

\* A job that ends: its result is true, or there is none.
LEMMA TruthIsTrue ==
  ASSUME job \in Jobs, job.command = "Solve"
  PROVE  True(job, Truth)
BY DEF True, Truth, Sat, Unsat, Optimizing

LEMMA UnsatIsTrue ==
  ASSUME job.models = {}
  PROVE  True(job, Unsat)
BY DEF True, Unsat

LEMMA OptimalIsTrue ==
  ASSUME NEW v, IsBest(job, v), job.command \in Optimizing
  PROVE  True(job, Optimal(v))
BY DEF True, Optimal

LEMMA Z3AnswersKeeps ==
  ASSUME BackendsInv, Z3Answers
  PROVE  BackendsInv'
<1>0. /\ at = "z3" /\ job \in Jobs /\ job.backend = "z3" /\ UNCHANGED <<job, worker>> /\ result = NoResult
      /\ Width \in Nat \ {0} /\ bit \in 0 .. Width + 1
  BY BackendsAssumption DEF BackendsInv, Z3Answers, PlaceInv, given, qfbvVars, HuntInv
<1>1. job.command = "Solve" \/ job.command \in Optimizing
  BY <1>0 DEF BackendsInv, PlaceInv, Jobs, Commands
<1>2. ASSUME NEW r, Finish(r), True(job, r) PROVE BackendsInv'
  <2>1. PlaceInv'
    BY <1>0, <1>2 DEF BackendsInv, PlaceInv, Finish
  <2> QED BY <1>0, <1>2, <2>1, Keeps DEF Finish
<1>3. CASE job.command = "Solve"
  BY <1>0, <1>2, <1>3, TruthIsTrue DEF Z3Answers
<1>4. ASSUME job.command \in Optimizing, UNCHANGED <<at, result>>,
             bit' \in 0 .. Width, \A k \in optimum' : k \in Bits /\ k >= bit', Leads(job, optimum', bit')
      PROVE  BackendsInv'
  <2>1. HuntInv'
    BY <1>0, <1>4 DEF HuntInv
  <2> QED BY <1>0, <1>4, <2>1 DEF BackendsInv, PlaceInv
<1>5. CASE job.command \in Optimizing /\ bit = Width + 1
  <2>1. Asked = job.models
    BY <1>0, <1>5 DEF Asked
  <2>2. CASE Asked = {}
    <3>1. Finish(Unsat)
      BY <1>0, <1>5, <2>2 DEF Z3Answers, Optimizing
    <3> QED BY <1>2, <2>1, <2>2, <3>1, UnsatIsTrue
  <2>3. CASE Asked # {}
    <3>1. bit' = Width /\ UNCHANGED <<at, result, optimum>>
      BY <1>0, <1>5, <2>3 DEF Z3Answers, Optimizing
    <3>2. \A k \in Bits : k \in Int /\ ~ (k >= Width)
      BY <1>0 DEF Bits
    <3>3. \A k \in optimum : k \in Bits /\ k >= Width + 1
      BY <1>0, <1>5 DEF BackendsInv, HuntInv
    <3>4. \A k \in optimum' : k \in Bits /\ k >= bit'
      BY <3>1, <3>2, <3>3, <1>0
    <3>5. Leads(job, optimum', bit')
      BY <2>1, <2>3, <3>1, <3>2 DEF Leads, Same, BetterFrom
    <3> QED BY <1>0, <1>4, <1>5, <3>1, <3>4, <3>5
  <2> QED BY <2>2, <2>3
<1>6. CASE job.command \in Optimizing /\ bit = 0
  <2>1. IsBest(job, optimum)
    BY <1>0, <1>6, HuntEnds
  <2>2. Asked # {}
    BY <1>0, <1>6, <2>1 DEF Asked, IsBest
  <2>3. Finish(Optimal(optimum))
    BY <1>0, <1>6, <2>2 DEF Z3Answers, Optimizing
  <2> QED BY <1>2, <1>6, <2>1, <2>3, OptimalIsTrue
<1>7. CASE job.command \in Optimizing /\ bit \in 1 .. Width
  <2>1. Decide(Asked # {})
    BY <1>0, <1>7 DEF Z3Answers, Optimizing
  <2>2. Leads(job, optimum, bit) /\ \A k \in optimum : k \in Bits /\ k >= bit
    BY <1>0, <1>7 DEF BackendsInv, HuntInv
  <2>3. (\A k \in optimum' : k \in Bits /\ k >= bit - 1) /\ Leads(job, optimum', bit - 1)
    BY <1>0, <1>7, <2>1, <2>2, HuntStep
  <2>4. bit' = bit - 1 /\ bit' \in 0 .. Width /\ UNCHANGED <<at, result>>
    BY <1>0, <1>7, <2>1 DEF Decide
  <2> QED BY <1>4, <1>7, <2>3, <2>4
<1> QED BY <1>0, <1>1, <1>3, <1>5, <1>6, <1>7

\* The other steps of a job, by what they change.
LEMMA Z3StepsKeep ==
  ASSUME BackendsInv, Z3Start \/ Z3Check \/ Z3GivesUp \/ Z3Return \/ WatcherInterrupts \/ WatcherDone
  PROVE  BackendsInv'
<1>0. UNCHANGED <<job, worker, bit, optimum>>
  BY DEF Z3Start, Z3Check, Z3GivesUp, Z3Return, WatcherInterrupts, WatcherDone, Finish, given, qfbvVars, z3Vars
<1>1. PlaceInv' /\ (at' = "z3" => at = "z3" \/ at = "start") /\ (at' = "start" => at = "start")
      /\ result' \in {result, Unknown}
  BY <1>0 DEF BackendsInv, PlaceInv, Z3Start, Z3Check, Z3GivesUp, Z3Return, WatcherInterrupts, WatcherDone, Finish
<1> QED BY <1>0, <1>1, Keeps, NothingIsTrue

LEMMA OtherBackendsKeep ==
  ASSUME BackendsInv,
         \/ Cancel \/ Expire \/ CancelledBeforeStart \/ RumbaStart \/ RumbaAnswers
         \/ BinbitRefuses \/ BinbitStart \/ BinbitLook \/ BinbitAnswers \/ BinbitSliceEnds \/ QfbvStart \/ QfbvNoThread \/ PollCancel \/ Join
  PROVE  BackendsInv'
<1> DEFINE Free == Cancel \/ Expire \/ CancelledBeforeStart \/ RumbaStart \/ BinbitRefuses \/ BinbitStart \/ BinbitLook
                   \/ BinbitSliceEnds \/ QfbvNoThread \/ PollCancel
<1>0. UNCHANGED <<job, bit, optimum>> /\ job \in Jobs /\ (at' = "start" => at = "start") /\ (at' = "z3" => at = "z3")
  BY DEF BackendsInv, Cancel, Expire, CancelledBeforeStart, RumbaStart, RumbaAnswers, BinbitRefuses, BinbitStart, BinbitLook,
         BinbitAnswers, BinbitSliceEnds, QfbvStart, QfbvNoThread, PollCancel, Join, Return, given, z3Vars
<1>1. CASE Free
  <2>1. worker' = worker /\ result' \in {result, Unknown, Failed}
    BY <1>1 DEF Cancel, Expire, CancelledBeforeStart, RumbaStart, BinbitRefuses, BinbitStart, BinbitLook,
         BinbitSliceEnds, QfbvNoThread, PollCancel, Return, qfbvVars
  <2>2. \/ at' = "returned" \/ UNCHANGED <<at, result>>
        \/ at' = "binbit" /\ job.backend = "binbit" /\ UNCHANGED result /\ at = "start"
        \/ at' = "rumba" /\ job.backend = "rumba" /\ UNCHANGED result /\ at = "start"
    BY <1>1 DEF Cancel, Expire, CancelledBeforeStart, RumbaStart, BinbitRefuses, BinbitStart, BinbitLook,
         BinbitSliceEnds, QfbvNoThread, PollCancel, Return
  <2>3. PlaceInv'
    BY <1>0, <2>1, <2>2 DEF BackendsInv, PlaceInv
  <2> QED BY <1>0, <2>1, <2>3, Keeps, NothingIsTrue
<1> HIDE DEF Free
<1>2. CASE RumbaAnswers
  <2>1. job.command = "Simplify" /\ worker' = worker /\ result' = Simplified /\ PlaceInv'
    BY <1>0, <1>2 DEF BackendsInv, PlaceInv, RumbaAnswers, Return, qfbvVars
  <2>2. True(job, Simplified)
    BY <2>1 DEF True, Simplified
  <2> QED BY <1>0, <2>1, <2>2, Keeps
<1>3. CASE BinbitAnswers
  <2>1. at = "binbit" /\ at' = "returned" /\ worker' = worker /\ job.backend = "binbit"
    BY <1>3 DEF BackendsInv, PlaceInv, BinbitAnswers, Return, qfbvVars
  <2>2. job.command = "Solve" \/ job.command \in Optimizing
    BY <1>0, <2>1 DEF BackendsInv, PlaceInv, Jobs, Commands
  <2>3. True(job, result')
    <3>1. CASE job.command = "Solve"
      BY <1>0, <1>3, <3>1, TruthIsTrue DEF BinbitAnswers, Return
    <3>2. CASE job.command # "Solve" /\ job.models = {}
      BY <1>3, <3>2, UnsatIsTrue DEF BinbitAnswers, Return
    <3>3. CASE job.command # "Solve" /\ job.models # {}
      <4>1. PICK v \in job.models : IsBest(job, v) /\ result' = Optimal(v)
        BY <1>3, <3>3 DEF BinbitAnswers, Return
      <4> QED BY <2>2, <3>3, <4>1, OptimalIsTrue
    <3> QED BY <3>1, <3>2, <3>3
  <2>4. PlaceInv'
    BY <1>0, <2>1 DEF BackendsInv, PlaceInv
  <2> QED BY <1>0, <2>1, <2>3, <2>4, Keeps
<1>4. CASE QfbvStart
  <2>1. worker' = [status |-> "running"] /\ result' = result /\ PlaceInv'
    BY <1>0, <1>4 DEF BackendsInv, PlaceInv, QfbvStart, NoResult
  <2> QED BY <1>0, <2>1, Keeps, NothingIsTrue
<1>5. CASE Join
  <2>1. worker' = worker /\ result' = worker /\ PlaceInv' /\ True(job, worker)
    BY <1>0, <1>5 DEF BackendsInv, PlaceInv, Join, Return, qfbvVars
  <2> QED BY <1>0, <2>1, Keeps
<1> QED BY <1>1, <1>2, <1>3, <1>4, <1>5 DEF Free

LEMMA WorkerKeeps ==
  ASSUME BackendsInv, WorkerAnswers \/ WorkerGivesUp
  PROVE  BackendsInv'
<1>a. UNCHANGED <<job, at, bit, optimum, result>> /\ worker.status = "running"
  BY DEF WorkerAnswers, WorkerGivesUp, given, z3Vars
<1>b. worker # NoResult
  BY <1>a DEF NoResult
<1>0. /\ UNCHANGED <<job, at, bit, optimum, result>> /\ job \in Jobs /\ job.backend = "qfbvsmtrs"
  BY <1>a, <1>b DEF BackendsInv, PlaceInv
<1>1. job.command = "Solve" \/ job.command \in Optimizing
  BY <1>0 DEF BackendsInv, PlaceInv, Jobs, Commands
<1>2. True(job, worker')
  <2>1. CASE WorkerGivesUp
    BY <2>1, NothingIsTrue DEF WorkerGivesUp
  <2>2. CASE WorkerAnswers /\ job.models = {}
    BY <2>2, UnsatIsTrue DEF WorkerAnswers
  <2>3. CASE WorkerAnswers /\ job.models # {} /\ job.command = "Solve"
    BY <1>0, <2>3, TruthIsTrue DEF WorkerAnswers, Truth
  <2>4. CASE WorkerAnswers /\ job.models # {} /\ job.command # "Solve"
    <3>1. PICK v \in job.models : IsBest(job, v) /\ worker' = Optimal(v)
      BY <2>4 DEF WorkerAnswers
    <3> QED BY <1>1, <2>4, <3>1, OptimalIsTrue
  <2> QED BY <2>1, <2>2, <2>3, <2>4
<1>3. PlaceInv'
  <2>1. worker' # NoResult
    BY DEF WorkerAnswers, WorkerGivesUp, NoResult, Unsat, Sat, Optimal, Unknown
  <2> QED BY <1>0, <2>1 DEF BackendsInv, PlaceInv
<1> QED BY <1>0, <1>2, <1>3, Keeps

LEMMA BackendsInvStep == BackendsInv /\ BackendsNext => BackendsInv'
BY Z3AnswersKeeps, Z3StepsKeep, OtherBackendsKeep, WorkerKeeps DEF BackendsNext, Adapter

LEMMA BackendsInvInit == BackendsInit(Jobs) => BackendsInv
<1> SUFFICES ASSUME BackendsInit(Jobs) PROVE BackendsInv
  OBVIOUS
<1>1. job \in Jobs /\ at = "start" /\ worker = NoResult /\ result = NoResult /\ bit = Width + 1 /\ optimum = {}
  BY DEF BackendsInit
<1>2. PlaceInv /\ HuntInv
  BY <1>1 DEF PlaceInv, HuntInv, Jobs, Commands, Routed, Solvers, Optimizing
<1> QED BY <1>1, <1>2, NothingIsTrue DEF BackendsInv

------------------------------------------------------------------------------
(* The process.                                                            *)

LEMMA MainInvInit == Init => MainInv
<1> SUFFICES ASSUME Init PROVE MainInv
  OBVIOUS
<1>1. MigrationInv
  BY MigrationInvInit DEF Init
<1>2. command = "serve" => BackendsInv
  BY BackendsInvInit DEF Init
<1>3. command # "serve" => result = NoResult
  BY DEF Init, BackendsInit
<1> QED BY <1>1, <1>2, <1>3 DEF MainInv

LEMMA MainInvStep == MainInv /\ [Next]_vars => MainInv'
<1> SUFFICES ASSUME MainInv, [Next]_vars PROVE MainInv'
  OBVIOUS
<1>1. CASE Serve
  <2>1. MigrationInv'
    BY <1>1, MigrationInvStep DEF Serve, MainInv
  <2>2. command = "serve" /\ command' = command /\ BackendsInv'
    BY <1>1, BackendsInvStep DEF Serve, MainInv
  <2> QED BY <2>1, <2>2 DEF MainInv
<1>2. CASE Migrate
  <2>1. MigrationInv'
    BY <1>2, MigrationInvStep DEF Migrate, MainInv
  <2>2. command # "serve" /\ command' = command /\ result' = result
    BY <1>2 DEF Migrate, jobVars
  <2> QED BY <2>1, <2>2 DEF MainInv
<1>3. CASE UNCHANGED vars
  <2>1. MigrationInv'
    BY <1>3, MigrationInvStep DEF vars, MainInv
  <2>2. UNCHANGED <<command, job, at, bit, optimum, worker, result>>
    BY <1>3 DEF vars, jobVars, given, z3Vars, qfbvVars
  <2>3. BackendsInv => BackendsInv'
    BY <2>2 DEF BackendsInv, PlaceInv, HuntInv
  <2> QED BY <2>1, <2>2, <2>3 DEF MainInv
<1> QED BY <1>1, <1>2, <1>3 DEF Next, Finished

\* A migration that reports success has recorded, or found recorded, every pair
\* it could read and has counted every file, for every tree, batch size and
\* number of runs, whatever fails or is recorded meanwhile (migrate_tree).
THEOREM MigrationLosesNothingEver == Spec => []MigrationLosesNothing
<1>1. MainInv => MigrationLosesNothing
  BY InvLosesNothing DEF MainInv
<1> QED BY <1>1, MainInvInit, MainInvStep, PTL DEF Spec

\* Whatever a job is, on whichever backend, and whenever its cancellation, its
\* deadline or an Unknown comes, the backend's answer is true of the query: for
\* every set of models and every width of the target, signed and unsigned
\* (handle_with_context of every backend, optimize_z3).
THEOREM AnswersAreTrueEver == Spec => []AnswersAreTrue
<1>1. MainInv => AnswersAreTrue
  BY NothingIsTrue DEF MainInv, BackendsInv, AnswersAreTrue
<1> QED BY <1>1, MainInvInit, MainInvStep, PTL DEF Spec
==============================================================================
