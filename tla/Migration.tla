------------------------------ MODULE Migration ------------------------------
(***************************************************************************)
(* smt-server migrate-recordings (recording.rs migrate_tree): the pairs of *)
(* a legacy file tree are imported into the recording database in batches, *)
(* one transaction each, while servers may be recording into the same      *)
(* database.  A file may be unreadable at one attempt and readable at the  *)
(* next; the database may fail and the process may be killed at any point, *)
(* and the command may be run again.                                       *)
(*                                                                         *)
(* A request is its key (module Server) and stands for its own hash.       *)
(***************************************************************************)
EXTENDS Integers, Sequences, FiniteSets

CONSTANTS Keys, Answers,  \* canonical requests, canonical responses
          Trees,          \* the trees: sequences of files, sorted by path
          MaxBatch,       \* MAX_BATCH: pairs of one transaction
          MaxRuns         \* bound: times the command is run

\* named is the hash in the file's name, answer the content of its .res.bin.
BadName == "bad name"
Missing == "missing"
NoRow   == "no row"
File == [named : Keys \cup {BadName}, request : Keys, answer : Answers \cup {Missing}]

ASSUME MigrationAssumption ==
  /\ IsFiniteSet(Keys) /\ Trees \subseteq Seq(File) 
  /\ BadName \notin Keys /\ Missing \notin Answers /\ NoRow \notin Answers
  /\ MaxBatch \in Nat \ {0} /\ MaxRuns \in Nat

VARIABLES rows,       \* the recordings table
          tree,       \* req_paths
          stage,      \* where migrate_tree is
          scanned,    \* files scanned: the index of the next one, less one
          batch,      \* the batch of the chunk that is being read
          report,     \* MigrationReport, without scanned
          unread,     \* ghost: files this run could not read
          runs        \* how often the command has been started

migrationVars == <<rows, tree, stage, scanned, batch, report, unread, runs>>

Stages == {"stopped", "scanning", "inserting", "reported"}
EmptyReport == [inserted |-> 0, duplicates |-> 0, missing_response |-> 0, read_errors |-> 0, bad_hash |-> 0]
skipped == report.missing_response + report.read_errors + report.bad_hash

MigrationInit(trees) ==
  /\ rows = [k \in Keys |-> NoRow] /\ tree \in trees
  /\ stage = "stopped" /\ scanned = 0 /\ batch = <<>>
  /\ report = EmptyReport /\ unread = {} /\ runs = 0

\* open_db and collect_req_files; where either fails, nothing has happened.
Start ==
  /\ stage \in {"stopped", "reported"} /\ runs < MaxRuns
  /\ stage' = "scanning" /\ scanned' = 0 /\ batch' = <<>>
  /\ report' = EmptyReport /\ unread' = {} /\ runs' = runs + 1
  /\ UNCHANGED <<rows, tree>>

\* The next file, up to the end of its chunk.
InChunk == scanned < Len(tree) /\ stage = "scanning"
ChunkEnds(n) == n % MaxBatch = 0 \/ n = Len(tree)

\* Mutant of ScanNext: only full chunks are inserted.
ScanNextFull == IF (scanned + 1) % MaxBatch = 0 THEN "inserting" ELSE "scanning"

ScanNext == IF ChunkEnds(scanned + 1) THEN "inserting" ELSE "scanning"

Count(field) == report' = [report EXCEPT ![field] = @ + 1]

\* read_legacy_pair, by what the name, the reads and the hash say of the file.
Skip(field) ==
  /\ scanned' = scanned + 1 /\ stage' = ScanNext
  /\ Count(field)
  /\ UNCHANGED <<rows, tree, batch, runs>>

SkipBadName ==
  /\ InChunk /\ tree[scanned + 1].named = BadName
  /\ Skip("bad_hash") /\ UNCHANGED unread

SkipMissing ==
  /\ InChunk /\ tree[scanned + 1].named # BadName /\ tree[scanned + 1].answer = Missing
  /\ Skip("missing_response") /\ UNCHANGED unread

SkipUnreadable ==
  /\ InChunk /\ tree[scanned + 1].named # BadName /\ tree[scanned + 1].answer # Missing
  /\ Skip("read_errors") /\ unread' = unread \cup {scanned + 1}

SkipWrongHash ==
  /\ InChunk /\ tree[scanned + 1].named \notin {BadName, tree[scanned + 1].request}
  /\ tree[scanned + 1].answer # Missing
  /\ Skip("bad_hash") /\ UNCHANGED unread

Importable(file) == file.named = file.request /\ file.answer # Missing

ReadPair ==
  /\ InChunk /\ Importable(tree[scanned + 1])
  /\ scanned' = scanned + 1 /\ stage' = ScanNext
  /\ batch' = Append(batch, tree[scanned + 1])
  /\ UNCHANGED <<rows, tree, report, unread, runs>>

\* INSERT OR IGNORE of every pair of the batch in its order: the first wins.
Of(k)      == {i \in DOMAIN batch : batch[i].request = k}
FirstOf(k) == CHOOSE i \in Of(k) : \A j \in Of(k) : i <= j
InBatch == {batch[i].request : i \in DOMAIN batch}
Fresh   == {k \in InBatch : rows[k] = NoRow}

\* insert_batch_counted: the transaction commits, and the next chunk begins.
InsertBatch ==
  /\ stage = "inserting"
  /\ rows' = [k \in Keys |-> IF k \in Fresh THEN batch[FirstOf(k)].answer ELSE rows[k]]
  /\ report' = [report EXCEPT !.inserted = @ + Cardinality(Fresh),
                              !.duplicates = @ + (Len(batch) - Cardinality(Fresh))]
  /\ batch' = <<>> /\ stage' = "scanning"
  /\ UNCHANGED <<tree, scanned, unread, runs>>

\* The transaction fails (or the process is killed): the batches before it stay.
Abort ==
  /\ stage \in {"scanning", "inserting"}
  /\ stage' = "stopped"
  /\ UNCHANGED <<rows, tree, scanned, batch, report, unread, runs>>

Report ==
  /\ stage = "scanning" /\ scanned = Len(tree)
  /\ stage' = "reported"
  /\ UNCHANGED <<rows, tree, scanned, batch, report, unread, runs>>

\* A server records a pair meanwhile (module Server, Record).
ServerRecords ==
  /\ \E k \in Keys, v \in Answers : rows[k] = NoRow /\ rows' = [rows EXCEPT ![k] = v]
  /\ UNCHANGED <<tree, stage, scanned, batch, report, unread, runs>>

MigrationNext ==
  \/ Start \/ SkipBadName \/ SkipMissing \/ SkipUnreadable \/ SkipWrongHash \/ ReadPair
  \/ InsertBatch \/ Abort \/ Report \/ ServerRecords

------------------------------------------------------------------------------
\* A migration that reports success has imported every pair it could read, or
\* found its request recorded, and every file is in one of the report's counts:
\* after failures and reruns, among files that are bad, while servers record.
MigrationLosesNothing ==
  stage = "reported" =>
    /\ \A i \in DOMAIN tree : Importable(tree[i]) /\ i \notin unread => rows[tree[i].request] # NoRow
    /\ Len(tree) = report.inserted + report.duplicates + skipped

\* The inductive invariant: what a run has read is recorded or in its batch,
\* every file it has scanned is counted, and no batch is left behind.
Running == stage \in {"scanning", "inserting", "reported"}
Reports == [inserted : Int, duplicates : Int, missing_response : Int, read_errors : Int, bad_hash : Int]

MigrationTypeOK ==
  /\ rows \in [Keys -> Answers \cup {NoRow}] /\ tree \in Seq(File) /\ stage \in Stages
  /\ scanned \in 0 .. Len(tree) /\ batch \in Seq(File) /\ report \in Reports

BatchImportable == \A i \in DOMAIN batch : Importable(batch[i])
Kept(i)         == rows[tree[i].request] # NoRow \/ tree[i].request \in InBatch
ReadIsKept      == Running => \A i \in 1 .. scanned : Importable(tree[i]) /\ i \notin unread => Kept(i)
AllCounted      == Running => scanned = report.inserted + report.duplicates + skipped + Len(batch)
NoBatchLeft     == /\ stage = "scanning" /\ scanned = Len(tree) => batch = <<>>
                   /\ stage = "reported" => scanned = Len(tree) /\ batch = <<>>

MigrationInv == MigrationTypeOK /\ BatchImportable /\ ReadIsKept /\ AllCounted /\ NoBatchLeft
==============================================================================
