----------------------------- MODULE QfbvSolver -----------------------------
(***************************************************************************)
(* The orchestration of one call of Solver::solve                          *)
(* (crates/qfbvsmtrs/src/solver.rs): the shortcut, audit and core paths of *)
(* solve_once_with_deadline, the bit hunt of optimize and the deletion     *)
(* loop of extract_named_core, while the token may be set and the deadline *)
(* may pass at any moment.                                                 *)
(*                                                                         *)
(* An assertion is the set of worlds (assignments of the variables) that   *)
(* satisfy it; an assumption is an assertion without a name, since the     *)
(* blaster conjoins both.  A bit vector is the set of its one bits.  The   *)
(* core path (blast, encode, SAT) is one step that answers truthfully or   *)
(* gives up: modules Gates and Sat are about its correctness.              *)
(***************************************************************************)
EXTENDS Integers, Sequences

CONSTANTS
  Worlds,           \* assignments of the query's variables
  NoWorld,          \* no model
  Width,            \* width of the optimization target
  TargetOf,         \* the target's value in each world
  Queries,          \* the queries that may be asked
  Modes,            \* shortcut modes that may be configured
  ShortcutsSound    \* whether shortcuts answer truthfully

Bits == 0..(Width - 1)
Assertion == [models : SUBSET Worlds, named : BOOLEAN]
Query ==
  [command : {"solve", "simplify", "minimize", "maximize"}, bvTarget : BOOLEAN,
   signed : BOOLEAN, wantModel : BOOLEAN, wantCore : BOOLEAN,
   assertions : Seq(Assertion)]
ShortcutMode == {"enabled", "disabled", "validate", "audit"}

ASSUME SolverAssumption ==
  /\ Width \in Nat \ {0} /\ NoWorld \notin Worlds
  /\ TargetOf \in [Worlds -> SUBSET Bits]
  /\ Queries \subseteq Query /\ Modes \subseteq ShortcutMode
  /\ ShortcutsSound \in BOOLEAN

Status == {"sat", "unsat", "unknown", "simplified"}

VARIABLES
  query, mode,         \* the call's query and Config.shortcut_mode
  cancelled, expired,  \* the token; whether the deadline has passed
  pc,                  \* the caller of solve_once_with_deadline, or "done"
  phase,               \* where that call is: "idle" between calls
  trial,               \* the worlds of the query it was given
  hit,                 \* the shortcut's answer under audit
  ret,                 \* what it returned: status and model
  fixed, bit, optimum, \* locals of optimize
  active, tried,       \* locals of extract_named_core: active, its elements before pos
  candidate,           \*   and active[pos] while it is tried
  result,              \* what solve returned
  unsure               \* history: some call of this solve gave up

limits == <<cancelled, expired>>
hunt == <<fixed, bit, optimum>>
deletion == <<active, tried, candidate>>
vars == <<query, mode, limits, pc, phase, trial, hit, ret, hunt, deletion, result, unsure>>

-----------------------------------------------------------------------------
\* The worlds that satisfy every unnamed assertion and the named ones in S.
Satisfying(q, S) ==
  {w \in Worlds : \A i \in DOMAIN q.assertions :
                    (q.assertions[i].named => i \in S) => w \in q.assertions[i].models}
All(q) == Satisfying(q, DOMAIN q.assertions)
NamedIn(q) == {i \in DOMAIN q.assertions : q.assertions[i].named}
Optimizing(q) == q.command \in {"minimize", "maximize"}

Truth(worlds) == IF worlds = {} THEN "unsat" ELSE "sat"

NoResult == [status |-> "none", model |-> NoWorld, core |-> {}, optimum |-> {}]
Answer(status, model, core, opt) ==
  [status |-> status, model |-> model, core |-> core, optimum |-> opt]
Unknown == Answer("unknown", NoWorld, {}, {})
Unsat(core) == Answer("unsat", NoWorld, core, {})
Failed == Answer("error", NoWorld, {}, {})

Init ==
  /\ query \in Queries /\ mode \in Modes
  /\ cancelled \in BOOLEAN /\ expired \in BOOLEAN
  /\ pc = "start" /\ phase = "idle" /\ trial = {} /\ hit = "unknown"
  /\ ret = [status |-> "unknown", model |-> NoWorld]
  /\ fixed = {} /\ bit = Width - 1 /\ optimum = {}
  /\ active = {} /\ tried = {} /\ candidate = 0
  /\ result = NoResult /\ unsure = FALSE

\* The token is set by another thread; time passes.
Cancel == ~cancelled /\ cancelled' = TRUE /\ UNCHANGED <<query, mode, expired, pc, phase, trial, hit, ret, hunt, deletion, result, unsure>>
Expire == ~expired /\ expired' = TRUE /\ UNCHANGED <<query, mode, cancelled, pc, phase, trial, hit, ret, hunt, deletion, result, unsure>>

Finish(answer) ==
  /\ pc' = "done" /\ phase' = "idle" /\ result' = answer
  /\ UNCHANGED <<query, mode, limits, trial, hit, ret, hunt, deletion, unsure>>

Call(caller, worlds) == pc' = caller /\ phase' = "enter" /\ trial' = worlds

-----------------------------------------------------------------------------
\* solve

Start ==
  /\ pc = "start"
  /\ \/ cancelled /\ Finish(Unknown)
     \/ /\ ~cancelled /\ ~Optimizing(query)
        /\ Call("once", All(query))
        /\ UNCHANGED <<query, mode, limits, hit, ret, hunt, deletion, result, unsure>>

\* optimize up to its first call.
StartOptimize ==
  /\ pc = "start" /\ ~cancelled /\ Optimizing(query)
  /\ \/ ~query.bvTarget /\ Finish(Failed)
     \/ /\ query.bvTarget
        /\ Call("base", All(query)) /\ fixed' = All(query)
        /\ UNCHANGED <<query, mode, limits, hit, ret, bit, optimum, deletion, result, unsure>>

-----------------------------------------------------------------------------
\* solve_once_with_deadline.  Only the call from solve and the last one of
\* optimize ask for a model.

WantModel == query.wantModel /\ pc \in {"once", "model"}
Simplifies == pc = "once" /\ query.command = "simplify"

Step(next) ==
  /\ phase' = next
  /\ UNCHANGED <<query, mode, limits, pc, trial, ret, hunt, deletion, result>>

Return(status) ==
  /\ phase' = "ret"
  /\ \/ status = "sat" /\ WantModel /\ \E w \in trial : ret' = [status |-> "sat", model |-> w]
     \/ ~(status = "sat" /\ WantModel) /\ ret' = [status |-> status, model |-> NoWorld]
  /\ unsure' = (unsure \/ status = "unknown")
  /\ UNCHANGED <<query, mode, limits, pc, trial, hit, hunt, deletion, result>>

Enter ==
  /\ phase = "enter"
  /\ \/ cancelled /\ Return("unknown")
     \/ ~cancelled /\ Simplifies /\ Return("simplified")
     \/ ~cancelled /\ ~Simplifies /\ expired /\ Return("unknown")
     \/ ~cancelled /\ ~Simplifies /\ ~expired /\ Step("shortcut") /\ UNCHANGED <<hit, unsure>>

\* shortcuts::try_solve.  Passes that answer SAT return no model and stand back
\* when one is wanted.
MayAnswer(status) ==
  /\ mode # "disabled"
  /\ status = "sat" => ~WantModel
  /\ ShortcutsSound => status = Truth(trial)

Shortcut ==
  /\ phase = "shortcut"
  /\ \/ Step("core") /\ UNCHANGED <<hit, unsure>>
     \/ \E s \in {"sat", "unsat"} :
          MayAnswer(s) /\ hit' = s /\ Step("hit") /\ UNCHANGED unsure
     \/ mode # "disabled" /\ Finish(Failed)

Hit ==
  /\ phase = "hit"
  /\ \/ cancelled /\ Return("unknown")
     \/ ~cancelled /\ mode = "audit" /\ Step("audit") /\ UNCHANGED <<hit, unsure>>
     \/ ~cancelled /\ mode # "audit" /\ Return(hit)

\* solve_core_once_with_deadline.  The SAT solver may give up by itself.
CoreAnswers == IF cancelled \/ expired THEN {"unknown"} ELSE {"unknown", Truth(trial)}

Core ==
  /\ phase = "core"
  /\ \/ \E c \in CoreAnswers : Return(c)
     \/ ~cancelled /\ ~expired /\ Finish(Failed)

\* A disagreement with the core path is UNKNOWN; a core path that gives up
\* leaves the shortcut's answer.
AuditedHit ==
  /\ phase' = "ret" /\ ret' = [status |-> hit, model |-> NoWorld]
  /\ unsure' = TRUE
  /\ UNCHANGED <<query, mode, limits, pc, trial, hit, hunt, deletion, result>>

\* Mutant: the core path's verdict is not compared.
AuditTrusting ==
  /\ phase = "audit"
  /\ \/ \E c \in CoreAnswers \ {"unknown"} : Return(hit)
     \/ "unknown" \in CoreAnswers /\ AuditedHit
     \/ ~cancelled /\ ~expired /\ Finish(Failed)

Audit ==
  /\ phase = "audit"
  /\ \/ \E c \in CoreAnswers \ {"unknown"} : Return(IF c = hit THEN hit ELSE "unknown")
     \/ "unknown" \in CoreAnswers /\ AuditedHit
     \/ ~cancelled /\ ~expired /\ Finish(Failed)

-----------------------------------------------------------------------------
\* The rest of solve, and extract_named_core.

Once ==
  /\ pc = "once" /\ phase = "ret"
  /\ \/ /\ ret.status = "unsat" /\ query.wantCore
        /\ pc' = "core" /\ phase' = "idle" /\ active' = NamedIn(query) /\ tried' = {}
        /\ UNCHANGED <<query, mode, limits, trial, hit, ret, hunt, candidate, result, unsure>>
     \/ /\ ~(ret.status = "unsat" /\ query.wantCore)
        /\ Finish(Answer(ret.status, ret.model, {}, {}))

\* The list is in ascending order and its elements before pos have been tried.
DropCandidate ==
  /\ pc = "core" /\ phase = "idle" /\ active # tried
  /\ \/ (cancelled \/ expired) /\ Finish(Unknown)
     \/ /\ ~cancelled /\ ~expired
        /\ \E c \in active \ tried :
             /\ \A d \in active \ tried : c <= d
             /\ candidate' = c
             /\ Call("core", Satisfying(query, active \ {c}))
        /\ UNCHANGED <<query, mode, limits, hit, ret, hunt, active, tried, result, unsure>>

\* Mutant: a trial that gave up counts as UNSAT.
CandidateReturnedLax ==
  /\ pc = "core" /\ phase = "ret" /\ phase' = "idle"
  /\ \/ ret.status # "sat" /\ active' = active \ {candidate} /\ tried' = tried
     \/ ret.status = "sat" /\ tried' = tried \cup {candidate} /\ active' = active
  /\ UNCHANGED <<query, mode, limits, pc, trial, hit, ret, hunt, candidate, result, unsure>>

\* Mutant: the smaller list is not kept.
CandidateReturnedKeep ==
  /\ pc = "core" /\ phase = "ret" /\ phase' = "idle"
  /\ tried' = tried \cup {candidate} /\ active' = active
  /\ UNCHANGED <<query, mode, limits, pc, trial, hit, ret, hunt, candidate, result, unsure>>

\* Mutant: a trial that gave up is tried again.
CandidateReturnedRetry ==
  /\ pc = "core" /\ phase = "ret" /\ phase' = "idle"
  /\ \/ ret.status = "unsat" /\ active' = active \ {candidate} /\ tried' = tried
     \/ ret.status = "sat" /\ tried' = tried \cup {candidate} /\ active' = active
     \/ ret.status \notin {"sat", "unsat"} /\ UNCHANGED <<active, tried>>
  /\ UNCHANGED <<query, mode, limits, pc, trial, hit, ret, hunt, candidate, result, unsure>>

CandidateReturned ==
  /\ pc = "core" /\ phase = "ret" /\ phase' = "idle"
  /\ \/ ret.status = "unsat" /\ active' = active \ {candidate} /\ tried' = tried
     \/ ret.status # "unsat" /\ tried' = tried \cup {candidate} /\ active' = active
  /\ UNCHANGED <<query, mode, limits, pc, trial, hit, ret, hunt, candidate, result, unsure>>

CoreDone ==
  /\ pc = "core" /\ phase = "idle" /\ active = tried
  /\ Finish(Unsat(active))

-----------------------------------------------------------------------------
\* optimize

\* Mutant: the sign bit is hunted like the others.
PreferOneUnsigned(q, b) == q.command = "maximize"

\* Whether the better half of the values has bit b set.
PreferOne(q, b) ==
  IF q.signed /\ b = Width - 1 THEN q.command = "minimize" ELSE q.command = "maximize"

WithBit(worlds, b, one) == {w \in worlds : b \in TargetOf[w] <=> one}

BaseReturned ==
  /\ pc = "base" /\ phase = "ret"
  /\ \/ /\ ret.status = "sat" /\ pc' = "bit" /\ phase' = "idle"
        /\ UNCHANGED <<query, mode, limits, trial, hit, ret, hunt, deletion, result, unsure>>
     \/ ret.status = "unsat" /\ Finish(Unsat({}))
     \/ ret.status \notin {"sat", "unsat"} /\ Finish(Unknown)

TryBit ==
  /\ pc = "bit" /\ phase = "idle" /\ bit >= 0
  /\ Call("bit", WithBit(fixed, bit, PreferOne(query, bit)))
  /\ UNCHANGED <<query, mode, limits, hit, ret, hunt, deletion, result, unsure>>

BitReturned ==
  /\ pc = "bit" /\ phase = "ret"
  /\ LET one == PreferOne(query, bit)
         keep(worlds, set) ==
           /\ fixed' = worlds /\ optimum' = (IF set THEN optimum \cup {bit} ELSE optimum)
           /\ bit' = bit - 1 /\ phase' = "idle"
           /\ UNCHANGED <<query, mode, limits, pc, trial, hit, ret, deletion, result, unsure>>
     IN  \/ ret.status = "sat" /\ keep(trial, one)
         \/ ret.status = "unsat" /\ keep(WithBit(fixed, bit, ~one), ~one)
         \/ ret.status \notin {"sat", "unsat"} /\ Finish(Unknown)

BitsDone ==
  /\ pc = "bit" /\ phase = "idle" /\ bit < 0
  /\ \/ /\ query.wantModel /\ Call("model", fixed)
        /\ UNCHANGED <<query, mode, limits, hit, ret, hunt, deletion, result, unsure>>
     \/ ~query.wantModel /\ Finish(Answer("sat", NoWorld, {}, optimum))

ModelReturned ==
  /\ pc = "model" /\ phase = "ret"
  /\ \/ ret.status = "sat" /\ Finish(Answer("sat", ret.model, {}, optimum))
     \/ ret.status # "sat" /\ Finish(Unknown)

-----------------------------------------------------------------------------
Done == pc = "done" /\ UNCHANGED vars

Solving ==
  \/ Start \/ StartOptimize \/ Enter \/ Shortcut \/ Hit \/ Core \/ Audit
  \/ Once \/ DropCandidate \/ CandidateReturned \/ CoreDone
  \/ BaseReturned \/ TryBit \/ BitReturned \/ BitsDone \/ ModelReturned

Next == Solving \/ Cancel \/ Expire \/ Done

Spec == Init /\ [][Next]_vars

\* The calling thread runs, and the SAT solver and the shortcuts return.
FairSpec == Spec /\ WF_vars(Solving)

-----------------------------------------------------------------------------
\* Properties.

\* Every variable has its type.
TypeOK ==
  /\ query \in Query /\ mode \in ShortcutMode
  /\ cancelled \in BOOLEAN /\ expired \in BOOLEAN /\ unsure \in BOOLEAN
  /\ pc \in {"start", "once", "base", "bit", "model", "core", "done"}
  /\ phase \in {"idle", "enter", "shortcut", "hit", "core", "audit", "ret"}
  /\ trial \subseteq Worlds /\ fixed \subseteq Worlds
  /\ hit \in {"sat", "unsat", "unknown"}
  /\ ret \in [status : Status, model : Worlds \cup {NoWorld}]
  /\ bit \in -1..(Width - 1) /\ optimum \subseteq Bits
  /\ active \subseteq DOMAIN query.assertions /\ tried \subseteq active /\ candidate \in Nat
  /\ result \in [status : Status \cup {"none", "error"}, model : Worlds \cup {NoWorld},
                 core : SUBSET DOMAIN query.assertions, optimum : SUBSET Bits]

\* Answers can be relied on when no shortcut can be wrong, or when every one was
\* compared with a core path that did not give up.
Reliable == mode = "disabled" \/ ShortcutsSound \/ (mode = "audit" /\ ~unsure)

\* A verdict is true, and a model satisfies every assertion; one is there whenever
\* it was asked for, although shortcuts answer without.
VerdictTrue ==
  Reliable =>
    /\ result.status = "unsat" => All(query) = {}
    /\ result.status = "sat" => All(query) # {}
    /\ result.status = "sat" =>
         IF query.wantModel THEN result.model \in All(query) ELSE result.model = NoWorld

\* Unsigned order: at the highest bit where they differ, b has the one.
Less(a, b) ==
  \E k \in Bits : /\ k \in b /\ k \notin a
                  /\ \A j \in Bits : j > k => (j \in a <=> j \in b)

\* Two's complement order: as the unsigned one with the sign bit inverted.
Inverted(a) == IF Width - 1 \in a THEN a \ {Width - 1} ELSE a \cup {Width - 1}
Before(q, a, b) == IF q.signed THEN Less(Inverted(a), Inverted(b)) ELSE Less(a, b)

\* The number a bit vector stands for, read from its top bit down: the number of
\* the first k bits for every k.  A sign bit counts negative.
reading_bit(a, k) == IF Width - k \in a THEN 1 ELSE 0
readings(a, signed) ==
  LET r[k \in 0 .. Width] ==
        IF k = 0 THEN 0
        ELSE IF k = 1 /\ signed THEN - reading_bit(a, k)
        ELSE 2 * r[k - 1] + reading_bit(a, k)
  IN  r
NumberOf(a, signed) == readings(a, signed)[Width]

Better(q, a, b) == IF q.command = "minimize" THEN Before(q, a, b) ELSE Before(q, b, a)

\* The optimum is attained by some world of the query, by the returned model if
\* there is one, and no world has a better value, signed or unsigned.
OptimumIsBest ==
  Reliable /\ result.status = "sat" /\ Optimizing(query) =>
    /\ \E w \in All(query) : TargetOf[w] = result.optimum
    /\ result.model # NoWorld => TargetOf[result.model] = result.optimum
    /\ \A w \in All(query) : ~Better(query, TargetOf[w], result.optimum)

\* The named assertions of a core and the unnamed ones contradict each other.
CoreSuffices ==
  Reliable /\ result.status = "unsat" /\ query.wantCore /\ ~Optimizing(query) =>
    result.core \subseteq NamedIn(query) /\ Satisfying(query, result.core) = {}

\* If no call gave up, no member of the core can be removed.
CoreMinimal ==
  Reliable /\ ~unsure /\ result.status = "unsat" =>
    \A i \in result.core : Satisfying(query, result.core \ {i}) # {}

\* The documented claim: only assertions needed to preserve UNSAT are kept.
CoreOnlyNeeded ==
  Reliable /\ result.status = "unsat" =>
    \A i \in result.core : Satisfying(query, result.core \ {i}) # {}

\* Every solve returns: the hunt and the deletion loop end.
Returns == <>(pc = "done")

-----------------------------------------------------------------------------
\* The inductive invariant.

\* The query of the call that is under way, for each caller.
CallInv ==
  /\ pc \in {"start", "done"} => phase = "idle"
  /\ pc \in {"once", "base", "model"} => phase # "idle"
  /\ pc \in {"once", "core"} => ~Optimizing(query)
  /\ pc \in {"base", "bit", "model"} => Optimizing(query)
  /\ pc \in {"once", "base"} => trial = All(query)
  /\ pc = "bit" /\ phase # "idle" => bit >= 0 /\ trial = WithBit(fixed, bit, PreferOne(query, bit))
  /\ pc = "model" => trial = fixed /\ query.wantModel /\ bit = -1
  /\ pc = "core" /\ phase # "idle" =>
       candidate \in active \ tried /\ trial = Satisfying(query, active \ {candidate})

\* What a shortcut has answered, and what the call returns.
AnswerInv ==
  /\ phase \in {"hit", "audit"} =>
       /\ mode # "disabled" /\ hit \in {"sat", "unsat"} /\ (hit = "sat" => ~WantModel)
       /\ ShortcutsSound => hit = Truth(trial)
  /\ phase = "audit" => mode = "audit"
  /\ phase = "ret" =>
       /\ Reliable /\ ret.status \in {"sat", "unsat"} => ret.status = Truth(trial)
       /\ ret.status = "simplified" => pc = "once"
       /\ ret.status = "unknown" => unsure
       /\ IF ret.status = "sat" /\ WantModel THEN ret.model \in trial ELSE ret.model = NoWorld

\* Above `bit' the worlds left agree with the optimum, and none is better there.
AgreeAbove(a, b, n) == \A j \in Bits : j > n => (j \in a <=> j \in b)
BetterAbove(q, a, b, n) ==
  \E k \in Bits : /\ k > n /\ (k \in a <=> PreferOne(q, k)) /\ ~(k \in b <=> PreferOne(q, k))
                  /\ AgreeAbove(a, b, k)
HuntInv ==
  /\ pc \in {"start", "base"} => bit = Width - 1 /\ optimum = {}
  /\ pc = "base" => fixed = All(query)
  /\ pc \in {"bit", "model"} /\ Reliable =>
       /\ fixed = {w \in All(query) : AgreeAbove(TargetOf[w], optimum, bit)}
       /\ fixed # {} /\ \A j \in optimum : j > bit
       /\ \A w \in All(query) : ~BetterAbove(query, TargetOf[w], optimum, bit)

\* The active assertions contradict each other, and those tried are needed.
DeletionInv ==
  pc = "core" =>
    /\ query.wantCore /\ active \subseteq NamedIn(query)
    /\ Reliable => Satisfying(query, active) = {}
    /\ Reliable /\ ~unsure => \A i \in tried : Satisfying(query, active \ {i}) # {}

SolverInv ==
  /\ TypeOK /\ (pc # "done" => result = NoResult)
  /\ CallInv /\ AnswerInv /\ HuntInv /\ DeletionInv
  /\ VerdictTrue /\ OptimumIsBest /\ CoreSuffices /\ CoreMinimal
=============================================================================
