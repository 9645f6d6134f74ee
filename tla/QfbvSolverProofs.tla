-------------------------- MODULE QfbvSolverProofs --------------------------
(***************************************************************************)
(* For targets of any width, any queries and any moment of cancellation:   *)
(* verdicts are true, the bit hunt finds the best value, which is the best *)
(* number, and the deletion loop returns contradictory cores.              *)
(***************************************************************************)
EXTENDS QfbvSolver, WellFoundedInduction, TLAPS

Verdicts == VerdictTrue /\ OptimumIsBest /\ CoreSuffices /\ CoreMinimal

LEMMA AllFacts ==
  ASSUME NEW q, NEW S
  PROVE  All(q) \subseteq Worlds /\ Satisfying(q, S) \subseteq Worlds
BY DEF All, Satisfying

\* While there is no result the verdict properties hold.
LEMMA Pending ==
  ASSUME result' = NoResult
  PROVE  Verdicts'
BY DEF Verdicts, VerdictTrue, OptimumIsBest, CoreSuffices, CoreMinimal, NoResult

\* Unnamed assertions and all named ones together are the whole query.
LEMMA AllNamed ==
  ASSUME NEW q
  PROVE  Satisfying(q, NamedIn(q)) = All(q)
BY DEF Satisfying, NamedIn, All

\* Dropping assertions only adds worlds.
LEMMA Monotone ==
  ASSUME NEW q, NEW S, NEW T, S \subseteq T
  PROVE  Satisfying(q, T) \subseteq Satisfying(q, S)
BY DEF Satisfying

\* Returning an answer ends the call; what remains to show is that it is right.
LEMMA FinishKeepsInv ==
  ASSUME SolverInv, NEW a, Finish(a), Verdicts',
         a \in [status : Status \cup {"none", "error"}, model : Worlds \cup {NoWorld},
                core : SUBSET DOMAIN query.assertions, optimum : SUBSET Bits]
  PROVE  SolverInv'
<1>1. /\ pc' = "done" /\ phase' = "idle" /\ result' = a
      /\ UNCHANGED <<query, mode, cancelled, expired, trial, hit, ret, fixed, bit, optimum,
                     active, tried, candidate, unsure>>
  BY DEF Finish, limits, hunt, deletion
<1>2. TypeOK'
  BY <1>1 DEF SolverInv, TypeOK
<1>3. CallInv' /\ AnswerInv' /\ HuntInv' /\ DeletionInv'
  BY <1>1 DEF CallInv, AnswerInv, HuntInv, DeletionInv
<1> QED BY <1>1, <1>2, <1>3 DEF SolverInv, Verdicts

\* Giving up and failing are always right.
LEMMA GiveUpKeepsInv ==
  ASSUME SolverInv, NEW a, a = Unknown \/ a = Failed, Finish(a)
  PROVE  SolverInv'
<1>1. result' = a /\ a.status \in {"unknown", "error"}
  BY DEF Finish, Unknown, Failed, Answer
<1>2. Verdicts'
  BY <1>1 DEF Verdicts, VerdictTrue, OptimumIsBest, CoreSuffices, CoreMinimal
<1>3. a \in [status : Status \cup {"none", "error"}, model : Worlds \cup {NoWorld},
             core : SUBSET DOMAIN query.assertions, optimum : SUBSET Bits]
  BY DEF Unknown, Failed, Answer, Status
<1> QED BY <1>2, <1>3, FinishKeepsInv

\* A call that returns a status the trial has, or UNKNOWN.
LEMMA ReturnKeepsInv ==
  ASSUME SolverInv, NEW st \in Status, Return(st), phase \notin {"idle", "ret"},
         Reliable' /\ st \in {"sat", "unsat"} => st = Truth(trial),
         st = "simplified" => pc = "once"
  PROVE  SolverInv'
<1>1. /\ phase' = "ret" /\ UNCHANGED <<query, mode, cancelled, expired, pc, trial, hit, fixed, bit,
                                       optimum, active, tried, candidate, result>>
      /\ unsure' = (unsure \/ st = "unknown")
  BY DEF Return, limits, hunt, deletion
<1>2. ret'.status = st /\ ret' \in [status : Status, model : Worlds \cup {NoWorld}]
      /\ (IF st = "sat" /\ WantModel THEN ret'.model \in trial ELSE ret'.model = NoWorld)
  BY DEF Return, Status, SolverInv, TypeOK
<1>3. unsure' \in BOOLEAN
  BY <1>1
<1>4. pc # "done" /\ result' = NoResult
  BY <1>1 DEF SolverInv, CallInv
<1>5. TypeOK'
  BY <1>1, <1>2, <1>3 DEF SolverInv, TypeOK
<1>6. WantModel' <=> WantModel
  BY <1>1 DEF WantModel
<1>7. Reliable' => Reliable
  BY <1>1 DEF Reliable
<1>8. CallInv'
  BY <1>1 DEF SolverInv, CallInv
<1>9. AnswerInv'
  BY <1>1, <1>2, <1>6 DEF AnswerInv
<1>10. HuntInv'
  BY <1>1, <1>7 DEF SolverInv, HuntInv
<1>11. DeletionInv'
  BY <1>1, <1>7 DEF SolverInv, DeletionInv
<1>12. Verdicts'
  BY <1>4, Pending
<1> QED BY <1>4, <1>5, <1>8, <1>9, <1>10, <1>11, <1>12 DEF SolverInv, Verdicts

\* A step inside a call.
LEMMA StepKeepsInv ==
  ASSUME SolverInv, phase \notin {"idle", "ret"},
         NEW next \in {"shortcut", "hit", "core", "audit"}, Step(next), unsure' = unsure,
         next \in {"hit", "audit"} =>
           /\ mode # "disabled" /\ hit' \in {"sat", "unsat"} /\ (hit' = "sat" => ~WantModel)
           /\ ShortcutsSound => hit' = Truth(trial),
         next = "audit" => mode = "audit", hit' \in {"sat", "unsat", "unknown"}
  PROVE  SolverInv'
<1>1. /\ phase' = next /\ UNCHANGED <<query, mode, cancelled, expired, pc, trial, ret, fixed, bit,
                                      optimum, active, tried, candidate, result, unsure>>
  BY DEF Step, limits, hunt, deletion
<1>2. pc # "done" /\ result' = NoResult
  BY <1>1 DEF SolverInv, CallInv
<1>3. TypeOK'
  BY <1>1 DEF SolverInv, TypeOK
<1>4. (WantModel' <=> WantModel) /\ (Reliable' <=> Reliable)
  BY <1>1 DEF WantModel, Reliable
<1>5. CallInv'
  BY <1>1 DEF SolverInv, CallInv
<1>6. AnswerInv'
  BY <1>1, <1>4 DEF AnswerInv
<1>7. HuntInv'
  BY <1>1, <1>4 DEF SolverInv, HuntInv
<1>8. DeletionInv'
  BY <1>1, <1>4 DEF SolverInv, DeletionInv
<1>9. Verdicts'
  BY <1>2, Pending
<1> QED BY <1>2, <1>3, <1>5, <1>6, <1>7, <1>8, <1>9 DEF SolverInv, Verdicts

-----------------------------------------------------------------------------
\* The call.

LEMMA EnterKeepsInv ==
  ASSUME SolverInv, Enter
  PROVE  SolverInv'
<1>0. phase \notin {"idle", "ret"} /\ hit \in {"sat", "unsat", "unknown"} /\ {"unknown", "simplified"} \subseteq Status
  BY DEF Enter, SolverInv, TypeOK, Status
<1>1. CASE Return("unknown")
  BY <1>0, <1>1, ReturnKeepsInv
<1>2. CASE Simplifies /\ Return("simplified")
  BY <1>0, <1>2, ReturnKeepsInv DEF Simplifies
<1>3. CASE Step("shortcut") /\ UNCHANGED <<hit, unsure>>
  BY <1>0, <1>3, StepKeepsInv
<1> QED BY <1>1, <1>2, <1>3 DEF Enter

LEMMA ShortcutKeepsInv ==
  ASSUME SolverInv, Shortcut
  PROVE  SolverInv'
<1>0. phase \notin {"idle", "ret"} /\ hit \in {"sat", "unsat", "unknown"}
  BY DEF Shortcut, SolverInv, TypeOK
<1>1. CASE Step("core") /\ UNCHANGED <<hit, unsure>>
  BY <1>0, <1>1, StepKeepsInv
<1>2. ASSUME NEW s \in {"sat", "unsat"}, MayAnswer(s), hit' = s, Step("hit"), UNCHANGED unsure
      PROVE  SolverInv'
  <2>1. mode # "disabled" /\ (s = "sat" => ~WantModel) /\ (ShortcutsSound => s = Truth(trial))
    BY <1>2 DEF MayAnswer
  <2> QED BY <1>0, <1>2, <2>1, StepKeepsInv
<1>3. CASE Finish(Failed)
  BY <1>3, GiveUpKeepsInv
<1> QED BY <1>1, <1>2, <1>3 DEF Shortcut

LEMMA HitKeepsInv ==
  ASSUME SolverInv, Hit
  PROVE  SolverInv'
<1>0. /\ phase \notin {"idle", "ret"} /\ mode # "disabled" /\ hit \in {"sat", "unsat"}
      /\ (hit = "sat" => ~WantModel) /\ (ShortcutsSound => hit = Truth(trial))
      /\ {"unknown", "sat", "unsat"} \subseteq Status
  BY DEF Hit, SolverInv, AnswerInv, Status
<1>1. CASE Return("unknown")
  BY <1>0, <1>1, ReturnKeepsInv
<1>2. CASE mode = "audit" /\ Step("audit") /\ UNCHANGED <<hit, unsure>>
  BY <1>0, <1>2, StepKeepsInv
<1>3. CASE mode # "audit" /\ Return(hit)
  <2>1. Reliable' => ShortcutsSound
    BY <1>0, <1>3 DEF Reliable, Return
  <2> QED BY <1>0, <1>3, <2>1, ReturnKeepsInv
<1> QED BY <1>1, <1>2, <1>3 DEF Hit

LEMMA CoreKeepsInv ==
  ASSUME SolverInv, Core
  PROVE  SolverInv'
<1>0. phase \notin {"idle", "ret"}
  BY DEF Core
<1>1. ASSUME NEW c \in CoreAnswers, Return(c)
      PROVE  SolverInv'
  <2>1. c \in Status /\ c # "simplified" /\ (c \in {"sat", "unsat"} => c = Truth(trial))
    BY <1>1 DEF CoreAnswers, Status, Truth
  <2> QED BY <1>0, <1>1, <2>1, ReturnKeepsInv
<1>2. CASE Finish(Failed)
  BY <1>2, GiveUpKeepsInv
<1> QED BY <1>1, <1>2 DEF Core

LEMMA AuditKeepsInv ==
  ASSUME SolverInv, Audit
  PROVE  SolverInv'
<1>0. /\ phase \notin {"idle", "ret"} /\ mode = "audit" /\ hit \in {"sat", "unsat"}
      /\ (hit = "sat" => ~WantModel) /\ (ShortcutsSound => hit = Truth(trial))
      /\ pc # "done" /\ result = NoResult
  BY DEF Audit, SolverInv, AnswerInv, CallInv
<1>1. ASSUME NEW c \in CoreAnswers \ {"unknown"}, Return(IF c = hit THEN hit ELSE "unknown")
      PROVE  SolverInv'
  <2> DEFINE st == IF c = hit THEN hit ELSE "unknown"
  <2>1. c = Truth(trial)
    BY <1>1 DEF CoreAnswers
  <2>2. st \in Status /\ st # "simplified" /\ (st \in {"sat", "unsat"} => st = Truth(trial))
    BY <1>0, <2>1 DEF Status
  <2>3. Return(st)
    BY <1>1
  <2> HIDE DEF st
  <2> QED BY <1>0, <2>2, <2>3, ReturnKeepsInv
<1>2. CASE AuditedHit
  <2>1. /\ phase' = "ret" /\ ret' = [status |-> hit, model |-> NoWorld] /\ unsure' = TRUE
        /\ UNCHANGED <<query, mode, cancelled, expired, pc, trial, hit, fixed, bit, optimum,
                       active, tried, candidate, result>>
    BY <1>2 DEF AuditedHit, limits, hunt, deletion
  <2>2. Reliable' => ShortcutsSound
    BY <1>0, <2>1 DEF Reliable
  <2>3. ShortcutsSound => Reliable
    BY DEF Reliable
  <2>4. TypeOK'
    BY <1>0, <2>1 DEF SolverInv, TypeOK, Status
  <2>5. CallInv'
    BY <1>0, <2>1 DEF SolverInv, CallInv
  <2>6. WantModel' <=> WantModel
    BY <2>1 DEF WantModel
  <2>7. AnswerInv'
    BY <1>0, <2>1, <2>2, <2>6 DEF AnswerInv
  <2>8. HuntInv'
    BY <2>1, <2>2, <2>3 DEF SolverInv, HuntInv
  <2>9. DeletionInv'
    BY <2>1, <2>2, <2>3 DEF SolverInv, DeletionInv
  <2>10. Verdicts'
    BY <1>0, <2>1, Pending
  <2> QED BY <1>0, <2>1, <2>4, <2>5, <2>7, <2>8, <2>9, <2>10 DEF SolverInv, Verdicts
<1>3. CASE Finish(Failed)
  BY <1>3, GiveUpKeepsInv
<1> QED BY <1>1, <1>2, <1>3 DEF Audit

-----------------------------------------------------------------------------
\* solve and the deletion loop.

LEMMA StartKeepsInv ==
  ASSUME SolverInv, Start
  PROVE  SolverInv'
<1>1. CASE Finish(Unknown)
  BY <1>1, GiveUpKeepsInv
<1>2. CASE /\ ~Optimizing(query) /\ Call("once", All(query))
           /\ UNCHANGED <<query, mode, limits, hit, ret, hunt, deletion, result, unsure>>
  <2>1. /\ pc' = "once" /\ phase' = "enter" /\ trial' = All(query) /\ ~Optimizing(query) /\ pc = "start"
        /\ UNCHANGED <<query, mode, cancelled, expired, hit, ret, fixed, bit, optimum,
                       active, tried, candidate, result, unsure>>
    BY <1>2 DEF Call, limits, hunt, deletion, Start
  <2>2. TypeOK'
    BY <2>1, AllFacts DEF SolverInv, TypeOK
  <2>3. CallInv' /\ AnswerInv' /\ HuntInv' /\ DeletionInv'
    BY <2>1 DEF SolverInv, CallInv, AnswerInv, HuntInv, DeletionInv
  <2>4. result' = NoResult /\ Verdicts'
    BY <2>1, Pending DEF SolverInv
  <2> QED BY <2>2, <2>3, <2>4 DEF SolverInv, Verdicts
<1> QED BY <1>1, <1>2 DEF Start

LEMMA OnceKeepsInv ==
  ASSUME SolverInv, Once
  PROVE  SolverInv'
<1>0. /\ pc = "once" /\ phase = "ret" /\ trial = All(query) /\ ~Optimizing(query) /\ result = NoResult
      /\ query \in Query /\ ret \in [status : Status, model : Worlds \cup {NoWorld}]
  BY DEF Once, SolverInv, CallInv, TypeOK
<1>1. CASE /\ ret.status = "unsat" /\ query.wantCore
           /\ pc' = "core" /\ phase' = "idle" /\ active' = NamedIn(query) /\ tried' = {}
           /\ UNCHANGED <<query, mode, limits, trial, hit, ret, hunt, candidate, result, unsure>>
  <2>1. /\ pc' = "core" /\ phase' = "idle" /\ active' = NamedIn(query) /\ tried' = {}
        /\ UNCHANGED <<query, mode, cancelled, expired, trial, hit, ret, fixed, bit, optimum,
                       candidate, result, unsure>>
    BY <1>1 DEF limits, hunt
  <2>2. NamedIn(query) \subseteq DOMAIN query.assertions
    BY DEF NamedIn
  <2>3. TypeOK'
    BY <2>1, <2>2 DEF SolverInv, TypeOK
  <2>4. CallInv' /\ AnswerInv' /\ HuntInv'
    BY <1>0, <2>1 DEF CallInv, AnswerInv, HuntInv
  <2>5. Reliable' <=> Reliable
    BY <2>1 DEF Reliable
  <2>6. Reliable => All(query) = {}
    BY <1>0, <1>1 DEF SolverInv, AnswerInv, Truth
  <2>7. DeletionInv'
    BY <1>1, <2>1, <2>5, <2>6, AllNamed DEF DeletionInv
  <2>8. result' = NoResult /\ Verdicts'
    BY <1>0, <2>1, Pending
  <2> QED BY <2>1, <2>3, <2>4, <2>7, <2>8 DEF SolverInv, Verdicts
<1>2. CASE ~(ret.status = "unsat" /\ query.wantCore) /\ Finish(Answer(ret.status, ret.model, {}, {}))
  <2> DEFINE a == Answer(ret.status, ret.model, {}, {})
  <2>1. a.status = ret.status /\ a.model = ret.model /\ a.core = {} /\ a.optimum = {}
    BY DEF Answer
  <2>2. a \in [status : Status \cup {"none", "error"}, model : Worlds \cup {NoWorld},
               core : SUBSET DOMAIN query.assertions, optimum : SUBSET Bits]
    BY <1>0 DEF Answer
  <2>3. Finish(a)
    BY <1>2
  <2> HIDE DEF a
  <2>4. result' = a /\ UNCHANGED <<query, mode, unsure>>
    BY <2>3 DEF Finish
  <2>5. Reliable' <=> Reliable
    BY <2>4 DEF Reliable
  <2>6. /\ Reliable /\ ret.status \in {"sat", "unsat"} => ret.status = Truth(All(query))
        /\ ret.status = "sat" => IF query.wantModel THEN ret.model \in All(query) ELSE ret.model = NoWorld
    BY <1>0 DEF SolverInv, AnswerInv, WantModel
  <2>7. VerdictTrue'
    BY <2>1, <2>4, <2>5, <2>6 DEF VerdictTrue, Truth
  <2>8. OptimumIsBest' /\ CoreSuffices' /\ CoreMinimal'
    BY <1>0, <1>2, <2>1, <2>4 DEF OptimumIsBest, CoreSuffices, CoreMinimal
  <2> QED BY <2>2, <2>3, <2>7, <2>8, FinishKeepsInv DEF Verdicts
<1> QED BY <1>1, <1>2 DEF Once

LEMMA DropKeepsInv ==
  ASSUME SolverInv, DropCandidate
  PROVE  SolverInv'
<1>1. CASE Finish(Unknown)
  BY <1>1, GiveUpKeepsInv
<1>2. ASSUME NEW c \in active \ tried, candidate' = c, Call("core", Satisfying(query, active \ {c})),
             UNCHANGED <<query, mode, limits, hit, ret, hunt, active, tried, result, unsure>>
      PROVE  SolverInv'
  <2>1. /\ pc = "core" /\ pc' = "core" /\ phase' = "enter" /\ trial' = Satisfying(query, active \ {c})
        /\ UNCHANGED <<query, mode, cancelled, expired, hit, ret, fixed, bit, optimum,
                       active, tried, result, unsure>>
    BY <1>2 DEF Call, limits, hunt, DropCandidate
  <2>2. c \in Nat
    BY <1>2 DEF SolverInv, TypeOK, Query
  <2>3. TypeOK'
    BY <1>2, <2>1, <2>2, AllFacts DEF SolverInv, TypeOK
  <2>4. CallInv' /\ AnswerInv' /\ HuntInv'
    BY <1>2, <2>1 DEF SolverInv, CallInv, AnswerInv, HuntInv
  <2>5. Reliable' <=> Reliable
    BY <2>1 DEF Reliable
  <2>6. DeletionInv'
    BY <2>1, <2>5 DEF SolverInv, DeletionInv
  <2>7. result' = NoResult /\ Verdicts'
    BY <2>1, Pending DEF SolverInv
  <2> QED BY <2>3, <2>4, <2>6, <2>7 DEF SolverInv, Verdicts
<1> QED BY <1>1, <1>2 DEF DropCandidate

LEMMA CandidateKeepsInv ==
  ASSUME SolverInv, CandidateReturned
  PROVE  SolverInv'
<1>1. /\ pc = "core" /\ phase = "ret" /\ phase' = "idle"
      /\ UNCHANGED <<query, mode, cancelled, expired, pc, trial, hit, ret, fixed, bit, optimum,
                     candidate, result, unsure>>
  BY DEF CandidateReturned, limits, hunt
<1>2. candidate \in active \ tried /\ trial = Satisfying(query, active \ {candidate}) /\ tried \subseteq active
  BY <1>1 DEF SolverInv, CallInv, TypeOK
<1>3. \/ ret.status = "unsat" /\ active' = active \ {candidate} /\ tried' = tried
      \/ ret.status # "unsat" /\ tried' = tried \cup {candidate} /\ active' = active
  BY DEF CandidateReturned
<1>4. Reliable' <=> Reliable
  BY <1>1 DEF Reliable
<1>5. TypeOK'
  BY <1>1, <1>2, <1>3 DEF SolverInv, TypeOK
<1>6. CallInv' /\ AnswerInv' /\ HuntInv'
  BY <1>1 DEF SolverInv, CallInv, AnswerInv, HuntInv
<1>7. /\ query.wantCore /\ active \subseteq NamedIn(query)
      /\ Reliable => Satisfying(query, active) = {}
      /\ Reliable /\ ~unsure => \A i \in tried : Satisfying(query, active \ {i}) # {}
  BY <1>1 DEF SolverInv, DeletionInv
<1>8. CASE ret.status = "unsat" /\ active' = active \ {candidate} /\ tried' = tried
  <2>1. Reliable => trial = {}
    BY <1>1, <1>8 DEF SolverInv, AnswerInv, Truth
  <2>2. ASSUME Reliable, ~unsure, NEW i \in tried
        PROVE  Satisfying(query, (active \ {candidate}) \ {i}) # {}
    <3>1. Satisfying(query, active \ {i}) \subseteq Satisfying(query, (active \ {candidate}) \ {i})
      BY Monotone
    <3> QED BY <1>7, <2>2, <3>1
  <2> QED BY <1>1, <1>2, <1>4, <1>5, <1>6, <1>7, <1>8, <2>1, <2>2, Pending DEF SolverInv, DeletionInv, Verdicts
<1>9. CASE ret.status # "unsat" /\ tried' = tried \cup {candidate} /\ active' = active
  <2>1. Reliable /\ ~unsure => trial # {}
    BY <1>1, <1>9 DEF SolverInv, AnswerInv, Truth, TypeOK, Status
  <2> QED BY <1>1, <1>2, <1>4, <1>5, <1>6, <1>7, <1>9, <2>1, Pending DEF SolverInv, DeletionInv, Verdicts
<1> QED BY <1>3, <1>8, <1>9

LEMMA CoreDoneKeepsInv ==
  ASSUME SolverInv, CoreDone
  PROVE  SolverInv'
<1>1. pc = "core" /\ active = tried /\ ~Optimizing(query) /\ Finish(Unsat(active))
  BY DEF CoreDone, SolverInv, CallInv
<1> DEFINE a == Unsat(active)
<1>2. a.status = "unsat" /\ a.core = active
  BY DEF Unsat, Answer
<1>3. a \in [status : Status \cup {"none", "error"}, model : Worlds \cup {NoWorld},
             core : SUBSET DOMAIN query.assertions, optimum : SUBSET Bits]
  BY DEF Unsat, Answer, Status, SolverInv, TypeOK
<1>4. Finish(a)
  BY <1>1
<1> HIDE DEF a
<1>5. result' = a /\ UNCHANGED <<query, mode, unsure>>
  BY <1>4 DEF Finish
<1>6. Reliable' <=> Reliable
  BY <1>5 DEF Reliable
<1>7. /\ active \subseteq NamedIn(query)
      /\ Reliable => Satisfying(query, active) = {}
      /\ Reliable /\ ~unsure => \A i \in active : Satisfying(query, active \ {i}) # {}
  BY <1>1 DEF SolverInv, DeletionInv
<1>8. Reliable => All(query) = {}
  <2>1. All(query) \subseteq Satisfying(query, active)
    BY <1>7, Monotone DEF All, NamedIn
  <2> QED BY <1>7, <2>1
<1>9. VerdictTrue' /\ OptimumIsBest'
  BY <1>1, <1>2, <1>5, <1>6, <1>8 DEF VerdictTrue, OptimumIsBest
<1>10. CoreSuffices' /\ CoreMinimal'
  BY <1>2, <1>5, <1>6, <1>7 DEF CoreSuffices, CoreMinimal
<1> QED BY <1>3, <1>4, <1>9, <1>10, FinishKeepsInv DEF Verdicts

-----------------------------------------------------------------------------
\* The bit hunt.

LEMMA StartOptimizeKeepsInv ==
  ASSUME SolverInv, StartOptimize
  PROVE  SolverInv'
<1>1. CASE Finish(Failed)
  BY <1>1, GiveUpKeepsInv
<1>2. CASE /\ Call("base", All(query)) /\ fixed' = All(query)
           /\ UNCHANGED <<query, mode, limits, hit, ret, bit, optimum, deletion, result, unsure>>
  <2>1. /\ pc' = "base" /\ phase' = "enter" /\ trial' = All(query) /\ fixed' = All(query)
        /\ Optimizing(query) /\ pc = "start"
        /\ UNCHANGED <<query, mode, cancelled, expired, hit, ret, bit, optimum,
                       active, tried, candidate, result, unsure>>
    BY <1>2 DEF Call, limits, deletion, StartOptimize
  <2>2. TypeOK'
    BY <2>1, AllFacts DEF SolverInv, TypeOK
  <2>3. CallInv' /\ AnswerInv' /\ HuntInv' /\ DeletionInv'
    BY <2>1 DEF SolverInv, CallInv, AnswerInv, HuntInv, DeletionInv
  <2>4. result' = NoResult /\ Verdicts'
    BY <2>1, Pending DEF SolverInv
  <2> QED BY <2>2, <2>3, <2>4 DEF SolverInv, Verdicts
<1> QED BY <1>1, <1>2 DEF StartOptimize

LEMMA BaseKeepsInv ==
  ASSUME SolverInv, BaseReturned
  PROVE  SolverInv'
<1>0. /\ pc = "base" /\ phase = "ret" /\ trial = All(query) /\ Optimizing(query) /\ result = NoResult
      /\ fixed = All(query) /\ bit = Width - 1 /\ optimum = {} /\ Width \in Nat \ {0}
      /\ TargetOf \in [Worlds -> SUBSET Bits]
      /\ Reliable /\ ret.status \in {"sat", "unsat"} => ret.status = Truth(trial)
  BY SolverAssumption DEF BaseReturned, SolverInv, CallInv, HuntInv, AnswerInv
<1>1. CASE /\ ret.status = "sat" /\ pc' = "bit" /\ phase' = "idle"
           /\ UNCHANGED <<query, mode, limits, trial, hit, ret, hunt, deletion, result, unsure>>
  <2>1. /\ pc' = "bit" /\ phase' = "idle"
        /\ UNCHANGED <<query, mode, cancelled, expired, trial, hit, ret, fixed, bit, optimum,
                       active, tried, candidate, result, unsure>>
    BY <1>1 DEF limits, hunt, deletion
  <2>2. TypeOK'
    BY <2>1 DEF SolverInv, TypeOK
  <2>3. CallInv' /\ AnswerInv' /\ DeletionInv'
    BY <1>0, <2>1 DEF CallInv, AnswerInv, DeletionInv
  <2>4. Reliable' <=> Reliable
    BY <2>1 DEF Reliable
  <2>5. \A j \in Bits : ~(j > Width - 1)
    BY <1>0 DEF Bits
  <2>6. /\ fixed = {w \in All(query) : AgreeAbove(TargetOf[w], optimum, bit)}
        /\ \A w \in All(query) : ~BetterAbove(query, TargetOf[w], optimum, bit)
    BY <1>0, <2>5 DEF AgreeAbove, BetterAbove
  <2>7. Reliable => fixed # {}
    BY <1>0, <1>1 DEF Truth
  <2>8. HuntInv'
    BY <1>0, <2>1, <2>4, <2>6, <2>7 DEF HuntInv
  <2>9. result' = NoResult /\ Verdicts'
    BY <1>0, <2>1, Pending
  <2> QED BY <2>2, <2>3, <2>8, <2>9 DEF SolverInv, Verdicts
<1>2. CASE ret.status = "unsat" /\ Finish(Unsat({}))
  <2> DEFINE a == Unsat({})
  <2>1. a.status = "unsat" /\ a.core = {}
    BY DEF Unsat, Answer
  <2>2. a \in [status : Status \cup {"none", "error"}, model : Worlds \cup {NoWorld},
               core : SUBSET DOMAIN query.assertions, optimum : SUBSET Bits]
    BY DEF Unsat, Answer, Status
  <2>3. Finish(a)
    BY <1>2
  <2> HIDE DEF a
  <2>4. result' = a /\ UNCHANGED <<query, mode, unsure>>
    BY <2>3 DEF Finish
  <2>5. Reliable' <=> Reliable
    BY <2>4 DEF Reliable
  <2>6. Reliable => All(query) = {}
    BY <1>0, <1>2 DEF Truth
  <2>7. Verdicts'
    BY <1>0, <2>1, <2>4, <2>5, <2>6 DEF Verdicts, VerdictTrue, OptimumIsBest, CoreSuffices, CoreMinimal
  <2> QED BY <2>2, <2>3, <2>7, FinishKeepsInv
<1>3. CASE Finish(Unknown)
  BY <1>3, GiveUpKeepsInv
<1> QED BY <1>1, <1>2, <1>3 DEF BaseReturned

LEMMA TryBitKeepsInv ==
  ASSUME SolverInv, TryBit
  PROVE  SolverInv'
<1>1. /\ pc = "bit" /\ pc' = "bit" /\ phase' = "enter" /\ bit >= 0
      /\ trial' = WithBit(fixed, bit, PreferOne(query, bit))
      /\ UNCHANGED <<query, mode, cancelled, expired, hit, ret, fixed, bit, optimum,
                     active, tried, candidate, result, unsure>>
  BY DEF TryBit, Call, limits, hunt, deletion
<1>2. trial' \subseteq Worlds
  BY <1>1 DEF WithBit, SolverInv, TypeOK
<1>3. TypeOK'
  BY <1>1, <1>2 DEF SolverInv, TypeOK
<1>4. CallInv' /\ AnswerInv' /\ DeletionInv'
  BY <1>1 DEF SolverInv, CallInv, AnswerInv, DeletionInv
<1>5. Reliable' <=> Reliable
  BY <1>1 DEF Reliable
<1>6. HuntInv'
  BY <1>1, <1>5 DEF SolverInv, HuntInv
<1>7. result' = NoResult /\ Verdicts'
  BY <1>1, Pending DEF SolverInv
<1> QED BY <1>3, <1>4, <1>6, <1>7 DEF SolverInv, Verdicts

\* One bit decided: the worlds left are those that agree one bit further, and no
\* world is better there.
LEMMA HuntStep ==
  ASSUME NEW one \in BOOLEAN, NEW new, bit \in Bits,
         Width \in Nat \ {0}, \A j \in optimum : j \in Bits /\ j > bit,
         one => new = optimum \cup {bit}, ~one => new = optimum,
         fixed = {w \in All(query) : AgreeAbove(TargetOf[w], optimum, bit)},
         \A w \in All(query) : ~BetterAbove(query, TargetOf[w], optimum, bit),
         (one <=> PreferOne(query, bit)) \/ WithBit(fixed, bit, PreferOne(query, bit)) = {}
  PROVE  /\ WithBit(fixed, bit, one) = {w \in All(query) : AgreeAbove(TargetOf[w], new, bit - 1)}
         /\ \A w \in All(query) : ~BetterAbove(query, TargetOf[w], new, bit - 1)
         /\ \A j \in new : j \in Bits /\ j > bit - 1
<1>1. bit \in Int /\ \A j \in Bits : j \in Int /\ (j > bit - 1 <=> j > bit \/ j = bit)
  BY DEF Bits
<1>2. (bit \in new <=> one) /\ \A j \in Bits : j > bit => (j \in new <=> j \in optimum)
  BY <1>1
<1>3. ASSUME NEW w \in All(query)
      PROVE  AgreeAbove(TargetOf[w], new, bit - 1) <=> AgreeAbove(TargetOf[w], optimum, bit) /\ (bit \in TargetOf[w] <=> one)
  BY <1>1, <1>2 DEF AgreeAbove
<1>4. WithBit(fixed, bit, one) = {w \in All(query) : AgreeAbove(TargetOf[w], new, bit - 1)}
  BY <1>3 DEF WithBit
<1>5. ASSUME NEW w \in All(query), BetterAbove(query, TargetOf[w], new, bit - 1)
      PROVE  FALSE
  <2>1. PICK k \in Bits : /\ k > bit - 1 /\ (k \in TargetOf[w] <=> PreferOne(query, k)) /\ ~(k \in new <=> PreferOne(query, k))
                          /\ AgreeAbove(TargetOf[w], new, k)
    BY <1>5 DEF BetterAbove
  <2>2. CASE k > bit
    <3>1. AgreeAbove(TargetOf[w], optimum, k)
      BY <1>1, <1>2, <2>1, <2>2 DEF AgreeAbove
    <3>2. k \in new <=> k \in optimum
      BY <1>2, <2>2
    <3>3. BetterAbove(query, TargetOf[w], optimum, bit)
      BY <2>1, <2>2, <3>1, <3>2 DEF BetterAbove
    <3> QED BY <3>3
  <2>3. CASE k = bit
    <3>1. ~(one <=> PreferOne(query, bit))
      BY <1>2, <2>1, <2>3
    <3>2. AgreeAbove(TargetOf[w], optimum, bit)
      BY <1>1, <1>2, <2>1, <2>3 DEF AgreeAbove
    <3>3. w \in WithBit(fixed, bit, PreferOne(query, bit))
      BY <2>1, <2>3, <3>2 DEF WithBit
    <3> QED BY <3>1, <3>3
  <2> QED BY <1>1, <2>1, <2>2, <2>3
<1>6. \A j \in new : j \in Bits /\ j > bit - 1
  BY <1>1
<1> QED BY <1>4, <1>5, <1>6

LEMMA BitKeepsInv ==
  ASSUME SolverInv, BitReturned
  PROVE  SolverInv'
<1> DEFINE p == PreferOne(query, bit)
<1>0. /\ pc = "bit" /\ phase = "ret" /\ bit \in Bits /\ bit >= 0 /\ trial = WithBit(fixed, bit, p)
      /\ Width \in Nat \ {0} /\ result = NoResult /\ Optimizing(query)
      /\ fixed \subseteq Worlds /\ trial \subseteq Worlds /\ optimum \subseteq Bits
      /\ bit - 1 \in -1..(Width - 1) /\ p \in BOOLEAN
  <2>1. /\ pc = "bit" /\ phase = "ret" /\ bit >= 0 /\ trial = WithBit(fixed, bit, p)
        /\ result = NoResult /\ Optimizing(query)
    BY DEF BitReturned, SolverInv, CallInv
  <2>2. /\ Width \in Nat \ {0} /\ bit \in -1..(Width - 1)
        /\ fixed \subseteq Worlds /\ trial \subseteq Worlds /\ optimum \subseteq Bits
    BY SolverAssumption DEF SolverInv, TypeOK
  <2>3. bit \in Bits /\ bit - 1 \in -1..(Width - 1)
    BY <2>1, <2>2 DEF Bits
  <2>4. p \in BOOLEAN
    BY DEF PreferOne
  <2> QED BY <2>1, <2>2, <2>3, <2>4
<1>1. Reliable =>
        /\ fixed = {w \in All(query) : AgreeAbove(TargetOf[w], optimum, bit)}
        /\ fixed # {} /\ \A j \in optimum : j > bit
        /\ \A w \in All(query) : ~BetterAbove(query, TargetOf[w], optimum, bit)
  BY <1>0 DEF SolverInv, HuntInv
<1>2. Reliable /\ ret.status \in {"sat", "unsat"} => ret.status = Truth(trial)
  BY <1>0 DEF SolverInv, AnswerInv
<1> HIDE DEF p
<1>3. ASSUME NEW one \in BOOLEAN, NEW opt, fixed' = WithBit(fixed, bit, one),
             opt = IF one THEN optimum \cup {bit} ELSE optimum, optimum' = opt,
             bit' = bit - 1, phase' = "idle",
             UNCHANGED <<query, mode, limits, pc, trial, hit, ret, deletion, result, unsure>>,
             Reliable => WithBit(fixed, bit, one) # {},
             Reliable => (one <=> p) \/ WithBit(fixed, bit, p) = {}
      PROVE  SolverInv'
  <2>1. UNCHANGED <<query, mode, cancelled, expired, pc, trial, hit, ret, active, tried, candidate, result, unsure>>
    BY <1>3 DEF limits, deletion
  <2>2. fixed' \subseteq Worlds /\ optimum' \subseteq Bits
    BY <1>0, <1>3 DEF WithBit
  <2>3. TypeOK'
    BY <1>0, <1>3, <2>1, <2>2 DEF SolverInv, TypeOK
  <2>4. CallInv' /\ AnswerInv' /\ DeletionInv'
    BY <1>0, <1>3, <2>1 DEF SolverInv, CallInv, AnswerInv, DeletionInv
  <2>5. Reliable' <=> Reliable
    BY <2>1 DEF Reliable
  <2>6. (one => opt = optimum \cup {bit}) /\ (~one => opt = optimum)
    BY <1>3
  <2>7. ASSUME Reliable
        PROVE  /\ fixed' = {w \in All(query) : AgreeAbove(TargetOf[w], opt, bit - 1)}
               /\ fixed' # {} /\ \A j \in opt : j > bit - 1
               /\ \A w \in All(query) : ~BetterAbove(query, TargetOf[w], opt, bit - 1)
    <3>1. \A j \in optimum : j \in Bits /\ j > bit
      BY <1>0, <1>1, <2>7
    <3>2. (one <=> PreferOne(query, bit)) \/ WithBit(fixed, bit, PreferOne(query, bit)) = {}
      BY <1>3, <2>7 DEF p
    <3>3. /\ WithBit(fixed, bit, one) = {w \in All(query) : AgreeAbove(TargetOf[w], opt, bit - 1)}
          /\ \A w \in All(query) : ~BetterAbove(query, TargetOf[w], opt, bit - 1)
          /\ \A j \in opt : j \in Bits /\ j > bit - 1
      BY <1>0, <1>1, <2>6, <2>7, <3>1, <3>2, HuntStep
    <3> QED BY <1>3, <2>7, <3>3
  <2>8. HuntInv'
    BY <1>0, <1>3, <2>1, <2>5, <2>7 DEF HuntInv
  <2>9. result' = NoResult /\ Verdicts'
    BY <1>0, <2>1, Pending
  <2> QED BY <2>3, <2>4, <2>8, <2>9 DEF SolverInv, Verdicts
<1>4. CASE ret.status = "sat" /\ ~(pc' = "done")
  <2>1. /\ fixed' = trial /\ optimum' = (IF p THEN optimum \cup {bit} ELSE optimum)
        /\ bit' = bit - 1 /\ phase' = "idle"
        /\ UNCHANGED <<query, mode, limits, pc, trial, hit, ret, deletion, result, unsure>>
    BY <1>4 DEF BitReturned, Finish, p
  <2>2. Reliable => trial # {}
    BY <1>2, <1>4 DEF Truth
  <2> QED BY <1>0, <1>3, <2>1, <2>2
<1>5. CASE ret.status = "unsat" /\ ~(pc' = "done")
  <2>1. /\ fixed' = WithBit(fixed, bit, ~p) /\ optimum' = (IF ~p THEN optimum \cup {bit} ELSE optimum)
        /\ bit' = bit - 1 /\ phase' = "idle"
        /\ UNCHANGED <<query, mode, limits, pc, trial, hit, ret, deletion, result, unsure>>
    BY <1>5 DEF BitReturned, Finish, p
  <2>2. Reliable => trial = {}
    BY <1>2, <1>5 DEF Truth
  <2>3. \A w \in fixed : w \in WithBit(fixed, bit, p) \/ w \in WithBit(fixed, bit, ~p)
    BY DEF WithBit
  <2>4. Reliable => WithBit(fixed, bit, ~p) # {}
    BY <1>0, <1>1, <2>2, <2>3
  <2>5. (~p) \in BOOLEAN
    OBVIOUS
  <2> QED BY <1>0, <1>3, <2>1, <2>2, <2>4, <2>5
<1>6. CASE Finish(Unknown)
  BY <1>6, GiveUpKeepsInv
<1> QED BY <1>0, <1>4, <1>5, <1>6 DEF BitReturned

\* What the hunt prefers is what the order calls better.
LEMMA BetterIsAbove ==
  ASSUME NEW q, Optimizing(q), NEW a \in SUBSET Bits, NEW b \in SUBSET Bits, Width \in Nat \ {0},
         Better(q, a, b)
  PROVE  BetterAbove(q, a, b, -1)
<1> DEFINE top == Width - 1
<1>1. top \in Bits /\ \A j \in Bits : j \in Nat /\ j > -1
  BY DEF Bits
<1>2. \A s \in SUBSET Bits : \A j \in Bits : j \in Inverted(s) <=> IF j = top THEN j \notin s ELSE j \in s
  BY <1>1 DEF Inverted
<1>3. q.command = "minimize" \/ q.command = "maximize"
  BY DEF Optimizing
<1> HIDE DEF top
<1>4. CASE q.command = "minimize" /\ ~q.signed
  <2>1. PICK k \in Bits : k \in b /\ k \notin a /\ \A j \in Bits : j > k => (j \in a <=> j \in b)
    BY <1>4 DEF Better, Before, Less
  <2> QED BY <1>1, <1>4, <2>1 DEF BetterAbove, AgreeAbove, PreferOne
<1>5. CASE q.command = "maximize" /\ ~q.signed
  <2>1. PICK k \in Bits : k \in a /\ k \notin b /\ \A j \in Bits : j > k => (j \in a <=> j \in b)
    BY <1>5 DEF Better, Before, Less
  <2> QED BY <1>1, <1>5, <2>1 DEF BetterAbove, AgreeAbove, PreferOne
<1>6. CASE q.command = "minimize" /\ q.signed
  <2>1. PICK k \in Bits : /\ k \in Inverted(b) /\ k \notin Inverted(a)
                          /\ \A j \in Bits : j > k => (j \in Inverted(a) <=> j \in Inverted(b))
    BY <1>6 DEF Better, Before, Less
  <2>2. \A j \in Bits : j > k => (j \in a <=> j \in b)
    BY <1>2, <2>1
  <2>3. IF k = top THEN k \in a /\ k \notin b ELSE k \in b /\ k \notin a
    BY <1>2, <2>1
  <2> QED BY <1>1, <1>6, <2>2, <2>3 DEF BetterAbove, AgreeAbove, PreferOne, top
<1>7. CASE q.command = "maximize" /\ q.signed
  <2>1. PICK k \in Bits : /\ k \in Inverted(a) /\ k \notin Inverted(b)
                          /\ \A j \in Bits : j > k => (j \in Inverted(a) <=> j \in Inverted(b))
    BY <1>7 DEF Better, Before, Less
  <2>2. \A j \in Bits : j > k => (j \in a <=> j \in b)
    BY <1>2, <2>1
  <2>3. IF k = top THEN k \in b /\ k \notin a ELSE k \in a /\ k \notin b
    BY <1>2, <2>1
  <2> QED BY <1>1, <1>7, <2>2, <2>3 DEF BetterAbove, AgreeAbove, PreferOne, top
<1> QED BY <1>3, <1>4, <1>5, <1>6, <1>7

\* The end of the hunt: every world left has exactly the optimum.
LEMMA HuntEnds ==
  ASSUME SolverInv, pc \in {"bit", "model"}, bit = -1, Reliable
  PROVE  /\ fixed # {} /\ fixed \subseteq All(query)
         /\ \A w \in fixed : TargetOf[w] = optimum
         /\ \A w \in All(query) : ~Better(query, TargetOf[w], optimum)
<1>1. /\ fixed = {w \in All(query) : AgreeAbove(TargetOf[w], optimum, -1)} /\ fixed # {}
      /\ \A w \in All(query) : ~BetterAbove(query, TargetOf[w], optimum, -1)
      /\ optimum \subseteq Bits /\ Optimizing(query)
  BY DEF SolverInv, HuntInv, TypeOK, CallInv
<1>2. \A w \in All(query) : TargetOf[w] \in SUBSET Bits
  BY AllFacts, SolverAssumption
<1>3. \A j \in Bits : j > -1
  BY SolverAssumption DEF Bits
<1>4. \A w \in fixed : TargetOf[w] = optimum
  BY <1>1, <1>2, <1>3 DEF AgreeAbove
<1>5. \A w \in All(query) : ~Better(query, TargetOf[w], optimum)
  BY <1>1, <1>2, SolverAssumption, BetterIsAbove
<1> QED BY <1>1, <1>4, <1>5

\* Answering with the optimum.
LEMMA OptimumKeepsInv ==
  ASSUME SolverInv, pc \in {"bit", "model"}, bit = -1, NEW m \in Worlds \cup {NoWorld},
         IF query.wantModel THEN m \in fixed ELSE m = NoWorld,
         Finish(Answer("sat", m, {}, optimum))
  PROVE  SolverInv'
<1> DEFINE a == Answer("sat", m, {}, optimum)
<1>1. a.status = "sat" /\ a.model = m /\ a.core = {} /\ a.optimum = optimum
  BY DEF Answer
<1>2. a \in [status : Status \cup {"none", "error"}, model : Worlds \cup {NoWorld},
             core : SUBSET DOMAIN query.assertions, optimum : SUBSET Bits]
  BY DEF Answer, Status, SolverInv, TypeOK
<1>3. Finish(a)
  OBVIOUS
<1> HIDE DEF a
<1>4. result' = a /\ UNCHANGED <<query, mode, unsure>>
  BY <1>3 DEF Finish
<1>5. Reliable' <=> Reliable
  BY <1>4 DEF Reliable
<1>6. Reliable =>
        /\ fixed # {} /\ fixed \subseteq All(query)
        /\ \A w \in fixed : TargetOf[w] = optimum
        /\ \A w \in All(query) : ~Better(query, TargetOf[w], optimum)
  BY HuntEnds
<1>7. VerdictTrue'
  BY <1>1, <1>4, <1>5, <1>6 DEF VerdictTrue
<1>8. OptimumIsBest'
  BY <1>1, <1>4, <1>5, <1>6 DEF OptimumIsBest
<1>9. CoreSuffices' /\ CoreMinimal'
  BY <1>1, <1>4 DEF CoreSuffices, CoreMinimal
<1> QED BY <1>2, <1>3, <1>7, <1>8, <1>9, FinishKeepsInv DEF Verdicts

LEMMA BitsDoneKeepsInv ==
  ASSUME SolverInv, BitsDone
  PROVE  SolverInv'
<1>0. pc = "bit" /\ phase = "idle" /\ bit = -1 /\ Optimizing(query) /\ result = NoResult
  BY DEF BitsDone, SolverInv, TypeOK, CallInv
<1>1. CASE /\ query.wantModel /\ Call("model", fixed)
           /\ UNCHANGED <<query, mode, limits, hit, ret, hunt, deletion, result, unsure>>
  <2>1. /\ pc' = "model" /\ phase' = "enter" /\ trial' = fixed
        /\ UNCHANGED <<query, mode, cancelled, expired, hit, ret, fixed, bit, optimum,
                       active, tried, candidate, result, unsure>>
    BY <1>1 DEF Call, limits, hunt, deletion
  <2>2. TypeOK'
    BY <2>1 DEF SolverInv, TypeOK
  <2>3. CallInv' /\ AnswerInv' /\ DeletionInv'
    BY <1>0, <1>1, <2>1 DEF CallInv, AnswerInv, DeletionInv
  <2>4. Reliable' <=> Reliable
    BY <2>1 DEF Reliable
  <2>5. HuntInv'
    BY <1>0, <2>1, <2>4 DEF SolverInv, HuntInv
  <2>6. result' = NoResult /\ Verdicts'
    BY <1>0, <2>1, Pending
  <2> QED BY <2>2, <2>3, <2>5, <2>6 DEF SolverInv, Verdicts
<1>2. CASE ~query.wantModel /\ Finish(Answer("sat", NoWorld, {}, optimum))
  BY <1>0, <1>2, OptimumKeepsInv
<1> QED BY <1>1, <1>2 DEF BitsDone

LEMMA ModelKeepsInv ==
  ASSUME SolverInv, ModelReturned
  PROVE  SolverInv'
<1>0. /\ pc = "model" /\ phase = "ret" /\ bit = -1 /\ query.wantModel /\ trial = fixed
      /\ ret \in [status : Status, model : Worlds \cup {NoWorld}]
  BY DEF ModelReturned, SolverInv, TypeOK, CallInv
<1>1. CASE ret.status = "sat" /\ Finish(Answer("sat", ret.model, {}, optimum))
  <2>1. ret.model \in fixed
    BY <1>0, <1>1 DEF SolverInv, AnswerInv, WantModel
  <2> QED BY <1>0, <1>1, <2>1, OptimumKeepsInv
<1>2. CASE Finish(Unknown)
  BY <1>2, GiveUpKeepsInv
<1> QED BY <1>1, <1>2 DEF ModelReturned

-----------------------------------------------------------------------------
LEMMA SolverInvInit == Init => SolverInv
<1> SUFFICES ASSUME Init PROVE SolverInv
  OBVIOUS
<1>1. TypeOK
  <2>1. query \in Query /\ mode \in ShortcutMode /\ Width - 1 \in -1..(Width - 1)
    BY SolverAssumption DEF Init
  <2>2. result \in [status : Status \cup {"none", "error"}, model : Worlds \cup {NoWorld},
                    core : SUBSET DOMAIN query.assertions, optimum : SUBSET Bits]
    BY DEF Init, NoResult
  <2>3. ret \in [status : Status, model : Worlds \cup {NoWorld}]
    BY DEF Init, Status
  <2> QED BY <2>1, <2>2, <2>3 DEF Init, TypeOK
<1>2. CallInv /\ AnswerInv /\ HuntInv /\ DeletionInv
  BY DEF Init, CallInv, AnswerInv, HuntInv, DeletionInv
<1>3. VerdictTrue /\ OptimumIsBest /\ CoreSuffices /\ CoreMinimal
  BY DEF Init, NoResult, VerdictTrue, OptimumIsBest, CoreSuffices, CoreMinimal
<1> QED BY <1>1, <1>2, <1>3 DEF SolverInv, Init

\* The limits and a stutter change nothing the invariant speaks of.
LEMMA LimitsKeepInv ==
  ASSUME SolverInv, cancelled' \in BOOLEAN, expired' \in BOOLEAN,
         UNCHANGED <<query, mode, pc, phase, trial, hit, ret, fixed, bit, optimum,
                     active, tried, candidate, result, unsure>>
  PROVE  SolverInv'
<1>1. TypeOK'
  BY DEF SolverInv, TypeOK
<1>2. (Reliable' <=> Reliable) /\ (WantModel' <=> WantModel)
  BY DEF Reliable, WantModel
<1>3. CallInv' /\ (pc' # "done" => result' = NoResult)
  BY DEF SolverInv, CallInv
<1>4. AnswerInv'
  BY <1>2 DEF SolverInv, AnswerInv
<1>5. HuntInv' /\ DeletionInv'
  BY <1>2 DEF SolverInv, HuntInv, DeletionInv
<1>6. VerdictTrue' /\ OptimumIsBest' /\ CoreSuffices' /\ CoreMinimal'
  BY <1>2 DEF SolverInv, VerdictTrue, OptimumIsBest, CoreSuffices, CoreMinimal
<1> QED BY <1>1, <1>3, <1>4, <1>5, <1>6 DEF SolverInv

LEMMA SolverInvStep == SolverInv /\ [Next]_vars => SolverInv'
<1> SUFFICES ASSUME SolverInv, [Next]_vars PROVE SolverInv'
  OBVIOUS
<1>0. cancelled \in BOOLEAN /\ expired \in BOOLEAN
  BY DEF SolverInv, TypeOK
<1>1. CASE Cancel
  BY <1>0, <1>1, LimitsKeepInv DEF Cancel, hunt, deletion
<1>2. CASE Expire
  BY <1>0, <1>2, LimitsKeepInv DEF Expire, hunt, deletion
<1>3. CASE Done \/ UNCHANGED vars
  BY <1>0, <1>3, LimitsKeepInv DEF Done, vars, limits, hunt, deletion
<1>4. CASE Solving
  BY <1>4, StartKeepsInv, StartOptimizeKeepsInv, EnterKeepsInv, ShortcutKeepsInv, HitKeepsInv,
     CoreKeepsInv, AuditKeepsInv, OnceKeepsInv, DropKeepsInv, CandidateKeepsInv, CoreDoneKeepsInv,
     BaseKeepsInv, TryBitKeepsInv, BitKeepsInv, BitsDoneKeepsInv, ModelKeepsInv DEF Solving
<1> QED BY <1>1, <1>2, <1>3, <1>4 DEF Next

-----------------------------------------------------------------------------
\* The inductive invariant holds in every state.
THEOREM SolverSafe == Spec => []SolverInv
BY SolverInvInit, SolverInvStep, PTL DEF Spec

\* Type correctness of Solver::solve.
THEOREM SolverTypeCorrect == Spec => []TypeOK
<1>1. SolverInv => TypeOK
  BY DEF SolverInv
<1> QED BY <1>1, SolverSafe, PTL

\* solve never returns a wrong verdict or a model of something else when its
\* shortcuts are off, sound, or audited by a core path that did not give up.
THEOREM VerdictsAreTrue == Spec => []VerdictTrue
<1>1. SolverInv => VerdictTrue
  BY DEF SolverInv
<1> QED BY <1>1, SolverSafe, PTL

\* optimize returns the best value of the target, for every width and both
\* orders, however the budget runs.
THEOREM HuntIsOptimal == Spec => []OptimumIsBest
<1>1. SolverInv => OptimumIsBest
  BY DEF SolverInv
<1> QED BY <1>1, SolverSafe, PTL

\* extract_named_core returns a contradictory set of named assertions.
THEOREM CoresSuffice == Spec => []CoreSuffices
<1>1. SolverInv => CoreSuffices
  BY DEF SolverInv
<1> QED BY <1>1, SolverSafe, PTL

\* extract_named_core returns a minimal set when no trial gave up.
THEOREM CoresAreMinimal == Spec => []CoreMinimal
<1>1. SolverInv => CoreMinimal
  BY DEF SolverInv
<1> QED BY <1>1, SolverSafe, PTL

-----------------------------------------------------------------------------
(* The order by bits is the order of numbers.                              *)

\* A set of numbers that has a member has a least one.
LEMMA LeastNumber ==
  ASSUME NEW T, T \subseteq Nat, NEW m \in T
  PROVE  \E n \in T : \A k \in T : n <= k
<1>1. PICK n \in T : \A k \in T : <<k, n>> \notin OpToRel(<, Nat)
  BY NatLessThanWellFounded, WFMin
<1>2. \A k \in T : ~ (k < n)
  BY <1>1 DEF OpToRel
<1> QED BY <1>2

\* What holds of 0 and, with a number below count, of the next one, holds of count.
LEMMA Climb ==
  ASSUME NEW count \in Nat, NEW T, T \subseteq Nat, 0 \in T, \A m \in 1 .. count : m - 1 \in T => m \in T
  PROVE  count \in T
<1> DEFINE missing == {k \in 0 .. count : k \notin T}
<1>1. ASSUME NEW s \in missing
      PROVE  FALSE
  <2>1. PICK m \in missing : \A k \in missing : m <= k
    <3>1. missing \subseteq Nat
      OBVIOUS
    <3> HIDE DEF missing
    <3> QED BY <1>1, <3>1, LeastNumber
  <2>2. m \in 1 .. count /\ m - 1 \in 0 .. count /\ ~ (m <= m - 1)
    BY <2>1
  <2> QED BY <2>1, <2>2
<1> QED BY <1>1

\* The reading satisfies its recursion.
LEMMA ReadingsAre ==
  ASSUME NEW a, NEW signed
  PROVE  readings(a, signed) =
           [k \in 0 .. Width |-> IF k = 0 THEN 0
                                 ELSE IF k = 1 /\ signed THEN - reading_bit(a, k)
                                 ELSE 2 * readings(a, signed)[k - 1] + reading_bit(a, k)]
<1> DEFINE Solves(f, m) == f = [k \in 0 .. m |-> IF k = 0 THEN 0
                                                 ELSE IF k = 1 /\ signed THEN - reading_bit(a, k)
                                                 ELSE 2 * f[k - 1] + reading_bit(a, k)]
           T == {m \in 0 .. Width : \E f : Solves(f, m)}
<1>0. Width \in Nat
  BY SolverAssumption
<1>1. \E f : Solves(f, 0)
  <2>1. Solves([k \in 0 .. 0 |-> 0], 0)
    OBVIOUS
  <2> HIDE DEF Solves
  <2> QED BY <2>1
<1>2. ASSUME NEW m \in 1 .. Width, NEW f, Solves(f, m - 1)
      PROVE  \E g : Solves(g, m)
  <2> DEFINE g == [k \in 0 .. m |-> IF k = m THEN IF k = 1 /\ signed THEN - reading_bit(a, k)
                                                  ELSE 2 * f[k - 1] + reading_bit(a, k)
                                    ELSE f[k]]
  <2>1. ASSUME NEW k \in 0 .. m
        PROVE  g[k] = IF k = 0 THEN 0
                      ELSE IF k = 1 /\ signed THEN - reading_bit(a, k)
                      ELSE 2 * g[k - 1] + reading_bit(a, k)
    BY <1>0, <1>2
  <2>2. Solves(g, m)
    BY <2>1
  <2> HIDE DEF Solves
  <2> QED BY <2>2
<1> HIDE DEF Solves
<1>3. T \subseteq Nat /\ 0 \in T /\ \A m \in 1 .. Width : m - 1 \in T => m \in T
  BY <1>0, <1>1, <1>2
<1> HIDE DEF T
<1>4. Width \in T
  BY <1>0, <1>3, Climb
<1>5. \E f : Solves(f, Width)
  BY <1>4 DEF T
<1> QED BY <1>5, Zenon DEF readings, Solves

\* One step of it.
LEMMA ReadingStep ==
  ASSUME NEW a, NEW signed \in BOOLEAN, NEW k \in 1 .. Width
  PROVE  /\ readings(a, signed)[0] = 0
         /\ readings(a, signed)[k] = IF k = 1 /\ signed THEN - reading_bit(a, k)
                                     ELSE 2 * readings(a, signed)[k - 1] + reading_bit(a, k)
         /\ reading_bit(a, k) \in {0, 1} /\ (reading_bit(a, k) = 1 <=> Width - k \in a)
<1>0. Width \in Nat
  BY SolverAssumption
<1>1. reading_bit(a, k) \in {0, 1} /\ (reading_bit(a, k) = 1 <=> Width - k \in a)
  BY DEF reading_bit
<1>2. readings(a, signed) = [i \in 0 .. Width |-> IF i = 0 THEN 0
                                 ELSE IF i = 1 /\ signed THEN - reading_bit(a, i)
                                 ELSE 2 * readings(a, signed)[i - 1] + reading_bit(a, i)]
  BY ReadingsAre
<1> QED BY <1>0, <1>1, <1>2

\* a is less than b in its bits from n up.
LessAbove(a, b, n) ==
  \E k \in Bits : /\ k >= n /\ k \in b /\ k \notin a
                  /\ \A j \in Bits : j > k => (j \in a <=> j \in b)
SameAbove(a, b, n) == \A j \in Bits : j >= n => (j \in a <=> j \in b)

\* One bit more decides if those above it agree.
LEMMA NextBit ==
  ASSUME NEW a, NEW b, NEW n \in Bits
  PROVE  /\ LessAbove(a, b, n) <=> LessAbove(a, b, n + 1) \/ (SameAbove(a, b, n + 1) /\ n \notin a /\ n \in b)
         /\ SameAbove(a, b, n) <=> SameAbove(a, b, n + 1) /\ (n \in a <=> n \in b)
<1>0. Width \in Nat /\ n \in Nat /\ \A k \in Bits : k \in Nat /\ (k >= n <=> k >= n + 1 \/ k = n)
                    /\ (k > n <=> k >= n + 1)
  BY SolverAssumption DEF Bits
<1>1. ASSUME LessAbove(a, b, n)
      PROVE  LessAbove(a, b, n + 1) \/ (SameAbove(a, b, n + 1) /\ n \notin a /\ n \in b)
  <2>1. PICK k \in Bits : /\ k >= n /\ k \in b /\ k \notin a
                          /\ \A j \in Bits : j > k => (j \in a <=> j \in b)
    BY <1>1 DEF LessAbove
  <2>2. CASE k = n
    BY <1>0, <2>1, <2>2 DEF SameAbove
  <2>3. CASE k >= n + 1
    BY <2>1, <2>3 DEF LessAbove
  <2> QED BY <1>0, <2>1, <2>2, <2>3
<1>2. ASSUME LessAbove(a, b, n + 1)
      PROVE  LessAbove(a, b, n)
  BY <1>0, <1>2 DEF LessAbove
<1>3. ASSUME SameAbove(a, b, n + 1), n \notin a, n \in b
      PROVE  LessAbove(a, b, n)
  <2>1. n >= n /\ \A j \in Bits : j > n => (j \in a <=> j \in b)
    BY <1>0, <1>3 DEF SameAbove
  <2> QED BY <1>3, <2>1 DEF LessAbove
<1>4. SameAbove(a, b, n) <=> SameAbove(a, b, n + 1) /\ (n \in a <=> n \in b)
  BY <1>0 DEF SameAbove
<1> QED BY <1>1, <1>2, <1>3, <1>4

\* The top k bits order two vectors as the numbers they read.
LEMMA ReadingsOrder ==
  ASSUME NEW a, NEW b
  PROVE  /\ NumberOf(a, FALSE) \in Int /\ NumberOf(b, FALSE) \in Int
         /\ Less(a, b) <=> NumberOf(a, FALSE) < NumberOf(b, FALSE)
         /\ (\A j \in Bits : j \in a <=> j \in b) <=> NumberOf(a, FALSE) = NumberOf(b, FALSE)
<1> DEFINE x == readings(a, FALSE)
           y == readings(b, FALSE)
           Kept(k) == /\ x[k] \in Int /\ y[k] \in Int
                      /\ LessAbove(a, b, Width - k) <=> x[k] < y[k]
                      /\ SameAbove(a, b, Width - k) <=> x[k] = y[k]
           T == {k \in 0 .. Width : Kept(k)}
<1>0. Width \in Nat /\ Width > 0 /\ 1 \in 1 .. Width
  BY SolverAssumption
<1>1. Kept(0)
  <2>1. x[0] = 0 /\ y[0] = 0
    BY <1>0, ReadingStep
  <2>2. ~ LessAbove(a, b, Width - 0) /\ SameAbove(a, b, Width - 0)
    BY <1>0 DEF LessAbove, SameAbove, Bits
  <2> HIDE DEF x, y
  <2>3. x[0] \in Int /\ y[0] \in Int /\ ~ (x[0] < y[0]) /\ x[0] = y[0]
    BY <2>1
  <2> QED BY <2>2, <2>3
<1>2. ASSUME NEW k \in 1 .. Width, Kept(k - 1)
      PROVE  Kept(k)
  <2> DEFINE n == Width - k
             p == reading_bit(a, k)
             q == reading_bit(b, k)
  <2>1. n \in Bits /\ Width - (k - 1) = n + 1 /\ Width - k = n
    BY <1>0 DEF Bits
  <2>2. x[k] = 2 * x[k - 1] + p /\ y[k] = 2 * y[k - 1] + q /\ p \in {0, 1} /\ q \in {0, 1}
        /\ (p = 1 <=> n \in a) /\ (q = 1 <=> n \in b)
    BY ReadingStep
  <2>3. x[k - 1] \in Int /\ y[k - 1] \in Int
        /\ (LessAbove(a, b, n + 1) <=> x[k - 1] < y[k - 1]) /\ (SameAbove(a, b, n + 1) <=> x[k - 1] = y[k - 1])
    BY <1>2, <2>1
  <2> HIDE DEF n, p, q, x, y
  <2>4. /\ LessAbove(a, b, n) <=> x[k - 1] < y[k - 1] \/ (x[k - 1] = y[k - 1] /\ p = 0 /\ q = 1)
        /\ SameAbove(a, b, n) <=> x[k - 1] = y[k - 1] /\ p = q
    BY <2>1, <2>2, <2>3, NextBit
  <2>5. x[k] \in Int /\ y[k] \in Int /\ (LessAbove(a, b, n) <=> x[k] < y[k]) /\ (SameAbove(a, b, n) <=> x[k] = y[k])
    <3> HIDE DEF Kept
    <3> QED BY <2>2, <2>3, <2>4
  <2> QED BY <2>1, <2>5
<1>3. Kept(Width)
  <2>1. T \subseteq Nat /\ 0 \in T /\ \A m \in 1 .. Width : m - 1 \in T => m \in T
    <3> HIDE DEF Kept
    <3> QED BY <1>0, <1>1, <1>2
  <2>2. Width \in T
    <3> HIDE DEF T
    <3> QED BY <1>0, <2>1, Climb
  <2> QED BY <2>2
<1>4. Width - Width = 0 /\ \A j \in Bits : j >= 0
  BY <1>0 DEF Bits
<1>5. (LessAbove(a, b, 0) <=> Less(a, b)) /\ (SameAbove(a, b, 0) <=> \A j \in Bits : j \in a <=> j \in b)
  BY <1>4 DEF LessAbove, SameAbove, Less
<1> QED BY <1>3, <1>4, <1>5 DEF NumberOf

\* With the sign bit inverted, two vectors are as far apart as their signed numbers.
LEMMA SignedReadings ==
  ASSUME NEW a, NEW b
  PROVE  /\ NumberOf(a, TRUE) \in Int /\ NumberOf(b, TRUE) \in Int
         /\ NumberOf(Inverted(a), FALSE) \in Int /\ NumberOf(Inverted(b), FALSE) \in Int
         /\ NumberOf(a, TRUE) - NumberOf(b, TRUE) = NumberOf(Inverted(a), FALSE) - NumberOf(Inverted(b), FALSE)
<1> DEFINE x == readings(a, TRUE)
           y == readings(b, TRUE)
           u == readings(Inverted(a), FALSE)
           v == readings(Inverted(b), FALSE)
           Kept(k) == /\ x[k] \in Int /\ y[k] \in Int /\ u[k] \in Int /\ v[k] \in Int
                      /\ x[k] - y[k] = u[k] - v[k]
           T == {k \in 0 .. Width : Kept(k)}
<1>0. Width \in Nat /\ Width > 0 /\ 1 \in 1 .. Width
  BY SolverAssumption
<1>1. x[0] = 0 /\ y[0] = 0 /\ u[0] = 0 /\ v[0] = 0
  BY <1>0, ReadingStep
<1>2. ASSUME NEW k \in 1 .. Width, Kept(k - 1)
      PROVE  Kept(k)
  <2> DEFINE p == reading_bit(a, k)
             q == reading_bit(b, k)
             pp == reading_bit(Inverted(a), k)
             qq == reading_bit(Inverted(b), k)
  <2>1. /\ p \in {0, 1} /\ q \in {0, 1} /\ pp \in {0, 1} /\ qq \in {0, 1}
        /\ u[k] = 2 * u[k - 1] + pp /\ v[k] = 2 * v[k - 1] + qq
        /\ x[k] = IF k = 1 THEN - p ELSE 2 * x[k - 1] + p
        /\ y[k] = IF k = 1 THEN - q ELSE 2 * y[k - 1] + q
    BY ReadingStep
  <2>2. IF k = 1 THEN pp = 1 - p /\ qq = 1 - q ELSE pp = p /\ qq = q
    BY <1>0 DEF reading_bit, Inverted
  <2>3. x[k - 1] \in Int /\ y[k - 1] \in Int /\ u[k - 1] \in Int /\ v[k - 1] \in Int
        /\ x[k - 1] - y[k - 1] = u[k - 1] - v[k - 1]
    BY <1>2
  <2>4. ASSUME k = 1
        PROVE  u[k - 1] = 0 /\ v[k - 1] = 0
    <3>1. k - 1 = 0
      BY <2>4
    <3> QED BY <1>1, <3>1, Zenon
  <2> HIDE DEF p, q, pp, qq, x, y, u, v
  <2>5. x[k] \in Int /\ y[k] \in Int /\ u[k] \in Int /\ v[k] \in Int
    BY <2>1, <2>3
  <2>6. x[k] - y[k] = u[k] - v[k]
    <3>1. CASE k = 1
      BY <2>1, <2>2, <2>4, <3>1
    <3>2. CASE k # 1
      BY <2>1, <2>2, <2>3, <3>2
    <3> QED BY <3>1, <3>2
  <2> QED BY <2>5, <2>6
<1>3. Kept(0)
  <2> HIDE DEF x, y, u, v
  <2> QED BY <1>1
<1>4. Kept(Width)
  <2>1. T \subseteq Nat /\ 0 \in T /\ \A m \in 1 .. Width : m - 1 \in T => m \in T
    <3> HIDE DEF Kept
    <3> QED BY <1>0, <1>2, <1>3
  <2>2. Width \in T
    <3> HIDE DEF T
    <3> QED BY <1>0, <2>1, Climb
  <2> QED BY <2>2
<1> QED BY <1>4 DEF NumberOf

\* The orders of the bit hunt are the orders of the numbers the bit vectors stand
\* for, unsigned and in two's complement, for every width.
THEOREM OrderIsNumeric ==
  ASSUME NEW a, NEW b
  PROVE  /\ Less(a, b) <=> NumberOf(a, FALSE) < NumberOf(b, FALSE)
         /\ Less(Inverted(a), Inverted(b)) <=> NumberOf(a, TRUE) < NumberOf(b, TRUE)
<1>1. Less(a, b) <=> NumberOf(a, FALSE) < NumberOf(b, FALSE)
  BY ReadingsOrder
<1>2. Less(Inverted(a), Inverted(b)) <=> NumberOf(Inverted(a), FALSE) < NumberOf(Inverted(b), FALSE)
  BY ReadingsOrder
<1> DEFINE x == NumberOf(a, TRUE)
           y == NumberOf(b, TRUE)
           u == NumberOf(Inverted(a), FALSE)
           v == NumberOf(Inverted(b), FALSE)
<1>3. x \in Int /\ y \in Int /\ u \in Int /\ v \in Int /\ x - y = u - v
  BY SignedReadings
<1> HIDE DEF x, y, u, v
<1>4. x < y <=> u < v
  BY <1>3
<1> QED BY <1>1, <1>2, <1>4 DEF x, y, u, v

\* The value that optimize returns is the least, or the greatest, number that the
\* target has in a world of the query, signed as the query says.
OptimumIsExtreme ==
  Reliable /\ result.status = "sat" /\ Optimizing(query) =>
    LET value(w) == NumberOf(TargetOf[w], query.signed)
        best == NumberOf(result.optimum, query.signed)
    IN  /\ \E w \in All(query) : value(w) = best
        /\ \A w \in All(query) : IF query.command = "minimize" THEN best <= value(w) ELSE value(w) <= best

\* optimize returns that number, for every width and however the budget runs.
THEOREM HuntIsExtreme == Spec => []OptimumIsExtreme
<1>1. TypeOK /\ OptimumIsBest => OptimumIsExtreme
  <2> SUFFICES ASSUME TypeOK, OptimumIsBest, Reliable, result.status = "sat", Optimizing(query)
               PROVE  OptimumIsExtreme
    BY DEF OptimumIsExtreme
  <2>1. query.signed \in BOOLEAN
    BY DEF TypeOK, Query
  <2>2. PICK v \in All(query) : TargetOf[v] = result.optimum
    BY DEF OptimumIsBest
  <2>3. ASSUME NEW w \in All(query)
        PROVE  LET x == NumberOf(TargetOf[w], query.signed)
                   y == NumberOf(result.optimum, query.signed)
               IN  IF query.command = "minimize" THEN y <= x ELSE x <= y
    <3> DEFINE a == TargetOf[w]
               b == result.optimum
               x == NumberOf(a, query.signed)
               y == NumberOf(b, query.signed)
    <3>1. ~ Better(query, a, b)
      BY DEF OptimumIsBest
    <3>2. x \in Int /\ y \in Int
      BY <2>1, ReadingsOrder, SignedReadings
    <3>3. Before(query, a, b) <=> x < y
      BY <2>1, OrderIsNumeric DEF Before
    <3>4. Before(query, b, a) <=> y < x
      BY <2>1, OrderIsNumeric DEF Before
    <3> HIDE DEF a, b, x, y
    <3>5. IF query.command = "minimize" THEN y <= x ELSE x <= y
      BY <3>1, <3>2, <3>3, <3>4 DEF Better
    <3> QED BY <3>5 DEF a, b, x, y
  <2> QED BY <2>2, <2>3 DEF OptimumIsExtreme
<1> QED BY <1>1, SolverTypeCorrect, HuntIsOptimal, PTL
=============================================================================
