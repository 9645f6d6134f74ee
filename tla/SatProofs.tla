------------------------------ MODULE SatProofs ------------------------------
(***************************************************************************)
(* The DPLL search is sound and complete for every CNF, every assumption   *)
(* list and every moment at which it may be told to stop; and whatever the *)
(* library solvers return, SAT is only answered with a true model.         *)
(***************************************************************************)
EXTENDS Sat, TLAPS

\* Literals and their variables.
LEMMA LitFacts ==
  ASSUME NEW l \in Lits
  PROVE  /\ Var(l) \in Vars /\ Sign(l) \in {"true", "false"}
         /\ -l \in Lits /\ Var(-l) = Var(l) /\ Sign(-l) # Sign(l)
<1>1. NumVars \in Nat
  BY SatAssumption DEF SatAssumption
<1> QED BY <1>1 DEF Lits, Var, Vars, Sign

LEMMA VarIsLit == \A v \in Vars : v \in Lits /\ Var(v) = v /\ Sign(v) = "true"
<1>1. NumVars \in Nat
  BY SatAssumption DEF SatAssumption
<1> QED BY <1>1 DEF Lits, Var, Vars, Sign

\* The clauses and assumptions of a query are made of literals.
LEMMA QueryFacts ==
  ASSUME TypeOK
  PROVE  /\ clauses \in Seq(SUBSET Lits) /\ assumptions \in Seq(Lits)
         /\ \A i \in DOMAIN clauses : clauses[i] \subseteq Lits
         /\ \A i \in DOMAIN assumptions : assumptions[i] \in Lits
<1>1. clauses \in Seq(SUBSET Lits) /\ assumptions \in Seq(Lits)
  BY SatAssumption DEF SatAssumption, TypeOK
<1> QED BY <1>1

\* A literal that is assigned holds; what held before still holds unless it was
\* contradicted.
LEMMA AssignFacts ==
  ASSUME NEW a \in Partial, NEW l \in Lits
  PROVE  /\ Assign(a, l) \in Partial
         /\ Holds(Assign(a, l), l)
         /\ Free(a, l) \/ Holds(a, l) => \A k \in Lits : Holds(a, k) => Holds(Assign(a, l), k)
<1>1. Var(l) \in Vars /\ Sign(l) \in {"true", "false"}
  BY LitFacts
<1>2. \A k \in Lits : Var(k) \in Vars /\ Sign(k) \in {"true", "false"}
  BY LitFacts
<1> QED BY <1>1, <1>2 DEF Assign, Partial, Holds, Free

\* A total assignment that agrees with a branch and makes a literal true agrees
\* with the branch in which that literal is assigned.
LEMMA AssignAgrees ==
  ASSUME NEW a \in Partial, NEW l \in Lits, NEW m \in Total, Agrees(m, a), Holds(m, l)
  PROVE  Agrees(m, Assign(a, l))
<1>1. Var(l) \in Vars
  BY LitFacts
<1> QED BY <1>1 DEF Assign, Partial, Holds, Agrees

\* Of a variable's two branches, one agrees.
LEMMA BranchAgrees ==
  ASSUME NEW a \in Partial, NEW v \in Vars, NEW m \in Total, Agrees(m, a)
  PROVE  Agrees(m, Assign(a, v)) \/ Agrees(m, Assign(a, -v))
<1>1. v \in Lits /\ -v \in Lits /\ Var(v) = v /\ Var(-v) = v /\ Sign(v) = "true" /\ Sign(-v) = "false"
  <2>1. NumVars \in Nat
    BY SatAssumption DEF SatAssumption
  <2> QED BY <2>1 DEF Lits, Var, Vars, Sign
<1>2. m[v] \in {"true", "false"}
  BY DEF Total
<1>3. Holds(m, v) \/ Holds(m, -v)
  BY <1>1, <1>2 DEF Holds
<1> QED BY <1>1, <1>3, AssignAgrees

\* A literal that holds on a branch holds in every model that agrees with it; one
\* that is neither free nor true on the branch is false in the model.
LEMMA AgreesFacts ==
  ASSUME NEW a \in Partial, NEW m \in Total, Agrees(m, a), NEW l \in Lits
  PROVE  /\ Holds(a, l) => Holds(m, l)
         /\ Holds(m, l) => Free(a, l) \/ Holds(a, l)
<1>1. Var(l) \in Vars /\ Sign(l) \in {"true", "false"}
  BY LitFacts
<1> QED BY <1>1 DEF Holds, Free, Agrees, Partial, Total

\* A clause without a true or a free literal on a branch has no model there.
LEMMA FalsifiedRefutes ==
  ASSUME TypeOK, NEW m \in Total, Satisfies(clauses, assumptions, m), index \in DOMAIN clauses,
         ~SatisfiedClause(assignment, clauses[index]), FreeIn(clauses[index]) = {}
  PROVE  ~Agrees(m, assignment)
<1>1. clauses[index] \subseteq Lits
  BY QueryFacts
<1>2. PICK k \in clauses[index] : Holds(m, k)
  BY DEF Satisfies, AllClausesSatisfied, SatisfiedClause
<1>3. ~Free(assignment, k) /\ ~Holds(assignment, k)
  BY DEF FreeIn, SatisfiedClause
<1> QED BY <1>1, <1>2, <1>3, AgreesFacts DEF TypeOK

LEMMA SatInvInit == Init => SatInv
<1> SUFFICES ASSUME Init PROVE SatInv
  OBVIOUS
<1>0. assignment \in Partial /\ model \in Total /\ pending \in Seq(Partial)
  BY DEF Init, Partial, Total
<1>1. TypeOK
  <2>1. bounded \in BOOLEAN /\ stopped \in BOOLEAN /\ changed \in BOOLEAN
    BY Zenon DEF Init
  <2> QED BY <1>0, <2>1 DEF Init, TypeOK, Places
<1>2. Covered /\ AssumedInv /\ PassInv
  BY DEF Init, Covered, AssumedInv, PassInv, Searching
<1>3. AnswerInv
  BY DEF Init, AnswerInv, UnsatSound, UnknownOnlyIfStopped
<1> QED BY <1>1, <1>2, <1>3 DEF SatInv

\* Every step of the call preserves the invariant.
LEMMA SatInvStep == SatInv /\ [Next]_vars => SatInv'
<1> SUFFICES ASSUME SatInv, [Next]_vars PROVE SatInv'
  OBVIOUS
<1> USE DEF SatInv, query
<1>0. /\ clauses \in Seq(SUBSET Lits) /\ assumptions \in Seq(Lits)
      /\ \A i \in DOMAIN clauses : clauses[i] \subseteq Lits
      /\ \A i \in DOMAIN assumptions : assumptions[i] \in Lits
  BY QueryFacts
<1>1. ASSUME GiveUp PROVE SatInv'
  <2>1. TypeOK'
    BY <1>0, <1>1 DEF GiveUp, Finish, TypeOK, Places
  <2>2. Covered'
    BY <1>0, <1>1 DEF GiveUp, Finish, Covered, Searching
  <2>3. AssumedInv'
    BY <1>0, <1>1 DEF GiveUp, Finish, AssumedInv, Searching
  <2>4. PassInv'
    BY <1>0, <1>1 DEF GiveUp, Finish, PassInv
  <2>5. AnswerInv'
    BY <1>0, <1>1 DEF GiveUp, Finish, AnswerInv, UnsatSound, UnknownOnlyIfStopped
  <2> QED BY <2>1, <2>2, <2>3, <2>4, <2>5
<1>2. ASSUME Begin PROVE SatInv'
  <2>1. TypeOK'
    BY <1>0, <1>2 DEF Begin, TypeOK, Places
  <2>2. Covered'
    BY <1>0, <1>2 DEF Begin, Covered, Searching
  <2>3. AssumedInv'
    <3>1. \A m \in Total : Agrees(m, assignment)
      BY <1>0, <1>2 DEF Begin, AssumedInv, Agrees
    <3>2. index = 1 /\ pending = <<>> /\ assignment = [v \in Vars |-> "free"]
      BY <1>0, <1>2 DEF Begin, AssumedInv
    <3> QED BY <1>0, <1>2, <3>1, <3>2 DEF Begin, AssumedInv, Searching
  <2>4. PassInv'
    BY <1>0, <1>2 DEF Begin, PassInv
  <2>5. AnswerInv'
    BY <1>0, <1>2 DEF Begin, AnswerInv, UnsatSound, UnknownOnlyIfStopped
  <2> QED BY <2>1, <2>2, <2>3, <2>4, <2>5
<1>3. ASSUME AssumeConflict PROVE SatInv'
  <2>1. TypeOK'
    BY <1>0, <1>3 DEF AssumeConflict, Finish, TypeOK, Places
  <2>2. Covered'
    BY <1>0, <1>3 DEF AssumeConflict, Finish, Covered, Searching
  <2>3. AssumedInv'
    BY <1>0, <1>3 DEF AssumeConflict, Finish, AssumedInv, Searching
  <2>4. PassInv'
    BY <1>0, <1>3 DEF AssumeConflict, Finish, PassInv
  <2>5. AnswerInv'
    <3> DEFINE l == assumptions[index]
    <3>1. l \in Lits /\ index \in DOMAIN assumptions
      BY <1>0, <1>3 DEF AssumeConflict, Finish, TypeOK
    <3>2. ASSUME NEW m \in Total, Satisfies(clauses, assumptions, m) PROVE FALSE
      <4>1. Agrees(m, assignment) /\ Holds(m, l)
        BY <1>0, <1>3, <3>1, <3>2 DEF AssumeConflict, Finish, AssumedInv, Satisfies, Assumed
      <4> QED BY <1>0, <1>3, <3>1, <4>1, AgreesFacts DEF AssumeConflict, Finish, Conflicting, TypeOK
    <3> QED BY <1>0, <1>3, <3>2 DEF AssumeConflict, Finish, AnswerInv, UnsatSound, UnknownOnlyIfStopped
  <2> QED BY <2>1, <2>2, <2>3, <2>4, <2>5
<1>4. ASSUME AssumeNext PROVE SatInv'
  <2>1. TypeOK'
    <3>1. assumptions[index] \in Lits
      BY <1>0, <1>4 DEF AssumeNext, TypeOK
    <3>2. assignment' \in Partial
      BY <1>0, <1>4, <3>1, AssignFacts DEF AssumeNext, TypeOK
    <3> QED BY <1>0, <1>4, <3>2 DEF AssumeNext, TypeOK, Places
  <2>2. Covered'
    BY <1>0, <1>4 DEF AssumeNext, Covered, Searching
  <2>3. AssumedInv'
    <3> DEFINE l == assumptions[index]
    <3>1. l \in Lits /\ index \in DOMAIN assumptions /\ assignment \in Partial
      BY <1>0, <1>4 DEF AssumeNext, TypeOK
    <3>2. Free(assignment, l) \/ Holds(assignment, l)
      BY <1>0, <1>4 DEF AssumeNext, Conflicting
    <3>3. ASSUME NEW i \in DOMAIN assumptions, i < index + 1 PROVE Holds(assignment', assumptions[i])
      <4>1. i = index \/ i < index
        BY <1>0, <1>4, <3>3 DEF AssumeNext, TypeOK
      <4>2. CASE i = index
        BY <1>0, <1>4, <4>2, <3>1, AssignFacts DEF AssumeNext
      <4>3. CASE i < index
        BY <1>0, <1>4, <4>3, <3>1, <3>2, AssignFacts DEF AssumeNext, AssumedInv
      <4> QED BY <4>1, <4>2, <4>3
    <3>4. ASSUME NEW m \in Total, Satisfies(clauses, assumptions, m) PROVE Agrees(m, assignment')
      <4>1. Agrees(m, assignment) /\ Holds(m, l)
        BY <1>0, <1>4, <3>1, <3>4 DEF AssumeNext, AssumedInv, Satisfies, Assumed
      <4> QED BY <1>0, <1>4, <3>1, <4>1, AssignAgrees DEF AssumeNext
    <3> QED BY <1>0, <1>4, <3>3, <3>4 DEF AssumeNext, AssumedInv, Searching
  <2>4. PassInv'
    BY <1>0, <1>4 DEF AssumeNext, PassInv
  <2>5. AnswerInv'
    BY <1>0, <1>4 DEF AssumeNext, AnswerInv, UnsatSound, UnknownOnlyIfStopped
  <2> QED BY <2>1, <2>2, <2>3, <2>4, <2>5
<1>5. ASSUME AssumeDone PROVE SatInv'
  <2>1. TypeOK'
    BY <1>0, <1>5 DEF AssumeDone, TypeOK, Places
  <2>2. Covered'
    BY <1>0, <1>5 DEF AssumeDone, Covered, AssumedInv
  <2>3. AssumedInv'
    <3>1. Assumed(assumptions, assignment)
      BY <1>0, <1>5 DEF AssumeDone, AssumedInv, Assumed, TypeOK
    <3> QED BY <1>0, <1>5, <3>1 DEF AssumeDone, AssumedInv, Searching
  <2>4. PassInv'
    BY <1>0, <1>5 DEF AssumeDone, PassInv
  <2>5. AnswerInv'
    BY <1>0, <1>5 DEF AssumeDone, AnswerInv, UnsatSound, UnknownOnlyIfStopped
  <2> QED BY <2>1, <2>2, <2>3, <2>4, <2>5
<1>6. ASSUME EnterSearch PROVE SatInv'
  <2>1. TypeOK'
    BY <1>0, <1>6 DEF EnterSearch, TypeOK, Places
  <2>2. Covered'
    BY <1>0, <1>6 DEF EnterSearch, Covered, Searching
  <2>3. AssumedInv'
    BY <1>0, <1>6 DEF EnterSearch, AssumedInv, Searching
  <2>4. PassInv'
    BY <1>0, <1>6 DEF EnterSearch, PassInv
  <2>5. AnswerInv'
    BY <1>0, <1>6 DEF EnterSearch, AnswerInv, UnsatSound, UnknownOnlyIfStopped
  <2> QED BY <2>1, <2>2, <2>3, <2>4, <2>5
<1>7. ASSUME StartPass PROVE SatInv'
  <2>1. TypeOK'
    <3>1. changed' \in BOOLEAN
      BY <1>0, <1>7, Zenon DEF StartPass
    <3> QED BY <1>0, <1>7, <3>1 DEF StartPass, TypeOK, Places
  <2>2. Covered'
    BY <1>0, <1>7 DEF StartPass, Covered, Searching
  <2>3. AssumedInv'
    BY <1>0, <1>7 DEF StartPass, AssumedInv, Searching
  <2>4. PassInv'
    BY <1>0, <1>7 DEF StartPass, PassInv
  <2>5. AnswerInv'
    BY <1>0, <1>7 DEF StartPass, AnswerInv, UnsatSound, UnknownOnlyIfStopped
  <2> QED BY <2>1, <2>2, <2>3, <2>4, <2>5
<1>8. ASSUME SkipClause PROVE SatInv'
  <2>1. TypeOK'
    BY <1>0, <1>8 DEF SkipClause, InPass, TypeOK, Places
  <2>2. Covered'
    BY <1>0, <1>8 DEF SkipClause, InPass, Covered, Searching
  <2>3. AssumedInv'
    BY <1>0, <1>8 DEF SkipClause, InPass, AssumedInv, Searching
  <2>4. PassInv'
    <3>1. index \in DOMAIN clauses
      BY <1>0, <1>8 DEF SkipClause, InPass, TypeOK
    <3>2. Alive(assignment, clauses[index])
      BY <1>0, <1>8, <3>1 DEF SkipClause, InPass, Alive, SatisfiedClause, FreeIn
    <3> QED BY <1>0, <1>8, <3>1, <3>2 DEF SkipClause, InPass, PassInv, TypeOK
  <2>5. AnswerInv'
    BY <1>0, <1>8 DEF SkipClause, InPass, AnswerInv, UnsatSound, UnknownOnlyIfStopped
  <2> QED BY <2>1, <2>2, <2>3, <2>4, <2>5
<1>9. ASSUME UnitClause PROVE SatInv'
  <2>1. TypeOK'
    <3>1. clauses[index] \subseteq Lits
      BY <1>0, <1>9 DEF UnitClause, InPass, TypeOK
    <3>2. assignment' \in Partial
      BY <1>0, <1>9, <3>1, AssignFacts DEF UnitClause, InPass, TypeOK
    <3> QED BY <1>0, <1>9, <3>2 DEF UnitClause, InPass, TypeOK, Places
  <2>2. Covered'
    <3>1. index \in DOMAIN clauses /\ clauses[index] \subseteq Lits /\ assignment \in Partial
      BY <1>0, <1>9 DEF UnitClause, InPass, TypeOK
    <3>2. PICK l \in clauses[index] :
            FreeIn(clauses[index]) = {l} /\ assignment' = Assign(assignment, l)
      BY <1>0, <1>9 DEF UnitClause, InPass
    <3>3. ASSUME NEW m \in Total, Satisfies(clauses, assumptions, m), Agrees(m, assignment)
          PROVE  Agrees(m, assignment')
      <4>1. PICK k \in clauses[index] : Holds(m, k)
        BY <3>1, <3>3 DEF Satisfies, AllClausesSatisfied, SatisfiedClause
      <4>2. Free(assignment, k)
        BY <1>0, <1>9, <3>1, <3>3, <4>1, AgreesFacts DEF UnitClause, InPass, SatisfiedClause
      <4>3. k = l
        BY <3>2, <4>2 DEF FreeIn
      <4> QED BY <3>1, <3>2, <3>3, <4>1, <4>3, AssignAgrees
    <3> QED BY <1>0, <1>9, <3>3 DEF UnitClause, InPass, Covered, Searching
  <2>3. AssumedInv'
    <3>1. index \in DOMAIN clauses /\ clauses[index] \subseteq Lits /\ assignment \in Partial
      BY <1>0, <1>9 DEF UnitClause, InPass, TypeOK
    <3>2. PICK l \in clauses[index] : FreeIn(clauses[index]) = {l} /\ assignment' = Assign(assignment, l)
      BY <1>0, <1>9 DEF UnitClause, InPass
    <3>3. Free(assignment, l)
      BY <3>2 DEF FreeIn
    <3>4. Assumed(assumptions, assignment)
      BY <1>0, <1>9 DEF UnitClause, InPass, AssumedInv, Searching
    <3>5. Assumed(assumptions, assignment')
      BY <1>0, <1>9, <3>1, <3>2, <3>3, <3>4, AssignFacts DEF Assumed
    <3> QED BY <1>0, <1>9, <3>5 DEF UnitClause, InPass, AssumedInv, Searching
  <2>4. PassInv'
    BY <1>0, <1>9 DEF UnitClause, InPass, PassInv
  <2>5. AnswerInv'
    BY <1>0, <1>9 DEF UnitClause, InPass, AnswerInv, UnsatSound, UnknownOnlyIfStopped
  <2> QED BY <2>1, <2>2, <2>3, <2>4, <2>5
<1>10. ASSUME Backtrack PROVE SatInv'
  <2>1. TypeOK'
    <3>1. pending[Len(pending)] \in Partial /\ SubSeq(pending, 1, Len(pending) - 1) \in Seq(Partial)
      BY <1>0, <1>10 DEF Backtrack, Falsified, InPass, TypeOK
    <3> QED BY <1>0, <1>10, <3>1 DEF Backtrack, Falsified, InPass, TypeOK, Places
  <2>2. Covered'
    <3>1. /\ pending \in Seq(Partial) /\ Len(pending) \in DOMAIN pending
          /\ DOMAIN pending' = 1..(Len(pending) - 1)
          /\ \A i \in DOMAIN pending' : pending'[i] = pending[i]
          /\ \A i \in DOMAIN pending : i \in DOMAIN pending' \/ i = Len(pending)
      BY <1>0, <1>10 DEF Backtrack, Falsified, InPass, TypeOK
    <3>2. ASSUME NEW m \in Total, Satisfies(clauses, assumptions, m) PROVE ~Agrees(m, assignment)
      <4>1. index \in DOMAIN clauses
        BY <1>0, <1>10 DEF Backtrack, Falsified, InPass, TypeOK
      <4> QED BY <1>0, <1>10, <3>2, <4>1, FalsifiedRefutes DEF Backtrack, Falsified, InPass
    <3>3. ASSUME NEW m \in Total, Satisfies(clauses, assumptions, m)
          PROVE  Agrees(m, assignment') \/ \E i \in DOMAIN pending' : Agrees(m, pending'[i])
      <4>1. PICK i \in DOMAIN pending : Agrees(m, pending[i])
        BY <1>0, <1>10, <3>2, <3>3 DEF Backtrack, Falsified, InPass, Covered, Searching
      <4>2. assignment' = pending[Len(pending)]
        BY <1>0, <1>10 DEF Backtrack, Falsified, InPass
      <4> QED BY <3>1, <4>1, <4>2
    <3> QED BY <1>0, <1>10, <3>3 DEF Backtrack, Falsified, InPass, Covered
  <2>3. AssumedInv'
    <3>1. /\ pending \in Seq(Partial) /\ Len(pending) \in DOMAIN pending
          /\ DOMAIN pending' = 1..(Len(pending) - 1)
          /\ \A i \in DOMAIN pending' : pending'[i] = pending[i]
          /\ \A i \in DOMAIN pending : i \in DOMAIN pending' \/ i = Len(pending)
      BY <1>0, <1>10 DEF Backtrack, Falsified, InPass, TypeOK
    <3>2. assignment' = pending[Len(pending)] /\ pc' = "search"
      BY <1>0, <1>10 DEF Backtrack, Falsified, InPass
    <3>3. \A i \in DOMAIN pending : Assumed(assumptions, pending[i])
      BY <1>0, <1>10 DEF Backtrack, Falsified, InPass, AssumedInv, Searching
    <3> QED BY <1>0, <1>10, <3>1, <3>2, <3>3 DEF Backtrack, Falsified, InPass, AssumedInv, Searching
  <2>4. PassInv'
    BY <1>0, <1>10 DEF Backtrack, Falsified, InPass, PassInv
  <2>5. AnswerInv'
    BY <1>0, <1>10 DEF Backtrack, Falsified, InPass, AnswerInv, UnsatSound, UnknownOnlyIfStopped
  <2> QED BY <2>1, <2>2, <2>3, <2>4, <2>5
<1>11. ASSUME Exhausted PROVE SatInv'
  <2>1. TypeOK'
    BY <1>0, <1>11 DEF Exhausted, Finish, Falsified, InPass, TypeOK, Places
  <2>2. Covered'
    BY <1>0, <1>11 DEF Exhausted, Finish, Falsified, InPass, Covered, Searching
  <2>3. AssumedInv'
    BY <1>0, <1>11 DEF Exhausted, Finish, Falsified, InPass, AssumedInv, Searching
  <2>4. PassInv'
    BY <1>0, <1>11 DEF Exhausted, Finish, Falsified, InPass, PassInv
  <2>5. AnswerInv'
    <3>1. index \in DOMAIN clauses
      BY <1>0, <1>11 DEF Exhausted, Finish, Falsified, InPass, TypeOK
    <3>2. ASSUME NEW m \in Total, Satisfies(clauses, assumptions, m) PROVE FALSE
      <4>1. Agrees(m, assignment) \/ \E i \in DOMAIN pending : Agrees(m, pending[i])
        BY <1>0, <1>11, <3>2 DEF Exhausted, Finish, Falsified, InPass, Covered, Searching
      <4>2. Agrees(m, assignment)
        BY <1>0, <1>11, <4>1 DEF Exhausted, Finish, Falsified, InPass
      <4> QED BY <1>0, <1>11, <3>1, <3>2, <4>2, FalsifiedRefutes DEF Exhausted, Finish, Falsified, InPass
    <3> QED BY <1>0, <1>11, <3>2 DEF Exhausted, Finish, Falsified, InPass, AnswerInv, UnsatSound, UnknownOnlyIfStopped
  <2> QED BY <2>1, <2>2, <2>3, <2>4, <2>5
<1>12. ASSUME EndPass PROVE SatInv'
  <2>1. TypeOK'
    BY <1>0, <1>12 DEF EndPass, TypeOK, Places
  <2>2. Covered'
    BY <1>0, <1>12 DEF EndPass, Covered, Searching
  <2>3. AssumedInv'
    BY <1>0, <1>12 DEF EndPass, AssumedInv, Searching
  <2>4. PassInv'
    <3>1. \A i \in DOMAIN clauses : i < index
      BY <1>0, <1>12 DEF EndPass, TypeOK
    <3> QED BY <1>0, <1>12, <3>1 DEF EndPass, PassInv
  <2>5. AnswerInv'
    BY <1>0, <1>12 DEF EndPass, AnswerInv, UnsatSound, UnknownOnlyIfStopped
  <2> QED BY <2>1, <2>2, <2>3, <2>4, <2>5
<1>13. ASSUME Found PROVE SatInv'
  <2>1. TypeOK'
    <3>1. model' \in Total
      BY <1>0, <1>13 DEF Found, TypeOK, Partial, Total
    <3> QED BY <1>0, <1>13, <3>1 DEF Found, TypeOK, Places
  <2>2. Covered'
    BY <1>0, <1>13 DEF Found, Covered, Searching
  <2>3. AssumedInv'
    BY <1>0, <1>13 DEF Found, AssumedInv, Searching
  <2>4. PassInv'
    BY <1>0, <1>13 DEF Found, PassInv
  <2>5. AnswerInv'
    <3>1. assignment \in Partial
      BY DEF TypeOK
    <3>2. \A l \in Lits : Holds(assignment, l) => Holds(model', l)
      <4>1. \A l \in Lits : Var(l) \in Vars /\ Sign(l) \in {"true", "false"}
        BY LitFacts
      <4> QED BY <1>0, <1>13, <4>1 DEF Found, Holds
    <3>3. Assumed(assumptions, model')
      BY <1>0, <1>13, <3>2 DEF Found, AssumedInv, Searching, Assumed
    <3>4. AllClausesSatisfied(clauses, assignment)
      <4>1. CASE Unassigned(assignment) = {}
        <5>1. \A l \in Lits : ~Free(assignment, l)
          BY <4>1, LitFacts DEF Unassigned, Free
        <5> QED BY <1>0, <1>13, <5>1 DEF Found, PassInv, Alive, AllClausesSatisfied, SatisfiedClause
      <4> QED BY <1>0, <1>13, <4>1 DEF Found
    <3>5. AllClausesSatisfied(clauses, model')
      BY <1>0, <1>13, <3>2, <3>4 DEF AllClausesSatisfied, SatisfiedClause
    <3>6. Satisfies(clauses, assumptions, model')
      BY <3>3, <3>5 DEF Satisfies
    <3> QED BY <1>0, <1>13, <3>6 DEF Found, AnswerInv, UnsatSound, UnknownOnlyIfStopped
  <2> QED BY <2>1, <2>2, <2>3, <2>4, <2>5
<1>14. ASSUME NEW v \in Vars, Decide(v) PROVE SatInv'
  <2>1. TypeOK'
    <3>1. v \in Lits /\ -v \in Lits /\ assignment \in Partial /\ pending \in Seq(Partial)
      BY VarIsLit, LitFacts DEF TypeOK
    <3>2. Assign(assignment, v) \in Partial /\ Assign(assignment, -v) \in Partial
      BY <3>1, AssignFacts
    <3>3. pending' \in Seq(Partial) /\ assignment' \in Partial
      BY <1>0, <1>14, <3>1, <3>2 DEF Decide
    <3> QED BY <1>0, <1>14, <3>3 DEF Decide, TypeOK, Places
  <2>2. Covered'
    <3>1. v \in Lits /\ -v \in Lits /\ assignment \in Partial /\ pending \in Seq(Partial)
      BY VarIsLit, LitFacts DEF TypeOK
    <3>2. Assign(assignment, v) \in Partial /\ Assign(assignment, -v) \in Partial
      BY <3>1, AssignFacts
    <3>3. /\ DOMAIN pending' = 1..(Len(pending) + 1) /\ DOMAIN pending = 1..Len(pending)
          /\ Len(pending) \in Nat /\ pending'[Len(pending) + 1] = Assign(assignment, -v)
          /\ \A i \in DOMAIN pending : pending'[i] = pending[i] /\ i \in DOMAIN pending'
      BY <1>0, <1>14, <3>1, <3>2 DEF Decide
    <3>4. ASSUME NEW m \in Total, Satisfies(clauses, assumptions, m)
          PROVE  Agrees(m, assignment') \/ \E i \in DOMAIN pending' : Agrees(m, pending'[i])
      <4>1. CASE Agrees(m, assignment)
        <5>1. Agrees(m, Assign(assignment, v)) \/ Agrees(m, Assign(assignment, -v))
          BY <3>1, <4>1, BranchAgrees
        <5>2. assignment' = Assign(assignment, v)
          BY <1>0, <1>14 DEF Decide
        <5>3. Len(pending) + 1 \in DOMAIN pending'
          BY <3>3
        <5> QED BY <3>3, <5>1, <5>2, <5>3
      <4>2. CASE \E i \in DOMAIN pending : Agrees(m, pending[i])
        BY <3>3, <4>2
      <4> QED BY <1>0, <1>14, <3>4, <4>1, <4>2 DEF Decide, Covered, Searching
    <3> QED BY <1>0, <1>14, <3>4 DEF Decide, Covered
  <2>3. AssumedInv'
    <3>1. v \in Lits /\ -v \in Lits /\ assignment \in Partial /\ pending \in Seq(Partial)
      BY VarIsLit, LitFacts DEF TypeOK
    <3>2. Assign(assignment, v) \in Partial /\ Assign(assignment, -v) \in Partial
      BY <3>1, AssignFacts
    <3>3. /\ DOMAIN pending' = 1..(Len(pending) + 1) /\ DOMAIN pending = 1..Len(pending)
          /\ Len(pending) \in Nat /\ pending'[Len(pending) + 1] = Assign(assignment, -v)
          /\ \A i \in DOMAIN pending : pending'[i] = pending[i] /\ i \in DOMAIN pending'
      BY <1>0, <1>14, <3>1, <3>2 DEF Decide
    <3>4. Assumed(assumptions, assignment) /\ \A i \in DOMAIN pending : Assumed(assumptions, pending[i])
      BY <1>0, <1>14 DEF Decide, AssumedInv, Searching
    <3>5. Free(assignment, v) /\ Free(assignment, -v)
      <4>1. assignment[v] = "free" /\ Var(v) = v /\ Var(-v) = v
        BY <1>0, <1>14, VarIsLit, LitFacts DEF Decide, Chosen, Unassigned
      <4> QED BY <4>1 DEF Free
    <3>6. Assumed(assumptions, Assign(assignment, v)) /\ Assumed(assumptions, Assign(assignment, -v))
      BY <1>0, <1>14, <3>1, <3>4, <3>5, AssignFacts DEF Assumed
    <3>7. \A i \in DOMAIN pending' : i \in DOMAIN pending \/ i = Len(pending) + 1
      BY <3>3
    <3>8. \A i \in DOMAIN pending' : Assumed(assumptions, pending'[i])
      BY <3>3, <3>4, <3>6, <3>7
    <3> QED BY <1>0, <1>14, <3>6, <3>8 DEF Decide, AssumedInv, Searching
  <2>4. PassInv'
    BY <1>0, <1>14 DEF Decide, PassInv
  <2>5. AnswerInv'
    BY <1>0, <1>14 DEF Decide, AnswerInv, UnsatSound, UnknownOnlyIfStopped
  <2> QED BY <2>1, <2>2, <2>3, <2>4, <2>5
<1>15. ASSUME NEW m \in Total, LibraryModel(m) PROVE SatInv'
  <2>1. TypeOK'
    BY <1>0, <1>15 DEF LibraryModel, TypeOK, Places
  <2>2. Covered'
    BY <1>0, <1>15 DEF LibraryModel, Covered, Searching
  <2>3. AssumedInv'
    BY <1>0, <1>15 DEF LibraryModel, AssumedInv, Searching
  <2>4. PassInv'
    BY <1>0, <1>15 DEF LibraryModel, PassInv
  <2>5. AnswerInv'
    BY <1>0, <1>15 DEF LibraryModel, AnswerInv, UnsatSound, UnknownOnlyIfStopped
  <2> QED BY <2>1, <2>2, <2>3, <2>4, <2>5
<1>16. ASSUME LibraryUnsat PROVE SatInv'
  <2>1. TypeOK'
    BY <1>0, <1>16 DEF LibraryUnsat, Finish, TypeOK, Places
  <2>2. Covered'
    BY <1>0, <1>16 DEF LibraryUnsat, Finish, Covered, Searching
  <2>3. AssumedInv'
    BY <1>0, <1>16 DEF LibraryUnsat, Finish, AssumedInv, Searching
  <2>4. PassInv'
    BY <1>0, <1>16 DEF LibraryUnsat, Finish, PassInv
  <2>5. AnswerInv'
    BY <1>0, <1>16 DEF LibraryUnsat, Finish, AnswerInv, UnsatSound, UnknownOnlyIfStopped
  <2> QED BY <2>1, <2>2, <2>3, <2>4, <2>5
<1>17. ASSUME LibraryUnknown PROVE SatInv'
  <2>1. TypeOK'
    BY <1>0, <1>17 DEF LibraryUnknown, Finish, TypeOK, Places
  <2>2. Covered'
    BY <1>0, <1>17 DEF LibraryUnknown, Finish, Covered, Searching
  <2>3. AssumedInv'
    BY <1>0, <1>17 DEF LibraryUnknown, Finish, AssumedInv, Searching
  <2>4. PassInv'
    BY <1>0, <1>17 DEF LibraryUnknown, Finish, PassInv
  <2>5. AnswerInv'
    BY <1>0, <1>17 DEF LibraryUnknown, Finish, AnswerInv, UnsatSound, UnknownOnlyIfStopped
  <2> QED BY <2>1, <2>2, <2>3, <2>4, <2>5
<1>18. ASSUME Validate PROVE SatInv'
  <2>1. TypeOK'
    BY <1>0, <1>18 DEF Validate, Finish, TypeOK, Places
  <2>2. Covered'
    BY <1>0, <1>18 DEF Validate, Finish, Covered, Searching
  <2>3. AssumedInv'
    BY <1>0, <1>18 DEF Validate, Finish, AssumedInv, Searching
  <2>4. PassInv'
    BY <1>0, <1>18 DEF Validate, Finish, PassInv
  <2>5. AnswerInv'
    BY <1>0, <1>18 DEF Validate, Finish, AnswerInv, UnsatSound, UnknownOnlyIfStopped
  <2> QED BY <2>1, <2>2, <2>3, <2>4, <2>5
<1>19. ASSUME Stop PROVE SatInv'
  <2>1. TypeOK'
    BY <1>0, <1>19 DEF Stop, TypeOK, Places
  <2>2. Covered'
    BY <1>0, <1>19 DEF Stop, Covered, Searching
  <2>3. AssumedInv'
    BY <1>0, <1>19 DEF Stop, AssumedInv, Searching
  <2>4. PassInv'
    BY <1>0, <1>19 DEF Stop, PassInv
  <2>5. AnswerInv'
    BY <1>0, <1>19 DEF Stop, AnswerInv, UnsatSound, UnknownOnlyIfStopped
  <2> QED BY <2>1, <2>2, <2>3, <2>4, <2>5
<1>20. ASSUME UNCHANGED vars \/ Done PROVE SatInv'
  <2>1. UNCHANGED vars
    BY <1>20 DEF Done
  <2> USE DEF vars
  <2>2. TypeOK' /\ Covered'
    BY <2>1 DEF TypeOK, Covered
  <2>3. AssumedInv' /\ PassInv'
    BY <2>1 DEF AssumedInv, PassInv
  <2>4. AnswerInv'
    BY <2>1 DEF AnswerInv, UnsatSound, UnknownOnlyIfStopped
  <2> QED BY <2>2, <2>3, <2>4
<1> QED
  BY <1>1, <1>2, <1>3, <1>4, <1>5, <1>6, <1>7, <1>8, <1>9, <1>10, <1>11, <1>12, <1>13, <1>14, <1>15, <1>16, <1>17, <1>18, <1>19, <1>20
  DEF Next, Step

\* The inductive invariant of a call.
THEOREM SatSafe == Spec => []SatInv
BY SatInvInit, SatInvStep, PTL DEF Spec

\* A call keeps its types: the assignment, the trail and the model stay what they are.
THEOREM SatTypeCorrect == Spec => []TypeOK
<1>1. SatInv => TypeOK
  BY DEF SatInv
<1> QED BY <1>1, SatSafe, PTL

\* An UNSAT answer is true: the search has lost no model.
THEOREM UnsatIsSound == Spec => []UnsatSound
<1>1. SatInv => UnsatSound
  BY DEF SatInv, AnswerInv
<1> QED BY <1>1, SatSafe, PTL

\* DPLL gives up only when it is told to.
THEOREM DpllIsComplete == Spec => []UnknownOnlyIfStopped
<1>1. SatInv => UnknownOnlyIfStopped
  BY DEF SatInv, AnswerInv
<1> QED BY <1>1, SatSafe, PTL

-----------------------------------------------------------------------------
\* Assigning a free literal keeps a branch apart from the others.
LEMMA ApartStays ==
  ASSUME NEW a \in Partial, NEW b, NEW l \in Lits, Free(a, l), Apart(a, b)
  PROVE  Apart(Assign(a, l), b)
<1>1. Var(l) \in Vars
  BY LitFacts
<1>2. PICK v \in Vars : a[v] # "free" /\ b[v] # "free" /\ a[v] # b[v]
  BY DEF Apart
<1>3. Assign(a, l)[v] = a[v]
  BY <1>1, <1>2 DEF Assign, Free, Partial
<1> QED BY <1>2, <1>3 DEF Apart

\* The two branches of a decision are apart.
LEMMA DecisionApart ==
  ASSUME NEW a \in Partial, NEW v \in Vars, a[v] = "free"
  PROVE  /\ v \in Lits /\ -v \in Lits /\ Free(a, v) /\ Free(a, -v)
         /\ Apart(Assign(a, v), Assign(a, -v))
<1>1. v \in Lits /\ -v \in Lits /\ Var(v) = v /\ Var(-v) = v /\ Sign(v) = "true" /\ Sign(-v) = "false"
  <2>1. NumVars \in Nat
    BY SatAssumption DEF SatAssumption
  <2> QED BY <2>1 DEF Lits, Var, Vars, Sign
<1>2. Assign(a, v)[v] = "true" /\ Assign(a, -v)[v] = "false"
  BY <1>1 DEF Assign, Partial
<1> QED BY <1>1, <1>2 DEF Free, Apart

\* Every step keeps the branches apart.
LEMMA BranchesStep == SatInv /\ BranchesApart /\ [Next]_vars => BranchesApart'
<1> SUFFICES ASSUME SatInv, BranchesApart, [Next]_vars, pc' \in Searching PROVE BranchesApart'
  BY DEF BranchesApart
<1>0. TypeOK /\ AssumedInv
  BY DEF SatInv
<1>1. pending \in Seq(Partial) /\ assignment \in Partial /\ Len(pending) \in Nat /\ DOMAIN pending = 1 .. Len(pending)
  BY <1>0 DEF TypeOK
<1>2. CASE AssumeDone
  <2>1. pending' = <<>>
    BY <1>0, <1>2 DEF AssumeDone, AssumedInv
  <2> QED BY <2>1 DEF BranchesApart
<1>3. CASE UnitClause
  <2>1. PICK l \in clauses[index] : Free(assignment, l) /\ assignment' = Assign(assignment, l)
    BY <1>3 DEF UnitClause, FreeIn
  <2>2. l \in Lits
    BY <2>1, <1>0, <1>3, QueryFacts DEF UnitClause, InPass, TypeOK
  <2>3. pending' = pending /\ pc \in Searching
    BY <1>3 DEF UnitClause, InPass, Searching
  <2> QED BY <1>1, <2>1, <2>2, <2>3, ApartStays DEF BranchesApart
<1>4. CASE Backtrack
  <2> DEFINE n == Len(pending)
  <2>1. n \in Nat \ {0}
    BY <1>1, <1>4 DEF Backtrack
  <2>2. assignment' = pending[n] /\ pending' = SubSeq(pending, 1, n - 1) /\ pc \in Searching
    BY <1>4 DEF Backtrack, Falsified, InPass, Searching
  <2>3. DOMAIN pending' = 1 .. n - 1 /\ \A i \in 1 .. n - 1 : pending'[i] = pending[i]
    BY <1>1, <2>1, <2>2
  <2>4. \A i \in 1 .. n : \A j \in 1 .. n : i < j => Apart(pending[i], pending[j])
    BY <1>1, <2>2 DEF BranchesApart
  <2>5. \A i \in 1 .. n - 1 : Apart(pending[n], pending[i])
    BY <2>1, <2>4 DEF Apart
  <2> QED BY <2>1, <2>2, <2>3, <2>4, <2>5 DEF BranchesApart
<1>5. CASE \E v \in Vars : Decide(v)
  <2> DEFINE n == Len(pending)
  <2>1. PICK v \in Vars : Decide(v)
    BY <1>5
  <2> DEFINE f == Assign(assignment, -v)
             t == Assign(assignment, v)
  <2>2. assignment[v] = "free" /\ pending' = Append(pending, f) /\ assignment' = t /\ pc \in Searching
    BY <2>1 DEF Decide, Chosen, Unassigned, Searching
  <2>3. f \in Partial
    BY <1>1, <2>2, DecisionApart, AssignFacts
  <2>4. DOMAIN pending' = 1 .. n + 1 /\ pending'[n + 1] = f /\ \A i \in 1 .. n : pending'[i] = pending[i]
    BY <1>1, <2>2, <2>3
  <2>5. Apart(t, f) /\ \A i \in 1 .. n : Apart(t, pending[i]) /\ Apart(f, pending[i])
    BY <1>1, <2>2, DecisionApart, ApartStays DEF BranchesApart
  <2>6. \A i \in 1 .. n : \A j \in 1 .. n : i < j => Apart(pending[i], pending[j])
    BY <1>1, <2>2 DEF BranchesApart
  <2> HIDE DEF t, f
  <2>7. \A i \in 1 .. n + 1 : Apart(t, pending'[i])
    BY <1>1, <2>4, <2>5
  <2>8. ASSUME NEW i \in 1 .. n + 1, NEW j \in 1 .. n + 1, i < j
        PROVE  Apart(pending'[i], pending'[j])
    <3>1. i \in 1 .. n /\ (j \in 1 .. n \/ j = n + 1)
      BY <1>1, <2>8
    <3>2. Apart(pending[i], f)
      BY <3>1, <2>5 DEF Apart
    <3> QED BY <3>1, <3>2, <2>4, <2>6, <2>8
  <2> QED BY <2>2, <2>4, <2>7, <2>8 DEF BranchesApart
<1>6. CASE \/ GiveUp \/ Begin \/ AssumeConflict \/ AssumeNext \/ EnterSearch \/ StartPass \/ SkipClause
           \/ Exhausted \/ EndPass \/ Found \/ (\E m \in Total : LibraryModel(m)) \/ LibraryUnsat
           \/ LibraryUnknown \/ Validate \/ Stop \/ Done \/ UNCHANGED vars
  <2>1. pc \in Searching /\ pending' = pending /\ assignment' = assignment
    BY <1>6 DEF GiveUp, Begin, AssumeConflict, AssumeNext, EnterSearch, StartPass, SkipClause, InPass,
       Falsified, Exhausted, EndPass, Found, LibraryModel, LibraryUnsat, LibraryUnknown, Validate, Stop, Done,
       Finish, Searching, vars
  <2> QED BY <2>1 DEF BranchesApart
<1> QED BY <1>2, <1>3, <1>4, <1>5, <1>6 DEF Next, Step

\* DpllSolver::search searches no assignment twice, for any CNF and assumptions.
THEOREM NothingSearchedTwice == Spec => []BranchesApart
<1>1. Init => BranchesApart
  BY DEF Init, BranchesApart, Searching
<1>2. SatInv /\ BranchesApart /\ [Next]_vars => BranchesApart'
  BY BranchesStep
<1> QED BY <1>1, <1>2, SatSafe, PTL DEF Spec
=============================================================================
