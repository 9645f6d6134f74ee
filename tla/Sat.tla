--------------------------------- MODULE Sat ---------------------------------
(***************************************************************************)
(* solve_cnf_with_cancellation (crates/qfbvsmtrs/src/sat.rs): the built-in *)
(* DPLL search, the two library solvers it can be replaced by, the polling *)
(* of deadline and token, and the check every SAT assignment goes through. *)
(*                                                                         *)
(* A literal is a non-zero integer, a clause a set of literals (the        *)
(* encoder's push_clause removes duplicates).  The recursion of `search'   *)
(* is the stack `pending' of the false branches still to be tried.         *)
(***************************************************************************)
EXTENDS Integers, Sequences, FiniteSets

CONSTANTS
  NumVars,        \* CNF variables are 1..NumVars
  Formulas,       \* the clause lists solved
  AssumptionLists \* the assumption lists they are solved under

Vars == 1..NumVars
Lits == {l \in -NumVars..NumVars : l # 0}
Kinds == {"dpll", "splr", "varisat"}

ASSUME SatAssumption ==
  /\ NumVars \in Nat
  /\ Formulas \subseteq Seq(SUBSET Lits)
  /\ AssumptionLists \subseteq Seq(Lits)

VARIABLES
  kind,         \* SatBackendKind
  clauses, assumptions,
  bounded,      \* the call has a deadline
  stopped,      \* the deadline has passed or the token is set
  pc,
  assignment,   \* Vec<Option<bool>>: "true", "false" or "free"
  pending,      \* false branches of the calls of search that are in their true branch
  index,        \* the assumption or clause to be looked at next
  changed,      \* unit_propagate's flag
  model,        \* the assignment found
  answer        \* "none", "sat", "unsat" or "unknown"

query == <<kind, clauses, assumptions, bounded>>
vars == <<query, stopped, pc, assignment, pending, index, changed, model, answer>>

-----------------------------------------------------------------------------
Var(l) == IF l < 0 THEN -l ELSE l
Sign(l) == IF l > 0 THEN "true" ELSE "false"

Partial == [Vars -> {"true", "false", "free"}]
Total == [Vars -> {"true", "false"}]

Holds(a, l) == a[Var(l)] = Sign(l)
Free(a, l) == a[Var(l)] = "free"
Assign(a, l) == [a EXCEPT ![Var(l)] = Sign(l)]

SatisfiedClause(a, c) == \E l \in c : Holds(a, l)
AllClausesSatisfied(cs, a) == \A i \in DOMAIN cs : SatisfiedClause(a, cs[i])

Unassigned(a) == {v \in Vars : a[v] = "free"}

\* How often a variable occurs; choose_var takes the last of the most frequent
\* (max_by_key returns the last maximum).
Score(v) == Cardinality({i \in DOMAIN clauses : v \in clauses[i]})
            + Cardinality({i \in DOMAIN clauses : -v \in clauses[i]})
Chosen(a, v) ==
  /\ v \in Unassigned(a)
  /\ \A w \in Unassigned(a) : Score(w) < Score(v) \/ (Score(w) = Score(v) /\ w <= v)

Init ==
  /\ kind \in Kinds /\ clauses \in Formulas /\ assumptions \in AssumptionLists
  /\ bounded \in BOOLEAN /\ stopped \in BOOLEAN
  /\ pc = "call"
  /\ assignment = [v \in Vars |-> "free"]
  /\ pending = <<>> /\ index = 1 /\ changed = FALSE
  /\ model = [v \in Vars |-> "false"] /\ answer = "none"

-----------------------------------------------------------------------------
\* The token is set, or a deadline passes, at any time.
Stop ==
  /\ ~stopped /\ stopped' = TRUE
  /\ UNCHANGED <<query, pc, assignment, pending, index, changed, model, answer>>

Finish(result) ==
  /\ answer' = result /\ pc' = "done"
  /\ UNCHANGED <<query, stopped, assignment, pending, index, changed, model>>

\* The limits are looked at on entry, at every call of search and before every
\* pass over the clauses.
GiveUp == pc \in {"call", "search", "pass"} /\ stopped /\ Finish("unknown")

Begin ==
  /\ pc = "call" /\ ~stopped
  /\ pc' = IF kind = "dpll" THEN "assume" ELSE "library"
  /\ UNCHANGED <<query, stopped, assignment, pending, index, changed, model, answer>>

-----------------------------------------------------------------------------
\* DpllSolver::solve.

Conflicting(l) == ~Free(assignment, l) /\ ~Holds(assignment, l)

AssumeConflict ==
  /\ pc = "assume" /\ index <= Len(assumptions) /\ Conflicting(assumptions[index])
  /\ Finish("unsat")

AssumeNext ==
  /\ pc = "assume" /\ index <= Len(assumptions) /\ ~Conflicting(assumptions[index])
  /\ assignment' = Assign(assignment, assumptions[index])
  /\ index' = index + 1
  /\ UNCHANGED <<query, stopped, pc, pending, changed, model, answer>>

AssumeDone ==
  /\ pc = "assume" /\ index > Len(assumptions)
  /\ pc' = "search"
  /\ UNCHANGED <<query, stopped, assignment, pending, index, changed, model, answer>>

\* DpllSolver::search, and the passes of unit_propagate.

EnterSearch ==
  /\ pc = "search" /\ ~stopped
  /\ pc' = "pass"
  /\ UNCHANGED <<query, stopped, assignment, pending, index, changed, model, answer>>

StartPass ==
  /\ pc = "pass" /\ ~stopped
  /\ pc' = "clause" /\ index' = 1 /\ changed' = FALSE
  /\ UNCHANGED <<query, stopped, assignment, pending, model, answer>>

InPass == pc = "clause" /\ index <= Len(clauses)
FreeIn(c) == {l \in c : Free(assignment, l)}

\* A clause that holds, or has two or more unassigned literals.
SkipClause ==
  /\ InPass
  /\ \/ SatisfiedClause(assignment, clauses[index])
     \/ \E l, k \in FreeIn(clauses[index]) : l # k
  /\ index' = index + 1
  /\ UNCHANGED <<query, stopped, pc, assignment, pending, changed, model, answer>>

UnitClause ==
  /\ InPass /\ ~SatisfiedClause(assignment, clauses[index])
  /\ \E l \in clauses[index] :
       FreeIn(clauses[index]) = {l} /\ assignment' = Assign(assignment, l)
  /\ index' = index + 1 /\ changed' = TRUE
  /\ UNCHANGED <<query, stopped, pc, pending, model, answer>>

Falsified == InPass /\ ~SatisfiedClause(assignment, clauses[index]) /\ FreeIn(clauses[index]) = {}

\* Mutant: the false branch is forgotten.
BacktrackAll ==
  /\ Falsified /\ pending # <<>>
  /\ Finish("unsat")

\* Mutant: the same branch is searched again.
BacktrackKeep ==
  /\ Falsified /\ pending # <<>>
  /\ assignment' = pending[Len(pending)]
  /\ pc' = "search"
  /\ UNCHANGED <<query, stopped, pending, index, changed, model, answer>>

\* search returns None to the innermost call that has its false branch to try.
Backtrack ==
  /\ Falsified /\ pending # <<>>
  /\ assignment' = pending[Len(pending)]
  /\ pending' = SubSeq(pending, 1, Len(pending) - 1)
  /\ pc' = "search"
  /\ UNCHANGED <<query, stopped, index, changed, model, answer>>

\* No call is left: the search is exhausted.
Exhausted == Falsified /\ pending = <<>> /\ Finish("unsat")

\* Mutant: one pass of propagation is taken to be enough.
EndPassEarly ==
  /\ pc = "clause" /\ index > Len(clauses)
  /\ pc' = "decide"
  /\ UNCHANGED <<query, stopped, assignment, pending, index, changed, model, answer>>

EndPass ==
  /\ pc = "clause" /\ index > Len(clauses)
  /\ pc' = IF changed THEN "pass" ELSE "decide"
  /\ UNCHANGED <<query, stopped, assignment, pending, index, changed, model, answer>>

\* A model: what is unassigned is false.
Found ==
  /\ pc = "decide"
  /\ AllClausesSatisfied(clauses, assignment) \/ Unassigned(assignment) = {}
  /\ model' = [v \in Vars |-> IF assignment[v] = "free" THEN "false" ELSE assignment[v]]
  /\ pc' = "validate"
  /\ UNCHANGED <<query, stopped, assignment, pending, index, changed, answer>>

\* Mutant: the false branch is kept without its decision.
DecideTwice(v) ==
  /\ pc = "decide" /\ ~AllClausesSatisfied(clauses, assignment) /\ Chosen(assignment, v)
  /\ pending' = Append(pending, assignment)
  /\ assignment' = Assign(assignment, v)
  /\ pc' = "search"
  /\ UNCHANGED <<query, stopped, index, changed, model, answer>>

Decide(v) ==
  /\ pc = "decide" /\ ~AllClausesSatisfied(clauses, assignment) /\ Chosen(assignment, v)
  /\ pending' = Append(pending, Assign(assignment, -v))
  /\ assignment' = Assign(assignment, v)
  /\ pc' = "search"
  /\ UNCHANGED <<query, stopped, index, changed, model, answer>>

-----------------------------------------------------------------------------
\* sat_assignment_satisfies.
Assumed(ls, a) == \A i \in DOMAIN ls : Holds(a, ls[i])
Satisfies(cs, ls, m) == Assumed(ls, m) /\ AllClausesSatisfied(cs, m)

\* splr and varisat are libraries: they are trusted for UNSAT, may panic, fail or
\* time out, and may return any assignment.  varisat is not called with a deadline.
LibraryModel(m) ==
  /\ pc = "library" /\ ~(kind = "varisat" /\ bounded)
  /\ model' = m /\ pc' = "validate"
  /\ UNCHANGED <<query, stopped, assignment, pending, index, changed, answer>>

LibraryUnsat ==
  /\ pc = "library" /\ ~(kind = "varisat" /\ bounded)
  /\ \A m \in Total : ~Satisfies(clauses, assumptions, m)
  /\ Finish("unsat")

LibraryUnknown == pc = "library" /\ Finish("unknown")

\* A SAT assignment that does not satisfy the formula is turned into UNKNOWN.
Validate == /\ pc = "validate"
            /\ Finish(IF Satisfies(clauses, assumptions, model) THEN "sat" ELSE "unknown")

Done == pc = "done" /\ UNCHANGED vars

-----------------------------------------------------------------------------
Step ==
  \/ GiveUp \/ Begin
  \/ AssumeConflict \/ AssumeNext \/ AssumeDone
  \/ EnterSearch \/ StartPass \/ SkipClause \/ UnitClause \/ Backtrack \/ Exhausted \/ EndPass
  \/ Found \/ (\E v \in Vars : Decide(v))
  \/ (\E m \in Total : LibraryModel(m)) \/ LibraryUnsat \/ LibraryUnknown
  \/ Validate

Next == Step \/ Stop \/ Done

Spec == Init /\ [][Next]_vars
\* The calling thread runs; the library solvers return (splr has a time limit).
FairSpec == Spec /\ WF_vars(Step)

-----------------------------------------------------------------------------
\* Properties.

Places == {"call", "assume", "search", "pass", "clause", "decide", "library",
           "validate", "done"}

Searching == {"search", "pass", "clause", "decide"}

\* Every variable has its type.
TypeOK ==
  /\ kind \in Kinds /\ clauses \in Formulas /\ assumptions \in AssumptionLists
  /\ bounded \in BOOLEAN /\ stopped \in BOOLEAN /\ changed \in BOOLEAN
  /\ pc \in Places /\ index \in Nat \ {0}
  /\ assignment \in Partial /\ pending \in Seq(Partial) /\ model \in Total
  /\ answer \in {"none", "sat", "unsat", "unknown"}

\* UNSAT is the truth: no assignment satisfies the clauses and the assumptions,
\* although branches are dropped, popped and cut short by unit propagation.
UnsatSound == answer = "unsat" => \A m \in Total : ~Satisfies(clauses, assumptions, m)

\* No assignment is searched twice: however decisions, propagation and backtracking
\* follow each other, the branch being searched and the ones still to be searched
\* exclude each other, two and two, by a variable that both have assigned.
Apart(a, b) == \E v \in Vars : a[v] # "free" /\ b[v] # "free" /\ a[v] # b[v]
BranchesApart ==
  pc \in Searching =>
    /\ \A i \in DOMAIN pending : Apart(assignment, pending[i])
    /\ \A i, j \in DOMAIN pending : i < j => Apart(pending[i], pending[j])

\* The DPLL search is complete: it answers UNKNOWN only when told to stop, so the
\* validator never rejects what it found.
UnknownOnlyIfStopped == kind = "dpll" /\ answer = "unknown" => stopped

\* Every call ends.
Terminates == <>(pc = "done")

-----------------------------------------------------------------------------
\* The inductive invariant.

Agrees(m, a) == \A v \in Vars : a[v] = "free" \/ a[v] = m[v]

\* No model is lost: each one agrees with the current branch or a pending one.
Covered ==
  pc \in Searching =>
    \A m \in Total : Satisfies(clauses, assumptions, m) =>
      Agrees(m, assignment) \/ \E i \in DOMAIN pending : Agrees(m, pending[i])

\* Before the search, the assumptions looked at hold and nothing else is assigned;
\* from then on all of them hold on every branch.
AssumedInv ==
  /\ pc \in {"call", "library"} => index = 1 /\ pending = <<>>
                                   /\ assignment = [v \in Vars |-> "free"]
  /\ pc = "assume" =>
       /\ pending = <<>>
       /\ \A i \in DOMAIN assumptions : i < index => Holds(assignment, assumptions[i])
       /\ \A m \in Total : Satisfies(clauses, assumptions, m) => Agrees(m, assignment)
  /\ pc \in Searching =>
       Assumed(assumptions, assignment) /\ \A i \in DOMAIN pending : Assumed(assumptions, pending[i])

\* A pass that changed nothing leaves no falsified clause and no unit clause
\* behind it.
Alive(a, c) == \E l \in c : Holds(a, l) \/ Free(a, l)
PassInv ==
  /\ pc = "clause" /\ ~changed =>
       \A i \in DOMAIN clauses : i < index => Alive(assignment, clauses[i])
  /\ pc = "decide" => \A i \in DOMAIN clauses : Alive(assignment, clauses[i])

AnswerInv ==
  /\ pc \in {"search", "pass", "clause", "decide", "assume"} => kind = "dpll"
  /\ pc # "done" => answer = "none"
  /\ pc = "library" => kind # "dpll"
  /\ pc = "validate" /\ kind = "dpll" => Satisfies(clauses, assumptions, model)
  /\ UnsatSound /\ UnknownOnlyIfStopped

SatInv == TypeOK /\ Covered /\ AssumedInv /\ PassInv /\ AnswerInv
=============================================================================
