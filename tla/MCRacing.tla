------------------------------ MODULE MCRacing ------------------------------
(* Small instances of Racing for TLC. *)
EXTENDS Racing

Sat(m) == [status |-> "sat", model |-> m, block |-> "none", why |-> ""]
Unsat(c) == [status |-> "unsat", model |-> "none", block |-> c, why |-> ""]
Optimum(m, b) == [status |-> "sat", model |-> m, block |-> b, why |-> ""]
Simplified(b) == [status |-> "simplified", model |-> "none", block |-> b, why |-> ""]
Failed == [status |-> "error", model |-> "none", block |-> "none", why |-> ""]

\* A verdict without its model, an optimum with value and model (for SOLVE it is a
\* SAT with a model), UNSAT with a core, both kinds of simplified expression, a
\* backend's own UNKNOWN, and an error.
MostResults == {Optimum("ok", "ok"), Sat("none"), Unsat("ok"), Simplified("bad"),
                Simplified("ok"), Unknown("solver"), Failed}

\* Two conclusive verdicts that contradict each other, one verdict that lacks its
\* model, and no verdict.
FewResults == {Sat("ok"), Sat("none"), Unsat("ok"), Unknown("solver")}

Solve(n, budget) == [n |-> n, command |-> "solve", wantModel |-> TRUE, wantCore |-> TRUE,
                     budget |-> budget, defaultBudget |-> FALSE]

\* SOLVE with both artifacts to three backends under a budget and to two without,
\* and every command and every choice of artifacts to fewer.
SomeJobs == {Solve(3, TRUE), Solve(2, FALSE)}
            \cup {j \in Job : j.n < 2 \/ (j.n = 2 /\ j.budget /\ ~ j.defaultBudget)}

\* A race of all the backends under a budget.
RaceJobs == {Solve(MaxBackends, TRUE)}
=============================================================================
