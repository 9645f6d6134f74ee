---------------------------- MODULE RaceContract ----------------------------
(***************************************************************************)
(* What the racing layer promises its caller, without threads, channel or  *)
(* tokens (docs/architecture.md: "returns the first conclusive answer").   *)
(* Results are offered one by one; the race is over when it has answered.  *)
(* The answer is a conclusive offer with no conclusive offer before it, or *)
(* an UNKNOWN, and an UNKNOWN only once the time is up or the field is     *)
(* closed without a conclusive offer.                                      *)
(***************************************************************************)
EXTENDS Naturals, Sequences

CONSTANTS
  Results,        \* the results a backend can offer
  Answers,        \* the answers, UNKNOWN ones among them
  Unknowns,       \* the answers that are UNKNOWN
  Undecided       \* the answer before there is one

VARIABLES
  offered,        \* the results offered so far, and whether each one decides
  closed,         \* no further offer can come
  timeUp,         \* the budget is used up
  answer

contractVars == <<offered, closed, timeUp, answer>>

ContractInit ==
  /\ offered = <<>> /\ closed = FALSE /\ timeUp = FALSE /\ answer = Undecided

Offer ==
  /\ ~closed
  /\ \E r \in Results, d \in BOOLEAN :
       offered' = Append(offered, [result |-> r, decides |-> d])
  /\ closed' \in BOOLEAN          \* the last offer may close the field
  /\ UNCHANGED <<timeUp, answer>>

Close == ~closed /\ closed' = TRUE /\ UNCHANGED <<offered, timeUp, answer>>
TimeUp == ~timeUp /\ timeUp' = TRUE /\ UNCHANGED <<offered, closed, answer>>

NoneDecides == \A i \in DOMAIN offered : ~offered[i].decides

Decide ==
  /\ answer = Undecided
  /\ answer' \in Answers
  /\ \/ \E i \in DOMAIN offered :
          /\ answer' = offered[i].result /\ offered[i].decides
          /\ \A j \in 1..(i - 1) : ~offered[j].decides
     \/ answer' \in Unknowns /\ (timeUp \/ (closed /\ NoneDecides))
  /\ UNCHANGED <<offered, closed, timeUp>>

ContractNext == Offer \/ Close \/ TimeUp \/ Decide
ContractSpec == ContractInit /\ [][ContractNext]_contractVars
=============================================================================
