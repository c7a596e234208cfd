----------------------------- MODULE SATPromise -----------------------------
(***************************************************************************)
(* What a caller of the solver may rely on: the answer comes, it is        *)
(* "True" only with an assignment of all the variables that satisfies the  *)
(* formula, and "False" only if no assignment does.  This is the promise   *)
(* TestGeneration and IncrementalCNF build on.                             *)
(***************************************************************************)
EXTENDS Clauses

VARIABLES formula, \* a sequence of clauses, each a set of literals
          answer,  \* "None" until solveLimited() returns
          model

clausesOf(f) == ToSet(f)

variablesOf(f) == 0 .. Max(vars(UNION ToSet(f)))

Init == answer = "None" /\ model = {}

Answer ==
    /\ answer = "None"
    /\ LET solutions == Models(variablesOf(formula), clausesOf(formula))
       IN \/ answer' = "True" /\ model' \in solutions
          \/ answer' = "False" /\ solutions = {} /\ UNCHANGED model
    /\ UNCHANGED formula

\* The same as weak fairness of Answer, which is enabled until there is an answer.
Spec == Init /\ [][Answer]_<<formula, answer, model>> /\ <>(answer # "None")
=============================================================================
