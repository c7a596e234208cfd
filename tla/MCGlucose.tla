------------------------------ MODULE MCGlucose ------------------------------
(***************************************************************************)
(* Formulas of three to five variables for GlucoseSolver, each chosen for  *)
(* what it makes the code reach.  Literals are written as in a CNF file: 1 *)
(* is variable 0, -1 its negation.                                         *)
(***************************************************************************)
EXTENDS GlucoseSolver

lit(n) == IF n > 0 THEN mkLit(n - 1, FALSE) ELSE mkLit(-n - 1, TRUE)

cnf(f) == [i \in DOMAIN f |-> {lit(n) : n \in f[i]}]

\* Unsatisfiable; the preprocessor finds out while it eliminates.
Full == <<{1,2,3},{1,2,-3},{1,-2,3},{1,-2,-3},{-1,2,3},{-1,2,-3},{-1,-2,3},{-1,-2,-3}>>

\* A unit, a clause and its weaker form, a tautology, clauses that shorten others.
Mixed == <<{3},{1,2,-3},{1,-2,4},{-1,2},{-1,-2,-4,5},{1,2,4},{4,-4,2},{2,5,-3}>>

\* Learnt clauses are minimised in both ways, and some are deleted when their
\* number is reduced.
Minimised == <<{-1,-2,3},{-1,3,4},{1,2,4},{1,2,3,4},{-1,2,4},{2,-3},{1,2,3,-4},{2,-3,-4},{2,3,-4},
               {1,-3,4}>>

\* A learnt clause of improved LBD is kept for a turn; when the strategies are
\* adapted learnt clauses are deleted, or kept for good, one of them twice.
Adapted == <<{-1,-2,3,-4},{-1,2,4},{-2,-3},{1,-2,3,4},{-1,-2},{1,-2,-3,4},{1,-3,4},{1,2,-3},
             {-1,-2,4},{1,2},{1,2,-3,4},{1,-3,-4}>>

\* Variables are eliminated and the search for the others takes several decisions.
Searched == <<{5,3},{-3,-4,1,5},{-3,-1,4},{-4,1,-2},{4,5,2},{-3,-5,-4},{4,-5,-3,-2},{1,5}>>

MCUnprocessed == {cnf(Full), cnf(Minimised), cnf(Adapted)}

MCFormulas == MCUnprocessed \cup {cnf(Mixed), cnf(Searched)}
=============================================================================
