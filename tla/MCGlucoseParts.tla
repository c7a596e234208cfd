--------------------------- MODULE MCGlucoseParts ---------------------------
(***************************************************************************)
(* Rings of one to three places; two clauses and up to four of them in a   *)
(* queue, whose buffer has 1, 2, 3 and 5 places; ints of six bits; three   *)
(* threads with a buffer of 13 words that two clauses of five or six words *)
(* fill, and three clauses, the last of which goes round it; two threads   *)
(* on formulas of two variables with none, one, two and three models, one  *)
(* of the variables eliminated before or none.                             *)
(***************************************************************************)
EXTENDS GlucoseParts

MCValues == {0, 1, 3}
MCSizes == 1 .. 3
MCSharedClauses == {<<7, 8>>, <<9, 7, 8>>}

MCVars == {"x", "y"}
Assignment(a, b) == [v \in MCVars |-> IF v = "x" THEN a ELSE b]
MCFormulas ==
    {{}, {Assignment(TRUE, FALSE)}, {Assignment(TRUE, FALSE), Assignment(FALSE, TRUE)},
     [MCVars -> BOOLEAN] \ {Assignment(TRUE, TRUE)}}
MCEliminations == {{}, {"y"}}
=============================================================================
