------------------------------- MODULE MCATPG -------------------------------
(***************************************************************************)
(* Instances of the flow over three faults, of which 10 and 11 are in the  *)
(* collapsed list.  In the first tables 12 is equivalent to 11, and every  *)
(* behaviour of the two over two patterns is tried: their pair may be      *)
(* detected where both are redundant, masked where both are detected, and  *)
(* so on.  In the others at most one pattern detects each set of faults,   *)
(* 12 is redundant on its own, and the third phase has work to do.         *)
(***************************************************************************)
EXTENDS ATPG

MCPatterns == {"p", "q"}
ShortLists == UNION {[1 .. n -> MCPatterns] : n \in 0 .. 2}

Three == {10, 11, 12}
Collapsed == {10, 11}
ThreeMultiple == {{f, g, h} : f \in Three, g \in Three, h \in Three}

\* F with 12 replaced by its equivalent
Representatives(F) == {IF f = 12 THEN 11 ELSE f : f \in F}
EquivalentTables ==
  {[F \in ThreeMultiple |-> two[Representatives(F)]] :
     two \in [{{f, g} : f \in Collapsed, g \in Collapsed} -> SUBSET MCPatterns]}

SparseTables ==
  {[F \in ThreeMultiple |->
      CASE F = {10} -> {"p"}
        [] F = {11} -> single
        [] F = {12} -> {}
        [] Cardinality(F) = 2 -> IF 12 \in F THEN double12 ELSE double
        [] OTHER -> triple] :
     single \in {{"p"}, {}}, double \in {{}, {"q"}}, double12 \in {{}, {"p"}, {"q"}}, triple \in {{}, {"q"}, {"p"}}}
MCTables == EquivalentTables \cup SparseTables

MCBlockLists == {{}, {11}, {11, 12}, {10, 11, 12}}
MCDSABlockLists == {{}} \cup {{D} : D \in {{f, g} : f \in Three, g \in Three}}
=============================================================================
