--------------------------- MODULE TestGeneration ---------------------------
(***************************************************************************)
(* What the ATPG flow expects of generateTestBySAT_1: asked for a set of   *)
(* faults it answers with an input vector under which an output differs,   *)
(* or with 0 if there is none.                                             *)
(***************************************************************************)
EXTENDS Integers

CONSTANTS Circuits, FaultSets(_), Vectors, Detects(_, _, _), NoFaults

NoReply == [result |-> -1, testVector |-> << >>]
Redundant == [result |-> 0, testVector |-> << >>]
Test(v) == [result |-> 1, testVector |-> v]

VARIABLES circuit, request, reply

vars == <<circuit, request, reply>>

Init == circuit \in Circuits /\ request = NoFaults /\ reply = NoReply

Ask ==
  /\ request = NoFaults
  /\ request' \in FaultSets(circuit)
  /\ reply' = NoReply
  /\ UNCHANGED circuit

Answer ==
  /\ request # NoFaults
  /\ \/ \E v \in Vectors : Detects(circuit, request, v) /\ reply' = Test(v)
     \/ (\A v \in Vectors : ~ Detects(circuit, request, v)) /\ reply' = Redundant
  /\ request' = NoFaults
  /\ UNCHANGED circuit

Next == Ask \/ Answer

Spec == Init /\ [][Next]_vars
=============================================================================
