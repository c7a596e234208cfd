-------------------------- MODULE MCPreprocessing --------------------------
(***************************************************************************)
(* What a circuit goes through before faults are searched for: the         *)
(* constructor of a file (CircuitBuild), then the elimination of redundant *)
(* pairs (DSARedundancy) on what it has built, theCircuit and the same     *)
(* gateToRelatedGates.  In between the first phase finds out which single  *)
(* faults are redundant.                                                   *)
(*                                                                         *)
(* Two inputs (wires 0, 1), two gates (wires 2, 3), two outputs.  Wire 4   *)
(* is driven by nothing.                                                   *)
(***************************************************************************)
EXTENDS DSARedundancy, Sequences

CONSTANT Files

VARIABLES
  file, buildPc, line, stillIn, stillOut, POTemp, theCircuit, MapNumWire, fanouts, cur,
  levelToGate, reverseLevelToGate, twoFanoutGateToReconvGate

Build == INSTANCE CircuitBuild WITH pc <- buildPc

ASSUME FilesAssumption == Build!FilesAssumption

buildVars == <<file, buildPc, line, stillIn, stillOut, POTemp, theCircuit, MapNumWire, fanouts, cur,
               levelToGate, reverseLevelToGate, gateToRelatedGates, twoFanoutGateToReconvGate>>
pairVars == <<netlist, redundantSSAF, pc, todo, deleteDSAs, undetectedDSA, redundantDSAF>>
allVars == <<buildVars, pairVars>>

PreprocessingInit ==
  /\ Build!Init
  /\ pc = "constructor" /\ netlist = << >>
  /\ redundantSSAF = {} /\ todo = {} /\ deleteDSAs = {} /\ undetectedDSA = {} /\ redundantDSAF = {}

Constructor == Build!Next /\ UNCHANGED pairVars

\* ATPGInit comes to pairUndetectedDSAF.  What becomes of circuits that the
\* other modules leave out is left out here, too.
enterPairing ==
  /\ pc = "constructor" /\ buildPc = "done"
  /\ WellFormed(Build!Net) /\ NoDangling(Build!Net)
  /\ netlist' = Build!Net
  /\ redundantSSAF' = Redundant(Build!Net)
  /\ todo' = redundantSSAF'
  /\ pc' = "delete"
  /\ UNCHANGED <<buildVars, deleteDSAs, undetectedDSA, redundantDSAF>>

Pairing == Next /\ UNCHANGED buildVars

PreprocessingNext == Constructor \/ enterPairing \/ Pairing

PreprocessingSpec == PreprocessingInit /\ [][PreprocessingNext]_allVars /\ WF_allVars(PreprocessingNext)

\* connectGates: pointers agree with each other and with the file.
ConnectionsExact == Build!ConnectionsExact

\* pairGateWithRelatedGates: the entries are the cones that the simulators, the
\* solver and the elimination of pairs count on, unless gate 0 has none.
ConesExact == Build!ConesExact

\* findTwoFanouts: the gate found lies on both branches.
ReconvergenceSound == Build!ReconvergenceSound

\* The constructor ends on every file of a good circuit.
GoodFileIsRead == Build!GoodFileIsRead
-----------------------------------------------------------------------------
InLine(key, cont, wires) == [key |-> key, cont |-> cont, wires |-> wires, gate |-> PIGate]
GateLine(gate, a, b, out) == [key |-> "names", cont |-> FALSE, wires |-> <<a, b, out>>, gate |-> gate]
NoWire == -1   \* as in the constructor
Aig == AigGate(NoGate, NoGate, 1, 1, 1)
BufInv == BufInvGate(NoGate, 1, 0)

\* The lines of a gate that drives wire out.
GateLines(out, ins) ==
  {GateLine(Aig, a, b, out) : a \in ins, b \in ins} \cup {GateLine(BufInv, a, NoWire, out) : a \in ins} \cup
  {GateLine(ConstantGate(1), NoWire, NoWire, out)}

\* Outputs on one line or, continued, on two; inputs continued.
File(g2, g3, p, q) ==
  <<InLine("inputs", TRUE, <<0>>), InLine("other", FALSE, <<1>>), InLine("outputs", FALSE, <<p, q>>),
    g2, g3, InLine("other", FALSE, << >>)>>
FileContinued(g2, g3, p, q) ==
  <<InLine("inputs", FALSE, <<0, 1>>), InLine("outputs", TRUE, <<p>>), InLine("names", FALSE, <<q>>), g2, g3>>

MCFiles ==
  {File(g2, g3, pq[1], pq[2]) : g2 \in GateLines(2, {0, 1, 4}), g3 \in GateLines(3, {0, 1, 2, 4}),
     pq \in {<<3, 3>>, <<3, 2>>, <<3, 4>>, <<0, 3>>}} \cup
  {File(g2, g3, 0, 1) : g2 \in GateLines(2, {0}), g3 \in GateLines(3, {1, 2})} \cup
  {FileContinued(g2, g3, 2, 3) : g2 \in GateLines(2, {1, 3}), g3 \in GateLines(3, {0, 1})} \cup
  {FileContinued(g2, GateLine(PIGate, 0, 1, 3), 2, 3) : g2 \in GateLines(2, {0, 1})} \cup
  {FileContinued(GateLine(Aig, 3, 0, 2), g3, 2, 3) : g3 \in GateLines(3, {1, 2})}
=============================================================================
