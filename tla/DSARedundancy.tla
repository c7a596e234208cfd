---------------------------- MODULE DSARedundancy ----------------------------
(***************************************************************************)
(* The second half of pairUndetectedDSAF in inc/ATPG.h, on real netlists:  *)
(* what becomes of the pairs of single faults that are each redundant.     *)
(* deleteDSARedundantPairs walks from every redundant fault towards the    *)
(* outputs and collects the redundant faults on its way; of the remaining  *)
(* pairs those on gates that are related to each other are kept for the    *)
(* SAT solver.  All others are declared redundant here and now.            *)
(***************************************************************************)
EXTENDS Netlist

CONSTANT Netlists    \* the circuits considered

ASSUME NetlistsAssumption ==
  \A net \in Netlists : WellFormed(net) /\ NoDangling(net)

VARIABLES
  netlist,         \* the circuit; never changes
  gateToRelatedGates, \* its cones; never change
  redundantSSAF,   \* as the first phase leaves it; never changes
  pc,
  todo,            \* redundant faults the running loop has not reached
  deleteDSAs, undetectedDSA, redundantDSAF

vars == <<netlist, gateToRelatedGates, redundantSSAF, pc, todo, deleteDSAs, undetectedDSA, redundantDSAF>>

Patterns == [PIs -> Bit]
Detectable(net, faults) == \E pattern \in Patterns : RefDetects(net, faults, pattern)

\* What generateTestBySAT_1 has answered 0 for.
Redundant(net) == {f \in allSSAFList(net) : ~ Detectable(net, {f})}

First(S) == {x \in S : \A y \in S : x <= y}

FaultsAt(g, port) == {FaultID(g, port, v) : v \in Bit} \cap redundantSSAF

\* Broken variant: the ports are swapped.
PortFrom_Swapped(preGate, gate) == IF netlist[gate].fanin1 = preGate THEN 2 ELSE 1

\* The port of gate that preGate drives; the first one if it drives both.
PortFrom(preGate, gate) == IF netlist[gate].fanin1 = preGate THEN 1 ELSE 2

\* checkPath: the walk ends at the primary outputs, whose faults it leaves out.
checkPath ==
  LET below[i \in GateID] ==
        LET g == Size - 1 - i
            through(h) == FaultsAt(h, PortFrom(g, h)) \cup below[Size - 1 - h]
        IN IF netlist[g].gateType = "PO" THEN {}
           ELSE FaultsAt(g, 3) \cup
                UNION {through(h) : h \in {x \in Fanouts(netlist, g) : netlist[x].gateType # "PO"}}
  IN [g \in GateID |-> below[Size - 1 - g]]

Init ==
  /\ netlist \in Netlists
  /\ gateToRelatedGates = [g \in GateID |-> RelatedGates(netlist, g)]
  /\ redundantSSAF = Redundant(netlist)
  /\ pc = "delete"
  /\ todo = redundantSSAF
  /\ deleteDSAs = {} /\ undetectedDSA = {} /\ redundantDSAF = {}

\* One round of deleteDSARedundantPairs.
DeletePairs ==
  /\ pc = "delete"
  /\ \E f \in First(todo) :
       /\ deleteDSAs' = deleteDSAs \cup {{f, another} : another \in checkPath[faultGate(f)]}
       /\ todo' = todo \ {f}
  /\ UNCHANGED <<netlist, gateToRelatedGates, redundantSSAF, pc, undetectedDSA, redundantDSAF>>

DeletePairsDone ==
  /\ pc = "delete"
  /\ todo = {}
  /\ todo' = redundantSSAF
  /\ pc' = "pair"
  /\ UNCHANGED <<netlist, gateToRelatedGates, redundantSSAF, deleteDSAs, undetectedDSA, redundantDSAF>>

\* isSet both ways: each gate is in the related gates of the other.
MutuallyRelated(f, g) ==
  /\ faultGate(g) \in gateToRelatedGates[faultGate(f)]
  /\ faultGate(f) \in gateToRelatedGates[faultGate(g)]

\* One round of the outer loop of the pairing: f with every later fault.
PairRedundant ==
  /\ pc = "pair"
  /\ \E f \in First(todo) :
       LET later == todo \ {f}
           kept == {g \in later : MutuallyRelated(f, g) /\ {f, g} \notin deleteDSAs}
       IN /\ undetectedDSA' = undetectedDSA \cup {{f, g} : g \in kept}
          /\ redundantDSAF' = redundantDSAF \cup {{f, g} : g \in later \ kept}
          /\ todo' = later
  /\ UNCHANGED <<netlist, gateToRelatedGates, redundantSSAF, pc, deleteDSAs>>

PairRedundantDone ==
  /\ pc = "pair"
  /\ todo = {}
  /\ pc' = "done"
  /\ UNCHANGED <<netlist, gateToRelatedGates, redundantSSAF, todo, deleteDSAs, undetectedDSA, redundantDSAF>>

Next == DeletePairs \/ DeletePairsDone \/ PairRedundant \/ PairRedundantDone

Spec == Init /\ [][Next]_vars
-----------------------------------------------------------------------------
\* The line of a fault that is not at a primary output lies on a path that
\* starts at gate g's output.
OnPathFrom(g, fault) ==
  LET h == faultGate(fault)
  IN /\ netlist[h].gateType # "PO"
     /\ CASE faultPort(fault) = 1 -> netlist[h].fanin1 \in FanoutCone(netlist, g)
          [] faultPort(fault) = 2 -> netlist[h].fanin2 \in FanoutCone(netlist, g)
          [] OTHER -> h \in FanoutCone(netlist, g)

\* An AIG that reads one gate on both inputs: the walk visits its first port only.
TwinInput(fault) ==
  faultPort(fault) = 2 /\ netlist[faultGate(fault)].fanin1 = netlist[faultGate(fault)].fanin2

\* The walk collects exactly the pairs one of whose lines is on a path from
\* the gate of the other.
OnePathPairsExact ==
  pc = "done" =>
    deleteDSAs =
      UNION {{{f, g} : g \in {h \in redundantSSAF : OnPathFrom(faultGate(f), h) /\ ~ TwinInput(h)}} :
             f \in redundantSSAF}

InputsReach(P) == \A f \in P : ReachedFromPI(netlist, faultGate(f))

\* No pair of redundant faults is both kept and declared redundant, and every
\* pair that a pattern detects, unless its lines are on one path, is kept for
\* the SAT solver: on gates that are not related to each other no output sees
\* both faults.
DetectablePairsKept ==
  pc = "done" =>
    /\ undetectedDSA \cap redundantDSAF = {}
    /\ \A P \in {{f, g} : f \in redundantSSAF, g \in redundantSSAF} :
         InputsReach(P) /\ Cardinality(P) = 2 /\ Detectable(netlist, P)
           => P \in undetectedDSA \cup deleteDSAs

\* What the program prints of the pairs on one path: must be redundant.
OnePathPairsRedundant ==
  pc = "done" => \A P \in redundantDSAF \cap deleteDSAs : ~ Detectable(netlist, P)
=============================================================================
