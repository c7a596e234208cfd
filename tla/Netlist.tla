------------------------------ MODULE Netlist ------------------------------
(***************************************************************************)
(* The circuit as inc/Circuit.h leaves it: a vector of gates in which the  *)
(* primary inputs come first, the gates of the file follow in file order   *)
(* and the primary outputs come last, together with the cones and the      *)
(* fault lists that the rest of the program derives from it.               *)
(***************************************************************************)
EXTENDS Gate, FiniteSets

CONSTANTS
  PISize,     \* number of primary inputs
  gateSize,   \* number of constants, buffers, inverters and AIGs
  POSize      \* number of primary outputs

ASSUME SizeAssumption ==
  PISize \in Nat /\ gateSize \in Nat /\ POSize \in Nat

Size == PISize + gateSize + POSize
GateID == 0 .. (Size - 1)
PIs == 0 .. (PISize - 1)
POs == (PISize + gateSize) .. (Size - 1)

Fanins(net, g) ==
  CASE net[g].gateType = "aig"            -> {net[g].fanin1, net[g].fanin2}
    [] net[g].gateType \in {"bufInv","PO"} -> {net[g].fanin1}
    [] OTHER                              -> {}

\* What the parser and connectGates build from a file whose .names lines are
\* sorted, as those written by abc are: every fanin precedes its gate.
WellFormed(net) ==
  /\ net \in [GateID -> Gate]
  /\ \A g \in GateID :
       /\ g \in PIs <=> net[g].gateType = "PI"
       /\ g \in POs <=> net[g].gateType = "PO"
       /\ net[g].gateType \in {"PI", "constant"} => net[g].fanin1 = NoGate
       /\ net[g].gateType # "aig" => net[g].fanin2 = NoGate
       /\ net[g].gateType \in {"PI", "constant", "PO"} => net[g].invIn1 = 1 /\ net[g].invOut = 1
       /\ \A f \in Fanins(net, g) : f \in GateID /\ f < g /\ f \notin POs

Fanouts(net, g) == {h \in GateID : g \in Fanins(net, h)}

\* fanout.size(): an AIG that reads g on both inputs is in the list twice.
fanoutSize(net, g) ==
  Cardinality(Fanouts(net, g)) +
  Cardinality({h \in GateID : net[h].gateType = "aig" /\ net[h].fanin1 = g /\ net[h].fanin2 = g})

\* Cones.  The gates whose value g depends on, itself among them.
FaninCone(net, g) ==
  LET cone[h \in GateID] == {h} \cup UNION {cone[f] : f \in Fanins(net, h)}
  IN cone[g]

\* The gates a change of g can reach.
FanoutCone(net, g) == {h \in GateID : g \in FaninCone(net, h)}

\* No gate of the file is left without a path to a primary output.
NoDangling(net) == \A g \in GateID : FanoutCone(net, g) \cap POs # {}

\* Gates reached from a primary input: the only ones assignReverseLevelToGate
\* visits.
ReachedFromPI(net, g) == FaninCone(net, g) \cap PIs # {}

\* Broken variants: the cones findInPropagationPath adds, or the fanin cones of
\* what a fault reaches, are missing.
RelatedGates_FaninConeOnly(net, g) == FaninCone(net, g)
\* gateToRelatedGates after pairGateWithRelatedGates: the fanin cone of every
\* gate, to which findInPropagationPath adds, for the gates reached from a
\* primary input, the cones of everything they reach.
RelatedGates(net, g) ==
  {h \in GateID : \/ h \in FaninCone(net, g)
                  \/ /\ ReachedFromPI(net, g)
                     /\ \E x \in FanoutCone(net, g) : h \in FaninCone(net, x)}

(***************************************************************************)
(* Fault lists: the two loops of generateFaultList.                        *)
(***************************************************************************)
allSSAFList(net) ==
  {FaultID(g, p, v) : g \in GateID, p \in {1, 3}, v \in Bit} \cup
  {FaultID(g, 2, v) : g \in {h \in GateID : net[h].gateType \in BinaryTypes}, v \in Bit}

collapsedSSAFList(net) ==
  LET selected(f) == net[f].gateType = "PI" \/ fanoutSize(net, f) > 1
      aigs == {g \in GateID : net[g].gateType = "aig"}
  IN {FaultID(g, 1, v) : g \in {h \in aigs : selected(net[h].fanin1)}, v \in Bit} \cup
     {FaultID(g, 2, v) : g \in {h \in aigs : selected(net[h].fanin2)}, v \in Bit}

(***************************************************************************)
(* Reference semantics: the value of every gate under a pattern when the   *)
(* lines named by a set of faults are stuck.  This is what the simulator   *)
(* has to compute; it is not in the code.  Two faults on one line come in  *)
(* increasing order and the later one, stuck-at 1, holds.                  *)
(***************************************************************************)
StuckValues(faults, g, p) ==
  {faultStuckat(f) : f \in {x \in faults : faultGate(x) = g /\ faultPort(x) = p}}

Held(S) == IF 1 \in S THEN 1 ELSE 0

Line(faults, g, p, v) ==
  IF StuckValues(faults, g, p) # {} THEN Held(StuckValues(faults, g, p)) ELSE v

\* What gate g puts out when the gates before it carry these values.
RefOut(net, faults, pattern, values, g) ==
  LET gate == net[g]
      in(p, v) == Line(faults, g, p, v)
  IN Line(faults, g, 3,
       CASE gate.gateType = "PI"       -> in(1, pattern[g])
         [] gate.gateType = "constant" -> in(1, gate.constant)
         [] OTHER -> getOutValue(gate, in(1, values[gate.fanin1]), in(2, values[gate.fanin2])))

RefValue(net, faults, pattern) ==
  LET value[g \in GateID] == RefOut(net, faults, pattern, value, g)
  IN value

\* The pattern distinguishes the faulty circuit from the fault-free one.
RefDetects(net, faults, pattern) ==
  \E p \in POs : RefValue(net, faults, pattern)[p] # RefValue(net, {}, pattern)[p]
=============================================================================
