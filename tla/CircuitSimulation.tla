------------------------- MODULE CircuitSimulation -------------------------
(***************************************************************************)
(* The two-pass fault simulation of inc/CircuitSimulation.h, in the order  *)
(* findSSAFsBlocked and findSSAFsBlocked2 of inc/ATPG.h call it: clear the *)
(* marks, make the circuit faulty, propagate the pattern, put the circuit  *)
(* back, propagate the pattern again, and compare.  Only the gates related *)
(* to the faults are visited, so everything else keeps the values and the  *)
(* marks of earlier calls; calls follow one another on one circuit.        *)
(***************************************************************************)
EXTENDS FaultInjection

CONSTANTS
  Netlists,    \* the circuits considered
  FaultSets(_) \* of a circuit: the sets of faults a call may name; one, two or three in the program

ASSUME FaultSetsAssumption ==
  \A net \in Netlists : \A F \in FaultSets(net) : F \subseteq allSSAFList(net) /\ Cardinality(F) \in 1 .. 3

ASSUME NetlistsAssumption ==
  \A net \in Netlists : WellFormed(net) /\ NoDangling(net)

VARIABLES
  netlist,            \* the circuit as read from the file; never changes
  gateToRelatedGates, \* its cones; never change
  outValue,           \* gate::outValue
  different,          \* gate::different
  pc,                 \* where the call is
  newFaults,          \* its arguments
  testVector,
  toInject,           \* faults the injection loop has not reached
  pending,            \* related gates the propagation loop has not reached
  answer,             \* what the last call returned
  faultyValue         \* history: the values at the end of the faulty pass

callVars == <<newFaults, testVector>>
vars == <<injectVars, netlist, gateToRelatedGates, outValue, different, pc,
          callVars, toInject, pending, answer, faultyValue>>

NoAnswer == -1
Patterns == [PIs -> Bit]

First(S) == {x \in S : \A y \in S : x <= y}

getAllRelatedGates == UNION {gateToRelatedGates[faultGate(f)] : f \in newFaults}

\* Broken variant: only the marks of related gates are cleared.
ClearedMarks_RelatedOnly(related) ==
  [g \in GateID |-> IF g \in related THEN FALSE ELSE different[g]]

\* The marks cleared by resetAllVisitedisPath(1, related).  Its last loop
\* starts at PI + gateSize, where PI is the enumeration's 0.
ClearedMarks(related) ==
  [g \in GateID |-> IF g \in related \/ g >= gateSize THEN FALSE ELSE different[g]]

\* A reset keeps the value a gate had with its fault, except for a constant.
ValuesAfterReset ==
  [g \in GateID |->
     IF g \in DOMAIN preGateInTheCircuit /\ preGateInTheCircuit[g].gate.gateType = "constant"
     THEN preGateInTheCircuit[g].outValue ELSE outValue[g]]

\* assignPIs in circuit c: a faulty primary input is a buffer and keeps its value.
assignPIs(c, values, pattern) ==
  [g \in GateID |-> IF g \in PIs /\ c[g].gateType = "PI" THEN pattern[g] ELSE values[g]]

\* The value a fanin pointer leads to, in a circuit of these values.
PointedValue(values, cons, i) == IF i < Size THEN values[i] ELSE cons[i - Size + 1]

\* gate::setOut
OutOf(c, cons, values, g) ==
  IF c[g].gateType \in {"PI", "constant"} THEN values[g]
  ELSE getOutValue(c[g], PointedValue(values, cons, c[g].fanin1),
                         PointedValue(values, cons, c[g].fanin2))

Init ==
  /\ netlist \in Netlists
  /\ gateToRelatedGates = [g \in GateID |-> RelatedGates(netlist, g)]
  /\ InjectInit(netlist)
  \* nobody has written the value of a gate that is not a constant
  /\ outValue \in {v \in [GateID -> Bit] :
                     \A g \in GateID : netlist[g].gateType = "constant" => v[g] = netlist[g].constant}
  /\ different = [g \in GateID |-> FALSE]
  /\ pc = "idle"
  /\ newFaults = {}
  /\ testVector \in {v \in Patterns : \A i \in PIs : v[i] = 0}
  /\ toInject = {}
  /\ pending = {}
  /\ answer = NoAnswer
  /\ faultyValue = outValue

Call(F, v) ==
  /\ pc = "idle"
  /\ UNCHANGED <<netlist, gateToRelatedGates, pending>>
  /\ newFaults' = F
  /\ testVector' = v
  /\ different' = ClearedMarks(getAllRelatedGates')
  /\ ResetFaults
  /\ outValue' = ValuesAfterReset
  /\ toInject' = F
  /\ answer' = NoAnswer
  /\ faultyValue' = outValue'
  /\ pc' = "inject"

InjectNext ==
  /\ pc = "inject"
  /\ \E f \in First(toInject) :
       /\ InjectFault(f, outValue)
       /\ toInject' = toInject \ {f}
  /\ UNCHANGED <<netlist, gateToRelatedGates, outValue, different, pc, callVars,
                 pending, answer, faultyValue>>

AssignFaulty ==
  /\ pc = "inject"
  /\ toInject = {}
  /\ outValue' = assignPIs(theCircuit, outValue, testVector)
  /\ pending' = getAllRelatedGates
  /\ pc' = "faulty"
  /\ UNCHANGED <<injectVars, netlist, gateToRelatedGates, different, callVars,
                 toInject, answer, faultyValue>>

\* Broken variant: the mark is taken after the new value is written.
PropagateNext_ComparedLate ==
  /\ pc \in {"faulty", "good"}
  /\ \E g \in First(pending) :
       /\ outValue' = [outValue EXCEPT ![g] = OutOf(theCircuit, stuckatCons, outValue, g)]
       /\ different' = [different EXCEPT ![g] = FALSE]
       /\ pending' = pending \ {g}
  /\ UNCHANGED <<injectVars, netlist, gateToRelatedGates, pc, callVars, toInject,
                 answer, faultyValue>>

\* One round of the loop of propagatePI(1, related), in the order of the gates.
PropagateNext ==
  /\ pc \in {"faulty", "good"}
  /\ \E g \in First(pending) :
       /\ outValue' = [outValue EXCEPT ![g] = OutOf(theCircuit, stuckatCons, outValue, g)]
       /\ different' = [different EXCEPT ![g] = outValue[g] # outValue'[g]]
       /\ pending' = pending \ {g}
  /\ UNCHANGED <<injectVars, netlist, gateToRelatedGates, pc, callVars, toInject,
                 answer, faultyValue>>

\* Broken variant: the pattern is not assigned again after the reset.
ResetToGood_NotAssigned ==
  /\ pc = "faulty"
  /\ pending = {}
  /\ different' = ClearedMarks(getAllRelatedGates)
  /\ ResetFaults
  /\ outValue' = ValuesAfterReset
  /\ faultyValue' = outValue
  /\ pending' = getAllRelatedGates
  /\ pc' = "good"
  /\ UNCHANGED <<netlist, gateToRelatedGates, callVars, toInject, answer>>

ResetToGood ==
  /\ pc = "faulty"
  /\ pending = {}
  /\ different' = ClearedMarks(getAllRelatedGates)
  /\ ResetFaults
  /\ outValue' = assignPIs(theCircuit', ValuesAfterReset, testVector)
  /\ faultyValue' = outValue
  /\ pending' = getAllRelatedGates
  /\ pc' = "good"
  /\ UNCHANGED <<netlist, gateToRelatedGates, callVars, toInject, answer>>

Answer ==
  /\ pc = "good"
  /\ pending = {}
  /\ answer' = IF \E p \in POs : different[p] THEN 1 ELSE 0
  /\ pc' = "idle"
  /\ UNCHANGED <<injectVars, netlist, gateToRelatedGates, outValue, different,
                 callVars, toInject, pending, faultyValue>>

Next ==
  \/ \E F \in FaultSets(netlist), v \in Patterns : Call(F, v)
  \/ InjectNext
  \/ AssignFaulty
  \/ PropagateNext
  \/ ResetToGood
  \/ Answer

Spec == Init /\ [][Next]_vars
-----------------------------------------------------------------------------
\* Types of the scalar simulator's state: injected gates stay gates, copies
\* and values stay in range.
TypeOK ==
  /\ netlist \in Netlists
  /\ theCircuit \in [GateID -> Gate]
  /\ stuckatCons \in Seq(Bit)
  /\ \A g \in DOMAIN preGateInTheCircuit :
       g \in GateID /\ preGateInTheCircuit[g] \in [gate : Gate, outValue : Bit]
  /\ faultsInsertedtheCircuit \in Nat
  /\ gateToRelatedGates \in [GateID -> SUBSET GateID]
  /\ outValue \in [GateID -> Bit]
  /\ different \in [GateID -> BOOLEAN]
  /\ pc \in {"idle", "inject", "faulty", "good"}
  /\ newFaults \subseteq allSSAFList(netlist)
  /\ testVector \in Patterns
  /\ toInject \subseteq newFaults
  /\ pending \subseteq GateID
  /\ answer \in {NoAnswer, 0, 1}
  /\ faultyValue \in [GateID -> Bit]

\* Once a call has put the circuit back, for its second pass and until the
\* next call, the gates, which the SAT side and the path search share with the
\* simulator, are those of the netlist, no saved gate and no stuck-at constant
\* is left in the simulator, and every constant of the netlist has its own
\* value again.
CircuitRestored ==
  pc \in {"idle", "good"} =>
    /\ FaultFree(netlist)
    /\ \A g \in GateID : netlist[g].gateType = "constant" => outValue[g] = netlist[g].constant

Answered == pc = "idle" /\ answer # NoAnswer
Related == getAllRelatedGates
FaultGatesReached == \A f \in newFaults : ReachedFromPI(netlist, faultGate(f))

\* A call answers 1 exactly when the pattern distinguishes the circuit with
\* all its faults from the fault-free one, whatever earlier calls left in the
\* gates that are not related to these faults.
DetectionCorrect ==
  Answered /\ FaultGatesReached =>
    (answer = 1 <=> RefDetects(netlist, newFaults, testVector))

\* After a call the related gates carry the fault-free values of the pattern,
\* which is what the search for blocking faults reads.
GoodValuesLeft ==
  Answered => \A g \in Related : outValue[g] = RefValue(netlist, {}, testVector)[g]

\* ... and a related gate that is computed is marked different exactly when
\* its faulty value differs from the fault-free one.
MarksExact ==
  Answered => \A g \in Related :
    netlist[g].gateType \notin {"PI", "constant"} =>
      (different[g] <=> RefValue(netlist, newFaults, testVector)[g]
                          # RefValue(netlist, {}, testVector)[g])
=============================================================================
