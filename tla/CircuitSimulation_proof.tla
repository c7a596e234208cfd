---------------------- MODULE CircuitSimulation_proof ----------------------
(***************************************************************************)
(* For every set of netlists and every number of faults in a call: the     *)
(* simulation keeps its types, and the circuit it shares with the rest of  *)
(* the program is the netlist again whenever a call reads or leaves it.    *)
(*                                                                         *)
(* CircuitRestored is not inductive: while faults are in the circuit it    *)
(* says nothing.  The invariant adds that the circuit is recoverable at    *)
(* every moment, that the constants' values can be put back, and that      *)
(* input 1 of a primary output leads to a value.                           *)
(***************************************************************************)
EXTENDS CircuitSimulation, FaultInjection_proof

\* A constant of the netlist has its own value, or its own value is saved.
ConstantsRecoverable ==
  \A g \in GateID : netlist[g].gateType = "constant" =>
    IF g \in DOMAIN preGateInTheCircuit
    THEN preGateInTheCircuit[g].outValue = netlist[g].constant
    ELSE outValue[g] = netlist[g].constant

\* What a primary output reads is a gate or a stuck-at constant.
OutputsConnected ==
  \A g \in GateID : theCircuit[g].gateType = "PO" =>
    theCircuit[g].fanin1 \in 0 .. Size + Len(stuckatCons) - 1

\* No count is left for the next reset, either.
NothingToDelete == pc \in {"idle", "good"} => faultsInsertedtheCircuit = 0

IInv ==
  /\ TypeOK
  /\ Recoverable(netlist)
  /\ ConstantsRecoverable
  /\ OutputsConnected
  /\ CircuitRestored
  /\ NothingToDelete
-----------------------------------------------------------------------------
\* What the assumption on Netlists says of the circuit at hand.
LEMMA NetlistFacts ==
  ASSUME TypeOK
  PROVE  /\ netlist \in [GateID -> Gate]
         /\ \A g \in PIs : netlist[g].gateType = "PI"
         /\ \A g \in GateID : netlist[g].gateType = "PO" => netlist[g].fanin1 \in GateID
<1>1. WellFormed(netlist)
  BY NetlistsAssumption DEF TypeOK
<1>2. PIs \subseteq GateID
  BY SizeAssumption DEF PIs, GateID, Size
<1>3. ASSUME NEW g \in GateID, netlist[g].gateType = "PO"
      PROVE  netlist[g].fanin1 \in GateID
  <2>1. netlist[g].fanin1 \in Fanins(netlist, g)
    BY <1>3 DEF Fanins
  <2> QED
    BY <1>1, <1>3, <2>1 DEF WellFormed
<1> QED
  BY <1>1, <1>2, <1>3 DEF WellFormed

\* The simulator's types include those the injection works on.
LEMMA InjectTypes ==
  ASSUME TypeOK
  PROVE  InjectTypeOK
BY DEF TypeOK, InjectTypeOK

\* A gate whose output reads a gate or a stuck-at constant puts out a bit.
LEMMA OutOfBit ==
  ASSUME NEW c \in [GateID -> Gate], NEW cons \in Seq(Bit), NEW values \in [GateID -> Bit],
         NEW g \in GateID,
         c[g].gateType = "PO" => c[g].fanin1 \in 0 .. Size + Len(cons) - 1
  PROVE  OutOf(c, cons, values, g) \in Bit
<1>1. c[g].gateType \in Type /\ c[g].invOut \in Bit
  BY DEF Gate
<1>2. CASE c[g].gateType \in {"PI", "constant"}
  BY <1>2 DEF OutOf
<1>3. CASE c[g].gateType = "PO"
  <2> DEFINE i == c[g].fanin1
  <2>1. i \in 0 .. Size + Len(cons) - 1 /\ Size \in Nat /\ Len(cons) \in Nat
    BY <1>3, SizeNat
  <2>2. CASE i < Size
    <3>1. i \in GateID
      BY <2>1, <2>2 DEF GateID
    <3>2. PointedValue(values, cons, i) \in Bit
      BY <2>2, <3>1 DEF PointedValue
    <3> QED
      BY <1>3, <3>2 DEF OutOf, getOutValue
  <2>3. CASE ~ (i < Size)
    <3>1. i - Size + 1 \in 1 .. Len(cons)
      BY <2>1, <2>3
    <3>2. PointedValue(values, cons, i) \in Bit
      BY <2>3, <3>1 DEF PointedValue
    <3> QED
      BY <1>3, <3>2 DEF OutOf, getOutValue
  <2> QED
    BY <2>2, <2>3
<1>4. CASE c[g].gateType \in {"bufInv", "aig"}
  <2>1. OutOf(c, cons, values, g) \in {c[g].invOut, 1 - c[g].invOut}
    BY <1>4 DEF OutOf, getOutValue
  <2> QED
    BY <1>1, <2>1 DEF Bit
<1> QED
  BY <1>1, <1>2, <1>3, <1>4 DEF Type

\* assignPIs writes bits, and no constant.
LEMMA AssignedBits ==
  ASSUME NEW c, NEW values \in [GateID -> Bit], NEW pattern \in Patterns
  PROVE  /\ assignPIs(c, values, pattern) \in [GateID -> Bit]
         /\ \A g \in GateID \ PIs : assignPIs(c, values, pattern)[g] = values[g]
BY DEF assignPIs, Patterns

\* The values after a reset are bits.
LEMMA ResetValuesTyped ==
  ASSUME TypeOK
  PROVE  ValuesAfterReset \in [GateID -> Bit]
BY DEF TypeOK, ValuesAfterReset

\* After a reset every constant has its own value.
LEMMA ResetConstants ==
  ASSUME TypeOK, Recoverable(netlist), ConstantsRecoverable
  PROVE  \A g \in GateID : netlist[g].gateType = "constant"
                             => ValuesAfterReset[g] = netlist[g].constant
BY DEF Recoverable, ConstantsRecoverable, ValuesAfterReset

\* Cleared marks are truth values.
LEMMA MarksTyped ==
  ASSUME TypeOK, NEW related
  PROVE  ClearedMarks(related) \in [GateID -> BOOLEAN]
BY DEF TypeOK, ClearedMarks

\* A call names faults of the list.
LEMMA CalledFaults ==
  ASSUME TypeOK, NEW F \in FaultSets(netlist)
  PROVE  F \subseteq allSSAFList(netlist)
BY FaultSetsAssumption DEF TypeOK

\* The related gates are gates.
LEMMA RelatedGatesTyped ==
  ASSUME TypeOK
  PROVE  getAllRelatedGates \subseteq GateID
<1>1. \A f \in newFaults : faultGate(f) \in GateID
  BY ListedFaults, FaultNumberFields DEF TypeOK
<1> QED
  BY <1>1 DEF TypeOK, getAllRelatedGates

\* The invariant of a circuit that has just been put back.
LEMMA RestoredInvariant ==
  ASSUME IInv, netlist' = netlist,
         theCircuit' = netlist, preGateInTheCircuit' = NoCopies,
         stuckatCons' = << >>, faultsInsertedtheCircuit' = 0,
         TypeOK',
         \A g \in GateID : netlist[g].gateType = "constant" => outValue'[g] = netlist[g].constant
  PROVE  IInv'
<1>1. /\ netlist \in [GateID -> Gate]
      /\ \A g \in GateID : netlist[g].gateType = "PO" => netlist[g].fanin1 \in GateID
  BY NetlistFacts DEF IInv
<1>2. DOMAIN preGateInTheCircuit' = {}
  BY DEF NoCopies
<1>3. Recoverable(netlist)' /\ ConstantsRecoverable'
  BY <1>1, <1>2 DEF Recoverable, ConstantsRecoverable
<1>4. OutputsConnected'
  BY <1>1, SizeNat DEF OutputsConnected, GateID
<1>5. CircuitRestored' /\ NothingToDelete'
  BY <1>1 DEF CircuitRestored, FaultFree, NothingToDelete
<1> QED
  BY <1>3, <1>4, <1>5 DEF IInv

\* The simulator starts with the netlist.
LEMMA InitInvariant == Init => IInv
<1> SUFFICES ASSUME Init PROVE IInv
  OBVIOUS
<1>1. netlist \in [GateID -> Gate] /\ \A g \in GateID : netlist[g].gateType = "PO" => netlist[g].fanin1 \in GateID
  <2>1. WellFormed(netlist)
    BY NetlistsAssumption DEF Init
  <2>2. ASSUME NEW g \in GateID, netlist[g].gateType = "PO"
        PROVE  netlist[g].fanin1 \in GateID
    <3>1. netlist[g].fanin1 \in Fanins(netlist, g)
      BY <2>2 DEF Fanins
    <3> QED
      BY <2>1, <3>1 DEF WellFormed
  <2> QED
    BY <2>1, <2>2 DEF WellFormed
<1>2. DOMAIN preGateInTheCircuit = {}
  BY DEF Init, InjectInit, NoCopies
<1>3. gateToRelatedGates \in [GateID -> SUBSET GateID]
  BY DEF Init, RelatedGates
<1>4. TypeOK
  BY <1>1, <1>2, <1>3 DEF Init, InjectInit, TypeOK
<1>5. Recoverable(netlist) /\ ConstantsRecoverable
  BY <1>1, <1>2 DEF Init, InjectInit, Recoverable, ConstantsRecoverable
<1>6. OutputsConnected
  BY <1>1, SizeNat DEF Init, InjectInit, OutputsConnected, GateID
<1>7. CircuitRestored /\ NothingToDelete
  BY <1>1 DEF Init, InjectInit, CircuitRestored, NothingToDelete, FaultFree
<1> QED
  BY <1>4, <1>5, <1>6, <1>7 DEF IInv

\* A call starts with a reset, which finds nothing to undo.
LEMMA CallInvariant ==
  ASSUME IInv, NEW F \in FaultSets(netlist), NEW v \in Patterns, Call(F, v)
  PROVE  IInv'
<1>1. netlist \in [GateID -> Gate]
  BY NetlistFacts DEF IInv
<1>2. /\ theCircuit' = netlist /\ preGateInTheCircuit' = NoCopies
      /\ stuckatCons' = << >> /\ faultsInsertedtheCircuit' = 0
  BY <1>1, ResetRestores, InjectTypes DEF IInv, Call
<1>3. DOMAIN preGateInTheCircuit' = {}
  BY <1>2 DEF NoCopies
<1>4. outValue' \in [GateID -> Bit]
      /\ \A g \in GateID : netlist[g].gateType = "constant" => outValue'[g] = netlist[g].constant
  BY ResetValuesTyped, ResetConstants DEF IInv, Call
<1>5. different' \in [GateID -> BOOLEAN]
  BY MarksTyped DEF IInv, Call
<1>6. newFaults' = F /\ toInject' = F /\ F \subseteq allSSAFList(netlist) /\ netlist' = netlist
  BY CalledFaults DEF IInv, Call
<1>7. TypeOK'
  BY <1>1, <1>2, <1>3, <1>4, <1>5, <1>6 DEF IInv, TypeOK, Call
<1> QED
  BY <1>2, <1>4, <1>7, RestoredInvariant DEF Call

\* A fault goes into the circuit.
LEMMA InjectInvariant ==
  ASSUME IInv, InjectNext
  PROVE  IInv'
<1>1. PICK f \in First(toInject) : InjectFault(f, outValue) /\ toInject' = toInject \ {f}
  BY DEF InjectNext
<1>2. f \in FaultNumber
  BY ListedFaults DEF IInv, TypeOK, First
<1>3. InjectTypeOK /\ InjectTypeOK'
  BY <1>1, <1>2, InjectKeepsTypes, InjectTypes DEF IInv
<1> DEFINE g == faultGate(f)
<1>4. g \in GateID
  BY <1>2, FaultNumberFields
<1>5. UNCHANGED <<netlist, gateToRelatedGates, outValue, different, pc, callVars,
                  pending, answer, faultyValue>> /\ pc = "inject"
  BY DEF InjectNext
<1>6. /\ DOMAIN preGateInTheCircuit' \in {DOMAIN preGateInTheCircuit, DOMAIN preGateInTheCircuit \cup {g}}
      /\ \A h \in DOMAIN preGateInTheCircuit : preGateInTheCircuit'[h] = preGateInTheCircuit[h]
      /\ g \in DOMAIN preGateInTheCircuit' \ DOMAIN preGateInTheCircuit =>
           preGateInTheCircuit'[g] = [gate |-> theCircuit[g], outValue |-> outValue[g]]
  BY <1>1 DEF InjectFault, copyGate, injectVars
<1>7. TypeOK'
  <2>1. outValue[g] \in Bit /\ theCircuit[g] \in Gate
    BY <1>4 DEF IInv, TypeOK
  <2>2. \A h \in DOMAIN preGateInTheCircuit' :
          h \in GateID /\ preGateInTheCircuit'[h] \in [gate : Gate, outValue : Bit]
    BY <1>4, <1>6, <2>1 DEF IInv, TypeOK
  <2> QED
    BY <1>1, <1>3, <1>5, <2>2 DEF IInv, TypeOK, InjectTypeOK, callVars
<1>8. Recoverable(netlist)'
  <2>1. PICK net : net = netlist
    OBVIOUS
  <2> QED
    BY <1>1, <1>2, <1>3, <1>5, <2>1, InjectKeepsRecoverable DEF IInv, Recoverable
<1>9. ConstantsRecoverable'
  BY <1>5, <1>6 DEF IInv, ConstantsRecoverable
<1>10. OutputsConnected'
  <2> SUFFICES ASSUME NEW h \in GateID, theCircuit'[h].gateType = "PO"
               PROVE  theCircuit'[h].fanin1 \in 0 .. Size + Len(stuckatCons') - 1
    BY DEF OutputsConnected
  <2>1. Size \in Nat /\ Len(stuckatCons) \in Nat
    BY <1>3, SizeNat DEF InjectTypeOK
  <2>2. CASE theCircuit'[h] = theCircuit[h] /\ Len(stuckatCons') \in {Len(stuckatCons), Len(stuckatCons) + 1}
    BY <2>1, <2>2 DEF IInv, OutputsConnected
  <2>3. CASE ~ Skipped(f)
    <3>1. Len(stuckatCons') = Len(stuckatCons) + 1
      BY <1>1, <1>3, <2>3 DEF InjectFault, InjectTypeOK
    <3>2. CASE h = g
      <4>1. theCircuit'[h] = Faulted(theCircuit[h], faultPort(f), Size + Len(stuckatCons))
        BY <1>1, <1>3, <2>3, <3>2 DEF InjectFault, InjectTypeOK
      <4>2. theCircuit[h] \in Gate /\ Size + Len(stuckatCons) \in Int
        BY <1>3, <2>1 DEF InjectTypeOK
      <4>3. /\ theCircuit[h].gateType = "PO"
            /\ theCircuit'[h].fanin1 \in {theCircuit[h].fanin1, Size + Len(stuckatCons)}
        BY <4>1, <4>2, FaultedOutput
      <4> QED
        BY <2>1, <3>1, <4>3 DEF IInv, OutputsConnected
    <3>3. CASE h # g
      BY <1>1, <1>3, <2>2, <2>3, <3>1, <3>3 DEF InjectFault, InjectTypeOK
    <3> QED
      BY <3>2, <3>3
  <2>4. CASE Skipped(f)
    BY <1>1, <2>2, <2>4 DEF InjectFault, injectVars
  <2> QED
    BY <2>3, <2>4
<1>11. CircuitRestored' /\ NothingToDelete'
  BY <1>5 DEF CircuitRestored, NothingToDelete
<1> QED
  BY <1>7, <1>8, <1>9, <1>10, <1>11 DEF IInv

\* The pattern is assigned to the faulty circuit.
LEMMA AssignInvariant ==
  ASSUME IInv, AssignFaulty
  PROVE  IInv'
<1>1. testVector \in Patterns /\ outValue \in [GateID -> Bit]
  BY DEF IInv, TypeOK
<1>2. outValue' \in [GateID -> Bit] /\ \A g \in GateID \ PIs : outValue'[g] = outValue[g]
  BY <1>1, AssignedBits DEF AssignFaulty
<1>3. TypeOK'
  BY <1>2, RelatedGatesTyped DEF IInv, TypeOK, AssignFaulty, injectVars, callVars
<1>4. Recoverable(netlist)' /\ OutputsConnected'
  BY DEF IInv, Recoverable, OutputsConnected, AssignFaulty, injectVars
<1>5. ConstantsRecoverable'
  <2>1. \A g \in PIs : netlist[g].gateType = "PI"
    BY NetlistFacts DEF IInv
  <2> QED
    BY <1>2, <2>1 DEF IInv, ConstantsRecoverable, AssignFaulty, injectVars
<1>6. CircuitRestored' /\ NothingToDelete'
  BY DEF CircuitRestored, NothingToDelete, AssignFaulty
<1> QED
  BY <1>3, <1>4, <1>5, <1>6 DEF IInv

\* A gate is computed; a constant that has no copy is still a constant.
LEMMA PropagateInvariant ==
  ASSUME IInv, PropagateNext
  PROVE  IInv'
<1>1. PICK g \in First(pending) :
        /\ outValue' = [outValue EXCEPT ![g] = OutOf(theCircuit, stuckatCons, outValue, g)]
        /\ different' = [different EXCEPT ![g] = outValue[g] # outValue'[g]]
        /\ pending' = pending \ {g}
  BY DEF PropagateNext
<1>2. g \in GateID
  BY DEF IInv, TypeOK, First
<1>3. OutOf(theCircuit, stuckatCons, outValue, g) \in Bit
  BY <1>2, OutOfBit DEF IInv, TypeOK, OutputsConnected
<1>4. /\ UNCHANGED <<injectVars, netlist, gateToRelatedGates, pc, callVars, toInject, answer, faultyValue>>
      /\ pc \in {"faulty", "good"}
  BY DEF PropagateNext
<1>5. TypeOK'
  BY <1>1, <1>2, <1>3, <1>4 DEF IInv, TypeOK, injectVars, callVars
<1>6. ASSUME NEW h \in GateID, netlist[h].gateType = "constant", h \notin DOMAIN preGateInTheCircuit
      PROVE  outValue'[h] = outValue[h]
  <2>1. theCircuit[h].gateType = "constant"
    BY <1>6 DEF IInv, Recoverable
  <2>2. OutOf(theCircuit, stuckatCons, outValue, h) = outValue[h]
    BY <2>1 DEF OutOf
  <2> QED
    BY <1>1, <2>2 DEF IInv, TypeOK
<1>7. ConstantsRecoverable'
  BY <1>4, <1>6 DEF IInv, ConstantsRecoverable, injectVars
<1>8. Recoverable(netlist)' /\ OutputsConnected' /\ NothingToDelete'
  BY <1>4 DEF IInv, Recoverable, OutputsConnected, NothingToDelete, injectVars
<1>9. CircuitRestored'
  <2> SUFFICES ASSUME pc = "good" PROVE CircuitRestored'
    BY <1>4 DEF CircuitRestored
  <2>1. FaultFree(netlist)
    BY DEF IInv, CircuitRestored
  <2>2. \A h \in GateID : h \notin DOMAIN preGateInTheCircuit
    BY <2>1 DEF FaultFree, NoCopies
  <2> QED
    BY <1>4, <1>6, <2>1, <2>2 DEF IInv, CircuitRestored, FaultFree, injectVars
<1> QED
  BY <1>5, <1>7, <1>8, <1>9 DEF IInv

\* The circuit is put back for the second pass.
LEMMA ResetInvariant ==
  ASSUME IInv, ResetToGood
  PROVE  IInv'
<1>1. netlist \in [GateID -> Gate] /\ \A g \in PIs : netlist[g].gateType = "PI"
  BY NetlistFacts DEF IInv
<1>2. /\ theCircuit' = netlist /\ preGateInTheCircuit' = NoCopies
      /\ stuckatCons' = << >> /\ faultsInsertedtheCircuit' = 0
  BY <1>1, ResetRestores, InjectTypes DEF IInv, ResetToGood
<1>3. DOMAIN preGateInTheCircuit' = {}
  BY <1>2 DEF NoCopies
<1>4. /\ outValue' \in [GateID -> Bit]
      /\ \A g \in GateID \ PIs : outValue'[g] = ValuesAfterReset[g]
  <2>1. testVector \in Patterns /\ ValuesAfterReset \in [GateID -> Bit]
    BY ResetValuesTyped DEF IInv, TypeOK
  <2>2. outValue' = assignPIs(theCircuit', ValuesAfterReset, testVector)
    BY DEF ResetToGood
  <2> QED
    BY <2>1, <2>2, AssignedBits
<1>5. \A g \in GateID : netlist[g].gateType = "constant" => outValue'[g] = netlist[g].constant
  BY <1>1, <1>4, ResetConstants DEF IInv
<1>6. different' \in [GateID -> BOOLEAN] /\ getAllRelatedGates \subseteq GateID
  BY MarksTyped, RelatedGatesTyped DEF IInv, ResetToGood
<1>7. TypeOK'
  BY <1>1, <1>2, <1>3, <1>4, <1>6 DEF IInv, TypeOK, ResetToGood, callVars
<1> QED
  BY <1>2, <1>5, <1>7, RestoredInvariant DEF ResetToGood

\* The outputs are compared.
LEMMA AnswerInvariant ==
  ASSUME IInv, Answer
  PROVE  IInv'
<1>1. answer' \in {0, 1}
  BY DEF Answer
<1>2. TypeOK'
  BY <1>1 DEF IInv, TypeOK, Answer, injectVars, callVars
<1>3. Recoverable(netlist)' /\ ConstantsRecoverable' /\ OutputsConnected'
  BY DEF IInv, Recoverable, ConstantsRecoverable, OutputsConnected, Answer, injectVars
<1>4. CircuitRestored' /\ NothingToDelete'
  BY DEF IInv, CircuitRestored, FaultFree, NothingToDelete, Answer, injectVars
<1> QED
  BY <1>2, <1>3, <1>4 DEF IInv

\* A step that changes nothing.
LEMMA StutterInvariant ==
  ASSUME IInv, UNCHANGED vars
  PROVE  IInv'
BY DEF IInv, TypeOK, Recoverable, ConstantsRecoverable, OutputsConnected, CircuitRestored,
       FaultFree, NothingToDelete, vars, injectVars, callVars

\* The invariant is inductive.
THEOREM Invariant == Spec => []IInv
<1>1. Init => IInv
  BY InitInvariant
<1>2. IInv /\ [Next]_vars => IInv'
  BY CallInvariant, InjectInvariant, AssignInvariant, PropagateInvariant, ResetInvariant,
     AnswerInvariant, StutterInvariant DEF Next
<1> QED
  BY <1>1, <1>2, PTL DEF Spec

\* Type correctness of the simulation.
THEOREM TypeCorrect == Spec => []TypeOK
BY Invariant, PTL DEF IInv

\* Whatever faults a call names, one, two or three, on whatever lines and more
\* than one on a line, the shared circuit is the netlist again, no constant is
\* left behind it, and its constants have their values, when the second pass
\* begins and when the call has returned.
THEOREM Restoration == Spec => []CircuitRestored
BY Invariant, PTL DEF IInv

-----------------------------------------------------------------------------
(***************************************************************************)
(* For every circuit, every set of one, two or three faults and every      *)
(* pattern, whatever earlier calls left in the gates: the two passes of    *)
(* the scalar simulation compute the values of the faulty and of the       *)
(* fault-free circuit, the marks tell where they differ, and the answer is *)
(* whether the pattern detects the faults.                                 *)
(*                                                                         *)
(* The three properties speak of finished calls.  The invariant says of    *)
(* each pass what the gates that were visited carry and what those that    *)
(* were not still have from before, for which the related gates must be    *)
(* closed under fanins, and of the injection that the gates show exactly   *)
(* the faults that were reached, in increasing order.                      *)
(***************************************************************************)

Good == RefValue(netlist, {}, testVector)
Bad == RefValue(netlist, newFaults, testVector)
Injected == newFaults \ toInject

\* A gate whose value a pass computes.
Computed(g) == netlist[g].gateType \notin {"PI", "constant"}

\* What is marked is what differs.
Marked(g) == different[g] <=> Bad[g] # Good[g]

ConesFixed == gateToRelatedGates = [g \in GateID |-> RelatedGates(netlist, g)]

InjectionExact ==
  pc \in {"inject", "faulty"} =>
    /\ HasAllFaults(netlist, Injected)
    /\ \A x \in Injected, y \in toInject : x < y
    /\ \A g \in GateID : theCircuit[g].gateType = "constant" => outValue[g] = netlist[g].constant

\* The first pass: what was visited has the faulty circuit's value.
FaultyPass ==
  pc = "faulty" =>
    /\ toInject = {} /\ pending \subseteq Related
    /\ \A g \in GateID : theCircuit[g].gateType = "PI" => outValue[g] = testVector[g]
    /\ \A g \in Related \ pending : outValue[g] = Bad[g]

\* The second: what was visited has the fault-free value and its mark, what
\* was not has the faulty value that the mark will be taken from.
GoodPass ==
  pc = "good" =>
    /\ pending \subseteq Related
    /\ \A g \in PIs : outValue[g] = testVector[g]
    /\ \A g \in pending : Computed(g) => outValue[g] = Bad[g]
    /\ \A g \in Related \ pending : outValue[g] = Good[g] /\ (Computed(g) => Marked(g))
    /\ \A p \in POs \ Related : ~ different[p]

Correct == DetectionCorrect /\ GoodValuesLeft /\ MarksExact

CInv == ConesFixed /\ InjectionExact /\ FaultyPass /\ GoodPass /\ Correct
-----------------------------------------------------------------------------
\* A pointer to a tied line leads to the value it is tied to.
LEMMA TiedValue ==
  ASSUME NEW i, NEW v, TiedTo(i, v), NEW values
  PROVE  PointedValue(values, stuckatCons, i) = v
<1>1. i \in Size .. Size + Len(stuckatCons) - 1 /\ stuckatCons[i - Size + 1] = v
  BY DEF TiedTo
<1>2. ~ (i < Size)
  BY <1>1, SizeNat
<1> QED
  BY <1>1, <1>2 DEF PointedValue

\* A pointer of the netlist leads to a gate's value.
LEMMA GateValue ==
  ASSUME NEW i \in GateID, NEW values
  PROVE  PointedValue(values, stuckatCons, i) = values[i]
<1>1. i < Size
  BY SizeNat DEF GateID
<1> QED
  BY <1>1 DEF PointedValue

\* What gate g reads, or keeps if it is not computed, is what the reference
\* semantics has there.
Carries(net, pattern, values, ref, g) ==
  /\ \A f \in Fanins(net, g) : values[f] = ref[f]
  /\ theCircuit[g].gateType = "PI" => values[g] = pattern[g]
  /\ theCircuit[g].gateType = "constant" => values[g] = net[g].constant

\* setOut computes what the reference semantics says, if the fanins carry what
\* it says.
LEMMA SetOutExact ==
  ASSUME NEW net, WellFormed(net), NEW F, HasAllFaults(net, F), NEW pattern, NEW g \in GateID,
         NEW values, NEW ref, Carries(net, pattern, values, ref, g)
  PROVE  OutOf(theCircuit, stuckatCons, values, g) = RefOut(net, F, pattern, ref, g)
<1> DEFINE in1 == PointedValue(values, stuckatCons, theCircuit[g].fanin1)
           in2 == PointedValue(values, stuckatCons, theCircuit[g].fanin2)
<1>1. ReadsReference(net, pattern, ref, g, in1, in2, values[g])
  BY TiedValue, GateValue, FaninsPrecede DEF ReadsReference, Carries
<1> HIDE DEF in1, in2
<1>2. (IF theCircuit[g].gateType \in {"PI", "constant"} THEN values[g]
       ELSE getOutValue(theCircuit[g], in1, in2)) = RefOut(net, F, pattern, ref, g)
  BY <1>1, ComputesReference
<1> QED
  BY <1>2 DEF OutOf, in1, in2
-----------------------------------------------------------------------------
\* The circuit at hand, and the faults and the pattern of the call.
LEMMA CallFacts ==
  ASSUME TypeOK
  PROVE  /\ WellFormed(netlist)
         /\ newFaults \subseteq FaultNumber
         /\ testVector \in [PIs -> Bit]
         /\ POs \subseteq GateID /\ PIs \subseteq GateID
         /\ \A p \in POs : Computed(p)
<1>1. WellFormed(netlist)
  BY NetlistsAssumption DEF TypeOK
<1>2. POs \subseteq GateID /\ PIs \subseteq GateID
  BY SizeAssumption DEF POs, PIs, GateID, Size
<1>3. \A p \in POs : netlist[p].gateType = "PO"
  BY <1>1, <1>2 DEF WellFormed
<1> QED
  BY <1>1, <1>2, <1>3, ListedFaults DEF TypeOK, Patterns, Computed

\* The related gates are closed under fanins: whatever a related gate reads is
\* visited before it.
LEMMA RelatedClosed ==
  ASSUME TypeOK, ConesFixed, NEW g \in Related
  PROVE  g \in GateID /\ Fanins(netlist, g) \subseteq Related
<1>1. PICK f \in newFaults : g \in gateToRelatedGates[faultGate(f)]
  BY DEF getAllRelatedGates, Related
<1>2. faultGate(f) \in GateID /\ WellFormed(netlist)
  BY CallFacts, FaultNumberFields
<1>3. gateToRelatedGates[faultGate(f)] = RelatedGates(netlist, faultGate(f))
  BY <1>2 DEF ConesFixed
<1>4. g \in GateID /\ Fanins(netlist, g) \subseteq RelatedGates(netlist, faultGate(f))
  BY <1>1, <1>2, <1>3, RelatedGatesClosed
<1> QED
  BY <1>3, <1>4 DEF getAllRelatedGates, Related

\* A gate that is not related to faults whose gates a primary input reaches
\* carries the same with them and without them.
LEMMA UnrelatedSame ==
  ASSUME TypeOK, ConesFixed, FaultGatesReached, NEW g \in GateID, g \notin Related
  PROVE  Bad[g] = Good[g]
<1>1. WellFormed(netlist) /\ testVector \in [PIs -> Bit]
  BY CallFacts
<1>2. ASSUME NEW f \in newFaults
      PROVE  /\ faultGate(f) \in GateID /\ ReachedFromPI(netlist, faultGate(f))
             /\ g \notin RelatedGates(netlist, faultGate(f))
  <2>1. faultGate(f) \in GateID
    BY CallFacts, FaultNumberFields
  <2> QED
    BY <2>1 DEF ConesFixed, Related, getAllRelatedGates, FaultGatesReached
<1> QED
  BY <1>1, <1>2, UnrelatedUnaffected DEF Bad, Good

\* Nothing has been asked yet.
LEMMA InitCorrect == Init => CInv
<1> SUFFICES ASSUME Init PROVE CInv
  OBVIOUS
<1>1. ConesFixed /\ InjectionExact /\ FaultyPass /\ GoodPass
  BY DEF Init, ConesFixed, InjectionExact, FaultyPass, GoodPass
<1>2. ~ Answered
  BY DEF Init, Answered
<1> QED
  BY <1>1, <1>2 DEF CInv, Correct, DetectionCorrect, GoodValuesLeft, MarksExact

\* A call starts with a circuit without faults.
LEMMA CallCorrect ==
  ASSUME IInv, CInv, NEW F \in FaultSets(netlist), NEW v \in Patterns, Call(F, v)
  PROVE  CInv'
<1>1. IInv'
  BY CallInvariant
<1>2. pc' = "inject" /\ newFaults' = F /\ toInject' = F /\ netlist' = netlist
      /\ gateToRelatedGates' = gateToRelatedGates
  BY DEF Call
<1>3. netlist \in [GateID -> Gate]
  BY NetlistFacts DEF IInv
<1>4. theCircuit' = netlist
  BY <1>3, ResetRestores, InjectTypes DEF IInv, Call
<1>5. HasAllFaults(netlist, Injected)'
  <2>1. Injected' = {}
    BY <1>2 DEF Injected
  <2>2. \A h \in GateID : HasFaults(netlist, {}, h)'
    BY <1>2, <1>4 DEF HasFaults, StuckValues
  <2> QED
    BY <2>1, <2>2 DEF HasAllFaults
<1>6. \A g \in GateID : netlist[g].gateType = "constant" => outValue'[g] = netlist[g].constant
  BY ResetConstants DEF IInv, Call
<1>7. InjectionExact'
  BY <1>2, <1>4, <1>5, <1>6 DEF InjectionExact, Injected
<1>8. ConesFixed' /\ FaultyPass' /\ GoodPass' /\ ~ Answered'
  BY <1>2 DEF CInv, ConesFixed, FaultyPass, GoodPass, Answered
<1> QED
  BY <1>7, <1>8 DEF CInv, Correct, DetectionCorrect, GoodValuesLeft, MarksExact

\* The least fault goes into the circuit.
LEMMA InjectCorrect ==
  ASSUME IInv, CInv, InjectNext
  PROVE  CInv'
<1>1. PICK f \in First(toInject) : InjectFault(f, outValue) /\ toInject' = toInject \ {f}
  BY DEF InjectNext
<1>2. UNCHANGED <<netlist, gateToRelatedGates, outValue, pc, newFaults>> /\ pc = "inject"
  BY DEF InjectNext, callVars
<1>3. PICK net, injected : net = netlist /\ injected = Injected
  OBVIOUS
<1>4. /\ WellFormed(net) /\ InjectTypeOK /\ injected \subseteq FaultNumber
      /\ HasAllFaults(net, injected) /\ f \in allSSAFList(net) /\ f \in newFaults /\ f \in toInject
      /\ \A x \in injected : x < f
  BY <1>1, <1>2, <1>3, CallFacts, InjectTypes DEF IInv, CInv, TypeOK, InjectionExact, First, Injected
<1>5. HasAllFaults(net, injected \cup {f})'
  BY <1>1, <1>4, InjectAddsFault
<1>6. Injected' = injected \cup {f} /\ netlist' = net
  BY <1>1, <1>2, <1>3, <1>4 DEF Injected
<1>7. \A x \in Injected', y \in toInject' : x < y
  <2> SUFFICES ASSUME NEW x \in Injected', NEW y \in toInject' PROVE x < y
    OBVIOUS
  <2>1. y \in toInject /\ y # f /\ f <= y
    BY <1>1 DEF First
  <2>2. CASE x \in injected
    BY <1>2, <1>3, <2>1, <2>2 DEF CInv, InjectionExact
  <2>3. CASE x = f
    <3>1. f \in Int /\ y \in Int
      <4>1. \A z \in FaultNumber : z \in Int
        BY SizeNat DEF FaultNumber, FaultID, Bit
      <4> QED
        BY <1>4, <2>1, <4>1, CallFacts DEF IInv, TypeOK
    <3> QED
      BY <2>1, <2>3, <3>1
  <2> QED
    BY <1>6, <2>2, <2>3
<1>8. \A g \in GateID : theCircuit'[g].gateType = "constant" => outValue'[g] = netlist'[g].constant
  <2> SUFFICES ASSUME NEW g \in GateID, theCircuit'[g].gateType = "constant"
               PROVE  theCircuit[g].gateType = "constant"
    BY <1>2 DEF CInv, InjectionExact
  <2>1. theCircuit \in [GateID -> Gate]
    BY DEF IInv, TypeOK
  <2>2. CASE theCircuit'[g] = theCircuit[g]
    BY <2>2
  <2>3. CASE theCircuit'[g] = Faulted(theCircuit[g], faultPort(f), Size + Len(stuckatCons))
    <3>1. theCircuit[g] \in Gate
      BY <2>1
    <3> QED
      BY <2>3, <3>1 DEF Faulted, changeOutputStuckat, Gate
  <2> QED
    BY <1>1, <2>1, <2>2, <2>3 DEF InjectFault, injectVars
<1>9. InjectionExact'
  BY <1>5, <1>6, <1>7, <1>8 DEF InjectionExact
<1>10. ConesFixed' /\ FaultyPass' /\ GoodPass' /\ ~ Answered'
  BY <1>2 DEF CInv, ConesFixed, FaultyPass, GoodPass, Answered
<1> QED
  BY <1>9, <1>10 DEF CInv, Correct, DetectionCorrect, GoodValuesLeft, MarksExact

\* All faults are in; the pattern is assigned and the first pass begins.
LEMMA AssignCorrect ==
  ASSUME IInv, CInv, AssignFaulty
  PROVE  CInv'
<1>1. /\ UNCHANGED <<theCircuit, stuckatCons, netlist, gateToRelatedGates, newFaults, testVector, toInject>>
      /\ pc = "inject" /\ pc' = "faulty" /\ toInject = {} /\ pending' = Related
      /\ outValue' = assignPIs(theCircuit, outValue, testVector)
  BY DEF AssignFaulty, injectVars, callVars, Related
<1>2. /\ outValue \in [GateID -> Bit] /\ theCircuit \in [GateID -> Gate]
      /\ WellFormed(netlist)
  BY CallFacts DEF IInv, TypeOK
<1>3. ASSUME NEW g \in GateID, theCircuit[g].gateType = "PI"
      PROVE  outValue'[g] = testVector[g]
  <2>1. HasFaults(netlist, Injected, g)
    BY <1>1 DEF CInv, InjectionExact, HasAllFaults
  <2>2. netlist[g].gateType = "PI"
    BY <1>3, <2>1 DEF HasFaults
  <2>3. g \in PIs
    BY <1>2, <2>2 DEF WellFormed
  <2> QED
    BY <1>1, <1>3, <2>3 DEF assignPIs
<1>4. \A g \in GateID : theCircuit[g].gateType = "constant" => outValue'[g] = outValue[g]
  BY <1>1 DEF assignPIs
<1>5. Injected' = Injected /\ HasAllFaults(netlist, Injected)'
  BY <1>1 DEF Injected, CInv, InjectionExact, HasAllFaults, HasFaults, TiedTo
<1>6. InjectionExact'
  BY <1>1, <1>4, <1>5 DEF CInv, InjectionExact
<1>7. Related' = Related
  BY <1>1 DEF Related, getAllRelatedGates
<1>8. FaultyPass'
  BY <1>1, <1>3, <1>7 DEF FaultyPass
<1>9. ConesFixed' /\ GoodPass' /\ ~ Answered'
  BY <1>1 DEF CInv, ConesFixed, GoodPass, Answered
<1> QED
  BY <1>6, <1>8, <1>9 DEF CInv, Correct, DetectionCorrect, GoodValuesLeft, MarksExact

\* The gate a pass visits: its fanins were visited before it.
LEMMA VisitedInOrder ==
  ASSUME IInv, ConesFixed, pending \subseteq Related, NEW g \in First(pending)
  PROVE  g \in GateID /\ g \in Related /\ Fanins(netlist, g) \subseteq Related \ pending
<1>1. g \in GateID /\ g \in Related /\ Fanins(netlist, g) \subseteq Related
  BY RelatedClosed DEF IInv, First
<1>2. ASSUME NEW f \in Fanins(netlist, g), f \in pending
      PROVE  FALSE
  <2>1. f < g /\ f \in GateID
    BY <1>1, CallFacts, FaninsPrecede DEF IInv
  <2>2. g <= f
    BY <1>2 DEF First
  <2> QED
    BY <1>1, <2>1, <2>2, SizeNat
<1> QED
  BY <1>1, <1>2

\* A gate is computed in the faulty circuit.
LEMMA FaultyStepCorrect ==
  ASSUME IInv, CInv, PropagateNext, pc = "faulty"
  PROVE  CInv'
<1>1. PICK g \in First(pending) :
        /\ outValue' = [outValue EXCEPT ![g] = OutOf(theCircuit, stuckatCons, outValue, g)]
        /\ pending' = pending \ {g}
  BY DEF PropagateNext
<1>2. UNCHANGED <<theCircuit, stuckatCons, netlist, gateToRelatedGates, newFaults, testVector, toInject, pc>>
  BY DEF PropagateNext, injectVars, callVars
<1>3. pending \subseteq Related /\ toInject = {} /\ ConesFixed /\ Injected = newFaults
  BY DEF CInv, FaultyPass, Injected
<1>4. g \in GateID /\ g \in Related /\ Fanins(netlist, g) \subseteq Related \ pending
  BY <1>3, VisitedInOrder
<1>5. outValue \in [GateID -> Bit] /\ WellFormed(netlist) /\ testVector \in [PIs -> Bit]
  BY CallFacts DEF IInv, TypeOK
<1>6. outValue'[g] = OutOf(theCircuit, stuckatCons, outValue, g) /\ \A h \in GateID : h # g => outValue'[h] = outValue[h]
  BY <1>1, <1>4, <1>5
<1>7. outValue'[g] = Bad[g]
  <2>1. HasAllFaults(netlist, newFaults)
    BY <1>3 DEF CInv, InjectionExact
  <2>2. \A f \in Fanins(netlist, g) : outValue[f] = Bad[f]
    BY <1>4 DEF CInv, FaultyPass
  <2>3. Carries(netlist, testVector, outValue, Bad, g)
    BY <1>4, <2>2 DEF CInv, FaultyPass, InjectionExact, Carries
  <2>4. OutOf(theCircuit, stuckatCons, outValue, g) = RefOut(netlist, newFaults, testVector, Bad, g)
    BY <1>4, <1>5, <2>1, <2>3, SetOutExact
  <2>5. Bad[g] = RefOut(netlist, newFaults, testVector, Bad, g)
    BY <1>4, <1>5, RefValueEquation DEF Bad
  <2> QED
    BY <1>6, <2>4, <2>5
<1>8. \A h \in GateID : theCircuit[h].gateType \in {"PI", "constant"} => outValue'[h] = outValue[h]
  BY <1>6 DEF OutOf
<1>9. Related' = Related /\ Bad' = Bad /\ Injected' = Injected
  BY <1>2 DEF Related, getAllRelatedGates, Bad, Injected
<1>10. InjectionExact'
  <2>1. HasAllFaults(netlist, Injected)'
    BY <1>2, <1>9 DEF CInv, InjectionExact, HasAllFaults, HasFaults, TiedTo
  <2> QED
    BY <1>2, <1>8, <1>9, <2>1 DEF CInv, InjectionExact
<1>11. FaultyPass'
  <2>1. pending' \subseteq Related' /\ toInject' = {}
    BY <1>1, <1>2, <1>3, <1>9
  <2>2. \A h \in GateID : theCircuit'[h].gateType = "PI" => outValue'[h] = testVector'[h]
    BY <1>2, <1>8 DEF CInv, FaultyPass
  <2>3. ASSUME NEW h \in Related \ pending'
        PROVE  outValue'[h] = Bad[h]
    <3>1. CASE h = g
      BY <1>7, <3>1
    <3>2. CASE h # g
      <4>1. h \in Related \ pending /\ h \in GateID
        BY <1>1, <1>3, <2>3, <3>2, RelatedClosed DEF IInv
      <4> QED
        BY <1>6, <3>2, <4>1 DEF CInv, FaultyPass
    <3> QED
      BY <3>1, <3>2
  <2> QED
    BY <1>9, <2>1, <2>2, <2>3 DEF FaultyPass
<1>12. ConesFixed' /\ GoodPass' /\ ~ Answered'
  BY <1>2 DEF CInv, ConesFixed, GoodPass, Answered
<1> QED
  BY <1>10, <1>11, <1>12 DEF CInv, Correct, DetectionCorrect, GoodValuesLeft, MarksExact

\* A gate is computed in the fault-free circuit, and marked.
LEMMA GoodStepCorrect ==
  ASSUME IInv, CInv, PropagateNext, pc = "good"
  PROVE  CInv'
<1>1. PICK g \in First(pending) :
        /\ outValue' = [outValue EXCEPT ![g] = OutOf(theCircuit, stuckatCons, outValue, g)]
        /\ different' = [different EXCEPT ![g] = outValue[g] # outValue'[g]]
        /\ pending' = pending \ {g}
  BY DEF PropagateNext
<1>2. UNCHANGED <<netlist, gateToRelatedGates, newFaults, testVector, toInject, pc>>
  BY DEF PropagateNext, injectVars, callVars
<1>3. pending \subseteq Related /\ ConesFixed
  BY DEF CInv, GoodPass
<1>4. g \in GateID /\ g \in Related /\ Fanins(netlist, g) \subseteq Related \ pending
  BY <1>3, VisitedInOrder
<1>5. /\ outValue \in [GateID -> Bit] /\ different \in [GateID -> BOOLEAN]
      /\ WellFormed(netlist) /\ testVector \in [PIs -> Bit]
  BY CallFacts DEF IInv, TypeOK
<1>6. /\ outValue'[g] = OutOf(theCircuit, stuckatCons, outValue, g)
      /\ \A h \in GateID : h # g => outValue'[h] = outValue[h]
      /\ different'[g] = (outValue[g] # outValue'[g])
      /\ \A h \in GateID : h # g => different'[h] = different[h]
  BY <1>1, <1>4, <1>5
<1>7. theCircuit = netlist /\ \A h \in GateID : netlist[h].gateType = "constant" => outValue[h] = netlist[h].constant
  BY DEF IInv, CircuitRestored, FaultFree
<1>8. outValue'[g] = Good[g]
  <2>1. HasAllFaults(netlist, {})
    BY <1>7, NoFaults
  <2>2. \A f \in Fanins(netlist, g) : outValue[f] = Good[f]
    BY <1>4 DEF CInv, GoodPass
  <2>3. Carries(netlist, testVector, outValue, Good, g)
    BY <1>4, <1>5, <1>7, <2>2 DEF CInv, GoodPass, WellFormed, Carries
  <2>4. OutOf(theCircuit, stuckatCons, outValue, g) = RefOut(netlist, {}, testVector, Good, g)
    BY <1>4, <1>5, <2>1, <2>3, SetOutExact
  <2>5. Good[g] = RefOut(netlist, {}, testVector, Good, g)
    BY <1>4, <1>5, RefValueEquation DEF Good
  <2> QED
    BY <1>6, <2>4, <2>5
<1>9. Related' = Related /\ Bad' = Bad /\ Good' = Good /\ \A h : Computed(h)' = Computed(h)
  BY <1>2 DEF Related, getAllRelatedGates, Bad, Good, Computed
<1>10. Computed(g) => (different'[g] <=> Bad[g] # Good[g])
  BY <1>3, <1>6, <1>8 DEF CInv, GoodPass, First
<1>11. GoodPass'
  <2>1. pending' \subseteq Related
    BY <1>1, <1>3
  <2>2. \A h \in PIs : outValue'[h] = testVector[h]
    <3>1. \A h \in PIs : h \in GateID /\ theCircuit[h].gateType = "PI"
      BY <1>5, <1>7, CallFacts DEF IInv, WellFormed
    <3>2. \A h \in PIs : outValue'[h] = outValue[h]
      BY <1>6, <3>1 DEF OutOf
    <3> QED
      BY <3>2 DEF CInv, GoodPass
  <2>3. ASSUME NEW h \in pending', Computed(h)
        PROVE  outValue'[h] = Bad[h]
    <3>1. h \in pending /\ h # g /\ h \in GateID
      BY <1>1, <1>3, <2>3, RelatedClosed DEF IInv
    <3> QED
      BY <1>6, <2>3, <3>1 DEF CInv, GoodPass
  <2>4. ASSUME NEW h \in Related \ pending'
        PROVE  outValue'[h] = Good[h] /\ (Computed(h) => (different'[h] <=> Bad[h] # Good[h]))
    <3>1. CASE h = g
      BY <1>8, <1>10, <3>1
    <3>2. CASE h # g
      <4>1. h \in Related \ pending /\ h \in GateID
        BY <1>1, <1>3, <2>4, <3>2, RelatedClosed DEF IInv
      <4>2. outValue[h] = Good[h] /\ (Computed(h) => (different[h] <=> Bad[h] # Good[h]))
        BY <4>1 DEF CInv, GoodPass, Marked
      <4> QED
        BY <1>6, <3>2, <4>1, <4>2
    <3> QED
      BY <3>1, <3>2
  <2>5. \A p \in POs \ Related : ~ different'[p]
    BY <1>4, <1>6, CallFacts DEF IInv, CInv, GoodPass
  <2> QED
    BY <1>2, <1>9, <2>1, <2>2, <2>3, <2>4, <2>5 DEF GoodPass, Marked
<1>12. ConesFixed' /\ InjectionExact' /\ FaultyPass' /\ ~ Answered'
  BY <1>2 DEF CInv, ConesFixed, InjectionExact, FaultyPass, Answered
<1> QED
  BY <1>11, <1>12 DEF CInv, Correct, DetectionCorrect, GoodValuesLeft, MarksExact

\* The circuit is put back; what the first pass left is what the marks of the
\* second will be taken from.
LEMMA ResetCorrect ==
  ASSUME IInv, CInv, ResetToGood
  PROVE  CInv'
<1>1. /\ UNCHANGED <<netlist, gateToRelatedGates, newFaults, testVector>>
      /\ pc = "faulty" /\ pc' = "good" /\ pending = {} /\ pending' = Related
      /\ different' = ClearedMarks(Related)
      /\ outValue' = assignPIs(theCircuit', ValuesAfterReset, testVector)
  BY DEF ResetToGood, callVars, Related
<1>2. /\ netlist \in [GateID -> Gate] /\ \A g \in PIs : netlist[g].gateType = "PI" /\ g \in GateID
      /\ \A g \in GateID : Computed(g) => g \notin PIs
  BY NetlistFacts, CallFacts DEF IInv, Computed
<1>3. theCircuit' = netlist
  BY <1>2, ResetRestores, InjectTypes DEF IInv, ResetToGood
<1>4. Related' = Related /\ Bad' = Bad /\ \A h : Computed(h)' = Computed(h)
  BY <1>1 DEF Related, getAllRelatedGates, Bad, Computed
<1>5. \A g \in PIs : outValue'[g] = testVector[g]
  BY <1>1, <1>2, <1>3 DEF assignPIs
<1>6. ASSUME NEW g \in Related, Computed(g)
      PROVE  outValue'[g] = Bad[g]
  <2>1. g \in GateID /\ g \notin PIs
    BY <1>2, <1>6, RelatedClosed DEF IInv, CInv
  <2>2. outValue'[g] = ValuesAfterReset[g]
    BY <1>1, <2>1 DEF assignPIs
  <2>3. g \in DOMAIN preGateInTheCircuit => preGateInTheCircuit[g].gate = netlist[g]
    BY <2>1 DEF IInv, Recoverable
  <2>4. ValuesAfterReset[g] = outValue[g]
    BY <1>6, <2>1, <2>3 DEF ValuesAfterReset, Computed
  <2>5. outValue[g] = Bad[g]
    BY <1>1 DEF CInv, FaultyPass
  <2> QED
    BY <2>2, <2>4, <2>5
<1>7. \A p \in POs \ Related : ~ different'[p]
  <2>1. \A p \in POs : p \in GateID /\ p >= gateSize
    BY SizeAssumption DEF POs, GateID, Size
  <2> QED
    BY <1>1, <2>1 DEF ClearedMarks
<1>8. GoodPass'
  BY <1>1, <1>4, <1>5, <1>6, <1>7 DEF GoodPass
<1>9. ConesFixed' /\ InjectionExact' /\ FaultyPass' /\ ~ Answered'
  BY <1>1 DEF CInv, ConesFixed, InjectionExact, FaultyPass, Answered
<1> QED
  BY <1>8, <1>9 DEF CInv, Correct, DetectionCorrect, GoodValuesLeft, MarksExact

\* What the finished second pass gives.
LEMMA AnswerCorrect ==
  ASSUME IInv, CInv, Answer
  PROVE  CInv'
<1>1. /\ UNCHANGED <<netlist, gateToRelatedGates, outValue, different, newFaults, testVector>>
      /\ pc = "good" /\ pc' = "idle" /\ pending = {}
      /\ answer' = IF \E p \in POs : different[p] THEN 1 ELSE 0
  BY DEF Answer, callVars
<1>2. \A g \in Related : outValue[g] = Good[g] /\ (Computed(g) => Marked(g))
  BY <1>1 DEF CInv, GoodPass
<1>3. Related' = Related /\ FaultGatesReached' = FaultGatesReached
  BY <1>1 DEF Related, getAllRelatedGates, FaultGatesReached
<1>4. GoodValuesLeft'
  BY <1>1, <1>2, <1>3 DEF GoodValuesLeft, Good
<1>5. MarksExact'
  BY <1>1, <1>2, <1>3 DEF MarksExact, Good, Bad, Marked, Computed
<1>6. ASSUME FaultGatesReached, NEW p \in POs
      PROVE  Marked(p)
  <2>1. p \in GateID /\ Computed(p)
    BY CallFacts DEF IInv
  <2>2. CASE p \in Related
    BY <1>2, <2>1, <2>2
  <2>3. CASE p \notin Related
    <3>1. ~ different[p]
      BY <1>1, <2>3 DEF CInv, GoodPass
    <3>2. Bad[p] = Good[p]
      BY <1>6, <2>1, <2>3, UnrelatedSame DEF IInv, CInv
    <3> QED
      BY <3>1, <3>2 DEF Marked
  <2> QED
    BY <2>2, <2>3
<1>7. FaultGatesReached => (answer' = 1 <=> RefDetects(netlist, newFaults, testVector))
  BY <1>1, <1>6 DEF RefDetects, Marked, Good, Bad
<1>8. DetectionCorrect'
  BY <1>1, <1>3, <1>7 DEF DetectionCorrect
<1>9. ConesFixed' /\ InjectionExact' /\ FaultyPass' /\ GoodPass'
  BY <1>1 DEF CInv, ConesFixed, InjectionExact, FaultyPass, GoodPass
<1> QED
  BY <1>4, <1>5, <1>8, <1>9 DEF CInv, Correct

\* A step that changes nothing.
LEMMA StutterCorrect ==
  ASSUME CInv, UNCHANGED vars
  PROVE  CInv'
<1>1. UNCHANGED <<theCircuit, stuckatCons, netlist, gateToRelatedGates, outValue, different, pc,
                  newFaults, testVector, toInject, pending, answer>>
  BY DEF vars, injectVars, callVars
<1>2. Related' = Related /\ Good' = Good /\ Bad' = Bad /\ Injected' = Injected
      /\ FaultGatesReached' = FaultGatesReached /\ Answered' = Answered
  BY <1>1 DEF Related, getAllRelatedGates, Good, Bad, Injected, FaultGatesReached, Answered
<1>3. ConesFixed' /\ InjectionExact'
  BY <1>1, <1>2 DEF CInv, ConesFixed, InjectionExact, HasAllFaults, HasFaults, TiedTo
<1>4. FaultyPass' /\ GoodPass'
  BY <1>1, <1>2 DEF CInv, FaultyPass, GoodPass, Marked, Computed
<1>5. Correct'
  BY <1>1, <1>2 DEF CInv, Correct, DetectionCorrect, GoodValuesLeft, MarksExact
<1> QED
  BY <1>3, <1>4, <1>5 DEF CInv

\* The invariant of the two passes is inductive.
THEOREM PassesExact == Spec => [](IInv /\ CInv)
<1>1. Init => IInv /\ CInv
  BY InitInvariant, InitCorrect
<1>2. IInv /\ CInv /\ [Next]_vars => IInv' /\ CInv'
  <2> SUFFICES ASSUME IInv, CInv, [Next]_vars PROVE IInv' /\ CInv'
    OBVIOUS
  <2>1. IInv'
    BY CallInvariant, InjectInvariant, AssignInvariant, PropagateInvariant, ResetInvariant,
       AnswerInvariant, StutterInvariant DEF Next
  <2>2. CInv'
    <3>1. CASE PropagateNext
      <4>1. pc \in {"faulty", "good"}
        BY <3>1 DEF PropagateNext
      <4> QED
        BY <3>1, <4>1, FaultyStepCorrect, GoodStepCorrect
    <3> QED
      BY <3>1, CallCorrect, InjectCorrect, AssignCorrect, ResetCorrect, AnswerCorrect,
         StutterCorrect DEF Next
  <2> QED
    BY <2>1, <2>2
<1> QED
  BY <1>1, <1>2, PTL DEF Spec

\* Whether a call answers 1 is whether its pattern distinguishes the circuit
\* with all its faults from the fault-free one: findSSAFsBlocked and
\* findSSAFsBlocked2 may act on it.
THEOREM DetectionExact == Spec => []DetectionCorrect
BY PassesExact, PTL DEF CInv, Correct

\* The gates the blocking search reads after a call carry the pattern's
\* fault-free values, though only related gates were visited.
THEOREM GoodValuesExact == Spec => []GoodValuesLeft
BY PassesExact, PTL DEF CInv, Correct

\* The marks along which the blocking search walks are those of the gates at
\* which the faulty and the fault-free circuit differ.
THEOREM MarksCorrect == Spec => []MarksExact
BY PassesExact, PTL DEF CInv, Correct
=============================================================================
