----------------------- MODULE PackedSimulation_proof -----------------------
(***************************************************************************)
(* For every set of netlists, every word size and every bound on the       *)
(* pattern lists: no call of checkallPatterns leaves a fault, a saved gate *)
(* or a stuck-at constant in the circuit.  The words play no part in this, *)
(* so that the invariant speaks of the four variables of the injection and *)
(* of the faults still to be injected only.                                *)
(***************************************************************************)
EXTENDS PackedSimulation, FaultInjection_proof

Restored ==
  /\ theCircuit = netlist
  /\ preGateInTheCircuit = NoCopies
  /\ stuckatCons = << >>
  /\ faultsInsertedtheCircuit = 0

IInv ==
  /\ netlist \in Netlists
  /\ InjectTypeOK
  /\ Recoverable(netlist)
  /\ newFaults \subseteq FaultNumber /\ toInject \subseteq FaultNumber
  /\ pc \in {"idle", "block", "inject", "good", "compare"}
  /\ pc \in {"idle", "block", "compare"} => Restored
-----------------------------------------------------------------------------
\* The circuit at hand is a vector of gates.
LEMMA NetlistGates ==
  ASSUME netlist \in Netlists
  PROVE  netlist \in [GateID -> Gate]
BY PackedAssumption DEF WellFormed

\* A reset step leaves the circuit restored.
LEMMA ResetStep ==
  ASSUME IInv, ResetFaults, UNCHANGED netlist
  PROVE  InjectTypeOK' /\ Recoverable(netlist)' /\ Restored'
<1>1. netlist \in [GateID -> Gate]
  BY NetlistGates DEF IInv
<1>2. Restored'
  BY <1>1, ResetRestores DEF IInv, Restored
<1>3. DOMAIN preGateInTheCircuit' = {}
  BY <1>2 DEF Restored, NoCopies
<1> QED
  BY <1>1, <1>2, <1>3 DEF Restored, InjectTypeOK, Recoverable

\* A step that leaves the circuit alone.
LEMMA UntouchedStep ==
  ASSUME IInv, UNCHANGED <<injectVars, netlist>>
  PROVE  InjectTypeOK' /\ Recoverable(netlist)' /\ (Restored => Restored')
BY DEF IInv, InjectTypeOK, Recoverable, Restored, injectVars

\* The faults of a request are fault numbers.
LEMMA RequestedFaults ==
  ASSUME netlist \in Netlists, NEW F \in FaultSets(netlist)
  PROVE  F \subseteq FaultNumber
BY ListedFaults, PackedAssumption

\* A fault goes into the circuit.
LEMMA InjectStep ==
  ASSUME IInv, InjectNext
  PROVE  IInv'
<1>1. PICK f \in First(toInject) : InjectFault(f, outValue_64) /\ toInject' = toInject \ {f}
  BY DEF InjectNext
<1>2. f \in FaultNumber
  BY DEF IInv, First
<1>3. InjectTypeOK'
  BY <1>1, <1>2, InjectKeepsTypes DEF IInv
<1>4. UNCHANGED <<netlist, newFaults, pc>> /\ pc = "inject"
  BY DEF InjectNext, callVars
<1>5. Recoverable(netlist)'
  BY <1>1, <1>2, <1>4, InjectKeepsRecoverable DEF IInv, Recoverable
<1> QED
  BY <1>1, <1>3, <1>4, <1>5 DEF IInv

\* A call returns.
LEMMA ReturnStep ==
  ASSUME IInv, Restored, NEW value, Return(value)
  PROVE  IInv'
BY UntouchedStep DEF IInv, Return

\* The invariant is inductive.
THEOREM Invariant == Spec => []IInv
<1>1. Init => IInv
  <2> SUFFICES ASSUME Init PROVE IInv
    OBVIOUS
  <2>1. netlist \in Netlists /\ theCircuit = netlist /\ Restored
    BY DEF Init, InjectInit, Restored
  <2>2. InjectTypeOK /\ Recoverable(netlist)
    BY <2>1, NetlistGates, FaultFreeRecoverable DEF Restored
  <2> QED
    BY <2>1, <2>2 DEF IInv, Init
<1>2. IInv /\ [Next]_vars => IInv'
  <2> SUFFICES ASSUME IInv, [Next]_vars PROVE IInv'
    OBVIOUS
  <2>1. ASSUME NEW F \in FaultSets(netlist), NEW P \in PatternLists, Call(F, P)
        PROVE  IInv'
    BY <2>1, UntouchedStep, RequestedFaults DEF IInv, Call
  <2>2. CASE StartBlock
    BY <2>2, ResetStep DEF IInv, StartBlock, callVars
  <2>3. CASE InjectNext
    BY <2>3, InjectStep
  <2>4. CASE FaultyPass
    BY <2>4, UntouchedStep DEF IInv, FaultyPass, callVars
  <2>5. CASE GoodPass
    BY <2>5, ResetStep DEF IInv, GoodPass, callVars
  <2>6. CASE Detected
    BY <2>6, ReturnStep DEF IInv, Detected
  <2>7. CASE NextBlock
    BY <2>7, UntouchedStep DEF IInv, NextBlock, callVars
  <2>8. CASE ReturnUndetected
    BY <2>8, ReturnStep DEF IInv, ReturnUndetected
  <2>9. CASE UNCHANGED vars
    BY <2>9, UntouchedStep DEF IInv, vars, callVars
  <2> QED
    BY <2>1, <2>2, <2>3, <2>4, <2>5, <2>6, <2>7, <2>8, <2>9 DEF Next
<1> QED
  BY <1>1, <1>2, PTL DEF Spec

\* Between calls the shared circuit has no fault in it, however many blocks of
\* patterns the call went through and wherever it returned.
THEOREM Restoration == Spec => []CircuitRestored
<1>1. IInv => CircuitRestored
  BY DEF IInv, Restored, CircuitRestored, FaultFree
<1> QED
  BY <1>1, Invariant, PTL
-----------------------------------------------------------------------------
(***************************************************************************)
(* What the words hold.  Bit b of a word belongs to pattern b of the       *)
(* block: after the first pass it is the faulty circuit's value, after the *)
(* second one the fault-free value, and what is compared are the outputs   *)
(* of the two.  An output that is not related to the faults is not         *)
(* visited by either pass and keeps its word from one to the other.        *)
(***************************************************************************)
BitOf(word, b) == IF b \in word THEN 1 ELSE 0

Related == getAllRelatedGates
Injected == newFaults \ toInject

Pattern(b) == patterns[WSIZE * block + b + 1]
Good(b) == RefValue(netlist, {}, Pattern(b))
Bad(b) == RefValue(netlist, newFaults, Pattern(b))

ConesFixed == gateToRelatedGates = [g \in GateID |-> RelatedGates(netlist, g)]

WordsTyped ==
  /\ outValue_64 \in [GateID -> SUBSET Bits]
  /\ \A g \in DOMAIN preGateInTheCircuit : preGateInTheCircuit[g].outValue \in SUBSET Bits

\* A constant of the netlist has its own word, or its own word is saved.
ConstantsRecoverable ==
  \A g \in GateID : netlist[g].gateType = "constant" =>
    IF g \in DOMAIN preGateInTheCircuit
    THEN preGateInTheCircuit[g].outValue = Replicated(netlist[g].constant)
    ELSE outValue_64[g] = Replicated(netlist[g].constant)

CallTyped ==
  pc # "idle" =>
    /\ newFaults \in FaultSets(netlist) /\ patterns \in PatternLists
    /\ block \in Nat
    /\ pc # "block" => patterns # << >> /\ newFaults # {}
    /\ patterns # << >> => block <= count

\* Only gates of the faults are saved.
CopiesOfFaults ==
  pc \in {"inject", "good"} =>
    \A g \in DOMAIN preGateInTheCircuit : \E f \in newFaults : g = faultGate(f)

InjectionExact ==
  pc = "inject" =>
    /\ HasAllFaults(netlist, Injected)
    /\ toInject \subseteq newFaults
    /\ \A x \in Injected, y \in toInject : x < y
    /\ \A g \in GateID : theCircuit[g].gateType = "constant" =>
         netlist[g].gateType = "constant" /\ outValue_64[g] = Replicated(netlist[g].constant)

FaultyWords ==
  pc = "good" =>
    /\ isDiff_64 = [p \in POs |-> outValue_64[p]]
    /\ \A p \in POs \cap Related : isDiff_64[p] = {b \in bitMax : Bad(b)[p] = 1}

Differences ==
  pc = "compare" => isDiff_64 = [p \in POs |-> {b \in bitMax : Bad(b)[p] # Good(b)[p]}]

EarlierBlocks ==
  pc # "idle" => \A i \in 0 .. WSIZE * block - 1 : ~ RefDetects(netlist, newFaults, patterns[i + 1])

CInv ==
  /\ ConesFixed /\ WordsTyped /\ ConstantsRecoverable /\ CallTyped /\ CopiesOfFaults
  /\ InjectionExact /\ FaultyWords /\ Differences /\ EarlierBlocks
-----------------------------------------------------------------------------
\* The last block holds at least one pattern and at most WSIZE.
LEMMA LastBlock ==
  ASSUME NEW n \in Nat \ {0}, NEW k, k = (n - 1) \div WSIZE
  PROVE  k \in Nat /\ WSIZE * k < n /\ n <= WSIZE * k + WSIZE
<1>1. WSIZE \in Nat \ {0}
  BY PackedAssumption
<1> QED
  BY <1>1

\* Earlier blocks are full.
LEMMA BlocksInOrder ==
  ASSUME NEW i \in Nat, NEW k \in Nat, i < k
  PROVE  WSIZE * i + WSIZE <= WSIZE * k
<1>1. WSIZE \in Nat \ {0}
  BY PackedAssumption
<1> QED
  BY <1>1

\* The patterns of a call.
LEMMA PatternsOfCall ==
  ASSUME NEW P \in PatternLists
  PROVE  /\ Len(P) \in Nat
         /\ \A i \in 1 .. Len(P) : P[i] \in [PIs -> Bit]
         /\ P = << >> <=> Len(P) = 0
<1>1. PICK n \in 0 .. MaxPatterns : P \in [1 .. n -> Patterns]
  BY DEF PatternLists
<1>2. n \in Nat
  BY <1>1, PackedAssumption
<1>3. P \in Seq(Patterns) /\ Len(P) = n
  BY <1>1, <1>2
<1> QED
  BY <1>1, <1>2, <1>3 DEF Patterns

\* The bits of a block and the patterns they stand for.
LEMMA BlockBits ==
  ASSUME patterns \in PatternLists, patterns # << >>, block \in Nat, block <= count
  PROVE  /\ count \in Nat /\ curNum \in 1 .. WSIZE /\ bitMax \subseteq Bits /\ bitMax \subseteq Nat
         /\ \A b \in bitMax : WSIZE * block + b \in 0 .. Len(patterns) - 1 /\ Pattern(b) \in [PIs -> Bit]
         /\ block < count => curNum = WSIZE
         /\ block = count => WSIZE * block + curNum = Len(patterns)
<1> DEFINE n == Len(patterns)
<1>1. n \in Nat \ {0} /\ \A i \in 1 .. n : patterns[i] \in [PIs -> Bit]
  BY PatternsOfCall
<1>2. WSIZE \in Nat \ {0}
  BY PackedAssumption
<1>3. count \in Nat /\ WSIZE * count < n /\ n <= WSIZE * count + WSIZE
  BY <1>1, LastBlock DEF count
<1>4. block < count => WSIZE * block + WSIZE <= WSIZE * count
  BY <1>3, BlocksInOrder
<1>5. WSIZE * block \in Nat /\ WSIZE * count \in Nat
  BY <1>2, <1>3
<1>6. PICK wb, wc \in Nat : wb = WSIZE * block /\ wc = WSIZE * count
  BY <1>5
<1>7. curNum = IF block < count THEN WSIZE ELSE n - wc
  BY <1>2, <1>3, <1>6 DEF curNum
<1>8. block = count => wb = wc
  BY <1>6
<1> HIDE DEF n
<1>9. curNum \in 1 .. WSIZE /\ wb + curNum <= n /\ (block = count => wb + curNum = n)
  BY <1>1, <1>2, <1>3, <1>4, <1>6, <1>7, <1>8
<1>10. ASSUME NEW b \in bitMax
       PROVE  b \in Bits /\ b \in Nat /\ wb + b \in 0 .. n - 1 /\ wb + b + 1 \in 1 .. n
  BY <1>1, <1>2, <1>9, <1>6 DEF bitMax, Bits
<1>11. \A b \in bitMax : Pattern(b) \in [PIs -> Bit]
  BY <1>1, <1>6, <1>10 DEF Pattern
<1> QED
  BY <1>3, <1>6, <1>7, <1>9, <1>10, <1>11 DEF n
-----------------------------------------------------------------------------
\* A word computed is a word, and no bit of it lies behind the last pattern.
LEMMA SetOutWord ==
  ASSUME NEW c \in [GateID -> Gate], NEW cons, NEW values, NEW g \in GateID,
         NEW max \in SUBSET Bits, values[g] \in SUBSET Bits
  PROVE  /\ OutOf_64(c, cons, values, g, max) \in SUBSET Bits
         /\ c[g].gateType \in {"PO", "bufInv", "aig"} => OutOf_64(c, cons, values, g, max) \subseteq max
<1>1. c[g].gateType \in Type
  BY DEF Gate
<1>2. CASE c[g].gateType \in {"PI", "constant"}
  BY <1>2 DEF OutOf_64
<1>3. CASE c[g].gateType \in {"PO", "bufInv", "aig"}
  BY <1>3 DEF OutOf_64
<1> QED
  BY <1>1, <1>2, <1>3 DEF Type

\* Every bit of a word is computed as setOut computes the value of one pattern.
LEMMA SetOutBit ==
  ASSUME NEW c \in [GateID -> Gate], NEW cons, NEW values, NEW g \in GateID,
         NEW max \in SUBSET Bits, NEW b \in max
  PROVE  BitOf(OutOf_64(c, cons, values, g, max), b) =
           IF c[g].gateType \in {"PI", "constant"} THEN BitOf(values[g], b)
           ELSE getOutValue(c[g], BitOf(PointedWord(values, cons, c[g].fanin1), b),
                                  BitOf(PointedWord(values, cons, c[g].fanin2), b))
<1> DEFINE word1 == PointedWord(values, cons, c[g].fanin1)
           word2 == PointedWord(values, cons, c[g].fanin2)
           gate == c[g]
           in1 == Asserted(word1, gate.invIn1)
           in2 == Asserted(word2, gate.invIn2)
           out == OutOf_64(c, cons, values, g, max)
<1>1. gate.gateType \in Type /\ gate.invIn1 \in Bit /\ gate.invIn2 \in Bit /\ gate.invOut \in Bit
  BY DEF Gate
<1>2. /\ gate.gateType \in {"PI", "constant"} => out = values[g]
      /\ gate.gateType = "PO" => out = word1 \cap max
      /\ gate.gateType = "bufInv" => out = Asserted(in1, gate.invOut) \cap max
      /\ gate.gateType = "aig" => out = Asserted(in1 \cap in2, gate.invOut) \cap max
  BY DEF OutOf_64
<1>3. b \in Bits
  OBVIOUS
<1> HIDE DEF word1, word2, out, gate
<1>4. /\ b \in in1 <=> BitOf(word1, b) = gate.invIn1
      /\ b \in in2 <=> BitOf(word2, b) = gate.invIn2
  BY <1>1, <1>3 DEF Asserted, BitOf, Bit
<1> HIDE DEF in1, in2
<1>5. BitOf(out, b) = IF gate.gateType \in {"PI", "constant"} THEN BitOf(values[g], b)
                      ELSE getOutValue(gate, BitOf(word1, b), BitOf(word2, b))
  <2>1. CASE gate.gateType \in {"PI", "constant"}
    BY <1>2, <2>1
  <2>2. CASE gate.gateType = "PO"
    BY <1>2, <2>2 DEF BitOf, getOutValue
  <2>3. CASE gate.gateType = "bufInv"
    BY <1>1, <1>2, <1>3, <1>4, <2>3 DEF BitOf, getOutValue, Asserted, Bit
  <2>4. CASE gate.gateType = "aig"
    BY <1>1, <1>2, <1>3, <1>4, <2>4 DEF BitOf, getOutValue, Asserted, Bit
  <2> QED
    BY <1>1, <2>1, <2>2, <2>3, <2>4 DEF Type
<1> QED
  BY <1>5 DEF out, gate, word1, word2

\* The words gate g finds when the pass has reached it.
Current(word, values, g) == [h \in GateID |-> IF h < g THEN word[h] ELSE values[h]]

\* A pass over gates and words.
IsPass(c, cons, values, related, max, word) ==
  /\ c \in [GateID -> Gate] /\ values \in [GateID -> SUBSET Bits] /\ max \in SUBSET Bits
  /\ word = propagatePI_64(c, cons, values, related, max)

\* A pass is what its recursion equation says.
LEMMA PassEquation ==
  ASSUME NEW c, NEW cons, NEW values, NEW related, NEW max, NEW word,
         IsPass(c, cons, values, related, max, word)
  PROVE  /\ word \in [GateID -> SUBSET Bits]
         /\ \A g \in GateID :
              word[g] = IF g \in related THEN OutOf_64(c, cons, Current(word, values, g), g, max)
                        ELSE values[g]
<1> DEFINE V == SUBSET Bits
           Out(w, g) == IF g \in related THEN OutOf_64(c, cons, Current(w, values, g), g, max) ELSE values[g]
           Step == [x \in [GateID -> V] \X GateID |-> Out(x[1], x[2])]
           P(w) == [g \in GateID |-> Out(w, g)]
<1> USE DEF IsPass
<1>1. ASSUME NEW w, NEW g \in GateID
      PROVE  Out(w, g) \in V
  <2>1. Current(w, values, g)[g] = values[g] /\ values[g] \in SUBSET Bits
    BY SizeNat DEF Current
  <2>2. OutOf_64(c, cons, Current(w, values, g), g, max) \in SUBSET Bits
    BY <2>1, SetOutWord
  <2> QED
    BY <2>1, <2>2
<1>2. ASSUME NEW v, NEW w, NEW g \in GateID, \A h \in GateID : h < g => v[h] = w[h]
      PROVE  Out(v, g) = Out(w, g)
  <2>1. Current(v, values, g) = Current(w, values, g)
    BY <1>2 DEF Current
  <2> QED
    BY <2>1
<1>3. word = CHOOSE w : w = P(w)
  BY DEF propagatePI_64, Current
<1> HIDE DEF Out
<1>4. \A v \in [GateID -> V], g \in GateID : Step[<<v, g>>] = Out(v, g)
  OBVIOUS
<1>5. Step \in [[GateID -> V] \X GateID -> V]
  <2>1. \A x \in [GateID -> V] \X GateID : x[2] \in GateID
    OBVIOUS
  <2> HIDE DEF V
  <2> QED
    BY <1>1, <2>1
<1> HIDE DEF Step
<1>6. OrderedStep(V, Step)
  <2>1. V # {}
    OBVIOUS
  <2> HIDE DEF V
  <2>2. ASSUME NEW v \in [GateID -> V], NEW w \in [GateID -> V], NEW g \in GateID,
               \A h \in GateID : h < g => v[h] = w[h]
        PROVE  Step[<<v, g>>] = Step[<<w, g>>]
    <3>1. Out(v, g) = Out(w, g)
      BY <1>2, <2>2
    <3> QED
      BY <1>4, <3>1
  <2> QED
    BY <1>5, <2>1, <2>2 DEF OrderedStep
<1> HIDE DEF V
<1>7. PICK v \in Solutions(V, Step) : TRUE
  BY <1>6, RecursionExists
<1>8. v = P(v)
  BY <1>4, <1>7 DEF Solutions
<1>9. word = P(word)
  <2> HIDE DEF P
  <2> QED
    BY <1>3, <1>8
<1>10. \A g \in GateID : word[g] = Out(word, g) /\ word[g] \in V
  BY <1>1, <1>9
<1>11. word \in [GateID -> V]
  BY <1>9, <1>10
<1> QED
  BY <1>10, <1>11 DEF V, Out
-----------------------------------------------------------------------------
\* Bit b of the related words: where the fanins carry what the reference
\* semantics has, so does the gate.
LocallyExact(net, F, pattern, related, word, b) ==
  LET ref == RefValue(net, F, pattern)
  IN \A g \in related :
       /\ g \in GateID /\ Fanins(net, g) \subseteq related
       /\ (\A f \in Fanins(net, g) : BitOf(word[f], b) = ref[f]) =>
            BitOf(word[g], b) = RefOut(net, F, pattern, ref, g)

\* Then all of them do.
LEMMA PassExact ==
  ASSUME NEW net, WellFormed(net), NEW F, NEW pattern \in [PIs -> Bit], NEW related, NEW word, NEW b,
         LocallyExact(net, F, pattern, related, word, b)
  PROVE  \A g \in related : BitOf(word[g], b) = RefValue(net, F, pattern)[g]
<1> DEFINE ref == RefValue(net, F, pattern)
           Exact == {g \in GateID : g \in related => BitOf(word[g], b) = ref[g]}
<1>1. \A g \in GateID : ref[g] = RefOut(net, F, pattern, ref, g)
  BY RefValueEquation
<1>2. ASSUME NEW g \in GateID, \A h \in GateID : h < g => h \in Exact
      PROVE  g \in Exact
  <2> SUFFICES ASSUME g \in related PROVE BitOf(word[g], b) = ref[g]
    OBVIOUS
  <2>1. \A f \in Fanins(net, g) : BitOf(word[f], b) = ref[f]
    BY <1>2, FaninsPrecede DEF LocallyExact
  <2> QED
    BY <1>1, <2>1 DEF LocallyExact
<1> HIDE DEF Exact
<1>3. \A g \in GateID : g \in Exact
  BY <1>2, GateInduction
<1> QED
  BY <1>3 DEF Exact, LocallyExact

\* What the call in progress works on.
LEMMA CallFacts ==
  ASSUME IInv, ConesFixed, CallTyped, pc \notin {"idle"}
  PROVE  /\ WellFormed(netlist) /\ netlist \in [GateID -> Gate]
         /\ newFaults \subseteq allSSAFList(netlist) /\ newFaults \subseteq FaultNumber
         /\ \A f \in newFaults : /\ faultGate(f) \in GateID /\ ReachedFromPI(netlist, faultGate(f))
                                 /\ faultGate(f) \in Related
         /\ \A g \in GateID : g \notin Related => \A f \in newFaults : g \notin RelatedGates(netlist, faultGate(f))
         /\ \A g \in Related : g \in GateID /\ Fanins(netlist, g) \subseteq Related
<1>1. WellFormed(netlist) /\ netlist \in [GateID -> Gate]
  BY PackedAssumption DEF IInv, WellFormed
<1>2. newFaults \subseteq allSSAFList(netlist) /\ \A f \in newFaults : ReachedFromPI(netlist, faultGate(f))
  BY PackedAssumption DEF IInv, CallTyped
<1>3. newFaults \subseteq FaultNumber /\ \A f \in newFaults : faultGate(f) \in GateID
  BY <1>2, ListedFaults, FaultNumberFields
<1>4. \A f \in newFaults : gateToRelatedGates[faultGate(f)] = RelatedGates(netlist, faultGate(f))
  BY <1>3 DEF ConesFixed
<1>5. ASSUME NEW g \in Related
      PROVE  g \in GateID /\ Fanins(netlist, g) \subseteq Related
  <2>1. PICK f \in newFaults : g \in RelatedGates(netlist, faultGate(f))
    BY <1>4 DEF Related, getAllRelatedGates
  <2>2. g \in GateID /\ Fanins(netlist, g) \subseteq RelatedGates(netlist, faultGate(f))
    BY <1>1, <1>3, <2>1, RelatedGatesClosed
  <2> QED
    BY <1>4, <2>2 DEF Related, getAllRelatedGates
<1>6. \A f \in newFaults : faultGate(f) \in Related
  BY <1>1, <1>3, <1>4, RelatedToItself DEF Related, getAllRelatedGates
<1>7. \A g \in GateID : g \notin Related => \A f \in newFaults : g \notin RelatedGates(netlist, faultGate(f))
  BY <1>4 DEF Related, getAllRelatedGates
<1> QED
  BY <1>1, <1>2, <1>3, <1>5, <1>6, <1>7

\* A primary input carries the pattern's bit, every other gate what it had.
LEMMA AssignedWords ==
  ASSUME NEW c, NEW values \in [GateID -> SUBSET Bits], bitMax \subseteq Bits
  PROVE  /\ assignPIs_64(c, values) \in [GateID -> SUBSET Bits]
         /\ \A g \in GateID : ~ (g \in PIs /\ c[g].gateType = "PI") => assignPIs_64(c, values)[g] = values[g]
         /\ \A g \in PIs \cap GateID, b \in bitMax :
              c[g].gateType = "PI" /\ Pattern(b)[g] \in Bit =>
                BitOf(assignPIs_64(c, values)[g], b) = Pattern(b)[g]
<1>1. \A g \in PIs : patterns_64[g] = {b \in bitMax : Pattern(b)[g] = 1}
  BY DEF patterns_64, Pattern
<1>2. \A g \in PIs : patterns_64[g] \in SUBSET Bits
  BY <1>1
<1>3. \A g \in GateID : assignPIs_64(c, values)[g] =
          IF g \in PIs /\ c[g].gateType = "PI" THEN patterns_64[g] ELSE values[g]
  BY DEF assignPIs_64
<1>4. assignPIs_64(c, values) \in [GateID -> SUBSET Bits]
  BY <1>2 DEF assignPIs_64
<1> QED
  BY <1>1, <1>3, <1>4 DEF BitOf, Bit

\* The words of a stuck-at constant and of a bit.
LEMMA ReplicatedBit ==
  ASSUME NEW v \in Bit, NEW b \in Bits
  PROVE  BitOf(Replicated(v), b) = v
BY DEF Replicated, BitOf, Bit, one_64

\* A pointer to a tied line leads to the word of the value it is tied to, a
\* pointer of the netlist to a gate's word.
LEMMA PointedWords ==
  ASSUME InjectTypeOK, NEW values
  PROVE  /\ \A i, v : TiedTo(i, v) => v \in Bit /\ PointedWord(values, stuckatCons, i) = Replicated(v)
         /\ \A i \in GateID : PointedWord(values, stuckatCons, i) = values[i]
<1>1. ASSUME NEW i, NEW v, TiedTo(i, v)
      PROVE  v \in Bit /\ PointedWord(values, stuckatCons, i) = Replicated(v)
  <2>1. i \in Size .. Size + Len(stuckatCons) - 1 /\ stuckatCons[i - Size + 1] = v
    BY <1>1 DEF TiedTo
  <2>2. ~ (i < Size) /\ i - Size + 1 \in 1 .. Len(stuckatCons)
    BY <2>1, SizeNat DEF InjectTypeOK
  <2>3. v \in Bit
    BY <2>1, <2>2 DEF InjectTypeOK
  <2> QED
    BY <2>1, <2>2, <2>3 DEF PointedWord
<1>2. \A i \in GateID : i < Size
  BY SizeNat DEF GateID
<1> QED
  BY <1>1, <1>2 DEF PointedWord

\* One pass over the faulty circuit: every bit of every related word is the
\* faulty circuit's value under its pattern.
LEMMA FaultyPassWords ==
  ASSUME IInv, CInv, FaultyPass
  PROVE  /\ outValue_64' \in [GateID -> SUBSET Bits]
         /\ \A b \in bitMax, g \in Related : BitOf(outValue_64'[g], b) = Bad(b)[g]
         /\ \A p \in POs \cap Related : outValue_64'[p] \subseteq bitMax
         /\ \A g \in GateID : theCircuit[g].gateType = "constant" => outValue_64'[g] = outValue_64[g]
<1> DEFINE values == assignPIs_64(theCircuit, outValue_64)
           word == outValue_64'
<1>1. pc = "inject" /\ toInject = {} /\ word = propagatePI_64(theCircuit, stuckatCons, values, Related, bitMax)
  BY DEF FaultyPass, Related
<1>2. /\ WellFormed(netlist) /\ netlist \in [GateID -> Gate] /\ theCircuit \in [GateID -> Gate]
      /\ \A g \in Related : g \in GateID /\ Fanins(netlist, g) \subseteq Related
  BY <1>1, CallFacts DEF IInv, CInv, InjectTypeOK
<1>3. /\ bitMax \subseteq Bits /\ outValue_64 \in [GateID -> SUBSET Bits]
      /\ \A b \in bitMax : Pattern(b) \in [PIs -> Bit]
  BY <1>1, BlockBits DEF CInv, CallTyped, WordsTyped
<1>4. HasAllFaults(netlist, newFaults) /\ Injected = newFaults
  BY <1>1 DEF CInv, InjectionExact, Injected
<1>5. /\ values \in [GateID -> SUBSET Bits]
      /\ \A g \in GateID : ~ (g \in PIs /\ theCircuit[g].gateType = "PI") => values[g] = outValue_64[g]
      /\ \A g \in PIs \cap GateID, b \in bitMax :
           theCircuit[g].gateType = "PI" /\ Pattern(b)[g] \in Bit => BitOf(values[g], b) = Pattern(b)[g]
  BY <1>3, AssignedWords
<1> HIDE DEF values
<1>0. PICK w : w = word
  OBVIOUS
<1>6. PICK max \in SUBSET Bits : max = bitMax
  BY <1>3
<1>7. /\ w \in [GateID -> SUBSET Bits]
      /\ \A g \in GateID :
           w[g] = IF g \in Related THEN OutOf_64(theCircuit, stuckatCons, Current(w, values, g), g, max)
                  ELSE values[g]
  <2>1. IsPass(theCircuit, stuckatCons, values, Related, max, w)
    BY <1>1, <1>2, <1>5, <1>0, <1>6 DEF IsPass
  <2> QED
    BY <2>1, PassEquation
<1>8. ASSUME NEW b \in max, NEW g \in Related, \A f \in Fanins(netlist, g) : BitOf(w[f], b) = Bad(b)[f]
      PROVE  BitOf(w[g], b) = RefOut(netlist, newFaults, Pattern(b), Bad(b), g)
  <2> DEFINE now == Current(w, values, g)
             word1 == PointedWord(now, stuckatCons, theCircuit[g].fanin1)
             word2 == PointedWord(now, stuckatCons, theCircuit[g].fanin2)
  <2>1. g \in GateID /\ HasFaults(netlist, newFaults, g) /\ b \in Bits
    BY <1>2, <1>4, <1>0, <1>6 DEF HasAllFaults
  <2>2. now[g] = values[g] /\ \A f \in Fanins(netlist, g) : f \in GateID /\ now[f] = w[f]
    BY <1>2, <2>1, FaninsPrecede, SizeNat DEF Current
  <2> HIDE DEF now
  <2>3. /\ \A v : TiedTo(theCircuit[g].fanin1, v) => BitOf(word1, b) = v
        /\ \A v : TiedTo(theCircuit[g].fanin2, v) => BitOf(word2, b) = v
    BY <2>1, PointedWords, ReplicatedBit DEF IInv
  <2>4. /\ theCircuit[g].fanin1 \in Fanins(netlist, g) => BitOf(word1, b) = Bad(b)[theCircuit[g].fanin1]
        /\ theCircuit[g].fanin2 \in Fanins(netlist, g) => BitOf(word2, b) = Bad(b)[theCircuit[g].fanin2]
    BY <1>8, <2>2, PointedWords DEF IInv
  <2>5. theCircuit[g].gateType = "PI" => BitOf(now[g], b) = Pattern(b)[g]
    <3> SUFFICES ASSUME theCircuit[g].gateType = "PI" PROVE BitOf(now[g], b) = Pattern(b)[g]
      OBVIOUS
    <3>1. netlist[g].gateType = "PI"
      BY <2>1 DEF HasFaults
    <3>2. g \in PIs \cap GateID
      BY <1>2, <2>1, <3>1 DEF WellFormed
    <3>3. Pattern(b)[g] \in Bit
      BY <1>3, <1>0, <1>6, <3>2
    <3> QED
      BY <1>5, <1>0, <1>6, <2>2, <3>2, <3>3
  <2>6. theCircuit[g].gateType = "constant" => BitOf(now[g], b) = netlist[g].constant
    <3> SUFFICES ASSUME theCircuit[g].gateType = "constant" PROVE BitOf(now[g], b) = netlist[g].constant
      OBVIOUS
    <3>1. values[g] = outValue_64[g] /\ outValue_64[g] = Replicated(netlist[g].constant)
      BY <1>1, <1>5, <2>1 DEF CInv, InjectionExact
    <3>2. netlist[g].constant \in Bit
      BY <1>2, <2>1 DEF Gate
    <3> QED
      BY <2>1, <2>2, <3>1, <3>2, ReplicatedBit
  <2>7. BitOf(w[g], b) = IF theCircuit[g].gateType \in {"PI", "constant"} THEN BitOf(now[g], b)
                         ELSE getOutValue(theCircuit[g], BitOf(word1, b), BitOf(word2, b))
    BY <1>2, <1>7, <2>1, SetOutBit DEF now
  <2> HIDE DEF word1, word2
  <2>8. ReadsReference(netlist, Pattern(b), Bad(b), g, BitOf(word1, b), BitOf(word2, b), BitOf(now[g], b))
    BY <2>3, <2>4, <2>5, <2>6 DEF ReadsReference
  <2> QED
    BY <1>2, <1>4, <2>1, <2>7, <2>8, ComputesReference
<1>9. ASSUME NEW b \in max
      PROVE  \A g \in Related : BitOf(w[g], b) = Bad(b)[g]
  <2>1. LocallyExact(netlist, newFaults, Pattern(b), Related, w, b)
    BY <1>2, <1>8, <1>9 DEF LocallyExact, Bad
  <2>2. Pattern(b) \in [PIs -> Bit]
    BY <1>3, <1>0, <1>6, <1>9
  <2> QED
    BY <1>2, <2>1, <2>2, PassExact DEF Bad
<1>10. ASSUME NEW p \in POs \cap Related
       PROVE  w[p] \subseteq max
  <2>1. p \in GateID /\ netlist[p].gateType = "PO" /\ HasFaults(netlist, newFaults, p)
    BY <1>2, <1>4 DEF WellFormed, HasAllFaults
  <2>2. theCircuit[p].gateType \in {"PO", "bufInv"}
    BY <2>1 DEF HasFaults
  <2>3. Current(w, values, p)[p] \in SUBSET Bits
    BY <1>5, <1>7, <2>1, SizeNat DEF Current
  <2> QED
    BY <1>2, <1>7, <2>1, <2>2, <2>3, SetOutWord
<1>11. ASSUME NEW g \in GateID, theCircuit[g].gateType = "constant"
       PROVE  w[g] = outValue_64[g]
  <2>1. values[g] = outValue_64[g] /\ Current(w, values, g)[g] = values[g]
    BY <1>5, <1>11, SizeNat DEF Current
  <2> QED
    BY <1>7, <1>11, <2>1 DEF OutOf_64
<1> QED
  BY <1>0, <1>6, <1>7, <1>9, <1>10, <1>11

\* A gate of the circuit without faults computes what the reference semantics
\* says.
LEMMA FaultFreeReference ==
  ASSUME NEW net, NEW pattern, NEW g, NEW ref
  PROVE  RefOut(net, {}, pattern, ref, g) =
           CASE net[g].gateType = "PI"       -> pattern[g]
             [] net[g].gateType = "constant" -> net[g].constant
             [] OTHER -> getOutValue(net[g], ref[net[g].fanin1], ref[net[g].fanin2])
<1>1. \A p : StuckValues({}, g, p) = {}
  BY DEF StuckValues
<1> QED
  BY <1>1 DEF RefOut, Line

\* The words after a reset.
LEMMA ResetWords ==
  ASSUME IInv, WordsTyped, ConstantsRecoverable
  PROVE  /\ ValuesAfterReset \in [GateID -> SUBSET Bits]
         /\ \A g \in GateID : netlist[g].gateType = "constant" =>
              ValuesAfterReset[g] = Replicated(netlist[g].constant)
BY DEF IInv, WordsTyped, ConstantsRecoverable, ValuesAfterReset

\* One pass over the circuit put back: every bit of every related word is the
\* fault-free value under its pattern.
LEMMA GoodPassWords ==
  ASSUME IInv, CInv, GoodPass
  PROVE  /\ outValue_64' \in [GateID -> SUBSET Bits]
         /\ \A b \in bitMax, g \in Related : BitOf(outValue_64'[g], b) = Good(b)[g]
         /\ \A p \in POs \cap Related : outValue_64'[p] \subseteq bitMax
         /\ \A p \in POs : p \notin Related => outValue_64'[p] = outValue_64[p]
         /\ \A g \in GateID : netlist[g].gateType = "constant" =>
              outValue_64'[g] = Replicated(netlist[g].constant)
<1>0. netlist \in [GateID -> Gate] /\ theCircuit' = netlist /\ stuckatCons' = << >>
  BY ResetRestores, NetlistGates DEF IInv, GoodPass
<1>1. PICK c, cons : c = netlist /\ cons = << >>
  OBVIOUS
<1> DEFINE values == assignPIs_64(c, ValuesAfterReset)
           word == outValue_64'
<1>2. pc = "good" /\ word = propagatePI_64(c, cons, values, Related, bitMax)
  BY <1>0, <1>1 DEF GoodPass, Related
<1>3. /\ WellFormed(c) /\ c \in [GateID -> Gate]
      /\ \A g \in Related : g \in GateID /\ Fanins(c, g) \subseteq Related
  BY <1>1, <1>2, CallFacts DEF CInv
<1>4. /\ bitMax \subseteq Bits /\ \A b \in bitMax : Pattern(b) \in [PIs -> Bit]
  BY <1>2, BlockBits DEF CInv, CallTyped
<1>5. /\ ValuesAfterReset \in [GateID -> SUBSET Bits]
      /\ \A g \in GateID : c[g].gateType = "constant" => ValuesAfterReset[g] = Replicated(c[g].constant)
  BY <1>1, ResetWords DEF CInv
<1>6. /\ values \in [GateID -> SUBSET Bits]
      /\ \A g \in GateID : ~ (g \in PIs /\ c[g].gateType = "PI") => values[g] = ValuesAfterReset[g]
      /\ \A g \in PIs \cap GateID, b \in bitMax :
           c[g].gateType = "PI" /\ Pattern(b)[g] \in Bit => BitOf(values[g], b) = Pattern(b)[g]
  BY <1>4, <1>5, AssignedWords
<1> HIDE DEF values
<1>20. PICK w : w = word
  OBVIOUS
<1>7. PICK max \in SUBSET Bits : max = bitMax
  BY <1>4
<1>8. /\ w \in [GateID -> SUBSET Bits]
      /\ \A g \in GateID :
           w[g] = IF g \in Related THEN OutOf_64(c, cons, Current(w, values, g), g, max) ELSE values[g]
  <2>1. IsPass(c, cons, values, Related, max, w)
    BY <1>2, <1>3, <1>6, <1>20, <1>7 DEF IsPass
  <2> QED
    BY <2>1, PassEquation
<1>9. ASSUME NEW b \in max, NEW g \in Related, \A f \in Fanins(c, g) : BitOf(w[f], b) = Good(b)[f]
      PROVE  BitOf(w[g], b) = RefOut(c, {}, Pattern(b), Good(b), g)
  <2> DEFINE now == Current(w, values, g)
             word1 == PointedWord(now, cons, c[g].fanin1)
             word2 == PointedWord(now, cons, c[g].fanin2)
  <2>1. g \in GateID /\ b \in Bits /\ c[g] \in Gate
    BY <1>3, <1>20, <1>7
  <2>2. /\ now[g] = values[g]
        /\ \A f \in Fanins(c, g) : now[f] = w[f] /\ PointedWord(now, cons, f) = now[f]
    <3>1. \A f \in Fanins(c, g) : f \in GateID /\ f < g /\ f < Size
      BY <1>3, <2>1, FaninsPrecede, SizeNat DEF GateID
    <3> QED
      BY <2>1, <3>1, SizeNat DEF Current, PointedWord
  <2>3. BitOf(w[g], b) = IF c[g].gateType \in {"PI", "constant"} THEN BitOf(now[g], b)
                         ELSE getOutValue(c[g], BitOf(word1, b), BitOf(word2, b))
    BY <1>3, <1>8, <2>1, SetOutBit
  <2> HIDE DEF now
  <2>4. /\ c[g].fanin1 \in Fanins(c, g) => BitOf(word1, b) = Good(b)[c[g].fanin1]
        /\ c[g].fanin2 \in Fanins(c, g) => BitOf(word2, b) = Good(b)[c[g].fanin2]
    BY <1>9, <2>2
  <2>5. c[g].gateType = "PI" => BitOf(now[g], b) = Pattern(b)[g]
    <3> SUFFICES ASSUME c[g].gateType = "PI" PROVE BitOf(now[g], b) = Pattern(b)[g]
      OBVIOUS
    <3>1. g \in PIs \cap GateID
      BY <1>3, <2>1 DEF WellFormed
    <3>2. Pattern(b)[g] \in Bit
      BY <1>4, <1>20, <1>7, <3>1
    <3> QED
      BY <1>6, <1>20, <1>7, <2>2, <3>1, <3>2
  <2>6. c[g].gateType = "constant" => BitOf(now[g], b) = c[g].constant
    <3> SUFFICES ASSUME c[g].gateType = "constant" PROVE BitOf(now[g], b) = c[g].constant
      OBVIOUS
    <3>1. values[g] = Replicated(c[g].constant) /\ c[g].constant \in Bit
      BY <1>5, <1>6, <2>1 DEF Gate
    <3> QED
      BY <2>1, <2>2, <3>1, ReplicatedBit
  <2> HIDE DEF word1, word2
  <2>7. CASE c[g].gateType \in {"PI", "constant"}
    BY <2>3, <2>5, <2>6, <2>7, FaultFreeReference
  <2>8. CASE c[g].gateType \notin {"PI", "constant"}
    <3>1. RefOut(c, {}, Pattern(b), Good(b), g) = getOutValue(c[g], Good(b)[c[g].fanin1], Good(b)[c[g].fanin2])
      BY <2>8, FaultFreeReference
    <3>2. BitOf(w[g], b) = getOutValue(c[g], BitOf(word1, b), BitOf(word2, b))
      BY <2>3, <2>8
    <3>3. c[g].gateType \in {"PO", "bufInv", "aig"}
      BY <2>1, <2>8 DEF Gate, Type
    <3>4. CASE c[g].gateType = "aig"
      <4>1. BitOf(word1, b) = Good(b)[c[g].fanin1] /\ BitOf(word2, b) = Good(b)[c[g].fanin2]
        BY <2>4, <3>4 DEF Fanins
      <4> QED
        BY <3>1, <3>2, <4>1
    <3>5. CASE c[g].gateType \in {"PO", "bufInv"}
      <4>1. BitOf(word1, b) = Good(b)[c[g].fanin1]
        BY <2>4, <3>5 DEF Fanins
      <4> QED
        BY <3>1, <3>2, <3>5, <4>1 DEF getOutValue
    <3> QED
      BY <3>3, <3>4, <3>5
  <2> QED
    BY <2>7, <2>8
<1>10. ASSUME NEW b \in max
       PROVE  \A g \in Related : BitOf(w[g], b) = Good(b)[g]
  <2>1. LocallyExact(c, {}, Pattern(b), Related, w, b)
    BY <1>1, <1>3, <1>9, <1>10 DEF LocallyExact, Good
  <2>2. Pattern(b) \in [PIs -> Bit]
    BY <1>4, <1>20, <1>7, <1>10
  <2> QED
    BY <1>1, <1>3, <2>1, <2>2, PassExact DEF Good
<1>11. \A p \in POs : p \in GateID /\ c[p].gateType = "PO"
  <2>1. POs \subseteq GateID
    BY SizeAssumption DEF POs, GateID, Size
  <2> QED
    BY <1>3, <2>1 DEF WellFormed
<1>12. ASSUME NEW p \in POs \cap Related
       PROVE  w[p] \subseteq max
  <2>1. Current(w, values, p)[p] \in SUBSET Bits
    BY <1>6, <1>8, <1>11, SizeNat DEF Current
  <2> QED
    BY <1>3, <1>8, <1>11, <2>1, SetOutWord
<1>13. ASSUME NEW p \in POs, p \notin Related
       PROVE  w[p] = outValue_64[p]
  <2>1. w[p] = ValuesAfterReset[p]
    BY <1>6, <1>8, <1>11, <1>13
  <2>2. p \notin DOMAIN preGateInTheCircuit
    BY <1>2, <1>13, CallFacts DEF CInv, CopiesOfFaults
  <2> QED
    BY <1>11, <2>1, <2>2 DEF ValuesAfterReset
<1>14. ASSUME NEW g \in GateID, c[g].gateType = "constant"
       PROVE  w[g] = Replicated(c[g].constant)
  <2>1. values[g] = Replicated(c[g].constant) /\ Current(w, values, g)[g] = values[g]
    BY <1>5, <1>6, <1>14, SizeNat DEF Current
  <2> QED
    BY <1>8, <1>14, <2>1 DEF OutOf_64
<1> QED
  BY <1>1, <1>20, <1>7, <1>8, <1>10, <1>12, <1>13, <1>14
-----------------------------------------------------------------------------
\* Nothing has been asked yet.
LEMMA InitExact == Init => CInv
<1> SUFFICES ASSUME Init PROVE CInv
  OBVIOUS
<1>1. /\ ConesFixed /\ CallTyped /\ CopiesOfFaults /\ InjectionExact /\ FaultyWords /\ Differences
      /\ EarlierBlocks
  BY DEF Init, ConesFixed, CallTyped, CopiesOfFaults, InjectionExact, FaultyWords, Differences, EarlierBlocks
<1>2. PICK w \in UnwrittenWords :
        outValue_64 = [g \in GateID |-> IF netlist[g].gateType = "constant"
                                        THEN Replicated(netlist[g].constant) ELSE w]
  BY DEF Init
<1>3. \A v : Replicated(v) \in SUBSET Bits
  BY DEF Replicated, one_64
<1>4. w \in SUBSET Bits
  BY DEF UnwrittenWords, one_64
<1>5. DOMAIN preGateInTheCircuit = {}
  BY DEF Init, InjectInit, NoCopies
<1> QED
  BY <1>1, <1>2, <1>3, <1>4, <1>5 DEF CInv, WordsTyped, ConstantsRecoverable

\* Nothing is copied while the circuit is as it was built.
LEMMA RestoredNoCopies ==
  ASSUME Restored
  PROVE  DOMAIN preGateInTheCircuit = {}
BY DEF Restored, NoCopies

\* What a step keeps that leaves circuit and words alone.
LEMMA WordsUntouched ==
  ASSUME CInv, UNCHANGED <<injectVars, netlist, gateToRelatedGates, outValue_64>>
  PROVE  ConesFixed' /\ WordsTyped' /\ ConstantsRecoverable'
<1>1. ConesFixed' /\ WordsTyped'
  BY DEF CInv, ConesFixed, WordsTyped, injectVars
<1>2. ConstantsRecoverable'
  BY DEF CInv, ConstantsRecoverable, injectVars
<1> QED
  BY <1>1, <1>2

\* A call begins.
LEMMA CallExact ==
  ASSUME IInv, CInv, NEW F \in FaultSets(netlist), NEW P \in PatternLists, Call(F, P)
  PROVE  CInv'
<1>1. /\ UNCHANGED <<injectVars, netlist, gateToRelatedGates, outValue_64>>
      /\ newFaults' = F /\ patterns' = P /\ block' = 0 /\ pc' = "block"
  BY DEF Call
<1>2. ConesFixed' /\ WordsTyped' /\ ConstantsRecoverable'
  BY <1>1, WordsUntouched
<1>3. P # << >> => 0 <= (Len(P) - 1) \div WSIZE
  <2>1. Len(P) \in Nat /\ (P = << >> <=> Len(P) = 0)
    BY PatternsOfCall
  <2> QED
    BY <2>1, LastBlock
<1>4. CallTyped'
  BY <1>1, <1>3 DEF CallTyped, count
<1>5. CopiesOfFaults' /\ InjectionExact' /\ FaultyWords' /\ Differences'
  BY <1>1 DEF CopiesOfFaults, InjectionExact, FaultyWords, Differences
<1>6. EarlierBlocks'
  <2>1. 0 .. WSIZE * block' - 1 = {}
    BY <1>1, PackedAssumption
  <2> QED
    BY <2>1 DEF EarlierBlocks
<1> QED
  BY <1>2, <1>4, <1>5, <1>6 DEF CInv

\* The request and its place in the list of patterns stay.
LEMMA CallUntouched ==
  ASSUME CInv, UNCHANGED <<netlist, newFaults, patterns, block>>, pc # "idle", pc' # "idle",
         pc' # "block" => patterns # << >> /\ newFaults # {}
  PROVE  CallTyped' /\ EarlierBlocks'
<1>1. count' = count
  BY DEF count
<1> QED
  BY <1>1 DEF CInv, CallTyped, EarlierBlocks

\* A block begins with the circuit as it was built.
LEMMA StartBlockExact ==
  ASSUME IInv, CInv, StartBlock
  PROVE  CInv'
<1>1. /\ UNCHANGED <<netlist, gateToRelatedGates, newFaults, patterns, block>>
      /\ pc = "block" /\ pc' = "inject" /\ patterns # << >> /\ newFaults # {}
      /\ outValue_64' = ValuesAfterReset /\ toInject' = newFaults
  BY DEF StartBlock, callVars
<1>2. Restored' /\ netlist' = netlist
  BY <1>1, ResetStep DEF StartBlock
<1>3. theCircuit' = netlist /\ DOMAIN preGateInTheCircuit' = {}
  BY <1>2 DEF Restored, NoCopies
<1>4. /\ ValuesAfterReset \in [GateID -> SUBSET Bits]
      /\ \A g \in GateID : netlist[g].gateType = "constant" => ValuesAfterReset[g] = Replicated(netlist[g].constant)
  BY ResetWords DEF CInv
<1>5. ConesFixed' /\ WordsTyped' /\ ConstantsRecoverable' /\ CopiesOfFaults'
  BY <1>1, <1>3, <1>4 DEF CInv, ConesFixed, WordsTyped, ConstantsRecoverable, CopiesOfFaults
<1>6. CallTyped' /\ EarlierBlocks'
  BY <1>1, CallUntouched
<1>7. HasAllFaults(netlist, Injected)'
  <2>1. Injected' = {}
    BY <1>1 DEF Injected
  <2>2. \A h \in GateID : HasFaults(netlist, {}, h)'
    BY <1>1, <1>3 DEF HasFaults, StuckValues
  <2> QED
    BY <2>1, <2>2 DEF HasAllFaults
<1>8. InjectionExact'
  <2>1. Injected' = {}
    BY <1>1 DEF Injected
  <2> QED
    BY <1>1, <1>3, <1>4, <1>7, <2>1 DEF InjectionExact
<1>9. FaultyWords' /\ Differences'
  BY <1>1 DEF FaultyWords, Differences
<1> QED
  BY <1>5, <1>6, <1>8, <1>9 DEF CInv

\* The least fault goes into the circuit.
LEMMA InjectExact ==
  ASSUME IInv, CInv, InjectNext
  PROVE  CInv'
<1>1. PICK f \in First(toInject) : InjectFault(f, outValue_64) /\ toInject' = toInject \ {f}
  BY DEF InjectNext
<1>2. UNCHANGED <<netlist, gateToRelatedGates, outValue_64, pc, newFaults, patterns, block>> /\ pc = "inject"
  BY DEF InjectNext, callVars
<1>3. PICK net, injected : net = netlist /\ injected = Injected
  OBVIOUS
<1>4. /\ WellFormed(net) /\ InjectTypeOK /\ injected \subseteq FaultNumber
      /\ HasAllFaults(net, injected) /\ f \in allSSAFList(net) /\ f \in newFaults /\ f \in toInject
      /\ f \in FaultNumber /\ faultGate(f) \in GateID
      /\ \A x \in injected : x < f
  BY <1>1, <1>2, <1>3, CallFacts DEF IInv, CInv, InjectionExact, First, Injected
<1>5. HasAllFaults(net, injected \cup {f})'
  BY <1>1, <1>4, InjectAddsFault
<1>6. Injected' = injected \cup {f} /\ netlist' = net
  BY <1>1, <1>2, <1>3, <1>4 DEF Injected
<1>7. \A x \in Injected', y \in toInject' : x < y
  <2> SUFFICES ASSUME NEW x \in Injected', NEW y \in toInject' PROVE x < y
    OBVIOUS
  <2>1. y \in toInject /\ y # f /\ f <= y
    BY <1>1 DEF First
  <2>2. CASE x \in injected
    BY <1>2, <1>3, <2>1, <2>2 DEF CInv, InjectionExact
  <2>3. CASE x = f
    <3>1. f \in Int /\ y \in Int
      <4>1. \A z \in FaultNumber : z \in Int
        BY SizeNat DEF FaultNumber, FaultID, Bit
      <4> QED
        BY <1>4, <2>1, <4>1 DEF IInv
    <3> QED
      BY <2>1, <2>3, <3>1
  <2> QED
    BY <1>6, <2>2, <2>3
<1>8. \A g \in GateID : theCircuit'[g].gateType = "constant" => theCircuit[g].gateType = "constant"
  <2> SUFFICES ASSUME NEW g \in GateID, theCircuit'[g].gateType = "constant"
               PROVE  theCircuit[g].gateType = "constant"
    OBVIOUS
  <2>1. theCircuit \in [GateID -> Gate]
    BY <1>4 DEF InjectTypeOK
  <2>2. CASE theCircuit'[g] = theCircuit[g]
    BY <2>2
  <2>3. CASE theCircuit'[g] = Faulted(theCircuit[g], faultPort(f), Size + Len(stuckatCons))
    <3>1. theCircuit[g] \in Gate
      BY <2>1
    <3> QED
      BY <2>3, <3>1 DEF Faulted, changeOutputStuckat, Gate
  <2> QED
    BY <1>1, <2>1, <2>2, <2>3 DEF InjectFault, injectVars
<1>9. InjectionExact'
  <2>1. HasAllFaults(netlist, Injected)'
    BY <1>5, <1>6
  <2>2. toInject' \subseteq newFaults'
    BY <1>1, <1>2 DEF CInv, InjectionExact
  <2>3. \A g \in GateID : theCircuit'[g].gateType = "constant" =>
          netlist'[g].gateType = "constant" /\ outValue_64'[g] = Replicated(netlist'[g].constant)
    BY <1>2, <1>8 DEF CInv, InjectionExact
  <2> QED
    BY <1>7, <2>1, <2>2, <2>3 DEF InjectionExact
<1>10. /\ DOMAIN preGateInTheCircuit' \subseteq DOMAIN preGateInTheCircuit \cup {faultGate(f)}
       /\ DOMAIN preGateInTheCircuit \subseteq DOMAIN preGateInTheCircuit'
       /\ \A h \in DOMAIN preGateInTheCircuit : preGateInTheCircuit'[h] = preGateInTheCircuit[h]
       /\ \A h \in DOMAIN preGateInTheCircuit' \ DOMAIN preGateInTheCircuit :
            preGateInTheCircuit'[h] = [gate |-> theCircuit[h], outValue |-> outValue_64[h]]
  <2>1. CASE Skipped(f)
    BY <1>1, <2>1 DEF InjectFault, copyGate, injectVars
  <2>2. CASE ~ Skipped(f)
    BY <1>1, <2>2 DEF InjectFault, copyGate
  <2> QED
    BY <2>1, <2>2
<1>11. WordsTyped'
  BY <1>2, <1>4, <1>10 DEF CInv, WordsTyped
<1>12. ConstantsRecoverable'
  BY <1>2, <1>10 DEF CInv, ConstantsRecoverable
<1>13. CopiesOfFaults'
  BY <1>2, <1>4, <1>10 DEF CInv, CopiesOfFaults
<1>14. CallTyped' /\ EarlierBlocks'
  <2>1. patterns # << >> /\ newFaults # {}
    BY <1>2 DEF CInv, CallTyped
  <2> QED
    BY <1>2, <2>1, CallUntouched
<1>15. ConesFixed' /\ FaultyWords' /\ Differences'
  BY <1>2 DEF CInv, ConesFixed, FaultyWords, Differences
<1> QED
  BY <1>9, <1>11, <1>12, <1>13, <1>14, <1>15 DEF CInv

\* What the pattern of each bit gives in both circuits.
LEMMA ReferenceBits ==
  ASSUME IInv, CInv, pc \in {"inject", "good", "compare"}
  PROVE  /\ POs \subseteq GateID
         /\ \A b \in bitMax, p \in POs : Bad(b)[p] \in Bit /\ Good(b)[p] \in Bit
         /\ \A b \in bitMax, p \in POs : p \notin Related => Bad(b)[p] = Good(b)[p]
<1>1. POs \subseteq GateID
  BY SizeAssumption DEF POs, GateID, Size
<1>2. \A b \in bitMax : Pattern(b) \in [PIs -> Bit]
  BY BlockBits DEF CInv, CallTyped
<1>3. /\ WellFormed(netlist)
      /\ \A f \in newFaults : faultGate(f) \in GateID /\ ReachedFromPI(netlist, faultGate(f))
      /\ \A g \in GateID : g \notin Related => \A f \in newFaults : g \notin RelatedGates(netlist, faultGate(f))
  BY CallFacts DEF CInv
<1>4. \A b \in bitMax, p \in POs : Bad(b)[p] \in Bit /\ Good(b)[p] \in Bit
  BY <1>1, <1>2, <1>3, RefValueEquation DEF Bad, Good
<1>5. ASSUME NEW b \in bitMax, NEW p \in POs, p \notin Related
      PROVE  Bad(b)[p] = Good(b)[p]
  <2>1. \A f \in newFaults : /\ faultGate(f) \in GateID /\ ReachedFromPI(netlist, faultGate(f))
                             /\ p \notin RelatedGates(netlist, faultGate(f))
    BY <1>1, <1>3, <1>5
  <2> QED
    BY <1>1, <1>2, <1>3, <2>1, UnrelatedUnaffected DEF Bad, Good
<1> QED
  BY <1>1, <1>4, <1>5

\* The terms of the block in progress do not change with the words.
LEMMA BlockUntouched ==
  ASSUME UNCHANGED <<netlist, gateToRelatedGates, newFaults, patterns, block>>
  PROVE  /\ count' = count /\ bitMax' = bitMax /\ Related' = Related
         /\ \A b : Bad(b)' = Bad(b) /\ Good(b)' = Good(b)
BY DEF count, bitMax, curNum, Related, getAllRelatedGates, Bad, Good, Pattern

\* The faulty circuit has been simulated.
LEMMA FaultyPassExact ==
  ASSUME IInv, CInv, FaultyPass
  PROVE  CInv'
<1>1. /\ UNCHANGED <<theCircuit, preGateInTheCircuit, netlist, gateToRelatedGates, newFaults, patterns, block>>
      /\ pc = "inject" /\ pc' = "good" /\ isDiff_64' = [p \in POs |-> outValue_64'[p]]
  BY DEF FaultyPass, callVars, injectVars
<1>2. /\ outValue_64' \in [GateID -> SUBSET Bits]
      /\ \A b \in bitMax, g \in Related : BitOf(outValue_64'[g], b) = Bad(b)[g]
      /\ \A p \in POs \cap Related : outValue_64'[p] \subseteq bitMax
      /\ \A g \in GateID : theCircuit[g].gateType = "constant" => outValue_64'[g] = outValue_64[g]
  BY FaultyPassWords
<1>3. WordsTyped' /\ ConesFixed' /\ CopiesOfFaults'
  BY <1>1, <1>2 DEF CInv, WordsTyped, ConesFixed, CopiesOfFaults
<1>4. ConstantsRecoverable'
  <2>1. \A g \in GateID : g \notin DOMAIN preGateInTheCircuit => theCircuit[g] = netlist[g]
    BY DEF IInv, Recoverable
  <2> QED
    BY <1>1, <1>2, <2>1 DEF CInv, ConstantsRecoverable
<1>5. CallTyped' /\ EarlierBlocks'
  <2>1. patterns # << >> /\ newFaults # {}
    BY <1>1 DEF CInv, CallTyped
  <2> QED
    BY <1>1, <2>1, CallUntouched
<1>6. bitMax' = bitMax /\ Related' = Related /\ \A b : Bad(b)' = Bad(b)
  BY <1>1, BlockUntouched
<1>7. ASSUME NEW p \in POs \cap Related
      PROVE  isDiff_64'[p] = {b \in bitMax : Bad(b)[p] = 1}
  <2>1. isDiff_64'[p] = outValue_64'[p] /\ outValue_64'[p] \subseteq bitMax
    BY <1>1, <1>2
  <2>2. \A b \in bitMax : b \in outValue_64'[p] <=> Bad(b)[p] = 1
    BY <1>2 DEF BitOf
  <2> QED
    BY <2>1, <2>2
<1>8. FaultyWords'
  BY <1>1, <1>6, <1>7 DEF FaultyWords
<1>9. InjectionExact' /\ Differences'
  BY <1>1 DEF InjectionExact, Differences
<1> QED
  BY <1>3, <1>4, <1>5, <1>8, <1>9 DEF CInv

\* Both circuits have been simulated.
LEMMA GoodPassExact ==
  ASSUME IInv, CInv, GoodPass
  PROVE  CInv'
<1>1. /\ UNCHANGED <<netlist, gateToRelatedGates, newFaults, patterns, block>>
      /\ pc = "good" /\ pc' = "compare"
      /\ isDiff_64' = [p \in POs |-> (outValue_64'[p] \ isDiff_64[p]) \cup (isDiff_64[p] \ outValue_64'[p])]
  BY DEF GoodPass, callVars
<1>2. /\ outValue_64' \in [GateID -> SUBSET Bits]
      /\ \A b \in bitMax, g \in Related : BitOf(outValue_64'[g], b) = Good(b)[g]
      /\ \A p \in POs \cap Related : outValue_64'[p] \subseteq bitMax
      /\ \A p \in POs : p \notin Related => outValue_64'[p] = outValue_64[p]
      /\ \A g \in GateID : netlist[g].gateType = "constant" => outValue_64'[g] = Replicated(netlist[g].constant)
  BY GoodPassWords
<1>3. DOMAIN preGateInTheCircuit' = {}
  BY DEF GoodPass, ResetFaults, NoCopies
<1>4. WordsTyped' /\ ConesFixed' /\ CopiesOfFaults' /\ ConstantsRecoverable'
  BY <1>1, <1>2, <1>3 DEF CInv, WordsTyped, ConesFixed, CopiesOfFaults, ConstantsRecoverable
<1>5. CallTyped' /\ EarlierBlocks'
  <2>1. patterns # << >> /\ newFaults # {}
    BY <1>1 DEF CInv, CallTyped
  <2> QED
    BY <1>1, <2>1, CallUntouched
<1>6. bitMax' = bitMax /\ \A b : Bad(b)' = Bad(b) /\ Good(b)' = Good(b)
  BY <1>1, BlockUntouched
<1>7. ASSUME NEW p \in POs
      PROVE  isDiff_64'[p] = {b \in bitMax : Bad(b)[p] # Good(b)[p]}
  <2>1. /\ POs \subseteq GateID
        /\ \A b \in bitMax : Bad(b)[p] \in {0, 1} /\ Good(b)[p] \in {0, 1}
        /\ p \notin Related => \A b \in bitMax : Bad(b)[p] = Good(b)[p]
    BY <1>1, ReferenceBits DEF Bit
  <2>2. isDiff_64'[p] = (outValue_64'[p] \ isDiff_64[p]) \cup (isDiff_64[p] \ outValue_64'[p])
    BY <1>1
  <2>3. CASE p \in Related
    <3>1. isDiff_64[p] = {b \in bitMax : Bad(b)[p] = 1}
      BY <1>1, <2>3 DEF CInv, FaultyWords
    <3>2. outValue_64'[p] \subseteq bitMax /\ \A b \in bitMax : b \in outValue_64'[p] <=> Good(b)[p] = 1
      BY <1>2, <2>3 DEF BitOf
    <3> QED
      BY <2>1, <2>2, <3>1, <3>2
  <2>4. CASE p \notin Related
    <3>1. outValue_64'[p] = isDiff_64[p]
      BY <1>1, <1>2, <2>4 DEF CInv, FaultyWords
    <3> QED
      BY <2>1, <2>2, <2>4, <3>1
  <2> QED
    BY <2>3, <2>4
<1>8. Differences'
  BY <1>1, <1>6, <1>7 DEF Differences
<1>9. InjectionExact' /\ FaultyWords'
  BY <1>1 DEF InjectionExact, FaultyWords
<1> QED
  BY <1>4, <1>5, <1>8, <1>9 DEF CInv

\* A bit of the word of an output that differs is a pattern that detects the
\* faults, and where no output differs no pattern of the block does.
LEMMA DifferencesDetect ==
  ASSUME IInv, CInv, pc = "compare"
  PROVE  /\ \A p \in POs : isDiff_64[p] \subseteq bitMax
         /\ \A p \in POs : \A b \in isDiff_64[p] : RefDetects(netlist, newFaults, Pattern(b))
         /\ (\A p \in POs : isDiff_64[p] = {}) =>
              \A b \in bitMax : ~ RefDetects(netlist, newFaults, Pattern(b))
<1>1. \A p \in POs : isDiff_64[p] = {b \in bitMax : Bad(b)[p] # Good(b)[p]}
  BY DEF CInv, Differences
<1>2. \A b : RefDetects(netlist, newFaults, Pattern(b)) <=> \E p \in POs : Bad(b)[p] # Good(b)[p]
  BY DEF RefDetects, Bad, Good
<1> QED
  BY <1>1, <1>2

\* The patterns up to the end of the block, if it shows no difference.
LEMMA NoneSoFar ==
  ASSUME IInv, CInv, pc = "compare", \A p \in POs : isDiff_64[p] = {},
         NEW n, n = WSIZE * block + curNum
  PROVE  \A i \in 0 .. n - 1 : ~ RefDetects(netlist, newFaults, patterns[i + 1])
<1>1. block \in Nat /\ curNum \in Nat /\ WSIZE \in Nat
  BY BlockBits, PackedAssumption DEF CInv, CallTyped
<1>2. PICK wb \in Nat : wb = WSIZE * block
  BY <1>1
<1>3. \A b \in bitMax : ~ RefDetects(netlist, newFaults, patterns[wb + b + 1])
  BY <1>2, DifferencesDetect DEF Pattern
<1>4. \A i \in 0 .. wb - 1 : ~ RefDetects(netlist, newFaults, patterns[i + 1])
  BY <1>2 DEF CInv, EarlierBlocks
<1>5. ASSUME NEW i \in 0 .. n - 1
      PROVE  ~ RefDetects(netlist, newFaults, patterns[i + 1])
  <2>0. i \in Nat /\ i < wb + curNum
    BY <1>1, <1>2
  <2>1. CASE i < wb
    BY <1>2, <1>4, <2>0, <2>1
  <2>2. CASE ~ (i < wb)
    <3>1. PICK b \in Int : b = i - wb
      BY <1>2, <2>0
    <3>2. b \in bitMax /\ wb + b + 1 = i + 1
      BY <1>1, <1>2, <2>0, <2>2, <3>1 DEF bitMax
    <3> QED
      BY <1>3, <3>2
  <2> QED
    BY <2>1, <2>2
<1> QED
  BY <1>5

\* The next block.
LEMMA NextBlockExact ==
  ASSUME IInv, CInv, NextBlock
  PROVE  CInv'
<1>1. /\ UNCHANGED <<injectVars, netlist, gateToRelatedGates, outValue_64, newFaults, patterns>>
      /\ pc = "compare" /\ pc' = "block" /\ block < count /\ block' = block + 1
      /\ \A p \in POs : isDiff_64[p] = {}
  BY DEF NextBlock, callVars
<1>2. ConesFixed' /\ WordsTyped' /\ ConstantsRecoverable'
  BY <1>1, WordsUntouched
<1>3. /\ block \in Nat /\ count \in Nat /\ curNum = WSIZE /\ WSIZE \in Nat /\ count' = count
      /\ patterns # << >>
  BY <1>1, BlockBits, PackedAssumption DEF CInv, CallTyped, count
<1>4. CallTyped'
  BY <1>1, <1>3 DEF CInv, CallTyped
<1>5. EarlierBlocks'
  <2>1. PICK n : n = WSIZE * block'
    OBVIOUS
  <2>2. n = WSIZE * block + curNum
    BY <1>1, <1>3, <2>1
  <2>3. \A i \in 0 .. n - 1 : ~ RefDetects(netlist, newFaults, patterns[i + 1])
    BY <1>1, <2>2, NoneSoFar
  <2>4. \A i \in 0 .. WSIZE * block' - 1 : ~ RefDetects(netlist, newFaults, patterns[i + 1])
    BY <2>1, <2>3, Zenon
  <2> QED
    BY <1>1, <2>4, Zenon DEF EarlierBlocks
<1>6. CopiesOfFaults' /\ InjectionExact' /\ FaultyWords' /\ Differences'
  BY <1>1 DEF CopiesOfFaults, InjectionExact, FaultyWords, Differences
<1> QED
  BY <1>2, <1>4, <1>5, <1>6 DEF CInv

\* A call returns.
LEMMA ReturnExact ==
  ASSUME CInv, NEW value, Return(value)
  PROVE  CInv'
<1>1. UNCHANGED <<injectVars, netlist, gateToRelatedGates, outValue_64>> /\ pc' = "idle"
  BY DEF Return
<1>2. ConesFixed' /\ WordsTyped' /\ ConstantsRecoverable'
  BY <1>1, WordsUntouched
<1>3. /\ CallTyped' /\ EarlierBlocks' /\ CopiesOfFaults' /\ InjectionExact' /\ FaultyWords'
      /\ Differences'
  BY <1>1 DEF CallTyped, EarlierBlocks, CopiesOfFaults, InjectionExact, FaultyWords, Differences
<1> QED
  BY <1>2, <1>3 DEF CInv

\* A step that changes nothing.
LEMMA StutterExact ==
  ASSUME CInv, UNCHANGED vars
  PROVE  CInv'
<1>1. UNCHANGED <<theCircuit, stuckatCons, preGateInTheCircuit, faultsInsertedtheCircuit, netlist,
                  gateToRelatedGates, outValue_64, pc, newFaults, patterns, toInject, block, isDiff_64, answer>>
  BY DEF vars, injectVars, callVars
<1>2. ConesFixed' /\ WordsTyped' /\ ConstantsRecoverable'
  BY <1>1, WordsUntouched DEF injectVars
<1>3. count' = count /\ bitMax' = bitMax /\ Related' = Related /\ \A b : Bad(b)' = Bad(b) /\ Good(b)' = Good(b)
  BY <1>1, BlockUntouched
<1>4. Injected' = Injected
  BY <1>1 DEF Injected
<1>5. CallTyped' /\ EarlierBlocks' /\ CopiesOfFaults'
  BY <1>1, <1>3 DEF CInv, CallTyped, EarlierBlocks, CopiesOfFaults
<1>6. InjectionExact'
  BY <1>1, <1>4 DEF CInv, InjectionExact, HasAllFaults, HasFaults, TiedTo
<1>7. FaultyWords' /\ Differences'
  BY <1>1, <1>3 DEF CInv, FaultyWords, Differences
<1> QED
  BY <1>2, <1>5, <1>6, <1>7 DEF CInv

\* The words of both passes, and what the blocks compared so far have shown,
\* are exact.
THEOREM BlocksExact == Spec => [](IInv /\ CInv)
<1>1. Init => CInv
  BY InitExact
<1>2. IInv /\ CInv /\ [Next]_vars => CInv'
  <2> SUFFICES ASSUME IInv, CInv, [Next]_vars PROVE CInv'
    OBVIOUS
  <2>1. ASSUME NEW F \in FaultSets(netlist), NEW P \in PatternLists, Call(F, P)
        PROVE  CInv'
    BY <2>1, CallExact
  <2>2. CASE Detected \/ ReturnUndetected
    BY <2>2, ReturnExact DEF Detected, ReturnUndetected
  <2> QED
    BY <2>1, <2>2, StartBlockExact, InjectExact, FaultyPassExact, GoodPassExact, NextBlockExact,
       StutterExact DEF Next
<1> QED
  BY <1>1, <1>2, Invariant, PTL DEF Spec
-----------------------------------------------------------------------------
(***************************************************************************)
(* The refinement.  A call is the request of the promise from Call to the  *)
(* return; everything between them is a stutter of the promise.            *)
(***************************************************************************)
\* getLeft1Pos is the least bit of a word.
LEMMA LeastBit ==
  ASSUME NEW word \in SUBSET Bits, word # {}
  PROVE  getLeft1Pos(word) \in word
<1>1. word \in SUBSET Nat
  BY DEF Bits
<1>2. PICK m \in word : \A k \in word : m <= k
  BY <1>1, LeastNumber
<1> QED
  BY <1>2 DEF getLeft1Pos

\* Which of the patterns detect the faults of the call in progress.
LEMMA DetectingOfCall ==
  ASSUME NEW req, req = <<newFaults, patterns>>
  PROVE  Promise!Detecting(req) = {i \in 0 .. Len(patterns) - 1 : RefDetects(netlist, newFaults, patterns[i + 1])}
BY DEF Promise!Detecting

\* A call that answers a position answers one of the first block that has a
\* pattern that detects the faults.
LEMMA DetectedReplies ==
  ASSUME IInv, CInv, Detected
  PROVE  \E i \in 0 .. Len(patterns) - 1 :
           /\ answer' = i
           /\ RefDetects(netlist, newFaults, patterns[i + 1])
           /\ \A j \in 0 .. Len(patterns) - 1 :
                RefDetects(netlist, newFaults, patterns[j + 1]) => i \div WSIZE <= j \div WSIZE
<1>1. pc = "compare"
  BY DEF Detected
<1>2. PICK p \in First({q \in POs : isDiff_64[q] # {}}) :
        answer' = WSIZE * block + getLeft1Pos(isDiff_64[p])
  BY DEF Detected, Return
<1>3. p \in POs /\ isDiff_64[p] # {}
  BY DEF First
<1>4. /\ bitMax \subseteq Bits /\ block \in Nat /\ WSIZE \in Nat \ {0}
      /\ \A b \in bitMax : WSIZE * block + b \in 0 .. Len(patterns) - 1
      /\ Len(patterns) \in Nat
  BY <1>1, BlockBits, PatternsOfCall, PackedAssumption DEF CInv, CallTyped
<1>5. isDiff_64[p] \subseteq bitMax /\ \A b \in isDiff_64[p] : RefDetects(netlist, newFaults, Pattern(b))
  BY <1>1, <1>3, DifferencesDetect
<1>6. PICK b \in isDiff_64[p] : b = getLeft1Pos(isDiff_64[p])
  BY <1>3, <1>4, <1>5, LeastBit
<1>7. PICK wb \in Nat : wb = WSIZE * block
  BY <1>4
<1>8. /\ answer' = wb + b /\ wb + b \in 0 .. Len(patterns) - 1 /\ b \in 0 .. WSIZE - 1
      /\ RefDetects(netlist, newFaults, patterns[wb + b + 1])
  BY <1>2, <1>4, <1>5, <1>6, <1>7 DEF Pattern, Bits
<1>9. (wb + b) \div WSIZE = block
  BY <1>4, <1>7, <1>8
<1>10. ASSUME NEW j \in 0 .. Len(patterns) - 1, RefDetects(netlist, newFaults, patterns[j + 1])
       PROVE  block <= j \div WSIZE
  <2>1. j >= wb
    BY <1>1, <1>4, <1>7, <1>10 DEF CInv, EarlierBlocks
  <2> QED
    BY <1>4, <1>7, <2>1
<1> QED
  BY <1>8, <1>9, <1>10

\* A call that answers -1 was given no faults, or no pattern detects them.
LEMMA UndetectedReplies ==
  ASSUME IInv, CInv, ReturnUndetected
  PROVE  \/ newFaults = {}
         \/ \A i \in 0 .. Len(patterns) - 1 : ~ RefDetects(netlist, newFaults, patterns[i + 1])
<1>1. CASE pc = "block" /\ (patterns = << >> \/ newFaults = {})
  BY <1>1
<1>2. CASE pc = "compare" /\ block >= count /\ \A p \in POs : isDiff_64[p] = {}
  <2>1. block <= count /\ block \in Nat /\ count \in Nat /\ patterns \in PatternLists /\ patterns # << >>
    BY <1>2, BlockBits DEF CInv, CallTyped
  <2>2. Len(patterns) = WSIZE * block + curNum
    BY <1>2, <2>1, BlockBits
  <2> QED
    BY <1>2, <2>2, NoneSoFar
<1> QED
  BY <1>1, <1>2 DEF ReturnUndetected

\* A return is a reply of the promise.
LEMMA ReturnReplies ==
  ASSUME pc # "idle", NEW i \in -1 .. Len(patterns) - 1, Return(i), Len(patterns) \in Nat,
         \/ i = -1 /\ (newFaults = {} \/ \A j \in 0 .. Len(patterns) - 1 : ~ RefDetects(netlist, newFaults, patterns[j + 1]))
         \/ /\ i \in 0 .. Len(patterns) - 1 /\ RefDetects(netlist, newFaults, patterns[i + 1])
            /\ \A j \in 0 .. Len(patterns) - 1 :
                 RefDetects(netlist, newFaults, patterns[j + 1]) => i \div WSIZE <= j \div WSIZE
  PROVE  Promise!Next
<1>1. PICK req : req = <<newFaults, patterns>>
  OBVIOUS
<1>2. Promise!Detecting(req) = {j \in 0 .. Len(patterns) - 1 : RefDetects(netlist, newFaults, patterns[j + 1])}
  BY <1>1, DetectingOfCall
<1>3. pc' = "idle" /\ answer' = i /\ netlist' = netlist
  BY DEF Return
<1>4. req # << >> /\ req[1] = newFaults /\ req[2] = patterns
  BY <1>1
<1>5. Promise!ReplyWith(i)
  BY <1>1, <1>2, <1>3, <1>4 DEF Promise!ReplyWith, Promise!NoRequest, Promise!Undetected, Promise!Block
<1> QED
  BY <1>1, <1>4, <1>5 DEF Promise!Next, Promise!NoRequest

\* Every step is a step of the promise or leaves it alone.
LEMMA StepRefines ==
  ASSUME IInv, CInv, [Next]_vars
  PROVE  [Promise!Next]_<<netlist, IF pc = "idle" THEN << >> ELSE <<newFaults, patterns>>, answer>>
<1>1. ASSUME NEW F \in FaultSets(netlist), NEW P \in PatternLists, Call(F, P)
      PROVE  Promise!Next
  <2>1. <<newFaults', patterns'>> \in PackedRequests(netlist)
    BY <1>1 DEF Call, PackedRequests
  <2>2. /\ pc = "idle" /\ pc' = "block" /\ netlist' = netlist /\ answer' = NoAnswer
    BY <1>1 DEF Call
  <2> QED
    BY <2>1, <2>2 DEF Promise!Next, Promise!Ask, Promise!NoRequest, Promise!NoReply, NoAnswer
<1>2. CASE StartBlock \/ InjectNext \/ FaultyPass \/ GoodPass \/ NextBlock
  BY <1>2 DEF StartBlock, InjectNext, FaultyPass, GoodPass, NextBlock, callVars
<1>3. CASE UNCHANGED vars
  BY <1>3 DEF vars, callVars
<1>4. pc # "idle" => Len(patterns) \in Nat
  BY PatternsOfCall DEF CInv, CallTyped
<1>5. CASE Detected
  <2>1. pc = "compare" /\ \E v : Return(v) /\ answer' = v
    BY <1>5 DEF Detected, Return
  <2>2. PICK i \in 0 .. Len(patterns) - 1 :
          /\ answer' = i
          /\ RefDetects(netlist, newFaults, patterns[i + 1])
          /\ \A j \in 0 .. Len(patterns) - 1 :
               RefDetects(netlist, newFaults, patterns[j + 1]) => i \div WSIZE <= j \div WSIZE
    BY <1>5, DetectedReplies
  <2>3. Return(i) /\ i \in -1 .. Len(patterns) - 1
    BY <2>1, <2>2
  <2> QED
    BY <1>4, <2>1, <2>2, <2>3, ReturnReplies
<1>6. CASE ReturnUndetected
  <2>1. pc # "idle" /\ Return(-1)
    BY <1>6 DEF ReturnUndetected
  <2>2. -1 \in -1 .. Len(patterns) - 1
    BY <1>4, <2>1
  <2>3. \/ newFaults = {}
        \/ \A i \in 0 .. Len(patterns) - 1 : ~ RefDetects(netlist, newFaults, patterns[i + 1])
    BY <1>6, UndetectedReplies
  <2> QED
    BY <1>4, <2>1, <2>2, <2>3, ReturnReplies
<1> QED
  BY <1>1, <1>2, <1>3, <1>5, <1>6 DEF Next

\* checkallPatterns keeps the promise its callers rely on, for every circuit,
\* every word size and every list of patterns: it names a pattern that detects
\* the faults, from the first block that has one, or answers -1 when none does.
THEOREM Refinement == Spec => ImplementsFaultDetection
<1>1. Init => Promise!Init
  BY DEF Init, Promise!Init, Promise!NoRequest, Promise!NoReply, NoAnswer
<1>2. IInv /\ CInv /\ [Next]_vars =>
        [Promise!Next]_<<netlist, IF pc = "idle" THEN << >> ELSE <<newFaults, patterns>>, answer>>
  BY StepRefines
<1> QED
  BY <1>1, <1>2, BlocksExact, PTL DEF Spec, ImplementsFaultDetection, Promise!Spec
=============================================================================
