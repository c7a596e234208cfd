-------------------------- MODULE PackedSimulation --------------------------
(***************************************************************************)
(* checkallPatterns and check64Patterns of inc/CircuitSimulation.h: WSIZE  *)
(* patterns are simulated at a time, one to a bit.  A word is the set of   *)
(* the bits that are 1, so that and, or, xor and complement are set        *)
(* operations.  Each block of patterns costs two passes over the related   *)
(* gates, one with the faults in the circuit and one without.              *)
(***************************************************************************)
EXTENDS FaultInjection

CONSTANTS
  Netlists,     \* the circuits considered
  FaultSets(_), \* of a circuit: the sets of faults a call may name; none, one, two or three in the program
  WSIZE,        \* bits of a word: 64 in the program
  MaxPatterns   \* bound on the length of a pattern list

\* The faults of a set, however many, may be anywhere an input reaches.
ASSUME PackedAssumption ==
  /\ WSIZE \in Nat \ {0}
  /\ MaxPatterns \in Nat
  /\ \A net \in Netlists :
       /\ WellFormed(net) /\ NoDangling(net)
       /\ \A F \in FaultSets(net) : \A f \in F : f \in allSSAFList(net) /\ ReachedFromPI(net, faultGate(f))

VARIABLES
  netlist, gateToRelatedGates,   \* the circuit and its cones; never change
  outValue_64,                   \* gate::outValue_64
  pc,
  newFaults, patterns,           \* arguments of the call
  toInject,                      \* faults the injection loop has not reached
  block,                         \* i: the block of patterns being simulated
  isDiff_64,                     \* the words of the primary outputs
  answer

callVars == <<newFaults, patterns>>
vars == <<injectVars, netlist, gateToRelatedGates, outValue_64, pc, callVars,
          toInject, block, isDiff_64, answer>>

Bits == 0 .. (WSIZE - 1)
one_64 == Bits
Replicated(bit) == IF bit = 1 THEN one_64 ELSE {}

NoAnswer == -2
Patterns == [PIs -> Bit]
PatternLists == UNION {[1 .. n -> Patterns] : n \in 0 .. MaxPatterns}

First(S) == {x \in S : \A y \in S : x <= y}

getAllRelatedGates == UNION {gateToRelatedGates[faultGate(f)] : f \in newFaults}

\* The block of patterns: its number of patterns, the mask of its bits, and
\* patterns_64, the word of each primary input.
count == (Len(patterns) - 1) \div WSIZE
curNum == IF block < count THEN WSIZE ELSE Len(patterns) - count * WSIZE
bitMax == 0 .. (curNum - 1)
patterns_64 == [i \in PIs |-> {b \in bitMax : patterns[WSIZE * block + b + 1][i] = 1}]

PointedWord(values, cons, i) == IF i < Size THEN values[i] ELSE Replicated(cons[i - Size + 1])

\* The bits in which an input equals its inversion flag.
Asserted(word, inv) == IF inv = 1 THEN word ELSE Bits \ word

\* Broken variant: the bits behind the last pattern are not masked.
OutOf_64_Unmasked(c, cons, values, g, max) ==
  LET in1 == Asserted(PointedWord(values, cons, c[g].fanin1), c[g].invIn1)
      in2 == Asserted(PointedWord(values, cons, c[g].fanin2), c[g].invIn2)
  IN CASE c[g].gateType = "PO"     -> PointedWord(values, cons, c[g].fanin1)
       [] c[g].gateType = "bufInv" -> Asserted(in1, c[g].invOut)
       [] c[g].gateType = "aig"    -> Asserted(in1 \cap in2, c[g].invOut)
       [] OTHER                    -> values[g]

\* gate::setOut_64
OutOf_64(c, cons, values, g, max) ==
  LET in1 == Asserted(PointedWord(values, cons, c[g].fanin1), c[g].invIn1)
      in2 == Asserted(PointedWord(values, cons, c[g].fanin2), c[g].invIn2)
      out(word) == Asserted(word, c[g].invOut) \cap max
  IN CASE c[g].gateType = "PO"     -> PointedWord(values, cons, c[g].fanin1) \cap max
       [] c[g].gateType = "bufInv" -> out(in1)
       [] c[g].gateType = "aig"    -> out(in1 \cap in2)
       [] OTHER                    -> values[g]

\* assignPIs_64
assignPIs_64(c, values) ==
  [g \in GateID |-> IF g \in PIs /\ c[g].gateType = "PI" THEN patterns_64[g] ELSE values[g]]

\* propagatePI_64(1, related, bitMax): the related gates in the order of the
\* vector, so that a gate reads the new words of the gates before it.
propagatePI_64(c, cons, values, related, max) ==
  LET word[g \in GateID] ==
        LET current == [h \in GateID |-> IF h < g THEN word[h] ELSE values[h]]
        IN IF g \in related THEN OutOf_64(c, cons, current, g, max) ELSE values[g]
  IN word

\* copyGate brings back the word a gate had before its fault, constant or not.
ValuesAfterReset ==
  [g \in GateID |-> IF g \in DOMAIN preGateInTheCircuit
                    THEN preGateInTheCircuit[g].outValue ELSE outValue_64[g]]

\* getLeft1Pos: despite its name, the position of the rightmost 1.
getLeft1Pos(word) == CHOOSE b \in word : \A c \in word : b <= c

\* The words of gates nobody has written yet (bound: all bits alike).
UnwrittenWords == {{}, one_64}

Init ==
  /\ netlist \in Netlists
  /\ gateToRelatedGates = [g \in GateID |-> RelatedGates(netlist, g)]
  /\ InjectInit(netlist)
  /\ outValue_64 \in {[g \in GateID |-> IF netlist[g].gateType = "constant"
                                        THEN Replicated(netlist[g].constant) ELSE w] : w \in UnwrittenWords}
  /\ pc = "idle"
  /\ newFaults = {} /\ patterns = << >>
  /\ toInject = {}
  /\ block = 0
  /\ isDiff_64 = [p \in POs |-> {}]
  /\ answer = NoAnswer

Call(F, P) ==
  /\ pc = "idle"
  /\ newFaults' = F /\ patterns' = P
  /\ block' = 0
  /\ answer' = NoAnswer
  /\ pc' = "block"
  /\ UNCHANGED <<injectVars, netlist, gateToRelatedGates, outValue_64, toInject, isDiff_64>>

\* check64Patterns begins.
StartBlock ==
  /\ pc = "block"
  /\ patterns # << >> /\ newFaults # {}
  /\ ResetFaults
  /\ outValue_64' = ValuesAfterReset
  /\ toInject' = newFaults
  /\ pc' = "inject"
  /\ UNCHANGED <<netlist, gateToRelatedGates, callVars, block, isDiff_64, answer>>

InjectNext ==
  /\ pc = "inject"
  /\ \E f \in First(toInject) : InjectFault(f, outValue_64) /\ toInject' = toInject \ {f}
  /\ UNCHANGED <<netlist, gateToRelatedGates, outValue_64, pc, callVars, block, isDiff_64, answer>>

FaultyPass ==
  /\ pc = "inject"
  /\ toInject = {}
  /\ outValue_64' = propagatePI_64(theCircuit, stuckatCons, assignPIs_64(theCircuit, outValue_64),
                                   getAllRelatedGates, bitMax)
  /\ isDiff_64' = [p \in POs |-> outValue_64'[p]]
  /\ pc' = "good"
  /\ UNCHANGED <<injectVars, netlist, gateToRelatedGates, callVars, toInject, block, answer>>

GoodPass ==
  /\ pc = "good"
  /\ ResetFaults
  /\ outValue_64' = propagatePI_64(theCircuit', stuckatCons', assignPIs_64(theCircuit', ValuesAfterReset),
                                   getAllRelatedGates, bitMax)
  /\ isDiff_64' = [p \in POs |-> (outValue_64'[p] \ isDiff_64[p]) \cup (isDiff_64[p] \ outValue_64'[p])]
  /\ pc' = "compare"
  /\ UNCHANGED <<netlist, gateToRelatedGates, callVars, toInject, block, answer>>

\* The call returns value; its arguments and locals are gone.
Return(value) ==
  /\ answer' = value
  /\ pc' = "idle"
  /\ newFaults' = {} /\ patterns' = << >>
  /\ block' = 0
  /\ isDiff_64' = [p \in POs |-> {}]
  /\ UNCHANGED <<injectVars, netlist, gateToRelatedGates, outValue_64, toInject>>

\* The lowest bit of the first primary output that differs.
Detected ==
  /\ pc = "compare"
  /\ \E p \in First({q \in POs : isDiff_64[q] # {}}) :
       Return(WSIZE * block + getLeft1Pos(isDiff_64[p]))

NextBlock ==
  /\ pc = "compare"
  /\ \A p \in POs : isDiff_64[p] = {}
  /\ block < count
  /\ block' = block + 1
  /\ pc' = "block"
  /\ UNCHANGED <<injectVars, netlist, gateToRelatedGates, outValue_64, callVars, toInject,
                 isDiff_64, answer>>

\* Nothing to check, or no block showed a difference.
ReturnUndetected ==
  /\ \/ pc = "block" /\ (patterns = << >> \/ newFaults = {})
     \/ pc = "compare" /\ block >= count /\ \A p \in POs : isDiff_64[p] = {}
  /\ Return(-1)

Next ==
  \/ \E F \in FaultSets(netlist), P \in PatternLists : Call(F, P)
  \/ StartBlock \/ InjectNext \/ FaultyPass \/ GoodPass
  \/ Detected \/ NextBlock \/ ReturnUndetected

Spec == Init /\ [][Next]_vars
-----------------------------------------------------------------------------
\* Between calls no fault, no saved gate and no stuck-at constant is left in the
\* shared circuit, however many blocks the call went through.
CircuitRestored ==
  pc = "idle" => FaultFree(netlist)

\* The promise the callers rely on; the abstract request is the call in progress.
PackedRequests(net) == FaultSets(net) \X PatternLists

Promise ==
  INSTANCE FaultDetection WITH
    Requests <- PackedRequests,
    Detects <- RefDetects,
    asked <- IF pc = "idle" THEN << >> ELSE <<newFaults, patterns>>,
    reply <- answer

ImplementsFaultDetection == Promise!Spec
=============================================================================
