---------------------------- MODULE TestGeneBySAT ----------------------------
(***************************************************************************)
(* generateTestBySAT_1 of inc/Testgenebysat.h with SATCircuit of           *)
(* inc/glucose.h: a test for a set of faults from a miter over the gates   *)
(* that are related to them.  The solver enters through its promise        *)
(* (Miter!Models); everything else is built anew by every call.            *)
(***************************************************************************)
EXTENDS Miter

CONSTANTS
  Netlists,      \* the circuits considered
  FaultSets(_)   \* of a circuit: what the solver is asked for

ASSUME NetlistsAssumption ==
  \A net \in Netlists : WellFormed(net) /\ NoDangling(net)

\* Sequences made of sets of faults of the list.
ASSUME FaultSetsAssumption ==
  \A net \in Netlists : \A s \in FaultSets(net) :
    /\ s \in Seq(allSSAFList(net)) /\ s # << >>
    /\ \A i, j \in 1 .. Len(s) : i < j => s[i] < s[j]

VARIABLES
  theCircuit,      \* never changes: the simulator has put it back
  newFaults,       \* the faults of the call, an increasing sequence
  pc,
  curCircuit,      \* the related gates, in the order of the circuit
  oriAndFauCir,    \* the miter
  injected,        \* how many faults have been treated
  CNFOriAndFauCir, \* the clauses, without their grouping by gate
  testVectorTmp,   \* values of the related inputs
  reply            \* the answer: result and testVector

callVars == <<curCircuit, oriAndFauCir, injected, CNFOriAndFauCir, testVectorTmp>>
vars == <<theCircuit, newFaults, pc, callVars, reply>>

Patterns == [PIs -> Bit]
NoFaults == << >>
NoReply == [result |-> -1, testVector |-> << >>]
Redundant == [result |-> 0, testVector |-> << >>]
Test(v) == [result |-> 1, testVector |-> v]

Init ==
  /\ theCircuit \in Netlists
  /\ newFaults = NoFaults
  /\ pc = "idle"
  /\ curCircuit = << >> /\ oriAndFauCir = << >> /\ injected = 0
  /\ CNFOriAndFauCir = {} /\ testVectorTmp = << >>
  /\ reply = NoReply

generateTestBySAT_1 ==
  /\ pc = "idle"
  /\ newFaults' \in FaultSets(theCircuit)
  /\ reply' = NoReply
  /\ pc' = "related"
  /\ UNCHANGED <<theCircuit, callVars>>

\* The circuit's order, restricted to a set of gates.
InOrder(S) == Enumerated(S, {p \in S \X S : p[1] < p[2]})

getAllRelatedGates ==
  /\ pc = "related"
  /\ curCircuit' = InOrder(UNION {RelatedGates(theCircuit, faultGate(newFaults[i])) : i \in 1 .. Len(newFaults)})
  /\ pc' = "miter"
  /\ UNCHANGED <<theCircuit, newFaults, oriAndFauCir, injected, CNFOriAndFauCir, testVectorTmp, reply>>

generateOriAndFau_1 ==
  /\ pc = "miter"
  /\ oriAndFauCir' = generateOriAndFau(theCircuit, curCircuit)
  /\ injected' = 0
  /\ pc' = "inject"
  /\ UNCHANGED <<theCircuit, newFaults, curCircuit, CNFOriAndFauCir, testVectorTmp, reply>>

\* Broken variant: all stuck-at constants share a variable.
stuckatID_Shared(i) == preSize(theCircuit, curCircuit)

\* The gateID of the constant of fault i: a fault that is skipped leaves a gap.
stuckatID(i) == preSize(theCircuit, curCircuit) + i

\* One round of the loop of injectFaultsInOriAndFau_1.
injectFaultsInOriAndFau_1 ==
  /\ pc = "inject"
  /\ injected < Len(newFaults)
  /\ injected' = injected + 1
  /\ LET faultID == newFaults[injected + 1]
         at == Len(curCircuit) + oriCirIDToCur(curCircuit, faultGate(faultID)) + 1
         cons == MiterGate(ConstantGate(faultStuckat(faultID)), stuckatID(injected))
     IN oriAndFauCir' =
          IF Skipped(oriAndFauCir[at], faultPort(faultID)) THEN oriAndFauCir
          ELSE Append([oriAndFauCir EXCEPT ![at] = Faulted(@, faultPort(faultID), cons.gateID)], cons)
  /\ UNCHANGED <<theCircuit, newFaults, pc, curCircuit, CNFOriAndFauCir, testVectorTmp, reply>>

generateCNF_1 ==
  /\ pc = "inject"
  /\ injected = Len(newFaults)
  /\ CNFOriAndFauCir' = (UNION {generateClause(oriAndFauCir[p]) : p \in 1 .. Len(oriAndFauCir)}) \cup
                        {outputClause(oriAndFauCir)}
  /\ pc' = "solve"
  /\ UNCHANGED <<theCircuit, newFaults, curCircuit, oriAndFauCir, injected, testVectorTmp, reply>>

CNFModels == Models(CNFOriAndFauCir, Order(CNFOriAndFauCir))

\* Broken variant: the decoding starts one variable too late.
FirstInput_OffByOne == 2 * Len(curCircuit) + 1

\* Where SATCircuit finds the new inputs in the values of the model.
FirstInput == 2 * Len(curCircuit)

\* SATCircuit, when the solver has a model: the values of the new inputs.
SATCircuit ==
  /\ pc = "solve"
  /\ \E a \in CNFModels :
       testVectorTmp' = [k \in 1 .. CountOf(theCircuit, curCircuit, "PI") |-> a[FirstInput + k]]
  /\ pc' = "complete"
  /\ UNCHANGED <<theCircuit, newFaults, curCircuit, oriAndFauCir, injected, CNFOriAndFauCir, reply>>

\* The call is over: what it allocated is deleted.
Return(answer) ==
  /\ reply' = answer
  /\ newFaults' = NoFaults
  /\ curCircuit' = << >> /\ oriAndFauCir' = << >> /\ injected' = 0
  /\ CNFOriAndFauCir' = {} /\ testVectorTmp' = << >>
  /\ pc' = "idle"
  /\ UNCHANGED theCircuit

SATCircuitUnsat ==
  /\ pc = "solve"
  /\ CNFModels = {}
  /\ Return(Redundant)

\* getCompletedTestVector: related inputs get their values in turn, the others
\* are drawn at random.
getCompletedTestVector(pi) ==
  IF \E k \in 1 .. Len(testVectorTmp) : curCircuit[k] = pi
  THEN {testVectorTmp[oriCirIDToCur(curCircuit, pi) + 1]} ELSE Bit

CompleteVector ==
  /\ pc = "complete"
  /\ \E v \in Patterns : (\A pi \in PIs : v[pi] \in getCompletedTestVector(pi)) /\ Return(Test(v))

Next ==
  \/ generateTestBySAT_1 \/ getAllRelatedGates \/ generateOriAndFau_1 \/ injectFaultsInOriAndFau_1
  \/ generateCNF_1 \/ SATCircuit \/ SATCircuitUnsat \/ CompleteVector

Spec == Init /\ [][Next]_vars
-----------------------------------------------------------------------------
Faults(s) == {s[i] : i \in 1 .. Len(s)}

\* The models of the clauses are the simulations of the circuit without and
\* with the faults, on the related gates, under the patterns that tell them
\* apart; each once.
ModelsAreSimulations ==
  pc = "solve" =>
    LET n == Len(curCircuit)
        simulation(p) ==
          [i \in 1 .. 2 * n |-> IF i <= n THEN RefValue(theCircuit, {}, p)[curCircuit[i]]
                                ELSE RefValue(theCircuit, Faults(newFaults), p)[curCircuit[i - n]]]
    IN {[i \in 1 .. 2 * n |-> a[i]] : a \in CNFModels} =
       {simulation(p) : p \in {q \in Patterns : RefDetects(theCircuit, Faults(newFaults), q)}}

DetectsAll(net, sequence, pattern) == RefDetects(net, Faults(sequence), pattern)

\* A call gives a test for its faults or, if there is none, says so: what
\* the flow expects.
T == INSTANCE TestGeneration WITH
       Circuits <- Netlists, Vectors <- Patterns, Detects <- DetectsAll,
       circuit <- theCircuit, request <- newFaults
ImplementsTestGeneration == T!Spec

\* What the comment at generateTestBySAT and the notes say of an answer without
\* a model: the faults are redundant.
UnsatMeansRedundant ==
  pc = "solve" /\ CNFModels = {} =>
    \A pattern \in Patterns : ~ RefDetects(theCircuit, Faults(newFaults), pattern)
=============================================================================
