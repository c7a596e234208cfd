--------------------------- MODULE IncrementalCNF ---------------------------
(***************************************************************************)
(* generateTestBySAT of inc/Testgenebysat.h: one miter over the whole      *)
(* circuit and its clauses, built by the constructor; a call takes the     *)
(* faults of the call before out of them and puts its own in.              *)
(***************************************************************************)
EXTENDS Miter

CONSTANTS
  Netlists,      \* the circuits considered
  FaultSets(_),  \* of a circuit: what the solver is asked for
  MaxLeft        \* calls are made while at most this many constants are left behind

\* What the module takes for granted of its constants: a call is about a set of
\* faults of the list.
NetlistsAssumption ==
  /\ MaxLeft \in Nat
  /\ \A net \in Netlists :
       /\ WellFormed(net)
       /\ \A s \in FaultSets(net) :
            s \in Seq(allSSAFList(net)) /\ \A i, j \in 1 .. Len(s) : i < j => s[i] < s[j]

VARIABLES
  theCircuit,               \* never changes: the simulator has put it back
  newFaults,                \* the faults of the call, an increasing sequence
  pc,
  oriAndFauCir,             \* the miter, a blank gate, and stuck-at constants
  CNFOriAndFauCir,          \* the clauses, a set for each gate
  preGateInOriAndFauCir,    \* copies of the overwritten gates, by position
  faultsInsertedoriAndFauCir,
  injected                  \* how many faults of the call have been treated

vars == <<theCircuit, newFaults, pc, oriAndFauCir, CNFOriAndFauCir,
          preGateInOriAndFauCir, faultsInsertedoriAndFauCir, injected>>

Patterns == [PIs -> Bit]
whole == [i \in 1 .. Size |-> i - 1]
BlankGate == [MiterGate(PIGate, -1) EXCEPT !.gateType = "null"]
NoCopies == [p \in {} |-> BlankGate]

\* generateCNF: the clauses of the gates, then the one over the outputs.
generateCNF(gates) == [p \in 1 .. Len(gates) |-> generateClause(gates[p])] \o <<{outputClause(gates)}>>

\* initialize
Init ==
  /\ theCircuit \in Netlists
  /\ newFaults = << >> /\ pc = "idle" /\ injected = 0
  /\ LET miter == generateOriAndFau(theCircuit, whole)
     IN oriAndFauCir = Append(miter, BlankGate) /\ CNFOriAndFauCir = generateCNF(miter)
  /\ preGateInOriAndFauCir = NoCopies
  /\ faultsInsertedoriAndFauCir = 0

generateTestBySAT ==
  /\ pc = "idle"
  /\ Len(oriAndFauCir) - faultsInsertedoriAndFauCir - preSize(theCircuit, whole) <= MaxLeft
  /\ newFaults' \in FaultSets(theCircuit)
  /\ injected' = 0
  /\ pc' = "reset"
  /\ UNCHANGED <<theCircuit, oriAndFauCir, CNFOriAndFauCir, preGateInOriAndFauCir, faultsInsertedoriAndFauCir>>

\* How many clause sets the reset deletes; gates it deletes one for each saved
\* gate.
DeletedClauses == faultsInsertedoriAndFauCir

\* resetFaultsInCNF
resetFaultsInCNF ==
  /\ pc = "reset"
  /\ LET saved == DOMAIN preGateInOriAndFauCir
         gates == [p \in 1 .. Len(oriAndFauCir) |->
                     IF p \in saved THEN preGateInOriAndFauCir[p] ELSE oriAndFauCir[p]]
         clauses == [p \in 1 .. Len(CNFOriAndFauCir) |->
                       IF p \in saved THEN generateClause(preGateInOriAndFauCir[p]) ELSE CNFOriAndFauCir[p]]
     IN /\ oriAndFauCir' = SubSeq(gates, 1, Len(gates) - Cardinality(saved))
        /\ CNFOriAndFauCir' = SubSeq(clauses, 1, Len(clauses) - DeletedClauses)
  /\ preGateInOriAndFauCir' = NoCopies
  /\ faultsInsertedoriAndFauCir' = 0
  /\ pc' = "inject"
  /\ UNCHANGED <<theCircuit, newFaults, injected>>

\* Broken variant: the copy of a gate that is hit again replaces the first one.
Saved_Latest(p) ==
  [q \in DOMAIN preGateInOriAndFauCir \cup {p} |-> IF q = p THEN oriAndFauCir[q] ELSE preGateInOriAndFauCir[q]]

\* map::insert keeps the first copy.
Saved(p) ==
  [q \in DOMAIN preGateInOriAndFauCir \cup {p} |->
     IF q \in DOMAIN preGateInOriAndFauCir THEN preGateInOriAndFauCir[q] ELSE oriAndFauCir[q]]

\* One round of the loop of injectFaultsInCNF.
injectFaultsInCNF ==
  /\ pc = "inject"
  /\ injected < Len(newFaults)
  /\ injected' = injected + 1
  /\ LET faultID == newFaults[injected + 1]
         at == Size + faultGate(faultID) + 1
         cons == MiterGate(ConstantGate(faultStuckat(faultID)), preSize(theCircuit, whole) + injected)
         faulty == Faulted(oriAndFauCir[at], faultPort(faultID), cons.gateID)
     IN IF Skipped(oriAndFauCir[at], faultPort(faultID))
        THEN UNCHANGED <<oriAndFauCir, CNFOriAndFauCir, preGateInOriAndFauCir, faultsInsertedoriAndFauCir>>
        ELSE /\ preGateInOriAndFauCir' = Saved(at)
             /\ faultsInsertedoriAndFauCir' = faultsInsertedoriAndFauCir + 1
             /\ oriAndFauCir' = Append([oriAndFauCir EXCEPT ![at] = faulty], cons)
             /\ CNFOriAndFauCir' = Append([CNFOriAndFauCir EXCEPT ![at] = generateClause(faulty)],
                                          generateClause(cons))
  /\ UNCHANGED <<theCircuit, newFaults, pc>>

CNFModels ==
  LET clauses == UNION {CNFOriAndFauCir[p] : p \in 1 .. Len(CNFOriAndFauCir)}
  IN Models(clauses, Order(clauses))

\* SATCircuit changes nothing here; what it answers is CNFModels.
SATCircuit ==
  /\ pc = "inject"
  /\ injected = Len(newFaults)
  /\ pc' = "idle"
  /\ UNCHANGED <<theCircuit, newFaults, oriAndFauCir, CNFOriAndFauCir,
                 preGateInOriAndFauCir, faultsInsertedoriAndFauCir, injected>>

Next == generateTestBySAT \/ resetFaultsInCNF \/ injectFaultsInCNF \/ SATCircuit

Spec == Init /\ [][Next]_vars
-----------------------------------------------------------------------------
Faults(s) == {s[i] : i \in 1 .. Len(s)}
Miter0 == generateOriAndFau(theCircuit, whole)

\* After a reset the clauses are those of the fault-free circuit, whatever
\* faults the calls before had, several on one gate among them.
CNFRestored == pc = "inject" /\ injected = 0 => CNFOriAndFauCir = generateCNF(Miter0)

\* After any sequence of calls the models are the tests for the faults of this
\* call alone: inputs for which an output differs.  Of two faults on one line
\* the later one holds, in the clauses as in RefValue, although the comment at
\* Testgenebysat.h:307 says that only the front one goes into effect.
ModelsAreTests ==
  pc = "idle" /\ newFaults # << >> =>
    {[i \in PIs |-> a[2 * Size + i + 1]] : a \in CNFModels} =
    {p \in Patterns : RefDetects(theCircuit, Faults(newFaults), p)}
=============================================================================
