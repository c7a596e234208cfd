--------------------------- MODULE MCTestGeneBySAT ---------------------------
(***************************************************************************)
(* Two inputs (0, 1), three gates (2, 3, 4), two outputs (5, 6).  Faults   *)
(* come one at a time, in pairs and in threes on one gate.  The two ways   *)
(* of generating tests are checked next to each other: a behaviour is one  *)
(* of calls of generateTestBySAT_1 or of calls of generateTestBySAT, whose *)
(* module IncrementalCNF has the names below.                              *)
(***************************************************************************)
EXTENDS TestGeneBySAT

CONSTANTS
  IncNetlists,      \* the circuits considered for generateTestBySAT
  IncFaultSets(_),  \* what it is asked for
  MaxLeft

VARIABLES
  incremental,      \* generateTestBySAT is called
  incFaults, incPc, incCircuit, incCNF, incSaved, incInserted, incInjected

C == INSTANCE IncrementalCNF WITH
       Netlists <- IncNetlists, FaultSets <- IncFaultSets, newFaults <- incFaults, pc <- incPc,
       oriAndFauCir <- incCircuit, CNFOriAndFauCir <- incCNF,
       preGateInOriAndFauCir <- incSaved,
       faultsInsertedoriAndFauCir <- incInserted, injected <- incInjected

ASSUME IncrementalAssumption == C!NetlistsAssumption

incVars == <<incFaults, incPc, incCircuit, incCNF, incSaved, incInserted, incInjected>>
bothVars == <<incremental, vars, incVars>>

BothInit ==
  /\ Init
  /\ \/ incremental = TRUE /\ C!Init
     \/ /\ incremental = FALSE
        /\ incFaults = << >> /\ incPc = "none" /\ incCircuit = << >> /\ incCNF = << >>
        /\ incSaved = << >> /\ incInserted = 0 /\ incInjected = 0

BothNext ==
  \/ ~ incremental /\ Next /\ UNCHANGED <<incremental, incVars>>
  \/ incremental /\ C!Next /\ UNCHANGED <<incremental, newFaults, pc, callVars, reply>>

BothSpec == BothInit /\ [][BothNext]_bothVars

\* resetFaultsInCNF takes back what injectFaultsInCNF did, whatever faults the
\* calls before had, several on one gate among them.
CNFRestored == C!CNFRestored

\* generateTestBySAT: after any sequence of calls the models are the tests for
\* the faults of the latest call alone.  Of two faults on one line the later one
\* holds (Testgenebysat.h:307 says "only the front one").
ModelsAreTests == C!ModelsAreTests
-----------------------------------------------------------------------------

Circuit(a, b, c, p, q) ==
  [g \in GateID |->
     CASE g \in PIs -> PIGate [] g = 2 -> a [] g = 3 -> b [] g = 4 -> c
       [] g = 5 -> POGate(p) [] g = 6 -> POGate(q)]

\* Branches that meet again; two halves with an input of their own, so that a
\* call sees part of the circuit; a constant, an inverter and an AIG that reads
\* one gate twice; a constant that an AIG masks.
Reconvergent == Circuit(AigGate(0, 1, 0, 1, 0), AigGate(2, 1, 1, 0, 1), AigGate(2, 3, 0, 0, 0), 4, 4)
Halves == Circuit(AigGate(1, 1, 1, 1, 0), BufInvGate(2, 1, 0), AigGate(0, 0, 0, 0, 1), 3, 4)
Mixed == Circuit(ConstantGate(1), AigGate(2, 0, 1, 0, 0), BufInvGate(1, 0, 1), 3, 4)
Masked == Circuit(ConstantGate(0), AigGate(2, 0, 1, 1, 1), AigGate(3, 1, 0, 1, 1), 4, 3)
MCNetlists == {Reconvergent, Halves, Mixed, Masked}

Sequence(S) == CHOOSE s \in [1 .. Cardinality(S) -> S] : \A i, j \in 1 .. Cardinality(S) : i < j => s[i] < s[j]

SetsFor(net) ==
  LET faults == {f \in allSSAFList(net) : ReachedFromPI(net, faultGate(f))}
      on(g) == {f \in faults : faultGate(f) = g}
  IN {{f} : f \in faults} \cup {{f, g} : f \in on(1) \cup on(3), g \in on(3) \cup on(4)} \cup
     {{f, 30, g} : f \in on(3), g \in on(4)} \cup {on(3), on(4)}

MCFaultSets(net) == {Sequence(S) : S \in SetsFor(net)}

\* For generateTestBySAT: faults of an input alone; pairs and all
\* faults of a gate.
MCIncNetlists == {Reconvergent, Mixed}
MCIncFaultSets(net) ==
  LET on(g) == {f \in allSSAFList(net) : faultGate(f) = g}
  IN {Sequence(S) : S \in {{f} : f \in on(0)} \cup {{f, g} : f, g \in on(3)} \cup {on(3)}}

ConstantFaults(net) == {<<f>> : f \in {h \in allSSAFList(net) : net[faultGate(h)].gateType = "constant"}}
MaskedNetlists == {Masked}
=============================================================================
