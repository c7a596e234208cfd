--------------------------- MODULE FaultInjection ---------------------------
(***************************************************************************)
(* injectFaultsInCircuit and resetFaultsInCircuit of                       *)
(* inc/CircuitSimulation.h: the simulator makes a circuit faulty in place, *)
(* remembers the gates it overwrote, and puts them back.                   *)
(*                                                                         *)
(* The simulator has a vector of pointers of its own; the gates themselves *)
(* are those of the circuit and shared with the rest of the program.       *)
(* The vector theCircuit is kept in two parts: its first Size entries      *)
(* (theCircuit) and the stuck-at constants pushed behind them              *)
(* (stuckatCons), of which a fault only needs the value.  A fanin pointer  *)
(* of Size + k leads to the k+1st of these.                                *)
(***************************************************************************)
EXTENDS Netlist, Sequences

VARIABLES
  theCircuit,              \* the gates, possibly with faults in them
  stuckatCons,             \* values of the constants behind the circuit
  preGateInTheCircuit,     \* copies of the overwritten gates, by gate
  faultsInsertedtheCircuit \* how many constants to delete at the next reset

injectVars == <<theCircuit, stuckatCons, preGateInTheCircuit, faultsInsertedtheCircuit>>

NoCopies == [g \in {} |-> NoGate]

InjectInit(net) ==
  /\ theCircuit = net
  /\ stuckatCons = << >>
  /\ preGateInTheCircuit = NoCopies
  /\ faultsInsertedtheCircuit = 0

\* Only binary gates have an input 2, and port 0 names no line.
Skipped(faultID) ==
  \/ faultPort(faultID) = 0
  \/ faultPort(faultID) = 2 /\ theCircuit[faultGate(faultID)].gateType \notin BinaryTypes

\* The fault's gate with the line tied to the constant at position cons.  A
\* faulty primary input or constant becomes a buffer of that constant.
Faulted(g, port, cons) ==
  LET asBuffer == IF g.gateType \in {"PI", "constant"} THEN [g EXCEPT !.gateType = "bufInv"] ELSE g
  IN CASE port = 1 -> [asBuffer EXCEPT !.fanin1 = cons]
       [] port = 2 -> [asBuffer EXCEPT !.fanin2 = cons]
       [] OTHER    -> changeOutputStuckat(g, cons)

\* Everything of a gate is copied, the value it carries too.
copyGate(gate, value) == [gate |-> gate, outValue |-> value]

\* One round of the injection loop, when the gates carry these values.  The
\* copy of a gate that is hit twice stays the first one.
InjectFault(faultID, values) ==
  LET g == faultGate(faultID)
  IN IF Skipped(faultID)
     THEN UNCHANGED injectVars
     ELSE /\ preGateInTheCircuit' =
               [h \in DOMAIN preGateInTheCircuit \cup {g} |->
                  IF h \in DOMAIN preGateInTheCircuit THEN preGateInTheCircuit[h]
                  ELSE copyGate(theCircuit[h], values[h])]
          /\ faultsInsertedtheCircuit' = faultsInsertedtheCircuit + 1
          /\ stuckatCons' = Append(stuckatCons, faultStuckat(faultID))
          /\ theCircuit' = [theCircuit EXCEPT
                              ![g] = Faulted(@, faultPort(faultID), Size + Len(stuckatCons))]

\* Broken variant: one constant deleted for each gate, as before 2018.5.31.
ResetFaults_OncePerGate ==
  /\ theCircuit' = [g \in GateID |-> IF g \in DOMAIN preGateInTheCircuit
                                     THEN preGateInTheCircuit[g].gate ELSE theCircuit[g]]
  /\ preGateInTheCircuit' = NoCopies
  /\ faultsInsertedtheCircuit' = 0
  /\ stuckatCons' = SubSeq(stuckatCons, 1, Len(stuckatCons) - Cardinality(DOMAIN preGateInTheCircuit))

\* resetFaultsInCircuit, without what becomes of the gates' values.
ResetFaults ==
  /\ theCircuit' = [g \in GateID |-> IF g \in DOMAIN preGateInTheCircuit
                                     THEN preGateInTheCircuit[g].gate ELSE theCircuit[g]]
  /\ preGateInTheCircuit' = NoCopies
  /\ faultsInsertedtheCircuit' = 0
  /\ stuckatCons' = SubSeq(stuckatCons, 1, Len(stuckatCons) - faultsInsertedtheCircuit)

(***************************************************************************)
(* What the loop has to keep.  Every gate either is the netlist's or has   *)
(* the netlist's gate saved, and the constants behind the circuit are as   *)
(* many as the next reset deletes.                                         *)
(***************************************************************************)
Recoverable(net) ==
  /\ \A g \in GateID : IF g \in DOMAIN preGateInTheCircuit
                       THEN preGateInTheCircuit[g].gate = net[g]
                       ELSE theCircuit[g] = net[g]
  /\ Len(stuckatCons) = faultsInsertedtheCircuit

\* No fault is left in the gates the simulator shares with the rest of the program,
\* and no stuck-at constant behind them.
FaultFree(net) ==
  /\ theCircuit = net
  /\ preGateInTheCircuit = NoCopies
  /\ stuckatCons = << >>
=============================================================================
