--------------------------- MODULE TmaxInterface ---------------------------
(***************************************************************************)
(* inc/tmaxInterface.h: a copy of the circuit in which multiple faults are *)
(* turned into single ones, the Verilog and fault files written for        *)
(* TetraMAX, and the fault file read back.                                 *)
(*                                                                         *)
(* Of each multiple fault an AND gate (two for three faults) becomes true  *)
(* when every line carries the value it is stuck at, and a gate inserted   *)
(* in every line lets it force the line: stuck-at 1 of the AND gate then   *)
(* stands for the multiple fault.                                          *)
(***************************************************************************)
EXTENDS Netlist, Sequences, TLC

(***************************************************************************)
(* What inc/tmaxInterface.h writes for TetraMAX about a circuit (position  *)
(* to gate, ori as it was when it was copied): the lists of the Verilog    *)
(* module, the library cell of each gate, the names of the faults; and the *)
(* faults it reads back.  A wire goes by the position of its gate.         *)
(***************************************************************************)
Order(circ) == [i \in 1 .. Cardinality(DOMAIN circ) |-> i - 1]
IsType(circ, g, types) == g \in DOMAIN circ /\ circ[g].gateType \in types

\* getName: an output has the name of the wire it read when it was copied.
getName(ori, g) == IF IsType(ori, g, {"PO"}) THEN ori[g].fanin1 ELSE g

\* Outputs that are inputs are left out.
Left(ori, g) == IsType(ori, g, {"PO"}) /\ IsType(ori, ori[g].fanin1, {"PI"})

\* A list is a sequence of names, each with what is written behind it.
Listed(circ, ori, types, sep(_)) ==
  LET gates == SelectSeq(Order(circ), LAMBDA g : IsType(circ, g, types) /\ ~ Left(ori, g))
  IN [i \in 1 .. Len(gates) |-> <<getName(ori, gates[i]), sep(gates[i])>>]

-----------------------------------------------------------------------------
aigCase(gate) ==
  CASE gate.invOut = 1 /\ gate.invIn1 = 1 -> IF gate.invIn2 = 1 THEN 1 ELSE 2
    [] gate.invOut = 1 /\ gate.invIn1 = 0 -> IF gate.invIn2 = 1 THEN 3 ELSE 7
    [] OTHER -> IF gate.invIn1 = 1 THEN (IF gate.invIn2 = 1 THEN 4 ELSE 5) ELSE IF gate.invIn2 = 1 THEN 6 ELSE 8

bufCase(gate) == IF gate.invIn1 = gate.invOut THEN 9 ELSE 10
constantCase(gate) == IF gate.constant = 1 THEN 11 ELSE 12

\* tmaxTest/lib.v: the function of each cell.
And(y, z) == IF y = 1 /\ z = 1 THEN 1 ELSE 0
Cell(n, y, z) ==
  CASE n = 1 -> And(y, z)      [] n = 2 -> And(y, 1 - z)      [] n = 3 -> And(1 - y, z)
    [] n = 4 -> 1 - And(y, z)  [] n = 5 -> 1 - And(y, 1 - z)  [] n = 6 -> 1 - And(1 - y, z)
    [] n = 7 -> And(1 - y, 1 - z) [] n = 8 -> 1 - And(1 - y, 1 - z)
    [] n = 9 -> y [] n = 10 -> 1 - y [] n = 11 -> 1 [] n = 12 -> 0

-----------------------------------------------------------------------------
\* Broken variant: only the constants and the AIGs are written.
Instances_NoBuffers(circ) == {g \in DOMAIN circ : IsType(circ, g, {"aig", "constant"})}

\* The gates that are written as an instance of a cell.
Instances(circ) == {g \in DOMAIN circ : IsType(circ, g, {"aig", "bufInv", "constant"})}

CellOf(gate) ==
  CASE gate.gateType = "aig" -> aigCase(gate)
    [] gate.gateType = "bufInv" -> bufCase(gate)
    [] OTHER -> constantCase(gate)

generateVerilogFile(circ, ori) ==
  LET more(g) == g + 1 \in DOMAIN circ
      pin(g) == IF g = NoGate THEN NoGate ELSE getName(ori, g)
  IN [module |-> Listed(circ, ori, {"PI", "PO"}, LAMBDA g : IF more(g) THEN "," ELSE ""),
      input  |-> Listed(circ, ori, {"PI"}, LAMBDA g : IF IsType(circ, g + 1, {"PI"}) THEN "," ELSE ";"),
      output |-> Listed(circ, ori, {"PO"}, LAMBDA g : IF IsType(circ, g + 1, {"PO"}) THEN "," ELSE ";"),
      wire   |-> Listed(circ, ori, {"aig", "bufInv", "constant"}, LAMBDA g : IF more(g) THEN "," ELSE ";"),
      cells  |-> [g \in Instances(circ) |->
                    [cell |-> CellOf(circ[g]), y |-> pin(circ[g].fanin1), z |-> pin(circ[g].fanin2)]]]

-----------------------------------------------------------------------------
\* generateFaultListFile: inputs by name, gates by instance and pin, outputs of
\* the circuit not at all.
NotWritten == [gate |-> NoGate, pin |-> "", stuckat |-> 0]

Written(circ, f) ==
  LET g == faultGate(f)
  IN CASE IsType(circ, g, {"PI"}) -> [gate |-> g, pin |-> "name", stuckat |-> faultStuckat(f)]
       [] IsType(circ, g, {"PO"}) -> NotWritten
       [] OTHER -> [gate |-> g, stuckat |-> faultStuckat(f),
                    pin |-> CASE ~ IsType(circ, g, {"aig"}) \/ faultPort(f) = 3 -> "x"
                              [] faultPort(f) = 1 -> "y"
                              [] OTHER -> "z"]

\* parseFaultList, of one line.
Parsed(entry) ==
  FaultID(entry.gate, CASE entry.pin = "x" -> 3 [] entry.pin = "z" -> 2 [] OTHER -> 1, entry.stuckat)

-----------------------------------------------------------------------------
(* The transformation of multiple faults. *)
CONSTANTS
  Netlists,    \* the circuits considered
  MSASets(_)   \* the sequences of multiple faults considered for a circuit

\* The multiple faults are a set<set<int>>: all different, in the order of
\* their sorted faults.
Before(S, T) ==
  \E d \in (S \cup T) \ (S \cap T) :
    /\ \A e \in (S \cup T) \ (S \cap T) : d <= e
    /\ IF d \in S THEN \E e \in T : e > d ELSE \A e \in S : e < d

ASSUME MSASetsAssumption ==
  \A net \in Netlists : \A sets \in MSASets(net) : \A i \in 1 .. Len(sets) - 1 : Before(sets[i], sets[i + 1])

VARIABLES
  oriCircuit, MSAs,     \* never change
  pc,
  theCircuit, fanouts,  \* the copy: position to gate, position to fanout pointers
  cur,                  \* the multiple fault at work
  faults,               \* its faults without an inserted gate
  MergeANDGate,         \* its AND gates
  SSAFsList             \* the single faults, in the order of MSAs

vars == <<oriCircuit, MSAs, pc, theCircuit, fanouts, cur, faults, MergeANDGate, SSAFsList>>

\* The fanout pointers connectGates leaves, gate by gate, pin by pin.
FanoutsOf(net) ==
  [g \in GateID |->
     LET pins == [i \in 1 .. 2 * Size |-> <<(i - 1) \div 2, 1 + ((i - 1) % 2)>>]
         reads(pin) == g = IF pin[2] = 1 THEN net[pin[1]].fanin1 ELSE net[pin[1]].fanin2
         found == SelectSeq(pins, reads)
     IN [i \in 1 .. Len(found) |-> found[i][1]]]

Init ==
  /\ oriCircuit \in Netlists
  /\ MSAs \in MSASets(oriCircuit)
  /\ theCircuit = oriCircuit /\ fanouts = FanoutsOf(oriCircuit)
  /\ pc = "merge" /\ cur = 1 /\ faults = {} /\ MergeANDGate = << >> /\ SSAFsList = << >>

-----------------------------------------------------------------------------
(***************************************************************************)
(* transMSATOSSA.                                                          *)
(***************************************************************************)
Count == Cardinality(DOMAIN theCircuit)
MSA == MSAs[cur]
MergeAnd(f1) == AigGate(f1, NoGate, 1, 1, 1)

\* The AND gates of a multiple fault, and the single fault that stands for it.
\* Multiple faults of more than three faults are left out.
createMerge ==
  /\ pc = "merge"
  /\ cur <= Len(MSAs)
  /\ IF Cardinality(MSA) > 3
     THEN cur' = cur + 1 /\ UNCHANGED <<pc, theCircuit, fanouts, faults, MergeANDGate, SSAFsList>>
     ELSE LET merge == IF Cardinality(MSA) = 3 THEN <<Count, Count + 1>> ELSE <<Count>>
          IN /\ theCircuit' = theCircuit @@ [g \in {merge[i] : i \in DOMAIN merge} |->
                                               MergeAnd(IF g = Count THEN NoGate ELSE Count)]
             /\ fanouts' = fanouts @@ [g \in {merge[i] : i \in DOMAIN merge} |->
                                         IF Len(merge) = 2 /\ g = Count THEN <<Count + 1>> ELSE << >>]
             /\ MergeANDGate' = merge
             /\ SSAFsList' = Append(SSAFsList, FaultID(merge[Len(merge)], 3, 1))
             /\ faults' = MSA
             /\ pc' = "insert"
             /\ UNCHANGED cur
  /\ UNCHANGED <<oriCircuit, MSAs>>

faultCount == Cardinality(MSA) - Cardinality(faults)
FirstFault == CHOOSE f \in faults : \A e \in faults : f <= e

\* Broken variant: an AND gate for a line stuck at 1.
insertedGate_Swapped(merge, line, stuckat) ==
  IF stuckat = 0 THEN AigGate(merge, line, 0, 0, 0) ELSE AigGate(merge, line, 1, 0, 1)

insertedGate(merge, line, stuckat) ==
  IF stuckat = 1 THEN AigGate(merge, line, 0, 0, 0) ELSE AigGate(merge, line, 1, 0, 1)

\* The line of a fault: the gate that drives it and the readers taken from it.
\* Pins that the gate does not have hold a pointer nobody has set.
HasLine(f) ==
  /\ faultGate(f) \in DOMAIN theCircuit
  /\ faultPort(f) = 1 => theCircuit[faultGate(f)].fanin1 # NoGate
  /\ faultPort(f) = 2 => theCircuit[faultGate(f)].fanin2 # NoGate
faninGate(f) ==
  CASE faultPort(f) = 1 -> theCircuit[faultGate(f)].fanin1
    [] faultPort(f) = 2 -> theCircuit[faultGate(f)].fanin2
    [] OTHER -> faultGate(f)
faninGateFanouts(f) == IF faultPort(f) = 3 THEN fanouts[faultGate(f)] ELSE <<faultGate(f)>>

\* The fanout pointers that stay: the last one takes the place of the one taken.
Kept(f) ==
  LET list == fanouts[faninGate(f)]
      i == CHOOSE j \in 1 .. Len(list) : list[j] = faultGate(f) /\ \A k \in 1 .. j - 1 : list[k] # faultGate(f)
  IN IF faultPort(f) = 3 THEN << >> ELSE SubSeq([list EXCEPT ![i] = list[Len(list)]], 1, Len(list) - 1)

\* A reader of the line reads the inserted gate instead, on every pin.
Rewired(gate, line, inserted) ==
  [gate EXCEPT !.fanin1 = IF @ = line THEN inserted ELSE @,
               !.fanin2 = IF @ = line /\ gate.gateType = "aig" THEN inserted ELSE @]

\* The switch, whose cases fall through.  It also writes to a second AND gate
\* when there is none, see insertGate.
Merged(circuit, line, stuckat) ==
  LET m == MergeANDGate
      set1(c) == [c EXCEPT ![m[1]].fanin1 = line, ![m[1]].invIn1 = stuckat]
      set2(c) == [c EXCEPT ![m[1]].fanin2 = line, ![m[1]].invIn2 = stuckat]
      set3(c) == IF Len(m) = 1 THEN c ELSE [c EXCEPT ![m[2]].fanin2 = line, ![m[2]].invIn2 = stuckat]
  IN CASE faultCount = 0 -> set3(set2(set1(circuit)))
       [] faultCount = 1 -> set3(set2(circuit))
       [] faultCount = 2 -> set3(circuit)

\* One pass of the inner loop.  A pair has no second AND gate to write to: the
\* program stops there, or overwrites memory that is not the circuit's.
insertGate ==
  /\ pc = "insert"
  /\ faults # {}
  /\ LET f == FirstFault
         inserted == Count
         merge == MergeANDGate[Len(MergeANDGate)]
         line == faninGate(f)
         readers == faninGateFanouts(f)
         rewired == [g \in DOMAIN theCircuit |->
                       IF g \in {readers[i] : i \in DOMAIN readers} THEN Rewired(theCircuit[g], line, inserted)
                       ELSE theCircuit[g]]
         withGate == rewired @@ (inserted :> insertedGate(merge, line, faultStuckat(f)))
     IN \/ /\ ~ HasLine(f) \/ Len(MergeANDGate) = 1
           /\ pc' = "crash"
           /\ UNCHANGED <<theCircuit, fanouts, faults>>
        \/ /\ HasLine(f)
           /\ theCircuit' = Merged(withGate, line, faultStuckat(f))
           /\ fanouts' = [g \in DOMAIN fanouts \cup {inserted} |->
                            CASE g = inserted -> readers
                              [] g = line     -> Kept(f) \o <<inserted, MergeANDGate[1]>>
                              [] g = merge    -> Append(fanouts[g], inserted)
                              [] OTHER        -> fanouts[g]]
           /\ faults' = faults \ {f}
           /\ UNCHANGED pc
  /\ UNCHANGED <<oriCircuit, MSAs, cur, MergeANDGate, SSAFsList>>

nextMSA ==
  /\ pc = "insert"
  /\ faults = {}
  /\ cur' = cur + 1 /\ pc' = "merge"
  /\ UNCHANGED <<oriCircuit, MSAs, theCircuit, fanouts, faults, MergeANDGate, SSAFsList>>

transformed ==
  /\ pc = "merge"
  /\ cur > Len(MSAs)
  /\ pc' = "transformed"
  /\ UNCHANGED <<oriCircuit, MSAs, theCircuit, fanouts, cur, faults, MergeANDGate, SSAFsList>>

\* The copy is thrown away and made again.
resetCircuit ==
  /\ pc = "transformed"
  /\ theCircuit' = oriCircuit /\ fanouts' = FanoutsOf(oriCircuit)
  /\ pc' = "reset"
  /\ UNCHANGED <<oriCircuit, MSAs, cur, faults, MergeANDGate, SSAFsList>>

Next == createMerge \/ insertGate \/ nextMSA \/ transformed \/ resetCircuit
Spec == Init /\ [][Next]_vars
-----------------------------------------------------------------------------
\* The lines a fault line can influence.
Downstream(f) ==
  {e \in allSSAFList(oriCircuit) :
     LET g == faultGate(e)
         source == CASE faultPort(e) = 1 -> oriCircuit[g].fanin1 [] faultPort(e) = 2 -> oriCircuit[g].fanin2 [] OTHER -> g
     IN IF faultPort(f) = 3 /\ g = faultGate(f) THEN FALSE
        ELSE source # NoGate /\ source \in FanoutCone(oriCircuit, faultGate(f)) /\
             (faultPort(e) < 3 \/ faultPort(f) = 3 \/ g \in FanoutCone(oriCircuit, faultGate(f)))}

AllFaults == UNION {MSAs[i] : i \in DOMAIN MSAs}
Independent == \A e \in AllFaults, f \in AllFaults : e \notin Downstream(f)
ReadsTwice(g) == oriCircuit[g].gateType = "aig" /\ oriCircuit[g].fanin1 = oriCircuit[g].fanin2
Lines == \A f \in AllFaults : ~ ReadsTwice(faultGate(f)) /\ ~ (faultGate(f) \in POs /\ faultPort(f) = 3)

CircuitFanins(g) == {theCircuit[g].fanin1, theCircuit[g].fanin2} \ {NoGate}
Reach(g) ==
  LET reach[n \in 0 .. Count] ==
        IF n = 0 THEN CircuitFanins(g)
        ELSE LET before == reach[n - 1] IN before \cup UNION {CircuitFanins(h) : h \in before}
  IN reach[Count]
Acyclic == \A g \in DOMAIN theCircuit : g \notin Reach(g)

\* The values of the copy under a pattern, with the output of some gate held at 1.
Values(pattern, held) ==
  LET value[g \in DOMAIN theCircuit] ==
        CASE g = held -> 1
          [] theCircuit[g].gateType = "PI" -> pattern[g]
          [] theCircuit[g].gateType = "constant" -> theCircuit[g].constant
          [] theCircuit[g].gateType = "aig" ->
               getOutValue(theCircuit[g], value[theCircuit[g].fanin1], value[theCircuit[g].fanin2])
          [] OTHER -> getOutValue(theCircuit[g], value[theCircuit[g].fanin1], 0)
  IN value

\* The copy computes what the circuit computes, and with the i-th single fault
\* what the circuit computes with the i-th multiple fault.
Exact ==
  /\ Acyclic
  /\ \A pattern \in [PIs -> Bit] :
       /\ \A p \in POs : Values(pattern, NoGate)[p] = RefValue(oriCircuit, {}, pattern)[p]
       /\ \A i \in DOMAIN MSAs : \A p \in POs :
            Values(pattern, faultGate(SSAFsList[i]))[p] = RefValue(oriCircuit, MSAs[i], pattern)[p]

\* Three lines stuck at 1, none behind another, are turned into one fault
\* exactly, although the cases of the switch fall through; so are two such
\* sets of one circuit, with lines in common or without.
StuckAt1TriplesExact ==
  pc = "transformed" /\ Independent /\ Lines
     /\ (\A i \in DOMAIN MSAs : Cardinality(MSAs[i]) = 3) /\ (\A f \in AllFaults : faultStuckat(f) = 1)
  => Exact

\* Where test() writes a Verilog file: before, after, and when the copy is reset.
FileWritten == (pc = "merge" /\ cur = 1) \/ pc \in {"transformed", "reset"}

\* The lists that do not end the way Verilog asks: every name but the last with
\* a comma behind it, the last one with the end of the list.
Closed(list, end) ==
  list # << >> /\ \A i \in DOMAIN list : list[i][2] = IF i < Len(list) THEN "," ELSE end
OpenLists(file) ==
  {l \in {"module", "input", "output", "wire"} : ~ Closed(file[l], IF l = "module" THEN "" ELSE ";")}

\* One list is always open: that of the ports when gates follow the outputs, as
\* they do after a transformation, and that of the wires when none does.  When
\* the last output is left out, the ports and the outputs are open as well.
OpenListsKnown(file) ==
  OpenLists(file) = (IF Count > Size THEN {"module"} ELSE {"wire"}) \cup
                    (IF Left(oriCircuit, Size - 1) THEN {"module", "output"} ELSE {})

\* The Verilog file, read by one who closes the open lists: the ports are the
\* inputs and the outputs, every wire that a cell reads is declared and every
\* declared wire has its cell, and with one of the single faults or with none
\* an output shows what the copy carries on the wire that the output read in
\* the circuit (and not what it reads in the copy).
VerilogExact ==
  FileWritten /\ Acyclic =>
    LET file == generateVerilogFile(theCircuit, oriCircuit)
        names(list) == {list[i][1] : i \in 1 .. Len(list)}
        inputs == names(file.input)
        declared == inputs \cup names(file.wire)
        singles == IF pc = "transformed" THEN {faultGate(SSAFsList[i]) : i \in DOMAIN SSAFsList} ELSE {}
    IN /\ OpenListsKnown(file)
       /\ names(file.module) = inputs \cup names(file.output)
       /\ names(file.wire) = DOMAIN file.cells
       /\ \A g \in DOMAIN file.cells : {file.cells[g].y, file.cells[g].z} \subseteq declared \cup {NoGate}
       /\ \A pattern \in [PIs -> Bit], held \in {NoGate} \cup singles :
            LET value[n \in declared] ==
                  IF n = held THEN 1 ELSE IF n \in inputs THEN pattern[n]
                  ELSE LET c == file.cells[n]
                       IN Cell(c.cell, IF c.y = NoGate THEN 0 ELSE value[c.y], IF c.z = NoGate THEN 0 ELSE value[c.z])
                computed == Values(pattern, held)
            IN \A p \in POs :
                 LET name == getName(oriCircuit, p)
                 IN /\ name \in names(file.output) \cup inputs
                    /\ value[name] = computed[oriCircuit[p].fanin1]

\* A fault written to the fault file is read back as a fault with the same
\* effect, except on the input of an inverter, which goes by its output.
FaultsNamedRight ==
  pc = "merge" =>
    \A f \in allSSAFList(oriCircuit) :
      LET g == faultGate(f)
          inverterInput == oriCircuit[g].gateType = "bufInv" /\ faultPort(f) = 1 /\ bufCase(oriCircuit[g]) = 10
      IN Written(oriCircuit, f) # NotWritten /\ ~ inverterInput =>
           \A pattern \in [PIs -> Bit], p \in POs :
             RefValue(oriCircuit, {Parsed(Written(oriCircuit, f))}, pattern)[p] = RefValue(oriCircuit, {f}, pattern)[p]

\* What is written for TetraMAX, the open ends of the lists apart, is what the
\* program means: the circuit and the faults.
FilesExact == VerilogExact /\ FaultsNamedRight
=============================================================================
