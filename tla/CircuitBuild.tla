---------------------------- MODULE CircuitBuild ----------------------------
(***************************************************************************)
(* The constructor of inc/Circuit.h: reading a BLIF file line by line,     *)
(* connecting the gates by the names of their wires, levels, cones, and    *)
(* the reconvergent gates of double fanouts.  Other modules take a Netlist *)
(* for granted; here it comes about, or does not.                          *)
(*                                                                         *)
(* A line is a record: what it begins with (key), whether it ends in a     *)
(* backslash (cont), the wires it names, and of a .names line the gate     *)
(* that it and the line behind it describe.  A wire is a number.  Files    *)
(* with a cycle that no input reaches and that reaches no output are left  *)
(* out (the search for reconvergent gates may not end on them).            *)
(***************************************************************************)
EXTENDS Netlist, Sequences

CONSTANT Files   \* the files considered: sequences of lines

(***************************************************************************)
(* What a line lists does not show in the line alone: a list goes on behind *)
(* a backslash, whatever the next line begins with.                        *)
(***************************************************************************)
InputsGoOn(f, i) == \E j \in 1 .. i : f[j].key = "inputs" /\ \A k \in j .. i : f[k].cont
ListsInputs(f, i) == f[i].key = "inputs" \/ InputsGoOn(f, i - 1)

OutputsGoOn(f, i) ==
  \E j \in 1 .. i : /\ f[j].key = "outputs" /\ ~ ListsInputs(f, j)
                    /\ \A k \in j .. i : ListsInputs(f, k) \/ f[k].cont
ListsOutputs(f, i) == ~ ListsInputs(f, i) /\ (f[i].key = "outputs" \/ OutputsGoOn(f, i - 1))

DescribesGate(f, i) == ~ ListsInputs(f, i) /\ ~ ListsOutputs(f, i) /\ f[i].key = "names"

\* The lines of each kind up to the n-th, and the wires that lines name.
InputLines(f, n) == {i \in 1 .. n : ListsInputs(f, i)}
OutputLines(f, n) == {i \in 1 .. n : ListsOutputs(f, i)}
NamesLines(f, n) == {i \in 1 .. n : DescribesGate(f, i)}
WiresOf(f, lines) == UNION {{i} \X (1 .. Len(f[i].wires)) : i \in lines}

FileLine == [key : STRING, cont : BOOLEAN, wires : Seq(Int), gate : Gate]

\* The inputs are named before the gates; PISize, gateSize and POSize are the
\* numbers that the constructor counts.
FileOK(f) ==
  /\ f \in Seq(FileLine) /\ Len(f) > 0
  /\ \A i \in 1 .. Len(f) :
       /\ f[i].gate.fanin1 = NoGate /\ f[i].gate.fanin2 = NoGate
       /\ f[i].gate.gateType = "constant" => f[i].gate.invIn1 = 1 /\ f[i].gate.invOut = 1
       /\ DescribesGate(f, i) => Len(f[i].wires) = 3
       /\ \A j \in 1 .. i : DescribesGate(f, j) => ~ ListsInputs(f, i)
  /\ Cardinality(WiresOf(f, InputLines(f, Len(f)))) = PISize
  /\ Cardinality(NamesLines(f, Len(f))) = gateSize
  /\ Cardinality(WiresOf(f, OutputLines(f, Len(f)))) = POSize

\* What is assumed of the constants where this module is put to use.
FilesAssumption == PISize > 0 /\ \A f \in Files : FileOK(f)

VARIABLES
  file,              \* never changes
  pc,
  line,              \* lines read
  stillIn, stillOut, \* the line is continued
  POTemp,            \* output wires, inserted at last
  theCircuit,        \* gates, position p at p + 1
  MapNumWire,        \* wire to the gate that put it in first
  fanouts,           \* position to the positions its fanout pointers lead to
  cur,               \* gates connected
  levelToGate, reverseLevelToGate, \* level to gates
  gateToRelatedGates,
  twoFanoutGateToReconvGate

readVars == <<line, stillIn, stillOut, POTemp, MapNumWire>>
levelVars == <<levelToGate, reverseLevelToGate>>
pairVars == <<gateToRelatedGates, twoFanoutGateToReconvGate>>
vars == <<file, pc, readVars, theCircuit, fanouts, cur, levelVars, pairVars>>

EmptyMap == [k \in {} |-> {}]

Init ==
  /\ file \in Files
  /\ pc = "read" /\ line = 0
  /\ stillIn = FALSE /\ stillOut = FALSE
  /\ POTemp = << >> /\ theCircuit = << >> /\ MapNumWire = EmptyMap
  /\ fanouts = EmptyMap /\ cur = 0
  /\ levelToGate = EmptyMap /\ reverseLevelToGate = EmptyMap
  /\ gateToRelatedGates = EmptyMap /\ twoFanoutGateToReconvGate = EmptyMap

(***************************************************************************)
(* blifParser.                                                             *)
(***************************************************************************)
Named(gate, in1, in2, out) == [gate |-> gate, in1Name |-> in1, in2Name |-> in2, outName |-> out]
NoWire == -1

PINamed(wire) == Named(PIGate, wire, NoWire, wire)
PONamed(wire) == Named(POGate(NoGate), wire, NoWire, wire)

\* Broken variant: a later gate takes the wire over.
Numbered_Last(map, gates) ==
  [wire \in DOMAIN map \cup {gates[i].outName : i \in 1 .. Len(gates)} |->
     IF \E i \in 1 .. Len(gates) : gates[i].outName = wire
     THEN Len(theCircuit) - 1 + CHOOSE i \in 1 .. Len(gates) :
            gates[i].outName = wire /\ \A j \in i + 1 .. Len(gates) : gates[j].outName # wire
     ELSE map[wire]]

\* addGate and MapNumWire.insert for some gates: the first gate keeps the wire.
Numbered(map, gates) ==
  [wire \in DOMAIN map \cup {gates[i].outName : i \in 1 .. Len(gates)} |->
     IF wire \in DOMAIN map THEN map[wire]
     ELSE Len(theCircuit) - 1 + CHOOSE i \in 1 .. Len(gates) :
            gates[i].outName = wire /\ \A j \in 1 .. i - 1 : gates[j].outName # wire]

Added(gates) ==
  /\ theCircuit' = theCircuit \o gates
  /\ MapNumWire' = Numbered(MapNumWire, gates)

Read == line' = line + 1 /\ UNCHANGED <<file, fanouts, cur, levelVars, pairVars>>

readInputs(l) ==
  /\ l.key = "inputs" \/ stillIn
  /\ stillIn' = l.cont
  /\ Added([i \in 1 .. Len(l.wires) |-> PINamed(l.wires[i])])
  /\ UNCHANGED <<pc, stillOut, POTemp>>

readOutputs(l) ==
  /\ ~ (l.key = "inputs" \/ stillIn)
  /\ l.key = "outputs" \/ stillOut
  /\ stillOut' = l.cont
  /\ POTemp' = POTemp \o l.wires
  /\ UNCHANGED <<pc, stillIn, theCircuit, MapNumWire>>

\* A .names line with the line behind it, or an error, on which the program exits.
readNames(l) ==
  /\ ~ (l.key \in {"inputs", "outputs"} \/ stillIn \/ stillOut)
  /\ l.key = "names"
  /\ IF l.gate.gateType \in {"aig", "bufInv", "constant"}
     THEN Added(<<Named(l.gate, l.wires[1], l.wires[2], l.wires[3])>>) /\ UNCHANGED pc
     ELSE pc' = "exit" /\ UNCHANGED <<theCircuit, MapNumWire>>
  /\ UNCHANGED <<stillIn, stillOut, POTemp>>

readOther(l) ==
  /\ ~ (l.key \in {"inputs", "outputs", "names"} \/ stillIn \/ stillOut)
  /\ UNCHANGED <<pc, stillIn, stillOut, POTemp, theCircuit, MapNumWire>>

readLine ==
  /\ pc = "read"
  /\ line < Len(file)
  /\ LET l == file[line + 1]
     IN Read /\ (readInputs(l) \/ readOutputs(l) \/ readNames(l) \/ readOther(l))

insertOutputs ==
  /\ pc = "read"
  /\ line = Len(file)
  /\ Added([i \in 1 .. Len(POTemp) |-> PONamed(POTemp[i])])
  /\ fanouts' = [g \in 0 .. Len(theCircuit') - 1 |-> << >>]
  /\ pc' = "connect"
  /\ UNCHANGED <<file, line, stillIn, stillOut, POTemp, cur, levelVars, pairVars>>

(***************************************************************************)
(* connectGates, one gate at a time.  A wire nobody put in ends it with    *)
(* the circuit half connected.                                             *)
(***************************************************************************)
GateAt(g) == theCircuit[g + 1].gate
WiresRead(g) ==
  CASE GateAt(g).gateType \in {"PI", "constant"} -> << >>
    [] GateAt(g).gateType = "aig" -> <<theCircuit[g + 1].in1Name, theCircuit[g + 1].in2Name>>
    [] OTHER -> <<theCircuit[g + 1].in1Name>>

\* The pins of a gate that find their wire, up to the first that does not.
Found(g) == {i \in 1 .. Len(WiresRead(g)) : \A j \in 1 .. i : WiresRead(g)[j] \in DOMAIN MapNumWire}
Source(g, i) == IF i \in Found(g) THEN MapNumWire[WiresRead(g)[i]] ELSE NoGate

\* Broken variant: one fanout pointer for a gate that reads h twice.
Pushed_Once(h, g) == IF \E i \in Found(g) : Source(g, i) = h THEN <<g>> ELSE << >>

\* What gate g pushes to the fanouts of gate h: itself, once per pin.
Pushed(h, g) == [i \in 1 .. Cardinality({j \in Found(g) : Source(g, j) = h}) |-> g]

connectGate ==
  /\ pc = "connect"
  /\ cur < Len(theCircuit)
  /\ theCircuit' = [theCircuit EXCEPT ![cur + 1].gate.fanin1 = Source(cur, 1), ![cur + 1].gate.fanin2 = Source(cur, 2)]
  /\ fanouts' = [h \in DOMAIN fanouts |-> fanouts[h] \o Pushed(h, cur)]
  /\ pc' = IF Cardinality(Found(cur)) < Len(WiresRead(cur)) THEN "unconnected" ELSE "connect"
  /\ cur' = cur + 1
  /\ UNCHANGED <<file, readVars, levelVars, pairVars>>

(***************************************************************************)
(* Levels: depth first from the outputs to the inputs and from the inputs  *)
(* to the outputs.  On a cycle the recursion does not end.                 *)
(***************************************************************************)
Positions == 0 .. Len(theCircuit) - 1
FaninsAt(g) == {GateAt(g).fanin1, GateAt(g).fanin2} \ {NoGate}
FanoutsAt(g) == {fanouts[g][i] : i \in 1 .. Len(fanouts[g])}
OfType(types) == {g \in Positions : GateAt(g).gateType \in types}

Visited(S, Neighbours(_)) ==
  LET visited[n \in 0 .. Len(theCircuit)] ==
        IF n = 0 THEN S ELSE visited[n - 1] \cup UNION {Neighbours(g) : g \in visited[n - 1]}
  IN visited[Len(theCircuit)]

Cyclic(S, Neighbours(_)) == \E g \in Visited(S, Neighbours) : g \in Visited(Neighbours(g), Neighbours)

Deepest(S) == IF S = {} THEN 0 ELSE 1 + CHOOSE d \in S : \A e \in S : e <= d

\* Broken variant: an AIG is placed one level above its first input.
level_FirstInput ==
  LET level[g \in Positions] ==
        IF GateAt(g).fanin1 = NoGate THEN 0 ELSE 1 + level[GateAt(g).fanin1]
  IN level

\* assignLevelToGate
level ==
  LET depth[g \in Positions] == Deepest({depth[f] : f \in FaninsAt(g)})
  IN depth

\* assignReverseLevelToGate
reverseLevel ==
  LET height[g \in Positions] ==
        IF GateAt(g).gateType = "PO" THEN 0 ELSE Deepest({height[h] : h \in FanoutsAt(g)})
  IN height

ByLevel(S, levels) == [n \in {levels[g] : g \in S} |-> {g \in S : levels[g] = n}]

sortGateByLevel ==
  /\ pc = "connect"
  /\ cur = Len(theCircuit)
  /\ IF Cyclic(OfType({"PO"}), FaninsAt) \/ Cyclic(OfType({"PI"}), FanoutsAt)
     THEN pc' = "overflow" /\ UNCHANGED levelVars
     ELSE /\ levelToGate' = ByLevel(Visited(OfType({"PO"}), FaninsAt), level)
          /\ reverseLevelToGate' = ByLevel(Visited(OfType({"PI"}), FanoutsAt), reverseLevel)
          /\ pc' = "fanins"
  /\ UNCHANGED <<file, readVars, theCircuit, fanouts, cur, pairVars>>

(***************************************************************************)
(* Cones.  Each round of the loops takes the lowest level that is left.    *)
(***************************************************************************)
Lowest(map) == CHOOSE n \in DOMAIN map : \A m \in DOMAIN map : n <= m
Without(map, n) == [m \in DOMAIN map \ {n} |-> map[m]]

Related(g) == IF g \in DOMAIN gateToRelatedGates THEN gateToRelatedGates[g] ELSE {}

findInFanins ==
  /\ pc = "fanins"
  /\ IF levelToGate = EmptyMap THEN pc' = "paths" /\ UNCHANGED <<gateToRelatedGates, levelToGate>>
     ELSE LET n == Lowest(levelToGate)
              faninCons(g) == {g} \cup UNION {Related(f) : f \in FaninsAt(g)}
          IN /\ gateToRelatedGates' = [g \in DOMAIN gateToRelatedGates \cup levelToGate[n] |->
                                         IF g \in levelToGate[n] THEN faninCons(g) ELSE gateToRelatedGates[g]]
             /\ levelToGate' = Without(levelToGate, n)
             /\ UNCHANGED pc
  /\ UNCHANGED <<file, readVars, theCircuit, fanouts, cur, reverseLevelToGate, twoFanoutGateToReconvGate>>

\* Gates without an entry have an empty vector: the loop over the words of gate
\* 0 ends at once if it is one of them, and otherwise reads or writes a word
\* that does not exist.
MergesNothing == 0 \notin DOMAIN gateToRelatedGates
MergesMissing(g) ==
  GateAt(g).gateType # "PO" /\ FanoutsAt(g) # {} /\ ~ ({g} \cup FanoutsAt(g) \subseteq DOMAIN gateToRelatedGates)

findInPropagationPath ==
  /\ pc = "paths"
  /\ IF reverseLevelToGate = EmptyMap
     THEN pc' = "twoFanouts" /\ UNCHANGED <<gateToRelatedGates, reverseLevelToGate>>
     ELSE LET n == Lowest(reverseLevelToGate)
              here == {g \in reverseLevelToGate[n] : GateAt(g).gateType # "PO"}
          IN IF ~ MergesNothing /\ \E g \in here : MergesMissing(g)
             THEN pc' = "crash" /\ UNCHANGED <<gateToRelatedGates, reverseLevelToGate>>
             ELSE /\ gateToRelatedGates' =
                       [g \in DOMAIN gateToRelatedGates |->
                          gateToRelatedGates[g] \cup
                          IF g \in here /\ ~ MergesNothing THEN UNION {Related(h) : h \in FanoutsAt(g)} ELSE {}]
                  /\ reverseLevelToGate' = Without(reverseLevelToGate, n)
                  /\ UNCHANGED pc
  /\ UNCHANGED <<file, readVars, theCircuit, fanouts, cur, levelToGate, twoFanoutGateToReconvGate>>

(***************************************************************************)
(* findTwoFanouts: depth first behind the first fanout, the first gate     *)
(* that is reached from the second one.                                    *)
(***************************************************************************)
\* Broken variant: asks what reaches g.
Reaches_Fanins(g, h) == h \in Visited({g}, FaninsAt)

\* checkInPath2
Reaches(g, h) == GateAt(h).gateType # "PO" /\ h \in Visited({g}, FanoutsAt)

\* What the calls for the gates of a list return first.
FirstMet(met, list) ==
  LET hits == {i \in 1 .. Len(list) : met[list[i]] # NoGate}
  IN IF hits = {} THEN NoGate ELSE met[list[CHOOSE i \in hits : \A j \in hits : i <= j]]

Reconvergent(g) ==
  LET second == fanouts[g][2]
      \* checkInPath1
      met[h \in Positions] ==
        IF GateAt(h).gateType = "PO" THEN NoGate
        ELSE IF Reaches(second, h) THEN h ELSE FirstMet(met, fanouts[h])
  IN FirstMet(met, fanouts[fanouts[g][1]])

findTwoFanouts ==
  /\ pc = "twoFanouts"
  /\ twoFanoutGateToReconvGate' = [g \in {h \in Positions : Len(fanouts[h]) = 2} |-> Reconvergent(g)]
  /\ pc' = "done"
  /\ UNCHANGED <<file, readVars, theCircuit, fanouts, cur, levelVars, gateToRelatedGates>>

Next ==
  \/ readLine \/ insertOutputs \/ connectGate \/ sortGateByLevel
  \/ findInFanins \/ findInPropagationPath \/ findTwoFanouts

Spec == Init /\ [][Next]_vars /\ WF_vars(Next)
-----------------------------------------------------------------------------
\* The fanout pointers are the fanin pointers reversed, as often as a gate
\* reads another, also where connecting ends half way.
FanoutsMirrorFanins ==
  pc \notin {"read", "exit"} =>
    \A g \in Positions, h \in Positions :
      Cardinality({i \in 1 .. Len(fanouts[g]) : fanouts[g][i] = h}) =
      Cardinality({p \in {1, 2} : g = IF p = 1 THEN GateAt(h).fanin1 ELSE GateAt(h).fanin2})

Net == [g \in GateID |-> GateAt(g)]

NamesRead(g) ==
  CASE GateAt(g).gateType \in {"PI", "constant"} -> {}
    [] GateAt(g).gateType = "aig" -> {theCircuit[g + 1].in1Name, theCircuit[g + 1].in2Name}
    [] OTHER -> {theCircuit[g + 1].in1Name}
Drives(h, wire) == theCircuit[h + 1].outName = wire /\ GateAt(h).gateType # "PO"
Driven(g) == {h \in Positions : \E wire \in NamesRead(g) : Drives(h, wire)}

\* Every wire a gate reads is driven by a gate before it.
Sorted == \A g \in Positions : \A wire \in NamesRead(g) : \E h \in 0 .. g - 1 : Drives(h, wire)

\* A sorted file gives the circuit that the other modules start from.
SortedFileWellFormed == pc = "done" /\ Sorted => WellFormed(Net)

\* connectGates: pointers agree with each other and with the file.
ConnectionsExact == FanoutsMirrorFanins /\ SortedFileWellFormed

ReachesOutput(g) == FanoutCone(Net, g) \cap POs # {}

\* The entries are the cones that the simulators and the solver count on, and
\* there is one for every gate that reaches an output.  Gate 0 must be one.
ConesExact ==
  pc = "done" /\ ReachesOutput(0) =>
    gateToRelatedGates = [g \in {h \in GateID : ReachesOutput(h)} |-> RelatedGates(Net, g)]

Branches(g) == <<fanouts[g][1], fanouts[g][2]>>
Both(g) == {h \in GateID \ POs : \A b \in {1, 2} : h \in FanoutCone(Net, Branches(g)[b])}

\* The gate found lies on both branches; none is found only where the branches
\* do not meet, or meet in the first gate of the first branch.
ReconvergenceSound ==
  pc = "done" =>
    \A g \in DOMAIN twoFanoutGateToReconvGate :
      LET r == twoFanoutGateToReconvGate[g]
      IN IF r # NoGate THEN r \in Both(g) ELSE Both(g) \subseteq {Branches(g)[1]}

\* A file that is sorted, drives each wire once and every output, and leaves no
\* gate without a path to an output is read to the end: no such circuit is
\* refused, sends the recursions astray or crashes.
GoodFile ==
  /\ Sorted
  /\ \A g \in Positions, h \in Positions : Drives(g, theCircuit[h + 1].outName) /\ GateAt(h).gateType # "PO" => g = h
  /\ Visited(OfType({"PO"}), Driven) = Positions
GoodFileIsRead == (pc = "connect" /\ cur = 0 /\ GoodFile) ~> (pc = "done")
=============================================================================
