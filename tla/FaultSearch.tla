---------------------------- MODULE FaultSearch ----------------------------
(***************************************************************************)
(* The second and third phase of ATPGInit in inc/ATPG.h on real netlists:  *)
(* which double and triple faults the searches along propagation paths     *)
(* list as possibly undetected, what the compression leaves of them and    *)
(* which tests are added.  ATPG takes an arbitrary result of the searches  *)
(* for granted; here they are what the code computes.                      *)
(*                                                                         *)
(* Simulator and SAT solver enter through what they promise: the simulator *)
(* through the reference semantics of Netlist, the solver by a detecting   *)
(* pattern, any one, if there is one.                                      *)
(***************************************************************************)
EXTENDS Netlist, Sequences

(***************************************************************************)
(* The recursive walks of inc/ATPG.h that look for faults which may hide a *)
(* detected fault.  They run on the circuit as a simulation leaves it: the *)
(* gates carry their fault-free values (out) and a mark (diff) where the   *)
(* faulty value differed.  A walk only collects faults that are on the     *)
(* lists it is given (listed), so the order it takes does not matter and   *)
(* the result is a union over the gates, or the steps, it visits.          *)
(***************************************************************************)
\* What a simulation of faults under pattern leaves: propagatePI marks every
\* related gate it computes, but an input is assigned and a constant restored
\* before the pass that compares.
GoodValues(net, pattern) == RefValue(net, {}, pattern)

Marks(net, faults, pattern) ==
  LET good == RefValue(net, {}, pattern)
      bad == RefValue(net, faults, pattern)
  IN [g \in GateID |-> net[g].gateType \notin {"PI", "constant"} /\ good[g] # bad[g]]

(***************************************************************************)
(* Backwards: sameFaultCurToPIDFS and findBlockDSADFS_helper.              *)
(***************************************************************************)
Inverse(v) == 1 - v

FaninOf(net, g, port) == IF port = 1 THEN net[g].fanin1 ELSE net[g].fanin2
InvOf(net, g, port) == IF port = 1 THEN net[g].invIn1 ELSE net[g].invIn2

InValue(net, out, g, port) == out[FaninOf(net, g, port)]

\* Inverting this input alone inverts the gate's output.
Sensitive(net, out, g, port) ==
  LET in(p) == IF p = port THEN Inverse(InValue(net, out, g, p)) ELSE InValue(net, out, g, p)
  IN getOutValue(net[g], in(1), in(2)) = Inverse(out[g])

\* Broken variant: the walk goes on from both inputs of an AIG.
WalkedPorts_Both(net, out, g) ==
  CASE net[g].gateType = "aig"    -> {1, 2}
    [] net[g].gateType = "bufInv" -> {1}
    [] OTHER                      -> {}

\* The inputs the walk goes on from: of an AIG the sensitive ones, of a buffer
\* or inverter its only one.
WalkedPorts(net, out, g) ==
  CASE net[g].gateType = "aig"    -> {p \in {1, 2} : Sensitive(net, out, g, p)}
    [] net[g].gateType = "bufInv" -> {1}
    [] OTHER                      -> {}

\* The gates the walk from g visits.
WalkedGates(net, out, g) ==
  LET walked[h \in GateID] ==
        {h} \cup UNION {walked[FaninOf(net, h, p)] : p \in WalkedPorts(net, out, h)}
  IN walked[g]

Enabled(net, out, g, port) == InValue(net, out, g, port) = InvOf(net, g, port)

\* Case 2: both inputs carry the fault and cancel out; a stuck-at that holds
\* one of them at its flag lets the other through.
Counteracting(net, out, diff, g) ==
  /\ net[g].gateType = "aig"
  /\ diff[net[g].fanin1] /\ diff[net[g].fanin2]
  /\ Enabled(net, out, g, 1) # Enabled(net, out, g, 2)

\* The value that, stuck at this input, inverts the output.
StuckatToInvert(net, out, g, port) ==
  IF net[g].gateType = "bufInv"
  THEN IF Inverse(out[g]) = net[g].invOut THEN net[g].invIn1 ELSE Inverse(net[g].invIn1)
  ELSE Inverse(InValue(net, out, g, port))

FaultsIn(net, out, diff, g) ==
  {FaultID(g, p, StuckatToInvert(net, out, g, p)) : p \in WalkedPorts(net, out, g)} \cup
  IF Counteracting(net, out, diff, g)
  THEN {FaultID(g, p, InvOf(net, g, p)) : p \in {1, 2}} ELSE {}

\* sameFaultCurToPIDFS: listed faults that change the value of g.
sameFaultCurToPI(net, out, diff, listed, g) ==
  {f \in listed : \E h \in WalkedGates(net, out, g) : f \in FaultsIn(net, out, diff, h)}

Pairs(S, T) == {{f, g} : f \in S, g \in T}

\* Broken variant: the walk ends where it begins.
findBlockDSADFS_helper_NoWalk(net, out, diff, listed, g) ==
  LET release(p) == (listed \cap {FaultID(g, p, Inverse(InValue(net, out, g, p)))}) \cup
                    sameFaultCurToPI(net, out, diff, listed, FaninOf(net, g, p))
  IN IF net[g].gateType = "aig" /\ \A p \in {1, 2} : ~ Enabled(net, out, g, p)
     THEN Pairs(release(1), release(2)) ELSE {}

\* findBlockDSADFS_helper: at a gate held by both inputs, a fault that releases
\* one of them together with a fault that releases the other.
findBlockDSADFS_helper(net, out, diff, listed, g) ==
  LET held == {h \in WalkedGates(net, out, g) :
                 /\ net[h].gateType = "aig"
                 /\ \A p \in {1, 2} : ~ Enabled(net, out, h, p)}
      release(h, p) == (listed \cap {FaultID(h, p, Inverse(InValue(net, out, h, p)))}) \cup
                       sameFaultCurToPI(net, out, diff, listed, FaninOf(net, h, p))
  IN UNION {Pairs(release(h, 1), release(h, 2)) : h \in held}

(***************************************************************************)
(* Forwards: findBlockSSADFS and findBlockDSADFS follow the marks from the *)
(* faulty gate to the outputs.                                             *)
(***************************************************************************)
\* Gates from which marked gates lead to a primary output.
OnPath(net, diff) ==
  LET onPath[i \in GateID] ==
        LET g == Size - 1 - i
        IN \/ net[g].gateType = "PO"
           \/ \E h \in Fanouts(net, g) : diff[h] /\ onPath[Size - 1 - h]
  IN {g \in GateID : onPath[Size - 1 - g]}

NextOnPath(net, diff, g) == {h \in Fanouts(net, g) : diff[h] /\ h \in OnPath(net, diff)}

\* The gates of the fault's propagation paths, the outputs left out: pathGatesID.
PathGates(net, diff, start) ==
  LET reached[g \in GateID] ==
        \/ g = start
        \/ \E h \in Fanins(net, g) : reached[h] /\ g \in NextOnPath(net, diff, h)
  IN {g \in OnPath(net, diff) : reached[g] /\ net[g].gateType # "PO"}

\* The calls of the walk: the gate and the gate it is reached from.  At the
\* faulty gate that is fanin1 for a fault of port 1 and fanin2 for all others.
Steps(net, diff, faultID) ==
  LET start == faultGate(faultID)
      path == PathGates(net, diff, start)
  IN {<<g, FaninOf(net, g, IF faultPort(faultID) = 1 THEN 1 ELSE 2)>> : g \in path \cap {start}} \cup
     {s \in path \X path : s[1] \in NextOnPath(net, diff, s[2])}

PathPort(net, g, preGate) == IF net[g].fanin1 = preGate THEN 1 ELSE 2
SidePort(net, g, preGate) == 3 - PathPort(net, g, preGate)

\* The fault arrives at a closed input and the side input is open: a fault
\* that closes the side input stops it.
SideCanBlock(net, out, g, preGate) ==
  /\ net[g].gateType = "aig"
  /\ ~ Enabled(net, out, g, PathPort(net, g, preGate))
  /\ Enabled(net, out, g, SidePort(net, g, preGate))

\* What SSAFToFaultsBlockedInGate keeps for a gate: the faults behind its side
\* input, without the one on it.
BlockedBehindSide(net, out, diff, listed, g, preGate) ==
  IF SideCanBlock(net, out, g, preGate)
  THEN sameFaultCurToPI(net, out, diff, listed, FaninOf(net, g, SidePort(net, g, preGate)))
  ELSE {}

\* Broken variant: the search does not go on behind the side input.
BlocksAtStep_SideOnly(net, out, diff, listed, redundant, step) ==
  LET g == step[1]
      port == SidePort(net, g, step[2])
      onSide == IF SideCanBlock(net, out, g, step[2])
                THEN {FaultID(g, port, Inverse(InValue(net, out, g, port)))} ELSE {}
      onPath == {FaultID(g, p, v) : p \in {PathPort(net, g, step[2]), 3}, v \in Bit}
  IN (listed \cap onSide) \cup (redundant \cap onPath)

\* One step of findBlockSSADFS: the side input and what is behind it, and the
\* redundant faults on the path itself.
BlocksAtStep(net, out, diff, listed, redundant, step) ==
  LET g == step[1]
      port == SidePort(net, g, step[2])
      onSide == IF SideCanBlock(net, out, g, step[2])
                THEN {FaultID(g, port, Inverse(InValue(net, out, g, port)))} ELSE {}
      onPath == {FaultID(g, p, v) : p \in {PathPort(net, g, step[2]), 3}, v \in Bit}
  IN (listed \cap onSide) \cup (redundant \cap onPath) \cup
     BlockedBehindSide(net, out, diff, listed, g, step[2])

\* findBlockSSADFS
findBlockSSA(net, out, diff, listed, redundant, faultID) ==
  UNION {BlocksAtStep(net, out, diff, listed, redundant, s) : s \in Steps(net, diff, faultID)}

\* findBlockDSADFS: the pairs behind the side inputs of the path's AIGs.
findBlockDSA(net, out, diff, listed, faultID) ==
  LET behind(s) == IF net[s[1]].gateType # "aig" THEN {}
                   ELSE findBlockDSADFS_helper(net, out, diff, listed,
                          FaninOf(net, s[1], SidePort(net, s[1], s[2])))
  IN UNION {behind(s) : s \in Steps(net, diff, faultID)}

(***************************************************************************)
(* Two paths: findTwoFanouts looks for the gate where the branches of a    *)
(* fanout meet, and blockFaultInTwoPaths pairs faults that block one       *)
(* branch with faults that block the other.                                *)
(***************************************************************************)
twoFanoutGates(net) == {g \in GateID : fanoutSize(net, g) = 2}

Least(S) == CHOOSE x \in S : \A y \in S : x <= y

\* fanout[0] and fanout[1]: the vector is filled in the order of the readers.
Branch(net, g, b) ==
  LET readers == Fanouts(net, g)
  IN IF b = 1 THEN Least(readers) ELSE CHOOSE h \in readers : \A k \in readers : k <= h

\* checkInPath2: from one branch the gate is reached before an output is.
ReachedFrom(net, branch, g) == net[g].gateType # "PO" /\ branch \in FaninCone(net, g)

\* findTwoFanouts and checkInPath1: behind the first branch, depth first, the
\* first gate the second branch reaches; the first branch itself is not tried.
ReconvergentGate(net, g) ==
  LET first == Branch(net, g, 1)
      second == Branch(net, g, 2)
      met[i \in GateID] ==
        LET h == Size - 1 - i
            found == {k \in Fanouts(net, h) : met[Size - 1 - k] # NoGate}
        IN CASE net[h].gateType = "PO"                  -> NoGate
             [] h # first /\ ReachedFrom(net, second, h) -> h
             [] found # {}                              -> met[Size - 1 - Least(found)]
             [] OTHER                                   -> NoGate
  IN met[Size - 1 - first]

\* Gates a branch leads to before the paths meet again or end.
BranchGates(net, from, reconvergent) ==
  LET stops(g) == g = reconvergent \/ net[g].gateType = "PO"
      reached[g \in GateID] ==
        ~ stops(g) /\ (g = from \/ \E h \in Fanins(net, g) : reached[h])
  IN {g \in GateID : reached[g]}

\* blockedIn[g] are the faults recorded for gate g of the path.
blockFaultInTwoPaths(net, path, blockedIn) ==
  LET along(g, b) ==
        UNION {blockedIn[h] : h \in DOMAIN blockedIn \cap
                 BranchGates(net, Branch(net, g, b), ReconvergentGate(net, g))}
  IN UNION {Pairs(along(g, 1), along(g, 2)) : g \in path \cap twoFanoutGates(net)}

-----------------------------------------------------------------------------
(* The phases of ATPGInit. *)

CONSTANTS
  Netlists,          \* the circuits considered
  PatternLists(_)    \* of a circuit: the lists of patterns given for it

NetlistsAssumption ==
  \A net \in Netlists : WellFormed(net) /\ NoDangling(net)

VARIABLES
  netlist,               \* the circuit; never changes
  redundantSSAF,         \* what the first phase leaves; these three never change
  SSAFPatterns,
  SSAFToPatterns,
  pc,                    \* phase of ATPGInit
  todo,                  \* what the phase's loop has not reached
  potentiallyUndetected, \* fault to the faults that may block it
  SSAFToPathGates,       \* fault to the gates of its propagation paths
  SSAFToFaultsBlockedInGate, \* fault and gate to the faults that block there
  undetectedDSA, redundantDSAF, DSAFPatterns, DSAFToPatterns,
  SSAToblockDSA,         \* fault to the pairs that may block it
  DSAToblockSSA,         \* pair to the redundant faults that may block it
  undetectedTSA, redundantTSAFList, TSAFPatterns,
  current, outValue, different \* the faults simulated last, and what that left

simVars == <<current, outValue, different>>
ssaVars == <<netlist, redundantSSAF, SSAFPatterns, SSAFToPatterns>>
pathVars == <<potentiallyUndetected, SSAFToPathGates, SSAFToFaultsBlockedInGate>>
dsaVars == <<undetectedDSA, redundantDSAF, DSAFPatterns, DSAFToPatterns>>
blockVars == <<SSAToblockDSA, DSAToblockSSA>>
tsaVars == <<undetectedTSA, redundantTSAFList, TSAFPatterns>>
vars == <<simVars, ssaVars, pathVars, dsaVars, blockVars, tsaVars, pc, todo>>

Patterns == [PIs -> Bit]
DetectedBy(faults) == {p \in Patterns : RefDetects(netlist, faults, p)}
First(S) == {x \in S : \A y \in S : x <= y}

\* The order of set<set<int>>: its elements compared as sorted sequences.
Before(D, E) ==
  LET d == Least((D \ E) \cup (E \ D))
  IN IF d \in D THEN \E e \in E : e > d ELSE \A e \in D : e < d

FirstSet(S) == {D \in S : \A E \in S \ {D} : Before(D, E)}

EmptyMap == [k \in {} |-> {}]

\* checkallPatterns over at most one block: the first output that differs
\* under some pattern decides, then the first such pattern.
Differs(net, faults, po, pattern) == RefValue(net, faults, pattern)[po] # RefValue(net, {}, pattern)[po]

checkallPatterns(net, faults, list) ==
  LET at(po) == {i \in 1 .. Len(list) : Differs(net, faults, po, list[i])}
      differing == {po \in POs : at(po) # {}}
  IN IF differing = {} THEN 0 ELSE Least(at(Least(differing)))

\* What findPotentialUndetectedDSAF assumes of the initial patterns: they detect
\* every single fault that can be detected.
DetectsAllTestable(net, list) ==
  /\ list \in Seq(Patterns)
  /\ \A f \in allSSAFList(net), t \in Patterns :
       RefDetects(net, {f}, t) => checkallPatterns(net, {f}, list) # 0

PatternListsAssumption ==
  \A net \in Netlists : \A list \in PatternLists(net) : DetectsAllTestable(net, list)

Detected(faults, list) == checkallPatterns(netlist, faults, list) # 0

Inserted(map, key, value) ==
  [k \in DOMAIN map \cup {key} |-> IF k \in DOMAIN map THEN map[k] ELSE value]

AllPatterns == SSAFPatterns \o DSAFPatterns \o TSAFPatterns

\* The faults a search may return: those of the model and the redundant ones.
listed == collapsedSSAFList(netlist) \cup redundantSSAF

\* pairSSAPatternWithSSAF leaves such a list as it is.
Init ==
  /\ netlist \in Netlists
  /\ SSAFPatterns \in PatternLists(netlist)
  /\ redundantSSAF = {f \in allSSAFList(netlist) : checkallPatterns(netlist, {f}, SSAFPatterns) = 0}
  /\ SSAFToPatterns = [f \in allSSAFList(netlist) \ redundantSSAF |->
                         SSAFPatterns[checkallPatterns(netlist, {f}, SSAFPatterns)]]
  /\ pc = "searchDSA" /\ todo = DOMAIN SSAFToPatterns
  /\ current = {} /\ outValue = [g \in GateID |-> 0] /\ different = [g \in GateID |-> FALSE]
  /\ potentiallyUndetected = EmptyMap /\ SSAFToPathGates = EmptyMap /\ SSAFToFaultsBlockedInGate = EmptyMap
  /\ undetectedDSA = {} /\ redundantDSAF = {} /\ DSAFPatterns = << >> /\ DSAFToPatterns = EmptyMap
  /\ SSAToblockDSA = EmptyMap /\ DSAToblockSSA = EmptyMap
  /\ undetectedTSA = {} /\ redundantTSAFList = {} /\ TSAFPatterns = << >>

(***************************************************************************)
(* Double faults.                                                          *)
(***************************************************************************)
\* The two passes of findSSAFsBlocked and findSSAFsBlocked2 under the pattern
\* that goes with a fault.  Nothing outside the simulated circuit changes.
Simulate(faults, pattern, next) ==
  /\ current' = faults
  /\ outValue' = [g \in GateID |-> GoodValues(netlist, pattern)[g]]
  /\ different' = Marks(netlist, faults, pattern)
  /\ pc' = next
  /\ UNCHANGED <<ssaVars, pathVars, dsaVars, blockVars, tsaVars, todo>>

SimulateSSA(f) ==
  /\ pc = "searchDSA"
  /\ f \in First(todo)
  /\ Simulate({f}, SSAFToPatterns[f], "blockSSA")

\* map::insert of a fault's blocks, left out when there are none.
InsertedIfAny(map, key, blocks) == IF blocks = {} THEN map ELSE Inserted(map, key, blocks)

\* gateToFaultsBlock, what findBlockSSADFS records gate by gate.
gateToFaultsBlock(f) ==
  LET steps == Steps(netlist, different, f)
      from(g) == {s[2] : s \in {x \in steps : x[1] = g}}
  IN [g \in {s[1] : s \in steps} |->
        UNION {BlockedBehindSide(netlist, outValue, different, listed, g, h) : h \in from(g)}]

\* findPotentialUndetectedDSAF for one fault, once findSSAFsBlocked has simulated it.
findPotentialUndetectedDSAF(f) ==
  /\ pc = "blockSSA"
  /\ current = {f}
  /\ potentiallyUndetected' = InsertedIfAny(potentiallyUndetected, f,
                                findBlockSSA(netlist, outValue, different, listed, redundantSSAF, f))
  /\ SSAFToPathGates' = Inserted(SSAFToPathGates, f, PathGates(netlist, different, faultGate(f)))
  /\ SSAFToFaultsBlockedInGate' = Inserted(SSAFToFaultsBlockedInGate, f, gateToFaultsBlock(f))
  /\ todo' = todo \ {f}
  /\ pc' = "searchDSA"
  /\ UNCHANGED <<ssaVars, simVars, dsaVars, blockVars, tsaVars>>

\* Pairs of redundant faults that are left to the solver: DSARedundancy.
R == INSTANCE DSARedundancy WITH
       gateToRelatedGates <- [g \in GateID |-> RelatedGates(netlist, g)],
       deleteDSAs <- {}

RedundantPairs == {P \in Pairs(redundantSSAF, redundantSSAF) : Cardinality(P) = 2}
OnePathPairs == UNION {Pairs({f}, R!checkPath[faultGate(f)]) : f \in redundantSSAF}
KeptPairs == {P \in RedundantPairs \ OnePathPairs : \A f \in P, g \in P : R!MutuallyRelated(f, g)}

\* Faults that may block each other, or a fault and a redundant one that may
\* block it.
BlockedPairs ==
  LET blocks(g, f) == f \in DOMAIN potentiallyUndetected /\ g \in potentiallyUndetected[f]
  IN {P \in Pairs(DOMAIN potentiallyUndetected, listed) :
        \E f, g \in P : P = {f, g} /\ blocks(g, f) /\ (blocks(f, g) \/ g \in redundantSSAF)}

pairUndetectedDSAF ==
  /\ pc = "searchDSA"
  /\ todo = {}
  /\ undetectedDSA' = BlockedPairs \cup KeptPairs
  /\ redundantDSAF' = RedundantPairs \ KeptPairs
  /\ pc' = "compressDSA"
  /\ UNCHANGED <<simVars, ssaVars, pathVars, DSAFPatterns, DSAFToPatterns, blockVars, tsaVars, todo>>

\* compressUndetectedDSAF
compressUndetectedDSAF ==
  /\ pc = "compressDSA"
  /\ LET found == {D \in undetectedDSA : Detected(D, SSAFPatterns)}
     IN /\ undetectedDSA' = undetectedDSA \ found
        /\ DSAFToPatterns' = [D \in found |-> SSAFPatterns[checkallPatterns(netlist, D, SSAFPatterns)]]
        /\ todo' = undetectedDSA \ found
  /\ pc' = "testDSA"
  /\ UNCHANGED <<simVars, ssaVars, pathVars, redundantDSAF, DSAFPatterns, blockVars, tsaVars>>

\* One round of generateDSATest.
generateDSATest(D) ==
  /\ pc = "testDSA"
  /\ D \in FirstSet(todo)
  /\ todo' = todo \ {D}
  /\ \/ /\ Detected(D, DSAFPatterns)
        /\ UNCHANGED <<DSAFPatterns, DSAFToPatterns, redundantDSAF>>
     \/ /\ ~ Detected(D, DSAFPatterns)
        /\ \E testVector \in DetectedBy(D) :
             /\ DSAFPatterns' = Append(DSAFPatterns, testVector)
             /\ DSAFToPatterns' = Inserted(DSAFToPatterns, D, testVector)
        /\ UNCHANGED redundantDSAF
     \/ /\ DetectedBy(D) = {}
        /\ redundantDSAF' = redundantDSAF \cup {D}
        /\ UNCHANGED <<DSAFPatterns, DSAFToPatterns>>
  /\ UNCHANGED <<simVars, ssaVars, pathVars, undetectedDSA, blockVars, tsaVars, pc>>

generateDSATestDone ==
  /\ pc = "testDSA"
  /\ todo = {}
  /\ todo' = DOMAIN SSAFToPatterns
  /\ pc' = "searchTSA"
  /\ UNCHANGED <<simVars, ssaVars, pathVars, dsaVars, blockVars, tsaVars>>

(***************************************************************************)
(* Triple faults.                                                          *)
(***************************************************************************)
SimulateSSAAgain(f) ==
  /\ pc = "searchTSA"
  /\ f \in First(todo)
  /\ Simulate({f}, SSAFToPatterns[f], "blockDSA")

\* findSSABlockedByDSAInOnePath and findSSABlockedbyDSAInTwoPaths for one
\* fault, merged as pairPotentialUndetectedTSAF merges the two maps.
findSSABlockedByDSA(f) ==
  /\ pc = "blockDSA"
  /\ current = {f}
  /\ SSAToblockDSA' = Inserted(SSAToblockDSA, f,
        findBlockDSA(netlist, outValue, different, listed, f) \cup
        blockFaultInTwoPaths(netlist, SSAFToPathGates[f], SSAFToFaultsBlockedInGate[f]))
  /\ todo' = todo \ {f}
  /\ pc' = "searchTSA"
  /\ UNCHANGED <<simVars, ssaVars, pathVars, dsaVars, DSAToblockSSA, tsaVars>>

findSSABlockedByDSADone ==
  /\ pc = "searchTSA"
  /\ todo = {}
  /\ todo' = DOMAIN DSAFToPatterns
  /\ pc' = "searchDSAToSSA"
  /\ UNCHANGED <<simVars, ssaVars, pathVars, dsaVars, blockVars, tsaVars>>

SimulateDSA(D) ==
  /\ pc = "searchDSAToSSA"
  /\ D \in FirstSet(todo)
  /\ Simulate(D, DSAFToPatterns[D], "blockSSAOfDSA")

\* findDSABlockedbySSA for one pair: the redundant faults that may block it.
findDSABlockedbySSA(D) ==
  /\ pc = "blockSSAOfDSA"
  /\ current = D
  /\ LET blocks == UNION {findBlockSSA(netlist, outValue, different, listed, redundantSSAF, f) : f \in D}
     IN DSAToblockSSA' = Inserted(DSAToblockSSA, D, (blocks \cap redundantSSAF) \ D)
  /\ todo' = todo \ {D}
  /\ pc' = "searchDSAToSSA"
  /\ UNCHANGED <<simVars, ssaVars, pathVars, dsaVars, SSAToblockDSA, tsaVars>>

\* f1 -> f2, f3 is confirmed by f2 -> f1, f3 and f3 -> f1, f2, where a redundant
\* fault needs no confirmation.  A blocking pair that is one fault leaves
\* fault3 at 0, which is no fault.
Confirmed(f, D) ==
  /\ Cardinality(D) = 2
  /\ \A g \in D : \/ g \in redundantSSAF
                  \/ g \in DOMAIN SSAToblockDSA /\ {f} \cup (D \ {g}) \in SSAToblockDSA[g]

BlockedTriples ==
  LET blockedBack(f, D) == D \in DOMAIN DSAToblockSSA /\ f \in DSAToblockSSA[D]
  IN (UNION {{{f} \cup D : D \in {E \in SSAToblockDSA[f] : blockedBack(f, E) \/ Confirmed(f, E)}} :
             f \in DOMAIN SSAToblockDSA}) \cup
     (UNION {{{f} \cup D : f \in DSAToblockSSA[D]} : D \in DOMAIN DSAToblockSSA})

\* Broken variant: the compression tries the additional patterns only.
pairUndetectedTSAF_GivenNotTried ==
  /\ pc = "searchDSAToSSA"
  /\ todo = {}
  /\ undetectedTSA' = {T \in BlockedTriples : ~ Detected(T, DSAFPatterns \o TSAFPatterns)}
  /\ todo' = undetectedTSA'
  /\ pc' = "testTSA"
  /\ UNCHANGED <<simVars, ssaVars, pathVars, dsaVars, blockVars, redundantTSAFList, TSAFPatterns>>

\* pairPotentialUndetectedTSAF and compressundetectedTSA.
pairUndetectedTSAF ==
  /\ pc = "searchDSAToSSA"
  /\ todo = {}
  /\ undetectedTSA' = {T \in BlockedTriples : ~ Detected(T, AllPatterns)}
  /\ todo' = undetectedTSA'
  /\ pc' = "testTSA"
  /\ UNCHANGED <<simVars, ssaVars, pathVars, dsaVars, blockVars, redundantTSAFList, TSAFPatterns>>

\* One round of generateTSATest.
generateTSATest(T) ==
  /\ pc = "testTSA"
  /\ T \in FirstSet(todo)
  /\ todo' = todo \ {T}
  /\ \/ /\ Detected(T, TSAFPatterns)
        /\ UNCHANGED <<TSAFPatterns, redundantTSAFList>>
     \/ /\ ~ Detected(T, TSAFPatterns)
        /\ \E testVector \in DetectedBy(T) : TSAFPatterns' = Append(TSAFPatterns, testVector)
        /\ UNCHANGED redundantTSAFList
     \/ /\ DetectedBy(T) = {}
        /\ redundantTSAFList' = redundantTSAFList \cup {T}
        /\ UNCHANGED TSAFPatterns
  /\ UNCHANGED <<simVars, ssaVars, pathVars, dsaVars, blockVars, undetectedTSA, pc>>

generateTSATestDone ==
  /\ pc = "testTSA"
  /\ todo = {}
  /\ pc' = "done"
  /\ UNCHANGED <<simVars, ssaVars, pathVars, dsaVars, blockVars, tsaVars, todo>>

Next ==
  \/ \E f \in todo : \/ SimulateSSA(f) \/ findPotentialUndetectedDSAF(f)
                     \/ SimulateSSAAgain(f) \/ findSSABlockedByDSA(f)
  \/ \E D \in todo : \/ generateDSATest(D) \/ SimulateDSA(D)
                     \/ findDSABlockedbySSA(D) \/ generateTSATest(D)
  \/ pairUndetectedDSAF \/ compressUndetectedDSAF \/ generateDSATestDone
  \/ findSSABlockedByDSADone \/ pairUndetectedTSAF \/ generateTSATestDone

Spec == Init /\ [][Next]_vars
-----------------------------------------------------------------------------
Testable(faults) == DetectedBy(faults) # {}

\* The search misses no double fault of the model: after the second phase every
\* testable pair of testable faults of the collapsed list is detected, by the
\* given patterns or by the additional ones.  A pair neither member's test
\* detects must have been found behind the side inputs of both their paths.
TestableDSACovered ==
  pc = "done" =>
    \A P \in Pairs(collapsedSSAFList(netlist), collapsedSSAFList(netlist)) :
      (\A f \in P : Testable({f})) /\ Testable(P) => Detected(P, SSAFPatterns \o DSAFPatterns)

\* generateDSATest reads two elements of every fault it gets.  The search may
\* list a single fault, as a pair of a fault with itself; the compression takes
\* all of them away.
OnlyPairsTested == pc = "testDSA" => \A D \in todo : Cardinality(D) = 2

\* The second phase gets pairs, and leaves none that is testable without a test.
PairsSettled == OnlyPairsTested /\ TestableDSACovered

\* Every triple fault that is listed and not compressed away ends with a test
\* or redundant, and triples of fewer than three faults never need a test.
TriplesSettled ==
  pc = "done" =>
    \A T \in undetectedTSA : /\ (Detected(T, TSAFPatterns) \/ (T \in redundantTSAFList /\ ~ Testable(T)))
                             /\ Cardinality(T) = 3

\* On a circuit without fanout the searches are exact.
FanoutFree == \A g \in GateID : fanoutSize(netlist, g) <= 1

\* The faults that are not on the line of f.  All faults of the collapsed list
\* are at inputs, so none of them is further down the path of f.
OtherLines(f) == {g \in listed : <<faultGate(g), faultPort(g)>> # <<faultGate(f), faultPort(f)>>}

HiddenBy(f, faults) == ~ RefDetects(netlist, faults \cup {f}, SSAFToPatterns[f])

\* A fault on another line hides f from its test exactly when the search lists it.
SingleMasksExact ==
  FanoutFree /\ pc = "compressDSA" =>
    \A f \in DOMAIN SSAFToPatterns \cap listed :
      {g \in OtherLines(f) : HiddenBy(f, {g})} =
      IF f \in DOMAIN potentiallyUndetected THEN potentiallyUndetected[f] ELSE {}

\* Two faults of the collapsed list on other lines that hide f only together are
\* listed as a pair.  Redundant faults at the outputs of constants may hide f
\* together too, but the search looks at the inputs of gates only.
DoubleMasksFound ==
  FanoutFree /\ pc = "searchDSAToSSA" =>
    \A f \in DOMAIN SSAFToPatterns \cap listed :
      LET others == OtherLines(f) \cap collapsedSSAFList(netlist)
      IN \A D \in Pairs(others, others) :
           HiddenBy(f, D) /\ (\A g \in D : ~ HiddenBy(f, {g})) => D \in SSAToblockDSA[f]
=============================================================================
