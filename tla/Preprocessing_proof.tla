------------------------ MODULE Preprocessing_proof ------------------------
(***************************************************************************)
(* For every circuit: the pairs the walk of checkPath collects are exactly *)
(* those on one path, and of the other pairs none that a pattern detects   *)
(* is declared redundant.  The second rests on where effects meet: if      *)
(* neither gate is among the related gates of the other, no output has     *)
(* both of them in its cone, so that every output shows what one fault     *)
(* alone would, and each of them alone shows nothing.                      *)
(*                                                                         *)
(* For every file: the pointers that the constructor sets agree with each  *)
(* other and with the file.  The invariant follows the reading of lists    *)
(* over several lines, as it decides how many gates there are, and where   *)
(* each wire was put in first.                                             *)
(*                                                                         *)
(* For every file that gives a well-formed circuit: findInFanins and       *)
(* findInPropagationPath find the cones, each of them a fixed point that   *)
(* the searches reach level by level; the reconvergent gates are those     *)
(* where the branches meet; no function before that goes round for ever or *)
(* reads what is not there; and the pairs are then settled on this very    *)
(* circuit.                                                                *)
(*                                                                         *)
(* For every circuit without fanout: the searches for faults that hide a   *)
(* tested fault record exactly the single faults that do so, and every     *)
(* pair of faults that does so only together.  From that it follows that   *)
(* no testable pair of testable faults is left without a test, and that    *)
(* every triple that is left has three faults.                             *)
(***************************************************************************)
EXTENDS MCPreprocessing, MCFaultSearch, Netlist_proof, FiniteSetTheorems

Cones == gateToRelatedGates = [g \in GateID |-> RelatedGates(netlist, g)]

\* What is kept for the SAT solver.
Kept(P) == P \notin deleteDSAs /\ \A f, g \in P : f # g => MutuallyRelated(f, g)

Collected(F) ==
  UNION {{{f, g} : g \in {h \in redundantSSAF : OnPathFrom(faultGate(f), h) /\ ~ TwinInput(h)}} : f \in F}

\* The first loop: what the faults walked from so far have collected.
WalksExact ==
  /\ pc = "delete" => deleteDSAs = Collected(redundantSSAF \ todo)
  /\ pc # "delete" => deleteDSAs = Collected(redundantSSAF)

\* The second loop: the pairs of the faults reached so far are settled, each
\* as it should be.
PairsSorted ==
  /\ pc = "delete" => undetectedDSA = {} /\ redundantDSAF = {}
  /\ \A P \in undetectedDSA : Kept(P)
  /\ \A P \in redundantDSAF : ~ Kept(P)
  /\ pc # "delete" => \A f \in redundantSSAF \ todo, g \in redundantSSAF :
                        f # g => {f, g} \in undetectedDSA \cup redundantDSAF

\* The circuit is whatever it was, from Netlists or from the constructor.
IInv ==
  /\ WellFormed(netlist)
  /\ Cones
  /\ redundantSSAF = Redundant(netlist)
  /\ pc \in {"delete", "pair", "done"}
  /\ todo \subseteq redundantSSAF
  /\ pc = "done" => todo = {}
  /\ WalksExact
  /\ PairsSorted
-----------------------------------------------------------------------------
(***************************************************************************)
(* The walk.                                                               *)
(***************************************************************************)
\* Redundant faults are faults of the list, their numbers made of gate, port
\* and value.
LEMMA RedundantFaults ==
  ASSUME redundantSSAF = Redundant(netlist)
  PROVE  /\ redundantSSAF \subseteq allSSAFList(netlist) /\ redundantSSAF \subseteq FaultNumber
         /\ \A f \in redundantSSAF :
              /\ faultGate(f) \in GateID /\ faultPort(f) \in {1, 2, 3}
              /\ faultPort(f) = 2 => netlist[faultGate(f)].gateType = "aig"
<1>1. redundantSSAF \subseteq allSSAFList(netlist)
  BY DEF Redundant
<1>2. redundantSSAF \subseteq FaultNumber
  BY <1>1, ListedFaults
<1> QED
  BY <1>1, <1>2, FaultNumberMade, InputTwoOfAigs

\* The redundant faults of a line.
LEMMA FaultsAtLine ==
  ASSUME redundantSSAF \subseteq FaultNumber, NEW g \in GateID, NEW p \in {1, 2, 3}
  PROVE  FaultsAt(g, p) = {f \in redundantSSAF : faultGate(f) = g /\ faultPort(f) = p}
<1>1. \A v \in Bit : faultGate(FaultID(g, p, v)) = g /\ faultPort(FaultID(g, p, v)) = p
  BY FaultDecoded
<1>2. ASSUME NEW f \in redundantSSAF, faultGate(f) = g, faultPort(f) = p
      PROVE  f \in {FaultID(g, p, v) : v \in Bit}
  BY <1>2, FaultNumberMade DEF FaultID, Bit
<1> QED
  BY <1>1, <1>2 DEF FaultsAt

\* What checkPath collects from a gate, given what it collects from the others.
Walk(below, g) ==
  IF netlist[g].gateType = "PO" THEN {}
  ELSE FaultsAt(g, 3) \cup
       UNION {FaultsAt(h, PortFrom(g, h)) \cup below[h] :
              h \in {x \in Fanouts(netlist, g) : netlist[x].gateType # "PO"}}

\* The walk ends: it is what its recursion equation says.
LEMMA WalkEquation ==
  ASSUME WellFormed(netlist)
  PROVE  \A g \in GateID : checkPath[g] = Walk(checkPath, g)
<1> DEFINE V == SUBSET redundantSSAF
           Mirror(g) == Size - 1 - g
           through(v, g, h) == FaultsAt(h, PortFrom(g, h)) \cup v[Mirror(h)]
           Out(v, i) ==
             LET g == Mirror(i)
             IN IF netlist[g].gateType = "PO" THEN {}
                ELSE FaultsAt(g, 3) \cup
                     UNION {through(v, g, h) : h \in {x \in Fanouts(netlist, g) : netlist[x].gateType # "PO"}}
           Step == [x \in [GateID -> V] \X GateID |-> Out(x[1], x[2])]
           P(v) == [i \in GateID |-> Out(v, i)]
           below == CHOOSE v : v = P(v)
<1>1. \A g \in GateID : Mirror(g) \in GateID /\ Mirror(Mirror(g)) = g
  BY SizeNat DEF GateID
<1>2. ASSUME NEW i \in GateID, NEW h \in Fanouts(netlist, Mirror(i))
      PROVE  h \in GateID /\ Mirror(h) \in GateID /\ Mirror(h) < i
  <2>1. h \in GateID /\ Mirror(i) < h
    BY <1>1, FaninsPrecede DEF Fanouts
  <2> QED
    BY <2>1, SizeNat DEF GateID
<1>3. checkPath = [g \in GateID |-> below[Mirror(g)]]
  BY DEF checkPath
<1> HIDE DEF Mirror
<1>4. ASSUME NEW v \in [GateID -> V], NEW i \in GateID
      PROVE  Out(v, i) \in V
  <2>1. \A h \in Fanouts(netlist, Mirror(i)) : v[Mirror(h)] \in V
    BY <1>2
  <2>2. \A h, p : FaultsAt(h, p) \in V
    BY DEF FaultsAt
  <2> QED
    BY <2>1, <2>2
<1>5. ASSUME NEW v \in [GateID -> V], NEW w \in [GateID -> V], NEW i \in GateID,
             \A j \in GateID : j < i => v[j] = w[j]
      PROVE  Out(v, i) = Out(w, i)
  <2>1. \A h \in Fanouts(netlist, Mirror(i)) : through(v, Mirror(i), h) = through(w, Mirror(i), h)
    BY <1>2, <1>5
  <2> HIDE DEF through
  <2>2. \A S \in SUBSET Fanouts(netlist, Mirror(i)) :
          {through(v, Mirror(i), h) : h \in S} = {through(w, Mirror(i), h) : h \in S}
    BY <2>1
  <2> QED
    BY <2>2
<1> HIDE DEF Out
<1>6. \A v \in [GateID -> V], i \in GateID : Step[<<v, i>>] = Out(v, i)
  OBVIOUS
<1>7. Step \in [[GateID -> V] \X GateID -> V]
  <2>1. \A x \in [GateID -> V] \X GateID : x[1] \in [GateID -> V] /\ x[2] \in GateID
    OBVIOUS
  <2> HIDE DEF V
  <2> QED
    BY <1>4, <2>1
<1> HIDE DEF Step
<1>8. OrderedStep(V, Step)
  <2>1. V # {}
    OBVIOUS
  <2> HIDE DEF V
  <2>2. ASSUME NEW v \in [GateID -> V], NEW w \in [GateID -> V], NEW i \in GateID,
               \A j \in GateID : j < i => v[j] = w[j]
        PROVE  Step[<<v, i>>] = Step[<<w, i>>]
    BY <1>5, <1>6, <2>2
  <2> QED
    BY <1>7, <2>1, <2>2 DEF OrderedStep
<1> HIDE DEF V
<1>9. PICK v \in Solutions(V, Step) : TRUE
  BY <1>8, RecursionExists
<1>10. v = P(v)
  BY <1>6, <1>9 DEF Solutions
<1>11. below = P(below)
  <2> HIDE DEF P
  <2> QED
    BY <1>10
<1> HIDE DEF below
<1>12. ASSUME NEW g \in GateID
       PROVE  checkPath[g] = Walk(checkPath, g)
  <2>1. checkPath[g] = Out(below, Mirror(g))
    BY <1>1, <1>3, <1>11
  <2>2. \A h \in Fanouts(netlist, g) : checkPath[h] = below[Mirror(h)]
    BY <1>3 DEF Fanouts
  <2>3. Mirror(Mirror(g)) = g
    BY <1>1
  <2>4. \A h \in Fanouts(netlist, g) : through(below, g, h) = FaultsAt(h, PortFrom(g, h)) \cup checkPath[h]
    BY <2>2
  <2> HIDE DEF through
  <2>5. \A S \in SUBSET Fanouts(netlist, g) :
          {through(below, g, h) : h \in S} = {FaultsAt(h, PortFrom(g, h)) \cup checkPath[h] : h \in S}
    BY <2>4
  <2>6. Out(below, Mirror(g)) = Walk(checkPath, g)
    BY <2>3, <2>5 DEF Out, Walk
  <2> QED
    BY <2>1, <2>6
<1> QED
  BY <1>12

\* A fault the walk from gate g collects.
OnWalk(g, x) == OnPathFrom(g, x) /\ ~ TwinInput(x)

\* What lies on a path from a gate lies at the gate, behind it, or on a path
\* from one of its fanouts that is no primary output.
LEMMA PathFront ==
  ASSUME WellFormed(netlist), NEW g \in GateID, g \notin POs, NEW x,
         faultGate(x) \in GateID, faultPort(x) \in {1, 2, 3},
         faultPort(x) = 2 => netlist[faultGate(x)].gateType = "aig"
  PROVE  OnWalk(g, x) <=>
           \/ faultGate(x) = g /\ faultPort(x) = 3
           \/ \E h \in Fanouts(netlist, g) \ POs :
                \/ faultGate(x) = h /\ faultPort(x) = PortFrom(g, h)
                \/ OnWalk(h, x)
<1> DEFINE k == faultGate(x)
           p == faultPort(x)
           Cone(h) == FanoutCone(netlist, h)
           Outs == Fanouts(netlist, g)
           f1 == netlist[k].fanin1
           f2 == netlist[k].fanin2
           isPO == netlist[k].gateType = "PO"
           Read == IF p = 1 THEN f1 ELSE IF p = 2 THEN f2 ELSE k
<1>1. /\ Cone(g) = {g} \cup UNION {Cone(h) : h \in Outs}
      /\ \A h \in Outs : h \in GateID /\ (h \in POs => Cone(h) = {h})
  BY FanoutConeFront DEF Fanouts
<1>2. isPO <=> k \in POs
  BY DEF WellFormed
<1>3. netlist[k] \in Gate /\ (netlist[k].gateType \in {"PI", "constant"} => f1 = NoGate)
  BY DEF WellFormed
<1>4. \A h : OnPathFrom(h, x) <=> ~ isPO /\ Read \in Cone(h)
  BY DEF OnPathFrom
<1>5. TwinInput(x) <=> p = 2 /\ f1 = f2
  BY DEF TwinInput
<1>6. \A f \in Fanins(netlist, k) : f \notin POs
  BY FaninsPrecede
<1>7. \A h \in GateID : Cone(h) \subseteq GateID
  BY DEF FanoutCone
<1>8. NoGate \notin GateID
  BY SizeNat DEF NoGate
<1>9. ~ isPO /\ f1 \in GateID => f1 \in Fanins(netlist, k)
  BY <1>3, <1>8 DEF Fanins, Gate, Type
<1>10. p = 2 => f1 \in Fanins(netlist, k) /\ f2 \in Fanins(netlist, k)
  BY DEF Fanins
<1>11. ~ isPO /\ Read \in GateID => Read \notin POs
  BY <1>2, <1>6, <1>9, <1>10
<1>12. \A h : h \in Outs /\ h = k => f1 = h \/ PortFrom(g, h) = IF f1 = g THEN 1 ELSE 2
  BY DEF PortFrom
<1>13. k \in Outs => f1 = g \/ (f2 = g /\ netlist[k].gateType = "aig")
  BY DEF Fanouts, Fanins
<1>14. PortFrom(g, k) = IF f1 = g THEN 1 ELSE 2
  BY DEF PortFrom
<1>15. g \in Fanins(netlist, k) => k \in Outs
  BY DEF Fanouts
<1> HIDE DEF Cone, Outs, f1, f2, isPO
<1>16. ASSUME OnWalk(g, x)
       PROVE  \/ k = g /\ p = 3
              \/ \E h \in Outs \ POs : (k = h /\ p = PortFrom(g, h)) \/ OnWalk(h, x)
  <2>1. ~ isPO /\ Read \in Cone(g) /\ ~ TwinInput(x)
    BY <1>4, <1>16 DEF OnWalk
  <2>2. CASE Read = g
    <3>1. p = 3 => k = g
      BY <2>2
    <3>2. p \in {1, 2} => k \in Outs \ POs /\ p = PortFrom(g, k)
      BY <1>2, <1>5, <1>9, <1>10, <1>14, <1>15, <2>1, <2>2
    <3> QED
      BY <3>1, <3>2
  <2>3. CASE Read # g
    <3>1. PICK h \in Outs : Read \in Cone(h)
      BY <1>1, <2>1, <2>3
    <3>2. h \notin POs
      BY <1>1, <1>7, <1>11, <2>1, <3>1
    <3> QED
      BY <1>4, <2>1, <3>1, <3>2 DEF OnWalk
  <2> QED
    BY <2>2, <2>3
<1>17. ASSUME k = g, p = 3
       PROVE  OnWalk(g, x)
  BY <1>1, <1>2, <1>4, <1>5, <1>17 DEF OnWalk
<1>18. ASSUME NEW h \in Outs \ POs, k = h, p = PortFrom(g, h)
       PROVE  OnWalk(g, x)
  <2>1. ~ isPO /\ Read = g
    BY <1>2, <1>13, <1>14, <1>18
  <2>2. ~ TwinInput(x)
    BY <1>5, <1>14, <1>18, <2>1
  <2> QED
    BY <1>1, <1>4, <2>1, <2>2 DEF OnWalk
<1>19. ASSUME NEW h \in Outs, OnWalk(h, x)
       PROVE  OnWalk(g, x)
  BY <1>1, <1>4, <1>19 DEF OnWalk
<1> QED
  BY <1>16, <1>17, <1>18, <1>19 DEF Outs

\* From a primary output there is no path.
LEMMA NoPathFromOutput ==
  ASSUME WellFormed(netlist), NEW g \in POs, g \in GateID, NEW x,
         faultGate(x) \in GateID, faultPort(x) \in {1, 2, 3},
         faultPort(x) = 2 => netlist[faultGate(x)].gateType = "aig"
  PROVE  ~ OnPathFrom(g, x)
<1> DEFINE k == faultGate(x)
<1> SUFFICES ASSUME OnPathFrom(g, x) PROVE FALSE
  OBVIOUS
<1>1. FanoutCone(netlist, g) = {g}
  BY FanoutConeFront
<1>2. k \notin POs /\ netlist[k].gateType # "PO"
  BY DEF OnPathFrom, WellFormed
<1>3. netlist[k] \in Gate /\ (netlist[k].gateType \in {"PI", "constant"} => netlist[k].fanin1 = NoGate)
  BY DEF WellFormed
<1>4. NoGate # g
  BY SizeNat DEF NoGate
<1>5. \A f \in Fanins(netlist, k) : f \notin POs
  BY FaninsPrecede
<1>6. CASE faultPort(x) = 1
  <2>1. netlist[k].fanin1 = g
    BY <1>1, <1>6 DEF OnPathFrom
  <2>2. g \in Fanins(netlist, k)
    BY <1>2, <1>3, <1>4, <2>1 DEF Fanins, Gate, Type
  <2> QED
    BY <1>5, <2>2
<1>7. CASE faultPort(x) = 2
  <2>1. g \in Fanins(netlist, k)
    BY <1>1, <1>7 DEF OnPathFrom, Fanins
  <2> QED
    BY <1>5, <2>1
<1>8. CASE faultPort(x) = 3
  BY <1>1, <1>2, <1>8 DEF OnPathFrom
<1> QED
  BY <1>6, <1>7, <1>8

\* The walk from a gate collects the redundant faults on the paths from it.
LEMMA WalkExact ==
  ASSUME WellFormed(netlist), redundantSSAF = Redundant(netlist)
  PROVE  \A g \in GateID : checkPath[g] = {x \in redundantSSAF : OnWalk(g, x)}
<1> DEFINE R(g) == {x \in redundantSSAF : OnWalk(g, x)}
           Mirror(g) == Size - 1 - g
           Exact == {i \in GateID : checkPath[Mirror(i)] = R(Mirror(i))}
<1>1. \A g \in GateID : Mirror(g) \in GateID /\ Mirror(Mirror(g)) = g
  BY SizeNat DEF GateID
<1>2. \A g, h \in GateID : g < h => Mirror(h) < Mirror(g)
  BY SizeNat DEF GateID
<1>3. \A g \in GateID : checkPath[g] = Walk(checkPath, g)
  BY WalkEquation
<1>4. /\ redundantSSAF \subseteq FaultNumber
      /\ \A x \in redundantSSAF :
           /\ faultGate(x) \in GateID /\ faultPort(x) \in {1, 2, 3}
           /\ faultPort(x) = 2 => netlist[faultGate(x)].gateType = "aig"
  BY RedundantFaults
<1>5. \A g \in GateID : g \in POs <=> netlist[g].gateType = "PO"
  BY DEF WellFormed
<1> HIDE DEF Mirror
<1>6. ASSUME NEW i \in GateID, \A j \in GateID : j < i => j \in Exact
      PROVE  i \in Exact
  <2> DEFINE g == Mirror(i)
  <2>1. g \in GateID
    BY <1>1
  <2>2. \A h \in Fanouts(netlist, g) : h \in GateID /\ checkPath[h] = R(h)
    <3> SUFFICES ASSUME NEW h \in Fanouts(netlist, g) PROVE h \in GateID /\ checkPath[h] = R(h)
      OBVIOUS
    <3>1. h \in GateID /\ g < h
      BY FaninsPrecede DEF Fanouts
    <3>2. Mirror(h) \in GateID /\ Mirror(h) < i /\ Mirror(Mirror(h)) = h
      BY <1>1, <1>2, <2>1, <3>1
    <3> QED
      BY <1>6, <3>1, <3>2
  <2> HIDE DEF g
  <2>3. CASE g \in POs
    <3>1. checkPath[g] = {}
      BY <1>3, <1>5, <2>1, <2>3 DEF Walk
    <3>2. R(g) = {}
      BY <1>4, <2>1, <2>3, NoPathFromOutput DEF OnWalk
    <3> QED
      BY <3>1, <3>2 DEF g
  <2>4. CASE g \notin POs
    <3>1. checkPath[g] =
            FaultsAt(g, 3) \cup
            UNION {FaultsAt(h, PortFrom(g, h)) \cup R(h) : h \in Fanouts(netlist, g) \ POs}
      <4>1. {x \in Fanouts(netlist, g) : netlist[x].gateType # "PO"} = Fanouts(netlist, g) \ POs
        BY <1>5 DEF Fanouts
      <4>2. checkPath[g] =
              FaultsAt(g, 3) \cup
              UNION {FaultsAt(h, PortFrom(g, h)) \cup checkPath[h] : h \in Fanouts(netlist, g) \ POs}
        BY <1>3, <1>5, <2>1, <2>4, <4>1 DEF Walk
      <4> HIDE DEF R
      <4> QED
        BY <2>2, <4>2
    <3>2. /\ FaultsAt(g, 3) = {x \in redundantSSAF : faultGate(x) = g /\ faultPort(x) = 3}
          /\ \A h \in Fanouts(netlist, g) :
               FaultsAt(h, PortFrom(g, h)) =
                 {x \in redundantSSAF : faultGate(x) = h /\ faultPort(x) = PortFrom(g, h)}
      <4>1. \A h : PortFrom(g, h) \in {1, 2, 3}
        BY DEF PortFrom
      <4> QED
        BY <1>4, <2>1, <4>1, FaultsAtLine DEF Fanouts
    <3>3. \A x \in redundantSSAF :
            OnWalk(g, x) <=>
              \/ faultGate(x) = g /\ faultPort(x) = 3
              \/ \E h \in Fanouts(netlist, g) \ POs :
                   \/ faultGate(x) = h /\ faultPort(x) = PortFrom(g, h)
                   \/ OnWalk(h, x)
      BY <1>4, <2>1, <2>4, PathFront
    <3>4. checkPath[g] \subseteq redundantSSAF
      BY <3>1, <3>2
    <3>5. \A x \in redundantSSAF : x \in checkPath[g] <=> OnWalk(g, x)
      BY <3>1, <3>2, <3>3
    <3> QED
      BY <3>4, <3>5 DEF g
  <2> QED
    BY <2>3, <2>4
<1> HIDE DEF Exact
<1>7. \A i \in GateID : i \in Exact
  BY <1>6, GateInduction
<1> QED
  BY <1>1, <1>7 DEF Exact

(***************************************************************************)
(* Where effects meet.                                                     *)
(***************************************************************************)
\* Two faults on gates that are not both related to each other: every gate's
\* cone holds at most one of the two.
LEMMA UnrelatedConesApart ==
  ASSUME WellFormed(netlist), NEW a \in GateID, NEW b \in GateID,
         ReachedFromPI(netlist, a), ReachedFromPI(netlist, b),
         ~ (b \in RelatedGates(netlist, a) /\ a \in RelatedGates(netlist, b))
  PROVE  \A x \in GateID : a \notin FaninCone(netlist, x) \/ b \notin FaninCone(netlist, x)
BY DEF RelatedGates, FanoutCone

\* A pattern that detects two faults on such gates detects one of them.
LEMMA UnrelatedPairs ==
  ASSUME WellFormed(netlist), NEW f, NEW g,
         faultGate(f) \in GateID, faultGate(g) \in GateID,
         InputsReach({f, g}),
         ~ (/\ faultGate(g) \in RelatedGates(netlist, faultGate(f))
            /\ faultGate(f) \in RelatedGates(netlist, faultGate(g))),
         Detectable(netlist, {f, g})
  PROVE  Detectable(netlist, {f}) \/ Detectable(netlist, {g})
<1>1. PICK pattern \in Patterns : RefDetects(netlist, {f, g}, pattern)
  BY DEF Detectable
<1>2. PICK p \in POs : RefValue(netlist, {f, g}, pattern)[p] # RefValue(netlist, {}, pattern)[p]
  BY <1>1 DEF RefDetects
<1>3. p \in GateID
  BY SizeAssumption DEF POs, GateID, Size
<1>4. pattern \in [PIs -> Bit]
  BY DEF Patterns
<1>5. faultGate(f) \notin FaninCone(netlist, p) \/ faultGate(g) \notin FaninCone(netlist, p)
  BY <1>3, UnrelatedConesApart DEF InputsReach
<1>6. CASE faultGate(f) \notin FaninCone(netlist, p)
  <2>1. SameInCone(netlist, {f, g}, {g}, p)
    BY <1>6 DEF SameInCone
  <2>2. RefValue(netlist, {f, g}, pattern)[p] = RefValue(netlist, {g}, pattern)[p]
    BY <1>3, <1>4, <2>1, SameFaultsSameValue
  <2> QED
    BY <1>2, <2>2 DEF Detectable, RefDetects
<1>7. CASE faultGate(g) \notin FaninCone(netlist, p)
  <2>1. SameInCone(netlist, {f, g}, {f}, p)
    BY <1>7 DEF SameInCone
  <2>2. RefValue(netlist, {f, g}, pattern)[p] = RefValue(netlist, {f}, pattern)[p]
    BY <1>3, <1>4, <2>1, SameFaultsSameValue
  <2> QED
    BY <1>2, <2>2 DEF Detectable, RefDetects
<1> QED
  BY <1>5, <1>6, <1>7
-----------------------------------------------------------------------------
(***************************************************************************)
(* The invariant.                                                          *)
(***************************************************************************)
LEMMA Initially == Init => IInv
<1> SUFFICES ASSUME Init PROVE IInv
  OBVIOUS
<1>1. Collected({}) = {}
  BY DEF Collected
<1>2. redundantSSAF \ todo = {}
  BY DEF Init
<1>3. WalksExact
  BY <1>1, <1>2 DEF Init, WalksExact
<1>4. PairsSorted
  BY <1>2 DEF Init, PairsSorted
<1> QED
  BY <1>3, <1>4, NetlistsAssumption DEF Init, IInv, Cones

\* One round of deleteDSARedundantPairs takes out the pairs of one fault with the
\* faults on its path.
LEMMA DeletePairsKeeps ==
  ASSUME IInv, DeletePairs
  PROVE  IInv'
<1>1. PICK f \in First(todo) :
        /\ deleteDSAs' = deleteDSAs \cup {{f, another} : another \in checkPath[faultGate(f)]}
        /\ todo' = todo \ {f}
  BY DEF DeletePairs
<1>2. /\ pc = "delete" /\ UNCHANGED <<netlist, gateToRelatedGates, redundantSSAF, pc, undetectedDSA, redundantDSAF>>
      /\ f \in redundantSSAF /\ f \in todo
  BY DEF DeletePairs, First, IInv
<1>3. WellFormed(netlist)
  BY DEF IInv
<1>4. faultGate(f) \in GateID
  BY <1>2, RedundantFaults DEF IInv
<1>5. checkPath[faultGate(f)] = {h \in redundantSSAF : OnPathFrom(faultGate(f), h) /\ ~ TwinInput(h)}
  BY <1>3, <1>4, WalkExact DEF IInv, OnWalk
<1>6. redundantSSAF \ todo' = (redundantSSAF \ todo) \cup {f}
  BY <1>1, <1>2
<1>7. deleteDSAs' = Collected(redundantSSAF \ todo')
  <2>1. deleteDSAs = Collected(redundantSSAF \ todo)
    BY <1>2 DEF IInv, WalksExact
  <2> QED
    BY <1>1, <1>5, <1>6, <2>1 DEF Collected
<1>8. Collected(redundantSSAF \ todo)' = Collected(redundantSSAF \ todo')
  BY <1>2 DEF Collected, OnPathFrom, TwinInput
<1>9. WalksExact'
  BY <1>2, <1>7, <1>8 DEF WalksExact
<1>10. PairsSorted'
  BY <1>2 DEF IInv, PairsSorted
<1> QED
  BY <1>1, <1>2, <1>9, <1>10 DEF IInv, Cones

\* When no fault is left, the pairs taken out are those on one path.
LEMMA DeletePairsDoneKeeps ==
  ASSUME IInv, DeletePairsDone
  PROVE  IInv'
<1>1. /\ pc = "delete" /\ todo = {} /\ pc' = "pair" /\ todo' = redundantSSAF
      /\ UNCHANGED <<netlist, gateToRelatedGates, redundantSSAF, deleteDSAs, undetectedDSA, redundantDSAF>>
  BY DEF DeletePairsDone
<1>2. WalksExact'
  <2>1. deleteDSAs = Collected(redundantSSAF)
    <3>1. redundantSSAF \ todo = redundantSSAF
      BY <1>1
    <3> QED
      BY <1>1, <3>1 DEF IInv, WalksExact
  <2>2. Collected(redundantSSAF)' = Collected(redundantSSAF)
    BY <1>1 DEF Collected, OnPathFrom, TwinInput
  <2> QED
    BY <1>1, <2>1, <2>2 DEF WalksExact
<1>3. PairsSorted'
  BY <1>1 DEF IInv, PairsSorted
<1> QED
  BY <1>1, <1>2, <1>3 DEF IInv, Cones

\* One round of the pairing joins a fault with every later one: a pair that is
\* declared redundant is on one path, or no output sees both of its faults.
LEMMA PairRedundantKeeps ==
  ASSUME IInv, PairRedundant
  PROVE  IInv'
<1> DEFINE later(f) == todo \ {f}
           kept(f) == {g \in later(f) : MutuallyRelated(f, g) /\ {f, g} \notin deleteDSAs}
<1>1. PICK f \in First(todo) :
        /\ undetectedDSA' = undetectedDSA \cup {{f, g} : g \in kept(f)}
        /\ redundantDSAF' = redundantDSAF \cup {{f, g} : g \in later(f) \ kept(f)}
        /\ todo' = later(f)
  BY DEF PairRedundant
<1>2. /\ pc = "pair" /\ UNCHANGED <<netlist, gateToRelatedGates, redundantSSAF, pc, deleteDSAs>>
      /\ f \in redundantSSAF /\ f \in todo /\ todo \subseteq redundantSSAF
  BY DEF PairRedundant, First, IInv
<1>3. \A g \in later(f) : g \in kept(f) <=> Kept({f, g})
  BY DEF Kept, MutuallyRelated
<1>4. \A P : Kept(P)' <=> Kept(P)
  BY <1>2 DEF Kept, MutuallyRelated
<1>5. /\ \A P \in undetectedDSA : Kept(P)
      /\ \A P \in redundantDSAF : ~ Kept(P)
      /\ \A x \in redundantSSAF \ todo, y \in redundantSSAF :
           x # y => {x, y} \in undetectedDSA \cup redundantDSAF
  BY <1>2 DEF IInv, PairsSorted
<1> HIDE DEF kept
<1>6. /\ \A P \in undetectedDSA' : Kept(P)
      /\ \A P \in redundantDSAF' : ~ Kept(P)
  <2> HIDE DEF later
  <2>1. ASSUME NEW P \in undetectedDSA'
        PROVE  Kept(P)
    <3>1. P \in undetectedDSA \/ \E g \in kept(f) : P = {f, g}
      BY <1>1, <2>1
    <3>2. \A g \in kept(f) : g \in later(f)
      BY DEF kept
    <3> QED
      BY <1>3, <1>5, <3>1, <3>2
  <2>2. ASSUME NEW P \in redundantDSAF'
        PROVE  ~ Kept(P)
    <3>1. P \in redundantDSAF \/ \E g \in later(f) \ kept(f) : P = {f, g}
      BY <1>1, <2>2
    <3> QED
      BY <1>3, <1>5, <3>1
  <2> QED
    BY <2>1, <2>2
<1>7. \A x \in redundantSSAF \ todo', y \in redundantSSAF :
        x # y => {x, y} \in undetectedDSA' \cup redundantDSAF'
  <2> SUFFICES ASSUME NEW x \in redundantSSAF \ todo', NEW y \in redundantSSAF, x # y
               PROVE  {x, y} \in undetectedDSA' \cup redundantDSAF'
    OBVIOUS
  <2>1. CASE x # f
    BY <1>1, <1>5, <2>1
  <2>2. CASE x = f /\ y \in todo
    BY <1>1, <2>2
  <2>3. CASE x = f /\ y \notin todo
    <3>1. {y, x} \in undetectedDSA \cup redundantDSAF
      BY <1>5, <2>3
    <3>2. {y, x} = {x, y}
      OBVIOUS
    <3> QED
      BY <1>1, <3>1, <3>2
  <2> QED
    BY <2>1, <2>2, <2>3
<1>8. PairsSorted'
  <2>1. \A P \in undetectedDSA' : Kept(P)'
    BY <1>4, <1>6
  <2>2. \A P \in redundantDSAF' : ~ Kept(P)'
    BY <1>4, <1>6
  <2> QED
    BY <1>2, <1>7, <2>1, <2>2 DEF PairsSorted
<1>9. WalksExact'
  <2>1. Collected(redundantSSAF)' = Collected(redundantSSAF)
    BY <1>2 DEF Collected, OnPathFrom, TwinInput
  <2> QED
    BY <1>2, <2>1 DEF IInv, WalksExact
<1> QED
  BY <1>1, <1>2, <1>8, <1>9 DEF IInv, Cones

\* After the last round the lists stay as they are.
LEMMA PairRedundantDoneKeeps ==
  ASSUME IInv, PairRedundantDone \/ UNCHANGED vars
  PROVE  IInv'
<1>1. /\ UNCHANGED <<netlist, gateToRelatedGates, redundantSSAF, todo, deleteDSAs, undetectedDSA, redundantDSAF>>
      /\ \/ pc = "pair" /\ todo = {} /\ pc' = "done"
         \/ pc' = pc
  BY DEF PairRedundantDone, vars
<1>2. \A P : Kept(P)' <=> Kept(P)
  BY <1>1 DEF Kept, MutuallyRelated
<1>3. PairsSorted'
  <2>1. \A P \in undetectedDSA' : Kept(P)'
    BY <1>1, <1>2 DEF IInv, PairsSorted
  <2>2. \A P \in redundantDSAF' : ~ Kept(P)'
    BY <1>1, <1>2 DEF IInv, PairsSorted
  <2> QED
    BY <1>1, <2>1, <2>2 DEF IInv, PairsSorted
<1>4. WalksExact'
  <2>1. Collected(redundantSSAF)' = Collected(redundantSSAF)
        /\ Collected(redundantSSAF \ todo)' = Collected(redundantSSAF \ todo)
    BY <1>1 DEF Collected, OnPathFrom, TwinInput
  <2> QED
    BY <1>1, <2>1 DEF IInv, WalksExact
<1> QED
  BY <1>1, <1>3, <1>4 DEF IInv, Cones

\* Between the rounds of pairUndetectedDSAF's two loops: what the walk has
\* collected so far is what lies on one path with the faults done, and the
\* pairs of the faults done are settled.
THEOREM Invariant == Spec => []IInv
<1>1. Init => IInv
  BY Initially
<1>2. IInv /\ [Next]_vars => IInv'
  BY DeletePairsKeeps, DeletePairsDoneKeeps, PairRedundantKeeps, PairRedundantDoneKeeps DEF Next
<1> QED
  BY <1>1, <1>2, PTL DEF Spec

\* What the invariant says at the end: no pair is kept and declared redundant,
\* and those that have an effect are kept or on one path.
LEMMA PairsFollow ==
  IInv => OnePathPairsExact /\ DetectablePairsKept
<1>1. IInv => DetectablePairsKept
  <2> SUFFICES ASSUME IInv, pc = "done" PROVE DetectablePairsKept
    BY DEF DetectablePairsKept
  <2>1. WellFormed(netlist)
    BY DEF IInv
  <2>2. undetectedDSA \cap redundantDSAF = {}
    BY DEF IInv, PairsSorted
  <2>3. ASSUME NEW f \in redundantSSAF, NEW g \in redundantSSAF,
               InputsReach({f, g}), Cardinality({f, g}) = 2, Detectable(netlist, {f, g})
        PROVE  {f, g} \in undetectedDSA \cup deleteDSAs
    <3>1. f # g
      BY <2>3, FS_Singleton
    <3>2. faultGate(f) \in GateID /\ faultGate(g) \in GateID
      BY RedundantFaults DEF IInv
    <3>3. ~ Detectable(netlist, {f}) /\ ~ Detectable(netlist, {g})
      BY DEF IInv, Redundant
    <3>4. /\ faultGate(g) \in RelatedGates(netlist, faultGate(f))
          /\ faultGate(f) \in RelatedGates(netlist, faultGate(g))
      BY <2>1, <2>3, <3>2, <3>3, UnrelatedPairs
    <3>5. MutuallyRelated(f, g) /\ MutuallyRelated(g, f)
      BY <3>2, <3>4 DEF IInv, Cones, MutuallyRelated
    <3>6. {f, g} \in undetectedDSA \cup redundantDSAF
      BY <3>1 DEF IInv, PairsSorted
    <3>7. {f, g} \notin deleteDSAs => Kept({f, g})
      BY <3>5 DEF Kept
    <3> QED
      BY <3>6, <3>7 DEF IInv, PairsSorted
  <2> QED
    BY <2>2, <2>3 DEF DetectablePairsKept
<1>2. IInv => OnePathPairsExact
  BY DEF IInv, WalksExact, Collected, OnePathPairsExact
<1> QED
  BY <1>1, <1>2

\* checkPath collects exactly the pairs of redundant faults one of whose lines
\* is on a path from the gate of the other, in every circuit.
THEOREM OnePathsExact == Spec => []OnePathPairsExact
BY Invariant, PairsFollow, PTL

\* Once the pairing is done, no pair that a pattern detects has been declared
\* redundant, unless checkPath found its lines on one path.
THEOREM DetectableKept == Spec => []DetectablePairsKept
BY Invariant, PairsFollow, PTL

-----------------------------------------------------------------------------
(***************************************************************************)
(* The constructor.                                                        *)
(***************************************************************************)
(* The list of inputs, seen from the line behind it. *)
LEMMA InputsGoOnNext ==
  ASSUME NEW f, NEW i \in Nat
  PROVE  Build!InputsGoOn(f, i + 1) <=> Build!ListsInputs(f, i + 1) /\ f[i + 1].cont
<1>1. (i + 1) - 1 = i OBVIOUS
<1>2. \A j \in 1 .. i : j .. i + 1 = (j .. i) \cup {i + 1} OBVIOUS
<1>3. 1 .. i + 1 = (1 .. i) \cup {i + 1} OBVIOUS
<1>4. (i + 1) .. (i + 1) = {i + 1} OBVIOUS
<1> DEFINE on(j, k) == f[j].key = "inputs" /\ \A l \in j .. k : f[l].cont
<1>5. \A j \in 1 .. i : on(j, i + 1) <=> on(j, i) /\ f[i + 1].cont BY <1>2
<1>6. on(i + 1, i + 1) <=> f[i + 1].key = "inputs" /\ f[i + 1].cont BY <1>4
<1>7. Build!InputsGoOn(f, i + 1) <=> \E j \in 1 .. i + 1 : on(j, i + 1) BY DEF Build!InputsGoOn
<1>8. Build!InputsGoOn(f, i) <=> \E j \in 1 .. i : on(j, i) BY DEF Build!InputsGoOn
<1> HIDE DEF on
<1> QED BY <1>1, <1>3, <1>5, <1>6, <1>7, <1>8 DEF Build!ListsInputs

\* The list of outputs: lines that list inputs may come in between.
LEMMA OutputsGoOnNext ==
  ASSUME NEW f, NEW i \in Nat
  PROVE  Build!OutputsGoOn(f, i + 1) <=> \/ Build!ListsInputs(f, i + 1) /\ Build!OutputsGoOn(f, i)
                                         \/ Build!ListsOutputs(f, i + 1) /\ f[i + 1].cont
<1>1. (i + 1) - 1 = i OBVIOUS
<1>2. \A j \in 1 .. i : j .. i + 1 = (j .. i) \cup {i + 1} OBVIOUS
<1>3. 1 .. i + 1 = (1 .. i) \cup {i + 1} OBVIOUS
<1>4. (i + 1) .. (i + 1) = {i + 1} OBVIOUS
<1> DEFINE begins(j) == f[j].key = "outputs" /\ ~ Build!ListsInputs(f, j)
           goesOn(k) == Build!ListsInputs(f, k) \/ f[k].cont
           on(j, k) == begins(j) /\ \A l \in j .. k : goesOn(l)
<1>5. \A j \in 1 .. i : on(j, i + 1) <=> on(j, i) /\ goesOn(i + 1) BY <1>2
<1>6. on(i + 1, i + 1) <=> begins(i + 1) /\ goesOn(i + 1) BY <1>4
<1>7. Build!OutputsGoOn(f, i + 1) <=> \E j \in 1 .. i + 1 : on(j, i + 1) BY DEF Build!OutputsGoOn
<1>8. Build!OutputsGoOn(f, i) <=> \E j \in 1 .. i : on(j, i) BY DEF Build!OutputsGoOn
<1>9. Build!ListsOutputs(f, i + 1) <=>
        ~ Build!ListsInputs(f, i + 1) /\ (f[i + 1].key = "outputs" \/ Build!OutputsGoOn(f, i))
  BY <1>1 DEF Build!ListsOutputs
<1> HIDE DEF on
<1> QED BY <1>3, <1>5, <1>6, <1>7, <1>8, <1>9

\* A line more: the sets of lines grow by it or stay.
LEMMA LinesGrow ==
  ASSUME NEW f, NEW i \in Nat
  PROVE  /\ Build!InputLines(f, i + 1) =
              Build!InputLines(f, i) \cup (IF Build!ListsInputs(f, i + 1) THEN {i + 1} ELSE {})
         /\ Build!OutputLines(f, i + 1) =
              Build!OutputLines(f, i) \cup (IF Build!ListsOutputs(f, i + 1) THEN {i + 1} ELSE {})
         /\ Build!NamesLines(f, i + 1) =
              Build!NamesLines(f, i) \cup (IF Build!DescribesGate(f, i + 1) THEN {i + 1} ELSE {})
<1>1. 1 .. i + 1 = (1 .. i) \cup {i + 1} OBVIOUS
<1> QED BY <1>1 DEF Build!InputLines, Build!OutputLines, Build!NamesLines

\* The wires of a line more.
LEMMA WiresGrow ==
  ASSUME NEW f, NEW i \in Nat, NEW lines \in SUBSET (1 .. i), Len(f[i + 1].wires) \in Nat,
         IsFiniteSet(Build!WiresOf(f, lines))
  PROVE  /\ IsFiniteSet(Build!WiresOf(f, lines \cup {i + 1}))
         /\ Cardinality(Build!WiresOf(f, lines \cup {i + 1})) =
              Cardinality(Build!WiresOf(f, lines)) + Len(f[i + 1].wires)
<1> DEFINE old == Build!WiresOf(f, lines)
           n == Len(f[i + 1].wires)
           new == {i + 1} \X (1 .. n)
<1>1. Build!WiresOf(f, lines \cup {i + 1}) = old \cup new
  BY DEF Build!WiresOf
<1>2. old \cap new = {}
  <2> SUFFICES ASSUME NEW x \in old, x \in new PROVE FALSE OBVIOUS
  <2>1. PICK l \in lines : x \in {l} \X (1 .. Len(f[l].wires)) BY DEF Build!WiresOf
  <2>2. x[1] = l BY <2>1
  <2>3. x[1] = i + 1 OBVIOUS
  <2> QED BY <2>2, <2>3
<1>3. IsFiniteSet({i + 1}) /\ Cardinality({i + 1}) = 1 BY FS_Singleton
<1>4. IsFiniteSet(1 .. n) /\ Cardinality(1 .. n) = n
  <2>1. 1 \in Int /\ n \in Int OBVIOUS
  <2>2. IsFiniteSet(1 .. n) /\ Cardinality(1 .. n) = IF 1 > n THEN 0 ELSE n - 1 + 1 BY <2>1, FS_Interval
  <2>3. (IF 1 > n THEN 0 ELSE n - 1 + 1) = n OBVIOUS
  <2> QED BY <2>2, <2>3
<1>5. IsFiniteSet(new) /\ Cardinality(new) = 1 * n BY <1>3, <1>4, FS_Product, ZenonT(60)
<1>6. IsFiniteSet(old \cup new) /\ Cardinality(old \cup new) = Cardinality(old) + Cardinality(new) - Cardinality(old \cap new)
  BY <1>5, FS_Union
<1>7. Cardinality(old \cap new) = 0 BY <1>2, FS_EmptySet
<1>8. Cardinality(old) \in Nat BY FS_CardinalityType
<1>9. n \in Nat OBVIOUS
<1> HIDE DEF old, new, n
<1>10. Cardinality(old \cup new) = Cardinality(old) + n BY <1>5, <1>6, <1>7, <1>8, <1>9
<1>11. IsFiniteSet(old \cup new) BY <1>6
<1>12. IsFiniteSet(Build!WiresOf(f, lines \cup {i + 1})) BY <1>1, <1>11
<1>13. Cardinality(Build!WiresOf(f, lines \cup {i + 1})) = Cardinality(old) + n BY <1>1, <1>10
<1> QED BY <1>12, <1>13 DEF n, old

\* A gate as blifParser adds it.
Entry == [gate : Gate, in1Name : Int, in2Name : Int, outName : Int]

\* The map leads from each wire to the gate that put it in first.
FirstKept(map, circuit) ==
  /\ DOMAIN map = {circuit[i].outName : i \in 1 .. Len(circuit)}
  /\ \A wire \in DOMAIN map :
       /\ map[wire] \in 0 .. Len(circuit) - 1
       /\ circuit[map[wire] + 1].outName = wire
       /\ \A j \in 1 .. map[wire] : circuit[j].outName # wire

\* Adding gates keeps it so.
LEMMA NumberedFirst ==
  ASSUME NEW gates \in Seq(Entry), theCircuit \in Seq(Entry), FirstKept(MapNumWire, theCircuit)
  PROVE  FirstKept(Build!Numbered(MapNumWire, gates), theCircuit \o gates)
<1> DEFINE n == Len(theCircuit)
           m == Len(gates)
           both == theCircuit \o gates
           map == Build!Numbered(MapNumWire, gates)
           new == {gates[i].outName : i \in 1 .. m}
           isFirst(i, wire) == i \in 1 .. m /\ gates[i].outName = wire /\ \A j \in 1 .. i - 1 : gates[j].outName # wire
<1>1. /\ n \in Nat /\ m \in Nat /\ Len(both) = n + m
      /\ \A i \in 1 .. n : both[i] = theCircuit[i]
      /\ \A i \in 1 .. m : both[n + i] = gates[i]
  OBVIOUS
<1>2. DOMAIN map = DOMAIN MapNumWire \cup new
  BY DEF Build!Numbered
<1>3. 1 .. n + m = (1 .. n) \cup {n + i : i \in 1 .. m}
  <2> SUFFICES ASSUME NEW k \in 1 .. n + m, k \notin 1 .. n PROVE k \in {n + i : i \in 1 .. m}
    BY <1>1
  <2>1. k - n \in 1 .. m /\ n + (k - n) = k BY <1>1
  <2> QED BY <2>1
<1>4. DOMAIN MapNumWire = {theCircuit[i].outName : i \in 1 .. n} BY DEF FirstKept
<1>5. DOMAIN map = {both[i].outName : i \in 1 .. n + m}
  <2> HIDE DEF both, map, n, m
  <2>1. {both[i].outName : i \in 1 .. n + m} =
          {both[i].outName : i \in 1 .. n} \cup {both[n + i].outName : i \in 1 .. m}
    BY <1>3
  <2>2. {both[i].outName : i \in 1 .. n} = DOMAIN MapNumWire BY <1>1, <1>4
  <2>3. {both[n + i].outName : i \in 1 .. m} = new BY <1>1
  <2> QED BY <1>2, <2>1, <2>2, <2>3
<1>6. ASSUME NEW wire \in DOMAIN map
      PROVE  /\ map[wire] \in 0 .. (n + m) - 1
             /\ both[map[wire] + 1].outName = wire
             /\ \A j \in 1 .. map[wire] : both[j].outName # wire
  <2>1. CASE wire \in DOMAIN MapNumWire
    <3>1. map[wire] = MapNumWire[wire] BY <1>2, <2>1 DEF Build!Numbered
    <3>2. /\ MapNumWire[wire] \in 0 .. n - 1 /\ theCircuit[MapNumWire[wire] + 1].outName = wire
          /\ \A j \in 1 .. MapNumWire[wire] : theCircuit[j].outName # wire
      BY <2>1 DEF FirstKept
    <3> HIDE DEF both, map, n, m
    <3>3. PICK k : k = MapNumWire[wire] OBVIOUS
    <3>4. k \in 0 .. n - 1 /\ k + 1 \in 1 .. n /\ k \in 0 .. (n + m) - 1 BY <1>1, <3>2, <3>3
    <3>5. \A j \in 1 .. k : j \in 1 .. n /\ both[j] = theCircuit[j] BY <1>1, <3>4
    <3>6. both[k + 1] = theCircuit[k + 1] BY <1>1, <3>4
    <3> QED BY <3>1, <3>2, <3>3, <3>4, <3>5, <3>6
  <2>2. CASE wire \notin DOMAIN MapNumWire
    <3>1. \E i : isFirst(i, wire)
      <4> DEFINE S == {i \in 1 .. m : gates[i].outName = wire}
      <4>1. S # {} /\ S \in SUBSET Nat BY <1>2, <2>2
      <4>2. PICK i \in S : \A j \in S : i <= j BY <4>1, LeastNumber
      <4> QED BY <4>2
    <3> DEFINE i == CHOOSE k \in 1 .. m : gates[k].outName = wire /\ \A j \in 1 .. k - 1 : gates[j].outName # wire
    <3>2. isFirst(i, wire) BY <3>1
    <3>3. map[wire] = n - 1 + i BY <1>2, <2>2 DEF Build!Numbered
    <3> HIDE DEF i
    <3>4. map[wire] = (n + i) - 1 /\ map[wire] + 1 = n + i BY <1>1, <3>2, <3>3
    <3>5. both[n + i].outName = wire BY <1>1, <3>2
    <3>6. ASSUME NEW j \in 1 .. (n + i) - 1 PROVE both[j].outName # wire
      <4>1. CASE j \in 1 .. n BY <1>1, <1>4, <2>2, <4>1
      <4>2. CASE j \notin 1 .. n
        <5>1. j - n \in 1 .. i - 1 /\ j - n \in 1 .. m /\ n + (j - n) = j BY <1>1, <3>2, <4>2
        <5>2. both[j] = gates[j - n] BY <1>1, <5>1
        <5> QED BY <3>2, <5>1, <5>2
      <4> QED BY <4>1, <4>2
    <3> HIDE DEF both, map, n, m
    <3> QED BY <1>1, <3>2, <3>4, <3>5, <3>6
  <2> QED BY <2>1, <2>2
<1> HIDE DEF map, both, n, m
<1>7. Len(both) = n + m BY <1>1
<1> QED BY <1>5, <1>6, <1>7 DEF FirstKept, map, both

\* What addGate leaves.
LEMMA AddedGates ==
  ASSUME NEW gates \in Seq(Entry), theCircuit \in Seq(Entry), FirstKept(MapNumWire, theCircuit), Build!Added(gates)
  PROVE  /\ theCircuit' \in Seq(Entry) /\ FirstKept(MapNumWire', theCircuit')
         /\ Len(theCircuit') = Len(theCircuit) + Len(gates)
         /\ \A i \in 1 .. Len(theCircuit) : theCircuit'[i] = theCircuit[i]
         /\ \A i \in 1 .. Len(theCircuit') : i > Len(theCircuit) =>
              i - Len(theCircuit) \in 1 .. Len(gates) /\ theCircuit'[i] = gates[i - Len(theCircuit)]
<1>1. theCircuit' = theCircuit \o gates /\ MapNumWire' = Build!Numbered(MapNumWire, gates)
  BY DEF Build!Added
<1>2. FirstKept(MapNumWire', theCircuit')
  BY <1>1, NumberedFirst
<1> QED
  BY <1>1, <1>2

\* How far the file is read, and whether a list goes on.
LinesRead ==
  /\ file \in Files /\ line \in 0 .. Len(file)
  /\ stillIn \in BOOLEAN /\ (stillIn <=> Build!InputsGoOn(file, line))
  /\ stillOut \in BOOLEAN /\ (stillOut <=> Build!OutputsGoOn(file, line))

\* The wires of some lines of the file; inputs, gates and outputs read so far.
WireCount(lines) == Cardinality(Build!WiresOf(file, lines))
Inputs == WireCount(Build!InputLines(file, line))
Names == Cardinality(Build!NamesLines(file, line))
Outputs == WireCount(Build!OutputLines(file, line))

\* The gates so far are the inputs and then the gates of the lines read.
GatesRead ==
  /\ IsFiniteSet(Build!WiresOf(file, Build!InputLines(file, line)))
  /\ IsFiniteSet(Build!WiresOf(file, Build!OutputLines(file, line)))
  /\ Len(theCircuit) = Inputs + Names
  /\ Len(POTemp) = Outputs
  /\ \A i \in 1 .. Len(theCircuit) :
       IF i <= Inputs THEN theCircuit[i].gate.gateType = "PI"
       ELSE theCircuit[i].gate.gateType \in {"constant", "bufInv", "aig"}

\* A gate of the parser: flags as its constructor sets them.
Flagged(gate) == gate.gateType \in {"PI", "constant", "PO"} => gate.invIn1 = 1 /\ gate.invOut = 1
Loose(gate) == gate.fanin1 = NoGate /\ gate.fanin2 = NoGate

\* What addGate and MapNumWire.insert keep right together.
EntriesRight ==
  /\ theCircuit \in Seq(Entry) /\ POTemp \in Seq(Int)
  /\ FirstKept(MapNumWire, theCircuit)
  /\ \A i \in 1 .. Len(theCircuit) : Flagged(theCircuit[i].gate)

\* blifParser, line by line: nothing is connected yet.
ReadInv ==
  buildPc = "read" =>
    /\ LinesRead /\ GatesRead /\ EntriesRight
    /\ \A i \in 1 .. Len(theCircuit) : Loose(theCircuit[i].gate)
    /\ cur = 0

\* The gates that lists of inputs and outputs add.
LEMMA PlainGates ==
  /\ PIGate \in Gate /\ PIGate.gateType = "PI" /\ Flagged(PIGate) /\ Loose(PIGate)
  /\ POGate(NoGate) \in Gate /\ POGate(NoGate).gateType = "PO" /\ Flagged(POGate(NoGate)) /\ Loose(POGate(NoGate))
<1>1. PIGate \in Gate /\ PIGate.gateType = "PI" BY DEF PIGate, Gate, Type, Bit, NoGate
<1>2. Flagged(PIGate) /\ Loose(PIGate) BY DEF PIGate, Flagged, Loose
<1>3. POGate(NoGate) = [gateType |-> "PO", fanin1 |-> NoGate, fanin2 |-> NoGate,
                       invIn1 |-> 1, invIn2 |-> 0, invOut |-> 1, constant |-> 0]
  <2>1. POGate(NoGate) = [PIGate EXCEPT !.gateType = "PO", !.fanin1 = NoGate] BY DEF POGate
  <2>2. [PIGate EXCEPT !.gateType = "PO", !.fanin1 = NoGate] =
          [x \in {"gateType", "fanin1", "fanin2", "invIn1", "invIn2", "invOut", "constant"} |->
             IF x = "fanin1" THEN NoGate ELSE IF x = "gateType" THEN "PO" ELSE PIGate[x]]
    BY DEF PIGate
  <2> QED BY <2>1, <2>2 DEF PIGate
<1>4. POGate(NoGate) \in Gate BY <1>3 DEF Gate, Type, Bit, NoGate
<1>5. POGate(NoGate).gateType = "PO" /\ Flagged(POGate(NoGate)) /\ Loose(POGate(NoGate)) BY <1>3 DEF Flagged, Loose
<1> QED BY <1>1, <1>2, <1>4, <1>5

\* Nothing is read at first.
LEMMA ReadInitially == (\A f \in Files : Build!FileOK(f)) /\ Build!Init => ReadInv
<1> SUFFICES ASSUME \A f \in Files : Build!FileOK(f), Build!Init PROVE ReadInv
  OBVIOUS
<1>1. file \in Files /\ Len(file) \in Nat /\ line = 0
  <2>1. file \in Files /\ line = 0 BY DEF Build!Init
  <2>2. file \in Seq(Build!FileLine) BY <2>1 DEF Build!FileOK
  <2> QED BY <2>1, <2>2
<1>2. 1 .. 0 = {} OBVIOUS
<1>3. ~ Build!InputsGoOn(file, 0) /\ ~ Build!OutputsGoOn(file, 0)
  BY <1>2 DEF Build!InputsGoOn, Build!OutputsGoOn
<1>0. stillIn = FALSE /\ stillOut = FALSE BY DEF Build!Init
<1>4. LinesRead
  <2>1. ~ Build!InputsGoOn(file, line) /\ ~ Build!OutputsGoOn(file, line) BY <1>1, <1>3
  <2>2. line \in 0 .. Len(file) BY <1>1
  <2> QED BY <1>0, <1>1, <2>1, <2>2 DEF LinesRead
<1>5. /\ Build!InputLines(file, 0) = {} /\ Build!OutputLines(file, 0) = {} /\ Build!NamesLines(file, 0) = {}
      /\ Build!WiresOf(file, {}) = {}
  BY <1>2 DEF Build!InputLines, Build!OutputLines, Build!NamesLines, Build!WiresOf
<1>6. IsFiniteSet({}) /\ Cardinality({}) = 0 BY FS_EmptySet
<1>7. theCircuit = << >> /\ POTemp = << >> /\ cur = 0 /\ MapNumWire = [k \in {} |-> {}]
  BY DEF Build!Init, Build!EmptyMap
<1>8. Inputs = 0 /\ Names = 0 /\ Outputs = 0
  BY <1>1, <1>5, <1>6 DEF Inputs, Names, Outputs, WireCount
<1>9. GatesRead
  <2>1. IsFiniteSet(Build!WiresOf(file, Build!InputLines(file, line))) BY <1>1, <1>5, <1>6
  <2>2. IsFiniteSet(Build!WiresOf(file, Build!OutputLines(file, line))) BY <1>1, <1>5, <1>6
  <2>3. Len(theCircuit) = 0 /\ Len(POTemp) = 0 BY <1>7
  <2> QED BY <1>8, <2>1, <2>2, <2>3 DEF GatesRead
<1>10. FirstKept(MapNumWire, theCircuit) BY <1>7 DEF FirstKept
<1>11. EntriesRight BY <1>7, <1>10 DEF EntriesRight
<1> QED BY <1>4, <1>7, <1>9, <1>11 DEF ReadInv

\* What the guards of readLine have seen.
LEMMA LineKinds ==
  ASSUME LinesRead, line < Len(file), Len(file) \in Nat
  PROVE  LET i == line + 1
             l == file[line + 1]
         IN /\ i \in 1 .. Len(file) /\ i - 1 = line
            /\ Build!ListsInputs(file, i) <=> l.key = "inputs" \/ stillIn
            /\ Build!ListsOutputs(file, i) <=>
                 ~ (l.key = "inputs" \/ stillIn) /\ (l.key = "outputs" \/ stillOut)
            /\ Build!DescribesGate(file, i) <=>
                 /\ ~ Build!ListsInputs(file, i) /\ ~ Build!ListsOutputs(file, i) /\ l.key = "names"
<1>1. line + 1 \in 1 .. Len(file) /\ (line + 1) - 1 = line BY DEF LinesRead
<1> QED BY <1>1 DEF LinesRead, Build!ListsInputs, Build!ListsOutputs, Build!DescribesGate

\* What is taken from Gate and Netlist is the same, seen through the instance.
LEMMA SameGates ==
  /\ Build!Gate = Gate /\ Build!NoGate = NoGate /\ Build!PIGate = PIGate
  /\ Build!POGate(Build!NoGate) = POGate(NoGate)
BY DEF Build!Gate, Gate, Build!Type, Type, Build!Bit, Bit, Build!NoGate, NoGate, Build!PIGate, PIGate,
       Build!POGate, POGate

\* A list of inputs, read.
LEMMA ReadInputsKeeps ==
  ASSUME \A f \in Files : Build!FileOK(f), ReadInv, buildPc = "read", line < Len(file), Build!Read,
         Build!readInputs(file[line + 1])
  PROVE  ReadInv'
<1> DEFINE i == line + 1
           l == file[line + 1]
           gates == [k \in 1 .. Len(l.wires) |-> Build!PINamed(l.wires[k])]
<1>0. LinesRead /\ GatesRead /\ EntriesRight /\ (\A k \in 1 .. Len(theCircuit) : Loose(theCircuit[k].gate)) /\ cur = 0
  BY DEF ReadInv
<1>1. file \in Files /\ file \in Seq(Build!FileLine) /\ Build!FileOK(file) /\ Len(file) \in Nat
  <2>1. file \in Files /\ Build!FileOK(file) BY <1>0 DEF LinesRead
  <2>2. file \in Seq(Build!FileLine) BY <2>1 DEF Build!FileOK
  <2> QED BY <2>1, <2>2
<1>2. i \in 1 .. Len(file) /\ line \in Nat BY <1>0, <1>1 DEF LinesRead
<1>3. l \in Build!FileLine BY <1>1, <1>2
<1>4. l.wires \in Seq(Int) /\ l.cont \in BOOLEAN /\ Len(l.wires) \in Nat BY <1>3 DEF Build!FileLine
<1>5. /\ line' = i /\ file' = file /\ cur' = cur /\ buildPc' = buildPc /\ stillOut' = stillOut /\ POTemp' = POTemp
      /\ stillIn' = l.cont /\ Build!Added(gates) /\ (l.key = "inputs" \/ stillIn)
  BY DEF Build!Read, Build!readInputs
<1>6. Build!ListsInputs(file, i) /\ ~ Build!ListsOutputs(file, i) /\ ~ Build!DescribesGate(file, i)
  BY <1>0, <1>1, <1>5, LineKinds
<1>7. Build!InputsGoOn(file, i) <=> l.cont BY <1>2, <1>6, InputsGoOnNext
<1>8. Build!OutputsGoOn(file, i) <=> Build!OutputsGoOn(file, line) BY <1>2, <1>6, OutputsGoOnNext
<1>9. LinesRead' BY <1>0, <1>1, <1>2, <1>4, <1>5, <1>7, <1>8 DEF LinesRead
<1>10. /\ Build!InputLines(file, i) = Build!InputLines(file, line) \cup {i}
       /\ Build!OutputLines(file, i) = Build!OutputLines(file, line)
       /\ Build!NamesLines(file, i) = Build!NamesLines(file, line)
  BY <1>2, <1>6, LinesGrow, ZenonT(60)
<1>11. Build!NamesLines(file, line) = {}
  <2> SUFFICES ASSUME NEW j \in 1 .. line, Build!DescribesGate(file, j) PROVE FALSE
    BY DEF Build!NamesLines
  <2>1. j \in 1 .. i BY <1>2
  <2> QED BY <1>1, <1>2, <1>6, <2>1 DEF Build!FileOK
<1>12. Build!InputLines(file, line) \in SUBSET (1 .. line) BY DEF Build!InputLines
<1>13. /\ IsFiniteSet(Build!WiresOf(file, Build!InputLines(file, i)))
       /\ Cardinality(Build!WiresOf(file, Build!InputLines(file, i))) = Inputs + Len(l.wires)
  BY <1>0, <1>2, <1>4, <1>10, <1>12, WiresGrow DEF GatesRead, Inputs, WireCount
<1>14. Names = 0 /\ Names' = 0 BY <1>5, <1>10, <1>11, FS_EmptySet DEF Names
<1>15. gates \in Seq(Entry) /\ Len(gates) = Len(l.wires)
       /\ \A k \in 1 .. Len(gates) : gates[k].gate = PIGate
  <2>1. \A k \in 1 .. Len(l.wires) : Build!PINamed(l.wires[k]) \in Entry /\ Build!PINamed(l.wires[k]).gate = PIGate
    BY <1>4, SameGates, PlainGates DEF Build!PINamed, Build!Named, Build!NoWire, Entry
  <2> QED BY <1>4, <2>1
<1> HIDE DEF gates
<1>16. /\ theCircuit' \in Seq(Entry) /\ FirstKept(MapNumWire', theCircuit')
       /\ Len(theCircuit') = Len(theCircuit) + Len(gates)
       /\ \A k \in 1 .. Len(theCircuit) : theCircuit'[k] = theCircuit[k]
       /\ \A k \in 1 .. Len(theCircuit') : k > Len(theCircuit) =>
            k - Len(theCircuit) \in 1 .. Len(gates) /\ theCircuit'[k] = gates[k - Len(theCircuit)]
  BY <1>0, <1>5, <1>15, AddedGates DEF EntriesRight
<1>17. Inputs' = Inputs + Len(l.wires) BY <1>5, <1>13 DEF Inputs, WireCount
<1>18. Len(theCircuit) = Inputs /\ Len(theCircuit) \in Nat /\ Len(theCircuit') \in Nat
  <2>1. Len(theCircuit) = Inputs + Names /\ theCircuit \in Seq(Entry) BY <1>0 DEF GatesRead, EntriesRight
  <2>2. Inputs \in Nat BY <1>0, FS_CardinalityType DEF GatesRead, Inputs, WireCount
  <2> QED BY <1>14, <1>16, <2>1, <2>2
<1>19. \A k \in 1 .. Len(theCircuit') :
         theCircuit'[k].gate.gateType = "PI" /\ Flagged(theCircuit'[k].gate) /\ Loose(theCircuit'[k].gate)
  <2> SUFFICES ASSUME NEW k \in 1 .. Len(theCircuit')
               PROVE  theCircuit'[k].gate.gateType = "PI" /\ Flagged(theCircuit'[k].gate) /\ Loose(theCircuit'[k].gate)
    OBVIOUS
  <2>1. CASE k > Len(theCircuit) BY <1>15, <1>16, <2>1, PlainGates
  <2>2. CASE ~ (k > Len(theCircuit))
    <3>1. k \in 1 .. Len(theCircuit) BY <1>18, <2>2
    <3>2. theCircuit[k].gate.gateType = "PI" /\ Flagged(theCircuit[k].gate) /\ Loose(theCircuit[k].gate)
      BY <1>0, <1>18, <3>1 DEF GatesRead, EntriesRight
    <3> QED BY <1>16, <3>1, <3>2
  <2> QED BY <2>1, <2>2
<1>20. Outputs' = Outputs BY <1>5, <1>10 DEF Outputs, WireCount
<1>21. GatesRead'
  <2>1. IsFiniteSet(Build!WiresOf(file', Build!InputLines(file', line'))) BY <1>5, <1>13
  <2>2. IsFiniteSet(Build!WiresOf(file', Build!OutputLines(file', line'))) BY <1>0, <1>5, <1>10 DEF GatesRead
  <2>3. Len(theCircuit') = Inputs' + Names' BY <1>14, <1>15, <1>16, <1>17, <1>18
  <2>4. Len(POTemp') = Outputs' BY <1>0, <1>5, <1>20 DEF GatesRead
  <2>5. Len(theCircuit') = Inputs' BY <1>15, <1>16, <1>17, <1>18
  <2>6. \A k \in 1 .. Len(theCircuit') : k <= Inputs' /\ theCircuit'[k].gate.gateType = "PI"
    BY <1>18, <1>19, <2>5
  <2> QED BY <2>1, <2>2, <2>3, <2>4, <2>6 DEF GatesRead
<1>22. EntriesRight' BY <1>0, <1>5, <1>16, <1>19 DEF EntriesRight
<1>23. \A k \in 1 .. Len(theCircuit') : Loose(theCircuit'[k].gate) BY <1>19
<1> QED BY <1>0, <1>5, <1>9, <1>21, <1>22, <1>23 DEF ReadInv

\* A list of outputs, read.
LEMMA ReadOutputsKeeps ==
  ASSUME \A f \in Files : Build!FileOK(f), ReadInv, buildPc = "read", line < Len(file), Build!Read,
         Build!readOutputs(file[line + 1])
  PROVE  ReadInv'
<1> DEFINE i == line + 1
           l == file[line + 1]
<1>0. LinesRead /\ GatesRead /\ EntriesRight /\ (\A k \in 1 .. Len(theCircuit) : Loose(theCircuit[k].gate)) /\ cur = 0
  BY DEF ReadInv
<1>1. file \in Files /\ file \in Seq(Build!FileLine) /\ Build!FileOK(file) /\ Len(file) \in Nat
  <2>1. file \in Files /\ Build!FileOK(file) BY <1>0 DEF LinesRead
  <2>2. file \in Seq(Build!FileLine) BY <2>1 DEF Build!FileOK
  <2> QED BY <2>1, <2>2
<1>2. i \in 1 .. Len(file) /\ line \in Nat BY <1>0, <1>1 DEF LinesRead
<1>3. l \in Build!FileLine BY <1>1, <1>2
<1>4. l.wires \in Seq(Int) /\ l.cont \in BOOLEAN /\ Len(l.wires) \in Nat /\ l.gate \in Gate
  BY <1>3, SameGates DEF Build!FileLine
<1>5. /\ line' = i /\ file' = file /\ cur' = cur /\ buildPc' = buildPc /\ stillIn' = stillIn
      /\ theCircuit' = theCircuit /\ MapNumWire' = MapNumWire
      /\ POTemp' = POTemp \o l.wires /\ stillOut' = l.cont
      /\ ~ (l.key = "inputs" \/ stillIn) /\ (l.key = "outputs" \/ stillOut)
  BY DEF Build!Read, Build!readOutputs
<1>6. ~ Build!ListsInputs(file, i) /\ Build!ListsOutputs(file, i) /\ ~ Build!DescribesGate(file, i)
  BY <1>0, <1>1, <1>5, LineKinds
<1>7. ~ Build!InputsGoOn(file, i) /\ ~ stillIn BY <1>2, <1>5, <1>6, InputsGoOnNext
<1>8. Build!OutputsGoOn(file, i) <=> l.cont BY <1>2, <1>6, OutputsGoOnNext
<1>9. LinesRead' BY <1>0, <1>1, <1>2, <1>4, <1>5, <1>7, <1>8 DEF LinesRead
<1>10. /\ Build!InputLines(file, i) = Build!InputLines(file, line)
       /\ Build!OutputLines(file, i) = Build!OutputLines(file, line) \cup {i}
       /\ Build!NamesLines(file, i) = Build!NamesLines(file, line)
  BY <1>2, <1>6, LinesGrow, ZenonT(60)
<1>11. Build!OutputLines(file, line) \in SUBSET (1 .. line) BY DEF Build!OutputLines
<1>12. /\ IsFiniteSet(Build!WiresOf(file, Build!OutputLines(file, i)))
       /\ Cardinality(Build!WiresOf(file, Build!OutputLines(file, i))) = Outputs + Len(l.wires)
  BY <1>0, <1>2, <1>4, <1>10, <1>11, WiresGrow, SMTT(60) DEF GatesRead, Outputs, WireCount
<1>13. Inputs' = Inputs /\ Names' = Names /\ Outputs' = Outputs + Len(l.wires)
  BY <1>5, <1>10, <1>12 DEF Inputs, Names, Outputs, WireCount
<1>14. POTemp' \in Seq(Int) /\ Len(POTemp') = Outputs'
  <2>1. POTemp \in Seq(Int) /\ Len(POTemp) = Outputs BY <1>0 DEF EntriesRight, GatesRead
  <2>2. \A r, t \in Seq(Int) : r \o t \in Seq(Int) /\ Len(r \o t) = Len(r) + Len(t) OBVIOUS
  <2>3. POTemp' = POTemp \o l.wires /\ l.wires \in Seq(Int) BY <1>4, <1>5
  <2>4. POTemp' \in Seq(Int) /\ Len(POTemp') = Len(POTemp) + Len(l.wires) BY <2>1, <2>2, <2>3
  <2> QED BY <1>13, <2>1, <2>4
<1>15. GatesRead'
  <2>1. IsFiniteSet(Build!WiresOf(file', Build!OutputLines(file', line'))) BY <1>5, <1>12
  <2>2. IsFiniteSet(Build!WiresOf(file', Build!InputLines(file', line'))) BY <1>0, <1>5, <1>10 DEF GatesRead
  <2> QED BY <1>0, <1>5, <1>13, <1>14, <2>1, <2>2 DEF GatesRead
<1>16. EntriesRight' BY <1>0, <1>5, <1>14 DEF EntriesRight
<1> QED BY <1>0, <1>5, <1>9, <1>15, <1>16 DEF ReadInv

\* A gate, read, or an error.
LEMMA ReadNamesKeeps ==
  ASSUME \A f \in Files : Build!FileOK(f), ReadInv, buildPc = "read", line < Len(file), Build!Read,
         Build!readNames(file[line + 1]), buildPc' = "read"
  PROVE  ReadInv'
<1> DEFINE i == line + 1
           l == file[line + 1]
<1>0. LinesRead /\ GatesRead /\ EntriesRight /\ (\A k \in 1 .. Len(theCircuit) : Loose(theCircuit[k].gate)) /\ cur = 0
  BY DEF ReadInv
<1>1. file \in Files /\ file \in Seq(Build!FileLine) /\ Build!FileOK(file) /\ Len(file) \in Nat
  <2>1. file \in Files /\ Build!FileOK(file) BY <1>0 DEF LinesRead
  <2>2. file \in Seq(Build!FileLine) BY <2>1 DEF Build!FileOK
  <2> QED BY <2>1, <2>2
<1>2. i \in 1 .. Len(file) /\ line \in Nat BY <1>0, <1>1 DEF LinesRead
<1>3. l \in Build!FileLine BY <1>1, <1>2
<1>4. l.wires \in Seq(Int) /\ l.cont \in BOOLEAN /\ Len(l.wires) \in Nat /\ l.gate \in Gate
  BY <1>3, SameGates DEF Build!FileLine
<1> DEFINE entry == Build!Named(l.gate, l.wires[1], l.wires[2], l.wires[3])
<1>5. /\ line' = i /\ file' = file /\ cur' = cur /\ stillIn' = stillIn /\ stillOut' = stillOut /\ POTemp' = POTemp
      /\ l.gate.gateType \in {"aig", "bufInv", "constant"} /\ Build!Added(<<entry>>)
      /\ ~ (l.key \in {"inputs", "outputs"} \/ stillIn \/ stillOut) /\ l.key = "names"
  BY DEF Build!Read, Build!readNames
<1>6. ~ Build!ListsInputs(file, i) /\ ~ Build!ListsOutputs(file, i) /\ Build!DescribesGate(file, i)
  BY <1>0, <1>1, <1>5, LineKinds
<1>7. ~ Build!InputsGoOn(file, i) /\ ~ stillIn BY <1>2, <1>5, <1>6, InputsGoOnNext
<1>8. ~ Build!OutputsGoOn(file, i) /\ ~ stillOut BY <1>2, <1>5, <1>6, OutputsGoOnNext
<1>9. LinesRead' BY <1>0, <1>1, <1>2, <1>5, <1>7, <1>8 DEF LinesRead
<1>10. /\ Build!InputLines(file, i) = Build!InputLines(file, line)
       /\ Build!OutputLines(file, i) = Build!OutputLines(file, line)
       /\ Build!NamesLines(file, i) = Build!NamesLines(file, line) \cup {i}
  BY <1>2, <1>6, LinesGrow, ZenonT(60)
<1>11. Build!NamesLines(file, line) \in SUBSET (1 .. line) BY DEF Build!NamesLines
<1>12. IsFiniteSet(Build!NamesLines(file, line)) /\ i \notin Build!NamesLines(file, line)
  <2>1. IsFiniteSet(1 .. line) BY <1>2, FS_Interval
  <2>2. i \notin 1 .. line BY <1>2
  <2> QED BY <1>11, <2>1, <2>2, FS_Subset
<1>13. Names \in Nat /\ Names' = Names + 1 BY <1>5, <1>10, <1>12, FS_CardinalityType, FS_AddElement DEF Names
<1>14. Inputs' = Inputs /\ Outputs' = Outputs BY <1>5, <1>10 DEF Inputs, Outputs, WireCount
<1>15. Inputs \in Nat BY <1>0, FS_CardinalityType DEF GatesRead, Inputs, WireCount
<1>16. Len(l.wires) = 3 /\ l.gate.fanin1 = NoGate /\ l.gate.fanin2 = NoGate
       /\ (l.gate.gateType = "constant" => l.gate.invIn1 = 1 /\ l.gate.invOut = 1)
  BY <1>1, <1>2, <1>6, SameGates DEF Build!FileOK
<1>17. entry \in Entry /\ entry.gate = l.gate
  <2>1. l.wires[1] \in Int /\ l.wires[2] \in Int /\ l.wires[3] \in Int BY <1>4, <1>16
  <2> QED BY <1>4, <2>1 DEF Build!Named, Entry
<1>18. Flagged(entry.gate) /\ Loose(entry.gate) BY <1>5, <1>16, <1>17 DEF Flagged, Loose
<1> HIDE DEF entry
<1>19. <<entry>> \in Seq(Entry) /\ Len(<<entry>>) = 1 /\ <<entry>>[1] = entry BY <1>17
<1>20. /\ theCircuit' \in Seq(Entry) /\ FirstKept(MapNumWire', theCircuit')
       /\ Len(theCircuit') = Len(theCircuit) + 1
       /\ \A k \in 1 .. Len(theCircuit) : theCircuit'[k] = theCircuit[k]
       /\ \A k \in 1 .. Len(theCircuit') : k > Len(theCircuit) =>
            k - Len(theCircuit) \in 1 .. 1 /\ theCircuit'[k] = <<entry>>[k - Len(theCircuit)]
  BY <1>0, <1>5, <1>19, AddedGates DEF EntriesRight
<1>21. Len(theCircuit) = Inputs + Names /\ Len(theCircuit) \in Nat /\ Len(theCircuit') \in Nat
  <2>1. Len(theCircuit) = Inputs + Names /\ theCircuit \in Seq(Entry) BY <1>0 DEF GatesRead, EntriesRight
  <2> QED BY <1>20, <2>1
<1>22. \A k \in 1 .. Len(theCircuit') :
         IF k <= Len(theCircuit) THEN k \in 1 .. Len(theCircuit) /\ theCircuit'[k] = theCircuit[k]
         ELSE theCircuit'[k] = entry /\ k > Inputs
  <2> SUFFICES ASSUME NEW k \in 1 .. Len(theCircuit')
               PROVE  IF k <= Len(theCircuit) THEN k \in 1 .. Len(theCircuit) /\ theCircuit'[k] = theCircuit[k]
                      ELSE theCircuit'[k] = entry /\ k > Inputs
    OBVIOUS
  <2>1. CASE k <= Len(theCircuit) BY <1>20, <1>21, <2>1
  <2>2. CASE ~ (k <= Len(theCircuit))
    <3>1. k - Len(theCircuit) = 1 /\ theCircuit'[k] = <<entry>>[k - Len(theCircuit)] BY <1>20, <1>21, <2>2
    <3>2. k > Inputs BY <1>13, <1>15, <1>21, <2>2
    <3> QED BY <1>19, <2>2, <3>1, <3>2
  <2> QED BY <2>1, <2>2
<1>23. \A k \in 1 .. Len(theCircuit') : Flagged(theCircuit'[k].gate) /\ Loose(theCircuit'[k].gate)
  BY <1>0, <1>18, <1>22 DEF EntriesRight
<1>24. GatesRead'
  <2>1. IsFiniteSet(Build!WiresOf(file', Build!OutputLines(file', line'))) BY <1>0, <1>5, <1>10 DEF GatesRead
  <2>2. IsFiniteSet(Build!WiresOf(file', Build!InputLines(file', line'))) BY <1>0, <1>5, <1>10 DEF GatesRead
  <2>3. Len(theCircuit') = Inputs' + Names' BY <1>13, <1>14, <1>15, <1>20, <1>21
  <2>4. Len(POTemp') = Outputs' BY <1>0, <1>5, <1>14 DEF GatesRead
  <2>5. \A k \in 1 .. Len(theCircuit') :
          IF k <= Inputs' THEN theCircuit'[k].gate.gateType = "PI"
          ELSE theCircuit'[k].gate.gateType \in {"constant", "bufInv", "aig"}
    <3> SUFFICES ASSUME NEW k \in 1 .. Len(theCircuit')
                 PROVE  IF k <= Inputs' THEN theCircuit'[k].gate.gateType = "PI"
                        ELSE theCircuit'[k].gate.gateType \in {"constant", "bufInv", "aig"}
      OBVIOUS
    <3>1. CASE k <= Len(theCircuit)
      <4>1. k \in 1 .. Len(theCircuit) /\ theCircuit'[k] = theCircuit[k] BY <1>22, <3>1
      <4>2. IF k <= Inputs THEN theCircuit[k].gate.gateType = "PI"
            ELSE theCircuit[k].gate.gateType \in {"constant", "bufInv", "aig"}
        BY <1>0, <4>1 DEF GatesRead
      <4> QED BY <1>14, <4>1, <4>2
    <3>2. CASE ~ (k <= Len(theCircuit))
      <4>1. theCircuit'[k].gate = l.gate /\ ~ (k <= Inputs) BY <1>15, <1>17, <1>22, <3>2
      <4> QED BY <1>5, <1>14, <4>1
    <3> QED BY <3>1, <3>2
  <2> QED BY <2>1, <2>2, <2>3, <2>4, <2>5 DEF GatesRead
<1>25. EntriesRight' BY <1>0, <1>5, <1>20, <1>23 DEF EntriesRight
<1> QED BY <1>0, <1>5, <1>9, <1>23, <1>24, <1>25 DEF ReadInv

\* Another line.
LEMMA ReadOtherKeeps ==
  ASSUME \A f \in Files : Build!FileOK(f), ReadInv, buildPc = "read", line < Len(file), Build!Read,
         Build!readOther(file[line + 1])
  PROVE  ReadInv'
<1> DEFINE i == line + 1
           l == file[line + 1]
<1>0. LinesRead /\ GatesRead /\ EntriesRight /\ (\A k \in 1 .. Len(theCircuit) : Loose(theCircuit[k].gate)) /\ cur = 0
  BY DEF ReadInv
<1>1. file \in Files /\ file \in Seq(Build!FileLine) /\ Build!FileOK(file) /\ Len(file) \in Nat
  <2>1. file \in Files /\ Build!FileOK(file) BY <1>0 DEF LinesRead
  <2>2. file \in Seq(Build!FileLine) BY <2>1 DEF Build!FileOK
  <2> QED BY <2>1, <2>2
<1>2. i \in 1 .. Len(file) /\ line \in Nat BY <1>0, <1>1 DEF LinesRead
<1>3. l \in Build!FileLine BY <1>1, <1>2
<1>4. l.wires \in Seq(Int) /\ l.cont \in BOOLEAN /\ Len(l.wires) \in Nat /\ l.gate \in Gate
  BY <1>3, SameGates DEF Build!FileLine
<1>5. /\ line' = i /\ file' = file /\ cur' = cur /\ stillIn' = stillIn /\ stillOut' = stillOut /\ POTemp' = POTemp
      /\ theCircuit' = theCircuit /\ MapNumWire' = MapNumWire /\ buildPc' = buildPc
      /\ ~ (l.key \in {"inputs", "outputs", "names"} \/ stillIn \/ stillOut)
  BY DEF Build!Read, Build!readOther
<1>6. ~ Build!ListsInputs(file, i) /\ ~ Build!ListsOutputs(file, i) /\ ~ Build!DescribesGate(file, i)
  BY <1>0, <1>1, <1>5, LineKinds
<1>7. ~ Build!InputsGoOn(file, i) /\ ~ stillIn BY <1>2, <1>5, <1>6, InputsGoOnNext
<1>8. ~ Build!OutputsGoOn(file, i) /\ ~ stillOut BY <1>2, <1>5, <1>6, OutputsGoOnNext
<1>9. LinesRead' BY <1>0, <1>1, <1>2, <1>5, <1>7, <1>8 DEF LinesRead
<1>10. /\ Build!InputLines(file, i) = Build!InputLines(file, line)
       /\ Build!OutputLines(file, i) = Build!OutputLines(file, line)
       /\ Build!NamesLines(file, i) = Build!NamesLines(file, line)
  <2> DEFINE I == Build!InputLines(file, line)  O == Build!OutputLines(file, line)
             N == Build!NamesLines(file, line)
  <2>1. I \cup {} = I /\ O \cup {} = O /\ N \cup {} = N OBVIOUS
  <2>2. /\ Build!InputLines(file, i) = I \cup {} /\ Build!OutputLines(file, i) = O \cup {}
        /\ Build!NamesLines(file, i) = N \cup {}
    BY <1>2, <1>6, LinesGrow
  <2> QED BY <2>1, <2>2
<1>11. Inputs' = Inputs /\ Names' = Names /\ Outputs' = Outputs BY <1>5, <1>10 DEF Inputs, Names, Outputs, WireCount
<1>12. GatesRead'
  <2>1. IsFiniteSet(Build!WiresOf(file', Build!OutputLines(file', line'))) BY <1>0, <1>5, <1>10 DEF GatesRead
  <2>2. IsFiniteSet(Build!WiresOf(file', Build!InputLines(file', line'))) BY <1>0, <1>5, <1>10 DEF GatesRead
  <2> QED BY <1>0, <1>5, <1>11, <2>1, <2>2 DEF GatesRead
<1>13. EntriesRight' BY <1>0, <1>5 DEF EntriesRight
<1> QED BY <1>0, <1>5, <1>9, <1>12, <1>13 DEF ReadInv

\* Every kind of line keeps the reading right.
LEMMA ReadLineKeeps ==
  ASSUME \A f \in Files : Build!FileOK(f), ReadInv, Build!readLine
  PROVE  ReadInv'
<1>1. /\ buildPc = "read" /\ line < Len(file) /\ Build!Read
      /\ \/ Build!readInputs(file[line + 1]) \/ Build!readOutputs(file[line + 1])
         \/ Build!readNames(file[line + 1]) \/ Build!readOther(file[line + 1])
  BY DEF Build!readLine
<1>2. CASE buildPc' = "read"
  BY <1>1, <1>2, ReadInputsKeeps, ReadOutputsKeeps, ReadNamesKeeps, ReadOtherKeeps
<1>3. CASE buildPc' # "read"
  BY <1>3 DEF ReadInv
<1> QED BY <1>2, <1>3

\* The two modules count alike.
LEMMA SameCount == \A S : Build!Cardinality(S) = Cardinality(S)
BY DEF Build!Cardinality, Cardinality, Build!IsFiniteSet, IsFiniteSet

\* The vector: inputs first, gates, outputs last.
Placed ==
  /\ Len(theCircuit) = Size
  /\ \A g \in GateID : /\ g \in PIs <=> Build!GateAt(g).gateType = "PI"
                       /\ g \in POs <=> Build!GateAt(g).gateType = "PO"

\* Input p of a gate of the circuit under construction.
FaninAt(p, g) == IF p = 1 THEN Build!GateAt(g).fanin1 ELSE Build!GateAt(g).fanin2

\* The gates before cur read what their wires lead to, the others nothing yet.
FaninsSet ==
  /\ \A g \in 0 .. cur - 1 : FaninAt(1, g) = Build!Source(g, 1) /\ FaninAt(2, g) = Build!Source(g, 2)
  /\ \A g \in cur .. Len(theCircuit) - 1 : Loose(Build!GateAt(g))

Repeated(n, c) == [i \in 1 .. n |-> c]
PlacesOf(t, x) == {i \in 1 .. Len(t) : t[i] = x}
Pushes(t, s, n, c) == t = s \o Repeated(n, c)

\* The fanouts list the gates connected so far, once for each input they read.
FanoutsSet ==
  /\ fanouts \in [Build!Positions -> Seq(0 .. cur - 1)]
  /\ \A g \in Build!Positions, h \in Build!Positions :
       Cardinality(PlacesOf(fanouts[g], h)) = Cardinality({p \in {1, 2} : g = FaninAt(p, h)})

\* connectGates is through with the gates before cur, and has left the others.
Connected ==
  /\ cur \in 0 .. Len(theCircuit)
  /\ buildPc \notin {"connect", "unconnected"} => cur = Len(theCircuit)
  /\ buildPc # "unconnected" => \A g \in 0 .. cur - 1 : Build!Found(g) = 1 .. Len(Build!WiresRead(g))
  /\ FaninsSet /\ FanoutsSet

\* What holds from the insertion of the outputs on.
BuiltInv == buildPc \notin {"read", "exit"} => EntriesRight /\ Placed /\ Connected

\* The outputs are put behind the gates, and nothing is connected.
LEMMA InsertOutputsBuilds ==
  ASSUME PISize \in Nat, gateSize \in Nat, POSize \in Nat,
         \A f \in Files : Build!FileOK(f), ReadInv, Build!insertOutputs
  PROVE  BuiltInv'
<1> DEFINE gates == [i \in 1 .. Len(POTemp) |-> Build!PONamed(POTemp[i])]
           n == Len(theCircuit)
<1>1. /\ buildPc = "read" /\ line = Len(file) /\ Build!Added(gates) /\ buildPc' = "connect"
      /\ fanouts' = [g \in 0 .. Len(theCircuit') - 1 |-> << >>] /\ cur' = cur /\ POTemp' = POTemp
  BY DEF Build!insertOutputs
<1>2. LinesRead /\ GatesRead /\ EntriesRight /\ (\A k \in 1 .. n : Loose(theCircuit[k].gate)) /\ cur = 0
  BY <1>1 DEF ReadInv
<1>3. Build!FileOK(file) BY <1>2 DEF LinesRead
<1>4. Inputs = PISize /\ Names = gateSize /\ Outputs = POSize
  BY <1>1, <1>3, SameCount DEF Build!FileOK, Inputs, Names, Outputs, WireCount
<1>5. n = PISize + gateSize /\ Len(POTemp) = POSize /\ n \in Nat BY <1>2, <1>4 DEF GatesRead
<1>6. gates \in Seq(Entry) /\ Len(gates) = POSize /\ \A k \in 1 .. POSize : gates[k].gate = POGate(NoGate)
  <2>1. \A k \in 1 .. Len(POTemp) : POTemp[k] \in Int BY <1>2 DEF EntriesRight
  <2>2. \A k \in 1 .. Len(POTemp) : Build!PONamed(POTemp[k]) \in Entry /\ Build!PONamed(POTemp[k]).gate = POGate(NoGate)
    BY <2>1, SameGates, PlainGates DEF Build!PONamed, Build!Named, Build!NoWire, Entry
  <2> QED BY <1>5, <2>2
<1> HIDE DEF gates
<1>7. /\ theCircuit' \in Seq(Entry) /\ FirstKept(MapNumWire', theCircuit')
      /\ Len(theCircuit') = n + POSize
      /\ \A k \in 1 .. n : theCircuit'[k] = theCircuit[k]
      /\ \A k \in 1 .. Len(theCircuit') : k > n => k - n \in 1 .. POSize /\ theCircuit'[k] = gates[k - n]
  BY <1>1, <1>2, <1>6, AddedGates DEF EntriesRight
<1>8. Len(theCircuit') = Size /\ Size \in Nat BY <1>5, <1>7 DEF Size
<1> HIDE DEF n
<1>9. ASSUME NEW k \in 1 .. Size
      PROVE  LET gate == theCircuit'[k].gate
             IN /\ gate.gateType = "PI" <=> k <= PISize
                /\ gate.gateType = "PO" <=> k > PISize + gateSize
                /\ Flagged(gate) /\ Loose(gate)
  <2>1. CASE k > n
    <3>1. theCircuit'[k].gate = POGate(NoGate) BY <1>6, <1>7, <1>8, <2>1
    <3> QED BY <1>5, <2>1, <3>1, PlainGates
  <2>2. CASE ~ (k > n)
    <3>1. k \in 1 .. n BY <1>5, <2>2
    <3>2. theCircuit'[k] = theCircuit[k] BY <1>7, <3>1
    <3>3. Flagged(theCircuit[k].gate) /\ Loose(theCircuit[k].gate) BY <1>2, <3>1 DEF EntriesRight, n
    <3>4. IF k <= PISize THEN theCircuit[k].gate.gateType = "PI"
          ELSE theCircuit[k].gate.gateType \in {"constant", "bufInv", "aig"}
      BY <1>2, <1>4, <3>1 DEF GatesRead, n
    <3> QED BY <1>5, <2>2, <3>2, <3>3, <3>4
  <2> QED BY <2>1, <2>2
<1>10. EntriesRight' BY <1>1, <1>2, <1>7, <1>8, <1>9 DEF EntriesRight
<1>11. \A g \in GateID : g + 1 \in 1 .. Size /\ Build!GateAt(g)' = theCircuit'[g + 1].gate
  BY <1>8 DEF GateID, Build!GateAt
<1>12. Placed'
  <2> SUFFICES ASSUME NEW g \in GateID
               PROVE  /\ g \in PIs <=> Build!GateAt(g)'.gateType = "PI"
                      /\ g \in POs <=> Build!GateAt(g)'.gateType = "PO"
    BY <1>8 DEF Placed
  <2>1. g \in PIs <=> g + 1 <= PISize BY <1>8 DEF GateID, PIs
  <2>2. g \in POs <=> g + 1 > PISize + gateSize BY <1>8 DEF GateID, POs, Size
  <2> QED BY <1>9, <1>11, <2>1, <2>2
<1>13. Build!Positions' = GateID BY <1>8 DEF Build!Positions, GateID
<1>14. \A g \in GateID : Loose(Build!GateAt(g)') BY <1>9, <1>11
<1>15. FaninsSet'
  BY <1>1, <1>2, <1>8, <1>14 DEF FaninsSet, GateID
<1>16. FanoutsSet'
  <2>1. fanouts' = [g \in GateID |-> << >>] BY <1>1, <1>8 DEF GateID
  <2>2. fanouts' \in [GateID -> Seq(0 .. cur' - 1)] BY <2>1
  <2>3. ASSUME NEW g \in GateID, NEW h \in GateID
        PROVE  /\ PlacesOf(fanouts'[g], h) = {}
               /\ {p \in {1, 2} : g = FaninAt(p, h)'} = {}
    <3>1. fanouts'[g] = << >> BY <2>1
    <3>2. FaninAt(1, h)' = NoGate /\ FaninAt(2, h)' = NoGate BY <1>14 DEF Loose, FaninAt
    <3>3. g # NoGate BY <1>8 DEF GateID, NoGate
    <3> QED BY <3>1, <3>2, <3>3 DEF PlacesOf
  <2> QED BY <1>13, <2>2, <2>3 DEF FanoutsSet
<1>17. Connected' BY <1>1, <1>2, <1>8, <1>15, <1>16 DEF Connected
<1> QED BY <1>10, <1>12, <1>17 DEF BuiltInv

\* Some times the same number behind a sequence of smaller ones.
LEMMA PushedCount ==
  ASSUME NEW c \in Nat, NEW s \in Seq(0 .. c - 1), NEW n \in Nat,
         NEW t, Pushes(t, s, n, c)
  PROVE  /\ t \in Seq(0 .. (c + 1) - 1)
         /\ Cardinality(PlacesOf(t, c)) = n
         /\ \A g : g # c => PlacesOf(t, g) = PlacesOf(s, g)
<1> DEFINE m == Len(s)
<1>1. [i \in 1 .. n |-> c] \in Seq(0 .. c) /\ Len([i \in 1 .. n |-> c]) = n OBVIOUS
<1>2. s \in Seq(0 .. c) /\ m \in Nat OBVIOUS
<1>3. /\ t \in Seq(0 .. c) /\ Len(t) = m + n
      /\ \A i \in 1 .. m : t[i] = s[i]
      /\ \A i \in m + 1 .. m + n : t[i] = c
  BY <1>1, <1>2 DEF Repeated, Pushes
<1>4. \A i \in 1 .. m : s[i] # c /\ s[i] \in 0 .. c - 1 OBVIOUS
<1> HIDE DEF m
<1>5. {i \in 1 .. Len(t) : t[i] = c} = m + 1 .. m + n
  <2>1. \A i \in 1 .. m + n : i \in 1 .. m \/ i \in m + 1 .. m + n BY <1>2
  <2>2. \A i \in m + 1 .. m + n : i \in 1 .. m + n BY <1>2
  <2> QED BY <1>3, <1>4, <2>1, <2>2
<1>6. Cardinality(m + 1 .. m + n) = n
  <2>1. m + 1 \in Int /\ m + n \in Int BY <1>2
  <2>2. Cardinality(m + 1 .. m + n) = IF m + 1 > m + n THEN 0 ELSE (m + n) - (m + 1) + 1 BY <2>1, FS_Interval
  <2> QED BY <1>2, <2>2
<1>7. ASSUME NEW g, g # c
      PROVE  {i \in 1 .. Len(t) : t[i] = g} = {i \in 1 .. m : s[i] = g}
  <2>1. \A i \in 1 .. m + n : i \in 1 .. m \/ i \in m + 1 .. m + n BY <1>2
  <2>2. \A i \in 1 .. m : i \in 1 .. m + n BY <1>2
  <2> QED BY <1>3, <1>7, <2>1, <2>2
<1>8. 0 .. (c + 1) - 1 = 0 .. c OBVIOUS
<1> QED BY <1>3, <1>5, <1>6, <1>7, <1>8 DEF m, PlacesOf

\* Where a wire leads to, and how many pins there are.
LEMMA Sources ==
  ASSUME EntriesRight, NEW g \in Build!Positions
  PROVE  /\ Build!WiresRead(g) \in Seq(Int) /\ Len(Build!WiresRead(g)) \in 0 .. 2
         /\ Build!GateAt(g).gateType # "aig" => Len(Build!WiresRead(g)) < 2
         /\ Build!GateAt(g).gateType \in {"PI", "constant"} => Len(Build!WiresRead(g)) = 0
         /\ Build!Found(g) \subseteq 1 .. Len(Build!WiresRead(g)) /\ Build!Found(g) \subseteq {1, 2}
         /\ \A p \in {1, 2} : IF p \in Build!Found(g)
                              THEN /\ Build!WiresRead(g)[p] \in DOMAIN MapNumWire
                                   /\ Build!Source(g, p) = MapNumWire[Build!WiresRead(g)[p]]
                                   /\ Build!Source(g, p) \in Build!Positions
                              ELSE Build!Source(g, p) = NoGate
<1>1. theCircuit \in Seq(Entry) /\ g + 1 \in 1 .. Len(theCircuit) /\ Len(theCircuit) \in Nat
  BY DEF EntriesRight, Build!Positions
<1>2. theCircuit[g + 1] \in Entry BY <1>1
<1>3. /\ theCircuit[g + 1].in1Name \in Int /\ theCircuit[g + 1].in2Name \in Int /\ Build!GateAt(g) \in Gate
  BY <1>2 DEF Entry, Build!GateAt
<1>4. /\ Build!WiresRead(g) \in Seq(Int) /\ Len(Build!WiresRead(g)) \in 0 .. 2
      /\ Build!GateAt(g).gateType # "aig" => Len(Build!WiresRead(g)) < 2
      /\ Build!GateAt(g).gateType \in {"PI", "constant"} => Len(Build!WiresRead(g)) = 0
  <2>1. CASE Build!GateAt(g).gateType \in {"PI", "constant"}
    <3>1. Build!WiresRead(g) = << >> BY <2>1 DEF Build!WiresRead
    <3> QED BY <2>1, <3>1
  <2>2. CASE Build!GateAt(g).gateType = "aig"
    <3>1. Build!WiresRead(g) = <<theCircuit[g + 1].in1Name, theCircuit[g + 1].in2Name>> BY <2>2 DEF Build!WiresRead
    <3> QED BY <1>3, <2>2, <3>1
  <2>3. CASE Build!GateAt(g).gateType \notin {"PI", "constant", "aig"}
    <3>1. Build!WiresRead(g) = <<theCircuit[g + 1].in1Name>> BY <2>3 DEF Build!WiresRead
    <3> QED BY <1>3, <2>3, <3>1
  <2> QED BY <2>1, <2>2, <2>3
<1>5. Build!Found(g) \subseteq 1 .. Len(Build!WiresRead(g)) BY DEF Build!Found
<1>6. Build!Found(g) \subseteq {1, 2}
  <2> SUFFICES ASSUME NEW p \in Build!Found(g) PROVE p = 1 \/ p = 2 OBVIOUS
  <2>1. PICK w \in 0 .. 2 : w = Len(Build!WiresRead(g)) BY <1>4
  <2>2. p \in 1 .. w BY <1>5, <2>1
  <2> QED BY <2>1, <2>2
<1>7. ASSUME NEW p \in {1, 2}
      PROVE  IF p \in Build!Found(g)
             THEN /\ Build!WiresRead(g)[p] \in DOMAIN MapNumWire
                  /\ Build!Source(g, p) = MapNumWire[Build!WiresRead(g)[p]]
                  /\ Build!Source(g, p) \in Build!Positions
             ELSE Build!Source(g, p) = NoGate
  <2>1. CASE p \in Build!Found(g)
    <3>1. p \in 1 .. p OBVIOUS
    <3>2. Build!WiresRead(g)[p] \in DOMAIN MapNumWire BY <2>1, <3>1 DEF Build!Found
    <3>3. MapNumWire[Build!WiresRead(g)[p]] \in Build!Positions
      BY <3>2 DEF EntriesRight, FirstKept, Build!Positions
    <3>4. Build!Source(g, p) = MapNumWire[Build!WiresRead(g)[p]] BY <2>1 DEF Build!Source
    <3> QED BY <2>1, <3>2, <3>3, <3>4
  <2>2. CASE p \notin Build!Found(g) BY <2>2, SameGates DEF Build!Source
  <2> QED BY <2>1, <2>2
<1> QED BY <1>4, <1>5, <1>6, <1>7

\* An entry whose gate reads other gates.
Rewired(e, a, b) == [e EXCEPT !.gate = [@ EXCEPT !.fanin1 = a, !.fanin2 = b]]

Reads(x, e, a, b) ==
  /\ x.in1Name = e.in1Name /\ x.in2Name = e.in2Name /\ x.outName = e.outName
  /\ x.gate.gateType = e.gate.gateType /\ x.gate.invIn1 = e.gate.invIn1 /\ x.gate.invOut = e.gate.invOut
  /\ x.gate.fanin1 = a /\ x.gate.fanin2 = b

\* What connecting a gate writes leaves an entry an entry, with its names, type and inverters.
LEMMA FaninsReplaced ==
  ASSUME NEW e \in Entry, NEW a \in Int, NEW b \in Int
  PROVE  /\ Rewired(e, a, b) \in Entry /\ Reads(Rewired(e, a, b), e, a, b)
         /\ [[e EXCEPT !.gate.fanin1 = a] EXCEPT !.gate.fanin2 = b] = Rewired(e, a, b)
<1> DEFINE g == e.gate
           m == [g EXCEPT !.fanin1 = a]
           h == [m EXCEPT !.fanin2 = b]
           d == [e EXCEPT !.gate = m]
           x == [e EXCEPT !.gate = h]
<1>1. g \in Gate BY DEF Entry
<1>2. m \in Gate /\ m.gateType = g.gateType /\ m.invIn1 = g.invIn1 /\ m.invOut = g.invOut /\ m.fanin1 = a
  BY <1>1, SMTT(60) DEF Gate
<1>3. Rewired(e, a, b) = x BY DEF Rewired
<1>4. [e EXCEPT !.gate.fanin1 = a] = d OBVIOUS
<1>5. /\ h \in Gate
      /\ h.gateType = g.gateType /\ h.invIn1 = g.invIn1 /\ h.invOut = g.invOut
      /\ h.fanin1 = a /\ h.fanin2 = b
  <2> HIDE DEF m, g
  <2> QED BY <1>2, SMTT(60) DEF Gate
<1>6. d.gate = m /\ DOMAIN d = DOMAIN e /\ "gate" \in DOMAIN e
  <2> HIDE DEF m, g
  <2> QED BY SMTT(60) DEF Entry
<1>7. [d EXCEPT !.gate.fanin2 = b] = x
  <2>1. [d EXCEPT !.gate.fanin2 = b] = [d EXCEPT !.gate = [d.gate EXCEPT !.fanin2 = b]] OBVIOUS
  <2>2. [d EXCEPT !.gate = [d.gate EXCEPT !.fanin2 = b]] = [d EXCEPT !.gate = h]
    <3> HIDE DEF d
    <3> QED BY <1>6
  <2>3. [d EXCEPT !.gate = h] = x
    <3> HIDE DEF h, m, g
    <3> QED BY <1>6
  <2> QED BY <2>1, <2>2, <2>3
<1>8. x.gate = h /\ x \in Entry /\ x.in1Name = e.in1Name /\ x.in2Name = e.in2Name /\ x.outName = e.outName
  <2> HIDE DEF h, m, g
  <2> QED BY <1>5, SMTT(60) DEF Entry
<1> HIDE DEF x, d, h, m
<1> QED BY <1>3, <1>4, <1>5, <1>7, <1>8 DEF Reads, g

\* One gate is connected.
LEMMA ConnectGateBuilds ==
  ASSUME BuiltInv, Build!connectGate
  PROVE  BuiltInv'
<1>c. PICK c : c = cur OBVIOUS
<1> DEFINE n == Len(theCircuit)
           s1 == Build!Source(c, 1)
           s2 == Build!Source(c, 2)
<1>1. /\ buildPc = "connect" /\ c < n /\ cur' = c + 1 /\ POTemp' = POTemp /\ MapNumWire' = MapNumWire
      /\ theCircuit' = [theCircuit EXCEPT ![c + 1].gate.fanin1 = s1, ![c + 1].gate.fanin2 = s2]
      /\ fanouts' = [h \in DOMAIN fanouts |-> fanouts[h] \o Build!Pushed(h, c)]
      /\ buildPc' = IF Build!Cardinality(Build!Found(c)) < Len(Build!WiresRead(c)) THEN "unconnected" ELSE "connect"
  BY <1>c DEF Build!connectGate, Build!readVars
<1>2. EntriesRight /\ Placed /\ Connected BY <1>1 DEF BuiltInv
<1>3. theCircuit \in Seq(Entry) /\ n \in Nat /\ c \in 0 .. n - 1 /\ c + 1 \in 1 .. n /\ c \in Nat
  BY <1>c, <1>1, <1>2 DEF EntriesRight, Connected
<1>4. c \in Build!Positions BY <1>3 DEF Build!Positions
<1>5. /\ Build!Found(c) \subseteq 1 .. Len(Build!WiresRead(c)) /\ Build!Found(c) \subseteq {1, 2}
      /\ Len(Build!WiresRead(c)) \in 0 .. 2
      /\ \A p \in {1, 2} : IF p \in Build!Found(c) THEN Build!Source(c, p) \in Build!Positions
                           ELSE Build!Source(c, p) = NoGate
  BY <1>2, <1>4, Sources
<1>6. s1 \in Int /\ s2 \in Int BY <1>3, <1>5 DEF Build!Positions, NoGate
<1> HIDE DEF s1, s2
<1>r. /\ Rewired(theCircuit[c + 1], s1, s2) \in Entry /\ Reads(Rewired(theCircuit[c + 1], s1, s2), theCircuit[c + 1], s1, s2)
      /\ [[theCircuit[c + 1] EXCEPT !.gate.fanin1 = s1] EXCEPT !.gate.fanin2 = s2] = Rewired(theCircuit[c + 1], s1, s2)
  <2>1. theCircuit[c + 1] \in Entry BY <1>3
  <2> QED BY ZenonT(60), <1>6, <2>1, FaninsReplaced
<1>7. /\ theCircuit' \in Seq(Entry) /\ Len(theCircuit') = n
      /\ \A k \in 1 .. n : k # c + 1 => theCircuit'[k] = theCircuit[k]
      /\ theCircuit'[c + 1] = Rewired(theCircuit[c + 1], s1, s2)
  <2> DEFINE e == theCircuit[c + 1]
             new == Rewired(e, s1, s2)
  <2>2. new \in Entry BY <1>r
  <2>3. theCircuit' = [theCircuit EXCEPT ![c + 1] = new]
    <3>1. DOMAIN theCircuit' = DOMAIN theCircuit BY <1>1
    <3>2. ASSUME NEW k \in DOMAIN theCircuit PROVE theCircuit'[k] = IF k = c + 1 THEN new ELSE theCircuit[k]
      <4> DEFINE d == [e EXCEPT !.gate.fanin1 = s1]
                 t == [theCircuit EXCEPT ![c + 1] = d]
      <4>1. theCircuit' = [t EXCEPT ![c + 1].gate.fanin2 = s2] BY <1>1
      <4>2. /\ t[k] = IF k = c + 1 THEN d ELSE theCircuit[k]
            /\ DOMAIN t = DOMAIN theCircuit
        <5> HIDE DEF d
        <5> QED OBVIOUS
      <4>3. [d EXCEPT !.gate.fanin2 = s2] = new BY <1>r
      <4> HIDE DEF t, d, new
      <4>4. CASE k = c + 1
        <5>1. theCircuit'[k] = [t[k] EXCEPT !.gate.fanin2 = s2] BY <4>1, <4>2, <4>4
        <5> QED BY <4>2, <4>3, <4>4, <5>1
      <4>5. CASE k # c + 1 BY <4>1, <4>2, <4>5
      <4> QED BY <4>4, <4>5
    <3> HIDE DEF new
    <3> QED BY <1>1, <1>3, <3>1, <3>2
  <2> HIDE DEF new
  <2>4. theCircuit' \in Seq(Entry) /\ Len(theCircuit') = n BY <1>3, <2>2, <2>3
  <2>5. theCircuit'[c + 1] = new BY <1>3, <2>3
  <2>6. \A k \in 1 .. n : k # c + 1 => theCircuit'[k] = theCircuit[k] BY <1>3, <2>3
  <2> QED BY <2>4, <2>5, <2>6 DEF new
<1>8. \A k \in 1 .. n :
        /\ theCircuit'[k].in1Name = theCircuit[k].in1Name /\ theCircuit'[k].in2Name = theCircuit[k].in2Name
        /\ theCircuit'[k].outName = theCircuit[k].outName
        /\ theCircuit'[k].gate.gateType = theCircuit[k].gate.gateType
        /\ theCircuit'[k].gate.invIn1 = theCircuit[k].gate.invIn1
        /\ theCircuit'[k].gate.invOut = theCircuit[k].gate.invOut
  <2> SUFFICES ASSUME NEW k \in 1 .. n
               PROVE  /\ theCircuit'[k].in1Name = theCircuit[k].in1Name /\ theCircuit'[k].in2Name = theCircuit[k].in2Name
                      /\ theCircuit'[k].outName = theCircuit[k].outName
                      /\ theCircuit'[k].gate.gateType = theCircuit[k].gate.gateType
                      /\ theCircuit'[k].gate.invIn1 = theCircuit[k].gate.invIn1
                      /\ theCircuit'[k].gate.invOut = theCircuit[k].gate.invOut
    OBVIOUS
  <2>2. CASE k = c + 1
    <3>1. Reads(theCircuit'[k], theCircuit[k], s1, s2) BY <1>7, <1>r, <2>2
    <3> QED BY <3>1 DEF Reads
  <2>3. CASE k # c + 1 BY <1>7, <2>3
  <2> QED BY <2>2, <2>3
<1>9. Build!Positions' = Build!Positions BY <1>7 DEF Build!Positions
<1>10. \A g \in Build!Positions : g + 1 \in 1 .. n /\ (g + 1 = c + 1 <=> g = c) BY <1>3 DEF Build!Positions
<1>11. \A g \in Build!Positions :
         /\ Build!GateAt(g)'.gateType = Build!GateAt(g).gateType
         /\ Build!WiresRead(g)' = Build!WiresRead(g)
  <2> SUFFICES ASSUME NEW g \in Build!Positions
               PROVE  /\ Build!GateAt(g)'.gateType = Build!GateAt(g).gateType
                      /\ Build!WiresRead(g)' = Build!WiresRead(g)
    OBVIOUS
  <2>1. /\ theCircuit'[g + 1].in1Name = theCircuit[g + 1].in1Name /\ theCircuit'[g + 1].in2Name = theCircuit[g + 1].in2Name
        /\ theCircuit'[g + 1].gate.gateType = theCircuit[g + 1].gate.gateType
    BY <1>8, <1>10
  <2>2. Build!GateAt(g)'.gateType = Build!GateAt(g).gateType BY <2>1 DEF Build!GateAt
  <2> QED BY <2>1, <2>2, SMTT(60) DEF Build!WiresRead
<1>12. \A g \in Build!Positions : Build!Found(g)' = Build!Found(g) BY <1>1, <1>11 DEF Build!Found
<1>13. \A g \in Build!Positions, p \in {1, 2} : Build!Source(g, p)' = Build!Source(g, p)
  BY <1>1, <1>11, <1>12 DEF Build!Source
<1>14. /\ \A g \in Build!Positions : g # c => Build!GateAt(g)' = Build!GateAt(g)
       /\ FaninAt(1, c)' = s1 /\ FaninAt(2, c)' = s2
  <2>1. \A g \in Build!Positions : g # c => Build!GateAt(g)' = Build!GateAt(g) BY <1>7, <1>10 DEF Build!GateAt
  <2>2. Reads(theCircuit'[c + 1], theCircuit[c + 1], s1, s2) BY <1>7, <1>r
  <2>3. Build!GateAt(c)'.fanin1 = s1 /\ Build!GateAt(c)'.fanin2 = s2
    BY <2>2 DEF Build!GateAt, Reads
  <2> QED BY <2>1, <2>3 DEF FaninAt
<1>15. \A g \in Build!Positions, p \in {1, 2} : g # c => FaninAt(p, g)' = FaninAt(p, g)
  BY <1>14 DEF FaninAt
<1>16. EntriesRight'
  <2>1. FirstKept(MapNumWire', theCircuit')
    <3>1. \A k \in 1 .. n : theCircuit'[k].outName = theCircuit[k].outName BY <1>8
    <3>2. FirstKept(MapNumWire, theCircuit) BY <1>2 DEF EntriesRight
    <3>3. DOMAIN MapNumWire = {theCircuit'[k].outName : k \in 1 .. Len(theCircuit')} BY <1>7, <3>1, <3>2 DEF FirstKept
    <3>4. ASSUME NEW wire \in DOMAIN MapNumWire
          PROVE  /\ MapNumWire[wire] \in 0 .. Len(theCircuit') - 1
                 /\ theCircuit'[MapNumWire[wire] + 1].outName = wire
                 /\ \A j \in 1 .. MapNumWire[wire] : theCircuit'[j].outName # wire
      <4>1. /\ MapNumWire[wire] \in 0 .. n - 1 /\ theCircuit[MapNumWire[wire] + 1].outName = wire
            /\ \A j \in 1 .. MapNumWire[wire] : theCircuit[j].outName # wire
        BY <3>2 DEF FirstKept
      <4>2. MapNumWire[wire] + 1 \in 1 .. n /\ \A j \in 1 .. MapNumWire[wire] : j \in 1 .. n BY <1>3, <4>1
      <4> QED BY <1>7, <3>1, <4>1, <4>2
    <3>5. FirstKept(MapNumWire, theCircuit') BY <3>3, <3>4 DEF FirstKept
    <3>6. MapNumWire' = MapNumWire BY <1>1
    <3> QED BY <3>5, <3>6
  <2>2. \A k \in 1 .. n : Flagged(theCircuit'[k].gate) BY <1>2, <1>8 DEF EntriesRight, Flagged
  <2> QED BY <1>1, <1>2, <1>7, <2>1, <2>2 DEF EntriesRight
<1>17. Build!Positions = GateID BY <1>2 DEF Placed, Build!Positions, GateID
<1>18. Placed' BY <1>2, <1>7, <1>11, <1>17 DEF Placed
<1>19. FaninsSet'
  <2>1. \A g \in 0 .. (c + 1) - 1 : g \in Build!Positions /\ (g # c => g \in 0 .. c - 1) BY <1>3 DEF Build!Positions
  <2>2. \A g \in 0 .. (c + 1) - 1 : FaninAt(1, g)' = Build!Source(g, 1)' /\ FaninAt(2, g)' = Build!Source(g, 2)'
    BY <1>c, <1>2, <1>13, <1>14, <1>15, <2>1 DEF Connected, FaninsSet, s1, s2
  <2>3. \A g \in c + 1 .. n - 1 : g \in Build!Positions /\ g # c /\ g \in c .. n - 1 BY <1>3 DEF Build!Positions
  <2>4. \A g \in c + 1 .. n - 1 : Loose(Build!GateAt(g)') BY <1>c, <1>2, <1>14, <2>3 DEF Connected, FaninsSet
  <2> QED BY <1>1, <1>7, <2>2, <2>4 DEF FaninsSet
<1>20. FanoutsSet'
  <2>1. fanouts \in [Build!Positions -> Seq(0 .. c - 1)] BY <1>c, <1>2 DEF Connected, FanoutsSet
  <2> DEFINE pins(h) == {j \in Build!Found(c) : Build!Source(c, j) = h}
             k(h) == Cardinality(pins(h))
  <2>2. \A h \in Build!Positions : k(h) \in Nat
    <3>1. IsFiniteSet({1, 2})
      <4>1. 1 .. 2 = {1, 2} OBVIOUS
      <4>2. 1 \in Int /\ 2 \in Int OBVIOUS
      <4>3. IsFiniteSet(1 .. 2) BY <4>2, FS_Interval
      <4> QED BY <4>1, <4>3
    <3> QED BY <1>5, <3>1, FS_Subset, FS_CardinalityType
  <2>3. \A h \in Build!Positions : fanouts'[h] = fanouts[h] \o Repeated(k(h), c)
    BY <1>1, <2>1, SameCount DEF Build!Pushed, Repeated
  <2> HIDE DEF k
  <2>4. ASSUME NEW h \in Build!Positions
        PROVE  /\ fanouts'[h] \in Seq(0 .. (c + 1) - 1)
               /\ Cardinality(PlacesOf(fanouts'[h], c)) = k(h)
               /\ \A g : g # c => PlacesOf(fanouts'[h], g) = PlacesOf(fanouts[h], g)
    <3>1. fanouts[h] \in Seq(0 .. c - 1) /\ k(h) \in Nat BY <2>1, <2>2
    <3>2. PICK q \in Nat : q = k(h) BY <3>1
    <3>3. PICK r \in Seq(0 .. c - 1) : r = fanouts[h] BY <3>1
    <3>4. PICK t : t = fanouts'[h] OBVIOUS
    <3>5. Pushes(t, r, q, c) BY <2>3, <3>2, <3>3, <3>4 DEF Pushes
    <3>6. c \in Nat /\ q \in Nat /\ r \in Seq(0 .. c - 1) BY <1>3, <3>2, <3>3
    <3>7. t \in Seq(0 .. (c + 1) - 1)
      BY ONLY <3>5, <3>6, PushedCount
    <3>8. Cardinality(PlacesOf(t, c)) = q
      BY ONLY <3>5, <3>6, PushedCount
    <3>9. \A g : g # c => PlacesOf(t, g) = PlacesOf(r, g)
      BY ONLY <3>5, <3>6, PushedCount
    <3> QED BY <3>2, <3>3, <3>4, <3>7, <3>8, <3>9
  <2>5. DOMAIN fanouts' = Build!Positions BY <1>1, <2>1
  <2>6. fanouts' \in [Build!Positions -> Seq(0 .. (c + 1) - 1)]
    <3>1. fanouts' = [h \in Build!Positions |-> fanouts'[h]] BY <1>1, <2>1
    <3>2. \A h \in Build!Positions : fanouts'[h] \in Seq(0 .. (c + 1) - 1) BY <2>4
    <3> QED BY <3>1, <3>2
  <2>7. ASSUME NEW h \in Build!Positions, NEW g \in Build!Positions
        PROVE  Cardinality(PlacesOf(fanouts'[h], g)) =
               Cardinality({p \in {1, 2} : h = FaninAt(p, g)'})
    <3>1. CASE g # c
      <4>1. {p \in {1, 2} : h = FaninAt(p, g)'} = {p \in {1, 2} : h = FaninAt(p, g)} BY <1>15, <3>1
      <4>2. Cardinality(PlacesOf(fanouts[h], g)) = Cardinality({p \in {1, 2} : h = FaninAt(p, g)})
        BY <1>2 DEF Connected, FanoutsSet
      <4> QED BY <2>4, <3>1, <4>1, <4>2
    <3>2. CASE g = c
      <4>1. \A p \in {1, 2} : FaninAt(p, c)' = Build!Source(c, p) BY <1>14 DEF s1, s2
      <4>2. h # NoGate BY DEF Build!Positions, NoGate
      <4>3. {p \in {1, 2} : h = FaninAt(p, c)'} = pins(h)
        <5>1. \A p \in {1, 2} : h = Build!Source(c, p) => p \in Build!Found(c) BY <1>5, <4>2
        <5> QED BY <1>5, <4>1, <5>1
      <4>4. {p \in {1, 2} : h = FaninAt(p, g)'} = pins(h) BY <3>2, <4>3
      <4> QED BY <2>4, <3>2, <4>4 DEF k
    <3> QED BY <3>1, <3>2
  <2> QED BY <1>1, <1>9, <2>6, <2>7 DEF FanoutsSet
<1>21. buildPc' # "unconnected" => \A g \in 0 .. (c + 1) - 1 : Build!Found(g)' = 1 .. Len(Build!WiresRead(g)')
  <2> SUFFICES ASSUME buildPc' # "unconnected", NEW g \in 0 .. (c + 1) - 1
               PROVE  Build!Found(g)' = 1 .. Len(Build!WiresRead(g)')
    OBVIOUS
  <2>1. g \in Build!Positions BY <1>3 DEF Build!Positions
  <2>2. Build!Found(g) = 1 .. Len(Build!WiresRead(g))
    <3>1. CASE g # c
      <4>1. g \in 0 .. c - 1 BY <1>3, <3>1
      <4> QED BY <1>c, <1>1, <1>2, <4>1 DEF Connected
    <3>2. CASE g = c
      <4> DEFINE w == Len(Build!WiresRead(c))
      <4>1. ~ (Cardinality(Build!Found(c)) < w) BY <1>1, SameCount
      <4>2. w \in Nat BY <1>5
      <4> HIDE DEF w
      <4>3. IsFiniteSet(1 .. w) /\ Cardinality(1 .. w) = w
        <5>1. Cardinality(1 .. w) = (IF 1 > w THEN 0 ELSE w - 1 + 1) /\ IsFiniteSet(1 .. w) BY <4>2, FS_Interval
        <5> QED BY <4>2, <5>1
      <4>4. /\ Cardinality(Build!Found(c)) <= w /\ IsFiniteSet(Build!Found(c))
            /\ (w = Cardinality(Build!Found(c)) => 1 .. w = Build!Found(c))
        BY <1>5, <4>3, FS_Subset DEF w
      <4>5. Cardinality(Build!Found(c)) \in Nat BY <4>4, FS_CardinalityType
      <4> QED BY <3>2, <4>1, <4>2, <4>4, <4>5 DEF w
    <3> QED BY <3>1, <3>2
  <2> QED BY <1>11, <1>12, <2>1, <2>2
<1>22. Connected'
  <2>1. cur' \in 0 .. Len(theCircuit') /\ buildPc' \in {"connect", "unconnected"} BY <1>1, <1>3, <1>7
  <2> QED BY <1>1, <1>19, <1>20, <1>21, <2>1 DEF Connected
<1> QED BY <1>16, <1>18, <1>22 DEF BuiltInv

\* What comes behind leaves the gates as they are.
LEMMA TablesKeepGates ==
  ASSUME BuiltInv, Build!sortGateByLevel \/ Build!findInFanins \/ Build!findInPropagationPath \/ Build!findTwoFanouts
  PROVE  BuiltInv'
<1>1. /\ UNCHANGED <<theCircuit, fanouts, MapNumWire, POTemp, cur>>
      /\ buildPc' \notin {"read", "exit", "connect", "unconnected"}
  BY DEF Build!sortGateByLevel, Build!findInFanins, Build!findInPropagationPath, Build!findTwoFanouts, Build!readVars
<1>2. buildPc \notin {"read", "exit", "unconnected"} /\ (cur = Len(theCircuit) \/ buildPc # "connect")
  BY DEF Build!sortGateByLevel, Build!findInFanins, Build!findInPropagationPath, Build!findTwoFanouts
<1>3. EntriesRight /\ Placed /\ Connected /\ cur = Len(theCircuit) BY <1>2 DEF BuiltInv, Connected
<1>4. EntriesRight' BY <1>1, <1>3 DEF EntriesRight, FirstKept
<1>5. Placed' BY <1>1, <1>3 DEF Placed, Build!GateAt
<1>6. FaninsSet'
  <2>1. \A g : Build!GateAt(g)' = Build!GateAt(g) BY <1>1 DEF Build!GateAt
  <2>2. \A g : Build!WiresRead(g)' = Build!WiresRead(g) BY <1>1, <2>1 DEF Build!WiresRead
  <2>3. \A g : Build!Found(g)' = Build!Found(g) BY <1>1, <2>2 DEF Build!Found
  <2>4. \A g, k : Build!Source(g, k)' = Build!Source(g, k) BY <1>1, <2>2, <2>3 DEF Build!Source
  <2>5. \A g, k : FaninAt(g, k)' = FaninAt(g, k) BY <2>1 DEF FaninAt
  <2>6. FaninsSet BY <1>3 DEF Connected
  <2> QED BY <1>1, <2>1, <2>2, <2>3, <2>4, <2>5, <2>6 DEF FaninsSet
<1>7. FanoutsSet'
  BY <1>1, <1>3 DEF Connected, FanoutsSet, FaninAt, Build!GateAt, Build!Positions
<1>8. \A g \in 0 .. cur - 1 : Build!Found(g)' = 1 .. Len(Build!WiresRead(g)')
  BY <1>1, <1>2, <1>3 DEF Connected, Build!Found, Build!WiresRead, Build!GateAt
<1>9. Connected' BY <1>1, <1>3, <1>6, <1>7, <1>8 DEF Connected
<1> QED BY <1>4, <1>5, <1>9 DEF BuiltInv

\* The invariant of the constructor.
BuildInv == ReadInv /\ BuiltInv

\* It holds at first.
LEMMA BuildInitially == Build!FilesAssumption /\ Build!Init => BuildInv
<1>1. Build!Init => buildPc = "read" BY DEF Build!Init
<1> QED BY <1>1, ReadInitially DEF BuildInv, BuiltInv, Build!FilesAssumption

\* Every step of the constructor keeps it.
LEMMA BuildStep == Build!FilesAssumption /\ BuildInv /\ [Build!Next]_(Build!vars) => BuildInv'
<1> SUFFICES ASSUME Build!FilesAssumption, BuildInv, [Build!Next]_(Build!vars) PROVE BuildInv'
  OBVIOUS
<1>0. (\A f \in Files : Build!FileOK(f)) /\ ReadInv /\ BuiltInv BY DEF Build!FilesAssumption, BuildInv
<1>1. CASE Build!readLine
  <2>1. ReadInv' BY <1>0, <1>1, ReadLineKeeps
  <2>2. buildPc' \in {"read", "exit"}
    BY <1>1 DEF Build!readLine, Build!readInputs, Build!readOutputs, Build!readNames, Build!readOther
  <2> QED BY <2>1, <2>2 DEF BuildInv, BuiltInv
<1>2. CASE Build!insertOutputs
  <2>1. PISize \in Nat /\ gateSize \in Nat /\ POSize \in Nat BY SizeAssumption
  <2>2. BuiltInv' BY <1>0, <1>2, <2>1, InsertOutputsBuilds
  <2>3. buildPc' = "connect" BY <1>2 DEF Build!insertOutputs
  <2> QED BY <2>2, <2>3 DEF BuildInv, ReadInv
<1>3. CASE Build!connectGate
  <2>1. BuiltInv' BY <1>0, <1>3, ConnectGateBuilds
  <2>2. buildPc' # "read" BY <1>3 DEF Build!connectGate
  <2> QED BY <2>1, <2>2 DEF BuildInv, ReadInv
<1>4. CASE Build!sortGateByLevel \/ Build!findInFanins \/ Build!findInPropagationPath \/ Build!findTwoFanouts
  <2>1. BuiltInv' BY <1>0, <1>4, TablesKeepGates
  <2>2. buildPc' # "read"
    BY <1>4 DEF Build!sortGateByLevel, Build!findInFanins, Build!findInPropagationPath, Build!findTwoFanouts
  <2> QED BY <2>1, <2>2 DEF BuildInv, ReadInv
<1>5. CASE UNCHANGED Build!vars
  <2>1. /\ file' = file /\ buildPc' = buildPc /\ line' = line /\ stillIn' = stillIn /\ stillOut' = stillOut
        /\ POTemp' = POTemp /\ theCircuit' = theCircuit /\ MapNumWire' = MapNumWire /\ fanouts' = fanouts /\ cur' = cur
    BY <1>5 DEF Build!vars, Build!readVars
  <2>2. EntriesRight' <=> EntriesRight BY <2>1 DEF EntriesRight, FirstKept
  <2>3. ReadInv'
    <3>1. Inputs' = Inputs /\ Names' = Names /\ Outputs' = Outputs BY <2>1 DEF Inputs, Names, Outputs, WireCount
    <3>2. LinesRead' <=> LinesRead BY <2>1 DEF LinesRead
    <3>3. GatesRead' <=> GatesRead BY <2>1, <2>2, <3>1 DEF GatesRead
    <3> QED BY <1>0, <2>1, <2>2, <3>1, <3>2, <3>3 DEF ReadInv
  <2>4. Placed' <=> Placed BY <2>1 DEF Placed, Build!GateAt
  <2>5. FaninsSet' <=> FaninsSet
    BY <2>1 DEF FaninsSet, FaninAt, Build!GateAt, Build!Source, Build!Found, Build!WiresRead
  <2>6. FanoutsSet' <=> FanoutsSet BY <2>1 DEF FanoutsSet, FaninAt, Build!GateAt, Build!Positions
  <2>7. Connected' <=> Connected
    BY <2>1, <2>5, <2>6 DEF Connected, Build!Found, Build!WiresRead, Build!GateAt
  <2>8. BuiltInv' BY <1>0, <2>1, <2>2, <2>4, <2>7 DEF BuiltInv
  <2> QED BY <2>3, <2>8 DEF BuildInv
<1> QED BY <1>1, <1>2, <1>3, <1>4, <1>5 DEF Build!Next

\* Netlists are what they are elsewhere.
LEMMA SameNets ==
  /\ Build!Size = Size /\ Build!GateID = GateID /\ Build!PIs = PIs /\ Build!POs = POs
  /\ \A net, g : Build!Fanins(net, g) = Fanins(net, g)
  /\ \A net : Build!WellFormed(net) <=> WellFormed(net)
<1>1. Build!Size = Size BY DEF Build!Size, Size
<1>2. Build!GateID = GateID /\ Build!PIs = PIs /\ Build!POs = POs
  BY <1>1 DEF Build!GateID, GateID, Build!PIs, PIs, Build!POs, POs
<1>3. \A net, g : Build!Fanins(net, g) = Fanins(net, g) BY DEF Build!Fanins, Fanins
<1> QED BY <1>1, <1>2, <1>3, SameGates DEF Build!WellFormed, WellFormed

\* A gate that reads a wire reads the gate that put it in first.
LEMMA ReadsFirst ==
  ASSUME BuiltInv, buildPc \notin {"read", "exit", "connect", "unconnected"}, NEW g \in GateID, NEW p \in {1, 2}
  PROVE  /\ Build!Positions = GateID
         /\ IF p \in 1 .. Len(Build!WiresRead(g))
            THEN LET f == FaninAt(p, g)
                     wire == Build!WiresRead(g)[p]
                 IN /\ f \in GateID /\ theCircuit[f + 1].outName = wire
                    /\ \A h \in GateID : theCircuit[h + 1].outName = wire => f <= h
            ELSE FaninAt(p, g) = NoGate
<1>1. EntriesRight /\ Placed /\ Connected /\ cur = Len(theCircuit) BY DEF BuiltInv, Connected
<1>2. Len(theCircuit) = Size /\ Build!Positions = GateID BY <1>1 DEF Placed, Build!Positions, GateID
<1>3. g \in 0 .. cur - 1 BY <1>1, <1>2 DEF GateID
<1>4. FaninAt(p, g) = Build!Source(g, p) BY <1>1, <1>3 DEF Connected, FaninsSet
<1>5. Build!Found(g) = 1 .. Len(Build!WiresRead(g)) BY <1>1, <1>3 DEF Connected
<1>6. IF p \in Build!Found(g)
      THEN /\ Build!WiresRead(g)[p] \in DOMAIN MapNumWire
           /\ Build!Source(g, p) = MapNumWire[Build!WiresRead(g)[p]]
      ELSE Build!Source(g, p) = NoGate
  BY <1>1, <1>2, Sources
<1>7. CASE p \in Build!Found(g)
  <2>1. PICK wire : wire = Build!WiresRead(g)[p] OBVIOUS
  <2>2. PICK f : f = FaninAt(p, g) OBVIOUS
  <2>3. wire \in DOMAIN MapNumWire /\ f = MapNumWire[wire] BY <1>4, <1>6, <1>7, <2>1, <2>2
  <2>4. /\ f \in 0 .. Size - 1 /\ theCircuit[f + 1].outName = wire
        /\ \A j \in 1 .. f : theCircuit[j].outName # wire
    BY <1>1, <1>2, <2>3 DEF EntriesRight, FirstKept
  <2>5. ASSUME NEW h \in GateID, theCircuit[h + 1].outName = wire, ~ (f <= h) PROVE FALSE
    <3>1. h + 1 \in 1 .. f BY <2>4, <2>5, SizeNat DEF GateID
    <3> QED BY <2>4, <2>5, <3>1
  <2> QED BY <1>2, <1>5, <1>7, <2>1, <2>2, <2>4, <2>5 DEF GateID
<1>8. CASE p \notin Build!Found(g) BY <1>2, <1>4, <1>5, <1>6, <1>8
<1> QED BY <1>7, <1>8

\* Hence the circuit of a sorted file is well formed.
LEMMA SortedWellFormed ==
  ASSUME BuiltInv, buildPc \notin {"read", "exit", "connect", "unconnected"}, Build!Sorted
  PROVE  WellFormed(Build!Net)
<1>1. EntriesRight /\ Placed /\ Connected BY DEF BuiltInv
<1>2. Build!Net = [g \in GateID |-> Build!GateAt(g)] BY SameNets DEF Build!Net
<1>3. \A g \in GateID : g + 1 \in 1 .. Len(theCircuit) /\ g \in Nat BY <1>1, SizeNat DEF Placed, GateID
<1>4. \A g \in GateID : Build!GateAt(g) \in Gate /\ Flagged(Build!GateAt(g))
  <2> SUFFICES ASSUME NEW g \in GateID PROVE Build!GateAt(g) \in Gate /\ Flagged(Build!GateAt(g)) OBVIOUS
  <2>1. PICK i \in 1 .. Len(theCircuit) : i = g + 1 BY <1>3
  <2>2. theCircuit \in Seq(Entry) /\ Flagged(theCircuit[i].gate) BY <1>1, <2>1 DEF EntriesRight
  <2>3. theCircuit[i] \in Entry BY <2>1, <2>2
  <2>4. theCircuit[i].gate \in Gate BY <2>3 DEF Entry
  <2> QED BY <2>1, <2>2, <2>4 DEF Build!GateAt
<1>5. Build!Net \in [GateID -> Gate] BY <1>2, <1>4
<1>6. ASSUME NEW g \in GateID
      PROVE  LET gate == Build!GateAt(g)
             IN /\ gate.gateType \in {"PI", "constant"} => gate.fanin1 = NoGate
                /\ gate.gateType # "aig" => gate.fanin2 = NoGate
                /\ gate.gateType \in {"aig", "bufInv", "PO"} => gate.fanin1 \in GateID /\ gate.fanin1 < g /\ gate.fanin1 \notin POs
                /\ gate.gateType = "aig" => gate.fanin2 \in GateID /\ gate.fanin2 < g /\ gate.fanin2 \notin POs
  <2>1. Build!Positions = GateID /\ g \in Build!Positions BY ReadsFirst
  <2>2. PICK w \in 0 .. 2 : w = Len(Build!WiresRead(g)) BY <1>1, <2>1, Sources
  <2>3. /\ Build!GateAt(g).gateType # "aig" => w < 2
        /\ Build!GateAt(g).gateType \in {"PI", "constant"} => w = 0
    BY <1>1, <2>1, <2>2, Sources
  <2>4. ASSUME NEW p \in {1, 2}, p \in 1 .. w
        PROVE  FaninAt(p, g) \in GateID /\ FaninAt(p, g) < g /\ FaninAt(p, g) \notin POs
    <3>1. PICK wire : wire = Build!WiresRead(g)[p] OBVIOUS
    <3>2. PICK f : f = FaninAt(p, g) OBVIOUS
    <3>3. f \in GateID /\ \A h \in GateID : theCircuit[h + 1].outName = wire => f <= h
      BY <2>2, <2>4, <3>1, <3>2, ReadsFirst
    <3>4. wire \in Build!NamesRead(g)
      <4>1. CASE Build!GateAt(g).gateType \in {"PI", "constant"} BY <2>3, <2>4, <4>1
      <4>2. CASE Build!GateAt(g).gateType = "aig" BY <3>1, <4>2 DEF Build!WiresRead, Build!NamesRead
      <4>3. CASE Build!GateAt(g).gateType \notin {"PI", "constant", "aig"}
        <5>1. w = 1 /\ p = 1 BY <2>3, <2>4, <4>3
        <5> QED BY <3>1, <4>3, <5>1 DEF Build!WiresRead, Build!NamesRead
      <4> QED BY <4>1, <4>2, <4>3
    <3>5. PICK h \in 0 .. g - 1 : Build!Drives(h, wire) BY <2>1, <3>4 DEF Build!Sorted
    <3>6. h \in GateID /\ h < g BY <1>3, SizeNat DEF GateID
    <3>7. theCircuit[h + 1].outName = wire /\ Build!GateAt(h).gateType # "PO" BY <3>5 DEF Build!Drives
    <3>8. h \notin POs BY <1>1, <3>6, <3>7 DEF Placed
    <3>9. f <= h BY <3>3, <3>6, <3>7
    <3>10. f \in Nat /\ h \in Nat /\ g \in Nat BY <3>3, <3>6, <1>3
    <3>11. f \notin POs BY <3>3, <3>6, <3>8, <3>9, <3>10, SizeAssumption DEF POs, GateID, Size
    <3> QED BY <3>2, <3>3, <3>6, <3>9, <3>10, <3>11
  <2>5. \A p \in {1, 2} : p \notin 1 .. w => FaninAt(p, g) = NoGate BY <2>2, ReadsFirst
  <2>6. Build!GateAt(g).gateType \in {"aig", "bufInv", "PO"} => 1 \in 1 .. w
    BY <2>2, <2>3 DEF Build!WiresRead
  <2>7. Build!GateAt(g).gateType = "aig" => 2 \in 1 .. w BY <2>2 DEF Build!WiresRead
  <2>8. FaninAt(1, g) = Build!GateAt(g).fanin1 /\ FaninAt(2, g) = Build!GateAt(g).fanin2 BY DEF FaninAt
  <2>9. (w = 0 => 1 \notin 1 .. w) /\ (w < 2 => 2 \notin 1 .. w) OBVIOUS
  <2> QED BY <2>3, <2>4, <2>5, <2>6, <2>7, <2>8, <2>9
<1>7. \A g \in GateID : Build!Net[g] = Build!GateAt(g) BY <1>2
<1>8. ASSUME NEW g \in GateID, NEW f \in Fanins(Build!Net, g)
      PROVE  f \in GateID /\ f < g /\ f \notin POs
  BY <1>4, <1>6, <1>7 DEF Fanins, Gate, Type
<1>9. \A g \in GateID : /\ g \in PIs <=> Build!Net[g].gateType = "PI"
                        /\ g \in POs <=> Build!Net[g].gateType = "PO"
  BY <1>1, <1>7 DEF Placed
<1>10. \A g \in GateID :
         /\ Build!Net[g].gateType \in {"PI", "constant"} => Build!Net[g].fanin1 = NoGate
         /\ Build!Net[g].gateType # "aig" => Build!Net[g].fanin2 = NoGate
         /\ Build!Net[g].gateType \in {"PI", "constant", "PO"} => Build!Net[g].invIn1 = 1 /\ Build!Net[g].invOut = 1
  BY <1>4, <1>6, <1>7 DEF Flagged
<1> QED BY <1>5, <1>8, <1>9, <1>10 DEF WellFormed

\* The property follows from the invariant.
LEMMA ConnectionsFollow == BuildInv => Build!ConnectionsExact
<1> SUFFICES ASSUME BuildInv PROVE Build!ConnectionsExact OBVIOUS
<1>1. BuiltInv BY DEF BuildInv
<1>2. Build!FanoutsMirrorFanins
  <2> SUFFICES ASSUME buildPc \notin {"read", "exit"}, NEW g \in Build!Positions, NEW h \in Build!Positions
               PROVE  Build!Cardinality({i \in 1 .. Len(fanouts[g]) : fanouts[g][i] = h}) =
                      Build!Cardinality({p \in {1, 2} : g = IF p = 1 THEN Build!GateAt(h).fanin1 ELSE Build!GateAt(h).fanin2})
    BY DEF Build!FanoutsMirrorFanins
  <2>1. Cardinality(PlacesOf(fanouts[g], h)) = Cardinality({p \in {1, 2} : g = FaninAt(p, h)})
    BY <1>1 DEF BuiltInv, Connected, FanoutsSet
  <2> QED BY <2>1, SameCount DEF PlacesOf, FaninAt
<1>3. Build!SortedFileWellFormed BY <1>1, SortedWellFormed, SameNets DEF Build!SortedFileWellFormed
<1> QED BY <1>2, <1>3 DEF Build!ConnectionsExact

\* Seen from the constructor, what comes behind it is stuttering.
LEMMA ConstructorOrElse == [PreprocessingNext]_allVars => [Build!Next]_(Build!vars)
<1>1. UNCHANGED buildVars => UNCHANGED Build!vars
  BY DEF buildVars, Build!vars, Build!readVars, Build!levelVars, Build!pairVars
<1>2. UNCHANGED allVars => UNCHANGED buildVars
  BY DEF allVars
<1> QED
  BY <1>1, <1>2 DEF PreprocessingNext, Constructor, enterPairing, Pairing, buildVars

\* For every file of this kind: after connectGates, and also where it stopped half
\* way, the fanout pointers are the fanin pointers reversed, once for each input
\* that reads a gate, and a file whose wires are driven before they are read gives
\* a well-formed circuit.
THEOREM ConnectionsAlwaysExact == PreprocessingSpec => []ConnectionsExact
<1>1. PreprocessingInit => BuildInv
  BY BuildInitially, FilesAssumption DEF PreprocessingInit
<1>2. BuildInv /\ [PreprocessingNext]_allVars => BuildInv'
  BY ConstructorOrElse, BuildStep, FilesAssumption
<1>3. BuildInv => ConnectionsExact
  BY ConnectionsFollow DEF ConnectionsExact
<1> QED
  BY <1>1, <1>2, <1>3, PTL DEF PreprocessingSpec

-----------------------------------------------------------------------------
(***************************************************************************)
(* The cones.  Both recursions and both searches of sortGateByLevel exist  *)
(* in a well-formed circuit, and the rounds of findInFanins and            *)
(* findInPropagationPath fill in what they should.                         *)
(***************************************************************************)
\* The two modules have the same cones.
LEMMA SameCones ==
  \A net, g : /\ Build!FaninCone(net, g) = FaninCone(net, g)
              /\ Build!FanoutCone(net, g) = FanoutCone(net, g)
              /\ Build!ReachedFromPI(net, g) <=> ReachedFromPI(net, g)
              /\ Build!RelatedGates(net, g) = RelatedGates(net, g)
<1>1. Build!GateID = GateID /\ Build!PIs = PIs BY SameNets
<1>2. ASSUME NEW net, NEW g PROVE Build!FaninCone(net, g) = FaninCone(net, g)
  BY DEF Build!FaninCone, FaninCone, Build!Fanins, Fanins, Build!GateID, GateID, Build!Size, Size
<1>3. ASSUME NEW net, NEW g PROVE Build!FanoutCone(net, g) = FanoutCone(net, g)
  BY <1>1, <1>2 DEF Build!FanoutCone, FanoutCone
<1>4. ASSUME NEW net, NEW g PROVE Build!ReachedFromPI(net, g) <=> ReachedFromPI(net, g)
  BY <1>1, <1>2 DEF Build!ReachedFromPI, ReachedFromPI
<1>5. ASSUME NEW net, NEW g PROVE Build!RelatedGates(net, g) = RelatedGates(net, g)
  BY <1>1, <1>2, <1>3, <1>4 DEF Build!RelatedGates, RelatedGates
<1> QED BY <1>2, <1>3, <1>4, <1>5

\* The constructor is behind connectGates, and the circuit is well formed.
Behind ==
  BuiltInv /\ buildPc \notin {"read", "exit", "unconnected"} /\ (buildPc = "connect" => cur = Len(theCircuit)) /\ WellFormed(Build!Net)

\* The pointers of the gates are those of the netlist.
LEMMA NetPointers ==
  ASSUME Behind
  PROVE  /\ Build!Positions = GateID /\ Len(theCircuit) = Size
         /\ Build!OfType({"PI"}) = PIs /\ Build!OfType({"PO"}) = POs
         /\ \A g \in GateID : /\ Build!GateAt(g) = Build!Net[g]
                              /\ Build!FaninsAt(g) = Fanins(Build!Net, g)
                              /\ Build!FanoutsAt(g) = Fanouts(Build!Net, g)
<1>1. Placed /\ Connected /\ cur = Len(theCircuit) BY DEF Behind, BuiltInv, Connected
<1>2. Len(theCircuit) = Size /\ Build!Positions = GateID BY <1>1 DEF Placed, Build!Positions, GateID
<1>3. \A g \in GateID : Build!Net[g] = Build!GateAt(g) BY SameNets DEF Build!Net
<1>4. Build!OfType({"PI"}) = PIs /\ Build!OfType({"PO"}) = POs
  <2>1. PIs \subseteq GateID /\ POs \subseteq GateID BY SizeAssumption DEF PIs, POs, GateID, Size
  <2> QED BY <1>1, <1>2, <2>1 DEF Build!OfType, Placed
<1>5. ASSUME NEW g \in GateID PROVE Build!FaninsAt(g) = Fanins(Build!Net, g)
  <2>1. PICK gate : gate = Build!Net[g] OBVIOUS
  <2>2. /\ gate \in Gate
        /\ gate.gateType \in {"PI", "constant"} => gate.fanin1 = NoGate
        /\ gate.gateType # "aig" => gate.fanin2 = NoGate
        /\ \A f \in Fanins(Build!Net, g) : f \in GateID
    BY <2>1 DEF Behind, WellFormed
  <2>3. Build!FaninsAt(g) = {gate.fanin1, gate.fanin2} \ {NoGate} BY <1>3, <2>1 DEF Build!FaninsAt, Build!NoGate, NoGate
  <2>4. NoGate \notin GateID BY SizeNat DEF NoGate, GateID
  <2>5. gate.gateType \in Type BY <2>2 DEF Gate
  <2> QED BY <2>1, <2>2, <2>3, <2>4, <2>5 DEF Fanins, Type
<1>6. ASSUME NEW g \in GateID PROVE Build!FanoutsAt(g) = Fanouts(Build!Net, g)
  <2>1. PICK s : s = fanouts[g] OBVIOUS
  <2>2. s \in Seq(0 .. cur - 1) BY <1>1, <1>2, <2>1 DEF Connected, FanoutsSet
  <2>3. ASSUME NEW h \in GateID
        PROVE  (\E i \in 1 .. Len(s) : s[i] = h) <=> g \in Build!FaninsAt(h)
    <3>1. Cardinality(PlacesOf(s, h)) = Cardinality({p \in {1, 2} : g = FaninAt(p, h)})
      BY <1>1, <1>2, <2>1 DEF Connected, FanoutsSet
    <3>2. IsFiniteSet(PlacesOf(s, h))
      <4>1. Len(s) \in Nat /\ PlacesOf(s, h) \subseteq 1 .. Len(s) BY <2>2 DEF PlacesOf
      <4>2. 1 \in Int /\ Len(s) \in Int BY <4>1
      <4>3. IsFiniteSet(1 .. Len(s)) BY <4>2, FS_Interval
      <4> QED BY <4>1, <4>3, FS_Subset
    <3>3. IsFiniteSet({p \in {1, 2} : g = FaninAt(p, h)})
      <4>1. IsFiniteSet({1, 2})
        <5>1. IsFiniteSet({}) /\ IsFiniteSet({1}) BY FS_EmptySet, FS_Singleton
        <5>2. {1, 2} = {1} \cup {2} OBVIOUS
        <5> QED BY <5>1, <5>2, FS_AddElement
      <4> QED BY <4>1, FS_Subset
    <3>4. PlacesOf(s, h) = {} <=> {p \in {1, 2} : g = FaninAt(p, h)} = {} BY <3>1, <3>2, <3>3, FS_EmptySet
    <3>5. g \in Build!FaninsAt(h) <=> \E p \in {1, 2} : g = FaninAt(p, h)
      <4>1. g # NoGate BY SizeNat DEF NoGate, GateID
      <4> QED BY <4>1 DEF Build!FaninsAt, FaninAt, Build!NoGate, NoGate
    <3> QED BY <3>4, <3>5 DEF PlacesOf
  <2>4. \A i \in 1 .. Len(s) : s[i] \in GateID BY <1>1, <1>2, <2>2 DEF GateID
  <2>5. Build!FanoutsAt(g) = {s[i] : i \in 1 .. Len(s)} BY <2>1 DEF Build!FanoutsAt
  <2>6. \A h \in GateID : g \in Build!FaninsAt(h) <=> g \in Fanins(Build!Net, h) BY <1>5
  <2> QED BY <2>3, <2>4, <2>5, <2>6 DEF Fanouts
<1> QED BY <1>2, <1>3, <1>4, <1>5, <1>6

\* A search in rounds: what it has found after each.
Rounds(V, step, a, n) == {v \in [0 .. n -> V] : v[0] = a /\ \A i \in 1 .. n : v[i] = step[v[i - 1]]}

\* n rounds of a search: there is such a sequence, by induction on n.
LEMMA RoundsExist ==
  ASSUME NEW V, NEW step \in [V -> V], NEW a \in V, NEW n \in Nat
  PROVE  Rounds(V, step, a, n) # {}
<1> DEFINE Runs(v, m) == v[0] = a /\ \A i \in 1 .. m : v[i] = step[v[i - 1]]
           Reached == {m \in 0 .. n : \E v \in [0 .. m -> V] : Runs(v, m)}
<1>1. ASSUME NEW m \in 0 .. n, \A k \in 0 .. n : k < m => k \in Reached
      PROVE  m \in Reached
  <2>1. CASE m = 0
    <3>1. PICK v : v = [i \in 0 .. 0 |-> a] OBVIOUS
    <3>2. v \in [0 .. 0 -> V] /\ Runs(v, 0) BY <3>1
    <3> QED BY <2>1, <3>2
  <2>2. CASE m # 0
    <3>1. m - 1 \in 0 .. n /\ m - 1 < m BY <2>2
    <3>2. m - 1 \in Reached BY <1>1, <3>1
    <3>3. PICK v \in [0 .. m - 1 -> V] : Runs(v, m - 1) BY <3>2
    <3>4. PICK w : w = [i \in 0 .. m |-> IF i = m THEN step[v[m - 1]] ELSE v[i]] OBVIOUS
    <3>5. v[m - 1] \in V /\ step[v[m - 1]] \in V BY <3>1, <3>3
    <3>6. w \in [0 .. m -> V]
      <4>1. \A i \in 0 .. m : i # m => i \in 0 .. m - 1 OBVIOUS
      <4> QED BY <3>3, <3>4, <3>5, <4>1
    <3>7. w[0] = a BY <2>2, <3>3, <3>4
    <3>8. ASSUME NEW i \in 1 .. m PROVE w[i] = step[w[i - 1]]
      <4>1. i \in 0 .. m /\ i - 1 \in 0 .. m /\ i - 1 # m OBVIOUS
      <4>2. w[i - 1] = v[i - 1] BY <3>4, <4>1
      <4>3. CASE i = m BY <3>4, <4>1, <4>2, <4>3
      <4>4. CASE i # m
        <5>1. i \in 1 .. m - 1 BY <4>4
        <5> QED BY <3>3, <3>4, <4>1, <4>2, <4>4, <5>1
      <4> QED BY <4>3, <4>4
    <3> QED BY <3>6, <3>7, <3>8
  <2> QED BY <2>1, <2>2
<1> HIDE DEF Reached
<1>2. n + 1 \in Nat /\ 0 .. (n + 1) - 1 = 0 .. n OBVIOUS
<1>3. \A m \in 0 .. n : m \in Reached BY <1>1, <1>2, Induction
<1>4. n \in Reached BY <1>3
<1> QED BY <1>4 DEF Reached, Rounds

\* What a search in rounds finds: a set that is closed under neighbours, holds
\* the start, and whose other gates have a neighbour before them that leads to them.
Widens(v, nb, S) == v[0] = S /\ \A i \in 1 .. Size : v[i] = v[i - 1] \cup UNION {nb[g] : g \in v[i - 1]}
Reachable(T, nb, S, rank) ==
  /\ S \subseteq T
  /\ \A g \in T : nb[g] \subseteq T
  /\ \A g \in T \ S : \E f \in T : g \in nb[f] /\ rank[f] < rank[g]

\* Size rounds of widening reach everything that can be reached.
LEMMA RoundsFind ==
  ASSUME NEW nb \in [GateID -> SUBSET GateID], NEW S, NEW T \in SUBSET GateID, NEW rank \in [GateID -> GateID],
         NEW v, Widens(v, nb, S), Reachable(T, nb, S, rank)
  PROVE  v[Size] = T
<1> USE DEF Widens, Reachable
<1> DEFINE Inside == {i \in 0 .. Size : v[i] \subseteq T}
<1>1. ASSUME NEW i \in 0 .. Size, \A k \in 0 .. Size : k < i => k \in Inside PROVE i \in Inside
  <2>1. CASE i = 0 BY <2>1
  <2>2. CASE i # 0
    <3>1. i - 1 \in 0 .. Size /\ i - 1 < i /\ i \in 1 .. Size BY <2>2, SizeNat
    <3>2. v[i - 1] \subseteq T BY <1>1, <3>1
    <3> QED BY <3>1, <3>2
  <2> QED BY <2>1, <2>2
<1> HIDE DEF Inside
<1>2. Size + 1 \in Nat /\ 0 .. (Size + 1) - 1 = 0 .. Size BY SizeNat
<1>3. \A i \in 0 .. Size : i \in Inside BY <1>1, <1>2, Induction
<1>4. v[Size] \subseteq T BY <1>3, SizeNat DEF Inside
<1> DEFINE Grown == {i \in 0 .. Size : \A k \in 0 .. i : v[k] \subseteq v[i]}
<1>5. ASSUME NEW i \in 0 .. Size, \A k \in 0 .. Size : k < i => k \in Grown PROVE i \in Grown
  <2>1. CASE i = 0 BY <2>1
  <2>2. CASE i # 0
    <3>1. i - 1 \in 0 .. Size /\ i - 1 < i /\ i \in 1 .. Size BY <2>2, SizeNat
    <3>2. \A k \in 0 .. i - 1 : v[k] \subseteq v[i - 1] BY <1>5, <3>1
    <3>3. v[i - 1] \subseteq v[i] BY <3>1
    <3>4. \A k \in 0 .. i : k = i \/ k \in 0 .. i - 1 OBVIOUS
    <3> QED BY <3>2, <3>3, <3>4
  <2> QED BY <2>1, <2>2
<1> HIDE DEF Grown
<1>6. \A i \in 0 .. Size : i \in Grown BY <1>2, <1>5, Induction
<1> DEFINE Met == {i \in GateID : \A g \in T : rank[g] = i => g \in v[i]}
<1>7. ASSUME NEW i \in GateID, \A k \in GateID : k < i => k \in Met PROVE i \in Met
  <2> SUFFICES ASSUME NEW g \in T, rank[g] = i PROVE g \in v[i] OBVIOUS
  <2>1. i \in 0 .. Size /\ 0 \in 0 .. i BY SizeNat DEF GateID
  <2>2. CASE g \in S
    <3>1. v[0] \subseteq v[i] BY <1>6, <2>1 DEF Grown
    <3> QED BY <2>2, <3>1
  <2>3. CASE g \notin S
    <3>1. PICK f \in T : g \in nb[f] /\ rank[f] < rank[g] BY <2>3
    <3>2. rank[f] \in GateID /\ rank[f] < i BY <3>1
    <3>3. PICK r \in 0 .. Size - 1 : r = rank[f] BY <3>2 DEF GateID
    <3>4. f \in v[r] BY <1>7, <3>2, <3>3 DEF GateID
    <3>5. r + 1 \in 1 .. Size /\ r + 1 \in 0 .. i /\ (r + 1) - 1 = r BY <2>1, <3>2, <3>3, SizeNat
    <3>6. g \in v[r + 1] BY <3>1, <3>4, <3>5
    <3>7. v[r + 1] \subseteq v[i] BY <1>6, <2>1, <3>5 DEF Grown
    <3> QED BY <3>6, <3>7
  <2> QED BY <2>2, <2>3
<1> HIDE DEF Met
<1>8. \A i \in GateID : i \in Met BY <1>7, GateInduction
<1>9. ASSUME NEW g \in T PROVE g \in v[Size]
  <2>1. rank[g] \in GateID /\ rank[g] \in 0 .. Size /\ Size \in 0 .. Size BY SizeNat DEF GateID
  <2>2. g \in v[rank[g]] BY <1>8, <2>1 DEF Met
  <2>3. v[rank[g]] \subseteq v[Size] BY <1>6, <2>1 DEF Grown
  <2> QED BY <2>2, <2>3
<1> QED BY <1>4, <1>9

\* The depth-first searches of sortGateByLevel and checkInPath2 visit the fanin
\* cones of where they start, or what is behind it.
LEMMA SearchesFind ==
  ASSUME Behind, NEW S \in SUBSET GateID
  PROVE  /\ Build!Visited(S, Build!FaninsAt) = {g \in GateID : \E s \in S : g \in FaninCone(Build!Net, s)}
         /\ Build!Visited(S, Build!FanoutsAt) = {g \in GateID : \E s \in S : s \in FaninCone(Build!Net, g)}
<1>1. PICK net : net = Build!Net OBVIOUS
<1>2. WellFormed(net) BY <1>1 DEF Behind
<1>3. Len(theCircuit) = Size /\ \A g \in GateID : Build!FaninsAt(g) = Fanins(net, g) /\ Build!FanoutsAt(g) = Fanouts(net, g)
  BY <1>1, NetPointers
<1>4. S \in SUBSET GateID /\ Size \in Nat BY SizeNat
<1>5. Build!Visited(S, Build!FaninsAt) = {g \in GateID : \E s \in S : g \in FaninCone(net, s)}
  <2> DEFINE nb == [g \in GateID |-> Fanins(net, g)]
             T == {g \in GateID : \E s \in S : g \in FaninCone(net, s)}
             rank == [g \in GateID |-> Size - 1 - g]
             step == [X \in SUBSET GateID |-> X \cup UNION {nb[g] : g \in X}]
             Round(v) == [n \in 0 .. Size |-> IF n = 0 THEN S ELSE v[n - 1] \cup UNION {Build!FaninsAt(g) : g \in v[n - 1]}]
             found == CHOOSE v : v = Round(v)
  <2>1. nb \in [GateID -> SUBSET GateID] BY <1>2, FaninsPrecede
  <2>2. step \in [SUBSET GateID -> SUBSET GateID]
    <3>1. \A X \in SUBSET GateID : X \cup UNION {nb[g] : g \in X} \in SUBSET GateID BY <2>1
    <3> HIDE DEF nb
    <3> QED BY <3>1
  <2>3. \A X \in SUBSET GateID : UNION {Build!FaninsAt(g) : g \in X} = UNION {nb[g] : g \in X} BY <1>3
  <2>4. \A X \in SUBSET GateID : step[X] = X \cup UNION {nb[g] : g \in X} OBVIOUS
  <2>5. Build!Visited(S, Build!FaninsAt) = found[Size] BY <1>3 DEF Build!Visited
  <2> HIDE DEF nb, step
  <2>6. PICK v \in [0 .. Size -> SUBSET GateID] : v[0] = S /\ \A i \in 1 .. Size : v[i] = step[v[i - 1]]
    
    <3>1. PICK st, V, n : st = step /\ V = SUBSET GateID /\ n = Size OBVIOUS
    <3>2. st \in [V -> V] /\ S \in V /\ n \in Nat BY <1>4, <2>2, <3>1
    <3>3. Rounds(V, st, S, n) # {} BY <3>2, RoundsExist
    <3> QED BY <3>1, <3>3 DEF Rounds
  <2>7. v = Round(v)
    <3>1. \A i \in 0 .. Size : v[i] = IF i = 0 THEN S ELSE v[i - 1] \cup UNION {Build!FaninsAt(g) : g \in v[i - 1]}
      <4> SUFFICES ASSUME NEW i \in 1 .. Size
                   PROVE  v[i] = v[i - 1] \cup UNION {Build!FaninsAt(g) : g \in v[i - 1]}
        BY <2>6
      <4>1. v[i - 1] \in SUBSET GateID BY <1>4, <2>6
      <4> QED BY <2>3, <2>4, <2>6, <4>1
    <3> QED BY <2>6, <3>1
  <2> HIDE DEF Round
  <2>8. found = Round(found) BY <2>7
  <2> HIDE DEF found
  <2>9. found[0] = S /\ \A i \in 1 .. Size : found[i] = found[i - 1] \cup UNION {Build!FaninsAt(g) : g \in found[i - 1]}
    BY <1>4, <2>8 DEF Round
  <2>10. ASSUME NEW i \in 0 .. Size, \A k \in 0 .. Size : k < i => found[k] \in SUBSET GateID PROVE found[i] \in SUBSET GateID
    <3>1. CASE i = 0 BY <2>9, <3>1
    <3>2. CASE i # 0
      <4>1. i - 1 \in 0 .. Size /\ i - 1 < i /\ i \in 1 .. Size BY <1>4, <3>2
      <4>2. found[i - 1] \in SUBSET GateID BY <2>10, <4>1
      <4>3. UNION {nb[g] : g \in found[i - 1]} \in SUBSET GateID BY <2>1, <4>2
      <4>4. found[i] = found[i - 1] \cup UNION {nb[g] : g \in found[i - 1]} BY <2>3, <2>9, <4>1, <4>2
      <4> QED BY <4>2, <4>3, <4>4
    <3> QED BY <3>1, <3>2
  <2>11. \A i \in 0 .. Size : found[i] \in SUBSET GateID
    <3> DEFINE Gates == {i \in 0 .. Size : found[i] \in SUBSET GateID}
    <3>1. \A i \in 0 .. Size : (\A k \in 0 .. Size : k < i => k \in Gates) => i \in Gates BY <2>10
    <3> HIDE DEF Gates
    <3>2. Size + 1 \in Nat /\ 0 .. (Size + 1) - 1 = 0 .. Size BY <1>4
    <3>3. \A i \in 0 .. Size : i \in Gates BY <3>1, <3>2, Induction
    <3> QED BY <3>3 DEF Gates
  <2>12. \A i \in 1 .. Size : found[i] = found[i - 1] \cup UNION {nb[g] : g \in found[i - 1]}
    <3> SUFFICES ASSUME NEW i \in 1 .. Size
                 PROVE  found[i] = found[i - 1] \cup UNION {nb[g] : g \in found[i - 1]}
      OBVIOUS
    <3>1. i - 1 \in 0 .. Size BY <1>4
    <3>2. found[i - 1] \in SUBSET GateID BY <2>11, <3>1
    <3> QED BY <2>3, <2>9, <3>2
  <2>13. \A g \in GateID : nb[g] = Fanins(net, g) BY DEF nb
  <2>14. rank \in [GateID -> GateID] BY <1>4 DEF GateID
  <2>15. S \subseteq T BY <1>2, ConeClosed
  <2>16. T \in SUBSET GateID OBVIOUS
  <2>17. ASSUME NEW g \in T PROVE nb[g] \subseteq T
    <3>1. PICK s \in S : g \in FaninCone(net, s) OBVIOUS
    <3>2. Fanins(net, g) \subseteq FaninCone(net, s) /\ FaninCone(net, s) \subseteq GateID BY <1>2, <3>1, ConeClosed
    <3> QED BY <2>13, <3>2
  <2>18. ASSUME NEW g \in T \ S PROVE \E f \in T : g \in nb[f] /\ rank[f] < rank[g]
    <3>1. PICK s \in S : g \in FaninCone(net, s) OBVIOUS
    <3>2. s # g /\ s \in FanoutCone(net, g) BY <3>1 DEF FanoutCone
    <3>3. PICK h \in Fanouts(net, g) : s \in FanoutCone(net, h) BY <1>2, <3>2, FanoutConeFront
    <3>4. h \in GateID /\ g \in Fanins(net, h) /\ h \in FaninCone(net, s) BY <3>3 DEF Fanouts, FanoutCone
    <3>5. g < h BY <1>2, <3>4, FaninsPrecede
    <3>6. h \in T /\ g \in nb[h] BY <2>13, <3>4
    <3>7. rank[h] = Size - 1 - h /\ rank[g] = Size - 1 - g BY <3>4
    <3>8. g \in Int /\ h \in Int /\ Size \in Int BY <1>4, <3>4 DEF GateID
    <3> HIDE DEF rank, T
    <3> QED BY <3>5, <3>6, <3>7, <3>8
  <2> HIDE DEF rank, T
  <2>19. found[Size] = T
    <3>1. found[0] = S BY <2>9
    <3>2. \A g \in T : nb[g] \subseteq T BY <2>17
    <3>3. \A g \in T \ S : \E f \in T : g \in nb[f] /\ rank[f] < rank[g] BY <2>18
    <3>4. PICK fo, neighbours, t, r : fo = found /\ neighbours = nb /\ t = T /\ r = rank OBVIOUS
    <3>5. /\ neighbours \in [GateID -> SUBSET GateID] /\ t \in SUBSET GateID /\ r \in [GateID -> GateID]
          /\ Widens(fo, neighbours, S)
          /\ Reachable(t, neighbours, S, r)
      BY <2>1, <2>12, <2>14, <2>15, <2>16, <3>1, <3>2, <3>3, <3>4 DEF Widens, Reachable
    <3>6. fo[Size] = t BY <3>5, RoundsFind
    <3> QED BY <3>4, <3>6
  <2> QED BY <2>5, <2>19 DEF T
<1>6. Build!Visited(S, Build!FanoutsAt) = {g \in GateID : \E s \in S : s \in FaninCone(net, g)}
  <2> DEFINE nb == [g \in GateID |-> Fanouts(net, g)]
             T == {g \in GateID : \E s \in S : s \in FaninCone(net, g)}
             rank == [g \in GateID |-> g]
             step == [X \in SUBSET GateID |-> X \cup UNION {nb[g] : g \in X}]
             Round(v) == [n \in 0 .. Size |-> IF n = 0 THEN S ELSE v[n - 1] \cup UNION {Build!FanoutsAt(g) : g \in v[n - 1]}]
             found == CHOOSE v : v = Round(v)
  <2>1. nb \in [GateID -> SUBSET GateID] BY DEF Fanouts
  <2>2. step \in [SUBSET GateID -> SUBSET GateID]
    <3>1. \A X \in SUBSET GateID : X \cup UNION {nb[g] : g \in X} \in SUBSET GateID BY <2>1
    <3> HIDE DEF nb
    <3> QED BY <3>1
  <2>3. \A X \in SUBSET GateID : UNION {Build!FanoutsAt(g) : g \in X} = UNION {nb[g] : g \in X} BY <1>3
  <2>4. \A X \in SUBSET GateID : step[X] = X \cup UNION {nb[g] : g \in X} OBVIOUS
  <2>5. Build!Visited(S, Build!FanoutsAt) = found[Size] BY <1>3 DEF Build!Visited
  <2> HIDE DEF nb, step
  <2>6. PICK v \in [0 .. Size -> SUBSET GateID] : v[0] = S /\ \A i \in 1 .. Size : v[i] = step[v[i - 1]]
    
    <3>1. PICK st, V, n : st = step /\ V = SUBSET GateID /\ n = Size OBVIOUS
    <3>2. st \in [V -> V] /\ S \in V /\ n \in Nat BY <1>4, <2>2, <3>1
    <3>3. Rounds(V, st, S, n) # {} BY <3>2, RoundsExist
    <3> QED BY <3>1, <3>3 DEF Rounds
  <2>7. v = Round(v)
    <3>1. \A i \in 0 .. Size : v[i] = IF i = 0 THEN S ELSE v[i - 1] \cup UNION {Build!FanoutsAt(g) : g \in v[i - 1]}
      <4> SUFFICES ASSUME NEW i \in 1 .. Size
                   PROVE  v[i] = v[i - 1] \cup UNION {Build!FanoutsAt(g) : g \in v[i - 1]}
        BY <2>6
      <4>1. v[i - 1] \in SUBSET GateID BY <1>4, <2>6
      <4> QED BY <2>3, <2>4, <2>6, <4>1
    <3> QED BY <2>6, <3>1
  <2> HIDE DEF Round
  <2>8. found = Round(found) BY <2>7
  <2> HIDE DEF found
  <2>9. found[0] = S /\ \A i \in 1 .. Size : found[i] = found[i - 1] \cup UNION {Build!FanoutsAt(g) : g \in found[i - 1]}
    BY <1>4, <2>8 DEF Round
  <2>10. ASSUME NEW i \in 0 .. Size, \A k \in 0 .. Size : k < i => found[k] \in SUBSET GateID PROVE found[i] \in SUBSET GateID
    <3>1. CASE i = 0 BY <2>9, <3>1
    <3>2. CASE i # 0
      <4>1. i - 1 \in 0 .. Size /\ i - 1 < i /\ i \in 1 .. Size BY <1>4, <3>2
      <4>2. found[i - 1] \in SUBSET GateID BY <2>10, <4>1
      <4>3. UNION {nb[g] : g \in found[i - 1]} \in SUBSET GateID BY <2>1, <4>2
      <4>4. found[i] = found[i - 1] \cup UNION {nb[g] : g \in found[i - 1]} BY <2>3, <2>9, <4>1, <4>2
      <4> QED BY <4>2, <4>3, <4>4
    <3> QED BY <3>1, <3>2
  <2>11. \A i \in 0 .. Size : found[i] \in SUBSET GateID
    <3> DEFINE Gates == {i \in 0 .. Size : found[i] \in SUBSET GateID}
    <3>1. \A i \in 0 .. Size : (\A k \in 0 .. Size : k < i => k \in Gates) => i \in Gates BY <2>10
    <3> HIDE DEF Gates
    <3>2. Size + 1 \in Nat /\ 0 .. (Size + 1) - 1 = 0 .. Size BY <1>4
    <3>3. \A i \in 0 .. Size : i \in Gates BY <3>1, <3>2, Induction
    <3> QED BY <3>3 DEF Gates
  <2>12. \A i \in 1 .. Size : found[i] = found[i - 1] \cup UNION {nb[g] : g \in found[i - 1]}
    <3> SUFFICES ASSUME NEW i \in 1 .. Size
                 PROVE  found[i] = found[i - 1] \cup UNION {nb[g] : g \in found[i - 1]}
      OBVIOUS
    <3>1. i - 1 \in 0 .. Size BY <1>4
    <3>2. found[i - 1] \in SUBSET GateID BY <2>11, <3>1
    <3> QED BY <2>3, <2>9, <3>2
  <2>13. \A g \in GateID : nb[g] = Fanouts(net, g) BY DEF nb
  <2>14. rank \in [GateID -> GateID] BY <1>4 DEF GateID
  <2>15. S \subseteq T BY <1>2, ConeClosed
  <2>16. T \in SUBSET GateID OBVIOUS
  <2>17. ASSUME NEW g \in T PROVE nb[g] \subseteq T
    <3>1. PICK s \in S : s \in FaninCone(net, g) OBVIOUS
    <3>2. SUFFICES ASSUME NEW h \in Fanouts(net, g) PROVE h \in T BY <2>13
    <3>3. h \in GateID /\ g \in Fanins(net, h) BY DEF Fanouts
    <3>4. s \in FaninCone(net, h) BY <1>2, <3>1, <3>3, ConeEquation
    <3> QED BY <3>3, <3>4
  <2>18. ASSUME NEW g \in T \ S PROVE \E f \in T : g \in nb[f] /\ rank[f] < rank[g]
    <3>1. PICK s \in S : s \in FaninCone(net, g) OBVIOUS
    <3>2. PICK f \in Fanins(net, g) : s \in FaninCone(net, f)
      <4>1. s # g OBVIOUS
      <4>2. FaninCone(net, g) = {g} \cup UNION {FaninCone(net, x) : x \in Fanins(net, g)} BY <1>2, ConeEquation
      <4> QED BY <3>1, <4>1, <4>2
    <3>3. f \in GateID /\ f < g BY <1>2, FaninsPrecede
    <3>4. f \in T /\ g \in nb[f]
      <4>1. g \in Fanouts(net, f) BY <3>2 DEF Fanouts
      <4> QED BY <2>13, <3>2, <3>3, <4>1
    <3> QED BY <3>3, <3>4
  <2> HIDE DEF rank, T
  <2>19. found[Size] = T
    <3>1. found[0] = S BY <2>9
    <3>2. \A g \in T : nb[g] \subseteq T BY <2>17
    <3>3. \A g \in T \ S : \E f \in T : g \in nb[f] /\ rank[f] < rank[g] BY <2>18
    <3>4. PICK fo, neighbours, t, r : fo = found /\ neighbours = nb /\ t = T /\ r = rank OBVIOUS
    <3>5. /\ neighbours \in [GateID -> SUBSET GateID] /\ t \in SUBSET GateID /\ r \in [GateID -> GateID]
          /\ Widens(fo, neighbours, S)
          /\ Reachable(t, neighbours, S, r)
      BY <2>1, <2>12, <2>14, <2>15, <2>16, <3>1, <3>2, <3>3, <3>4 DEF Widens, Reachable
    <3>6. fo[Size] = t BY <3>5, RoundsFind
    <3> QED BY <3>4, <3>6
  <2> QED BY <2>5, <2>19 DEF T
<1> QED BY <1>1, <1>5, <1>6

Above(v, H) == Build!Deepest({v[h] : h \in H})
LevelsKnown(v, H) == \A h \in H : v[h] \in Nat

\* Of finitely many levels one is the highest, and Deepest is one above it.
LEMMA DeepestAbove ==
  ASSUME NEW v, NEW H \in SUBSET GateID, LevelsKnown(v, H)
  PROVE  Above(v, H) \in Nat /\ \A h \in H : v[h] < Above(v, H)
<1> USE DEF LevelsKnown
<1> DEFINE Top(K) == \E m \in K : \A h \in K : v[h] <= v[m]
           Good == {i \in 0 .. Size : \A K \in SUBSET H : K # {} /\ (\A h \in K : h < i) => Top(K)}
<1>1. ASSUME NEW i \in 0 .. Size, \A k \in 0 .. Size : k < i => k \in Good PROVE i \in Good
  <2> SUFFICES ASSUME NEW K \in SUBSET H, K # {}, \A h \in K : h < i PROVE Top(K) OBVIOUS
  <2>1. \A h \in K : h \in GateID /\ h \in Nat /\ v[h] \in Nat BY SizeNat
  <2>2. i # 0 BY <2>1
  <2>3. i - 1 \in 0 .. Size /\ i - 1 < i BY <2>2, SizeNat
  <2>4. \A L \in SUBSET H : L # {} /\ (\A h \in L : h < i - 1) => Top(L) BY <1>1, <2>3
  <2>5. \A h \in K : h = i - 1 \/ h < i - 1 BY <2>1, <2>3
  <2>6. CASE i - 1 \notin K
    <3>1. \A h \in K : h < i - 1 BY <2>5, <2>6
    <3> HIDE DEF Top
    <3> QED BY <2>4, <3>1
  <2>7. CASE K = {i - 1}
    <3>1. \A h \in K : v[h] <= v[i - 1] BY <2>1, <2>7
    <3> QED BY <2>7, <3>1
  <2>8. CASE i - 1 \in K /\ K # {i - 1}
    <3> DEFINE L == K \ {i - 1}
    <3>1. L \in SUBSET H /\ L # {} /\ \A h \in L : h < i - 1 BY <2>5, <2>8
    <3>2. Top(L)
      <4> HIDE DEF Top, L
      <4> QED BY <2>4, <3>1
    <3>3. PICK m \in L : \A h \in L : v[h] <= v[m] BY <3>2
    <3>4. v[m] \in Nat /\ v[i - 1] \in Nat BY <2>1, <2>8
    <3>5. CASE v[i - 1] <= v[m]
      <4>1. \A h \in K : v[h] <= v[m] BY <3>3, <3>5
      <4> QED BY <4>1
    <3>6. CASE v[m] < v[i - 1]
      <4>1. \A h \in K : v[h] <= v[i - 1] BY <2>1, <3>3, <3>4, <3>6
      <4> QED BY <2>8, <4>1
    <3> QED BY <3>4, <3>5, <3>6
  <2> QED BY <2>6, <2>7, <2>8
<1> HIDE DEF Good
<1>2. Size + 1 \in Nat /\ 0 .. (Size + 1) - 1 = 0 .. Size /\ Size \in 0 .. Size BY SizeNat
<1>3. \A i \in 0 .. Size : i \in Good BY <1>1, <1>2, Induction
<1>4. Size \in Good BY <1>2, <1>3
<1>5. \A h \in H : h < Size BY SizeNat DEF GateID
<1>6. H # {} => Top(H) BY <1>4, <1>5 DEF Good
<1>7. CASE H = {} BY <1>7 DEF Build!Deepest, Above
<1>8. CASE H # {}
  <2>1. PICK S : S = {v[h] : h \in H} OBVIOUS
  <2>2. PICK m \in H : \A h \in H : v[h] <= v[m] BY <1>6, <1>8
  <2>3. S # {} /\ S \subseteq Nat BY <1>8, <2>1
  <2>4. \E d \in S : \A e \in S : e <= d BY <2>1, <2>2
  <2>5. PICK c : c = CHOOSE d \in S : \A e \in S : e <= d OBVIOUS
  <2>6. c \in S /\ \A e \in S : e <= c BY <2>4, <2>5
  <2>7. Build!Deepest(S) = 1 + c BY <2>3, <2>5 DEF Build!Deepest
  <2>8. c \in Nat /\ \A h \in H : v[h] <= c /\ v[h] \in Nat BY <2>1, <2>3, <2>6
  <2>9. Above(v, H) = 1 + c BY <2>1, <2>7 DEF Above
  <2> QED BY <2>8, <2>9
<1> QED BY <1>7, <1>8

\* Gates in an order of ranks, each behind its neighbours.
Ranked(nb, rank) ==
  /\ nb \in [GateID -> SUBSET GateID] /\ rank \in [GateID -> GateID]
  /\ \A g \in GateID : rank[rank[g]] = g
  /\ \A g \in GateID, f \in GateID : f \in nb[g] => rank[f] < rank[g]

Depths(d, nb) == d = [g \in GateID |-> Build!Deepest({d[f] : f \in nb[g]})]

\* Levels of such gates exist ...
LEMMA DepthsExist ==
  ASSUME NEW nb, NEW rank, Ranked(nb, rank)
  PROVE  \E d : Depths(d, nb)
<1> USE DEF Ranked
<1> DEFINE V == Nat
           Out(v, i) == Build!Deepest({v[rank[f]] : f \in nb[rank[i]]})
           Step == [x \in [GateID -> V] \X GateID |-> Out(x[1], x[2])]
<1>1. ASSUME NEW v \in [GateID -> V], NEW i \in GateID PROVE Out(v, i) \in V
  <2>1. PICK H : H = nb[rank[i]] /\ H \in SUBSET GateID OBVIOUS
  <2>2. PICK w : w = [f \in GateID |-> v[rank[f]]] OBVIOUS
  <2>3. {w[f] : f \in H} = {v[rank[f]] : f \in H} /\ \A f \in H : w[f] \in Nat BY <2>1, <2>2
  <2>4. Build!Deepest({w[f] : f \in H}) \in Nat
    <3>1. LevelsKnown(w, H) BY <2>3 DEF LevelsKnown
    <3>2. Above(w, H) \in Nat BY <2>1, <3>1, DeepestAbove
    <3> QED BY <3>2 DEF Above
  <2> QED BY <2>1, <2>3, <2>4
<1>2. ASSUME NEW v \in [GateID -> V], NEW w \in [GateID -> V], NEW i \in GateID, \A j \in GateID : j < i => v[j] = w[j]
      PROVE  Out(v, i) = Out(w, i)
  <2>1. \A f \in nb[rank[i]] : f \in GateID /\ rank[f] \in GateID /\ rank[f] < i OBVIOUS
  <2>2. \A f \in nb[rank[i]] : v[rank[f]] = w[rank[f]] BY <1>2, <2>1
  <2>3. {v[rank[f]] : f \in nb[rank[i]]} = {w[rank[f]] : f \in nb[rank[i]]} BY <2>2
  <2> QED BY <2>3
<1> HIDE DEF Out
<1>3. \A v \in [GateID -> V], i \in GateID : Step[<<v, i>>] = Out(v, i) OBVIOUS
<1>4. Step \in [[GateID -> V] \X GateID -> V]
  <2>1. \A x \in [GateID -> V] \X GateID : x[1] \in [GateID -> V] /\ x[2] \in GateID OBVIOUS
  <2> HIDE DEF V
  <2> QED BY <1>1, <2>1
<1> HIDE DEF Step
<1>5. OrderedStep(V, Step)
  <2>1. V # {} OBVIOUS
  <2> HIDE DEF V
  <2>2. ASSUME NEW v \in [GateID -> V], NEW w \in [GateID -> V], NEW i \in GateID,
               \A j \in GateID : j < i => v[j] = w[j]
        PROVE  Step[<<v, i>>] = Step[<<w, i>>]
    BY <1>2, <1>3, <2>2
  <2> QED BY <1>4, <2>1, <2>2 DEF OrderedStep
<1> HIDE DEF V
<1>6. PICK v \in Solutions(V, Step) : TRUE BY <1>5, RecursionExists
<1>7. \A i \in GateID : v[i] = Out(v, i) BY <1>3, <1>6 DEF Solutions
<1>8. PICK d : d = [g \in GateID |-> v[rank[g]]] OBVIOUS
<1>9. ASSUME NEW g \in GateID PROVE d[g] = Build!Deepest({d[f] : f \in nb[g]})
  <2>1. d[g] = Build!Deepest({v[rank[f]] : f \in nb[g]})
    <3>1. rank[g] \in GateID /\ rank[rank[g]] = g OBVIOUS
    <3>2. d[g] = Out(v, rank[g]) BY <1>7, <1>8, <3>1
    <3> QED BY <3>1, <3>2 DEF Out
  <2>2. \A f \in nb[g] : d[f] = v[rank[f]] BY <1>8
  <2>3. {v[rank[f]] : f \in nb[g]} = {d[f] : f \in nb[g]} BY <2>2
  <2> QED BY <2>1, <2>3
<1>10. d = [g \in GateID |-> Build!Deepest({d[f] : f \in nb[g]})] BY <1>8, <1>9
<1> QED BY <1>10 DEF Depths

\* ... and every gate is above its neighbours.
LEMMA DepthsRise ==
  ASSUME NEW nb, NEW rank, Ranked(nb, rank), NEW d, Depths(d, nb)
  PROVE  /\ d \in [GateID -> Nat]
         /\ \A g \in GateID : \A f \in nb[g] : d[f] < d[g]
<1> USE DEF Ranked
<1>1. \A g \in GateID : d[g] = Build!Deepest({d[f] : f \in nb[g]}) BY DEF Depths
<1> DEFINE Typed == {i \in GateID : d[rank[i]] \in Nat}
<1>2. ASSUME NEW i \in GateID, \A k \in GateID : k < i => k \in Typed PROVE i \in Typed
  <2>1. PICK H : H = nb[rank[i]] /\ H \in SUBSET GateID OBVIOUS
  <2>2. \A f \in H : rank[f] \in GateID /\ rank[f] < i /\ rank[rank[f]] = f BY <2>1
  <2>3. \A f \in H : d[f] \in Nat BY <1>2, <2>2
  <2>4. Build!Deepest({d[f] : f \in H}) \in Nat
    <3>1. LevelsKnown(d, H) BY <2>3 DEF LevelsKnown
    <3>2. Above(d, H) \in Nat BY <2>1, <3>1, DeepestAbove
    <3> QED BY <3>2 DEF Above
  <2> QED BY <1>1, <2>1, <2>4
<1> HIDE DEF Typed
<1>3. \A i \in GateID : i \in Typed BY <1>2, GateInduction
<1>4. \A g \in GateID : d[g] \in Nat BY <1>3 DEF Typed
<1>5. d \in [GateID -> Nat] BY <1>4 DEF Depths
<1>6. ASSUME NEW g \in GateID, NEW f \in nb[g] PROVE d[f] < d[g]
  <2>1. PICK H : H = nb[g] /\ H \in SUBSET GateID OBVIOUS
  <2>2. \A h \in H : d[h] < Build!Deepest({d[k] : k \in H})
    <3>1. LevelsKnown(d, H) BY <1>4, <2>1 DEF LevelsKnown
    <3>2. \A h \in H : d[h] < Above(d, H) BY <2>1, <3>1, DeepestAbove
    <3> QED BY <3>2 DEF Above
  <2> QED BY <1>1, <2>1, <2>2
<1> QED BY <1>5, <1>6

\* assignLevelToGate and assignReverseLevelToGate place every gate above its
\* fanins, and above its fanouts.
LEMMA LevelsRise ==
  ASSUME Behind
  PROVE  /\ Build!level \in [GateID -> Nat]
         /\ \A g \in GateID : \A f \in Fanins(Build!Net, g) : Build!level[f] < Build!level[g]
         /\ Build!reverseLevel \in [GateID -> Nat]
         /\ \A g \in GateID : \A h \in Fanouts(Build!Net, g) : Build!reverseLevel[h] < Build!reverseLevel[g]
<1>1. PICK net : net = Build!Net OBVIOUS
<1>2. WellFormed(net) BY <1>1 DEF Behind
<1>3. /\ Build!Positions = GateID
      /\ \A g \in GateID : /\ Build!FaninsAt(g) = Fanins(net, g) /\ Build!FanoutsAt(g) = Fanouts(net, g)
                           /\ Build!GateAt(g) = net[g]
  BY <1>1, NetPointers
<1>4. Build!level \in [GateID -> Nat] /\ \A g \in GateID : \A f \in Fanins(net, g) : Build!level[f] < Build!level[g]
  <2>1. PICK nb : nb = [g \in GateID |-> Fanins(net, g)] OBVIOUS
  <2>2. PICK rank : rank = [g \in GateID |-> g] OBVIOUS
  <2>3. Ranked(nb, rank)
    <3>1. \A g \in GateID : \A f \in Fanins(net, g) : f \in GateID /\ f < g BY <1>2, FaninsPrecede
    <3> QED BY <2>1, <2>2, <3>1 DEF Ranked
  <2> DEFINE L(d) == [g \in Build!Positions |-> Build!Deepest({d[f] : f \in Build!FaninsAt(g)})]
  <2>4. ASSUME NEW d PROVE d = L(d) <=> Depths(d, nb)
    <3>1. \A g \in GateID : {d[f] : f \in Build!FaninsAt(g)} = {d[f] : f \in nb[g]} BY <1>3, <2>1
    <3>2. L(d) = [g \in GateID |-> Build!Deepest({d[f] : f \in nb[g]})] BY <1>3, <3>1
    <3> HIDE DEF L
    <3> QED BY <3>2 DEF Depths
  <2>5. PICK d : Depths(d, nb) BY <2>3, DepthsExist
  <2>6. d = L(d) BY <2>4, <2>5
  <2>7. Build!level = CHOOSE c : c = L(c) BY DEF Build!level
  <2> HIDE DEF L
  <2>8. Build!level = L(Build!level) BY <2>6, <2>7
  <2>9. PICK l : l = Build!level OBVIOUS
  <2>10. Depths(l, nb) BY <2>4, <2>8, <2>9
  <2>11. l \in [GateID -> Nat] /\ \A g \in GateID : \A f \in nb[g] : l[f] < l[g] BY <2>3, <2>10, DepthsRise
  <2> QED BY <2>1, <2>9, <2>11
<1>5. /\ Build!reverseLevel \in [GateID -> Nat]
      /\ \A g \in GateID : \A h \in Fanouts(net, g) : Build!reverseLevel[h] < Build!reverseLevel[g]
  <2>1. PICK nb : nb = [g \in GateID |-> Fanouts(net, g)] OBVIOUS
  <2>2. PICK rank : rank = [g \in GateID |-> Size - 1 - g] OBVIOUS
  <2>3. Ranked(nb, rank)
    <3>1. \A g \in GateID : Size - 1 - g \in GateID /\ Size - 1 - (Size - 1 - g) = g BY SizeNat DEF GateID
    <3>2. rank \in [GateID -> GateID] /\ \A g \in GateID : rank[rank[g]] = g BY <2>2, <3>1
    <3>3. nb \in [GateID -> SUBSET GateID] BY <2>1 DEF Fanouts
    <3>4. ASSUME NEW g \in GateID, NEW h \in GateID, h \in nb[g] PROVE rank[h] < rank[g]
      <4>1. g < h BY <1>2, <2>1, <3>4, FaninsPrecede DEF Fanouts
      <4>2. g \in Int /\ h \in Int /\ Size \in Int BY SizeNat DEF GateID
      <4> QED BY <2>2, <4>1, <4>2
    <3> QED BY <3>2, <3>3, <3>4 DEF Ranked
  <2> DEFINE L(d) == [g \in Build!Positions |->
                        IF Build!GateAt(g).gateType = "PO" THEN 0 ELSE Build!Deepest({d[h] : h \in Build!FanoutsAt(g)})]
  <2>4. ASSUME NEW d PROVE d = L(d) <=> Depths(d, nb)
    <3>1. \A g \in GateID : {d[h] : h \in Build!FanoutsAt(g)} = {d[h] : h \in nb[g]} BY <1>3, <2>1
    <3>2. ASSUME NEW g \in GateID, Build!GateAt(g).gateType = "PO" PROVE Build!Deepest({d[h] : h \in nb[g]}) = 0
      <4>1. g \in POs BY <1>2, <1>3, <3>2 DEF WellFormed
      <4>2. nb[g] = {} BY <1>2, <2>1, <4>1, FanoutConeFront
      <4> QED BY <4>2 DEF Build!Deepest
    <3>3. L(d) = [g \in GateID |-> Build!Deepest({d[h] : h \in nb[g]})] BY <1>3, <3>1, <3>2
    <3> HIDE DEF L
    <3> QED BY <3>3 DEF Depths
  <2>5. PICK d : Depths(d, nb) BY <2>3, DepthsExist
  <2>6. d = L(d) BY <2>4, <2>5
  <2>7. Build!reverseLevel = CHOOSE c : c = L(c) BY DEF Build!reverseLevel
  <2> HIDE DEF L
  <2>8. Build!reverseLevel = L(Build!reverseLevel) BY <2>6, <2>7
  <2>9. PICK l : l = Build!reverseLevel OBVIOUS
  <2>10. Depths(l, nb) BY <2>4, <2>8, <2>9
  <2>11. l \in [GateID -> Nat] /\ \A g \in GateID : \A f \in nb[g] : l[f] < l[g] BY <2>3, <2>10, DepthsRise
  <2> QED BY <2>1, <2>9, <2>11
<1> QED BY <1>1, <1>4, <1>5

\* The gates that reach an output have an entry in the end; those reached from an
\* input are merged with what is behind them.
Seen(net) == {g \in GateID : FanoutCone(net, g) \cap POs # {}}
Reached(net) == {g \in GateID : ReachedFromPI(net, g)}

LevelsLeft(map, S, lev) ==
  /\ DOMAIN map \subseteq Nat
  /\ map = [n \in DOMAIN map |-> {g \in S : lev[g] = n}]

\* findInFanins: the gates of the levels that are gone have their fanin cones.
FaninsFilled(net, lev, hei) ==
  /\ LevelsLeft(levelToGate, Seen(net), lev)
  /\ gateToRelatedGates = [g \in {x \in Seen(net) : lev[x] \notin DOMAIN levelToGate} |-> FaninCone(net, g)]
  /\ LevelsLeft(reverseLevelToGate, Reached(net), hei)
  /\ \A g \in Reached(net) : hei[g] \in DOMAIN reverseLevelToGate

\* findInPropagationPath: those of the levels that are gone have all they should.
PathsFilled(net, hei) ==
  /\ LevelsLeft(reverseLevelToGate, Reached(net), hei)
  /\ 0 \in Seen(net) =>
       gateToRelatedGates = [g \in Seen(net) |->
                               IF g \in Reached(net) /\ hei[g] \notin DOMAIN reverseLevelToGate
                               THEN RelatedGates(net, g) ELSE FaninCone(net, g)]

ConesSoFar(net, lev, hei) ==
  /\ buildPc = "fanins" => FaninsFilled(net, lev, hei)
  /\ buildPc = "paths" => PathsFilled(net, hei)
  /\ buildPc \in {"twoFanouts", "done"} /\ 0 \in Seen(net) =>
       gateToRelatedGates = [g \in Seen(net) |-> RelatedGates(net, g)]

\* A circuit, its levels in both directions, and the pointers of the program.
Given(net, lev, hei) ==
  /\ WellFormed(net)
  /\ lev \in [GateID -> Nat] /\ \A g \in GateID : \A f \in Fanins(net, g) : lev[f] < lev[g]
  /\ hei \in [GateID -> Nat] /\ \A g \in GateID : \A h \in Fanouts(net, g) : hei[h] < hei[g]
Pointers(net) ==
  \A g \in GateID : /\ Build!FaninsAt(g) = Fanins(net, g) /\ Build!FanoutsAt(g) = Fanouts(net, g)
                    /\ Build!GateAt(g) = net[g]

\* The lowest level of those left.
LEMMA LowestLeft ==
  ASSUME NEW map, NEW S, NEW lev, LevelsLeft(map, S, lev), map # Build!EmptyMap
  PROVE  Build!Lowest(map) \in DOMAIN map /\ \A m \in DOMAIN map : Build!Lowest(map) <= m
<1>1. DOMAIN map # {} BY DEF LevelsLeft, Build!EmptyMap
<1>2. \E n \in DOMAIN map : \A m \in DOMAIN map : n <= m
  <2>1. PICK D : D = DOMAIN map OBVIOUS
  <2>2. D \in SUBSET Nat /\ D # {} BY <1>1, <2>1 DEF LevelsLeft
  <2> QED BY <2>1, <2>2, LeastNumber
<1> QED BY <1>2 DEF Build!Lowest

\* ... is taken away.
LEMMA LowestTaken ==
  ASSUME NEW map, NEW S, NEW lev, LevelsLeft(map, S, lev), NEW n \in DOMAIN map
  PROVE  LevelsLeft(Build!Without(map, n), S, lev) /\ DOMAIN Build!Without(map, n) = DOMAIN map \ {n}
BY DEF LevelsLeft, Build!Without

\* What reaches an output or is reached from an input, one gate further.
LEMMA SeenAndReached ==
  ASSUME NEW net, WellFormed(net), NEW g \in GateID
  PROVE  /\ g \in Seen(net) => Fanins(net, g) \subseteq Seen(net)
         /\ g \in Reached(net) => Fanouts(net, g) \subseteq Reached(net)
<1>1. ASSUME g \in Seen(net), NEW f \in Fanins(net, g) PROVE f \in Seen(net)
  <2>1. PICK p \in POs : p \in FanoutCone(net, g) BY <1>1 DEF Seen
  <2>2. p \in GateID /\ g \in FaninCone(net, p) BY <2>1 DEF FanoutCone
  <2>3. f \in FaninCone(net, p) BY <1>1, <2>2, ConeClosed
  <2>4. f \in GateID BY <1>1, FaninsPrecede
  <2> QED BY <2>1, <2>2, <2>3, <2>4 DEF Seen, FanoutCone
<1>2. ASSUME g \in Reached(net), NEW h \in Fanouts(net, g) PROVE h \in Reached(net)
  <2>1. h \in GateID /\ g \in Fanins(net, h) BY <1>2 DEF Fanouts
  <2>2. FaninCone(net, g) \subseteq FaninCone(net, h) BY <2>1, ConeEquation
  <2> QED BY <1>2, <2>1, <2>2 DEF Reached, ReachedFromPI
<1> QED BY <1>1, <1>2

\* The related gates of a gate are its cone and those of its fanouts.
LEMMA RelatedGatesFront ==
  ASSUME NEW net, WellFormed(net), NEW g \in GateID
  PROVE  /\ g \in Reached(net) =>
              RelatedGates(net, g) = FaninCone(net, g) \cup UNION {RelatedGates(net, h) : h \in Fanouts(net, g)}
         /\ g \notin Reached(net) => RelatedGates(net, g) = FaninCone(net, g)
         /\ g \in POs => RelatedGates(net, g) = FaninCone(net, g)
<1>1. FaninCone(net, g) \subseteq GateID BY ConeClosed
<1>2. g \notin Reached(net) => RelatedGates(net, g) = FaninCone(net, g) BY <1>1 DEF RelatedGates, Reached
<1>3. ASSUME g \in Reached(net)
      PROVE  RelatedGates(net, g) = FaninCone(net, g) \cup UNION {RelatedGates(net, h) : h \in Fanouts(net, g)}
  <2>1. FanoutCone(net, g) = {g} \cup UNION {FanoutCone(net, k) : k \in Fanouts(net, g)} BY FanoutConeFront
  <2>2. \A h \in Fanouts(net, g) : h \in GateID /\ ReachedFromPI(net, h) BY <1>3, SeenAndReached DEF Reached
  <2>3. ReachedFromPI(net, g) BY <1>3 DEF Reached
  <2>4. ASSUME NEW x \in RelatedGates(net, g)
        PROVE  x \in FaninCone(net, g) \cup UNION {RelatedGates(net, h) : h \in Fanouts(net, g)}
    <3>1. x \in GateID BY DEF RelatedGates
    <3>2. CASE x \notin FaninCone(net, g)
      <4>1. PICK y \in FanoutCone(net, g) : x \in FaninCone(net, y) BY <3>2 DEF RelatedGates
      <4>2. y # g BY <3>2, <4>1
      <4>3. PICK h \in Fanouts(net, g) : y \in FanoutCone(net, h) BY <2>1, <4>1, <4>2
      <4>4. x \in RelatedGates(net, h) BY <2>2, <3>1, <4>1, <4>3 DEF RelatedGates
      <4> QED BY <4>3, <4>4
    <3> QED BY <3>2
  <2>5. ASSUME NEW h \in Fanouts(net, g), NEW x \in RelatedGates(net, h) PROVE x \in RelatedGates(net, g)
    <3>1. x \in GateID BY DEF RelatedGates
    <3>2. FanoutCone(net, h) \subseteq FanoutCone(net, g) BY <2>1
    <3>3. h \in FanoutCone(net, h) BY <2>2, FanoutConeFront
    <3> QED BY <2>3, <3>1, <3>2, <3>3 DEF RelatedGates
  <2>6. FaninCone(net, g) \subseteq RelatedGates(net, g) BY <1>1 DEF RelatedGates
  <2> QED BY <2>4, <2>5, <2>6
<1>4. ASSUME g \in POs PROVE RelatedGates(net, g) = FaninCone(net, g)
  <2>1. Fanouts(net, g) = {} BY <1>4, FanoutConeFront
  <2> QED BY <1>2, <1>3, <2>1
<1> QED BY <1>2, <1>3, <1>4

\* A round of findInFanins, or its end.
LEMMA FindInFaninsFills ==
  ASSUME NEW net, NEW lev, NEW hei, Given(net, lev, hei), Pointers(net),
         buildPc = "fanins", FaninsFilled(net, lev, hei), Build!findInFanins
  PROVE  ConesSoFar(net, lev, hei)'
<1>0. WellFormed(net) BY DEF Given
<1>1. reverseLevelToGate' = reverseLevelToGate BY DEF Build!findInFanins
<1>2. CASE levelToGate = Build!EmptyMap
  <2>1. buildPc' = "paths" /\ gateToRelatedGates' = gateToRelatedGates BY <1>2 DEF Build!findInFanins
  <2>2. gateToRelatedGates = [g \in Seen(net) |-> FaninCone(net, g)]
    <3>1. DOMAIN levelToGate = {} BY <1>2 DEF Build!EmptyMap
    <3>2. {x \in Seen(net) : lev[x] \notin DOMAIN levelToGate} = Seen(net) BY <3>1
    <3> QED BY <3>2 DEF FaninsFilled
  <2>3. [g \in Seen(net) |-> IF g \in Reached(net) /\ hei[g] \notin DOMAIN reverseLevelToGate
                             THEN RelatedGates(net, g) ELSE FaninCone(net, g)]
          = [g \in Seen(net) |-> FaninCone(net, g)]
    BY DEF FaninsFilled
  <2>4. PathsFilled(net, hei) BY <2>2, <2>3 DEF PathsFilled, FaninsFilled
  <2>5. PathsFilled(net, hei)' BY <1>1, <2>1, <2>4 DEF PathsFilled
  <2> QED BY <2>1, <2>5 DEF ConesSoFar
<1>3. CASE levelToGate # Build!EmptyMap
  <2>1. PICK n : n = Build!Lowest(levelToGate) OBVIOUS
  <2>2. PICK left : left = DOMAIN levelToGate OBVIOUS
  <2>3. LevelsLeft(levelToGate, Seen(net), lev) BY DEF FaninsFilled
  <2>4. n \in left /\ \A m \in left : n <= m
    <3>1. PICK map : map = levelToGate OBVIOUS
    <3>2. LevelsLeft(map, Seen(net), lev) /\ map # Build!EmptyMap BY <1>3, <2>3, <3>1
    <3>3. PICK seen : seen = Seen(net) OBVIOUS
    <3>4. LevelsLeft(map, seen, lev) BY <3>2, <3>3
    <3>5. Build!Lowest(map) \in DOMAIN map /\ \A m \in DOMAIN map : Build!Lowest(map) <= m BY <3>2, <3>4, LowestLeft
    <3> QED BY <2>1, <2>2, <3>1, <3>5
  <2>5. levelToGate' = Build!Without(levelToGate, n) BY <1>3, <2>1 DEF Build!findInFanins
  <2>6. LevelsLeft(levelToGate', Seen(net), lev) /\ DOMAIN levelToGate' = left \ {n}
    <3>1. PICK map, seen : map = levelToGate /\ seen = Seen(net) OBVIOUS
    <3>2. LevelsLeft(map, seen, lev) /\ n \in DOMAIN map BY <2>2, <2>3, <2>4, <3>1
    <3>3. LevelsLeft(Build!Without(map, n), seen, lev) /\ DOMAIN Build!Without(map, n) = DOMAIN map \ {n}
      BY <3>2, LowestTaken
    <3> QED BY <2>2, <2>5, <3>1, <3>3
  <2>7. /\ buildPc' = buildPc
        /\ gateToRelatedGates' = [g \in DOMAIN gateToRelatedGates \cup levelToGate[n] |->
                                    IF g \in levelToGate[n] THEN {g} \cup UNION {Build!Related(f) : f \in Build!FaninsAt(g)}
                                    ELSE gateToRelatedGates[g]]
    BY <1>3, <2>1 DEF Build!findInFanins
  <2>8. levelToGate[n] = {g \in Seen(net) : lev[g] = n} BY <2>2, <2>3, <2>4 DEF LevelsLeft
  <2>9. gateToRelatedGates = [g \in {x \in Seen(net) : lev[x] \notin left} |-> FaninCone(net, g)] BY <2>2 DEF FaninsFilled
  <2>10. DOMAIN gateToRelatedGates \cup levelToGate[n] = {x \in Seen(net) : lev[x] \notin left \ {n}} BY <2>4, <2>8, <2>9
  <2>11. ASSUME NEW g \in levelToGate[n]
         PROVE  {g} \cup UNION {Build!Related(f) : f \in Build!FaninsAt(g)} = FaninCone(net, g)
    <3>1. g \in Seen(net) /\ lev[g] = n /\ g \in GateID BY <2>8 DEF Seen
    <3>2. Build!FaninsAt(g) = Fanins(net, g) BY <3>1 DEF Pointers
    <3>3. ASSUME NEW f \in Fanins(net, g) PROVE Build!Related(f) = FaninCone(net, f)
      <4>1. f \in Seen(net) BY <1>0, <3>1, SeenAndReached
      <4>2. lev[f] < n /\ lev[f] \in Nat /\ lev[g] \in Nat
        <5>1. f \in GateID BY <4>1 DEF Seen
        <5> QED BY <3>1, <5>1 DEF Given
      <4>3. lev[f] \notin left
        <5>1. \A m \in left : n <= m BY <2>4
        <5> QED BY <3>1, <4>2, <5>1
      <4>4. f \in DOMAIN gateToRelatedGates /\ gateToRelatedGates[f] = FaninCone(net, f) BY <2>9, <4>1, <4>3
      <4> QED BY <4>4 DEF Build!Related
    <3>4. {Build!Related(f) : f \in Build!FaninsAt(g)} = {FaninCone(net, f) : f \in Fanins(net, g)} BY <3>2, <3>3
    <3>5. FaninCone(net, g) = {g} \cup UNION {FaninCone(net, f) : f \in Fanins(net, g)} BY <1>0, <3>1, ConeEquation
    <3> QED BY <3>4, <3>5
  <2>12. \A g \in DOMAIN gateToRelatedGates : gateToRelatedGates[g] = FaninCone(net, g) BY <2>9
  <2>13. gateToRelatedGates' = [g \in {x \in Seen(net) : lev[x] \notin left \ {n}} |-> FaninCone(net, g)]
    <3>1. \A g \in DOMAIN gateToRelatedGates \cup levelToGate[n] :
            (IF g \in levelToGate[n] THEN {g} \cup UNION {Build!Related(f) : f \in Build!FaninsAt(g)} ELSE gateToRelatedGates[g])
               = FaninCone(net, g)
      BY <2>11, <2>12
    <3> QED BY <2>7, <2>10, <3>1
  <2>14. FaninsFilled(net, lev, hei)' BY <1>1, <2>6, <2>13 DEF FaninsFilled
  <2> QED BY <2>7, <2>14 DEF ConesSoFar
<1> QED BY <1>2, <1>3

\* A round of findInPropagationPath, or its end.
LEMMA FindInPropagationPathFills ==
  ASSUME NEW net, NEW lev, NEW hei, Given(net, lev, hei), Pointers(net),
         buildPc = "paths", PathsFilled(net, hei), Build!findInPropagationPath
  PROVE  ConesSoFar(net, lev, hei)'
<1>0. WellFormed(net) BY DEF Given
<1>1. CASE reverseLevelToGate = Build!EmptyMap
  <2>1. buildPc' = "twoFanouts" /\ gateToRelatedGates' = gateToRelatedGates BY <1>1 DEF Build!findInPropagationPath
  <2>2. DOMAIN reverseLevelToGate = {} BY <1>1 DEF Build!EmptyMap
  <2>3. ASSUME NEW g \in Seen(net)
        PROVE  (IF g \in Reached(net) /\ hei[g] \notin DOMAIN reverseLevelToGate THEN RelatedGates(net, g) ELSE FaninCone(net, g))
                 = RelatedGates(net, g)
    <3>1. g \in GateID BY DEF Seen
    <3> QED BY <1>0, <2>2, <3>1, RelatedGatesFront
  <2>4. 0 \in Seen(net) => gateToRelatedGates = [g \in Seen(net) |-> RelatedGates(net, g)] BY <2>3 DEF PathsFilled
  <2> QED BY <2>1, <2>4 DEF ConesSoFar
<1>2. CASE reverseLevelToGate # Build!EmptyMap /\ buildPc' = "crash" BY <1>2 DEF ConesSoFar
<1>3. CASE reverseLevelToGate # Build!EmptyMap /\ buildPc' # "crash"
  <2>1. PICK n : n = Build!Lowest(reverseLevelToGate) OBVIOUS
  <2>2. PICK left : left = DOMAIN reverseLevelToGate OBVIOUS
  <2>3. LevelsLeft(reverseLevelToGate, Reached(net), hei) BY DEF PathsFilled
  <2>4. n \in left /\ \A m \in left : n <= m
    <3>1. PICK map, reached : map = reverseLevelToGate /\ reached = Reached(net) OBVIOUS
    <3>2. LevelsLeft(map, reached, hei) /\ map # Build!EmptyMap BY <1>3, <2>3, <3>1
    <3>3. Build!Lowest(map) \in DOMAIN map /\ \A m \in DOMAIN map : Build!Lowest(map) <= m BY <3>2, LowestLeft
    <3> QED BY <2>1, <2>2, <3>1, <3>3
  <2> DEFINE here == {g \in reverseLevelToGate[n] : Build!GateAt(g).gateType # "PO"}
             merged(g) == gateToRelatedGates[g] \cup
                          IF g \in here /\ ~ Build!MergesNothing THEN UNION {Build!Related(h) : h \in Build!FanoutsAt(g)} ELSE {}
  <2>5. /\ reverseLevelToGate' = Build!Without(reverseLevelToGate, n) /\ buildPc' = buildPc
        /\ gateToRelatedGates' = [g \in DOMAIN gateToRelatedGates |-> merged(g)]
        /\ Build!MergesNothing \/ \A g \in here : ~ Build!MergesMissing(g)
    BY <1>3, <2>1 DEF Build!findInPropagationPath
  <2>6. LevelsLeft(reverseLevelToGate', Reached(net), hei) /\ DOMAIN reverseLevelToGate' = left \ {n}
    <3>1. PICK map, reached : map = reverseLevelToGate /\ reached = Reached(net) OBVIOUS
    <3>2. LevelsLeft(map, reached, hei) /\ n \in DOMAIN map BY <2>2, <2>3, <2>4, <3>1
    <3>3. LevelsLeft(Build!Without(map, n), reached, hei) /\ DOMAIN Build!Without(map, n) = DOMAIN map \ {n}
      BY <3>2, LowestTaken
    <3> QED BY <2>2, <2>5, <3>1, <3>3
  <2>7. reverseLevelToGate[n] = {g \in Reached(net) : hei[g] = n} BY <2>2, <2>3, <2>4 DEF LevelsLeft
  <2>8. ASSUME 0 \in Seen(net)
        PROVE  gateToRelatedGates' = [g \in Seen(net) |->
                                        IF g \in Reached(net) /\ hei[g] \notin left \ {n}
                                        THEN RelatedGates(net, g) ELSE FaninCone(net, g)]
    <3>1. gateToRelatedGates = [g \in Seen(net) |-> IF g \in Reached(net) /\ hei[g] \notin left
                                                    THEN RelatedGates(net, g) ELSE FaninCone(net, g)]
      BY <2>2, <2>8 DEF PathsFilled
    <3>2. DOMAIN gateToRelatedGates = Seen(net) BY <3>1
    <3>3. ~ Build!MergesNothing BY <2>8, <3>2 DEF Build!MergesNothing
    <3>4. ASSUME NEW g \in Seen(net), g \in Reached(net), hei[g] = n PROVE merged(g) = RelatedGates(net, g)
      <4>1. g \in GateID BY DEF Seen
      <4>2. gateToRelatedGates[g] = FaninCone(net, g) BY <2>4, <3>1, <3>4
      <4>3. Build!GateAt(g) = net[g] /\ Build!FanoutsAt(g) = Fanouts(net, g) BY <4>1 DEF Pointers
      <4>4. CASE net[g].gateType = "PO"
        <5>1. g \in POs BY <1>0, <4>1, <4>4 DEF WellFormed
        <5>2. g \notin here BY <4>3, <4>4
        <5>3. RelatedGates(net, g) = FaninCone(net, g) BY <1>0, <4>1, <5>1, RelatedGatesFront
        <5> QED BY <4>2, <5>2, <5>3
      <4>5. CASE net[g].gateType # "PO"
        <5>1. g \in here BY <2>7, <3>4, <4>3, <4>5
        <5>2. ASSUME NEW h \in Fanouts(net, g) PROVE Build!Related(h) = RelatedGates(net, h)
          <6>1. h \in Seen(net)
            <7>1. ~ Build!MergesMissing(g) BY <2>5, <3>3, <5>1
            <7> QED BY <3>2, <4>3, <4>5, <7>1 DEF Build!MergesMissing
          <6>2. h \in Reached(net) BY <1>0, <3>4, <4>1, SeenAndReached
          <6>3. hei[h] \notin left
            <7>1. hei[h] < n /\ hei[h] \in Nat /\ hei[g] \in Nat
              <8>1. h \in GateID BY <6>1 DEF Seen
              <8> QED BY <3>4, <4>1, <8>1 DEF Given
            <7>2. \A m \in left : n <= m BY <2>4
            <7> QED BY <3>4, <7>1, <7>2
          <6>4. gateToRelatedGates[h] = RelatedGates(net, h) BY <3>1, <6>1, <6>2, <6>3
          <6> QED BY <3>2, <6>1, <6>4 DEF Build!Related
        <5>3. {Build!Related(h) : h \in Build!FanoutsAt(g)} = {RelatedGates(net, h) : h \in Fanouts(net, g)} BY <4>3, <5>2
        <5>4. merged(g) = FaninCone(net, g) \cup UNION {RelatedGates(net, h) : h \in Fanouts(net, g)}
          BY <3>3, <4>2, <5>1, <5>3
        <5> QED BY <1>0, <3>4, <4>1, <5>4, RelatedGatesFront
      <4> QED BY <4>4, <4>5
    <3>5. ASSUME NEW g \in Seen(net), ~ (g \in Reached(net) /\ hei[g] = n) PROVE merged(g) = gateToRelatedGates[g]
      BY <2>7, <3>5
    <3> HIDE DEF merged
    <3>6. \A g \in Seen(net) : merged(g) = IF g \in Reached(net) /\ hei[g] \notin left \ {n}
                                           THEN RelatedGates(net, g) ELSE FaninCone(net, g)
      BY <2>4, <3>1, <3>4, <3>5
    <3> QED BY <2>5, <3>2, <3>6
  <2>9. PathsFilled(net, hei)' BY <2>6, <2>8 DEF PathsFilled
  <2> QED BY <2>5, <2>9 DEF ConesSoFar
<1> QED BY <1>1, <1>2, <1>3

\* Levels and cones for these pointers.
LEMMA TablesGiven ==
  ASSUME Behind
  PROVE  Given(Build!Net, Build!level, Build!reverseLevel) /\ Pointers(Build!Net)
BY NetPointers, LevelsRise DEF Behind, Given, Pointers

\* The same pointers are the same circuit with the same levels.
LEMMA SameTables ==
  ASSUME theCircuit' = theCircuit, fanouts' = fanouts
  PROVE  Build!Net' = Build!Net /\ Build!level' = Build!level /\ Build!reverseLevel' = Build!reverseLevel
<1>1. Build!Positions' = Build!Positions BY DEF Build!Positions
<1>2. \A g : Build!GateAt(g)' = Build!GateAt(g) BY DEF Build!GateAt
<1>3. \A g : Build!FaninsAt(g)' = Build!FaninsAt(g) BY <1>2 DEF Build!FaninsAt
<1>4. \A g : Build!FanoutsAt(g)' = Build!FanoutsAt(g) BY DEF Build!FanoutsAt
<1>5. Build!Net' = Build!Net BY <1>2 DEF Build!Net
<1>6. Build!level' = Build!level BY <1>1, <1>3 DEF Build!level
<1>7. Build!reverseLevel' = Build!reverseLevel BY <1>1, <1>2, <1>4 DEF Build!reverseLevel
<1> QED BY <1>5, <1>6, <1>7

\* The tables that sortGateByLevel fills.
LEMMA SortGateByLevelFills ==
  ASSUME Behind, Build!sortGateByLevel, gateToRelatedGates = Build!EmptyMap
  PROVE  ConesSoFar(Build!Net, Build!level, Build!reverseLevel)'
<1>0. theCircuit' = theCircuit /\ fanouts' = fanouts /\ gateToRelatedGates' = gateToRelatedGates /\ buildPc' \in {"overflow", "fanins"}
  BY DEF Build!sortGateByLevel, Build!pairVars
<1>1. PICK net, lev, hei : net = Build!Net /\ lev = Build!level /\ hei = Build!reverseLevel OBVIOUS
<1>2. net = Build!Net' /\ lev = Build!level' /\ hei = Build!reverseLevel' BY <1>0, <1>1, SameTables
<1>3. Given(net, lev, hei) BY <1>1, TablesGiven
<1>4. CASE buildPc' = "overflow"
  <2>1. ConesSoFar(net, lev, hei)' BY <1>4 DEF ConesSoFar
  <2> QED BY <1>2, <2>1
<1>5. CASE buildPc' = "fanins"
  <2>1. PIs \subseteq GateID /\ POs \subseteq GateID BY SizeAssumption DEF PIs, POs, GateID, Size
  <2>2. Build!Visited(Build!OfType({"PO"}), Build!FaninsAt) = Seen(net)
    <3>1. Build!OfType({"PO"}) = POs BY NetPointers
    <3>2. PICK S : S = POs OBVIOUS
    <3>3. Build!Visited(S, Build!FaninsAt) = {g \in GateID : \E s \in S : g \in FaninCone(Build!Net, s)}
      BY <2>1, <3>2, SearchesFind
    <3>4. {g \in GateID : \E s \in S : g \in FaninCone(net, s)} = Seen(net) BY <2>1, <3>2 DEF Seen, FanoutCone
    <3> QED BY <1>1, <3>1, <3>2, <3>3, <3>4
  <2>3. Build!Visited(Build!OfType({"PI"}), Build!FanoutsAt) = Reached(net)
    <3>1. Build!OfType({"PI"}) = PIs BY NetPointers
    <3>2. PICK S : S = PIs OBVIOUS
    <3>3. Build!Visited(S, Build!FanoutsAt) = {g \in GateID : \E s \in S : s \in FaninCone(Build!Net, g)}
      BY <2>1, <3>2, SearchesFind
    <3>4. {g \in GateID : \E s \in S : s \in FaninCone(net, g)} = Reached(net) BY <3>2 DEF Reached, ReachedFromPI
    <3> QED BY <1>1, <3>1, <3>2, <3>3, <3>4
  <2>4. /\ levelToGate' = Build!ByLevel(Seen(net), lev)
        /\ reverseLevelToGate' = Build!ByLevel(Reached(net), hei)
    BY <1>1, <1>5, <2>2, <2>3 DEF Build!sortGateByLevel
  <2>5. \A g \in GateID : lev[g] \in Nat /\ hei[g] \in Nat BY <1>3 DEF Given
  <2>6. LevelsLeft(levelToGate', Seen(net), lev) /\ \A g \in Seen(net) : lev[g] \in DOMAIN levelToGate'
    BY <2>4, <2>5 DEF LevelsLeft, Build!ByLevel, Seen
  <2>7. LevelsLeft(reverseLevelToGate', Reached(net), hei) /\ \A g \in Reached(net) : hei[g] \in DOMAIN reverseLevelToGate'
    BY <2>4, <2>5 DEF LevelsLeft, Build!ByLevel, Reached
  <2>8. gateToRelatedGates' = [g \in {x \in Seen(net) : lev[x] \notin DOMAIN levelToGate'} |-> FaninCone(net, g)]
    <3>1. {x \in Seen(net) : lev[x] \notin DOMAIN levelToGate'} = {} BY <2>6
    <3>2. gateToRelatedGates' = [k \in {} |-> {}] BY <1>0 DEF Build!EmptyMap
    <3>3. [k \in {} |-> {}] = [g \in {} |-> FaninCone(net, g)] OBVIOUS
    <3> QED BY <3>1, <3>2, <3>3
  <2>9. FaninsFilled(net, lev, hei)' BY <2>6, <2>7, <2>8 DEF FaninsFilled
  <2>10. ConesSoFar(net, lev, hei)' BY <1>5, <2>9 DEF ConesSoFar
  <2> QED BY <1>2, <2>10
<1> QED BY <1>0, <1>4, <1>5

\* No entry before the levels; then those of the levels that are done.
ConesInv ==
  /\ buildPc \in {"read", "connect"} => gateToRelatedGates = Build!EmptyMap
  /\ Behind => ConesSoFar(Build!Net, Build!level, Build!reverseLevel)

\* No tables have been filled yet.
LEMMA ConesInitially == Build!Init => ConesInv
BY DEF Build!Init, ConesInv, ConesSoFar, Behind

\* Each step of the constructor keeps the tables right for the gates taken out.
LEMMA ConesStep ==
  ASSUME BuildInv, ConesInv, [Build!Next]_(Build!vars)
  PROVE  ConesInv'
<1>0. BuiltInv BY DEF BuildInv
<1>1. CASE Build!readLine \/ Build!insertOutputs \/ Build!connectGate
  <2>1. /\ buildPc \in {"read", "connect"} /\ gateToRelatedGates' = gateToRelatedGates
        /\ buildPc' \in {"read", "exit", "connect", "unconnected"}
    <3>1. CASE Build!readLine
      BY <3>1 DEF Build!readLine, Build!Read, Build!pairVars, Build!readInputs, Build!readOutputs, Build!readNames, Build!readOther
    <3>2. CASE Build!insertOutputs BY <3>2 DEF Build!insertOutputs, Build!pairVars
    <3>3. CASE Build!connectGate BY <3>3 DEF Build!connectGate, Build!pairVars
    <3> QED BY <1>1, <3>1, <3>2, <3>3
  <2>2. gateToRelatedGates' = Build!EmptyMap BY <2>1 DEF ConesInv, Build!EmptyMap
  <2>3. gateToRelatedGates' = Build!EmptyMap' BY <2>2 DEF Build!EmptyMap
  <2>4. ConesSoFar(Build!Net, Build!level, Build!reverseLevel)' BY <2>1 DEF ConesSoFar
  <2> QED BY <2>3, <2>4 DEF ConesInv
<1>2. CASE /\ Build!sortGateByLevel \/ Build!findInFanins \/ Build!findInPropagationPath \/ Build!findTwoFanouts
           /\ Behind'
  <2>1. /\ theCircuit' = theCircuit /\ fanouts' = fanouts
        /\ buildPc \in {"connect", "fanins", "paths", "twoFanouts"}
        /\ buildPc = "connect" => cur = Len(theCircuit)
        /\ buildPc' \notin {"read", "connect"}
    BY <1>2 DEF Build!sortGateByLevel, Build!findInFanins, Build!findInPropagationPath, Build!findTwoFanouts
  <2>2. PICK net, lev, hei : net = Build!Net /\ lev = Build!level /\ hei = Build!reverseLevel OBVIOUS
  <2>3. net = Build!Net' /\ lev = Build!level' /\ hei = Build!reverseLevel' BY <2>1, <2>2, SameTables
  <2>4. WellFormed(net) BY <1>2, <2>3 DEF Behind
  <2>5. Behind BY <1>0, <2>1, <2>2, <2>4 DEF Behind
  <2>6. Given(net, lev, hei) /\ Pointers(net) /\ ConesSoFar(net, lev, hei)
    BY <2>2, <2>5, TablesGiven DEF ConesInv
  <2>7. CASE Build!sortGateByLevel
    <3>1. gateToRelatedGates = Build!EmptyMap BY <2>7 DEF ConesInv, Build!sortGateByLevel
    <3>2. ConesSoFar(Build!Net, Build!level, Build!reverseLevel)' BY <2>5, <2>7, <3>1, SortGateByLevelFills
    <3> QED BY <2>1, <3>2 DEF ConesInv
  <2>8. CASE Build!findInFanins
    <3>1. buildPc = "fanins" /\ FaninsFilled(net, lev, hei) BY <2>6, <2>8 DEF ConesSoFar, Build!findInFanins
    <3>2. ConesSoFar(net, lev, hei)' BY <2>6, <2>8, <3>1, FindInFaninsFills
    <3> QED BY <2>1, <2>3, <3>2 DEF ConesInv
  <2>9. CASE Build!findInPropagationPath
    <3>1. buildPc = "paths" /\ PathsFilled(net, hei) BY <2>6, <2>9 DEF ConesSoFar, Build!findInPropagationPath
    <3>2. ConesSoFar(net, lev, hei)' BY <2>6, <2>9, <3>1, FindInPropagationPathFills
    <3> QED BY <2>1, <2>3, <3>2 DEF ConesInv
  <2>10. CASE Build!findTwoFanouts
    <3>1. buildPc = "twoFanouts" /\ buildPc' = "done" /\ gateToRelatedGates' = gateToRelatedGates
      BY <2>10 DEF Build!findTwoFanouts
    <3>2. ConesSoFar(net, lev, hei)' BY <2>6, <3>1 DEF ConesSoFar
    <3> QED BY <2>1, <2>3, <3>2 DEF ConesInv
  <2> QED BY <1>2, <2>7, <2>8, <2>9, <2>10
<1>3. CASE /\ Build!sortGateByLevel \/ Build!findInFanins \/ Build!findInPropagationPath \/ Build!findTwoFanouts
           /\ ~ Behind'
  <2>1. buildPc' \notin {"read", "connect"}
    BY <1>3 DEF Build!sortGateByLevel, Build!findInFanins, Build!findInPropagationPath, Build!findTwoFanouts
  <2> QED BY <1>3, <2>1 DEF ConesInv
<1>4. CASE UNCHANGED Build!vars
  <2>1. /\ theCircuit' = theCircuit /\ fanouts' = fanouts /\ buildPc' = buildPc /\ gateToRelatedGates' = gateToRelatedGates
        /\ levelToGate' = levelToGate /\ reverseLevelToGate' = reverseLevelToGate /\ cur' = cur
    BY <1>4 DEF Build!vars, Build!readVars, Build!levelVars, Build!pairVars
  <2>2. PICK net, lev, hei : net = Build!Net /\ lev = Build!level /\ hei = Build!reverseLevel OBVIOUS
  <2>3. net = Build!Net' /\ lev = Build!level' /\ hei = Build!reverseLevel' BY <2>1, <2>2, SameTables
  <2>4. ConesSoFar(net, lev, hei)' <=> ConesSoFar(net, lev, hei)
    BY <2>1 DEF ConesSoFar, FaninsFilled, PathsFilled
  <2>5. Behind' => Behind BY <1>0, <2>1, <2>2, <2>3 DEF Behind
  <2>6. Build!EmptyMap' = Build!EmptyMap BY DEF Build!EmptyMap
  <2> QED BY <2>1, <2>2, <2>3, <2>4, <2>5, <2>6 DEF ConesInv
<1> QED BY <1>1, <1>2, <1>3, <1>4 DEF Build!Next

\* What is left at the end.
LEMMA ConesFollow == BuildInv /\ ConesInv /\ WellFormed(Build!Net) => ConesExact
<1> SUFFICES ASSUME BuildInv, ConesInv, WellFormed(Build!Net), buildPc = "done", Build!ReachesOutput(0)
             PROVE  gateToRelatedGates = [g \in {h \in Build!GateID : Build!ReachesOutput(h)} |-> Build!RelatedGates(Build!Net, g)]
  BY DEF ConesExact, Build!ConesExact
<1>1. PICK net : net = Build!Net OBVIOUS
<1>2. Behind BY DEF Behind, BuildInv
<1>3. ConesSoFar(net, Build!level, Build!reverseLevel) BY <1>1, <1>2 DEF ConesInv
<1>4. Build!GateID = GateID /\ Build!POs = POs BY SameNets
<1>5. \A g : Build!ReachesOutput(g) <=> FanoutCone(net, g) \cap POs # {} BY <1>1, <1>4, SameCones DEF Build!ReachesOutput
<1>6. {h \in Build!GateID : Build!ReachesOutput(h)} = Seen(net) BY <1>4, <1>5 DEF Seen
<1>7. 0 \in Seen(net)
  <2>1. PICK p \in POs : p \in FanoutCone(net, 0) BY <1>5
  <2>2. Size > 0 BY <2>1, SizeNat DEF POs, FanoutCone, GateID
  <2> QED BY <1>5, <2>2, SizeNat DEF Seen, GateID
<1>8. gateToRelatedGates = [g \in Seen(net) |-> RelatedGates(net, g)] BY <1>3, <1>7 DEF ConesSoFar
<1>9. \A g : Build!RelatedGates(net, g) = RelatedGates(net, g) BY SameCones
<1> QED BY <1>1, <1>6, <1>8, <1>9

\* For every file that gives a well-formed circuit (a sorted one does): the cones
\* that the constructor leaves are those that the simulators, the solver and the
\* elimination of pairs start from.
THEOREM ConesAlwaysExact == PreprocessingSpec => [](WellFormed(Build!Net) => ConesExact)
<1>1. PreprocessingInit => BuildInv /\ ConesInv
  BY BuildInitially, ConesInitially, FilesAssumption DEF PreprocessingInit
<1>2. BuildInv /\ ConesInv /\ [PreprocessingNext]_allVars => BuildInv' /\ ConesInv'
  BY ConstructorOrElse, BuildStep, ConesStep, FilesAssumption
<1>3. BuildInv /\ ConesInv => (WellFormed(Build!Net) => ConesExact) BY ConesFollow
<1> QED BY <1>1, <1>2, <1>3, PTL DEF PreprocessingSpec

-----------------------------------------------------------------------------
(***************************************************************************)
(* Reconvergent gates.  checkInPath1 goes depth first from the fanouts of  *)
(* the first branch; what it returns is determined by what it returns for  *)
(* the gates behind, in the order of their list.                           *)
(***************************************************************************)
\* The first gate of a list from which one is returned, or none.
HitsOf(met, list) == {i \in 1 .. Len(list) : met[list[i]] # NoGate}

\* checkInPath1 returns what the first fanout with a result returns, or nothing.
LEMMA FirstMetIs ==
  ASSUME NEW met, NEW list \in Seq(GateID)
  PROVE  \/ \E i \in 1 .. Len(list) : /\ Build!FirstMet(met, list) = met[list[i]]
                                      /\ Build!FirstMet(met, list) # NoGate
         \/ /\ Build!FirstMet(met, list) = NoGate
            /\ \A i \in 1 .. Len(list) : met[list[i]] = NoGate
<1>1. PICK H : H = HitsOf(met, list) OBVIOUS
<1>2. Build!FirstMet(met, list) = IF H = {} THEN NoGate ELSE met[list[CHOOSE i \in H : \A j \in H : i <= j]]
  BY <1>1 DEF Build!FirstMet, HitsOf, Build!NoGate, NoGate
<1>3. Len(list) \in Nat /\ H \in SUBSET Nat BY <1>1 DEF HitsOf
<1>4. CASE H = {} BY <1>1, <1>2, <1>4 DEF HitsOf
<1>5. CASE H # {}
  <2>1. \E i \in H : \A j \in H : i <= j BY <1>3, <1>5, LeastNumber
  <2>2. PICK c : c = CHOOSE i \in H : \A j \in H : i <= j OBVIOUS
  <2>3. c \in H BY <2>1, <2>2
  <2>4. Build!FirstMet(met, list) = met[list[c]] BY <1>2, <1>5, <2>2
  <2> QED BY <1>1, <2>3, <2>4 DEF HitsOf
<1> QED BY <1>4, <1>5

\* It depends on what is returned for the gates of the list only.
LEMMA FirstMetOn ==
  ASSUME NEW met, NEW other, NEW list, \A i \in 1 .. Len(list) : met[list[i]] = other[list[i]]
  PROVE  Build!FirstMet(met, list) = Build!FirstMet(other, list)
<1>1. PICK H : H = HitsOf(met, list) OBVIOUS
<1>2. H = HitsOf(other, list) BY <1>1 DEF HitsOf
<1>3. Build!FirstMet(met, list) = IF H = {} THEN NoGate ELSE met[list[CHOOSE i \in H : \A j \in H : i <= j]]
  BY <1>1 DEF Build!FirstMet, HitsOf, Build!NoGate, NoGate
<1>4. Build!FirstMet(other, list) = IF H = {} THEN NoGate ELSE other[list[CHOOSE i \in H : \A j \in H : i <= j]]
  BY <1>2 DEF Build!FirstMet, HitsOf, Build!NoGate, NoGate
<1>5. PICK c : c = CHOOSE i \in H : \A j \in H : i <= j OBVIOUS
<1>6. CASE H = {} BY <1>3, <1>4, <1>6
<1>7. CASE H # {}
  <2>3. \A i \in H : met[list[i]] = other[list[i]] BY <1>1 DEF HitsOf
  <2>4. \E i \in H : \A j \in H : i <= j
    <3>1. H \in SUBSET Nat BY <1>1 DEF HitsOf
    <3> QED BY <1>7, <3>1, LeastNumber
  <2>5. c \in H BY <1>5, <2>4
  <2> QED BY <1>3, <1>4, <1>5, <1>7, <2>3, <2>5
<1> QED BY <1>6, <1>7

\* What is returned for gate h, and for all: the lists of fanouts, and the gates
\* at which the search stops.
Meet(met, lists, stops, h) ==
  IF h \in POs THEN NoGate ELSE IF h \in stops THEN h ELSE Build!FirstMet(met, lists[h])
Meets(met, lists, stops) == met = [h \in GateID |-> Meet(met, lists, stops, h)]

Listing(lists, net) ==
  /\ lists \in [GateID -> Seq(GateID)]
  /\ \A g \in GateID : {lists[g][i] : i \in 1 .. Len(lists[g])} = Fanouts(net, g)

\* The recursion ends, as the fanouts of a gate are behind it.
LEMMA MeetsExist ==
  ASSUME NEW net, WellFormed(net), NEW lists, Listing(lists, net), NEW stops
  PROVE  \E met : Meets(met, lists, stops)
<1> USE DEF Listing
<1> DEFINE V == GateID \cup {NoGate}
           Behind1(v) == [h \in GateID |-> v[Size - 1 - h]]
           Out(v, i) == Meet(Behind1(v), lists, stops, Size - 1 - i)
           Step == [x \in [GateID -> V] \X GateID |-> Out(x[1], x[2])]
<1>0. \A g \in GateID : Size - 1 - g \in GateID /\ Size - 1 - (Size - 1 - g) = g BY SizeNat DEF GateID
<1>1. ASSUME NEW v \in [GateID -> V], NEW i \in GateID PROVE Out(v, i) \in V
  <2>1. PICK w, h, s : w = Behind1(v) /\ h = Size - 1 - i /\ s = lists[h] OBVIOUS
  <2>2. h \in GateID /\ s \in Seq(GateID) BY <1>0, <2>1
  <2>3. \A g \in GateID : w[g] \in V BY <1>0, <2>1
  <2>4. \A j \in 1 .. Len(s) : s[j] \in GateID BY <2>2
  <2> HIDE DEF V
  <2>5. Build!FirstMet(w, s) \in V
    <3>1. NoGate \in V BY DEF V
    <3> QED BY <2>2, <2>3, <2>4, <3>1, FirstMetIs
  <2>6. h \in V /\ NoGate \in V BY <2>2 DEF V
  <2>7. Meet(w, lists, stops, h) \in V BY <2>1, <2>5, <2>6 DEF Meet
  <2> QED BY <2>1, <2>7
<1>2. ASSUME NEW v \in [GateID -> V], NEW w \in [GateID -> V], NEW i \in GateID, \A j \in GateID : j < i => v[j] = w[j]
      PROVE  Out(v, i) = Out(w, i)
  <2>1. PICK x, y, h, s : x = Behind1(v) /\ y = Behind1(w) /\ h = Size - 1 - i /\ s = lists[h] OBVIOUS
  <2>2. h \in GateID /\ s \in Seq(GateID) BY <1>0, <2>1
  <2>3. ASSUME NEW j \in 1 .. Len(s) PROVE x[s[j]] = y[s[j]]
    <3>1. PICK k : k = s[j] OBVIOUS
    <3>2. k \in Fanouts(net, h) BY <2>1, <2>2, <3>1
    <3>3. k \in GateID /\ h < k
      <4>1. k \in GateID /\ h \in Fanins(net, k) BY <3>2 DEF Fanouts
      <4> QED BY <4>1, FaninsPrecede
    <3>4. Size - 1 - k \in GateID /\ Size - 1 - k < i
      <4>1. Size - 1 - k \in GateID BY <1>0, <3>3
      <4>2. Size \in Int /\ k \in Int /\ i \in Int /\ h \in Int BY <2>2, <3>3, SizeNat DEF GateID
      <4>3. h = Size - 1 - i /\ h < k BY <2>1, <3>3
      <4> QED BY <4>1, <4>2, <4>3
    <3>5. x[k] = v[Size - 1 - k] /\ y[k] = w[Size - 1 - k] BY <2>1, <3>3
    <3> QED BY <1>2, <3>1, <3>4, <3>5
  <2>4. Build!FirstMet(x, s) = Build!FirstMet(y, s) BY <2>3, FirstMetOn
  <2>5. Meet(x, lists, stops, h) = Meet(y, lists, stops, h) BY <2>1, <2>4 DEF Meet
  <2> QED BY <2>1, <2>5
<1> HIDE DEF Out
<1>3. \A v \in [GateID -> V], i \in GateID : Step[<<v, i>>] = Out(v, i) OBVIOUS
<1>4. Step \in [[GateID -> V] \X GateID -> V]
  <2>1. \A x \in [GateID -> V] \X GateID : x[1] \in [GateID -> V] /\ x[2] \in GateID OBVIOUS
  <2> HIDE DEF V
  <2> QED BY <1>1, <2>1
<1> HIDE DEF Step
<1>5. OrderedStep(V, Step)
  <2>1. V # {} OBVIOUS
  <2> HIDE DEF V
  <2>2. ASSUME NEW v \in [GateID -> V], NEW w \in [GateID -> V], NEW i \in GateID,
               \A j \in GateID : j < i => v[j] = w[j]
        PROVE  Step[<<v, i>>] = Step[<<w, i>>]
    <3>1. Out(v, i) = Out(w, i) BY <1>2, <2>2
    <3>2. Step[<<v, i>>] = Out(v, i) /\ Step[<<w, i>>] = Out(w, i) BY <1>3
    <3> QED BY <3>1, <3>2
  <2> QED BY <1>4, <2>1, <2>2 DEF OrderedStep
<1> HIDE DEF V
<1>6. PICK v \in Solutions(V, Step) : TRUE BY <1>5, RecursionExists
<1>7. \A i \in GateID : v[i] = Out(v, i) BY <1>3, <1>6 DEF Solutions
<1>8. PICK met : met = Behind1(v) OBVIOUS
<1>9. ASSUME NEW h \in GateID PROVE met[h] = Meet(met, lists, stops, h)
  <2>1. met[h] = v[Size - 1 - h] BY <1>8
  <2>2. PICK i : i = Size - 1 - h OBVIOUS
  <2>3. i \in GateID /\ Size - 1 - i = h BY <1>0, <2>2
  <2>4. v[i] = Out(v, i) BY <1>7, <2>3
  <2>5. Out(v, i) = Meet(met, lists, stops, h) BY <1>8, <2>3 DEF Out
  <2> QED BY <2>1, <2>2, <2>4, <2>5
<1>10. met = [h \in GateID |-> Meet(met, lists, stops, h)]
  <2>1. met = [h \in GateID |-> met[h]] BY <1>8
  <2> QED BY <1>9, <2>1
<1> QED BY <1>10 DEF Meets

\* A gate is returned if and only if the search stops somewhere behind.
Ahead(net, h, stops) == {k \in FanoutCone(net, h) : k \notin POs /\ k \in stops}
MeetRight(met, net, h, stops) ==
  IF met[h] = NoGate THEN Ahead(net, h, stops) = {} ELSE met[h] \in Ahead(net, h, stops)

\* By induction against the order of the gates, each result of checkInPath1 is right.
LEMMA MeetsAreRight ==
  ASSUME NEW net, WellFormed(net), NEW lists, Listing(lists, net), NEW stops, NEW met, Meets(met, lists, stops)
  PROVE  \A h \in GateID : MeetRight(met, net, h, stops)
<1> DEFINE Right == {i \in GateID : MeetRight(met, net, Size - 1 - i, stops)}
<1>0. \A g \in GateID : Size - 1 - g \in GateID /\ Size - 1 - (Size - 1 - g) = g BY SizeNat DEF GateID
<1>1. ASSUME NEW i \in GateID, \A j \in GateID : j < i => j \in Right PROVE i \in Right
  <2>1. PICK h, s : h = Size - 1 - i /\ s = lists[h] OBVIOUS
  <2>2. h \in GateID /\ s \in Seq(GateID) /\ {s[j] : j \in 1 .. Len(s)} = Fanouts(net, h) BY <1>0, <2>1 DEF Listing
  <2>3. ASSUME NEW k \in Fanouts(net, h) PROVE k \in GateID /\ MeetRight(met, net, k, stops)
    <3>1. k \in GateID /\ h < k
      <4>1. k \in GateID /\ h \in Fanins(net, k) BY DEF Fanouts
      <4> QED BY <4>1, FaninsPrecede
    <3>2. PICK j : j = Size - 1 - k OBVIOUS
    <3>3. j \in GateID /\ Size - 1 - j = k BY <1>0, <3>1, <3>2
    <3>4. j < i
      <4>1. Size \in Int /\ k \in Int /\ i \in Int /\ h \in Int BY <2>2, <3>1, SizeNat DEF GateID
      <4> QED BY <2>1, <3>1, <3>2, <4>1
    <3>5. MeetRight(met, net, Size - 1 - j, stops) BY <1>1, <3>3, <3>4
    <3> QED BY <3>1, <3>3, <3>5
  <2>4. met[h] = Meet(met, lists, stops, h) BY <2>2 DEF Meets
  <2>5. /\ FanoutCone(net, h) = {h} \cup UNION {FanoutCone(net, k) : k \in Fanouts(net, h)}
        /\ h \in POs => FanoutCone(net, h) = {h}
    BY <2>2, FanoutConeFront
  <2>6. NoGate \notin GateID BY SizeNat DEF NoGate, GateID
  <2>7. MeetRight(met, net, h, stops)
    <3>1. CASE h \in POs BY <2>4, <2>5, <3>1 DEF Meet, MeetRight, Ahead
    <3>2. CASE h \notin POs /\ h \in stops
      <4>1. met[h] = h BY <2>4, <3>2 DEF Meet
      <4>2. h \in Ahead(net, h, stops) BY <2>5, <3>2 DEF Ahead
      <4> QED BY <2>2, <2>6, <4>1, <4>2 DEF MeetRight
    <3>3. CASE h \notin POs /\ h \notin stops
      <4>1. met[h] = Build!FirstMet(met, s) BY <2>1, <2>4, <3>3 DEF Meet
      <4>2. Ahead(net, h, stops) = UNION {Ahead(net, k, stops) : k \in Fanouts(net, h)} BY <2>5, <3>3 DEF Ahead
      <4>3. CASE \E j \in 1 .. Len(s) : met[h] = met[s[j]] /\ met[h] # NoGate
        <5>1. PICK j \in 1 .. Len(s) : met[h] = met[s[j]] /\ met[h] # NoGate BY <4>3
        <5>2. s[j] \in Fanouts(net, h) BY <2>2
        <5>3. met[s[j]] \in Ahead(net, s[j], stops) BY <2>3, <5>1, <5>2 DEF MeetRight
        <5>4. met[h] \in Ahead(net, h, stops) BY <4>2, <5>1, <5>2, <5>3
        <5> QED BY <5>1, <5>4 DEF MeetRight
      <4>4. CASE met[h] = NoGate /\ \A j \in 1 .. Len(s) : met[s[j]] = NoGate
        <5>1. \A k \in Fanouts(net, h) : met[k] = NoGate BY <2>2, <4>4
        <5>2. \A k \in Fanouts(net, h) : Ahead(net, k, stops) = {} BY <2>3, <5>1 DEF MeetRight
        <5>3. Ahead(net, h, stops) = {} BY <4>2, <5>2
        <5> QED BY <4>4, <5>3 DEF MeetRight
      <4> QED BY <2>2, <4>1, <4>3, <4>4, FirstMetIs
    <3> QED BY <3>1, <3>2, <3>3
  <2> QED BY <2>1, <2>7
<1> HIDE DEF Right
<1>2. \A i \in GateID : i \in Right BY <1>1, GateInduction
<1> QED BY <1>0, <1>2 DEF Right

\* The lists of fanouts are those of the circuit.
LEMMA FanoutLists ==
  ASSUME Behind, NEW net, net = Build!Net, NEW lists, lists = [g \in GateID |-> fanouts[g]]
  PROVE  Listing(lists, net)
<1>1. /\ Build!Positions = GateID /\ Len(theCircuit) = Size
      /\ \A g \in GateID : Build!FanoutsAt(g) = Fanouts(net, g)
  BY NetPointers
<1>2. cur = Len(theCircuit) /\ FanoutsSet BY DEF Behind, BuiltInv, Connected
<1>3. fanouts \in [GateID -> Seq(GateID)] BY <1>1, <1>2 DEF FanoutsSet, GateID
<1>4. \A g \in GateID : Build!FanoutsAt(g) = {fanouts[g][i] : i \in 1 .. Len(fanouts[g])} BY DEF Build!FanoutsAt
<1>5. lists = fanouts BY <1>3
<1> QED BY <1>1, <1>3, <1>4, <1>5 DEF Listing

\* What findTwoFanouts stores for a gate with two fanouts.
FoundRight(net, r, first, second) ==
  LET both == {h \in GateID \ POs : h \in FanoutCone(net, first) /\ h \in FanoutCone(net, second)}
  IN IF r # NoGate THEN r \in both ELSE both \subseteq {first}

\* findTwoFanouts starts from the two fanouts of the gate.
LEMMA ReconvergentFound ==
  ASSUME Behind, NEW net, net = Build!Net, NEW g \in GateID, Len(fanouts[g]) = 2
  PROVE  FoundRight(net, Build!Reconvergent(g), fanouts[g][1], fanouts[g][2])
<1>1. PICK lists : lists = [h \in GateID |-> fanouts[h]] OBVIOUS
<1>2. Listing(lists, net) BY <1>1, FanoutLists
<1>3. PICK first, second : first = fanouts[g][1] /\ second = fanouts[g][2] OBVIOUS
<1>4. first \in GateID /\ second \in GateID
  <2>1. fanouts[g] \in Seq(GateID) BY <1>1, <1>2 DEF Listing
  <2> QED BY <1>3, <2>1
<1>5. WellFormed(net) BY DEF Behind
<1>6. Build!Positions = GateID /\ \A h \in GateID : Build!GateAt(h) = net[h] BY NetPointers
<1>7. PICK stops : stops = {h \in GateID : Build!Reaches(second, h)} OBVIOUS
<1>8. \A h \in GateID : (Build!GateAt(h).gateType = "PO" <=> h \in POs) BY <1>5, <1>6 DEF WellFormed
<1>9. \A h \in GateID : h \in stops <=> h \notin POs /\ h \in FanoutCone(net, second)
  <2>1. {second} \in SUBSET GateID BY <1>4
  <2>2. Build!Visited({second}, Build!FanoutsAt) = {h \in GateID : \E s \in {second} : s \in FaninCone(net, h)}
    BY <2>1, SearchesFind
  <2>3. \A h : h \in Build!Visited({second}, Build!FanoutsAt) <=> h \in FanoutCone(net, second)
    BY <2>2 DEF FanoutCone
  <2> QED BY <1>7, <1>8, <2>3 DEF Build!Reaches
<1> DEFINE L(m) == [h \in Build!Positions |->
                      IF Build!GateAt(h).gateType = "PO" THEN Build!NoGate
                      ELSE IF Build!Reaches(second, h) THEN h ELSE Build!FirstMet(m, fanouts[h])]
           met == CHOOSE m : m = L(m)
<1>10. Build!Reconvergent(g) = Build!FirstMet(met, fanouts[first]) BY <1>3 DEF Build!Reconvergent
<1>11. ASSUME NEW m PROVE m = L(m) <=> Meets(m, lists, stops)
  <2>1. ASSUME NEW h \in GateID PROVE L(m)[h] = Meet(m, lists, stops, h)
    <3>1. Build!NoGate = NoGate BY DEF Build!NoGate, NoGate
    <3>2. lists[h] = fanouts[h] BY <1>1
    <3>3. h \in stops <=> Build!Reaches(second, h) BY <1>7
    <3> QED BY <1>6, <1>8, <3>1, <3>2, <3>3 DEF Meet
  <2>2. L(m) = [h \in GateID |-> L(m)[h]] BY <1>6
  <2> HIDE DEF L
  <2> QED BY <2>1, <2>2 DEF Meets
<1>12. \E m : m = L(m) BY <1>2, <1>5, <1>11, MeetsExist
<1> HIDE DEF L
<1>13. met = L(met) BY <1>12
<1> HIDE DEF met
<1>14. \A h \in GateID : MeetRight(met, net, h, stops)
  <2>1. PICK m : m = met OBVIOUS
  <2>2. Meets(m, lists, stops) BY <1>11, <1>13, <2>1
  <2> QED BY <1>2, <1>5, <2>1, <2>2, MeetsAreRight
<1>15. PICK r, s : r = Build!Reconvergent(g) /\ s = fanouts[first] OBVIOUS
<1>16. s \in Seq(GateID) /\ {s[i] : i \in 1 .. Len(s)} = Fanouts(net, first) BY <1>1, <1>2, <1>4, <1>15 DEF Listing
<1>17. r = Build!FirstMet(met, s) BY <1>10, <1>15
<1>18. FanoutCone(net, first) = {first} \cup UNION {FanoutCone(net, k) : k \in Fanouts(net, first)}
  BY <1>4, <1>5, FanoutConeFront
<1>19. \A k \in Fanouts(net, first) : k \in GateID /\ MeetRight(met, net, k, stops) BY <1>14 DEF Fanouts
<1>20. FoundRight(net, r, first, second)
  <2>1. CASE \E i \in 1 .. Len(s) : r = met[s[i]] /\ r # NoGate
    <3>1. PICK i \in 1 .. Len(s) : r = met[s[i]] /\ r # NoGate BY <2>1
    <3>2. s[i] \in Fanouts(net, first) BY <1>16
    <3>3. r \in Ahead(net, s[i], stops) BY <1>19, <3>1, <3>2 DEF MeetRight
    <3>4. r \in FanoutCone(net, s[i]) /\ r \notin POs /\ r \in stops /\ r \in GateID BY <3>3 DEF Ahead, FanoutCone
    <3>5. r \in FanoutCone(net, first) BY <1>18, <3>2, <3>4
    <3> QED BY <1>9, <3>1, <3>4, <3>5 DEF FoundRight
  <2>2. CASE r = NoGate /\ \A i \in 1 .. Len(s) : met[s[i]] = NoGate
    <3>1. ASSUME NEW h \in GateID \ POs, h \in FanoutCone(net, first), h \in FanoutCone(net, second), h # first PROVE FALSE
      <4>1. PICK k \in Fanouts(net, first) : h \in FanoutCone(net, k) BY <1>18, <3>1
      <4>2. met[k] = NoGate BY <1>16, <2>2
      <4>3. h \in Ahead(net, k, stops) BY <1>9, <3>1, <4>1 DEF Ahead
      <4> QED BY <1>19, <4>2, <4>3 DEF MeetRight
    <3> QED BY <2>2, <3>1 DEF FoundRight
  <2> QED BY <1>16, <1>17, <2>1, <2>2, FirstMetIs
<1> QED BY <1>3, <1>15, <1>20

\* What is stored is right.
TwoFanoutsRight(net) ==
  \A g \in DOMAIN twoFanoutGateToReconvGate :
    FoundRight(net, twoFanoutGateToReconvGate[g], fanouts[g][1], fanouts[g][2])
ReconvergenceInv == buildPc = "done" /\ WellFormed(Build!Net) => TwoFanoutsRight(Build!Net)

\* Each step of the constructor keeps the pairs of reconvergent gates right.
LEMMA ReconvergenceStep ==
  ASSUME BuildInv, ReconvergenceInv, [Build!Next]_(Build!vars)
  PROVE  ReconvergenceInv'
<1>1. CASE Build!findTwoFanouts
  <2>1. /\ buildPc = "twoFanouts" /\ theCircuit' = theCircuit /\ fanouts' = fanouts /\ cur' = cur
        /\ twoFanoutGateToReconvGate' = [g \in {h \in Build!Positions : Len(fanouts[h]) = 2} |-> Build!Reconvergent(g)]
    BY <1>1 DEF Build!findTwoFanouts
  <2>2. PICK net : net = Build!Net OBVIOUS
  <2>3. net = Build!Net' BY <2>1, <2>2, SameTables
  <2> SUFFICES ASSUME WellFormed(net) PROVE TwoFanoutsRight(net)'
    BY <2>3 DEF ReconvergenceInv
  <2>4. Behind BY <2>1, <2>2 DEF Behind, BuildInv
  <2>5. Build!Positions = GateID BY <2>4, NetPointers
  <2>6. ASSUME NEW g \in GateID, Len(fanouts[g]) = 2
        PROVE  FoundRight(net, Build!Reconvergent(g), fanouts[g][1], fanouts[g][2])
    BY <2>2, <2>4, <2>6, ReconvergentFound
  <2> QED BY <2>1, <2>5, <2>6 DEF TwoFanoutsRight
<1>2. CASE \/ Build!readLine \/ Build!insertOutputs \/ Build!connectGate
           \/ Build!sortGateByLevel \/ Build!findInFanins \/ Build!findInPropagationPath
  <2>1. buildPc' # "done"
    <3>1. CASE Build!readLine
      BY <3>1 DEF Build!readLine, Build!readInputs, Build!readOutputs, Build!readNames, Build!readOther
    <3>2. CASE \/ Build!insertOutputs \/ Build!connectGate \/ Build!sortGateByLevel \/ Build!findInFanins
               \/ Build!findInPropagationPath
      BY <3>2 DEF Build!insertOutputs, Build!connectGate, Build!sortGateByLevel, Build!findInFanins, Build!findInPropagationPath
    <3> QED BY <1>2, <3>1, <3>2
  <2> QED BY <2>1 DEF ReconvergenceInv
<1>3. CASE UNCHANGED Build!vars
  <2>1. /\ theCircuit' = theCircuit /\ fanouts' = fanouts /\ buildPc' = buildPc
        /\ twoFanoutGateToReconvGate' = twoFanoutGateToReconvGate
    BY <1>3 DEF Build!vars, Build!readVars, Build!levelVars, Build!pairVars
  <2>2. PICK net : net = Build!Net OBVIOUS
  <2>3. net = Build!Net' BY <2>1, <2>2, SameTables
  <2>4. TwoFanoutsRight(net)' <=> TwoFanoutsRight(net) BY <2>1 DEF TwoFanoutsRight
  <2> QED BY <2>1, <2>2, <2>3, <2>4 DEF ReconvergenceInv
<1> QED BY <1>1, <1>2, <1>3 DEF Build!Next

\* On a well-formed circuit the invariant is the property.
LEMMA ReconvergenceFollows == ReconvergenceInv => (WellFormed(Build!Net) => ReconvergenceSound)
<1> SUFFICES ASSUME ReconvergenceInv, WellFormed(Build!Net), buildPc = "done", NEW g \in DOMAIN twoFanoutGateToReconvGate
             PROVE  IF twoFanoutGateToReconvGate[g] # Build!NoGate THEN twoFanoutGateToReconvGate[g] \in Build!Both(g)
                    ELSE Build!Both(g) \subseteq {Build!Branches(g)[1]}
  BY DEF ReconvergenceSound, Build!ReconvergenceSound
<1>1. PICK net, first, second : net = Build!Net /\ first = fanouts[g][1] /\ second = fanouts[g][2] OBVIOUS
<1>2. FoundRight(net, twoFanoutGateToReconvGate[g], first, second) BY <1>1 DEF ReconvergenceInv, TwoFanoutsRight
<1>3. Build!GateID = GateID /\ Build!POs = POs /\ Build!NoGate = NoGate BY SameNets DEF Build!NoGate, NoGate
<1>4. Build!Branches(g)[1] = first /\ Build!Branches(g)[2] = second BY <1>1 DEF Build!Branches
<1>5. \A x : Build!FanoutCone(net, x) = FanoutCone(net, x) BY SameCones
<1>6. Build!Both(g) = {h \in GateID \ POs : h \in FanoutCone(net, first) /\ h \in FanoutCone(net, second)}
  <2>1. Build!Both(g) = {h \in GateID \ POs : \A b \in {1, 2} : h \in FanoutCone(net, Build!Branches(g)[b])}
    BY <1>1, <1>3, <1>5 DEF Build!Both
  <2> QED BY <1>4, <2>1
<1> QED BY <1>2, <1>3, <1>4, <1>6 DEF FoundRight

\* For every file that gives a well-formed circuit: the gate that findTwoFanouts
\* pairs with a gate of two fanouts lies behind both of them, and where it finds
\* none the branches do not meet, unless in the first gate of the first branch.
THEOREM ReconvergenceAlwaysSound == PreprocessingSpec => [](WellFormed(Build!Net) => ReconvergenceSound)
<1>1. PreprocessingInit => BuildInv /\ ReconvergenceInv
  <2>1. Build!Init => buildPc = "read" BY DEF Build!Init
  <2> QED BY <2>1, BuildInitially, FilesAssumption DEF PreprocessingInit, ReconvergenceInv
<1>2. BuildInv /\ ReconvergenceInv /\ [PreprocessingNext]_allVars => BuildInv' /\ ReconvergenceInv'
  BY ConstructorOrElse, BuildStep, ReconvergenceStep, FilesAssumption
<1>3. ReconvergenceInv => (WellFormed(Build!Net) => ReconvergenceSound) BY ReconvergenceFollows
<1> QED BY <1>1, <1>2, <1>3, PTL DEF PreprocessingSpec

-----------------------------------------------------------------------------
\* No gate is behind itself.
LEMMA NoCycle ==
  ASSUME Behind
  PROVE  /\ ~ Build!Cyclic(Build!OfType({"PO"}), Build!FaninsAt)
         /\ ~ Build!Cyclic(Build!OfType({"PI"}), Build!FanoutsAt)
<1>1. PICK net : net = Build!Net OBVIOUS
<1>2. WellFormed(net) BY <1>1 DEF Behind
<1>3. PIs \in SUBSET GateID /\ POs \in SUBSET GateID BY SizeAssumption DEF PIs, POs, GateID, Size
<1>4. Build!OfType({"PI"}) = PIs /\ Build!OfType({"PO"}) = POs BY NetPointers
<1>5. \A g \in GateID : Build!FaninsAt(g) = Fanins(net, g) /\ Build!FanoutsAt(g) = Fanouts(net, g) BY <1>1, NetPointers
<1>6. ASSUME NEW S \in SUBSET GateID
      PROVE  /\ Build!Visited(S, Build!FaninsAt) = {g \in GateID : \E s \in S : g \in FaninCone(net, s)}
             /\ Build!Visited(S, Build!FanoutsAt) = {g \in GateID : \E s \in S : s \in FaninCone(net, g)}
  BY <1>1, SearchesFind
<1>7. ASSUME NEW g \in GateID, NEW h \in GateID, g \in Fanins(net, h) PROVE h \notin FaninCone(net, g)
  <2>1. g < h BY <1>2, <1>7, FaninsPrecede
  <2>2. g \in Int /\ h \in Int BY SizeNat
  <2>3. \A k \in FaninCone(net, g) : k <= g BY <1>2, ConeBelow
  <2> QED BY <2>1, <2>2, <2>3
<1>8. ~ Build!Cyclic(POs, Build!FaninsAt)
  <2> SUFFICES ASSUME NEW g \in Build!Visited(POs, Build!FaninsAt),
                      g \in Build!Visited(Build!FaninsAt(g), Build!FaninsAt)
               PROVE  FALSE
    BY DEF Build!Cyclic
  <2>1. g \in GateID BY <1>3, <1>6
  <2>2. PICK F : F = Build!FaninsAt(g) OBVIOUS
  <2>3. \A f \in F : f \in GateID /\ f \in Fanins(net, g) BY <1>2, <1>5, <2>1, <2>2, FaninsPrecede
  <2>4. F \in SUBSET GateID BY <2>3
  <2>5. PICK f \in F : g \in FaninCone(net, f) BY <1>6, <2>2, <2>4
  <2> QED BY <1>7, <2>1, <2>3, <2>5
<1>9. ~ Build!Cyclic(PIs, Build!FanoutsAt)
  <2> SUFFICES ASSUME NEW g \in Build!Visited(PIs, Build!FanoutsAt),
                      g \in Build!Visited(Build!FanoutsAt(g), Build!FanoutsAt)
               PROVE  FALSE
    BY DEF Build!Cyclic
  <2>1. g \in GateID BY <1>3, <1>6
  <2>2. PICK F : F = Build!FanoutsAt(g) OBVIOUS
  <2>3. \A h \in F : h \in GateID /\ g \in Fanins(net, h) BY <1>5, <2>1, <2>2 DEF Fanouts
  <2>4. F \in SUBSET GateID BY <2>3
  <2>5. PICK h \in F : h \in FaninCone(net, g) BY <1>6, <2>2, <2>4
  <2> QED BY <1>7, <2>1, <2>3, <2>5
<1> QED BY <1>4, <1>8, <1>9

\* No recursion without end, no word that does not exist.
GoesThrough ==
  WellFormed(Build!Net) /\ NoDangling(Build!Net) => buildPc \notin {"overflow", "crash"}

\* No step of the constructor takes a good circuit into a crash or an endless recursion.
LEMMA GoesThroughStep ==
  ASSUME BuildInv, ConesInv, GoesThrough, [Build!Next]_(Build!vars)
  PROVE  GoesThrough'
<1>0. BuiltInv BY DEF BuildInv
<1>1. CASE Build!readLine \/ Build!insertOutputs \/ Build!connectGate
  <2>1. buildPc' \in {"read", "exit", "connect", "unconnected"}
    <3>1. CASE Build!readLine
      BY <3>1 DEF Build!readLine, Build!readInputs, Build!readOutputs, Build!readNames, Build!readOther
    <3>2. CASE Build!insertOutputs BY <3>2 DEF Build!insertOutputs
    <3>3. CASE Build!connectGate BY <3>3 DEF Build!connectGate
    <3> QED BY <1>1, <3>1, <3>2, <3>3
  <2> QED BY <2>1 DEF GoesThrough
<1>2. CASE Build!sortGateByLevel \/ Build!findInFanins \/ Build!findInPropagationPath \/ Build!findTwoFanouts
  <2>1. /\ theCircuit' = theCircuit /\ fanouts' = fanouts
        /\ buildPc \in {"connect", "fanins", "paths", "twoFanouts"}
        /\ buildPc = "connect" => cur = Len(theCircuit)
    BY <1>2 DEF Build!sortGateByLevel, Build!findInFanins, Build!findInPropagationPath, Build!findTwoFanouts
  <2>2. PICK net, lev, hei : net = Build!Net /\ lev = Build!level /\ hei = Build!reverseLevel OBVIOUS
  <2>3. net = Build!Net' BY <2>1, <2>2, SameTables
  <2> SUFFICES ASSUME WellFormed(net), NoDangling(net) PROVE buildPc' \notin {"overflow", "crash"}
    BY <2>3 DEF GoesThrough
  <2>4. Behind BY <1>0, <2>1, <2>2 DEF Behind
  <2>5. Given(net, lev, hei) /\ Pointers(net) /\ ConesSoFar(net, lev, hei)
    BY <2>2, <2>4, TablesGiven DEF ConesInv
  <2>6. CASE Build!sortGateByLevel BY <2>4, <2>6, NoCycle DEF Build!sortGateByLevel
  <2>7. CASE Build!findInFanins BY <2>1, <2>7 DEF Build!findInFanins
  <2>8. CASE Build!findTwoFanouts BY <2>1, <2>8 DEF Build!findTwoFanouts
  <2>9. CASE Build!findInPropagationPath
    <3>1. buildPc = "paths" /\ PathsFilled(net, hei) BY <2>5, <2>9 DEF ConesSoFar, Build!findInPropagationPath
    <3>2. Seen(net) = GateID BY DEF Seen, NoDangling
    <3>3. ASSUME NEW g \in GateID PROVE ~ Build!MergesMissing(g)
      <4>1. 0 \in GateID BY <3>3, SizeNat DEF GateID
      <4>2. DOMAIN gateToRelatedGates = GateID BY <3>1, <3>2, <4>1 DEF PathsFilled
      <4>3. Build!FanoutsAt(g) \subseteq GateID BY <2>5 DEF Pointers, Fanouts
      <4> QED BY <4>2, <4>3 DEF Build!MergesMissing
    <3>4. ASSUME reverseLevelToGate # Build!EmptyMap,
                 NEW g \in reverseLevelToGate[Build!Lowest(reverseLevelToGate)]
          PROVE  g \in GateID
      <4>1. PICK map, S : map = reverseLevelToGate /\ S = Reached(net) OBVIOUS
      <4>2. LevelsLeft(map, S, hei) /\ map # Build!EmptyMap BY <3>1, <3>4, <4>1 DEF PathsFilled
      <4>3. Build!Lowest(map) \in DOMAIN map BY <4>2, LowestLeft
      <4>4. g \in S BY <3>4, <4>1, <4>2, <4>3 DEF LevelsLeft
      <4> QED BY <4>1, <4>4 DEF Reached
    <3> QED BY <2>9, <3>1, <3>3, <3>4 DEF Build!findInPropagationPath
  <2> QED BY <1>2, <2>6, <2>7, <2>8, <2>9
<1>3. CASE UNCHANGED Build!vars
  <2>1. /\ theCircuit' = theCircuit /\ fanouts' = fanouts /\ buildPc' = buildPc
    BY <1>3 DEF Build!vars, Build!readVars, Build!levelVars, Build!pairVars
  <2>2. Build!Net' = Build!Net BY <2>1, SameTables
  <2> QED BY <2>1, <2>2 DEF GoesThrough
<1> QED BY <1>1, <1>2, <1>3 DEF Build!Next

\* For every file: no circuit that is well formed and leaves no gate without a path
\* to an output sends the recursions of sortGateByLevel astray, or lets
\* findInPropagationPath read or write a word that does not exist.
THEOREM CircuitsGoThrough == PreprocessingSpec => []GoesThrough
<1>1. PreprocessingInit => BuildInv /\ ConesInv /\ GoesThrough
  <2>1. Build!Init => buildPc = "read" BY DEF Build!Init
  <2> QED BY <2>1, BuildInitially, ConesInitially, FilesAssumption DEF PreprocessingInit, GoesThrough
<1>2. BuildInv /\ ConesInv /\ GoesThrough /\ [PreprocessingNext]_allVars => BuildInv' /\ ConesInv' /\ GoesThrough'
  BY ConstructorOrElse, BuildStep, ConesStep, GoesThroughStep, FilesAssumption
<1> QED BY <1>1, <1>2, PTL DEF PreprocessingSpec

-----------------------------------------------------------------------------
(***************************************************************************)
(* Elimination of pairs on the circuit that the constructor has built.     *)
(***************************************************************************)
BuiltPairsInv ==
  \/ pc = "constructor" /\ deleteDSAs = {} /\ undetectedDSA = {} /\ redundantDSAF = {}
  \/ buildPc = "done" /\ IInv

\* It starts from the cones of the circuit it starts from.
LEMMA EnterPairingStarts ==
  ASSUME BuildInv, ConesInv, BuiltPairsInv, enterPairing
  PROVE  BuiltPairsInv'
<1>1. /\ buildPc = "done" /\ buildPc' = buildPc /\ gateToRelatedGates' = gateToRelatedGates
      /\ WellFormed(Build!Net) /\ NoDangling(Build!Net)
      /\ netlist' = Build!Net /\ redundantSSAF' = Redundant(Build!Net) /\ todo' = redundantSSAF' /\ pc' = "delete"
  BY DEF enterPairing, buildVars
<1>2. deleteDSAs' = {} /\ undetectedDSA' = {} /\ redundantDSAF' = {} BY DEF enterPairing, BuiltPairsInv, IInv
<1>3. PICK net : net = Build!Net OBVIOUS
<1>4. 0 \in GateID
  <2>1. PISize > 0 BY FilesAssumption DEF Build!FilesAssumption
  <2> QED BY <2>1, SizeAssumption DEF GateID, Size
<1>5. Behind BY <1>1 DEF Behind, BuildInv
<1>6. ConesSoFar(net, Build!level, Build!reverseLevel) BY <1>3, <1>5 DEF ConesInv
<1>7. Seen(net) = GateID BY <1>1, <1>3 DEF Seen, NoDangling
<1>8. gateToRelatedGates = [g \in GateID |-> RelatedGates(net, g)] BY <1>1, <1>4, <1>6, <1>7 DEF ConesSoFar
<1>9. Cones' BY <1>1, <1>3, <1>8 DEF Cones
<1>10. redundantSSAF' \ todo' = {} BY <1>1
<1>11. WalksExact' BY <1>1, <1>2, <1>10 DEF WalksExact, Collected
<1>12. PairsSorted' BY <1>1, <1>2 DEF PairsSorted
<1>13. IInv' BY <1>1, <1>3, <1>9, <1>11, <1>12 DEF IInv
<1> QED BY <1>1, <1>13 DEF BuiltPairsInv

\* The elimination of redundant pairs takes the constructor's circuit as its own.
LEMMA BuiltPairsStep ==
  ASSUME BuildInv, ConesInv, BuiltPairsInv, [PreprocessingNext]_allVars
  PROVE  BuiltPairsInv'
<1>1. CASE Constructor
  <2>1. buildPc # "done"
    BY <1>1 DEF Constructor, Build!Next, Build!readLine, Build!insertOutputs, Build!connectGate, Build!sortGateByLevel,
                Build!findInFanins, Build!findInPropagationPath, Build!findTwoFanouts
  <2>2. pc' = pc /\ deleteDSAs' = deleteDSAs /\ undetectedDSA' = undetectedDSA /\ redundantDSAF' = redundantDSAF
    BY <1>1 DEF Constructor, pairVars
  <2> QED BY <2>1, <2>2 DEF BuiltPairsInv
<1>2. CASE enterPairing BY <1>2, EnterPairingStarts
<1>3. CASE Pairing
  <2>1. Next /\ buildPc' = buildPc BY <1>3 DEF Pairing, buildVars
  <2>2. pc # "constructor"
    BY <2>1 DEF Next, DeletePairs, DeletePairsDone, PairRedundant, PairRedundantDone
  <2>3. IInv /\ buildPc = "done" BY <2>2 DEF BuiltPairsInv
  <2>4. IInv'
    BY <2>1, <2>3, DeletePairsKeeps, DeletePairsDoneKeeps, PairRedundantKeeps, PairRedundantDoneKeeps DEF Next
  <2> QED BY <2>1, <2>3, <2>4 DEF BuiltPairsInv
<1>4. CASE UNCHANGED allVars
  <2>1. UNCHANGED vars /\ buildPc' = buildPc BY <1>4 DEF allVars, buildVars, pairVars, vars
  <2>2. CASE buildPc = "done" /\ IInv
    <3>1. IInv' BY <2>1, <2>2, PairRedundantDoneKeeps
    <3> QED BY <2>1, <2>2, <3>1 DEF BuiltPairsInv
  <2>3. CASE ~ (buildPc = "done" /\ IInv) BY <2>1, <2>3 DEF BuiltPairsInv, vars
  <2> QED BY <2>2, <2>3
<1> QED BY <1>1, <1>2, <1>3, <1>4 DEF PreprocessingNext

\* From the file to the verdicts: on whatever circuit the constructor has built, the
\* walk of checkPath collects exactly the pairs on one path, and no other pair of
\* redundant faults that a pattern detects is declared redundant.
THEOREM BuiltPairsKept == PreprocessingSpec => [](OnePathPairsExact /\ DetectablePairsKept)
<1>1. PreprocessingInit => BuildInv /\ ConesInv /\ BuiltPairsInv
  BY BuildInitially, ConesInitially, FilesAssumption DEF PreprocessingInit, BuiltPairsInv
<1>2. BuildInv /\ ConesInv /\ BuiltPairsInv /\ [PreprocessingNext]_allVars => BuildInv' /\ ConesInv' /\ BuiltPairsInv'
  BY ConstructorOrElse, BuildStep, ConesStep, BuiltPairsStep, FilesAssumption
<1>3. BuiltPairsInv => OnePathPairsExact /\ DetectablePairsKept
  <2>1. pc = "constructor" => OnePathPairsExact /\ DetectablePairsKept BY DEF OnePathPairsExact, DetectablePairsKept
  <2> QED BY <2>1, PairsFollow DEF BuiltPairsInv
<1> QED BY <1>1, <1>2, <1>3, PTL DEF PreprocessingSpec
-----------------------------------------------------------------------------
(***************************************************************************)
(* The searches for faults that hide a tested fault (FaultSearch), on      *)
(* every circuit without fanout.  There a test inverts everything on one   *)
(* path, from the faulty input to an output, and nothing else.  What hides *)
(* the fault closes a side input of that path: the backward walk from that *)
(* side input finds every fault that does so alone, and every pair of      *)
(* faults that does so together.                                           *)
(***************************************************************************)
\* FaultSearch speaks of the gates, circuits and faults of Netlist ...
LEMMA SameGatesSearched ==
  /\ Search!GateID = GateID /\ Search!PIs = PIs /\ Search!POs = POs /\ Search!Bit = Bit /\ Search!Size = Size
  /\ Search!NoGate = NoGate
  /\ \A g, p, v : Search!FaultID(g, p, v) = FaultID(g, p, v)
  /\ \A f : /\ Search!faultGate(f) = faultGate(f) /\ Search!faultPort(f) = faultPort(f)
            /\ Search!faultStuckat(f) = faultStuckat(f)
  /\ \A gate, a, b : Search!getOutValue(gate, a, b) = getOutValue(gate, a, b)
  /\ \A net, g : /\ Search!Fanins(net, g) = Fanins(net, g)
                 /\ Search!Fanouts(net, g) = Fanouts(net, g)
                 /\ Search!FaninCone(net, g) = FaninCone(net, g)
<1>1. Search!Size = Size BY DEF Search!Size, Size
<1>2. Search!GateID = GateID BY <1>1 DEF Search!GateID, GateID
<1>3. Search!PIs = PIs /\ Search!POs = POs BY <1>1 DEF Search!PIs, PIs, Search!POs, POs
<1>4. Search!Bit = Bit /\ Search!NoGate = NoGate BY DEF Search!Bit, Bit, Search!NoGate, NoGate
<1>5. ASSUME NEW net, NEW g
      PROVE  /\ Search!Fanins(net, g) = Fanins(net, g)
             /\ Search!Fanouts(net, g) = Fanouts(net, g)
             /\ Search!FaninCone(net, g) = FaninCone(net, g)
  <2>1. \A h : Search!Fanins(net, h) = Fanins(net, h) BY DEF Search!Fanins, Fanins
  <2>2. Search!Fanouts(net, g) = Fanouts(net, g) BY <1>2, <2>1 DEF Search!Fanouts, Fanouts
  <2>3. Search!FaninCone(net, g) = FaninCone(net, g)
    BY DEF Search!FaninCone, FaninCone, Search!Fanins, Fanins, Search!GateID, GateID, Search!Size, Size
  <2> QED BY <2>1, <2>2, <2>3
<1>6. \A g, p, v : Search!FaultID(g, p, v) = FaultID(g, p, v) BY DEF Search!FaultID, FaultID
<1>7. \A f : /\ Search!faultGate(f) = faultGate(f) /\ Search!faultPort(f) = faultPort(f)
             /\ Search!faultStuckat(f) = faultStuckat(f)
  BY DEF Search!faultGate, faultGate, Search!faultPort, faultPort, Search!faultStuckat, faultStuckat
<1>8. \A gate, a, b : Search!getOutValue(gate, a, b) = getOutValue(gate, a, b)
  BY DEF Search!getOutValue, getOutValue
<1> QED BY <1>1, <1>2, <1>3, <1>4, <1>5, <1>6, <1>7, <1>8

\* ... and of what they carry.
LEMMA SameValuesSearched ==
  /\ \A net, F, p : Search!RefValue(net, F, p) = RefValue(net, F, p)
  /\ \A net, F, p : Search!RefDetects(net, F, p) <=> RefDetects(net, F, p)
  /\ \A net : /\ Search!allSSAFList(net) = allSSAFList(net)
              /\ Search!collapsedSSAFList(net) = collapsedSSAFList(net)
              /\ Search!WellFormed(net) <=> WellFormed(net)
              /\ Search!NoDangling(net) <=> NoDangling(net)
  /\ \A net, g : Search!fanoutSize(net, g) = fanoutSize(net, g)
<1>1. ASSUME NEW net, NEW F, NEW p PROVE Search!RefValue(net, F, p) = RefValue(net, F, p)
  BY DEF Search!RefValue, RefValue, Search!RefOut, RefOut, Search!Line, Line, Search!Held, Held,
         Search!StuckValues, StuckValues, Search!getOutValue, getOutValue, Search!GateID, GateID,
         Search!Size, Size, Search!faultGate, faultGate, Search!faultPort, faultPort, Search!faultStuckat, faultStuckat
<1>2. ASSUME NEW net, NEW F, NEW p PROVE Search!RefDetects(net, F, p) <=> RefDetects(net, F, p)
  BY <1>1, SameGatesSearched DEF Search!RefDetects, RefDetects
<1>3. ASSUME NEW net, NEW g PROVE Search!fanoutSize(net, g) = fanoutSize(net, g)
  BY SameGatesSearched DEF Search!fanoutSize, fanoutSize, Search!Cardinality, Cardinality, Search!IsFiniteSet, IsFiniteSet
<1>4. ASSUME NEW net
      PROVE  /\ Search!allSSAFList(net) = allSSAFList(net)
             /\ Search!collapsedSSAFList(net) = collapsedSSAFList(net)
  <2>1. Search!allSSAFList(net) = allSSAFList(net)
    BY SameGatesSearched DEF Search!allSSAFList, allSSAFList, Search!BinaryTypes, BinaryTypes
  <2>2. Search!collapsedSSAFList(net) = collapsedSSAFList(net)
    BY <1>3, SameGatesSearched DEF Search!collapsedSSAFList, collapsedSSAFList
  <2> QED BY <2>1, <2>2
<1>5. ASSUME NEW net PROVE Search!WellFormed(net) <=> WellFormed(net)
  BY SameGatesSearched DEF Search!WellFormed, WellFormed, Search!Gate, Gate, Search!Type, Type, Search!Bit, Bit
<1>6. ASSUME NEW net PROVE Search!NoDangling(net) <=> NoDangling(net)
  BY SameGatesSearched DEF Search!NoDangling, NoDangling, Search!FanoutCone, FanoutCone
<1> QED BY <1>1, <1>2, <1>3, <1>4, <1>5, <1>6

\* A circuit without fanout is such a tree.
LEMMA FanoutFreeTree ==
  ASSUME NEW net, WellFormed(net), \A g \in GateID : fanoutSize(net, g) <= 1
  PROVE  Tree(net)
<1>1. ASSUME NEW g \in GateID
      PROVE  /\ \A h, k \in Fanouts(net, g) : h = k
             /\ \A h \in GateID : ~ (net[h].gateType = "aig" /\ net[h].fanin1 = g /\ net[h].fanin2 = g)
  <2>1. PICK R, T : /\ R = Fanouts(net, g)
                    /\ T = {h \in GateID : net[h].gateType = "aig" /\ net[h].fanin1 = g /\ net[h].fanin2 = g}
    OBVIOUS
  <2>2. IsFiniteSet(GateID) BY SizeNat, FS_Interval DEF GateID
  <2>3. R \in SUBSET GateID /\ T \subseteq R
    BY <2>1 DEF Fanouts, Fanins
  <2>4. IsFiniteSet(R) /\ IsFiniteSet(T) BY <2>2, <2>3, FS_Subset
  <2>5. Cardinality(R) \in Nat /\ Cardinality(T) \in Nat BY <2>4, FS_CardinalityType
  <2>6. Cardinality(R) + Cardinality(T) <= 1 BY <2>1 DEF fanoutSize
  <2>7. ASSUME NEW h \in R, NEW k \in R, h # k PROVE FALSE
    <3>1. {h, k} \subseteq R /\ Cardinality({h, k}) = 2
      <4>1. IsFiniteSet({h}) /\ Cardinality({h}) = 1 BY FS_Singleton
      <4>2. Cardinality({h} \cup {k}) = Cardinality({h}) + 1 BY <2>7, <4>1, FS_AddElement
      <4>3. {h, k} = {h} \cup {k} OBVIOUS
      <4> QED BY <4>1, <4>2, <4>3
    <3>2. 2 <= Cardinality(R) BY <2>4, <3>1, FS_Subset
    <3> QED BY <2>5, <2>6, <3>2
  <2>8. ASSUME NEW h \in T PROVE FALSE
    <3>1. Cardinality({h}) = 1 /\ {h} \subseteq R /\ {h} \subseteq T BY <2>3, FS_Singleton
    <3>2. 1 <= Cardinality(R) /\ 1 <= Cardinality(T) BY <2>4, <3>1, FS_Subset
    <3> QED BY <2>5, <2>6, <3>2
  <2> QED BY <2>1, <2>7, <2>8
<1>2. ASSUME NEW h \in GateID, net[h].gateType = "aig", net[h].fanin1 = net[h].fanin2 PROVE FALSE
  <2>1. net[h].fanin1 \in Fanins(net, h) BY <1>2 DEF Fanins
  <2>2. net[h].fanin1 \in GateID BY <2>1, FaninsPrecede
  <2> QED BY <1>1, <1>2, <2>2
<1> QED BY <1>1, <1>2 DEF Tree

-----------------------------------------------------------------------------
(***************************************************************************)
(* The backward walk of FaultSearch on a circuit without fanout finds the  *)
(* faults that invert its gate.                                            *)
(***************************************************************************)
LEMMA SameLinesSearched ==
  /\ \A net, g, r : Search!FaninOf(net, g, r) = InputOf(net, g, r)
  /\ \A net, g, r : Search!InvOf(net, g, r) = Flag(net, g, r)
  /\ \A net, out, g, r : Search!InValue(net, out, g, r) = out[InputOf(net, g, r)]
  /\ \A v : Search!Inverse(v) = Opposite(v)
BY DEF Search!FaninOf, Search!InvOf, Search!InValue, Search!Inverse, InputOf, Flag, Opposite

\* The walk goes on from inputs that the gate has.
LEMMA WalkedInputs ==
  ASSUME NEW net, NEW out, NEW g
  PROVE  Search!WalkedPorts(net, out, g) \subseteq GateInputs(net, g)
BY DEF Search!WalkedPorts, GateInputs

\* The gates of the walk.
LEMMA WalkedEquation ==
  ASSUME NEW net, WellFormed(net), NEW out
  PROVE  \A g \in GateID :
           /\ Search!WalkedGates(net, out, g) \in SUBSET GateID
           /\ Search!WalkedGates(net, out, g) =
                {g} \cup UNION {Search!WalkedGates(net, out, InputOf(net, g, p)) : p \in Search!WalkedPorts(net, out, g)}
<1> DEFINE V == SUBSET GateID
           Ports(g) == Search!WalkedPorts(net, out, g)
           Step == [x \in [GateID -> V] \X GateID |->
                      {x[2]} \cup UNION {x[1][InputOf(net, x[2], p)] : p \in Ports(x[2])}]
           C(c) == [h \in GateID |-> {h} \cup UNION {c[InputOf(net, h, p)] : p \in Ports(h)}]
           walked == CHOOSE c : c = C(c)
<1>0. \A g \in GateID : \A p \in Ports(g) : InputOf(net, g, p) \in GateID /\ InputOf(net, g, p) < g
  BY WalkedInputs, LinesOf, FaninsPrecede
<1>1. \A v \in [GateID -> V], g \in GateID :
        Step[<<v, g>>] = {g} \cup UNION {v[InputOf(net, g, p)] : p \in Ports(g)}
  OBVIOUS
<1>2. Step \in [[GateID -> V] \X GateID -> V]
  <2>1. ASSUME NEW v \in [GateID -> V], NEW g \in GateID
        PROVE  {g} \cup UNION {v[InputOf(net, g, p)] : p \in Ports(g)} \in V
    <3>1. \A p \in Ports(g) : v[InputOf(net, g, p)] \in SUBSET GateID BY <1>0
    <3> HIDE DEF Ports
    <3> QED BY <3>1
  <2>2. \A x \in [GateID -> V] \X GateID : x[1] \in [GateID -> V] /\ x[2] \in GateID OBVIOUS
  <2> HIDE DEF Ports
  <2> QED BY <2>1, <2>2
<1> HIDE DEF Step, Ports
<1>3. ASSUME NEW v \in [GateID -> V], NEW w \in [GateID -> V], NEW g \in GateID,
             \A h \in GateID : h < g => v[h] = w[h]
      PROVE  Step[<<v, g>>] = Step[<<w, g>>]
  <2>1. \A p \in Ports(g) : v[InputOf(net, g, p)] = w[InputOf(net, g, p)] BY <1>0, <1>3
  <2>2. {v[InputOf(net, g, p)] : p \in Ports(g)} = {w[InputOf(net, g, p)] : p \in Ports(g)} BY <2>1
  <2> QED BY <1>1, <2>2
<1>4. OrderedStep(V, Step)
  <2>1. V # {} OBVIOUS
  <2> HIDE DEF V
  <2> QED BY <1>2, <1>3, <2>1 DEF OrderedStep
<1> HIDE DEF V
<1>5. PICK v \in Solutions(V, Step) : TRUE BY <1>4, RecursionExists
<1>6. v = C(v) BY <1>1, <1>5 DEF Solutions
<1> HIDE DEF C
<1>7. walked = C(walked) BY <1>6
<1>8. \A g \in GateID : Search!WalkedGates(net, out, g) = walked[g]
  BY DEF Search!WalkedGates, C, Ports, Search!FaninOf, InputOf, Search!GateID, GateID, Search!Size, Size
<1> HIDE DEF walked
<1>9. \A g \in GateID : walked[g] = {g} \cup UNION {walked[InputOf(net, g, p)] : p \in Ports(g)} BY <1>7 DEF C
<1>10. \A g \in GateID : walked[g] \in SUBSET GateID
  <2> DEFINE S == {g \in GateID : walked[g] \in SUBSET GateID}
  <2>1. ASSUME NEW g \in GateID, \A h \in GateID : h < g => h \in S PROVE g \in S
    <3>1. \A p \in Ports(g) : walked[InputOf(net, g, p)] \in SUBSET GateID BY <1>0, <2>1
    <3> QED BY <1>9, <3>1
  <2> HIDE DEF S
  <2>2. \A g \in GateID : g \in S BY <2>1, GateInduction
  <2> QED BY <2>2 DEF S
<1>11. ASSUME NEW g \in GateID
       PROVE  Search!WalkedGates(net, out, g) =
                {g} \cup UNION {Search!WalkedGates(net, out, InputOf(net, g, p)) : p \in Ports(g)}
  <2>1. \A p \in Ports(g) : Search!WalkedGates(net, out, InputOf(net, g, p)) = walked[InputOf(net, g, p)] BY <1>0, <1>8
  <2>2. {Search!WalkedGates(net, out, InputOf(net, g, p)) : p \in Ports(g)} = {walked[InputOf(net, g, p)] : p \in Ports(g)}
    BY <2>1
  <2> QED BY <1>8, <1>9, <2>2
<1> QED BY <1>8, <1>10, <1>11 DEF Ports

\* What the walk from g meets.
FoundAt(net, out, diff, g, x) ==
  \E h \in Search!WalkedGates(net, out, g) : x \in Search!FaultsIn(net, out, diff, h)

\* It meets the faults of its gate and those behind the inputs it goes on from.
LEMMA FoundEquation ==
  ASSUME NEW net, WellFormed(net), NEW out, NEW diff, NEW g \in GateID, NEW x
  PROVE  FoundAt(net, out, diff, g, x) <=>
           \/ x \in Search!FaultsIn(net, out, diff, g)
           \/ \E p \in Search!WalkedPorts(net, out, g) : FoundAt(net, out, diff, InputOf(net, g, p), x)
<1>1. Search!WalkedGates(net, out, g) =
        {g} \cup UNION {Search!WalkedGates(net, out, InputOf(net, g, p)) : p \in Search!WalkedPorts(net, out, g)}
  BY WalkedEquation
<1> QED BY <1>1 DEF FoundAt

\* An input of an AIG is sensitive when the other one is open.
LEMMA OtherOpen ==
  ASSUME NEW net, WellFormed(net), NEW p \in [PIs -> Bit], NEW g \in GateID, net[g].gateType = "aig", NEW r \in {1, 2}
  PROVE  r \in Search!WalkedPorts(net, RefValue(net, {}, p), g) <=> LineValue(net, {}, p, g, 3 - r) = Flag(net, g, 3 - r)
<1>1. PICK good, gate : good = RefValue(net, {}, p) /\ gate = net[g] OBVIOUS
<1>2. PICK i1, i2 : i1 = good[gate.fanin1] /\ i2 = good[gate.fanin2] OBVIOUS
<1>3. /\ LineValue(net, {}, p, g, 1) = i1 /\ LineValue(net, {}, p, g, 2) = i2
      /\ Flag(net, g, 1) = gate.invIn1 /\ Flag(net, g, 2) = gate.invIn2
  <2>1. \A k, v : Line({}, g, k, v) = v BY FreeLine
  <2> QED BY <1>1, <1>2, <2>1 DEF LineValue, InputOf, Flag
<1>4. i1 \in Bit /\ i2 \in Bit /\ gate.invIn1 \in Bit /\ gate.invIn2 \in Bit /\ gate.invOut \in Bit
  <2>1. 1 \in GateInputs(net, g) /\ 2 \in GateInputs(net, g) BY DEF GateInputs
  <2>2. LineValue(net, {}, p, g, 1) \in Bit /\ LineValue(net, {}, p, g, 2) \in Bit BY <2>1, LinesOf
  <2>3. Flag(net, g, 1) \in Bit /\ Flag(net, g, 2) \in Bit /\ net[g].invOut \in Bit BY LinesOf
  <2> QED BY <1>1, <1>3, <2>2, <2>3
<1>5. good[g] = AigOut(gate, i1 = gate.invIn1 /\ i2 = gate.invIn2)
  <2>1. RefValue(net, {}, p)[g] = AigOut(net[g], LineValue(net, {}, p, g, 1) = Flag(net, g, 1) /\ LineValue(net, {}, p, g, 3 - 1) = Flag(net, g, 3 - 1))
    <3>1. FreeOutput({}, g) BY DEF FreeOutput
    <3>2. 1 \in {1, 2} OBVIOUS
    <3> QED BY <3>1, <3>2, AigFree, ZenonT(60)
  <2>2. 3 - 1 = 2 OBVIOUS
  <2> QED BY <1>1, <1>3, <2>1, <2>2
<1>6. \A a, b : Search!getOutValue(gate, a, b) = AigOut(gate, a = gate.invIn1 /\ b = gate.invIn2)
  BY <1>1 DEF Search!getOutValue, AigOut, Opposite
<1>7. Search!Sensitive(net, good, g, 1) <=> AigOut(gate, Opposite(i1) = gate.invIn1 /\ i2 = gate.invIn2) = Opposite(good[g])
  BY <1>1, <1>2, <1>6, SameLinesSearched DEF Search!Sensitive, InputOf
<1>8. Search!Sensitive(net, good, g, 2) <=> AigOut(gate, i1 = gate.invIn1 /\ Opposite(i2) = gate.invIn2) = Opposite(good[g])
  BY <1>1, <1>2, <1>6, SameLinesSearched DEF Search!Sensitive, InputOf
<1>9. \A v, w \in Bit : Opposite(v) = w <=> v # w BY DEF Opposite, Bit
<1>10. AigOut(gate, TRUE) # AigOut(gate, FALSE) /\ AigOut(gate, TRUE) \in Bit /\ AigOut(gate, FALSE) \in Bit
       /\ Opposite(AigOut(gate, TRUE)) = AigOut(gate, FALSE) /\ Opposite(AigOut(gate, FALSE)) = AigOut(gate, TRUE)
  BY <1>4 DEF AigOut, Opposite, Bit
<1>11. Search!Sensitive(net, good, g, 1) <=> i2 = gate.invIn2 BY <1>4, <1>5, <1>7, <1>9, <1>10
<1>12. Search!Sensitive(net, good, g, 2) <=> i1 = gate.invIn1 BY <1>4, <1>5, <1>8, <1>9, <1>10
<1>13. r \in Search!WalkedPorts(net, good, g) <=> Search!Sensitive(net, good, g, r) BY DEF Search!WalkedPorts
<1>14. CASE r = 1
  <2>1. 3 - r = 2 BY <1>14
  <2> QED BY <1>1, <1>3, <1>11, <1>13, <1>14, <2>1
<1>15. CASE r = 2
  <2>1. 3 - r = 1 BY <1>15
  <2> QED BY <1>1, <1>3, <1>12, <1>13, <1>15, <2>1
<1> QED BY <1>14, <1>15

\* Without faults a line carries what drives it.
LEMMA GoodLine ==
  ASSUME NEW net, NEW p, NEW g, NEW r
  PROVE  LineValue(net, {}, p, g, r) = RefValue(net, {}, p)[InputOf(net, g, r)]
BY FreeLine DEF LineValue

\* What a gate makes of open and closed differs.
LEMMA OpenCloses ==
  ASSUME NEW net, WellFormed(net), NEW g \in GateID, NEW a \in BOOLEAN, NEW b \in BOOLEAN
  PROVE  /\ AigOut(net[g], a) = AigOut(net[g], b) <=> (a <=> b)
         /\ AigOut(net[g], a) \in Bit
         /\ Opposite(AigOut(net[g], a)) = AigOut(net[g], ~ a)
<1>1. PICK v : v = net[g].invOut OBVIOUS
<1>2. v \in Bit BY <1>1, LinesOf
<1>3. AigOut(net[g], TRUE) = v /\ AigOut(net[g], FALSE) = 1 - v BY <1>1 DEF AigOut, Opposite
<1>4. v \in {0, 1} /\ 1 - v \in {0, 1} /\ v # 1 - v /\ 1 - (1 - v) = v BY <1>2 DEF Bit
<1>5. CASE a BY <1>3, <1>4, <1>5 DEF Opposite, Bit
<1>6. CASE ~ a BY <1>3, <1>4, <1>6 DEF Opposite, Bit
<1> QED BY <1>5, <1>6

\* The value of an AIG with a free output, its inputs in either order.
LEMMA AigOpen ==
  ASSUME NEW net, WellFormed(net), NEW F, NEW p \in [PIs -> Bit], NEW h \in GateID, net[h].gateType = "aig",
         FreeOutput(F, h), NEW r \in {1, 2}, NEW s \in {1, 2}, r # s
  PROVE  RefValue(net, F, p)[h] =
           IF LineValue(net, F, p, h, r) = Flag(net, h, r) /\ LineValue(net, F, p, h, s) = Flag(net, h, s)
           THEN net[h].invOut ELSE Opposite(net[h].invOut)
<1>1. s = 3 - r OBVIOUS
<1>2. RefValue(net, F, p)[h] = AigOut(net[h], /\ LineValue(net, F, p, h, r) = Flag(net, h, r)
                                              /\ LineValue(net, F, p, h, 3 - r) = Flag(net, h, 3 - r))
  BY AigFree, ZenonT(60)
<1> QED BY <1>1, <1>2 DEF AigOut

\* A gate turns when its only changed line is one the walk goes on from.
LEMMA GateTurns ==
  ASSUME NEW net, WellFormed(net), NEW p \in [PIs -> Bit], NEW g \in GateID \ POs, NEW r \in GateInputs(net, g),
         NEW F, FreeOutput(F, g),
         \A s \in GateInputs(net, g) : s # r => LineValue(net, F, p, g, s) = LineValue(net, {}, p, g, s)
  PROVE  RefValue(net, F, p)[g] # RefValue(net, {}, p)[g] <=>
           /\ r \in Search!WalkedPorts(net, RefValue(net, {}, p), g)
           /\ LineValue(net, F, p, g, r) # LineValue(net, {}, p, g, r)
<1>1. PICK fr, gr, open : fr = LineValue(net, F, p, g, r) /\ gr = LineValue(net, {}, p, g, r) /\ open = Flag(net, g, r) OBVIOUS
<1>2. fr \in Bit /\ gr \in Bit /\ open \in Bit
  <2>1. LineValue(net, F, p, g, r) \in Bit /\ LineValue(net, {}, p, g, r) \in Bit BY LinesOf
  <2>2. Flag(net, g, r) \in Bit BY LinesOf
  <2> QED BY <1>1, <2>1, <2>2
<1>3. fr # gr <=> ((fr = open) # (gr = open)) BY <1>2 DEF Bit
<1>4. FreeOutput({}, g) BY DEF FreeOutput
<1>8. g \in GateID OBVIOUS
<1>5. CASE net[g].gateType = "aig"
  <2>1. r \in {1, 2} BY <1>5 DEF GateInputs
  <2>2. PICK s : s = 3 - r OBVIOUS
  <2>3. s \in {1, 2} /\ s # r /\ s \in GateInputs(net, g) BY <1>5, <2>1, <2>2 DEF GateInputs
  <2>4. PICK gs, side : gs = LineValue(net, {}, p, g, s) /\ side = Flag(net, g, s) OBVIOUS
  <2>5. LineValue(net, F, p, g, s) = gs BY <2>3, <2>4
  <2>6. RefValue(net, F, p)[g] = AigOut(net[g], fr = open /\ gs = side)
    <3>1. RefValue(net, F, p)[g] =
            IF LineValue(net, F, p, g, r) = Flag(net, g, r) /\ LineValue(net, F, p, g, s) = Flag(net, g, s)
            THEN net[g].invOut ELSE Opposite(net[g].invOut)
      BY <1>5, <1>8, <2>1, <2>3, AigOpen
    <3> QED BY <1>1, <2>4, <2>5, <3>1 DEF AigOut
  <2>7. RefValue(net, {}, p)[g] = AigOut(net[g], gr = open /\ gs = side)
    <3>1. RefValue(net, {}, p)[g] =
            IF LineValue(net, {}, p, g, r) = Flag(net, g, r) /\ LineValue(net, {}, p, g, s) = Flag(net, g, s)
            THEN net[g].invOut ELSE Opposite(net[g].invOut)
      BY <1>4, <1>5, <1>8, <2>1, <2>3, AigOpen
    <3> QED BY <1>1, <2>4, <3>1 DEF AigOut
  <2>8. r \in Search!WalkedPorts(net, RefValue(net, {}, p), g) <=> gs = side
    <3>1. r \in Search!WalkedPorts(net, RefValue(net, {}, p), g) <=> LineValue(net, {}, p, g, 3 - r) = Flag(net, g, 3 - r)
      BY <1>5, <2>1, OtherOpen
    <3> QED BY <2>2, <2>4, <3>1
  <2>9. AigOut(net[g], fr = open /\ gs = side) = AigOut(net[g], gr = open /\ gs = side)
          <=> ((fr = open /\ gs = side) <=> (gr = open /\ gs = side))
    BY OpenCloses
  <2> QED BY <1>1, <1>3, <2>6, <2>7, <2>8, <2>9
<1>6. CASE net[g].gateType = "bufInv"
  <2>1. r = 1 BY <1>6 DEF GateInputs
  <2>2. \A v : Line(F, g, 3, v) = v /\ Line({}, g, 3, v) = v BY <1>4, FreeLine DEF FreeOutput
  <2>3. open = net[g].invIn1 BY <1>1, <2>1 DEF Flag
  <2>4. RefValue(net, F, p)[g] = AigOut(net[g], fr = open)
    <3>1. RefValue(net, F, p)[g] = Line(F, g, 3, OneOut(net[g], LineValue(net, F, p, g, 1))) BY <1>6, OneValue
    <3> QED BY <1>1, <1>6, <2>1, <2>2, <2>3, <3>1 DEF OneOut
  <2>5. RefValue(net, {}, p)[g] = AigOut(net[g], gr = open)
    <3>1. RefValue(net, {}, p)[g] = Line({}, g, 3, OneOut(net[g], LineValue(net, {}, p, g, 1))) BY <1>6, OneValue
    <3> QED BY <1>1, <1>6, <2>1, <2>2, <2>3, <3>1 DEF OneOut
  <2>6. r \in Search!WalkedPorts(net, RefValue(net, {}, p), g) BY <1>6, <2>1 DEF Search!WalkedPorts
  <2>7. AigOut(net[g], fr = open) = AigOut(net[g], gr = open) <=> ((fr = open) <=> (gr = open)) BY OpenCloses
  <2> QED BY <1>1, <1>3, <2>4, <2>5, <2>6, <2>7
<1>7. net[g].gateType # "PO" BY DEF WellFormed
<1> QED BY <1>5, <1>6, <1>7 DEF GateInputs

\* The faults the walk meets at a gate: each inverts a line it goes on from.
LEMMA FoundHere ==
  ASSUME NEW net, WellFormed(net), NEW p \in [PIs -> Bit], NEW g \in GateID,
         NEW diff, \A j \in Fanins(net, g) : ~ diff[j], NEW x
  PROVE  x \in Search!FaultsIn(net, RefValue(net, {}, p), diff, g) <=>
           \E r \in Search!WalkedPorts(net, RefValue(net, {}, p), g) :
             x = FaultID(g, r, Opposite(LineValue(net, {}, p, g, r)))
<1>1. PICK good : good = RefValue(net, {}, p) OBVIOUS
<1>2. ~ Search!Counteracting(net, good, diff, g) BY DEF Search!Counteracting, Fanins
<1>3. ASSUME NEW r \in Search!WalkedPorts(net, good, g)
      PROVE  Search!StuckatToInvert(net, good, g, r) = Opposite(LineValue(net, {}, p, g, r))
  <2>1. LineValue(net, {}, p, g, r) = good[InputOf(net, g, r)] BY <1>1, GoodLine
  <2>2. CASE net[g].gateType # "bufInv" BY <2>1, <2>2, SameLinesSearched DEF Search!StuckatToInvert
  <2>3. CASE net[g].gateType = "bufInv"
    <3>1. r = 1 BY <2>3 DEF Search!WalkedPorts
    <3>2. PICK v, open : v = LineValue(net, {}, p, g, 1) /\ open = net[g].invIn1 OBVIOUS
    <3>3. v \in Bit /\ open \in Bit
      <4>1. 1 \in GateInputs(net, g) BY <2>3 DEF GateInputs
      <4>2. LineValue(net, {}, p, g, 1) \in Bit BY <4>1, LinesOf
      <4>3. Flag(net, g, 1) \in Bit BY LinesOf
      <4> QED BY <3>2, <4>2, <4>3 DEF Flag
    <3>4. good[g] = AigOut(net[g], v = open)
      <4>1. RefValue(net, {}, p)[g] = Line({}, g, 3, OneOut(net[g], LineValue(net, {}, p, g, 1))) BY <2>3, OneValue
      <4>2. \A w : Line({}, g, 3, w) = w BY FreeLine
      <4> QED BY <1>1, <2>3, <3>2, <4>1, <4>2 DEF OneOut
    <3>5. Opposite(good[g]) = AigOut(net[g], v # open)
      <4>1. Opposite(AigOut(net[g], v = open)) = AigOut(net[g], ~ (v = open)) BY OpenCloses
      <4> QED BY <3>4, <4>1
    <3>6. net[g].invOut = AigOut(net[g], TRUE) BY DEF AigOut
    <3>7. AigOut(net[g], v # open) = AigOut(net[g], TRUE) <=> v # open
      <4>1. AigOut(net[g], v # open) = AigOut(net[g], TRUE) <=> ((v # open) <=> TRUE) BY OpenCloses
      <4> QED BY <4>1
    <3>8. Search!StuckatToInvert(net, good, g, r) = IF v # open THEN open ELSE Opposite(open)
      BY <2>3, <3>2, <3>5, <3>6, <3>7, SameLinesSearched DEF Search!StuckatToInvert
    <3>9. (IF v # open THEN open ELSE Opposite(open)) = Opposite(v) BY <3>3, Opposites
    <3> QED BY <3>1, <3>2, <3>8, <3>9
  <2> QED BY <2>2, <2>3
<1>4. x \in Search!FaultsIn(net, good, diff, g) <=>
        \E r \in Search!WalkedPorts(net, good, g) : x = FaultID(g, r, Search!StuckatToInvert(net, good, g, r))
  BY <1>2, SameGatesSearched DEF Search!FaultsIn
<1> QED BY <1>1, <1>3, <1>4

\* The faults at inputs, and the one that is meant.
InputFault(net, x) == \E h \in GateID : \E k \in GateInputs(net, h), v \in Bit : x = FaultID(h, k, v)

\* Inputs are port 1 and port 2.
LEMMA InputPorts ==
  ASSUME NEW net, NEW h
  PROVE  GateInputs(net, h) \subseteq {1, 2}
BY DEF GateInputs

\* A fault at an input shows at its gate, ...
LEMMA TurnsHere ==
  ASSUME NEW net, WellFormed(net), NEW p \in [PIs -> Bit], NEW g \in GateID \ POs,
         NEW diff, \A j \in Fanins(net, g) : ~ diff[j],
         NEW k \in GateInputs(net, g), NEW v \in Bit
  PROVE  RefValue(net, {FaultID(g, k, v)}, p)[g] # RefValue(net, {}, p)[g] <=>
           FaultID(g, k, v) \in Search!FaultsIn(net, RefValue(net, {}, p), diff, g)
<1>1. PICK x : x = FaultID(g, k, v) OBVIOUS
<1>0. g \in GateID /\ k \in {1, 2, 3} BY InputPorts
<1>2. faultGate(x) = g /\ faultPort(x) = k /\ faultStuckat(x) = v /\ k # 3
  <2>1. k # 3 BY InputPorts
  <2> QED BY <1>0, <1>1, <2>1, FaultDecoded
<1>3. FreeOutput({x}, g) BY <1>2 DEF FreeOutput
<1>4. ASSUME NEW s \in GateInputs(net, g), s # k PROVE LineValue(net, {x}, p, g, s) = LineValue(net, {}, p, g, s)
  <2>1. InputOf(net, g, s) \in Fanins(net, g) BY <1>0, LinesOf
  <2>2. g \notin FaninCone(net, InputOf(net, g, s)) BY <1>0, <2>1, NotBefore
  <2>3. FeltBy(net, {x}, g, s) = FeltBy(net, {}, g, s) BY <1>2, <1>4, <2>2 DEF FeltBy
  <2> QED BY <1>0, <2>3, LineBehind
<1>5. LineValue(net, {x}, p, g, k) = v
  <2>1. \A w : Line({x}, g, k, w) = v BY <1>0, <1>1, OneFault
  <2> QED BY <2>1 DEF LineValue
<1>6. RefValue(net, {x}, p)[g] # RefValue(net, {}, p)[g] <=>
        k \in Search!WalkedPorts(net, RefValue(net, {}, p), g) /\ v # LineValue(net, {}, p, g, k)
  <2>1. RefValue(net, {x}, p)[g] # RefValue(net, {}, p)[g] <=>
        /\ k \in Search!WalkedPorts(net, RefValue(net, {}, p), g)
        /\ LineValue(net, {x}, p, g, k) # LineValue(net, {}, p, g, k)
    BY <1>3, <1>4, GateTurns
  <2> QED BY <1>5, <2>1
<1>7. x \in Search!FaultsIn(net, RefValue(net, {}, p), diff, g) <=>
           \E r \in Search!WalkedPorts(net, RefValue(net, {}, p), g) : x = FaultID(g, r, Opposite(LineValue(net, {}, p, g, r)))
  BY <1>0, FoundHere
<1>8. ASSUME NEW r \in Search!WalkedPorts(net, RefValue(net, {}, p), g)
      PROVE  x = FaultID(g, r, Opposite(LineValue(net, {}, p, g, r))) <=> r = k /\ v # LineValue(net, {}, p, g, r)
  <2>1. r \in GateInputs(net, g) BY WalkedInputs
  <2>2. r \in {1, 2, 3} BY <2>1, InputPorts
  <2>3. PICK w : w = LineValue(net, {}, p, g, r) OBVIOUS
  <2>4. w \in Bit BY <1>0, <2>1, <2>3, LinesOf
  <2>5. Opposite(w) \in Bit /\ (Opposite(w) = v <=> v # w) BY <2>4, Opposites
  <2>6. faultPort(FaultID(g, r, Opposite(w))) = r /\ faultStuckat(FaultID(g, r, Opposite(w))) = Opposite(w)
    BY <1>0, <2>2, <2>5, FaultDecoded
  <2> QED BY <1>1, <1>2, <2>3, <2>5, <2>6
<1> QED BY <1>1, <1>6, <1>7, <1>8

\* ... and behind it as far as the walk comes.
LEMMA FoundExact ==
  ASSUME NEW net, WellFormed(net), Tree(net), NEW p \in [PIs -> Bit], NEW diff, NEW x, InputFault(net, x)
  PROVE  \A g \in GateID : g \notin POs /\ (\A j \in FaninCone(net, g) : ~ diff[j]) =>
           (FoundAt(net, RefValue(net, {}, p), diff, g, x) <=>
              faultGate(x) \in FaninCone(net, g) /\ RefValue(net, {x}, p)[g] # RefValue(net, {}, p)[g])
<1> DEFINE good == RefValue(net, {}, p)
           Turns(g) == faultGate(x) \in FaninCone(net, g) /\ RefValue(net, {x}, p)[g] # good[g]
           S == {g \in GateID : g \notin POs /\ (\A j \in FaninCone(net, g) : ~ diff[j]) =>
                   (FoundAt(net, good, diff, g, x) <=> Turns(g))}
<1>1. PICK h \in GateID : \E k \in GateInputs(net, h), v \in Bit : x = FaultID(h, k, v) BY DEF InputFault
<1>2. PICK k \in GateInputs(net, h), v \in Bit : x = FaultID(h, k, v) BY <1>1
<1>3. k \in {1, 2, 3} BY InputPorts
<1>4. faultGate(x) = h /\ faultPort(x) = k /\ faultStuckat(x) = v BY <1>2, <1>3, FaultDecoded
<1> HIDE DEF good
<1>5. ASSUME NEW g \in GateID, \A z \in GateID : z < g => z \in S PROVE g \in S
  <2> SUFFICES ASSUME g \notin POs, \A j \in FaninCone(net, g) : ~ diff[j]
               PROVE  FoundAt(net, good, diff, g, x) <=> Turns(g)
    OBVIOUS
  <2>1. ASSUME NEW r \in GateInputs(net, g)
        PROVE  /\ InputOf(net, g, r) \in GateID /\ InputOf(net, g, r) \in Fanins(net, g)
               /\ FaninCone(net, InputOf(net, g, r)) \subseteq FaninCone(net, g)
               /\ FoundAt(net, good, diff, InputOf(net, g, r), x) <=> Turns(InputOf(net, g, r))
    <3>1. PICK j : j = InputOf(net, g, r) OBVIOUS
    <3>2. j \in Fanins(net, g) BY <3>1, LinesOf
    <3>3. j \in GateID /\ j < g /\ j \notin POs BY <3>2, FaninsPrecede
    <3>4. FaninCone(net, j) \subseteq FaninCone(net, g) BY <3>2, ConeEquation
    <3> QED BY <1>5, <3>1, <3>2, <3>3, <3>4
  <2>2. \A j \in Fanins(net, g) : ~ diff[j]
    <3>1. \A j \in Fanins(net, g) : j \in FaninCone(net, g) BY ConeClosed
    <3> QED BY <3>1
  <2>3. Search!WalkedPorts(net, good, g) \subseteq GateInputs(net, g) BY WalkedInputs
  <2>4. FoundAt(net, good, diff, g, x) <=>
           \/ x \in Search!FaultsIn(net, good, diff, g)
           \/ \E r \in Search!WalkedPorts(net, good, g) : FoundAt(net, good, diff, InputOf(net, g, r), x)
    BY FoundEquation
  <2>5. \A r \in Search!WalkedPorts(net, good, g) : FoundAt(net, good, diff, InputOf(net, g, r), x) <=> Turns(InputOf(net, g, r))
    BY <2>1, <2>3
  <2>6. CASE h = g
    <3>1. \A r \in GateInputs(net, g) : ~ Turns(InputOf(net, g, r)) BY <1>4, <2>1, <2>6, NotBefore
    <3>2. g \in FaninCone(net, g) BY ConeClosed
    <3>3. RefValue(net, {FaultID(g, k, v)}, p)[g] # RefValue(net, {}, p)[g] <=>
           FaultID(g, k, v) \in Search!FaultsIn(net, RefValue(net, {}, p), diff, g)
      BY <1>2, <2>2, <2>6, TurnsHere
    <3>4. RefValue(net, {x}, p)[g] # good[g] <=> x \in Search!FaultsIn(net, good, diff, g)
      BY <1>2, <2>6, <3>3 DEF good
    <3>5. FoundAt(net, good, diff, g, x) <=> x \in Search!FaultsIn(net, good, diff, g) BY <2>3, <2>4, <2>5, <3>1
    <3> QED BY <1>4, <2>6, <3>2, <3>4, <3>5
  <2>7. CASE h # g
    <3>1. x \notin Search!FaultsIn(net, good, diff, g)
      <4>1. x \in Search!FaultsIn(net, RefValue(net, {}, p), diff, g) <=>
             \E r \in Search!WalkedPorts(net, RefValue(net, {}, p), g) :
               x = FaultID(g, r, Opposite(LineValue(net, {}, p, g, r)))
        BY <2>2, FoundHere
      <4>2. ASSUME NEW r \in GateInputs(net, g) PROVE x # FaultID(g, r, Opposite(LineValue(net, {}, p, g, r)))
        <5>1. r \in {1, 2, 3} BY InputPorts
        <5>2. LineValue(net, {}, p, g, r) \in Bit BY LinesOf
        <5>3. Opposite(LineValue(net, {}, p, g, r)) \in Bit BY <5>2, Opposites
        <5>4. faultGate(FaultID(g, r, Opposite(LineValue(net, {}, p, g, r)))) = g BY <5>1, <5>3, FaultDecoded
        <5> QED BY <1>4, <2>7, <5>4
      <4> QED BY <2>3, <4>1, <4>2 DEF good
    <3>2. CASE h \notin FaninCone(net, g)
      <4>1. \A r \in GateInputs(net, g) : ~ Turns(InputOf(net, g, r)) BY <1>4, <2>1, <3>2
      <4> QED BY <1>4, <2>3, <2>4, <2>5, <3>1, <3>2, <4>1
    <3>3. CASE h \in FaninCone(net, g)
      <4>1. PICK j \in Fanins(net, g) : h \in FaninCone(net, j) BY <2>7, <3>3, ConeEquation
      <4>2. PICK r \in GateInputs(net, g) : InputOf(net, g, r) = j BY <4>1, LinesOf
      <4>3. ASSUME NEW s \in GateInputs(net, g), s # r
            PROVE  h \notin FaninCone(net, InputOf(net, g, s)) /\ LineValue(net, {x}, p, g, s) = LineValue(net, {}, p, g, s)
        <5>1. InputOf(net, g, s) # j BY <4>2, <4>3, LinesOf
        <5>2. h \notin FaninCone(net, InputOf(net, g, s)) BY <2>1, <4>1, <5>1, ConesApart
        <5>3. FeltBy(net, {x}, g, s) = FeltBy(net, {}, g, s) BY <1>4, <2>7, <5>2 DEF FeltBy
        <5> QED BY <5>2, <5>3, LineBehind
      <4>4. LineValue(net, {x}, p, g, r) = RefValue(net, {x}, p)[j] /\ LineValue(net, {}, p, g, r) = good[j]
        <5>1. \A y \in {x} : faultGate(y) = g => faultPort(y) # r BY <1>4, <2>7
        <5>2. \A w : Line({x}, g, r, w) = w BY <5>1, FreeLine
        <5> QED BY <4>2, <5>2, GoodLine DEF LineValue, good
      <4>5. FreeOutput({x}, g) BY <1>4, <2>7 DEF FreeOutput
      <4>6. RefValue(net, {x}, p)[g] # RefValue(net, {}, p)[g] <=>
             /\ r \in Search!WalkedPorts(net, RefValue(net, {}, p), g)
             /\ LineValue(net, {x}, p, g, r) # LineValue(net, {}, p, g, r)
        BY <4>3, <4>5, GateTurns
      <4>7. Turns(g) <=> r \in Search!WalkedPorts(net, good, g) /\ Turns(InputOf(net, g, r))
        BY <1>4, <3>3, <4>1, <4>2, <4>4, <4>6 DEF good
      <4>8. \A s \in GateInputs(net, g) : s # r => ~ Turns(InputOf(net, g, s)) BY <1>4, <4>3
      <4>9. Turns(g) <=> \E s \in Search!WalkedPorts(net, good, g) : Turns(InputOf(net, g, s))
        BY <2>3, <4>7, <4>8
      <4> HIDE DEF Turns
      <4> QED BY <2>4, <2>5, <3>1, <4>9
    <3> QED BY <3>2, <3>3
  <2> QED BY <2>6, <2>7
<1> HIDE DEF S
<1>6. \A g \in GateID : g \in S BY <1>5, GateInduction
<1> QED BY <1>6 DEF S, good

\* Line r of gate g feels fault x.
Feels(net, g, r, x) ==
  (faultGate(x) = g /\ faultPort(x) = r) \/ faultGate(x) \in FaninCone(net, InputOf(net, g, r))

\* In a tree only one line of the gate feels it.
LEMMA FeelsOnce ==
  ASSUME NEW net, WellFormed(net), Tree(net), NEW g \in GateID, NEW x, NEW r \in GateInputs(net, g), Feels(net, g, r, x),
         NEW s \in GateInputs(net, g), s # r
  PROVE  ~ Feels(net, g, s, x)
<1>1. PICK i, j : i = InputOf(net, g, r) /\ j = InputOf(net, g, s) OBVIOUS
<1>2. i \in Fanins(net, g) /\ j \in Fanins(net, g) BY <1>1, LinesOf
<1>3. i # j BY <1>1, LinesOf
<1>4. FaninCone(net, i) \cap FaninCone(net, j) = {} BY <1>2, <1>3, ConesApart
<1>5. g \notin FaninCone(net, i) /\ g \notin FaninCone(net, j) BY <1>2, NotBefore
<1> QED BY <1>1, <1>4, <1>5 DEF Feels

\* Lines that feel the same of two sets of faults are the same.
LEMMA SameFelt ==
  ASSUME NEW net, WellFormed(net), NEW p \in [PIs -> Bit], NEW g \in GateID, NEW r \in GateInputs(net, g), NEW F, NEW G,
         \A x : Feels(net, g, r, x) => (x \in F <=> x \in G)
  PROVE  LineValue(net, F, p, g, r) = LineValue(net, G, p, g, r)
<1>1. FeltBy(net, F, g, r) = FeltBy(net, G, g, r) BY DEF FeltBy, Feels
<1> QED BY <1>1, LineBehind

\* A changed line of a gate found by the walk behind it, or at it.
LEMMA ReleasedBy ==
  ASSUME NEW net, WellFormed(net), Tree(net), NEW p \in [PIs -> Bit], NEW g \in GateID,
         NEW x, InputFault(net, x), NEW r \in GateInputs(net, g), Feels(net, g, r, x),
         NEW diff, \A i \in FaninCone(net, InputOf(net, g, r)) : ~ diff[i]
  PROVE  LineValue(net, {x}, p, g, r) # LineValue(net, {}, p, g, r) <=>
           \/ x = FaultID(g, r, Opposite(LineValue(net, {}, p, g, r)))
           \/ FoundAt(net, RefValue(net, {}, p), diff, InputOf(net, g, r), x)
<1>1. PICK j, v : j = InputOf(net, g, r) /\ v = LineValue(net, {}, p, g, r) OBVIOUS
<1>2. j \in Fanins(net, g) BY <1>1, LinesOf
<1>3. j \in GateID /\ j \notin POs /\ g \notin FaninCone(net, j) /\ FaninCone(net, j) \subseteq FaninCone(net, g)
  BY <1>2, FaninsPrecede, NotBefore, ConeEquation
<1>4. v \in Bit /\ Opposite(v) \in Bit /\ Opposite(v) # v
  <2>1. v \in Bit BY <1>1, LinesOf
  <2> QED BY <2>1, Opposites
<1>5. r \in {1, 2, 3} BY InputPorts
<1>6. FoundAt(net, RefValue(net, {}, p), diff, j, x) <=>
        faultGate(x) \in FaninCone(net, j) /\ RefValue(net, {x}, p)[j] # RefValue(net, {}, p)[j]
  <2>1. \A i \in FaninCone(net, j) : ~ diff[i] BY <1>1
  <2> QED BY <1>3, <2>1, FoundExact
<1>7. faultGate(FaultID(g, r, Opposite(v))) = g BY <1>4, <1>5, FaultDecoded
<1>8. v = RefValue(net, {}, p)[j] BY <1>1, GoodLine
<1>9. CASE faultGate(x) = g /\ faultPort(x) = r
  <2>1. PICK h \in GateID : \E k \in GateInputs(net, h), b \in Bit : x = FaultID(h, k, b) BY DEF InputFault
  <2>2. PICK k \in GateInputs(net, h), b \in Bit : x = FaultID(h, k, b) BY <2>1
  <2>3. k \in {1, 2, 3} BY InputPorts
  <2>4. h = g /\ k = r /\ faultStuckat(x) = b BY <1>9, <2>2, <2>3, FaultDecoded
  <2>5. LineValue(net, {x}, p, g, r) = b
    <3>1. \A w : Line({FaultID(g, r, b)}, g, r, w) = b BY <1>5, OneFault
    <3> QED BY <2>2, <2>4, <3>1 DEF LineValue
  <2>6. b # v <=> b = Opposite(v) BY <1>4, Opposites
  <2>7. x = FaultID(g, r, Opposite(v)) <=> b = Opposite(v)
    <3>1. faultStuckat(FaultID(g, r, Opposite(v))) = Opposite(v) BY <1>4, <1>5, FaultDecoded
    <3> QED BY <2>2, <2>4, <3>1
  <2> QED BY <1>1, <1>3, <1>6, <1>9, <2>5, <2>6, <2>7
<1>10. CASE ~ (faultGate(x) = g /\ faultPort(x) = r)
  <2>1. faultGate(x) \in FaninCone(net, j) /\ faultGate(x) # g BY <1>1, <1>3, <1>10 DEF Feels
  <2>2. LineValue(net, {x}, p, g, r) = RefValue(net, {x}, p)[j]
    <3>1. \A y \in {x} : faultGate(y) = g => faultPort(y) # r BY <2>1
    <3>2. \A w : Line({x}, g, r, w) = w BY <3>1, FreeLine
    <3> QED BY <1>1, <3>2 DEF LineValue
  <2> QED BY <1>1, <1>6, <1>7, <1>8, <2>1, <2>2
<1> QED BY <1>9, <1>10

\* The pairs of the backward walk: those at its gate, and those behind it.
LEMMA HelperGrows ==
  ASSUME NEW net, WellFormed(net), NEW out, NEW diff, NEW list, NEW g \in GateID,
         NEW r \in Search!WalkedPorts(net, out, g)
  PROVE  Search!findBlockDSADFS_helper(net, out, diff, list, InputOf(net, g, r))
           \subseteq Search!findBlockDSADFS_helper(net, out, diff, list, g)
<1>1. Search!WalkedGates(net, out, g) =
        {g} \cup UNION {Search!WalkedGates(net, out, InputOf(net, g, k)) : k \in Search!WalkedPorts(net, out, g)}
  BY WalkedEquation
<1>2. Search!WalkedGates(net, out, InputOf(net, g, r)) \subseteq Search!WalkedGates(net, out, g) BY <1>1
<1> QED BY <1>2 DEF Search!findBlockDSADFS_helper

Releases(net, out, diff, list, g, r, x) ==
  x \in list /\ (x = FaultID(g, r, Opposite(out[InputOf(net, g, r)])) \/ FoundAt(net, out, diff, InputOf(net, g, r), x))

\* Two faults that each release an input of a gate held by both are a pair.
LEMMA HelperHere ==
  ASSUME NEW net, WellFormed(net), NEW out, NEW diff, NEW list, NEW g \in GateID, net[g].gateType = "aig",
         \A r \in {1, 2} : out[InputOf(net, g, r)] # Flag(net, g, r),
         NEW x, NEW y, Releases(net, out, diff, list, g, 1, x), Releases(net, out, diff, list, g, 2, y)
  PROVE  {x, y} \in Search!findBlockDSADFS_helper(net, out, diff, list, g)
<1> DEFINE release(h, k) == (list \cap {Search!FaultID(h, k, Search!Inverse(Search!InValue(net, out, h, k)))}) \cup
                            Search!sameFaultCurToPI(net, out, diff, list, Search!FaninOf(net, h, k))
           held == {h \in Search!WalkedGates(net, out, g) :
                      net[h].gateType = "aig" /\ \A k \in {1, 2} : ~ Search!Enabled(net, out, h, k)}
<1>1. ASSUME NEW k \in {1, 2}, NEW z, Releases(net, out, diff, list, g, k, z) PROVE z \in release(g, k)
  BY <1>1, SameLinesSearched, SameGatesSearched DEF Releases, FoundAt, Search!sameFaultCurToPI
<1>2. g \in held
  <2>1. g \in Search!WalkedGates(net, out, g) BY WalkedEquation
  <2>2. \A k \in {1, 2} : ~ Search!Enabled(net, out, g, k) BY SameLinesSearched DEF Search!Enabled
  <2> QED BY <2>1, <2>2
<1>3. x \in release(g, 1) /\ y \in release(g, 2) BY <1>1
<1>4. Search!findBlockDSADFS_helper(net, out, diff, list, g) = UNION {Search!Pairs(release(h, 1), release(h, 2)) : h \in held}
  BY DEF Search!findBlockDSADFS_helper
<1> HIDE DEF release, held
<1>5. {x, y} \in Search!Pairs(release(g, 1), release(g, 2)) BY <1>3 DEF Search!Pairs
<1> QED BY <1>2, <1>4, <1>5

\* They leave the outputs of gates free.
LEMMA NotAtOutputs ==
  ASSUME NEW net, NEW F, \A x \in F : InputFault(net, x), NEW g
  PROVE  FreeOutput(F, g)
<1>1. ASSUME NEW x \in F PROVE faultPort(x) # 3
  <2>1. PICK h \in GateID : \E k \in GateInputs(net, h), v \in Bit : x = FaultID(h, k, v) BY DEF InputFault
  <2>2. PICK k \in GateInputs(net, h), v \in Bit : x = FaultID(h, k, v) BY <2>1
  <2>3. k \in {1, 2} BY InputPorts
  <2>4. k \in {1, 2, 3} /\ k # 3 BY <2>3
  <2> QED BY <2>2, <2>4, FaultDecoded
<1> QED BY <1>1 DEF FreeOutput

\* Two faults at different inputs of a gate that turn it only together: both
\* inputs hold it, and each fault releases one.
LEMMA JointApart ==
  ASSUME NEW net, WellFormed(net), Tree(net), NEW p \in [PIs -> Bit], NEW g \in GateID \ POs,
         NEW diff, \A j \in FaninCone(net, g) : ~ diff[j],
         NEW list, NEW x \in list, NEW y \in list, InputFault(net, x), InputFault(net, y),
         RefValue(net, {x, y}, p)[g] # RefValue(net, {}, p)[g],
         RefValue(net, {x}, p)[g] = RefValue(net, {}, p)[g],
         RefValue(net, {y}, p)[g] = RefValue(net, {}, p)[g],
         NEW r \in GateInputs(net, g), Feels(net, g, r, x), ~ Feels(net, g, r, y)
  PROVE  {x, y} \in Search!findBlockDSADFS_helper(net, RefValue(net, {}, p), diff, list, g)
<1>0. g \in GateID /\ GateInputs(net, g) # {} OBVIOUS
<1>1. FreeOutput({x, y}, g) /\ FreeOutput({x}, g) /\ FreeOutput({y}, g) /\ FreeOutput({}, g) BY NotAtOutputs
<1> DEFINE L(F, s) == LineValue(net, F, p, g, s)
<1>2. L({x, y}, r) = L({x}, r) /\ L({y}, r) = L({}, r) BY <1>0, SameFelt
<1>17. ASSUME NEW F, NEW G, FreeOutput(F, g), FreeOutput(G, g), \A k \in GateInputs(net, g) : L(F, k) = L(G, k)
       PROVE  RefValue(net, F, p)[g] = RefValue(net, G, p)[g]
  BY <1>0, <1>17, SameLines
<1>3. PICK s \in GateInputs(net, g) : s # r /\ Feels(net, g, s, y)
  <2> SUFFICES ASSUME \A s \in GateInputs(net, g) : s # r => ~ Feels(net, g, s, y) PROVE FALSE OBVIOUS
  <2>1. \A s \in GateInputs(net, g) : L({x, y}, s) = L({x}, s)
    <3>1. ASSUME NEW s \in GateInputs(net, g), s # r PROVE L({x, y}, s) = L({x}, s)
      <4>1. ~ Feels(net, g, s, x) BY <1>0, <3>1, FeelsOnce
      <4>2. ~ Feels(net, g, s, y) BY <3>1
      <4> QED BY <1>0, <4>1, <4>2, SameFelt
    <3> QED BY <1>2, <3>1
  <2>2. RefValue(net, {x, y}, p)[g] = RefValue(net, {x}, p)[g] BY <1>1, <1>17, <2>1
  <2> QED BY <2>2
<1>4. net[g].gateType = "aig" /\ r \in {1, 2} /\ s \in {1, 2} BY <1>3 DEF GateInputs
<1>5. \A k \in GateInputs(net, g) : k = r \/ k = s BY <1>3, <1>4 DEF GateInputs
<1>6. ~ Feels(net, g, s, x) BY <1>0, <1>3, FeelsOnce
<1>7. L({x, y}, s) = L({y}, s) /\ L({x}, s) = L({}, s) BY <1>0, <1>3, <1>6, SameFelt
<1>8. L({x}, r) # L({}, r)
  <2> SUFFICES ASSUME L({x}, r) = L({}, r) PROVE FALSE OBVIOUS
  <2>1. \A k \in GateInputs(net, g) : L({x, y}, k) = L({y}, k) BY <1>2, <1>5, <1>7
  <2>2. RefValue(net, {x, y}, p)[g] = RefValue(net, {y}, p)[g] BY <1>1, <1>17, <2>1
  <2> QED BY <2>2
<1>9. L({y}, s) # L({}, s)
  <2> SUFFICES ASSUME L({y}, s) = L({}, s) PROVE FALSE OBVIOUS
  <2>1. \A k \in GateInputs(net, g) : L({x, y}, k) = L({x}, k) BY <1>2, <1>5, <1>7
  <2>2. RefValue(net, {x, y}, p)[g] = RefValue(net, {x}, p)[g] BY <1>1, <1>17, <2>1
  <2> QED BY <2>2
<1>10. r \notin Search!WalkedPorts(net, RefValue(net, {}, p), g)
  <2>1. \A k \in GateInputs(net, g) : k # r => LineValue(net, {x}, p, g, k) = LineValue(net, {}, p, g, k) BY <1>5, <1>7
  <2>2. RefValue(net, {x}, p)[g] # RefValue(net, {}, p)[g] <=>
           /\ r \in Search!WalkedPorts(net, RefValue(net, {}, p), g)
           /\ LineValue(net, {x}, p, g, r) # LineValue(net, {}, p, g, r)
    BY <1>1, <2>1, GateTurns
  <2> QED BY <1>8, <2>2
<1>11. s \notin Search!WalkedPorts(net, RefValue(net, {}, p), g)
  <2>1. \A k \in GateInputs(net, g) : k # s => LineValue(net, {y}, p, g, k) = LineValue(net, {}, p, g, k) BY <1>2, <1>5
  <2>2. RefValue(net, {y}, p)[g] # RefValue(net, {}, p)[g] <=>
           /\ s \in Search!WalkedPorts(net, RefValue(net, {}, p), g)
           /\ LineValue(net, {y}, p, g, s) # LineValue(net, {}, p, g, s)
    BY <1>1, <2>1, GateTurns
  <2> QED BY <1>9, <2>2
<1>12. \A k \in {1, 2} : RefValue(net, {}, p)[InputOf(net, g, k)] # Flag(net, g, k)
  <2>1. ASSUME NEW k \in {1, 2} PROVE LineValue(net, {}, p, g, 3 - k) # Flag(net, g, 3 - k)
    <3>1. k \notin Search!WalkedPorts(net, RefValue(net, {}, p), g) BY <1>3, <1>4, <1>10, <1>11
    <3> QED BY <1>0, <1>4, <3>1, OtherOpen
  <2>2. 3 - 1 = 2 /\ 3 - 2 = 1 /\ 1 \in {1, 2} /\ 2 \in {1, 2} OBVIOUS
  <2>3. LineValue(net, {}, p, g, 3 - 1) # Flag(net, g, 3 - 1) /\ LineValue(net, {}, p, g, 3 - 2) # Flag(net, g, 3 - 2) BY <2>1
  <2>4. LineValue(net, {}, p, g, 2) # Flag(net, g, 2) /\ LineValue(net, {}, p, g, 1) # Flag(net, g, 1) BY <2>2, <2>3
  <2> QED BY <2>4, GoodLine
<1>18. \A k \in GateInputs(net, g) : \A i \in FaninCone(net, InputOf(net, g, k)) : ~ diff[i]
  <2>1. ASSUME NEW k \in GateInputs(net, g) PROVE FaninCone(net, InputOf(net, g, k)) \subseteq FaninCone(net, g)
    <3>1. InputOf(net, g, k) \in Fanins(net, g) BY <1>0, LinesOf
    <3> QED BY <1>0, <3>1, ConeEquation
  <2> QED BY <2>1
<1>13. Releases(net, RefValue(net, {}, p), diff, list, g, r, x)
  <2>1. \/ x = FaultID(g, r, Opposite(LineValue(net, {}, p, g, r)))
        \/ FoundAt(net, RefValue(net, {}, p), diff, InputOf(net, g, r), x)
    BY <1>0, <1>8, <1>18, ReleasedBy
  <2> QED BY <2>1, GoodLine DEF Releases
<1>14. Releases(net, RefValue(net, {}, p), diff, list, g, s, y)
  <2>1. \/ y = FaultID(g, s, Opposite(LineValue(net, {}, p, g, s)))
        \/ FoundAt(net, RefValue(net, {}, p), diff, InputOf(net, g, s), y)
    BY <1>0, <1>3, <1>9, <1>18, ReleasedBy
  <2> QED BY <2>1, GoodLine DEF Releases
<1>15. CASE r = 1
  <2>1. s = 2 BY <1>3, <1>4, <1>15
  <2> QED BY <1>0, <1>4, <1>12, <1>13, <1>14, <1>15, <2>1, HelperHere
<1>16. CASE r = 2
  <2>1. s = 1 BY <1>3, <1>4, <1>16
  <2>2. {y, x} \in Search!findBlockDSADFS_helper(net, RefValue(net, {}, p), diff, list, g)
    BY <1>0, <1>4, <1>12, <1>13, <1>14, <1>16, <2>1, HelperHere
  <2>3. {y, x} = {x, y} OBVIOUS
  <2> QED BY <2>2, <2>3
<1> QED BY <1>4, <1>15, <1>16

\* Of two faults of which one is on a line, the line shows one of the two.
LEMMA OneShows ==
  ASSUME NEW net, NEW p, NEW g, NEW r, NEW x, NEW y, faultGate(x) = g /\ faultPort(x) = r
  PROVE  \/ LineValue(net, {x, y}, p, g, r) = LineValue(net, {x}, p, g, r)
         \/ LineValue(net, {x, y}, p, g, r) = LineValue(net, {y}, p, g, r)
<1> DEFINE V(F) == StuckValues(F, g, r)
<1>1. V({x}) = {faultStuckat(x)} BY DEF StuckValues
<1>2. CASE faultGate(y) = g /\ faultPort(y) = r
  <2>1. V({y}) = {faultStuckat(y)} BY <1>2 DEF StuckValues
  <2>2. V({x, y}) = {faultStuckat(x), faultStuckat(y)} BY <1>2 DEF StuckValues
  <2>3. Held(V({x, y})) = Held(V({x})) \/ Held(V({x, y})) = Held(V({y})) BY <1>1, <2>1, <2>2 DEF Held
  <2> QED BY <1>1, <2>1, <2>2, <2>3 DEF LineValue, Line
<1>3. CASE ~ (faultGate(y) = g /\ faultPort(y) = r)
  <2>1. V({x, y}) = {faultStuckat(x)} BY <1>3 DEF StuckValues
  <2> QED BY <1>1, <2>1 DEF LineValue, Line
<1> QED BY <1>2, <1>3

\* Two faults that turn a gate only together are among its pairs.
LEMMA JointFound ==
  ASSUME NEW net, WellFormed(net), Tree(net), NEW p \in [PIs -> Bit], NEW diff,
         NEW list, NEW x \in list, NEW y \in list, InputFault(net, x), InputFault(net, y)
  PROVE  \A g \in GateID :
           /\ g \notin POs /\ (\A j \in FaninCone(net, g) : ~ diff[j])
           /\ RefValue(net, {x, y}, p)[g] # RefValue(net, {}, p)[g]
           /\ RefValue(net, {x}, p)[g] = RefValue(net, {}, p)[g]
           /\ RefValue(net, {y}, p)[g] = RefValue(net, {}, p)[g]
           => {x, y} \in Search!findBlockDSADFS_helper(net, RefValue(net, {}, p), diff, list, g)
<1> DEFINE good == RefValue(net, {}, p)
           Jointly(g) == /\ RefValue(net, {x, y}, p)[g] # good[g]
                         /\ RefValue(net, {x}, p)[g] = good[g]
                         /\ RefValue(net, {y}, p)[g] = good[g]
           pairs(g) == Search!findBlockDSADFS_helper(net, good, diff, list, g)
           S == {g \in GateID : g \notin POs /\ (\A j \in FaninCone(net, g) : ~ diff[j]) /\ Jointly(g) => {x, y} \in pairs(g)}
<1>1. ASSUME NEW g \in GateID, \A z \in GateID : z < g => z \in S PROVE g \in S
  <2> SUFFICES ASSUME g \notin POs, \A j \in FaninCone(net, g) : ~ diff[j], Jointly(g) PROVE {x, y} \in pairs(g) OBVIOUS
  <2>1. FreeOutput({x, y}, g) /\ FreeOutput({x}, g) /\ FreeOutput({y}, g) /\ FreeOutput({}, g) BY NotAtOutputs
  <2> DEFINE L(F, s) == LineValue(net, F, p, g, s)
  <2>2. PICK r \in GateInputs(net, g) : L({x, y}, r) # L({}, r)
    <3> SUFFICES ASSUME \A r \in GateInputs(net, g) : L({x, y}, r) = L({}, r) PROVE FALSE OBVIOUS
    <3>1. CASE GateInputs(net, g) # {} BY <2>1, <3>1, SameLines, SMTT(60)
    <3>2. CASE GateInputs(net, g) = {}
      <4>1. ASSUME NEW z \in {x, y} PROVE faultGate(z) # g
        <5>1. PICK h \in GateID : \E k \in GateInputs(net, h), v \in Bit : z = FaultID(h, k, v) BY DEF InputFault
        <5>2. PICK k \in GateInputs(net, h), v \in Bit : z = FaultID(h, k, v) BY <5>1
        <5>3. k \in {1, 2, 3} BY InputPorts
        <5>4. faultGate(z) = h BY <5>2, <5>3, FaultDecoded
        <5> QED BY <3>2, <5>4
      <4>2. FaultsAtGate({x, y}, g) = FaultsAtGate({}, g) BY <4>1 DEF FaultsAtGate
      <4>3. Fanins(net, g) = {}
        <5>1. \A j \in Fanins(net, g) : \E r \in GateInputs(net, g) : InputOf(net, g, r) = j BY LinesOf
        <5> QED BY <3>2, <5>1
      <4>4. RefValue(net, {x, y}, p)[g] = RefValue(net, {}, p)[g] BY <4>2, <4>3, SameStep
      <4> QED BY <4>4
    <3> QED BY <3>1, <3>2
  <2>3. Feels(net, g, r, x) \/ Feels(net, g, r, y)
    <3> SUFFICES ASSUME ~ Feels(net, g, r, x), ~ Feels(net, g, r, y) PROVE FALSE OBVIOUS
    <3>1. L({x, y}, r) = L({}, r) BY SameFelt
    <3> QED BY <2>2, <3>1
  <2>4. CASE Feels(net, g, r, x) /\ ~ Feels(net, g, r, y)
    <3>1. g \in GateID \ POs OBVIOUS
    <3> QED BY <2>4, <3>1, JointApart
  <2>5. CASE Feels(net, g, r, y) /\ ~ Feels(net, g, r, x)
    <3>1. g \in GateID \ POs OBVIOUS
    <3>2. {y, x} = {x, y} OBVIOUS
    <3>3. RefValue(net, {y, x}, p)[g] # RefValue(net, {}, p)[g] BY <3>2
    <3>4. {y, x} \in Search!findBlockDSADFS_helper(net, RefValue(net, {}, p), diff, list, g) BY <2>5, <3>1, <3>3, JointApart
    <3> QED BY <3>2, <3>4
  <2>6. CASE Feels(net, g, r, x) /\ Feels(net, g, r, y)
    <3>1. ASSUME NEW s \in GateInputs(net, g), s # r
          PROVE  L({x, y}, s) = L({}, s) /\ L({x}, s) = L({}, s) /\ L({y}, s) = L({}, s)
      <4>1. ~ Feels(net, g, s, x) /\ ~ Feels(net, g, s, y) BY <2>6, <3>1, FeelsOnce
      <4> QED BY <4>1, SameFelt
    <3>2. ASSUME NEW F \in {{x, y}, {x}, {y}}
          PROVE  RefValue(net, F, p)[g] # good[g] <=> r \in Search!WalkedPorts(net, good, g) /\ L(F, r) # L({}, r)
      <4>1. FreeOutput(F, g) BY <2>1
      <4>2. g \in GateID \ POs OBVIOUS
      <4>3. \A s \in GateInputs(net, g) : s # r => LineValue(net, F, p, g, s) = LineValue(net, {}, p, g, s) BY <3>1
      <4> QED BY <4>1, <4>2, <4>3, GateTurns
    <3>3. r \in Search!WalkedPorts(net, good, g) /\ L({x}, r) = L({}, r) /\ L({y}, r) = L({}, r) BY <3>2
    <3>4. ~ (faultGate(x) = g /\ faultPort(x) = r) /\ ~ (faultGate(y) = g /\ faultPort(y) = r)
      <4>1. {y, x} = {x, y} OBVIOUS
      <4>2. faultGate(x) = g /\ faultPort(x) = r => L({x, y}, r) = L({x}, r) \/ L({x, y}, r) = L({y}, r) BY OneShows
      <4>3. faultGate(y) = g /\ faultPort(y) = r => L({y, x}, r) = L({y}, r) \/ L({y, x}, r) = L({x}, r) BY OneShows, SMTT(60)
      <4> QED BY <2>2, <3>3, <4>1, <4>2, <4>3
    <3>5. PICK j : j = InputOf(net, g, r) OBVIOUS
    <3>6. j \in Fanins(net, g) BY <3>5, LinesOf
    <3>7. j \in GateID /\ j < g /\ j \notin POs /\ FaninCone(net, j) \subseteq FaninCone(net, g)
      BY <3>6, FaninsPrecede, ConeEquation
    <3>8. ASSUME NEW F \in {{x, y}, {x}, {y}, {}} PROVE L(F, r) = RefValue(net, F, p)[j]
      <4>1. \A z \in F : faultGate(z) = g => faultPort(z) # r BY <3>4
      <4>2. \A w : Line(F, g, r, w) = w BY <4>1, FreeLine
      <4> QED BY <3>5, <4>2 DEF LineValue
    <3>9. Jointly(j) BY <2>2, <3>3, <3>8
    <3>10. {x, y} \in pairs(j) BY <1>1, <3>7, <3>9
    <3>11. Search!findBlockDSADFS_helper(net, good, diff, list, InputOf(net, g, r)) \subseteq pairs(g)
      BY <3>3, HelperGrows
    <3> QED BY <3>5, <3>10, <3>11
  <2> QED BY <2>3, <2>4, <2>5, <2>6
<1> HIDE DEF S
<1>2. \A g \in GateID : g \in S BY <1>1, GateInduction
<1> QED BY <1>2 DEF S

-----------------------------------------------------------------------------
(***************************************************************************)
(* The forward walk on the path of a tested fault.                         *)
(***************************************************************************)
MarkedPath(net, a, diff) == \A g \in GateID : diff[g] <=> a \in FaninCone(net, g)

\* What is related to an AIG is no input and no constant.
LEMMA NoSources ==
  ASSUME NEW net, WellFormed(net), NEW a \in GateID, net[a].gateType = "aig", NEW g \in GateID, a \in FaninCone(net, g)
  PROVE  net[g].gateType \notin {"PI", "constant"}
<1> SUFFICES ASSUME net[g].gateType \in {"PI", "constant"} PROVE FALSE OBVIOUS
<1>1. Fanins(net, g) = {} BY DEF Fanins
<1>2. FaninCone(net, g) = {g} BY <1>1, ConeEquation
<1> QED BY <1>2

\* The simulation marks the path.
LEMMA SimulationMarks ==
  ASSUME NEW net, NEW a, NEW q, NEW u, NEW p, Tested(net, a, q, u, p)
  PROVE  MarkedPath(net, a, Search!Marks(net, {FaultID(a, q, u)}, p))
<1>1. PICK f : f = FaultID(a, q, u) OBVIOUS
<1>2. ASSUME NEW g \in GateID PROVE Search!Marks(net, {f}, p)[g] <=> a \in FaninCone(net, g)
  <2>1. RefValue(net, {f}, p)[g] # RefValue(net, {}, p)[g] <=> a \in FaninCone(net, g) BY <1>1, PathDiffers
  <2>2. a \in FaninCone(net, g) => net[g].gateType \notin {"PI", "constant"} BY NoSources DEF Tested
  <2>3. Search!Marks(net, {f}, p)[g] <=>
          net[g].gateType \notin {"PI", "constant"} /\ RefValue(net, {f}, p)[g] # RefValue(net, {}, p)[g]
    BY SameGatesSearched, SameValuesSearched DEF Search!Marks
  <2> QED BY <2>1, <2>2, <2>3
<1> QED BY <1>1, <1>2 DEF MarkedPath

\* The path goes on to an output.
LEMMA PathGoesOn ==
  ASSUME NEW net, NEW a, NEW q, NEW u, NEW p, Tested(net, a, q, u, p), NEW h \in GateID \ POs, a \in FaninCone(net, h)
  PROVE  \E k \in Fanouts(net, h) : a \in FaninCone(net, k)
<1>1. PICK f : f = FaultID(a, q, u) OBVIOUS
<1>2. WellFormed(net) /\ Tree(net) /\ a \in GateID BY DEF Tested
<1>3. PICK o \in POs : RefValue(net, {f}, p)[o] # RefValue(net, {}, p)[o] BY <1>1 DEF Tested, RefDetects
<1>4. o \in GateID BY SizeAssumption DEF POs, GateID, Size
<1>5. a \in FaninCone(net, o)
  <2>1. \A g \in GateID : RefValue(net, {FaultID(a, q, u)}, p)[g] # RefValue(net, {}, p)[g] <=> a \in FaninCone(net, g)
    BY PathDiffers
  <2> QED BY <1>1, <1>3, <1>4, <2>1
<1>6. h \in FaninCone(net, o) \/ o \in FaninCone(net, h) BY <1>2, <1>4, <1>5, Nested
<1>7. o \notin FaninCone(net, h)
  <2>1. FanoutCone(net, o) = {o} BY <1>2, <1>4, FanoutConeFront
  <2> QED BY <2>1 DEF FanoutCone
<1>8. o \in FanoutCone(net, h) /\ o # h BY <1>4, <1>6, <1>7 DEF FanoutCone
<1>9. PICK k \in Fanouts(net, h) : o \in FanoutCone(net, k) BY <1>2, <1>8, FanoutConeFront
<1>10. h \in FaninCone(net, k) /\ k \in GateID
  <2>1. k \in GateID /\ h \in Fanins(net, k) BY DEF Fanouts
  <2> QED BY <1>2, <2>1, ConeClosed
<1>11. a \in FaninCone(net, k) BY <1>2, <1>10, ConeTransitive
<1> QED BY <1>11

\* Gates of the path are on it for the forward walk, ...
LEMMA OnMarkedPath ==
  ASSUME NEW net, NEW a, NEW q, NEW u, NEW p, Tested(net, a, q, u, p), NEW diff, MarkedPath(net, a, diff),
         NEW g \in GateID, a \in FaninCone(net, g)
  PROVE  g \in Search!OnPath(net, diff)
<1> DEFINE Mirror(i) == Size - 1 - i
           Next1(c, h) == \/ net[h].gateType = "PO"
                          \/ \E k \in Fanouts(net, h) : diff[k] /\ c[Mirror(k)]
           Solved(c) == c = [i \in GateID |-> Next1(c, Mirror(i))]
           onPath == CHOOSE c : Solved(c)
           Leads(h) == net[h].gateType = "PO" \/ \E k \in Fanouts(net, h) : a \in FaninCone(net, k)
           given == [i \in GateID |-> Leads(Mirror(i))]
<1>1. WellFormed(net) /\ a \in GateID BY DEF Tested
<1>2. \A i \in GateID : Mirror(i) \in GateID /\ Mirror(Mirror(i)) = i BY SizeNat DEF GateID
<1>3. \A h \in GateID : \A k \in Fanouts(net, h) : k \in GateID BY DEF Fanouts
<1>4. ASSUME NEW h \in GateID, a \in FaninCone(net, h) PROVE Leads(h)
  <2>1. h \in POs => net[h].gateType = "PO" BY <1>1 DEF WellFormed
  <2> QED BY <1>4, <2>1, PathGoesOn
<1> HIDE DEF Mirror, Leads
<1>5. ASSUME NEW h \in GateID PROVE Leads(h) <=> Next1(given, h)
  <2>1. ASSUME NEW k \in Fanouts(net, h) PROVE diff[k] /\ given[Mirror(k)] <=> a \in FaninCone(net, k)
    <3>1. given[Mirror(k)] <=> Leads(k) BY <1>2, <1>3
    <3> QED BY <1>3, <1>4, <3>1 DEF MarkedPath
  <2> HIDE DEF given
  <2> QED BY <2>1 DEF Leads
<1> HIDE DEF given
<1>6. \E c : Solved(c)
  <2>1. \A h : Leads(h) \in BOOLEAN /\ Next1(given, h) \in BOOLEAN BY DEF Leads
  <2> HIDE DEF Next1
  <2>2. ASSUME NEW i \in GateID PROVE Leads(Mirror(i)) = Next1(given, Mirror(i)) BY <1>2, <1>5, <2>1
  <2>3. given = [i \in GateID |-> Next1(given, Mirror(i))] BY <2>2 DEF given
  <2> QED BY <2>3
<1> HIDE DEF Next1
<1>7. Solved(onPath) BY <1>6
<1>8. g \in Search!OnPath(net, diff) <=> onPath[Mirror(g)]
  BY DEF Search!OnPath, Next1, Mirror, Search!GateID, GateID, Search!Size, Size, Search!Fanouts, Fanouts, Search!Fanins, Fanins
<1> HIDE DEF onPath
<1>9. \A h \in GateID : onPath[Mirror(h)] <=> Next1(onPath, h) BY <1>2, <1>7
<1> DEFINE S == {i \in GateID : a \in FaninCone(net, Mirror(i)) => onPath[i]}
<1>10. ASSUME NEW i \in GateID, \A j \in GateID : j < i => j \in S PROVE i \in S
  <2> SUFFICES ASSUME a \in FaninCone(net, Mirror(i)) PROVE onPath[i] OBVIOUS
  <2>1. PICK h : h = Mirror(i) OBVIOUS
  <2>2. h \in GateID /\ Mirror(h) = i BY <1>2, <2>1
  <2>3. Leads(h) BY <1>4, <2>1, <2>2
  <2>4. ASSUME NEW k \in Fanouts(net, h), a \in FaninCone(net, k) PROVE diff[k] /\ onPath[Mirror(k)]
    <3>1. k \in GateID /\ h \in Fanins(net, k) BY DEF Fanouts
    <3>2. h < k BY <1>1, <3>1, FaninsPrecede
    <3>3. Mirror(k) \in GateID /\ Mirror(Mirror(k)) = k BY <1>2, <3>1
    <3>4. Mirror(k) < Mirror(h)
      <4>1. Size \in Int /\ k \in Int /\ h \in Int BY <2>2, <3>1, SizeNat
      <4> QED BY <3>2, <4>1 DEF Mirror
    <3>5. Mirror(k) \in S BY <1>10, <2>2, <3>3, <3>4
    <3> QED BY <2>4, <3>1, <3>3, <3>5 DEF MarkedPath
  <2>5. Next1(onPath, h) BY <2>3, <2>4 DEF Leads, Next1
  <2> QED BY <1>9, <2>2, <2>5
<1> HIDE DEF S
<1>11. \A i \in GateID : i \in S BY <1>10, GateInduction
<1>12. Mirror(g) \in S /\ Mirror(Mirror(g)) = g BY <1>2, <1>11
<1> QED BY <1>8, <1>12 DEF S

\* ... and it reaches exactly those.
LEMMA PathGatesAre ==
  ASSUME NEW net, NEW a, NEW q, NEW u, NEW p, Tested(net, a, q, u, p), NEW diff, MarkedPath(net, a, diff)
  PROVE  Search!PathGates(net, diff, a) = {g \in GateID \ POs : a \in FaninCone(net, g)}
<1> DEFINE Next1(c, g) == g = a \/ \E h \in Fanins(net, g) : c[h] /\ g \in Search!NextOnPath(net, diff, h)
           Solved(c) == c = [g \in GateID |-> Next1(c, g)]
           reached == CHOOSE c : Solved(c)
           given == [g \in GateID |-> a \in FaninCone(net, g)]
<1>1. WellFormed(net) /\ a \in GateID BY DEF Tested
<1>2. ASSUME NEW g \in GateID, NEW h \in Fanins(net, g)
      PROVE  /\ h \in GateID /\ h < g
             /\ g \in Search!NextOnPath(net, diff, h) <=> a \in FaninCone(net, g)
  <2>1. h \in GateID /\ h < g BY <1>1, FaninsPrecede
  <2>2. g \in Fanouts(net, h) BY DEF Fanouts
  <2>3. Search!Fanouts(net, h) = Fanouts(net, h) BY SameGatesSearched
  <2>4. g \in Search!NextOnPath(net, diff, h) <=> diff[g] /\ g \in Search!OnPath(net, diff)
    BY <2>2, <2>3 DEF Search!NextOnPath
  <2>5. diff[g] <=> a \in FaninCone(net, g) BY DEF MarkedPath
  <2> QED BY <2>1, <2>4, <2>5, OnMarkedPath
<1>3. ASSUME NEW g \in GateID
      PROVE  a \in FaninCone(net, g) <=> g = a \/ \E h \in Fanins(net, g) : a \in FaninCone(net, h)
  <2>1. FaninCone(net, g) = {g} \cup UNION {FaninCone(net, h) : h \in Fanins(net, g)} BY <1>1, ConeEquation
  <2> QED BY <2>1
<1>4. Solved(given)
  <2>1. ASSUME NEW g \in GateID PROVE (a \in FaninCone(net, g)) = Next1(given, g)
    <3>1. ASSUME NEW h \in Fanins(net, g) PROVE given[h] /\ g \in Search!NextOnPath(net, diff, h) <=> a \in FaninCone(net, h)
      <4>1. h \in GateID /\ (g \in Search!NextOnPath(net, diff, h) <=> a \in FaninCone(net, g)) BY <1>2
      <4>2. given[h] = (a \in FaninCone(net, h)) BY <4>1
      <4>3. a \in FaninCone(net, h) => a \in FaninCone(net, g) BY <1>3
      <4> HIDE DEF given
      <4> QED BY <4>1, <4>2, <4>3
    <3> HIDE DEF given
    <3>2. a \in FaninCone(net, g) <=> Next1(given, g) BY <1>3, <3>1
    <3> QED BY <3>2
  <2> HIDE DEF Next1
  <2> QED BY <2>1
<1> HIDE DEF given
<1>5. Solved(reached) BY <1>4
<1>6. Search!PathGates(net, diff, a) = {g \in Search!OnPath(net, diff) : reached[g] /\ net[g].gateType # "PO"}
  BY DEF Search!PathGates, Next1, Search!GateID, GateID, Search!Size, Size, Search!Fanins, Fanins
<1> HIDE DEF reached
<1>7. \A g \in GateID : reached[g] <=> Next1(reached, g) BY <1>5
<1> DEFINE S == {g \in GateID : reached[g] <=> a \in FaninCone(net, g)}
<1>8. ASSUME NEW g \in GateID, \A j \in GateID : j < g => j \in S PROVE g \in S
  <2>1. \A h \in Fanins(net, g) : reached[h] <=> a \in FaninCone(net, h) BY <1>2, <1>8
  <2>2. Next1(reached, g) <=> a \in FaninCone(net, g) BY <1>2, <1>3, <2>1
  <2> HIDE DEF Next1
  <2> QED BY <1>7, <2>2
<1> HIDE DEF S
<1>9. \A g \in GateID : g \in S BY <1>8, GateInduction
<1>10. \A g \in GateID : reached[g] <=> a \in FaninCone(net, g) BY <1>9 DEF S
<1>11. Search!OnPath(net, diff) \subseteq GateID BY SameGatesSearched DEF Search!OnPath
<1>12. \A g \in GateID : g \in POs <=> net[g].gateType = "PO" BY <1>1 DEF WellFormed
<1>13. \A g \in GateID : a \in FaninCone(net, g) => g \in Search!OnPath(net, diff) BY OnMarkedPath
<1> QED BY <1>6, <1>10, <1>11, <1>12, <1>13

\* Gate h of the path is entered by input r.
StepAt(net, a, q, h, r) ==
  h \in GateID \ POs /\ r \in GateInputs(net, h) /\ a \in FaninCone(net, h) /\ EntersBy(net, a, q, h, r)

\* What the walk steps to from a gate of the path.
LEMMA StepsFrom ==
  ASSUME NEW net, NEW diff, NEW g, NEW h
  PROVE  g \in Search!NextOnPath(net, diff, h) <=>
           g \in GateID /\ h \in Fanins(net, g) /\ diff[g] /\ g \in Search!OnPath(net, diff)
<1>1. Search!Fanouts(net, h) = Fanouts(net, h) BY SameGatesSearched
<1> QED BY <1>1 DEF Search!NextOnPath, Fanouts

\* The calls of the forward walk: ...
LEMMA StepTaken ==
  ASSUME NEW net, NEW a, NEW q, NEW u, NEW p, Tested(net, a, q, u, p), NEW diff, MarkedPath(net, a, diff),
         NEW s \in Search!Steps(net, diff, FaultID(a, q, u))
  PROVE  \E h, r : StepAt(net, a, q, h, r) /\ s = <<h, InputOf(net, h, r)>>
<1>1. WellFormed(net) /\ a \in GateID /\ q \in {1, 2} BY DEF Tested
<1>2. PICK f : f = FaultID(a, q, u) OBVIOUS
<1>3. Search!faultGate(f) = a /\ Search!faultPort(f) = q BY <1>2, TestedFault, SameGatesSearched
<1>4. PICK path : path = Search!PathGates(net, diff, a) OBVIOUS
<1>5. \A g : g \in path <=> g \in GateID \ POs /\ a \in FaninCone(net, g) BY <1>4, PathGatesAre
<1>6. \/ a \in path /\ s = <<a, InputOf(net, a, IF q = 1 THEN 1 ELSE 2)>>
      \/ s \in path \X path /\ s[1] \in Search!NextOnPath(net, diff, s[2])
  BY <1>2, <1>3, <1>4, SameLinesSearched DEF Search!Steps
<1>7. CASE a \in path /\ s = <<a, InputOf(net, a, IF q = 1 THEN 1 ELSE 2)>>
  <2>1. (IF q = 1 THEN 1 ELSE 2) = q BY <1>1
  <2>2. q \in GateInputs(net, a) BY TestedFault
  <2>3. StepAt(net, a, q, a, q) BY <1>5, <1>7, <2>2 DEF StepAt, EntersBy
  <2> QED BY <1>7, <2>1, <2>3
<1>8. CASE s \in path \X path /\ s[1] \in Search!NextOnPath(net, diff, s[2])
  <2>1. PICK h \in path, k \in path : s = <<h, k>> BY <1>8
  <2>2. h \in GateID \ POs /\ a \in FaninCone(net, h) /\ a \in FaninCone(net, k) BY <1>5
  <2>3. k \in Fanins(net, h) BY <1>8, <2>1, StepsFrom
  <2>4. h \in GateID BY <2>2
  <2>5. \E r \in GateInputs(net, h) : InputOf(net, h, r) = k BY <1>1, <2>3, <2>4, LinesOf
  <2>6. PICK r \in GateInputs(net, h) : InputOf(net, h, r) = k BY <2>5
  <2>7. h # a BY <1>1, <2>2, <2>3, NotBefore
  <2>8. StepAt(net, a, q, h, r) BY <2>2, <2>6, <2>7 DEF StepAt, EntersBy
  <2> QED BY <2>1, <2>6, <2>8
<1> QED BY <1>6, <1>7, <1>8

\* ... one at every gate of the path.
LEMMA StepIsTaken ==
  ASSUME NEW net, NEW a, NEW q, NEW u, NEW p, Tested(net, a, q, u, p), NEW diff, MarkedPath(net, a, diff),
         NEW h, NEW r, StepAt(net, a, q, h, r)
  PROVE  <<h, InputOf(net, h, r)>> \in Search!Steps(net, diff, FaultID(a, q, u))
<1>1. WellFormed(net) /\ a \in GateID /\ q \in {1, 2} BY DEF Tested
<1>2. PICK f : f = FaultID(a, q, u) OBVIOUS
<1>3. Search!faultGate(f) = a /\ Search!faultPort(f) = q BY <1>2, TestedFault, SameGatesSearched
<1>4. PICK path : path = Search!PathGates(net, diff, a) OBVIOUS
<1>5. \A g : g \in path <=> g \in GateID \ POs /\ a \in FaninCone(net, g) BY <1>4, PathGatesAre
<1>6. h \in path /\ h \in GateID BY <1>5 DEF StepAt
<1>7. CASE h = a
  <2>1. r = q BY <1>7 DEF StepAt, EntersBy
  <2>2. (IF q = 1 THEN 1 ELSE 2) = q BY <1>1
  <2> QED BY <1>2, <1>3, <1>4, <1>6, <1>7, <2>1, <2>2, SameLinesSearched DEF Search!Steps
<1>8. CASE h # a
  <2>1. PICK k : k = InputOf(net, h, r) OBVIOUS
  <2>2. r \in GateInputs(net, h) /\ a \in FaninCone(net, h) /\ a \in FaninCone(net, k) BY <1>8, <2>1 DEF StepAt, EntersBy
  <2>3. k \in Fanins(net, h) BY <1>1, <1>6, <2>1, <2>2, LinesOf
  <2>4. k \in GateID /\ k \notin POs BY <1>1, <1>6, <2>3 DEF WellFormed
  <2>5. k \in path BY <1>5, <2>2, <2>4
  <2>6. h \in Search!OnPath(net, diff) /\ diff[h] BY <1>6, <2>2, OnMarkedPath DEF MarkedPath
  <2>7. h \in Search!NextOnPath(net, diff, k) BY <1>6, <2>3, <2>6, StepsFrom
  <2> DEFINE s == <<h, k>>
  <2>8. s \in path \X path /\ s[1] = h /\ s[2] = k BY <1>6, <2>5
  <2>9. s \in {t \in path \X path : t[1] \in Search!NextOnPath(net, diff, t[2])} BY <2>7, <2>8
  <2> HIDE DEF s
  <2>10. s \in Search!Steps(net, diff, f) BY <1>3, <1>4, <2>9 DEF Search!Steps
  <2> QED BY <1>2, <2>1, <2>10 DEF s
<1> QED BY <1>7, <1>8

\* The ports of a step.
LEMMA PortsAre ==
  ASSUME NEW net, WellFormed(net), Tree(net), NEW h \in GateID, NEW r \in GateInputs(net, h)
  PROVE  Search!PathPort(net, h, InputOf(net, h, r)) = r /\ Search!SidePort(net, h, InputOf(net, h, r)) = 3 - r
<1>1. r = 1 \/ (r = 2 /\ net[h].gateType = "aig") BY DEF GateInputs
<1>2. net[h].gateType = "aig" => net[h].fanin1 # net[h].fanin2 BY DEF Tree
<1>3. Search!PathPort(net, h, InputOf(net, h, r)) = r BY <1>1, <1>2 DEF Search!PathPort, InputOf
<1> QED BY <1>3 DEF Search!SidePort

\* The backward walk finds faults at inputs.
LEMMA FoundInput ==
  ASSUME NEW net, WellFormed(net), NEW p \in [PIs -> Bit], NEW diff, NEW g \in GateID, NEW x,
         FoundAt(net, RefValue(net, {}, p), diff, g, x)
  PROVE  InputFault(net, x)
<1>1. PICK out : out = RefValue(net, {}, p) OBVIOUS
<1>2. PICK h \in Search!WalkedGates(net, out, g) : x \in Search!FaultsIn(net, out, diff, h) BY <1>1 DEF FoundAt
<1>3. h \in GateID
  <2>1. Search!WalkedGates(net, out, g) \in SUBSET GateID BY WalkedEquation
  <2> QED BY <1>2, <2>1
<1>4. net[h] \in Gate /\ \A r : Flag(net, h, r) \in Bit BY <1>3, LinesOf
<1>5. ASSUME NEW r \in GateInputs(net, h) PROVE out[InputOf(net, h, r)] \in Bit
  <2>1. LineValue(net, {}, p, h, r) \in Bit BY <1>3, LinesOf
  <2> QED BY <1>1, <2>1, GoodLine
<1>6. ASSUME NEW r \in Search!WalkedPorts(net, out, h) PROVE r \in GateInputs(net, h) /\ Search!StuckatToInvert(net, out, h, r) \in Bit
  <2>1. r \in GateInputs(net, h) BY WalkedInputs
  <2>2. Search!Inverse(out[InputOf(net, h, r)]) \in Bit BY <1>5, <2>1, SameLinesSearched, Opposites
  <2>3. net[h].invIn1 \in Bit /\ Search!Inverse(net[h].invIn1) \in Bit BY <1>4, SameLinesSearched, Opposites DEF Gate
  <2> QED BY <2>1, <2>2, <2>3, SameLinesSearched DEF Search!StuckatToInvert
<1>7. CASE x \in {Search!FaultID(h, r, Search!StuckatToInvert(net, out, h, r)) : r \in Search!WalkedPorts(net, out, h)}
  BY <1>3, <1>6, <1>7, SameGatesSearched DEF InputFault
<1>8. CASE Search!Counteracting(net, out, diff, h) /\ x \in {Search!FaultID(h, r, Search!InvOf(net, h, r)) : r \in {1, 2}}
  <2>1. GateInputs(net, h) = {1, 2} BY <1>8 DEF Search!Counteracting, GateInputs
  <2> QED BY <1>3, <1>4, <1>8, <2>1, SameLinesSearched, SameGatesSearched DEF InputFault
<1> QED BY <1>2, <1>7, <1>8 DEF Search!FaultsIn

-----------------------------------------------------------------------------
\* What the search lists at gate h, entered by input r: the listed faults on the
\* side input and behind it.
Sides(net, p, diff, list, h, r, x) ==
  /\ CanBlock(net, p, h, r) /\ x \in list
  /\ \/ x = FaultID(h, 3 - r, Opposite(LineValue(net, {}, p, h, 3 - r)))
     \/ FoundAt(net, RefValue(net, {}, p), diff, InputOf(net, h, 3 - r), x)

\* The faults at the input r that is on the path, and at the output.
OnStep(h, r) == {FaultID(h, k, v) : k \in {r, 3}, v \in Bit}

\* That, and redundant faults on the path, is what BlocksAtStep gives.
LEMMA BlocksHere ==
  ASSUME NEW net, WellFormed(net), Tree(net), NEW p \in [PIs -> Bit], NEW diff, NEW list, NEW never,
         NEW h \in GateID, NEW r \in GateInputs(net, h), NEW x
  PROVE  x \in Search!BlocksAtStep(net, RefValue(net, {}, p), diff, list, never, <<h, InputOf(net, h, r)>>) <=>
           \/ Sides(net, p, diff, list, h, r, x)
           \/ x \in never /\ x \in OnStep(h, r)
<1>1. PICK out : out = RefValue(net, {}, p) OBVIOUS
<1>2. PICK pre : pre = InputOf(net, h, r) OBVIOUS
<1>3. Search!PathPort(net, h, pre) = r /\ Search!SidePort(net, h, pre) = 3 - r BY <1>2, PortsAre
<1>4. r \in {1, 2} BY InputPorts
<1>5. \A k : LineValue(net, {}, p, h, k) = out[InputOf(net, h, k)] BY <1>1, GoodLine
<1>6. Search!SideCanBlock(net, out, h, pre) <=> CanBlock(net, p, h, r)
  BY <1>3, <1>4, <1>5, SameLinesSearched DEF Search!SideCanBlock, Search!Enabled, CanBlock
<1>7. Search!FaultID(h, 3 - r, Search!Inverse(Search!InValue(net, out, h, 3 - r))) =
        FaultID(h, 3 - r, Opposite(LineValue(net, {}, p, h, 3 - r)))
  BY <1>5, SameLinesSearched, SameGatesSearched
<1>8. x \in Search!BlockedBehindSide(net, out, diff, list, h, pre) <=>
        CanBlock(net, p, h, r) /\ x \in list /\ FoundAt(net, out, diff, InputOf(net, h, 3 - r), x)
  BY <1>3, <1>6, SameLinesSearched DEF Search!BlockedBehindSide, Search!sameFaultCurToPI, FoundAt
<1>9. {Search!FaultID(h, k, v) : k \in {r, 3}, v \in Search!Bit} = OnStep(h, r)
  BY SameGatesSearched DEF OnStep
<1> DEFINE step == <<h, pre>>
<1>10. step[1] = h /\ step[2] = pre OBVIOUS
<1> HIDE DEF step
<1>11. x \in Search!BlocksAtStep(net, out, diff, list, never, step) <=>
         \/ x \in list /\ CanBlock(net, p, h, r) /\ x = FaultID(h, 3 - r, Opposite(LineValue(net, {}, p, h, 3 - r)))
         \/ x \in never /\ x \in OnStep(h, r)
         \/ x \in Search!BlockedBehindSide(net, out, diff, list, h, pre)
  BY <1>3, <1>6, <1>7, <1>9, <1>10 DEF Search!BlocksAtStep
<1> QED BY <1>1, <1>2, <1>8, <1>11 DEF Sides, step

\* No pattern detects the fault.
Never(net, x) == \A t \in [PIs -> Bit] : ~ RefDetects(net, {x}, t)

\* The single faults of the search are those at the sides of the path: no fault
\* on the path itself is redundant.
LEMMA SinglesAre ==
  ASSUME NEW net, NEW a, NEW q, NEW u, NEW p, Tested(net, a, q, u, p), NEW diff, MarkedPath(net, a, diff),
         NEW list, NEW never, \A x \in never : Never(net, x), NEW x
  PROVE  x \in Search!findBlockSSA(net, RefValue(net, {}, p), diff, list, never, FaultID(a, q, u)) <=>
           \E h, r : StepAt(net, a, q, h, r) /\ Sides(net, p, diff, list, h, r, x)
<1>1. PICK f, out : f = FaultID(a, q, u) /\ out = RefValue(net, {}, p) OBVIOUS
<1>2. WellFormed(net) /\ Tree(net) /\ p \in [PIs -> Bit] BY DEF Tested
<1>3. x \in Search!findBlockSSA(net, out, diff, list, never, f) <=>
        \E s \in Search!Steps(net, diff, f) : x \in Search!BlocksAtStep(net, out, diff, list, never, s)
  BY DEF Search!findBlockSSA
<1>4. ASSUME NEW h, NEW r, StepAt(net, a, q, h, r)
      PROVE  x \in Search!BlocksAtStep(net, out, diff, list, never, <<h, InputOf(net, h, r)>>) <=>
               Sides(net, p, diff, list, h, r, x)
  <2>1. h \in GateID /\ r \in GateInputs(net, h) /\ a \in FaninCone(net, h) /\ EntersBy(net, a, q, h, r) BY <1>4 DEF StepAt
  <2>2. x \in Search!BlocksAtStep(net, out, diff, list, never, <<h, InputOf(net, h, r)>>) <=>
           \/ Sides(net, p, diff, list, h, r, x)
           \/ x \in never /\ x \in OnStep(h, r)
    <3>1. WellFormed(net) /\ Tree(net) /\ p \in [PIs -> Bit] /\ h \in GateID /\ r \in GateInputs(net, h) BY <1>2, <2>1
    <3>2. x \in Search!BlocksAtStep(net, RefValue(net, {}, p), diff, list, never, <<h, InputOf(net, h, r)>>) <=>
            \/ Sides(net, p, diff, list, h, r, x)
            \/ x \in never /\ x \in OnStep(h, r)
      BY <3>1, BlocksHere
    <3> QED BY <1>1, <3>2
  <2>3. ASSUME NEW k \in {r, 3}, NEW v \in Bit, x \in never PROVE x # FaultID(h, k, v)
    <3>1. k \in {1, 2, 3} /\ (k = 3 \/ (k \in GateInputs(net, h) /\ EntersBy(net, a, q, h, k))) BY <2>1, InputPorts
    <3>2. RefDetects(net, {FaultID(h, k, v)}, p) \/ RefDetects(net, {FaultID(h, k, v)}, Inverted(net, a, q, p))
      BY <2>1, <3>1, OnPathTestable
    <3>3. Inverted(net, a, q, p) \in [PIs -> Bit] BY InvertedValues
    <3> QED BY <1>2, <2>3, <3>2, <3>3 DEF Never
  <2>4. ~ (x \in never /\ x \in OnStep(h, r)) BY <2>3 DEF OnStep
  <2> QED BY <2>2, <2>4
<1>5. ASSUME NEW s \in Search!Steps(net, diff, f) PROVE \E h, r : StepAt(net, a, q, h, r) /\ s = <<h, InputOf(net, h, r)>>
  BY <1>1, StepTaken
<1>6. ASSUME NEW h, NEW r, StepAt(net, a, q, h, r) PROVE <<h, InputOf(net, h, r)>> \in Search!Steps(net, diff, f)
  BY <1>1, <1>6, StepIsTaken
<1>7. (\E s \in Search!Steps(net, diff, f) : x \in Search!BlocksAtStep(net, out, diff, list, never, s)) <=>
        \E h, r : StepAt(net, a, q, h, r) /\ Sides(net, p, diff, list, h, r, x)
  BY <1>4, <1>5, <1>6
<1> QED BY <1>1, <1>3, <1>7

-----------------------------------------------------------------------------
(***************************************************************************)
(* What the search lists hides the fault, and nothing else does.           *)
(***************************************************************************)
\* A step at which the fault can be blocked, and the input that can block it.
LEMMA BlockingStep ==
  ASSUME NEW net, NEW a, NEW q, NEW u, NEW p, Tested(net, a, q, u, p), NEW diff, MarkedPath(net, a, diff),
         NEW h, NEW r, StepAt(net, a, q, h, r), CanBlock(net, p, h, r)
  PROVE  /\ h \in GateID /\ r \in {1, 2} /\ 3 - r \in {1, 2} /\ 3 - r # r /\ GateInputs(net, h) = {1, 2}
         /\ InputOf(net, h, 3 - r) \in GateID \ POs
         /\ h \notin FaninCone(net, InputOf(net, h, 3 - r))
         /\ a \notin FaninCone(net, InputOf(net, h, 3 - r))
         /\ \A i \in FaninCone(net, InputOf(net, h, 3 - r)) : ~ diff[i]
<1>1. WellFormed(net) BY DEF Tested
<1>2. h \in GateID /\ a \in FaninCone(net, h) /\ EntersBy(net, a, q, h, r) BY DEF StepAt
<1>3. r \in {1, 2} /\ GateInputs(net, h) = {1, 2} BY DEF CanBlock, GateInputs
<1>4. PICK s : s = 3 - r OBVIOUS
<1>5. s \in {1, 2} /\ s # r BY <1>3, <1>4
<1>6. /\ InputOf(net, h, s) \in GateID
      /\ a \notin FaninCone(net, InputOf(net, h, s)) /\ h \notin FaninCone(net, InputOf(net, h, s))
  BY <1>2, <1>3, <1>5, SideOfPath
<1>7. InputOf(net, h, s) \notin POs
  <2>1. InputOf(net, h, s) \in Fanins(net, h) BY <1>1, <1>2, <1>3, <1>5, LinesOf
  <2> QED BY <1>1, <1>2, <2>1 DEF WellFormed
<1>8. ASSUME NEW i \in FaninCone(net, InputOf(net, h, s)) PROVE ~ diff[i]
  <2>1. FaninCone(net, i) \subseteq FaninCone(net, InputOf(net, h, s)) /\ i \in GateID BY <1>1, <1>6, ConeTransitive
  <2> QED BY <1>6, <2>1 DEF MarkedPath
<1> QED BY <1>2, <1>3, <1>4, <1>5, <1>6, <1>7, <1>8

\* What the search lists at a step of the path hides the fault, and is not on
\* its line.
LEMMA SidesHide ==
  ASSUME NEW net, NEW a, NEW q, NEW u, NEW p, Tested(net, a, q, u, p), NEW diff, MarkedPath(net, a, diff),
         NEW list, NEW h, NEW r, StepAt(net, a, q, h, r), NEW x, Sides(net, p, diff, list, h, r, x)
  PROVE  /\ ~ RefDetects(net, {x, FaultID(a, q, u)}, p)
         /\ ~ (faultGate(x) = a /\ faultPort(x) = q)
<1>1. WellFormed(net) /\ Tree(net) /\ p \in [PIs -> Bit] BY DEF Tested
<1>2. CanBlock(net, p, h, r) BY DEF Sides
<1>3. PICK s : s = 3 - r OBVIOUS
<1>4. /\ h \in GateID /\ r \in {1, 2} /\ s \in {1, 2} /\ s # r /\ GateInputs(net, h) = {1, 2}
      /\ InputOf(net, h, s) \in GateID \ POs
      /\ a \notin FaninCone(net, InputOf(net, h, s))
      /\ \A i \in FaninCone(net, InputOf(net, h, s)) : ~ diff[i]
  BY <1>2, <1>3, BlockingStep
<1>5. a \in FaninCone(net, h) /\ EntersBy(net, a, q, h, r) BY DEF StepAt
<1>6. LineValue(net, {}, p, h, s) \in Bit BY <1>1, <1>4, LinesOf
<1>7. /\ \/ faultGate(x) = h /\ faultPort(x) = s
         \/ faultGate(x) \in FaninCone(net, InputOf(net, h, s))
      /\ LineValue(net, {x}, p, h, s) # LineValue(net, {}, p, h, s)
  <2>1. CASE x = FaultID(h, s, Opposite(LineValue(net, {}, p, h, s)))
    <3>1. PICK v : v = Opposite(LineValue(net, {}, p, h, s)) OBVIOUS
    <3>2. v \in Bit /\ v # LineValue(net, {}, p, h, s) BY <1>6, <3>1, Opposites
    <3>3. x = FaultID(h, s, v) BY <2>1, <3>1
    <3>4. faultGate(x) = h /\ faultPort(x) = s /\ \A w : Line({x}, h, s, w) = v BY <1>4, <3>2, <3>3, OneFault
    <3>5. LineValue(net, {x}, p, h, s) = v BY <3>4 DEF LineValue
    <3> QED BY <3>2, <3>4, <3>5
  <2>2. CASE FoundAt(net, RefValue(net, {}, p), diff, InputOf(net, h, s), x)
    <3>1. InputOf(net, h, s) \in GateID /\ InputOf(net, h, s) \notin POs BY <1>4
    <3>2. InputFault(net, x) BY <1>1, <2>2, <3>1, FoundInput
    <3>3. faultGate(x) \in FaninCone(net, InputOf(net, h, s)) BY <1>1, <1>4, <2>2, <3>1, <3>2, FoundExact
    <3>4. Feels(net, h, s, x) BY <3>3 DEF Feels
    <3>5. LineValue(net, {x}, p, h, s) # LineValue(net, {}, p, h, s) BY <1>1, <1>4, <2>2, <3>2, <3>4, ReleasedBy
    <3> QED BY <3>3, <3>5
  <2> QED BY <1>3, <2>1, <2>2 DEF Sides
<1>8. ~ RefDetects(net, {x} \cup {FaultID(a, q, u)}, p)
  <2>1. \A y \in {x} : \/ faultGate(y) = h /\ faultPort(y) = s
                       \/ faultGate(y) \in FaninCone(net, InputOf(net, h, s))
    BY <1>7
  <2> QED BY <1>2, <1>3, <1>4, <1>5, <1>7, <2>1, Blocked
<1>9. {x} \cup {FaultID(a, q, u)} = {x, FaultID(a, q, u)} OBVIOUS
<1>10. h = a => r = q BY <1>5 DEF EntersBy
<1> QED BY <1>4, <1>7, <1>8, <1>9, <1>10

-----------------------------------------------------------------------------
\* The faults of the collapsed list of a circuit without fanout, and the
\* redundant ones.
CollapsedFault(net, x) ==
  \E g \in GateID, k \in {1, 2}, v \in Bit :
    net[g].gateType = "aig" /\ InputOf(net, g, k) \in PIs /\ x = FaultID(g, k, v)

Candidate(net, x) == CollapsedFault(net, x) \/ (x \in allSSAFList(net) /\ Never(net, x))

\* A fault of the collapsed list is at an input.
LEMMA CollapsedInput ==
  ASSUME NEW net, NEW x, CollapsedFault(net, x)
  PROVE  InputFault(net, x)
<1>1. PICK g \in GateID, k \in {1, 2}, v \in Bit : net[g].gateType = "aig" /\ x = FaultID(g, k, v) BY DEF CollapsedFault
<1>2. k \in GateInputs(net, g) BY <1>1 DEF GateInputs
<1> QED BY <1>1, <1>2 DEF InputFault

\* On another line it is off the path, ...
LEMMA CollapsedOff ==
  ASSUME NEW net, NEW a, NEW q, NEW u, NEW p, Tested(net, a, q, u, p), NEW x, CollapsedFault(net, x),
         ~ (faultGate(x) = a /\ faultPort(x) = q)
  PROVE  OffPath(net, a, q, {x})
<1>1. WellFormed(net) /\ net[a].gateType = "aig" BY DEF Tested
<1>2. PICK g \in GateID, k \in {1, 2}, v \in Bit : InputOf(net, g, k) \in PIs /\ x = FaultID(g, k, v)
  BY DEF CollapsedFault
<1>3. faultGate(x) = g /\ faultPort(x) = k
  <2>1. k \in {1, 2, 3} OBVIOUS
  <2> QED BY <1>2, <2>1, OneFault
<1>4. a \notin FaninCone(net, InputOf(net, g, k))
  <2>1. PICK i \in PIs : i = InputOf(net, g, k) BY <1>2
  <2>2. i \in GateID /\ net[i].gateType = "PI" /\ i # a
    <3>1. i \in GateID BY SizeAssumption DEF PIs, GateID, Size
    <3>2. net[i].gateType = "PI" BY <1>1, <3>1 DEF WellFormed
    <3> QED BY <1>1, <3>1, <3>2
  <2>3. Fanins(net, i) = {} BY <2>2 DEF Fanins
  <2>4. FaninCone(net, i) = {i} BY <1>1, <2>2, <2>3, ConeEquation
  <2> QED BY <2>1, <2>2, <2>4
<1>5. ~ EntersBy(net, a, q, g, k) BY <1>3, <1>4 DEF EntersBy
<1> QED BY <1>3, <1>5 DEF OffPath

\* ... and so is every redundant one.
LEMMA RedundantOff ==
  ASSUME NEW net, NEW a, NEW q, NEW u, NEW p, Tested(net, a, q, u, p), NEW x \in allSSAFList(net), Never(net, x)
  PROVE  OffPath(net, a, q, {x})
<1>1. WellFormed(net) /\ a \in GateID /\ net[a].gateType = "aig" /\ p \in [PIs -> Bit] BY DEF Tested
<1>2. PICK g, k, v : g = faultGate(x) /\ k = faultPort(x) /\ v = faultStuckat(x) OBVIOUS
<1>3. x \in FaultNumber BY ListedFaults
<1>4. x = FaultID(g, k, v) /\ g \in GateID /\ k \in {1, 2, 3} /\ v \in Bit
  <2>1. x = 8 * g + 2 * k + v /\ g \in GateID /\ k \in {1, 2, 3} /\ v \in Bit BY <1>2, <1>3, FaultNumberMade DEF Bit
  <2> QED BY <2>1 DEF FaultID
<1> SUFFICES ASSUME a \in FaninCone(net, g), k = 3 \/ EntersBy(net, a, q, g, k) PROVE FALSE
  BY <1>2 DEF OffPath
<1>5. k = 3 \/ k \in GateInputs(net, g)
  <2>1. CASE k = 2
    <3>1. net[g].gateType = "aig" BY <1>2, <2>1, InputTwoOfAigs
    <3> QED BY <2>1, <3>1 DEF GateInputs
  <2>2. CASE k = 1
    <3>1. net[g].gateType \notin {"PI", "constant"} BY <1>1, <1>4, NoSources
    <3>2. net[g].gateType \in {"aig", "bufInv", "PO"}
      <4>1. net[g] \in Gate BY <1>1, <1>4 DEF WellFormed
      <4> QED BY <3>1, <4>1 DEF Gate, Type
    <3> QED BY <2>2, <3>2 DEF GateInputs
  <2> QED BY <1>4, <2>1, <2>2
<1>6. RefDetects(net, {FaultID(g, k, v)}, p) \/ RefDetects(net, {FaultID(g, k, v)}, Inverted(net, a, q, p))
  BY <1>4, <1>5, OnPathTestable
<1>7. Inverted(net, a, q, p) \in [PIs -> Bit] BY InvertedValues
<1> QED BY <1>1, <1>4, <1>6, <1>7 DEF Never

\* A line that does not feel the faults is as it is without them.
LEMMA UnfeltLine ==
  ASSUME NEW net, WellFormed(net), NEW p \in [PIs -> Bit], NEW g \in GateID, NEW r \in GateInputs(net, g), NEW F,
         \A x \in F : ~ Feels(net, g, r, x)
  PROVE  LineValue(net, F, p, g, r) = LineValue(net, {}, p, g, r)
<1>1. \A x : Feels(net, g, r, x) => (x \in F <=> x \in {}) OBVIOUS
<1> QED BY <1>1, SameFelt

\* What hides the fault blocks it at a step of the path.
LEMMA HiddenBlocked ==
  ASSUME NEW net, NEW a, NEW q, NEW u, NEW p, Tested(net, a, q, u, p), NEW F, OffPath(net, a, q, F),
         ~ RefDetects(net, F \cup {FaultID(a, q, u)}, p)
  PROVE  \E h, r : /\ StepAt(net, a, q, h, r) /\ CanBlock(net, p, h, r)
                   /\ LineValue(net, F, p, h, 3 - r) # LineValue(net, {}, p, h, 3 - r)
<1>1. WellFormed(net) BY DEF Tested
<1>2. PICK h \in GateID, r \in {1, 2} : Blocking(net, a, q, p, F, h, r) BY NothingBlocks
<1>3. h \notin POs
  <2>1. net[h].gateType = "aig" BY <1>2 DEF Blocking, CanBlock
  <2> QED BY <1>1, <1>2, <2>1 DEF WellFormed
<1>4. r \in GateInputs(net, h) BY <1>2 DEF Blocking, CanBlock, GateInputs
<1> QED BY <1>2, <1>3, <1>4 DEF Blocking, StepAt

\* A single fault on another line that hides the fault is listed.
LEMMA HidingListed ==
  ASSUME NEW net, NEW a, NEW q, NEW u, NEW p, Tested(net, a, q, u, p), NEW diff, MarkedPath(net, a, diff),
         NEW list, NEW x \in list, Candidate(net, x), ~ (faultGate(x) = a /\ faultPort(x) = q),
         ~ RefDetects(net, {x, FaultID(a, q, u)}, p)
  PROVE  \E h, r : StepAt(net, a, q, h, r) /\ Sides(net, p, diff, list, h, r, x)
<1>1. WellFormed(net) /\ Tree(net) /\ p \in [PIs -> Bit] BY DEF Tested
<1>2. OffPath(net, a, q, {x}) BY CollapsedOff, RedundantOff DEF Candidate
<1>3. {x} \cup {FaultID(a, q, u)} = {x, FaultID(a, q, u)} OBVIOUS
<1>4. PICK h, r : /\ StepAt(net, a, q, h, r) /\ CanBlock(net, p, h, r)
                  /\ LineValue(net, {x}, p, h, 3 - r) # LineValue(net, {}, p, h, 3 - r)
  <2>1. ~ RefDetects(net, {x} \cup {FaultID(a, q, u)}, p) BY <1>3
  <2> QED BY <1>2, <2>1, HiddenBlocked
<1>5. PICK s : s = 3 - r OBVIOUS
<1>6. /\ h \in GateID /\ r \in {1, 2} /\ s \in {1, 2} /\ s # r /\ GateInputs(net, h) = {1, 2}
      /\ \A i \in FaninCone(net, InputOf(net, h, s)) : ~ diff[i]
  BY <1>4, <1>5, BlockingStep
<1>7. a \in FaninCone(net, h) /\ EntersBy(net, a, q, h, r) BY <1>4 DEF StepAt
<1>8. Feels(net, h, s, x) BY <1>1, <1>4, <1>5, <1>6, UnfeltLine
<1>9. InputFault(net, x)
  <2>1. CASE CollapsedFault(net, x) BY <2>1, CollapsedInput
  <2>2. CASE x \in allSSAFList(net) /\ Never(net, x)
    <3>1. CASE faultGate(x) \in FaninCone(net, InputOf(net, h, s))
      <4>1. RefDetects(net, {x}, Inverted(net, a, q, p)) BY <1>4, <1>5, <1>6, <1>7, <3>1, SideTestable
      <4>2. Inverted(net, a, q, p) \in [PIs -> Bit] BY InvertedValues
      <4> QED BY <2>2, <4>1, <4>2 DEF Never
    <3>2. CASE faultGate(x) = h /\ faultPort(x) = s
      <4>1. PICK v : v = faultStuckat(x) OBVIOUS
      <4>2. x \in FaultNumber BY <2>2, ListedFaults
      <4>3. x = 8 * h + 2 * s + v /\ v \in Bit BY <3>2, <4>1, <4>2, FaultNumberMade DEF Bit
      <4>4. x = FaultID(h, s, v) BY <4>3 DEF FaultID
      <4> QED BY <1>6, <4>3, <4>4 DEF InputFault
    <3> QED BY <1>8, <3>1, <3>2 DEF Feels
  <2> QED BY <2>1, <2>2 DEF Candidate
<1>10. \/ x = FaultID(h, s, Opposite(LineValue(net, {}, p, h, s)))
       \/ FoundAt(net, RefValue(net, {}, p), diff, InputOf(net, h, s), x)
  BY <1>1, <1>4, <1>5, <1>6, <1>8, <1>9, ReleasedBy
<1>11. Sides(net, p, diff, list, h, r, x) BY <1>4, <1>5, <1>10 DEF Sides
<1> QED BY <1>4, <1>11

\* The single faults of the search are those that hide the fault from its test.
LEMMA SinglesExact ==
  ASSUME NEW net, NEW a, NEW q, NEW u, NEW p, Tested(net, a, q, u, p),
         NEW list, \A x \in list : Candidate(net, x), NEW never, \A x \in never : Never(net, x)
  PROVE  LET f == FaultID(a, q, u) IN
         Search!findBlockSSA(net, RefValue(net, {}, p), Search!Marks(net, {f}, p), list, never, f) =
           {x \in list : ~ (faultGate(x) = a /\ faultPort(x) = q) /\ ~ RefDetects(net, {x, f}, p)}
<1> DEFINE f == FaultID(a, q, u)
<1>1. PICK diff : diff = Search!Marks(net, {f}, p) OBVIOUS
<1>2. MarkedPath(net, a, diff) BY <1>1, SimulationMarks
<1>3. ASSUME NEW x
      PROVE  x \in Search!findBlockSSA(net, RefValue(net, {}, p), diff, list, never, f) <=>
               \E h, r : StepAt(net, a, q, h, r) /\ Sides(net, p, diff, list, h, r, x)
  BY <1>2, SinglesAre
<1>4. ASSUME NEW x, NEW h, NEW r, StepAt(net, a, q, h, r), Sides(net, p, diff, list, h, r, x)
      PROVE  x \in list /\ ~ (faultGate(x) = a /\ faultPort(x) = q) /\ ~ RefDetects(net, {x, f}, p)
  <2>1. x \in list BY <1>4 DEF Sides
  <2>2. ~ RefDetects(net, {x, f}, p) /\ ~ (faultGate(x) = a /\ faultPort(x) = q) BY <1>2, <1>4, SidesHide
  <2> QED BY <2>1, <2>2
<1>5. ASSUME NEW x \in list, ~ (faultGate(x) = a /\ faultPort(x) = q), ~ RefDetects(net, {x, f}, p)
      PROVE  \E h, r : StepAt(net, a, q, h, r) /\ Sides(net, p, diff, list, h, r, x)
  BY <1>2, <1>5, HidingListed
<1> HIDE DEF f
<1>6. Search!findBlockSSA(net, RefValue(net, {}, p), diff, list, never, f) =
        {x \in list : ~ (faultGate(x) = a /\ faultPort(x) = q) /\ ~ RefDetects(net, {x, f}, p)}
  BY <1>3, <1>4, <1>5
<1> QED BY <1>1, <1>6 DEF f

-----------------------------------------------------------------------------
\* A line that changes under two faults, and under neither of them alone, has
\* both behind it.
LEMMA BothBehind ==
  ASSUME NEW net, WellFormed(net), Tree(net), NEW p \in [PIs -> Bit], NEW g \in GateID, NEW r \in GateInputs(net, g),
         NEW x, NEW y,
         LineValue(net, {x, y}, p, g, r) # LineValue(net, {}, p, g, r),
         LineValue(net, {x}, p, g, r) = LineValue(net, {}, p, g, r),
         LineValue(net, {y}, p, g, r) = LineValue(net, {}, p, g, r)
  PROVE  /\ faultGate(x) \in FaninCone(net, InputOf(net, g, r))
         /\ faultGate(y) \in FaninCone(net, InputOf(net, g, r))
         /\ ~ (faultGate(x) = g /\ faultPort(x) = r) /\ ~ (faultGate(y) = g /\ faultPort(y) = r)
<1>1. Feels(net, g, r, x)
  <2> SUFFICES ASSUME ~ Feels(net, g, r, x) PROVE FALSE OBVIOUS
  <2>1. \A z : Feels(net, g, r, z) => (z \in {x, y} <=> z \in {y}) OBVIOUS
  <2>2. LineValue(net, {x, y}, p, g, r) = LineValue(net, {y}, p, g, r) BY <2>1, SameFelt
  <2> QED BY <2>2
<1>2. Feels(net, g, r, y)
  <2> SUFFICES ASSUME ~ Feels(net, g, r, y) PROVE FALSE OBVIOUS
  <2>1. \A z : Feels(net, g, r, z) => (z \in {x, y} <=> z \in {x}) OBVIOUS
  <2>2. LineValue(net, {x, y}, p, g, r) = LineValue(net, {x}, p, g, r) BY <2>1, SameFelt
  <2> QED BY <2>2
<1>3. ~ (faultGate(x) = g /\ faultPort(x) = r) BY OneShows
<1>4. ~ (faultGate(y) = g /\ faultPort(y) = r)
  <2>1. {x, y} = {y, x} OBVIOUS
  <2> SUFFICES ASSUME faultGate(y) = g /\ faultPort(y) = r PROVE FALSE OBVIOUS
  <2>2. \/ LineValue(net, {y, x}, p, g, r) = LineValue(net, {y}, p, g, r)
        \/ LineValue(net, {y, x}, p, g, r) = LineValue(net, {x}, p, g, r)
    BY OneShows
  <2> QED BY <2>1, <2>2
<1> QED BY <1>1, <1>2, <1>3, <1>4 DEF Feels

\* A fault that changes the side input of a blocking step hides the fault.
LEMMA ChangedHides ==
  ASSUME NEW net, NEW a, NEW q, NEW u, NEW p, Tested(net, a, q, u, p), NEW diff, MarkedPath(net, a, diff),
         NEW h, NEW r, StepAt(net, a, q, h, r), CanBlock(net, p, h, r),
         NEW x, LineValue(net, {x}, p, h, 3 - r) # LineValue(net, {}, p, h, 3 - r)
  PROVE  ~ RefDetects(net, {x, FaultID(a, q, u)}, p)
<1>1. WellFormed(net) /\ p \in [PIs -> Bit] BY DEF Tested
<1>2. PICK s : s = 3 - r OBVIOUS
<1>3. h \in GateID /\ r \in {1, 2} /\ s \in {1, 2} /\ GateInputs(net, h) = {1, 2} BY <1>2, BlockingStep
<1>4. a \in FaninCone(net, h) /\ EntersBy(net, a, q, h, r) BY DEF StepAt
<1>5. Feels(net, h, s, x) BY <1>1, <1>2, <1>3, UnfeltLine
<1>6. \A y \in {x} : \/ faultGate(y) = h /\ faultPort(y) = s
                     \/ faultGate(y) \in FaninCone(net, InputOf(net, h, s))
  BY <1>5 DEF Feels
<1>7. ~ RefDetects(net, {x} \cup {FaultID(a, q, u)}, p) BY <1>2, <1>3, <1>4, <1>6, Blocked
<1>8. {x} \cup {FaultID(a, q, u)} = {x, FaultID(a, q, u)} OBVIOUS
<1> QED BY <1>7, <1>8

\* A pair found behind the side input of an AIG of the path is listed.
LEMMA PairAtStep ==
  ASSUME NEW net, NEW a, NEW q, NEW u, NEW p, Tested(net, a, q, u, p), NEW diff, MarkedPath(net, a, diff),
         NEW list, NEW out, NEW h, NEW r, StepAt(net, a, q, h, r), net[h].gateType = "aig",
         NEW D \in Search!findBlockDSADFS_helper(net, out, diff, list, InputOf(net, h, 3 - r))
  PROVE  D \in Search!findBlockDSA(net, out, diff, list, FaultID(a, q, u))
<1> DEFINE step == <<h, InputOf(net, h, r)>>
           f == FaultID(a, q, u)
<1>1. WellFormed(net) /\ Tree(net) BY DEF Tested
<1>2. h \in GateID /\ r \in GateInputs(net, h) BY DEF StepAt
<1>3. step \in Search!Steps(net, diff, f) BY StepIsTaken
<1>4. Search!SidePort(net, h, InputOf(net, h, r)) = 3 - r BY <1>1, <1>2, PortsAre
<1>5. step[1] = h /\ step[2] = InputOf(net, h, r) OBVIOUS
<1>6. Search!FaninOf(net, h, 3 - r) = InputOf(net, h, 3 - r) BY SameLinesSearched
<1> HIDE DEF step, f
<1>7. D \in Search!findBlockDSA(net, out, diff, list, f)
  BY <1>3, <1>4, <1>5, <1>6 DEF Search!findBlockDSA
<1> QED BY <1>7 DEF f

\* Two faults of the collapsed list that hide the fault only together are listed
\* as a pair.
LEMMA DoublesListed ==
  ASSUME NEW net, NEW a, NEW q, NEW u, NEW p, Tested(net, a, q, u, p), NEW list,
         NEW x \in list, CollapsedFault(net, x), ~ (faultGate(x) = a /\ faultPort(x) = q),
         NEW y \in list, CollapsedFault(net, y), ~ (faultGate(y) = a /\ faultPort(y) = q),
         ~ RefDetects(net, {x, y} \cup {FaultID(a, q, u)}, p),
         RefDetects(net, {x, FaultID(a, q, u)}, p), RefDetects(net, {y, FaultID(a, q, u)}, p)
  PROVE  LET f == FaultID(a, q, u) IN
         {x, y} \in Search!findBlockDSA(net, RefValue(net, {}, p), Search!Marks(net, {f}, p), list, f)
<1>1. WellFormed(net) /\ Tree(net) /\ p \in [PIs -> Bit] BY DEF Tested
<1>2. PICK diff : diff = Search!Marks(net, {FaultID(a, q, u)}, p) OBVIOUS
<1>3. MarkedPath(net, a, diff) BY <1>2, SimulationMarks
<1>4. OffPath(net, a, q, {x, y})
  <2>1. OffPath(net, a, q, {x}) /\ OffPath(net, a, q, {y}) BY CollapsedOff
  <2> QED BY <2>1 DEF OffPath
<1>5. PICK h, r : /\ StepAt(net, a, q, h, r) /\ CanBlock(net, p, h, r)
                  /\ LineValue(net, {x, y}, p, h, 3 - r) # LineValue(net, {}, p, h, 3 - r)
  BY <1>4, HiddenBlocked
<1>6. LineValue(net, {x}, p, h, 3 - r) = LineValue(net, {}, p, h, 3 - r) BY <1>3, <1>5, ChangedHides
<1>7. LineValue(net, {y}, p, h, 3 - r) = LineValue(net, {}, p, h, 3 - r) BY <1>3, <1>5, ChangedHides
<1>8. PICK s, k : s = 3 - r /\ k = InputOf(net, h, 3 - r) OBVIOUS
<1>9. /\ h \in GateID /\ s \in GateInputs(net, h) /\ k \in GateID /\ k \notin POs
      /\ \A i \in FaninCone(net, k) : ~ diff[i]
  BY <1>3, <1>5, <1>8, BlockingStep
<1>10. ~ (faultGate(x) = h /\ faultPort(x) = s) /\ ~ (faultGate(y) = h /\ faultPort(y) = s)
  BY <1>1, <1>5, <1>6, <1>7, <1>8, <1>9, BothBehind
<1>11. ASSUME NEW F, F \subseteq {x, y} PROVE LineValue(net, F, p, h, s) = RefValue(net, F, p)[k]
  <2>1. \A z \in F : faultGate(z) = h => faultPort(z) # s BY <1>10, <1>11
  <2>2. \A v : Line(F, h, s, v) = v BY <2>1, FreeLine
  <2> QED BY <1>8, <2>2 DEF LineValue
<1>12. /\ LineValue(net, {x, y}, p, h, s) = RefValue(net, {x, y}, p)[k]
       /\ LineValue(net, {x}, p, h, s) = RefValue(net, {x}, p)[k]
       /\ LineValue(net, {y}, p, h, s) = RefValue(net, {y}, p)[k]
       /\ LineValue(net, {}, p, h, s) = RefValue(net, {}, p)[k]
  <2>1. {x, y} \subseteq {x, y} /\ {x} \subseteq {x, y} /\ {y} \subseteq {x, y} /\ {} \subseteq {x, y} OBVIOUS
  <2> QED BY <1>11, <2>1
<1>13. InputFault(net, x) /\ InputFault(net, y) BY CollapsedInput
<1>14. {x, y} \in Search!findBlockDSADFS_helper(net, RefValue(net, {}, p), diff, list, k)
  <2>1. /\ RefValue(net, {x, y}, p)[k] # RefValue(net, {}, p)[k]
        /\ RefValue(net, {x}, p)[k] = RefValue(net, {}, p)[k]
        /\ RefValue(net, {y}, p)[k] = RefValue(net, {}, p)[k]
    BY <1>5, <1>6, <1>7, <1>8, <1>12
  <2> QED BY <1>1, <1>9, <1>13, <2>1, JointFound
<1>15. net[h].gateType = "aig" BY <1>5 DEF CanBlock
<1>16. {x, y} \in Search!findBlockDSA(net, RefValue(net, {}, p), diff, list, FaultID(a, q, u))
  BY <1>3, <1>5, <1>8, <1>14, <1>15, PairAtStep
<1> QED BY <1>2, <1>16

-----------------------------------------------------------------------------
(***************************************************************************)
(* The phases of the search: what is recorded for a fault is what the      *)
(* walks find under the fault's own test.                                  *)
(***************************************************************************)
\* What the searches find for fault f, given the redundant faults and the tests.
Candidates(net, never) == Search!collapsedSSAFList(net) \cup never
BlocksOf(net, never, tests, f) ==
  Search!findBlockSSA(net, RefValue(net, {}, tests[f]), Search!Marks(net, {f}, tests[f]), Candidates(net, never), never, f)
PairBlocksOf(net, never, tests, f) ==
  Search!findBlockDSA(net, RefValue(net, {}, tests[f]), Search!Marks(net, {f}, tests[f]), Candidates(net, never), f)

\* What is recorded for a fault; a fault that nothing blocks has no entry.
Recorded(map, f) == IF f \in DOMAIN map THEN map[f] ELSE {}
Holds(map, f, pairs) == f \in DOMAIN map /\ pairs \subseteq map[f]

\* What the first phase leaves.
TestsGiven ==
  /\ WellFormed(netlist)
  /\ redundantSSAF \subseteq allSSAFList(netlist)
  /\ \A f \in redundantSSAF : Never(netlist, f)
  /\ DOMAIN SSAFToPatterns = allSSAFList(netlist) \ redundantSSAF
  /\ \A f \in DOMAIN SSAFToPatterns :
       SSAFToPatterns[f] \in [PIs -> Bit] /\ RefDetects(netlist, {f}, SSAFToPatterns[f])

SearchPhases == {"searchDSA", "blockSSA", "compressDSA", "testDSA", "searchTSA", "blockDSA",
                 "searchDSAToSSA", "blockSSAOfDSA", "testTSA", "done"}

\* A search runs on the circuit as the simulation of its fault has left it.
SimulatedFirst ==
  pc \in {"blockSSA", "blockDSA"} =>
    \A f : current = {f} => /\ f \in DOMAIN SSAFToPatterns
                            /\ outValue = RefValue(netlist, {}, SSAFToPatterns[f])
                            /\ different = Search!Marks(netlist, {f}, SSAFToPatterns[f])

\* The first loop.
SinglesRecorded ==
  IF pc \in {"searchDSA", "blockSSA"}
  THEN /\ todo \subseteq DOMAIN SSAFToPatterns
       /\ \A f \in todo : f \notin DOMAIN potentiallyUndetected
       /\ \A f \in DOMAIN SSAFToPatterns : f \notin todo =>
            Recorded(potentiallyUndetected, f) = BlocksOf(netlist, redundantSSAF, SSAFToPatterns, f)
  ELSE \A f \in DOMAIN SSAFToPatterns :
         Recorded(potentiallyUndetected, f) = BlocksOf(netlist, redundantSSAF, SSAFToPatterns, f)

\* The second.
PairsRecorded ==
  /\ pc \in {"searchDSA", "blockSSA", "compressDSA", "testDSA"} => DOMAIN SSAToblockDSA = {}
  /\ pc \in {"searchTSA", "blockDSA"} =>
       /\ todo \subseteq DOMAIN SSAFToPatterns
       /\ \A f \in todo : f \notin DOMAIN SSAToblockDSA
       /\ \A f \in DOMAIN SSAFToPatterns : f \notin todo =>
            Holds(SSAToblockDSA, f, PairBlocksOf(netlist, redundantSSAF, SSAFToPatterns, f))
  /\ pc \in {"searchDSAToSSA", "blockSSAOfDSA", "testTSA", "done"} =>
       \A f \in DOMAIN SSAFToPatterns :
         Holds(SSAToblockDSA, f, PairBlocksOf(netlist, redundantSSAF, SSAFToPatterns, f))

SearchInv ==
  TestsGiven /\ pc \in SearchPhases /\ SimulatedFirst /\ SinglesRecorded /\ PairsRecorded

\* A test that is found is one of the list.
LEMMA TestOfList ==
  ASSUME NEW net, NEW F, NEW list \in Seq([PIs -> Bit]), Search!checkallPatterns(net, F, list) # 0
  PROVE  /\ Search!checkallPatterns(net, F, list) \in 1 .. Len(list)
         /\ list[Search!checkallPatterns(net, F, list)] \in [PIs -> Bit]
         /\ RefDetects(net, F, list[Search!checkallPatterns(net, F, list)])
<1> DEFINE at(po) == {i \in 1 .. Len(list) : Search!Differs(net, F, po, list[i])}
           differing == {po \in POs : at(po) # {}}
<1>1. /\ differing # {}
      /\ Search!checkallPatterns(net, F, list) = Search!Least(at(Search!Least(differing)))
  <2>1. Search!checkallPatterns(net, F, list) =
          IF differing = {} THEN 0 ELSE Search!Least(at(Search!Least(differing)))
    BY SameGatesSearched DEF Search!checkallPatterns
  <2> HIDE DEF differing, at
  <2> QED BY <2>1
<1>2. ASSUME NEW S \in SUBSET Nat, S # {} PROVE Search!Least(S) \in S
  <2>1. \E x \in S : \A y \in S : x <= y BY <1>2, LeastNumber
  <2> QED BY <2>1 DEF Search!Least
<1>3. Search!Least(differing) \in differing
  <2>1. differing \in SUBSET Nat BY SizeAssumption DEF POs, Size
  <2> HIDE DEF differing
  <2> QED BY <1>1, <1>2, <2>1
<1>4. PICK po \in POs : po = Search!Least(differing) /\ at(po) # {} BY <1>3
<1>5. Search!Least(at(po)) \in at(po)
  <2>1. at(po) \in SUBSET Nat OBVIOUS
  <2> HIDE DEF at
  <2> QED BY <1>2, <1>4, <2>1
<1>6. PICK i \in 1 .. Len(list) : i = Search!checkallPatterns(net, F, list) /\ Search!Differs(net, F, po, list[i])
  BY <1>1, <1>4, <1>5
<1>7. RefValue(net, F, list[i])[po] # RefValue(net, {}, list[i])[po]
  BY <1>6, SameValuesSearched DEF Search!Differs
<1> QED BY <1>6, <1>7 DEF RefDetects

\* The reference values are a function of the gates, as Simulate stores them.
LEMMA ValuesStored ==
  ASSUME NEW net, WellFormed(net), NEW p \in [PIs -> Bit]
  PROVE  [g \in GateID |-> RefValue(net, {}, p)[g]] = RefValue(net, {}, p)
<1>1. RefValue(net, {}, p) \in [GateID -> Bit] BY RefValueEquation
<1> QED BY <1>1

\* The first phase leaves the tests of all testable faults.
LEMMA SearchInitially ==
  ASSUME Search!Init
  PROVE  SearchInv
<1> DEFINE found(f) == Search!checkallPatterns(netlist, {f}, SSAFPatterns)
<1>1. /\ netlist \in Netlists
      /\ SSAFPatterns \in PatternLists(netlist)
      /\ redundantSSAF = {f \in allSSAFList(netlist) : found(f) = 0}
      /\ SSAFToPatterns = [f \in allSSAFList(netlist) \ redundantSSAF |-> SSAFPatterns[found(f)]]
      /\ pc = "searchDSA" /\ todo = DOMAIN SSAFToPatterns
      /\ potentiallyUndetected = Search!EmptyMap /\ SSAToblockDSA = Search!EmptyMap
  BY SameValuesSearched DEF Search!Init
<1>2. WellFormed(netlist) BY <1>1, NetlistsAssumption
<1>3. SSAFPatterns \in Seq([PIs -> Bit])
      /\ \A f \in allSSAFList(netlist) : \A t \in [PIs -> Bit] : RefDetects(netlist, {f}, t) => found(f) # 0
  <2>1. Search!DetectsAllTestable(netlist, SSAFPatterns) BY <1>1, PatternListsAssumption DEF Search!PatternListsAssumption
  <2>2. Search!Patterns = [PIs -> Bit] BY SameGatesSearched DEF Search!Patterns
  <2> QED BY <2>1, <2>2, SameValuesSearched DEF Search!DetectsAllTestable
<1>4. \A f \in redundantSSAF : Never(netlist, f) BY <1>1, <1>3 DEF Never
<1>5. ASSUME NEW f \in DOMAIN SSAFToPatterns
      PROVE  SSAFToPatterns[f] \in [PIs -> Bit] /\ RefDetects(netlist, {f}, SSAFToPatterns[f])
  <2>1. f \in allSSAFList(netlist) /\ found(f) # 0 /\ SSAFToPatterns[f] = SSAFPatterns[found(f)] BY <1>1
  <2>2. SSAFPatterns[found(f)] \in [PIs -> Bit] /\ RefDetects(netlist, {f}, SSAFPatterns[found(f)])
    BY <1>3, <2>1, TestOfList
  <2> QED BY <2>1, <2>2
<1>6. TestsGiven BY <1>1, <1>2, <1>4, <1>5 DEF TestsGiven
<1>7. DOMAIN potentiallyUndetected = {} /\ DOMAIN SSAToblockDSA = {} BY <1>1 DEF Search!EmptyMap
<1>8. SinglesRecorded BY <1>1, <1>7 DEF SinglesRecorded
<1>9. PairsRecorded BY <1>1, <1>7 DEF PairsRecorded
<1>10. SimulatedFirst /\ pc \in SearchPhases BY <1>1 DEF SimulatedFirst, SearchPhases
<1> QED BY <1>6, <1>8, <1>9, <1>10 DEF SearchInv

-----------------------------------------------------------------------------
\* What a simulation leaves.
LEMMA Simulates ==
  ASSUME TestsGiven, NEW f \in DOMAIN SSAFToPatterns, NEW next, Search!Simulate({f}, SSAFToPatterns[f], next)
  PROVE  /\ current' = {f} /\ pc' = next
         /\ outValue' = RefValue(netlist, {}, SSAFToPatterns[f])
         /\ different' = Search!Marks(netlist, {f}, SSAFToPatterns[f])
<1>1. WellFormed(netlist) /\ SSAFToPatterns[f] \in [PIs -> Bit] BY DEF TestsGiven
<1>2. outValue' = [g \in GateID |-> RefValue(netlist, {}, SSAFToPatterns[f])[g]]
  BY SameGatesSearched, SameValuesSearched DEF Search!Simulate, Search!GoodValues
<1> QED BY <1>1, <1>2, ValuesStored DEF Search!Simulate

\* The tests stay as they are.
LEMMA TestsKept ==
  ASSUME TestsGiven, UNCHANGED Search!ssaVars
  PROVE  /\ TestsGiven' /\ netlist' = netlist /\ redundantSSAF' = redundantSSAF /\ SSAFToPatterns' = SSAFToPatterns
<1>1. netlist' = netlist /\ redundantSSAF' = redundantSSAF /\ SSAFToPatterns' = SSAFToPatterns BY DEF Search!ssaVars
<1> QED BY <1>1 DEF TestsGiven

\* No later phase touches them.
LEMMA AllKeepTests ==
  ASSUME Search!Next
  PROVE  UNCHANGED Search!ssaVars
BY DEF Search!Next, Search!SimulateSSA, Search!findPotentialUndetectedDSAF, Search!SimulateSSAAgain,
       Search!findSSABlockedByDSA, Search!generateDSATest, Search!SimulateDSA, Search!findDSABlockedbySSA,
       Search!generateTSATest, Search!pairUndetectedDSAF, Search!compressUndetectedDSAF, Search!generateDSATestDone,
       Search!findSSABlockedByDSADone, Search!pairUndetectedTSAF, Search!generateTSATestDone, Search!Simulate

\* map::insert of a fault that has no entry yet: the other entries stay.
LEMMA OthersKept ==
  ASSUME NEW map, NEW f, f \notin DOMAIN map, NEW blocks, NEW g, g # f
  PROVE  Recorded(Search!Inserted(map, f, blocks), g) = Recorded(map, g)
BY DEF Search!Inserted, Recorded

\* The same when there may be nothing to insert.

\* The same for an entry that is left out when it is empty.
LEMMA InsertedIfAnyRecords ==
  ASSUME NEW map, NEW f, f \notin DOMAIN map, NEW blocks
  PROVE  /\ DOMAIN Search!InsertedIfAny(map, f, blocks) \subseteq DOMAIN map \cup {f}
         /\ Recorded(Search!InsertedIfAny(map, f, blocks), f) = blocks
         /\ \A g : g # f => Recorded(Search!InsertedIfAny(map, f, blocks), g) = Recorded(map, g)
<1>1. CASE blocks = {}
  <2>1. Search!InsertedIfAny(map, f, blocks) = map BY <1>1 DEF Search!InsertedIfAny
  <2> QED BY <1>1, <2>1 DEF Recorded
<1>2. CASE blocks # {}
  <2>1. Search!InsertedIfAny(map, f, blocks) = Search!Inserted(map, f, blocks) BY <1>2 DEF Search!InsertedIfAny
  <2>2. \A g : g # f => Recorded(Search!Inserted(map, f, blocks), g) = Recorded(map, g) BY OthersKept
  <2>3. /\ DOMAIN Search!Inserted(map, f, blocks) = DOMAIN map \cup {f}
        /\ Search!Inserted(map, f, blocks)[f] = blocks
    BY DEF Search!Inserted
  <2>4. Recorded(Search!Inserted(map, f, blocks), f) = blocks BY <2>3 DEF Recorded
  <2> QED BY <2>1, <2>2, <2>3, <2>4
<1> QED BY <1>1, <1>2

\* Both loops simulate the test of a fault ...
LEMMA SimulateStep ==
  ASSUME SearchInv, UNCHANGED Search!ssaVars, NEW f \in todo, Search!SimulateSSA(f) \/ Search!SimulateSSAAgain(f)
  PROVE  SearchInv'
<1>1. /\ TestsGiven' /\ netlist' = netlist /\ redundantSSAF' = redundantSSAF /\ SSAFToPatterns' = SSAFToPatterns
  BY TestsKept DEF SearchInv
<1>2. /\ \/ pc = "searchDSA" /\ Search!Simulate({f}, SSAFToPatterns[f], "blockSSA")
         \/ pc = "searchTSA" /\ Search!Simulate({f}, SSAFToPatterns[f], "blockDSA")
  BY DEF Search!SimulateSSA, Search!SimulateSSAAgain
<1>3. todo' = todo /\ potentiallyUndetected' = potentiallyUndetected /\ SSAToblockDSA' = SSAToblockDSA
  BY <1>2 DEF Search!Simulate, Search!pathVars, Search!blockVars
<1>4. f \in DOMAIN SSAFToPatterns BY <1>2 DEF SearchInv, SinglesRecorded, PairsRecorded
<1>5. /\ current' = {f}
      /\ \/ pc = "searchDSA" /\ pc' = "blockSSA"
         \/ pc = "searchTSA" /\ pc' = "blockDSA"
      /\ outValue' = RefValue(netlist, {}, SSAFToPatterns[f])
      /\ different' = Search!Marks(netlist, {f}, SSAFToPatterns[f])
  <2>1. TestsGiven BY DEF SearchInv
  <2> QED BY <1>2, <1>4, <2>1, Simulates
<1>6. SimulatedFirst'
  <2>1. ASSUME NEW g, {f} = {g} PROVE f = g BY <2>1
  <2> QED BY <1>1, <1>4, <1>5, <2>1 DEF SimulatedFirst
<1>7. SinglesRecorded' BY <1>1, <1>3, <1>5 DEF SearchInv, SinglesRecorded
<1>8. PairsRecorded' BY <1>1, <1>3, <1>5 DEF SearchInv, PairsRecorded
<1>9. pc' \in SearchPhases BY <1>5 DEF SearchPhases
<1> QED BY <1>1, <1>6, <1>7, <1>8, <1>9 DEF SearchInv

\* ... and record what the walks then find: faults, ...
LEMMA SinglesStep ==
  ASSUME SearchInv, UNCHANGED Search!ssaVars, NEW f \in todo, Search!findPotentialUndetectedDSAF(f)
  PROVE  SearchInv'
<1>1. /\ TestsGiven' /\ netlist' = netlist /\ redundantSSAF' = redundantSSAF /\ SSAFToPatterns' = SSAFToPatterns
  BY TestsKept DEF SearchInv
<1>2. /\ pc = "blockSSA" /\ current = {f} /\ pc' = "searchDSA" /\ todo' = todo \ {f}
      /\ potentiallyUndetected' = Search!InsertedIfAny(potentiallyUndetected, f,
           Search!findBlockSSA(netlist, outValue, different, Search!listed, redundantSSAF, f))
      /\ SSAToblockDSA' = SSAToblockDSA
  BY DEF Search!findPotentialUndetectedDSAF, Search!blockVars
<1>3. /\ f \in DOMAIN SSAFToPatterns
      /\ outValue = RefValue(netlist, {}, SSAFToPatterns[f])
      /\ different = Search!Marks(netlist, {f}, SSAFToPatterns[f])
  BY <1>2 DEF SearchInv, SimulatedFirst
<1>4. Search!findBlockSSA(netlist, outValue, different, Search!listed, redundantSSAF, f) =
        BlocksOf(netlist, redundantSSAF, SSAFToPatterns, f)
  BY <1>3 DEF BlocksOf, Candidates, Search!listed
<1>5. /\ todo \subseteq DOMAIN SSAFToPatterns
      /\ \A g \in todo : g \notin DOMAIN potentiallyUndetected
      /\ \A g \in DOMAIN SSAFToPatterns : g \notin todo =>
           Recorded(potentiallyUndetected, g) = BlocksOf(netlist, redundantSSAF, SSAFToPatterns, g)
  BY <1>2 DEF SearchInv, SinglesRecorded
<1>6. /\ DOMAIN potentiallyUndetected' \subseteq DOMAIN potentiallyUndetected \cup {f}
      /\ Recorded(potentiallyUndetected', f) = BlocksOf(netlist, redundantSSAF, SSAFToPatterns, f)
      /\ \A g : g # f => Recorded(potentiallyUndetected', g) = Recorded(potentiallyUndetected, g)
  BY <1>2, <1>4, <1>5, InsertedIfAnyRecords
<1>7. SinglesRecorded'
  <2>1. todo' \subseteq DOMAIN SSAFToPatterns BY <1>2, <1>5
  <2>2. \A g \in todo' : g \notin DOMAIN potentiallyUndetected' BY <1>2, <1>5, <1>6
  <2>3. \A g \in DOMAIN SSAFToPatterns : g \notin todo' =>
          Recorded(potentiallyUndetected', g) = BlocksOf(netlist, redundantSSAF, SSAFToPatterns, g)
    BY <1>2, <1>5, <1>6
  <2> QED BY <1>1, <1>2, <2>1, <2>2, <2>3 DEF SinglesRecorded
<1>8. PairsRecorded' BY <1>1, <1>2 DEF SearchInv, PairsRecorded
<1>9. SimulatedFirst' /\ pc' \in SearchPhases BY <1>2 DEF SearchPhases, SimulatedFirst
<1> QED BY <1>1, <1>7, <1>8, <1>9 DEF SearchInv

\* ... or pairs.
LEMMA PairsStep ==
  ASSUME SearchInv, UNCHANGED Search!ssaVars, NEW f \in todo, Search!findSSABlockedByDSA(f)
  PROVE  SearchInv'
<1>1. /\ TestsGiven' /\ netlist' = netlist /\ redundantSSAF' = redundantSSAF /\ SSAFToPatterns' = SSAFToPatterns
  BY TestsKept DEF SearchInv
<1>2. PICK more : SSAToblockDSA' = Search!Inserted(SSAToblockDSA, f,
                    Search!findBlockDSA(netlist, outValue, different, Search!listed, f) \cup more)
  BY DEF Search!findSSABlockedByDSA
<1>3. /\ pc = "blockDSA" /\ current = {f} /\ pc' = "searchTSA" /\ todo' = todo \ {f}
      /\ potentiallyUndetected' = potentiallyUndetected
  BY DEF Search!findSSABlockedByDSA, Search!pathVars
<1>4. /\ f \in DOMAIN SSAFToPatterns
      /\ outValue = RefValue(netlist, {}, SSAFToPatterns[f])
      /\ different = Search!Marks(netlist, {f}, SSAFToPatterns[f])
  BY <1>3 DEF SearchInv, SimulatedFirst
<1>5. Search!findBlockDSA(netlist, outValue, different, Search!listed, f) =
        PairBlocksOf(netlist, redundantSSAF, SSAFToPatterns, f)
  BY <1>4 DEF PairBlocksOf, Candidates, Search!listed
<1>6. /\ todo \subseteq DOMAIN SSAFToPatterns
      /\ \A g \in todo : g \notin DOMAIN SSAToblockDSA
      /\ \A g \in DOMAIN SSAFToPatterns : g \notin todo =>
           Holds(SSAToblockDSA, g, PairBlocksOf(netlist, redundantSSAF, SSAFToPatterns, g))
  BY <1>3 DEF SearchInv, PairsRecorded
<1>7. /\ DOMAIN SSAToblockDSA' = DOMAIN SSAToblockDSA \cup {f}
      /\ SSAToblockDSA'[f] = PairBlocksOf(netlist, redundantSSAF, SSAFToPatterns, f) \cup more
      /\ \A g : g # f => Recorded(SSAToblockDSA', g) = Recorded(SSAToblockDSA, g)
  <2>1. PICK blocks : blocks = PairBlocksOf(netlist, redundantSSAF, SSAFToPatterns, f) \cup more OBVIOUS
  <2>2. SSAToblockDSA' = Search!Inserted(SSAToblockDSA, f, blocks) /\ f \notin DOMAIN SSAToblockDSA BY <1>2, <1>5, <1>6, <2>1
  <2>3. DOMAIN SSAToblockDSA' = DOMAIN SSAToblockDSA \cup {f} /\ SSAToblockDSA'[f] = blocks
    <3>1. /\ DOMAIN Search!Inserted(SSAToblockDSA, f, blocks) = DOMAIN SSAToblockDSA \cup {f}
          /\ Search!Inserted(SSAToblockDSA, f, blocks)[f] = blocks
      BY <2>2 DEF Search!Inserted
    <3> QED BY <2>2, <3>1
  <2>4. \A g : g # f => Recorded(SSAToblockDSA', g) = Recorded(SSAToblockDSA, g) BY <2>2, OthersKept
  <2> QED BY <2>1, <2>3, <2>4
<1>8. PairsRecorded'
  <2>1. todo' \subseteq DOMAIN SSAFToPatterns BY <1>3, <1>6
  <2>2. \A g \in todo' : g \notin DOMAIN SSAToblockDSA' BY <1>3, <1>6, <1>7
  <2>3. ASSUME NEW g \in DOMAIN SSAFToPatterns, g \notin todo'
        PROVE  Holds(SSAToblockDSA', g, PairBlocksOf(netlist, redundantSSAF, SSAFToPatterns, g))
    <3>1. CASE g = f BY <1>7, <3>1 DEF Holds
    <3>2. CASE g # f
      <4>1. Holds(SSAToblockDSA, g, PairBlocksOf(netlist, redundantSSAF, SSAFToPatterns, g)) BY <1>3, <1>6, <2>3, <3>2
      <4>2. g \in DOMAIN SSAToblockDSA /\ g \in DOMAIN SSAToblockDSA' BY <1>7, <4>1 DEF Holds
      <4>3. SSAToblockDSA'[g] = SSAToblockDSA[g] BY <1>7, <3>2, <4>2 DEF Recorded
      <4> QED BY <4>1, <4>2, <4>3 DEF Holds
    <3> QED BY <3>1, <3>2
  <2> QED BY <1>1, <1>3, <2>1, <2>2, <2>3 DEF PairsRecorded
<1>9. SinglesRecorded' BY <1>1, <1>3 DEF SearchInv, SinglesRecorded
<1>10. SimulatedFirst' /\ pc' \in SearchPhases BY <1>3 DEF SearchPhases, SimulatedFirst
<1> QED BY <1>1, <1>8, <1>9, <1>10 DEF SearchInv

\* What comes before, between and after the loops changes no records.
LEMMA OtherStep ==
  ASSUME SearchInv, UNCHANGED Search!ssaVars,
         potentiallyUndetected' = potentiallyUndetected, SSAToblockDSA' = SSAToblockDSA,
         \/ pc = "searchDSA" /\ todo = {} /\ pc' = "compressDSA"
         \/ pc = "compressDSA" /\ pc' = "testDSA"
         \/ pc = "testDSA" /\ (pc' = pc \/ (pc' = "searchTSA" /\ todo' = DOMAIN SSAFToPatterns))
         \/ pc = "searchTSA" /\ todo = {} /\ pc' = "searchDSAToSSA"
         \/ pc = "searchDSAToSSA" /\ pc' \in {"blockSSAOfDSA", "testTSA"}
         \/ pc = "blockSSAOfDSA" /\ pc' = "searchDSAToSSA"
         \/ pc = "testTSA" /\ pc' \in {"testTSA", "done"}
  PROVE  SearchInv'
<1>1. /\ TestsGiven' /\ netlist' = netlist /\ redundantSSAF' = redundantSSAF /\ SSAFToPatterns' = SSAFToPatterns
  BY TestsKept DEF SearchInv
<1>2. SinglesRecorded' BY <1>1 DEF SearchInv, SinglesRecorded
<1>3. PairsRecorded' BY <1>1 DEF SearchInv, PairsRecorded
<1>4. SimulatedFirst' /\ pc' \in SearchPhases BY DEF SimulatedFirst, SearchPhases
<1> QED BY <1>1, <1>2, <1>3, <1>4 DEF SearchInv

\* The invariant of the phases is inductive ...
LEMMA SearchStep ==
  ASSUME SearchInv, [Search!Next]_(Search!vars)
  PROVE  SearchInv'
<1>1. CASE UNCHANGED Search!vars
  <2>1. /\ netlist' = netlist /\ redundantSSAF' = redundantSSAF /\ SSAFToPatterns' = SSAFToPatterns
        /\ pc' = pc /\ todo' = todo /\ potentiallyUndetected' = potentiallyUndetected /\ SSAToblockDSA' = SSAToblockDSA
        /\ current' = current /\ outValue' = outValue /\ different' = different
    BY <1>1 DEF Search!vars, Search!simVars, Search!ssaVars, Search!pathVars, Search!blockVars
  <2> QED BY <2>1 DEF SearchInv, TestsGiven, SimulatedFirst, SinglesRecorded, PairsRecorded
<1>2. CASE Search!Next
  <2>1. UNCHANGED Search!ssaVars BY <1>2, AllKeepTests
  <2>2. ASSUME NEW f \in todo, Search!SimulateSSA(f) \/ Search!SimulateSSAAgain(f) PROVE SearchInv'
    BY <2>1, <2>2, SimulateStep
  <2>3. ASSUME NEW f \in todo, Search!findPotentialUndetectedDSAF(f) PROVE SearchInv' BY <2>1, <2>3, SinglesStep
  <2>4. ASSUME NEW f \in todo, Search!findSSABlockedByDSA(f) PROVE SearchInv' BY <2>1, <2>4, PairsStep
  <2>5. ASSUME NEW D \in todo, Search!generateDSATest(D) PROVE SearchInv'
    BY <2>1, <2>5, OtherStep DEF Search!generateDSATest, Search!pathVars, Search!blockVars
  <2>6. ASSUME NEW D \in todo, Search!SimulateDSA(D) PROVE SearchInv'
    BY <2>1, <2>6, OtherStep DEF Search!SimulateDSA, Search!Simulate, Search!pathVars, Search!blockVars
  <2>7. ASSUME NEW D \in todo, Search!findDSABlockedbySSA(D) PROVE SearchInv'
    BY <2>1, <2>7, OtherStep DEF Search!findDSABlockedbySSA, Search!pathVars
  <2>8. ASSUME NEW T \in todo, Search!generateTSATest(T) PROVE SearchInv'
    BY <2>1, <2>8, OtherStep DEF Search!generateTSATest, Search!pathVars, Search!blockVars
  <2>9. CASE Search!pairUndetectedDSAF
    BY <2>1, <2>9, OtherStep DEF Search!pairUndetectedDSAF, Search!pathVars, Search!blockVars
  <2>10. CASE Search!compressUndetectedDSAF
    BY <2>1, <2>10, OtherStep DEF Search!compressUndetectedDSAF, Search!pathVars, Search!blockVars
  <2>11. CASE Search!generateDSATestDone
    BY <2>1, <2>11, OtherStep DEF Search!generateDSATestDone, Search!pathVars, Search!blockVars
  <2>12. CASE Search!findSSABlockedByDSADone
    BY <2>1, <2>12, OtherStep DEF Search!findSSABlockedByDSADone, Search!pathVars, Search!blockVars
  <2>13. CASE Search!pairUndetectedTSAF
    BY <2>1, <2>13, OtherStep DEF Search!pairUndetectedTSAF, Search!pathVars, Search!blockVars
  <2>14. CASE Search!generateTSATestDone
    BY <2>1, <2>14, OtherStep DEF Search!generateTSATestDone, Search!pathVars, Search!blockVars
  <2> QED
    BY <1>2, <2>2, <2>3, <2>4, <2>5, <2>6, <2>7, <2>8, <2>9, <2>10, <2>11, <2>12, <2>13, <2>14 DEF Search!Next
<1> QED BY <1>1, <1>2

\* ... and holds of every run.
LEMMA SearchInvariant ==
  Search!Spec => []SearchInv
<1>1. Search!Init => SearchInv BY SearchInitially
<1>2. SearchInv /\ [Search!Next]_(Search!vars) => SearchInv' BY SearchStep
<1> QED BY <1>1, <1>2, PTL DEF Search!Spec

-----------------------------------------------------------------------------
\* In a circuit without fanout the collapsed list has the inputs of AIGs that
\* primary inputs drive.
LEMMA CollapsedAre ==
  ASSUME NEW net, WellFormed(net), \A g \in GateID : fanoutSize(net, g) <= 1, NEW f \in collapsedSSAFList(net)
  PROVE  CollapsedFault(net, f)
<1> DEFINE selected(g) == net[g].gateType = "PI" \/ fanoutSize(net, g) > 1
           aigs == {g \in GateID : net[g].gateType = "aig"}
<1>1. PICK g \in aigs, k \in {1, 2}, v \in Bit : selected(InputOf(net, g, k)) /\ f = FaultID(g, k, v)
  <2>1. \A g : InputOf(net, g, 1) = net[g].fanin1 /\ InputOf(net, g, 2) = net[g].fanin2 BY DEF InputOf
  <2> QED BY <2>1 DEF collapsedSSAFList
<1>2. PICK i : i = InputOf(net, g, k) OBVIOUS
<1>3. g \in GateID /\ net[g].gateType = "aig" BY <1>1
<1>4. k \in GateInputs(net, g) BY <1>3 DEF GateInputs
<1>5. i \in Fanins(net, g) BY <1>2, <1>3, <1>4, LinesOf
<1>6. i \in GateID BY <1>3, <1>5, FaninsPrecede
<1>7. fanoutSize(net, i) <= 1 /\ fanoutSize(net, i) \in Int
  <2>1. PICK R, T : /\ R = Fanouts(net, i)
                    /\ T = {h \in GateID : net[h].gateType = "aig" /\ net[h].fanin1 = i /\ net[h].fanin2 = i}
    OBVIOUS
  <2>2. IsFiniteSet(GateID) BY SizeNat, FS_Interval DEF GateID
  <2>3. R \in SUBSET GateID /\ T \in SUBSET GateID BY <2>1 DEF Fanouts
  <2>4. IsFiniteSet(R) /\ IsFiniteSet(T) BY <2>2, <2>3, FS_Subset
  <2>5. Cardinality(R) \in Nat /\ Cardinality(T) \in Nat BY <2>4, FS_CardinalityType
  <2>6. fanoutSize(net, i) = Cardinality(R) + Cardinality(T) BY <2>1 DEF fanoutSize
  <2> QED BY <1>6, <2>5, <2>6
<1>8. net[i].gateType = "PI" BY <1>1, <1>2, <1>7
<1>9. i \in PIs BY <1>6, <1>8 DEF WellFormed
<1> QED BY <1>1, <1>2, <1>3, <1>9 DEF CollapsedFault

\* A fault of the collapsed list is tested by the pattern recorded for it.
LEMMA ListedTested ==
  ASSUME SearchInv, Search!FanoutFree, NEW f \in DOMAIN SSAFToPatterns \cap Search!listed
  PROVE  \E a, q, u : f = FaultID(a, q, u) /\ Tested(netlist, a, q, u, SSAFToPatterns[f])
<1>1. TestsGiven BY DEF SearchInv
<1>2. WellFormed(netlist) BY <1>1 DEF TestsGiven
<1>3. \A g \in GateID : fanoutSize(netlist, g) <= 1 BY SameGatesSearched, SameValuesSearched DEF Search!FanoutFree
<1>4. Tree(netlist) BY <1>2, <1>3, FanoutFreeTree
<1>5. f \in DOMAIN SSAFToPatterns /\ f \in collapsedSSAFList(netlist)
  BY <1>1, SameValuesSearched DEF TestsGiven, Search!listed
<1>6. CollapsedFault(netlist, f) BY <1>2, <1>3, <1>5, CollapsedAre
<1>7. PICK a \in GateID, q \in {1, 2}, u \in Bit :
        netlist[a].gateType = "aig" /\ InputOf(netlist, a, q) \in PIs /\ f = FaultID(a, q, u)
  BY <1>6 DEF CollapsedFault
<1>8. SSAFToPatterns[f] \in [PIs -> Bit] /\ RefDetects(netlist, {f}, SSAFToPatterns[f])
  BY <1>1, <1>5 DEF TestsGiven
<1>9. Tested(netlist, a, q, u, SSAFToPatterns[f]) BY <1>2, <1>4, <1>7, <1>8 DEF Tested
<1> QED BY <1>7, <1>9

\* What the searches are given.
LEMMA ListedAre ==
  ASSUME SearchInv, Search!FanoutFree
  PROVE  /\ \A x \in Search!listed : Candidate(netlist, x)
         /\ \A x \in collapsedSSAFList(netlist) : CollapsedFault(netlist, x)
<1>1. TestsGiven BY DEF SearchInv
<1>2. WellFormed(netlist) BY <1>1 DEF TestsGiven
<1>3. \A g \in GateID : fanoutSize(netlist, g) <= 1 BY SameGatesSearched, SameValuesSearched DEF Search!FanoutFree
<1>4. \A x \in collapsedSSAFList(netlist) : CollapsedFault(netlist, x) BY <1>2, <1>3, CollapsedAre
<1>5. Search!listed = collapsedSSAFList(netlist) \cup redundantSSAF BY SameValuesSearched DEF Search!listed
<1>6. \A x \in redundantSSAF : x \in allSSAFList(netlist) /\ Never(netlist, x) BY <1>1 DEF TestsGiven
<1> QED BY <1>4, <1>5, <1>6 DEF Candidate

\* The faults on another line than f.
LEMMA OtherLinesAre ==
  ASSUME NEW f, NEW x
  PROVE  x \in Search!OtherLines(f) <=>
           x \in Search!listed /\ ~ (faultGate(x) = faultGate(f) /\ faultPort(x) = faultPort(f))
BY SameGatesSearched DEF Search!OtherLines

\* Hiding, in the terms of Netlist.
LEMMA HiddenIs ==
  ASSUME NEW f, NEW F
  PROVE  Search!HiddenBy(f, F) <=> ~ RefDetects(netlist, F \cup {f}, SSAFToPatterns[f])
BY SameValuesSearched DEF Search!HiddenBy

\* Once the first loop is over, the record of a fault is what hides it.
LEMMA RecordedExactly ==
  ASSUME SearchInv, Search!FanoutFree, pc \notin {"searchDSA", "blockSSA"}, NEW f \in DOMAIN SSAFToPatterns \cap Search!listed
  PROVE  {g \in Search!OtherLines(f) : Search!HiddenBy(f, {g})} = Recorded(potentiallyUndetected, f)
<1>1. PICK a, q, u : f = FaultID(a, q, u) /\ Tested(netlist, a, q, u, SSAFToPatterns[f]) BY ListedTested
<1>2. faultGate(f) = a /\ faultPort(f) = q BY <1>1, TestedFault
<1>3. PICK p, list, never : p = SSAFToPatterns[f] /\ list = Search!listed /\ never = redundantSSAF OBVIOUS
<1>4. (\A x \in list : Candidate(netlist, x)) /\ \A x \in never : Never(netlist, x)
  BY <1>3, ListedAre DEF SearchInv, TestsGiven
<1>5. Search!findBlockSSA(netlist, RefValue(netlist, {}, p), Search!Marks(netlist, {f}, p), list, never, f) =
        {x \in list : ~ (faultGate(x) = a /\ faultPort(x) = q) /\ ~ RefDetects(netlist, {x, f}, p)}
  <2>1. Tested(netlist, a, q, u, p) BY <1>1, <1>3
  <2> QED BY <1>1, <1>4, <2>1, SinglesExact
<1>6. Recorded(potentiallyUndetected, f) = BlocksOf(netlist, redundantSSAF, SSAFToPatterns, f)
  BY DEF SearchInv, SinglesRecorded
<1>7. Recorded(potentiallyUndetected, f) =
        {x \in list : ~ (faultGate(x) = a /\ faultPort(x) = q) /\ ~ RefDetects(netlist, {x, f}, p)}
  BY <1>3, <1>5, <1>6 DEF BlocksOf, Candidates, Search!listed
<1>8. ASSUME NEW x PROVE x \in Search!OtherLines(f) /\ Search!HiddenBy(f, {x}) <=>
                           x \in list /\ ~ (faultGate(x) = a /\ faultPort(x) = q) /\ ~ RefDetects(netlist, {x, f}, p)
  <2>1. {x} \cup {f} = {x, f} OBVIOUS
  <2>2. Search!HiddenBy(f, {x}) <=> ~ RefDetects(netlist, {x, f}, p) BY <1>3, <2>1, HiddenIs
  <2>3. x \in Search!OtherLines(f) <=> x \in list /\ ~ (faultGate(x) = a /\ faultPort(x) = q) BY <1>2, <1>3, OtherLinesAre
  <2> QED BY <2>2, <2>3
<1> QED BY <1>7, <1>8

\* What the invariant says of the first search, ...
LEMMA SinglesMasked ==
  SearchInv => Search!SingleMasksExact
<1> SUFFICES ASSUME SearchInv, Search!FanoutFree, pc = "compressDSA", NEW f \in DOMAIN SSAFToPatterns \cap Search!listed
             PROVE  {g \in Search!OtherLines(f) : Search!HiddenBy(f, {g})} =
                    IF f \in DOMAIN potentiallyUndetected THEN potentiallyUndetected[f] ELSE {}
  BY DEF Search!SingleMasksExact
<1>1. {g \in Search!OtherLines(f) : Search!HiddenBy(f, {g})} = Recorded(potentiallyUndetected, f) BY RecordedExactly
<1> QED BY <1>1 DEF Recorded

\* ... and of the second.
LEMMA DoublesMasked ==
  SearchInv => Search!DoubleMasksFound
<1> DEFINE others(f) == Search!OtherLines(f) \cap Search!collapsedSSAFList(netlist)
<1> SUFFICES ASSUME SearchInv, Search!FanoutFree, pc = "searchDSAToSSA", NEW f \in DOMAIN SSAFToPatterns \cap Search!listed,
                    NEW D \in Search!Pairs(others(f), others(f)), Search!HiddenBy(f, D),
                    \A g \in D : ~ Search!HiddenBy(f, {g})
             PROVE  D \in SSAToblockDSA[f]
  BY DEF Search!DoubleMasksFound
<1>1. PICK a, q, u : f = FaultID(a, q, u) /\ Tested(netlist, a, q, u, SSAFToPatterns[f]) BY ListedTested
<1>2. faultGate(f) = a /\ faultPort(f) = q BY <1>1, TestedFault
<1>3. PICK p, list : p = SSAFToPatterns[f] /\ list = Search!listed OBVIOUS
<1>4. PICK x \in others(f), y \in others(f) : D = {x, y} BY DEF Search!Pairs
<1>5. ASSUME NEW z \in others(f)
      PROVE  z \in list /\ CollapsedFault(netlist, z) /\ ~ (faultGate(z) = a /\ faultPort(z) = q)
  BY <1>2, <1>3, OtherLinesAre, ListedAre, SameValuesSearched
<1> HIDE DEF others
<1>6. ~ RefDetects(netlist, {x, y} \cup {f}, p) BY <1>3, <1>4, HiddenIs
<1>7. ASSUME NEW z \in D PROVE RefDetects(netlist, {z, f}, p)
  <2>1. ~ Search!HiddenBy(f, {z}) OBVIOUS
  <2>2. {z} \cup {f} = {z, f} OBVIOUS
  <2> QED BY <1>3, <2>1, <2>2, HiddenIs
<1>8. RefDetects(netlist, {x, f}, p) /\ RefDetects(netlist, {y, f}, p) BY <1>4, <1>7
<1>9. {x, y} \in Search!findBlockDSA(netlist, RefValue(netlist, {}, p), Search!Marks(netlist, {f}, p), list, f)
  <2>1. Tested(netlist, a, q, u, p) BY <1>1, <1>3
  <2> QED BY <1>1, <1>4, <1>5, <1>6, <1>8, <2>1, DoublesListed
<1>10. Holds(SSAToblockDSA, f, PairBlocksOf(netlist, redundantSSAF, SSAFToPatterns, f))
  BY DEF SearchInv, PairsRecorded
<1>11. D \in PairBlocksOf(netlist, redundantSSAF, SSAFToPatterns, f)
  BY <1>3, <1>4, <1>9 DEF PairBlocksOf, Candidates, Search!listed
<1> QED BY <1>10, <1>11 DEF Holds

\* On a circuit without fanout, a single fault on another line hides a fault
\* from its test exactly when findPotentialUndetectedDSAF records it.
THEOREM MaskingSinglesRecorded == Search!Spec => []SingleMasksExact
<1>1. Search!Spec => []SearchInv BY SearchInvariant
<1>2. SearchInv => SingleMasksExact BY SinglesMasked DEF SingleMasksExact
<1> QED BY <1>1, <1>2, PTL

\* Two faults of the collapsed list that hide it only together are a pair that
\* findSSABlockedByDSAInOnePath records.
THEOREM MaskingPairsRecorded == Search!Spec => []DoubleMasksFound
<1>1. Search!Spec => []SearchInv BY SearchInvariant
<1>2. SearchInv => DoubleMasksFound BY DoublesMasked DEF DoubleMasksFound
<1> QED BY <1>1, <1>2, PTL

-----------------------------------------------------------------------------
(***************************************************************************)
(* What the second phase leaves: every pair that the search lists has a    *)
(* test or none exists.                                                    *)
(***************************************************************************)
\* Some pattern of the list detects the faults.
ListDetects(net, F, list) == \E i \in 1 .. Len(list) : RefDetects(net, F, list[i])

\* The simulator tries a whole list.
LEMMA ListTried ==
  ASSUME NEW net, NEW F, NEW list \in Seq([PIs -> Bit])
  PROVE  Search!checkallPatterns(net, F, list) # 0 <=> ListDetects(net, F, list)
<1> DEFINE at(po) == {i \in 1 .. Len(list) : Search!Differs(net, F, po, list[i])}
           differing == {po \in POs : at(po) # {}}
<1>1. Search!checkallPatterns(net, F, list) =
        IF differing = {} THEN 0 ELSE Search!Least(at(Search!Least(differing)))
  BY SameGatesSearched DEF Search!checkallPatterns
<1>2. ASSUME NEW S \in SUBSET Nat, S # {} PROVE Search!Least(S) \in S
  <2>1. \E x \in S : \A y \in S : x <= y BY <1>2, LeastNumber
  <2> QED BY <2>1 DEF Search!Least
<1>3. \A po : at(po) \in SUBSET Nat /\ 0 \notin at(po) OBVIOUS
<1>4. differing \in SUBSET Nat BY SizeAssumption DEF POs, Size
<1>5. \A po \in differing : at(po) # {} OBVIOUS
<1>6. differing # {} <=> ListDetects(net, F, list)
  BY SameValuesSearched DEF ListDetects, RefDetects, Search!Differs
<1> HIDE DEF at, differing
<1>7. CASE differing = {} BY <1>1, <1>6, <1>7
<1>8. CASE differing # {}
  <2>1. Search!Least(differing) \in differing BY <1>2, <1>4, <1>8
  <2>2. PICK po \in differing : po = Search!Least(differing) BY <2>1
  <2>3. Search!Least(at(po)) \in at(po) BY <1>2, <1>3, <1>5
  <2>4. Search!Least(at(po)) # 0 BY <1>3, <2>3
  <2> QED BY <1>1, <1>6, <1>8, <2>2, <2>4
<1> QED BY <1>7, <1>8

\* A list that grows detects no less.
LEMMA ListGrows ==
  ASSUME NEW net, NEW F, NEW list \in Seq([PIs -> Bit]), NEW t \in [PIs -> Bit]
  PROVE  /\ Append(list, t) \in Seq([PIs -> Bit])
         /\ ListDetects(net, F, list) => ListDetects(net, F, Append(list, t))
         /\ RefDetects(net, F, t) => ListDetects(net, F, Append(list, t))
<1>1. /\ Append(list, t) \in Seq([PIs -> Bit]) /\ Len(list) \in Nat /\ Len(Append(list, t)) = Len(list) + 1
      /\ Append(list, t)[Len(list) + 1] = t
  OBVIOUS
<1>2. \A i \in 1 .. Len(list) : Append(list, t)[i] = list[i] OBVIOUS
<1>3. Len(list) + 1 \in 1 .. Len(Append(list, t)) BY <1>1
<1>4. \A i \in 1 .. Len(list) : i \in 1 .. Len(Append(list, t)) BY <1>1
<1> QED BY <1>1, <1>2, <1>3, <1>4 DEF ListDetects

\* Neither does a joined one.
LEMMA ListsJoined ==
  ASSUME NEW net, NEW F, NEW list \in Seq([PIs -> Bit]), NEW more \in Seq([PIs -> Bit])
  PROVE  /\ list \o more \in Seq([PIs -> Bit])
         /\ ListDetects(net, F, list) \/ ListDetects(net, F, more) => ListDetects(net, F, list \o more)
<1>1. /\ list \o more \in Seq([PIs -> Bit]) /\ Len(list) \in Nat /\ Len(more) \in Nat
      /\ Len(list \o more) = Len(list) + Len(more)
  OBVIOUS
<1>2. \A i \in 1 .. Len(list) : (list \o more)[i] = list[i] /\ i \in 1 .. Len(list \o more) BY <1>1
<1>3. \A i \in 1 .. Len(more) : (list \o more)[Len(list) + i] = more[i] /\ Len(list) + i \in 1 .. Len(list \o more) BY <1>1
<1> QED BY <1>1, <1>2, <1>3 DEF ListDetects

-----------------------------------------------------------------------------
\* A pair has a test, given or additional, or there is none.
Covered(net, D, given, more) ==
  ListDetects(net, D, given) \/ ListDetects(net, D, more) \/ \A t \in [PIs -> Bit] : ~ RefDetects(net, D, t)

\* The compression takes away what is no pair.
PairOrTested(D) == Cardinality(D) = 2 \/ \E f \in DOMAIN SSAFToPatterns : D = {f}

LaterPhases == {"searchTSA", "blockDSA", "searchDSAToSSA", "blockSSAOfDSA", "testTSA", "done"}

PatternsKnown ==
  /\ SSAFPatterns \in Seq([PIs -> Bit])
  /\ \A f \in DOMAIN SSAFToPatterns : \E i \in 1 .. Len(SSAFPatterns) : SSAFToPatterns[f] = SSAFPatterns[i]
  /\ DSAFPatterns \in Seq([PIs -> Bit])
  /\ DOMAIN potentiallyUndetected \subseteq DOMAIN SSAFToPatterns

PairsTreated ==
  /\ pc = "compressDSA" => Search!BlockedPairs \subseteq undetectedDSA /\ \A D \in undetectedDSA : PairOrTested(D)
  /\ pc = "testDSA" =>
       /\ \A D \in todo : Cardinality(D) = 2
       /\ \A D \in Search!BlockedPairs : D \in todo \/ Covered(netlist, D, SSAFPatterns, DSAFPatterns)
  /\ pc \in LaterPhases => \A D \in Search!BlockedPairs : Covered(netlist, D, SSAFPatterns, DSAFPatterns)

PairsInv == SearchInv /\ PatternsKnown /\ PairsTreated

\* Cardinality is the same on both sides.
LEMMA SameCardinality ==
  ASSUME NEW S
  PROVE  Search!Cardinality(S) = Cardinality(S)
BY DEF Search!Cardinality, Cardinality, Search!IsFiniteSet, IsFiniteSet

\* What the search lists is a pair, or a single fault paired with itself.
LEMMA ListedPairs ==
  ASSUME PairsInv, NEW D \in Search!BlockedPairs \cup Search!KeptPairs
  PROVE  PairOrTested(D)
<1>1. ASSUME D \in Search!KeptPairs PROVE Cardinality(D) = 2
  BY <1>1, SameCardinality DEF Search!KeptPairs, Search!RedundantPairs
<1>2. ASSUME D \in Search!BlockedPairs PROVE PairOrTested(D)
  <2>1. PICK x \in DOMAIN potentiallyUndetected, y \in Search!listed : D = {x, y}
    BY <1>2 DEF Search!BlockedPairs, Search!Pairs
  <2>2. CASE x = y
    <3>1. D = {x} /\ x \in DOMAIN SSAFToPatterns BY <2>1, <2>2 DEF PairsInv, PatternsKnown
    <3> QED BY <3>1 DEF PairOrTested
  <2>3. CASE x # y
    <3>1. IsFiniteSet({x}) /\ Cardinality({x}) = 1 BY FS_Singleton
    <3>2. Cardinality({x} \cup {y}) = Cardinality({x}) + 1 BY <2>3, <3>1, FS_AddElement
    <3>3. D = {x} \cup {y} BY <2>1
    <3> QED BY <3>1, <3>2, <3>3 DEF PairOrTested
  <2> QED BY <2>2, <2>3
<1> QED BY <1>1, <1>2 DEF PairOrTested

\* The first phase leaves the tests of the list.
LEMMA PairsInitially ==
  ASSUME Search!Init
  PROVE  PairsInv
<1> DEFINE found(f) == Search!checkallPatterns(netlist, {f}, SSAFPatterns)
<1>1. SearchInv BY SearchInitially
<1>2. /\ netlist \in Netlists
      /\ SSAFPatterns \in PatternLists(netlist)
      /\ redundantSSAF = {f \in allSSAFList(netlist) : found(f) = 0}
      /\ SSAFToPatterns = [f \in allSSAFList(netlist) \ redundantSSAF |-> SSAFPatterns[found(f)]]
      /\ pc = "searchDSA" /\ potentiallyUndetected = Search!EmptyMap /\ DSAFPatterns = << >>
  BY SameValuesSearched DEF Search!Init
<1>3. SSAFPatterns \in Seq([PIs -> Bit])
  <2>1. Search!DetectsAllTestable(netlist, SSAFPatterns) BY <1>2, PatternListsAssumption DEF Search!PatternListsAssumption
  <2>2. Search!Patterns = [PIs -> Bit] BY SameGatesSearched DEF Search!Patterns
  <2> QED BY <2>1, <2>2 DEF Search!DetectsAllTestable
<1>4. ASSUME NEW f \in DOMAIN SSAFToPatterns
      PROVE  \E i \in 1 .. Len(SSAFPatterns) : SSAFToPatterns[f] = SSAFPatterns[i]
  <2>1. found(f) # 0 /\ SSAFToPatterns[f] = SSAFPatterns[found(f)] BY <1>2
  <2>2. found(f) \in 1 .. Len(SSAFPatterns) BY <1>3, <2>1, TestOfList
  <2> QED BY <2>1, <2>2
<1>5. DOMAIN potentiallyUndetected = {} BY <1>2 DEF Search!EmptyMap
<1>6. PatternsKnown BY <1>2, <1>3, <1>4, <1>5 DEF PatternsKnown
<1>7. PairsTreated BY <1>2 DEF PairsTreated, LaterPhases
<1> QED BY <1>1, <1>6, <1>7 DEF PairsInv

-----------------------------------------------------------------------------
\* The pairs that are listed depend on the first loop alone.
LEMMA BlockedKept ==
  ASSUME UNCHANGED Search!ssaVars, potentiallyUndetected' = potentiallyUndetected
  PROVE  (Search!BlockedPairs)' = Search!BlockedPairs
BY DEF Search!BlockedPairs, Search!listed, Search!ssaVars

\* Patterns are only added to the additional ones.
LEMMA PatternsStay ==
  ASSUME PatternsKnown, UNCHANGED Search!ssaVars, DSAFPatterns' \in Seq([PIs -> Bit]),
         DOMAIN potentiallyUndetected' \subseteq DOMAIN SSAFToPatterns
  PROVE  PatternsKnown'
BY DEF PatternsKnown, Search!ssaVars

\* The two ways the code asks for a test.
LEMMA TestsAsked ==
  ASSUME NEW D, NEW list \in Seq([PIs -> Bit])
  PROVE  /\ Search!Detected(D, list) <=> ListDetects(netlist, D, list)
         /\ Search!DetectedBy(D) = {p \in [PIs -> Bit] : RefDetects(netlist, D, p)}
<1>1. Search!Detected(D, list) <=> ListDetects(netlist, D, list) BY ListTried DEF Search!Detected
<1>2. Search!DetectedBy(D) = {p \in [PIs -> Bit] : RefDetects(netlist, D, p)}
  BY SameGatesSearched, SameValuesSearched DEF Search!DetectedBy, Search!Patterns
<1> QED BY <1>1, <1>2

\* The first loop lists no pairs yet.
LEMMA FirstLoopStep ==
  ASSUME PairsInv, SearchInv', UNCHANGED Search!ssaVars, DSAFPatterns' = DSAFPatterns,
         DOMAIN potentiallyUndetected' \subseteq DOMAIN SSAFToPatterns, pc' \in {"searchDSA", "blockSSA"}
  PROVE  PairsInv'
<1>1. PatternsKnown' BY PatternsStay DEF PairsInv, PatternsKnown
<1>2. PairsTreated' BY DEF PairsTreated, LaterPhases
<1> QED BY <1>1, <1>2 DEF PairsInv

\* The third phase changes nothing of the second.
LEMMA LaterStep ==
  ASSUME PairsInv, SearchInv', UNCHANGED Search!ssaVars, DSAFPatterns' = DSAFPatterns,
         potentiallyUndetected' = potentiallyUndetected, pc \in LaterPhases, pc' \in LaterPhases
  PROVE  PairsInv'
<1>1. PatternsKnown' BY PatternsStay DEF PairsInv, PatternsKnown
<1>2. (Search!BlockedPairs)' = Search!BlockedPairs BY BlockedKept
<1>3. PairsTreated' BY <1>2 DEF PairsInv, PairsTreated, LaterPhases, Search!ssaVars
<1> QED BY <1>1, <1>3 DEF PairsInv

\* pairUndetectedDSAF lists the pairs that may hide each other, ...
LEMMA PairingStep ==
  ASSUME PairsInv, SearchInv', UNCHANGED Search!ssaVars, Search!pairUndetectedDSAF
  PROVE  PairsInv'
<1>1. /\ undetectedDSA' = Search!BlockedPairs \cup Search!KeptPairs
      /\ potentiallyUndetected' = potentiallyUndetected /\ DSAFPatterns' = DSAFPatterns
      /\ pc' = "compressDSA"
  BY DEF Search!pairUndetectedDSAF, Search!pathVars
<1>2. PatternsKnown' BY <1>1, PatternsStay DEF PairsInv, PatternsKnown
<1>3. (Search!BlockedPairs)' = Search!BlockedPairs BY <1>1, BlockedKept
<1>4. \A D \in undetectedDSA' : PairOrTested(D) BY <1>1, ListedPairs
<1>5. SSAFToPatterns' = SSAFToPatterns BY DEF Search!ssaVars
<1>6. PairsTreated'
  <2>1. (\A D \in undetectedDSA : PairOrTested(D))' BY <1>4, <1>5 DEF PairOrTested
  <2> QED BY <1>1, <1>3, <2>1 DEF PairsTreated, LaterPhases
<1> QED BY <1>2, <1>6 DEF PairsInv

\* ... compressUndetectedDSAF takes away those that have a test, single faults
\* among them, ...
LEMMA CompressionStep ==
  ASSUME PairsInv, SearchInv', UNCHANGED Search!ssaVars, Search!compressUndetectedDSAF
  PROVE  PairsInv'
<1>1. /\ pc = "compressDSA" /\ pc' = "testDSA"
      /\ todo' = undetectedDSA \ {D \in undetectedDSA : Search!Detected(D, SSAFPatterns)}
      /\ potentiallyUndetected' = potentiallyUndetected /\ DSAFPatterns' = DSAFPatterns
  BY DEF Search!compressUndetectedDSAF, Search!pathVars
<1>2. PatternsKnown' BY <1>1, PatternsStay DEF PairsInv, PatternsKnown
<1>3. (Search!BlockedPairs)' = Search!BlockedPairs BY <1>1, BlockedKept
<1>4. PatternsKnown /\ PairsTreated /\ TestsGiven BY DEF PairsInv, SearchInv
<1>5. netlist' = netlist /\ SSAFPatterns' = SSAFPatterns BY DEF Search!ssaVars
<1>6. \A D \in undetectedDSA : D \in todo' \/ ListDetects(netlist, D, SSAFPatterns)
  BY <1>1, <1>4, TestsAsked DEF PatternsKnown
<1>7. ASSUME NEW D \in todo' PROVE Cardinality(D) = 2
  <2>1. D \in undetectedDSA /\ ~ ListDetects(netlist, D, SSAFPatterns) BY <1>1, <1>4, TestsAsked DEF PatternsKnown
  <2>2. ASSUME NEW f \in DOMAIN SSAFToPatterns, D = {f} PROVE FALSE
    <3>1. PICK i \in 1 .. Len(SSAFPatterns) : SSAFToPatterns[f] = SSAFPatterns[i] BY <1>4 DEF PatternsKnown
    <3>2. RefDetects(netlist, {f}, SSAFPatterns[i]) BY <1>4, <3>1 DEF TestsGiven
    <3> QED BY <2>1, <2>2, <3>2 DEF ListDetects
  <2>3. PairOrTested(D) BY <1>1, <1>4, <2>1 DEF PairsTreated
  <2> QED BY <2>2, <2>3 DEF PairOrTested
<1>8. \A D \in Search!BlockedPairs : D \in todo' \/ Covered(netlist, D, SSAFPatterns, DSAFPatterns)
  BY <1>1, <1>4, <1>6 DEF PairsTreated, Covered
<1>9. PairsTreated' BY <1>1, <1>3, <1>5, <1>7, <1>8 DEF PairsTreated, LaterPhases
<1> QED BY <1>2, <1>9 DEF PairsInv

\* ... and generateDSATest finds the tests of the others that have one.
LEMMA TestingStep ==
  ASSUME PairsInv, SearchInv', UNCHANGED Search!ssaVars, NEW D \in todo, Search!generateDSATest(D)
  PROVE  PairsInv'
<1>1. /\ pc = "testDSA" /\ pc' = "testDSA" /\ todo' = todo \ {D}
      /\ potentiallyUndetected' = potentiallyUndetected
      /\ \/ Search!Detected(D, DSAFPatterns) /\ DSAFPatterns' = DSAFPatterns
         \/ \E t \in Search!DetectedBy(D) : DSAFPatterns' = Append(DSAFPatterns, t)
         \/ Search!DetectedBy(D) = {} /\ DSAFPatterns' = DSAFPatterns
  BY DEF Search!generateDSATest, Search!pathVars
<1>2. PatternsKnown /\ PairsTreated BY DEF PairsInv
<1>3. DSAFPatterns \in Seq([PIs -> Bit]) BY <1>2 DEF PatternsKnown
<1>4. (Search!BlockedPairs)' = Search!BlockedPairs BY <1>1, BlockedKept
<1>5. netlist' = netlist /\ SSAFPatterns' = SSAFPatterns BY DEF Search!ssaVars
<1>6. /\ DSAFPatterns' \in Seq([PIs -> Bit])
      /\ \A E : ListDetects(netlist, E, DSAFPatterns) => ListDetects(netlist, E, DSAFPatterns')
      /\ Covered(netlist, D, SSAFPatterns, DSAFPatterns')
  <2>1. CASE Search!Detected(D, DSAFPatterns) /\ DSAFPatterns' = DSAFPatterns
    BY <1>3, <2>1, TestsAsked DEF Covered
  <2>2. CASE Search!DetectedBy(D) = {} /\ DSAFPatterns' = DSAFPatterns
    BY <1>3, <2>2, TestsAsked DEF Covered
  <2>3. ASSUME NEW t \in Search!DetectedBy(D), DSAFPatterns' = Append(DSAFPatterns, t)
        PROVE  /\ DSAFPatterns' \in Seq([PIs -> Bit])
               /\ \A E : ListDetects(netlist, E, DSAFPatterns) => ListDetects(netlist, E, DSAFPatterns')
               /\ Covered(netlist, D, SSAFPatterns, DSAFPatterns')
    <3>1. t \in [PIs -> Bit] /\ RefDetects(netlist, D, t) BY <1>3, TestsAsked
    <3>2. DSAFPatterns' \in Seq([PIs -> Bit]) /\ ListDetects(netlist, D, DSAFPatterns')
      BY <1>3, <2>3, <3>1, ListGrows
    <3>3. ASSUME NEW E PROVE ListDetects(netlist, E, DSAFPatterns) => ListDetects(netlist, E, DSAFPatterns')
      BY <1>3, <2>3, <3>1, ListGrows
    <3> QED BY <3>2, <3>3 DEF Covered
  <2> QED BY <1>1, <2>1, <2>2, <2>3
<1>7. PatternsKnown' BY <1>1, <1>2, <1>6, PatternsStay DEF PatternsKnown
<1>8. \A E \in Search!BlockedPairs : E \in todo' \/ Covered(netlist, E, SSAFPatterns, DSAFPatterns')
  BY <1>1, <1>2, <1>6 DEF PairsTreated, Covered
<1>9. PairsTreated' BY <1>1, <1>2, <1>4, <1>5, <1>8 DEF PairsTreated, LaterPhases
<1> QED BY <1>7, <1>9 DEF PairsInv

\* That is the second phase.
LEMMA TestedStep ==
  ASSUME PairsInv, SearchInv', UNCHANGED Search!ssaVars, Search!generateDSATestDone
  PROVE  PairsInv'
<1>1. /\ pc = "testDSA" /\ pc' = "searchTSA" /\ todo = {}
      /\ potentiallyUndetected' = potentiallyUndetected /\ DSAFPatterns' = DSAFPatterns
  BY DEF Search!generateDSATestDone, Search!pathVars, Search!dsaVars
<1>2. PatternsKnown' BY <1>1, PatternsStay DEF PairsInv, PatternsKnown
<1>3. (Search!BlockedPairs)' = Search!BlockedPairs BY <1>1, BlockedKept
<1>4. netlist' = netlist /\ SSAFPatterns' = SSAFPatterns BY DEF Search!ssaVars
<1>5. \A D \in Search!BlockedPairs : Covered(netlist, D, SSAFPatterns, DSAFPatterns) BY <1>1 DEF PairsInv, PairsTreated
<1>6. PairsTreated' BY <1>1, <1>3, <1>4, <1>5 DEF PairsTreated, LaterPhases
<1> QED BY <1>2, <1>6 DEF PairsInv

\* Every step keeps the invariant ...
LEMMA PairsInvStep ==
  ASSUME PairsInv, [Search!Next]_(Search!vars)
  PROVE  PairsInv'
<1>1. SearchInv' BY SearchStep DEF PairsInv
<1>2. CASE UNCHANGED Search!vars
  <2>1. /\ UNCHANGED Search!ssaVars
        /\ pc' = pc /\ todo' = todo /\ potentiallyUndetected' = potentiallyUndetected
        /\ undetectedDSA' = undetectedDSA /\ DSAFPatterns' = DSAFPatterns
    BY <1>2 DEF Search!vars, Search!pathVars, Search!dsaVars
  <2>2. PatternsKnown' BY <2>1, PatternsStay DEF PairsInv, PatternsKnown
  <2>3. (Search!BlockedPairs)' = Search!BlockedPairs BY <2>1, BlockedKept
  <2>4. PairsTreated' BY <2>1, <2>3 DEF PairsInv, PairsTreated, PairOrTested, LaterPhases, Search!ssaVars
  <2> QED BY <1>1, <2>2, <2>4 DEF PairsInv
<1>3. CASE Search!Next
  <2>1. UNCHANGED Search!ssaVars BY <1>3, AllKeepTests
  <2>2. PatternsKnown /\ SearchInv BY DEF PairsInv
  <2>3. ASSUME NEW f \in todo, Search!SimulateSSA(f) PROVE PairsInv'
    <3>1. pc' = "blockSSA" /\ DSAFPatterns' = DSAFPatterns /\ potentiallyUndetected' = potentiallyUndetected
      BY <2>3 DEF Search!SimulateSSA, Search!Simulate, Search!pathVars, Search!dsaVars
    <3> QED BY <1>1, <2>1, <2>2, <3>1, FirstLoopStep DEF PatternsKnown
  <2>4. ASSUME NEW f \in todo, Search!findPotentialUndetectedDSAF(f) PROVE PairsInv'
    <3>1. /\ pc = "blockSSA" /\ pc' = "searchDSA" /\ DSAFPatterns' = DSAFPatterns
          /\ potentiallyUndetected' = Search!InsertedIfAny(potentiallyUndetected, f,
               Search!findBlockSSA(netlist, outValue, different, Search!listed, redundantSSAF, f))
      BY <2>4 DEF Search!findPotentialUndetectedDSAF, Search!dsaVars
    <3>2. f \in DOMAIN SSAFToPatterns BY <2>2, <3>1 DEF SearchInv, SinglesRecorded
    <3>3. DOMAIN potentiallyUndetected' \subseteq DOMAIN potentiallyUndetected \cup {f}
      BY <3>1 DEF Search!InsertedIfAny, Search!Inserted
    <3> QED BY <1>1, <2>1, <2>2, <3>1, <3>2, <3>3, FirstLoopStep DEF PatternsKnown
  <2>5. ASSUME NEW f \in todo, Search!SimulateSSAAgain(f) PROVE PairsInv'
    BY <1>1, <2>1, <2>5, LaterStep
    DEF Search!SimulateSSAAgain, Search!Simulate, Search!pathVars, Search!dsaVars, LaterPhases
  <2>6. ASSUME NEW f \in todo, Search!findSSABlockedByDSA(f) PROVE PairsInv'
    BY <1>1, <2>1, <2>6, LaterStep DEF Search!findSSABlockedByDSA, Search!pathVars, Search!dsaVars, LaterPhases
  <2>7. ASSUME NEW D \in todo, Search!generateDSATest(D) PROVE PairsInv' BY <1>1, <2>1, <2>7, TestingStep
  <2>8. ASSUME NEW D \in todo, Search!SimulateDSA(D) PROVE PairsInv'
    BY <1>1, <2>1, <2>8, LaterStep
    DEF Search!SimulateDSA, Search!Simulate, Search!pathVars, Search!dsaVars, LaterPhases
  <2>9. ASSUME NEW D \in todo, Search!findDSABlockedbySSA(D) PROVE PairsInv'
    BY <1>1, <2>1, <2>9, LaterStep DEF Search!findDSABlockedbySSA, Search!pathVars, Search!dsaVars, LaterPhases
  <2>10. ASSUME NEW T \in todo, Search!generateTSATest(T) PROVE PairsInv'
    BY <1>1, <2>1, <2>10, LaterStep DEF Search!generateTSATest, Search!pathVars, Search!dsaVars, LaterPhases
  <2>11. CASE Search!pairUndetectedDSAF BY <1>1, <2>1, <2>11, PairingStep
  <2>12. CASE Search!compressUndetectedDSAF BY <1>1, <2>1, <2>12, CompressionStep
  <2>13. CASE Search!generateDSATestDone BY <1>1, <2>1, <2>13, TestedStep
  <2>14. CASE Search!findSSABlockedByDSADone
    BY <1>1, <2>1, <2>14, LaterStep DEF Search!findSSABlockedByDSADone, Search!pathVars, Search!dsaVars, LaterPhases
  <2>15. CASE Search!pairUndetectedTSAF
    BY <1>1, <2>1, <2>15, LaterStep DEF Search!pairUndetectedTSAF, Search!pathVars, Search!dsaVars, LaterPhases
  <2>16. CASE Search!generateTSATestDone
    BY <1>1, <2>1, <2>16, LaterStep DEF Search!generateTSATestDone, Search!pathVars, Search!dsaVars, LaterPhases
  <2> QED
    BY <1>3, <2>3, <2>4, <2>5, <2>6, <2>7, <2>8, <2>9, <2>10, <2>11, <2>12, <2>13, <2>14, <2>15, <2>16 DEF Search!Next
<1> QED BY <1>2, <1>3

\* ... so it holds of every run.
LEMMA PairsInvariant ==
  Search!Spec => []PairsInv
<1>1. Search!Init => PairsInv BY PairsInitially
<1>2. PairsInv /\ [Search!Next]_(Search!vars) => PairsInv' BY PairsInvStep
<1> QED BY <1>1, <1>2, PTL DEF Search!Spec

-----------------------------------------------------------------------------
\* generateDSATest gets pairs only.
LEMMA PairsOnly ==
  PairsInv => Search!OnlyPairsTested
BY SameCardinality DEF PairsInv, PairsTreated, Search!OnlyPairsTested

\* Faults that hold the same lines at the same values are the same to a circuit.
LEMMA SameHeld ==
  ASSUME NEW net, WellFormed(net), NEW F, NEW G, NEW p \in [PIs -> Bit],
         \A g, r, v : Line(F, g, r, v) = Line(G, g, r, v)
  PROVE  \A h \in GateID : RefValue(net, F, p)[h] = RefValue(net, G, p)[h]
<1> DEFINE S == {h \in GateID : RefValue(net, F, p)[h] = RefValue(net, G, p)[h]}
<1>1. ASSUME NEW h \in GateID, \A k \in GateID : k < h => k \in S PROVE h \in S
  <2>1. PICK v, w : v = RefValue(net, F, p) /\ w = RefValue(net, G, p) OBVIOUS
  <2>2. v[h] = RefOut(net, F, p, v, h) /\ w[h] = RefOut(net, G, p, w, h) BY <2>1, RefValueEquation
  <2>3. \A j \in Fanins(net, h) : v[j] = w[j] BY <1>1, <2>1, FaninsPrecede
  <2>4. RefOut(net, F, p, v, h) = RefOut(net, F, p, w, h) BY <2>1, <2>3, RefOutLocal
  <2>5. RefOut(net, F, p, w, h) = RefOut(net, G, p, w, h) BY DEF RefOut
  <2> QED BY <2>1, <2>2, <2>4, <2>5
<1> HIDE DEF S
<1>2. \A h \in GateID : h \in S BY <1>1, GateInduction
<1> QED BY <1>2 DEF S

\* Two stuck-at faults on one line are the later one, stuck-at 1.
LEMMA OneLine ==
  ASSUME NEW D, NEW z \in D, \A x \in D : faultGate(x) = faultGate(z) /\ faultPort(x) = faultPort(z),
         D = {z} \/ faultStuckat(z) = 1, faultStuckat(z) \in Bit, NEW g, NEW r, NEW v
  PROVE  Line(D, g, r, v) = Line({z}, g, r, v)
<1>1. CASE g = faultGate(z) /\ r = faultPort(z)
  <2>1. faultStuckat(z) \in StuckValues(D, g, r) BY <1>1 DEF StuckValues
  <2>2. StuckValues({z}, g, r) = {faultStuckat(z)} BY <1>1 DEF StuckValues
  <2>3. CASE faultStuckat(z) = 1 BY <2>1, <2>2, <2>3 DEF Line, Held
  <2> QED BY <2>3
<1>2. CASE ~ (g = faultGate(z) /\ r = faultPort(z))
  <2>1. StuckValues(D, g, r) = {} /\ StuckValues({z}, g, r) = {} BY <1>2 DEF StuckValues
  <2> QED BY <2>1 DEF Line
<1> QED BY <1>1, <1>2

\* So the pair is detected by the test of that one.
LEMMA OneLineTested ==
  ASSUME NEW net, WellFormed(net), NEW D, NEW z \in D,
         \A x \in D : faultGate(x) = faultGate(z) /\ faultPort(x) = faultPort(z),
         D = {z} \/ faultStuckat(z) = 1, faultStuckat(z) \in Bit, NEW p \in [PIs -> Bit], RefDetects(net, {z}, p)
  PROVE  RefDetects(net, D, p)
<1>1. \A g, r, v : Line(D, g, r, v) = Line({z}, g, r, v) BY OneLine
<1>2. \A h \in GateID : RefValue(net, D, p)[h] = RefValue(net, {z}, p)[h] BY <1>1, SameHeld
<1>3. POs \subseteq GateID BY SizeAssumption DEF POs, GateID, Size
<1> QED BY <1>2, <1>3 DEF RefDetects

\* A testable fault of the collapsed list has a test.
LEMMA TestableTested ==
  ASSUME PairsInv, Search!FanoutFree, NEW f \in collapsedSSAFList(netlist), Search!Testable({f})
  PROVE  f \in DOMAIN SSAFToPatterns \cap Search!listed
<1>1. TestsGiven /\ SSAFPatterns \in Seq([PIs -> Bit]) BY DEF PairsInv, SearchInv, PatternsKnown
<1>2. PICK t \in [PIs -> Bit] : RefDetects(netlist, {f}, t) BY <1>1, TestsAsked DEF Search!Testable
<1>3. f \notin redundantSSAF BY <1>1, <1>2 DEF TestsGiven, Never
<1>4. f \in allSSAFList(netlist) BY DEF collapsedSSAFList, allSSAFList, BinaryTypes
<1>5. f \in Search!listed BY SameValuesSearched DEF Search!listed
<1> QED BY <1>1, <1>3, <1>4, <1>5 DEF TestsGiven

\* Two faults on one line are found by the given patterns.
LEMMA SameLinePairs ==
  ASSUME PairsInv, Search!FanoutFree,
         NEW x \in DOMAIN SSAFToPatterns \cap Search!listed, NEW y \in DOMAIN SSAFToPatterns \cap Search!listed,
         faultGate(x) = faultGate(y) /\ faultPort(x) = faultPort(y)
  PROVE  ListDetects(netlist, {x, y}, SSAFPatterns)
<1>1. TestsGiven /\ PatternsKnown /\ SearchInv BY DEF PairsInv, SearchInv
<1>2. PICK a, q, u : x = FaultID(a, q, u) /\ Tested(netlist, a, q, u, SSAFToPatterns[x]) BY <1>1, ListedTested
<1>3. PICK b, r, v : y = FaultID(b, r, v) /\ Tested(netlist, b, r, v, SSAFToPatterns[y]) BY <1>1, ListedTested
<1>4. faultGate(x) = a /\ faultPort(x) = q /\ faultStuckat(x) = u /\ u \in Bit BY <1>2, FaultDecoded DEF Tested
<1>5. faultGate(y) = b /\ faultPort(y) = r /\ faultStuckat(y) = v /\ v \in Bit BY <1>3, FaultDecoded DEF Tested
<1>6. PICK z \in {x, y} : {x, y} = {z} \/ faultStuckat(z) = 1
  <2>1. CASE u = 1 BY <1>4, <2>1
  <2>2. CASE v = 1 BY <1>5, <2>2
  <2>3. CASE u = 0 /\ v = 0 BY <1>2, <1>3, <1>4, <1>5, <2>3
  <2> QED BY <1>4, <1>5, <2>1, <2>2, <2>3 DEF Bit
<1>7. faultStuckat(z) \in Bit BY <1>4, <1>5
<1>8. PICK i \in 1 .. Len(SSAFPatterns) : SSAFToPatterns[z] = SSAFPatterns[i] BY <1>1 DEF PatternsKnown
<1>9. SSAFPatterns[i] \in [PIs -> Bit] /\ RefDetects(netlist, {z}, SSAFPatterns[i]) BY <1>1, <1>8 DEF TestsGiven
<1>10. RefDetects(netlist, {x, y}, SSAFPatterns[i]) BY <1>1, <1>6, <1>7, <1>9, OneLineTested DEF TestsGiven
<1> QED BY <1>10 DEF ListDetects

\* Faults on different lines that no given pattern finds together hide each
\* other from their tests.
LEMMA HiddenTogether ==
  ASSUME PairsInv, Search!FanoutFree, pc \notin {"searchDSA", "blockSSA"},
         NEW x \in DOMAIN SSAFToPatterns \cap Search!listed, NEW y \in DOMAIN SSAFToPatterns \cap Search!listed,
         ~ (faultGate(x) = faultGate(y) /\ faultPort(x) = faultPort(y)), ~ ListDetects(netlist, {x, y}, SSAFPatterns)
  PROVE  x \in DOMAIN potentiallyUndetected /\ y \in potentiallyUndetected[x]
<1>1. TestsGiven /\ PatternsKnown /\ SearchInv BY DEF PairsInv, SearchInv
<1>2. PICK i \in 1 .. Len(SSAFPatterns) : SSAFToPatterns[x] = SSAFPatterns[i] BY <1>1 DEF PatternsKnown
<1>3. ~ RefDetects(netlist, {x, y}, SSAFToPatterns[x]) BY <1>2 DEF ListDetects
<1>4. {y} \cup {x} = {x, y} OBVIOUS
<1>5. Search!HiddenBy(x, {y}) BY <1>3, <1>4, HiddenIs
<1>6. y \in Search!OtherLines(x) BY OtherLinesAre
<1>7. y \in Recorded(potentiallyUndetected, x) BY <1>1, <1>5, <1>6, RecordedExactly
<1> QED BY <1>7 DEF Recorded

\* After the second phase every testable pair of testable faults has a test.
LEMMA PairsHaveTests ==
  PairsInv /\ Search!FanoutFree => Search!TestableDSACovered
<1> SUFFICES ASSUME PairsInv, Search!FanoutFree, pc = "done",
                    NEW P \in Search!Pairs(Search!collapsedSSAFList(netlist), Search!collapsedSSAFList(netlist)),
                    \A f \in P : Search!Testable({f}), Search!Testable(P)
             PROVE  Search!Detected(P, SSAFPatterns \o DSAFPatterns)
  BY DEF Search!TestableDSACovered
<1>1. SSAFPatterns \in Seq([PIs -> Bit]) /\ DSAFPatterns \in Seq([PIs -> Bit]) /\ PairsTreated
  BY DEF PairsInv, PatternsKnown
<1>2. PICK x \in collapsedSSAFList(netlist), y \in collapsedSSAFList(netlist) : P = {x, y}
  BY SameValuesSearched DEF Search!Pairs
<1>3. x \in DOMAIN SSAFToPatterns \cap Search!listed /\ y \in DOMAIN SSAFToPatterns \cap Search!listed
  BY <1>2, TestableTested
<1>4. PICK t \in [PIs -> Bit] : RefDetects(netlist, P, t) BY <1>1, TestsAsked DEF Search!Testable
<1>5. ListDetects(netlist, P, SSAFPatterns) \/ ListDetects(netlist, P, DSAFPatterns)
  <2>1. CASE faultGate(x) = faultGate(y) /\ faultPort(x) = faultPort(y) BY <1>2, <1>3, <2>1, SameLinePairs
  <2>2. CASE ~ (faultGate(x) = faultGate(y) /\ faultPort(x) = faultPort(y)) /\ ~ ListDetects(netlist, P, SSAFPatterns)
    <3>1. x \in DOMAIN potentiallyUndetected /\ y \in potentiallyUndetected[x] BY <1>2, <1>3, <2>2, HiddenTogether
    <3>2. y \in DOMAIN potentiallyUndetected /\ x \in potentiallyUndetected[y]
      <4>1. {x, y} = {y, x} OBVIOUS
      <4> QED BY <1>2, <1>3, <2>2, <4>1, HiddenTogether
    <3>3. P \in Search!BlockedPairs
      <4>1. P \in Search!Pairs(DOMAIN potentiallyUndetected, Search!listed) BY <1>2, <1>3, <3>1 DEF Search!Pairs
      <4> QED BY <1>2, <3>1, <3>2, <4>1 DEF Search!BlockedPairs
    <3> QED BY <1>1, <1>4, <3>3 DEF PairsTreated, LaterPhases, Covered
  <2> QED BY <2>1, <2>2
<1>6. /\ SSAFPatterns \o DSAFPatterns \in Seq([PIs -> Bit])
      /\ ListDetects(netlist, P, SSAFPatterns \o DSAFPatterns)
  BY <1>1, <1>5, ListsJoined
<1> QED BY <1>6, TestsAsked

-----------------------------------------------------------------------------
\* generateDSATest gets pairs only, on every circuit.
THEOREM OnlyPairsReachSolver == Search!Spec => []Search!OnlyPairsTested
<1>1. Search!Spec => []PairsInv BY PairsInvariant
<1>2. PairsInv => Search!OnlyPairsTested BY PairsOnly
<1> QED BY <1>1, <1>2, PTL

PairsDecided ==
  pc \in LaterPhases => \A D \in Search!BlockedPairs : Covered(netlist, D, SSAFPatterns, DSAFPatterns)

\* On every circuit, the second phase ends with a test for every pair that
\* pairUndetectedDSAF lists from the searches, or there is none.
THEOREM ListedPairsDecided == Search!Spec => []PairsDecided
<1>1. Search!Spec => []PairsInv BY PairsInvariant
<1>2. PairsInv => PairsDecided BY DEF PairsInv, PairsTreated, PairsDecided
<1> QED BY <1>1, <1>2, PTL

\* On a circuit without fanout, the second phase leaves no testable pair of
\* testable faults of the collapsed list without a test.
THEOREM PairsCovered == Search!Spec => [](Search!FanoutFree => PairsSettled)
<1>1. Search!Spec => []PairsInv BY PairsInvariant
<1>2. PairsInv => (Search!FanoutFree => PairsSettled) BY PairsOnly, PairsHaveTests DEF PairsSettled, Search!PairsSettled
<1> QED BY <1>1, <1>2, PTL

-----------------------------------------------------------------------------
(***************************************************************************)
(* The third phase: what the search for pairs that hide a fault lists are  *)
(* other faults, so that every triple it makes has three.                  *)
(***************************************************************************)
\* The backward walk stays in the cone of its gate.
LEMMA WalkedInCone ==
  ASSUME NEW net, WellFormed(net), NEW out
  PROVE  \A g \in GateID : Search!WalkedGates(net, out, g) \subseteq FaninCone(net, g)
<1> DEFINE S == {g \in GateID : Search!WalkedGates(net, out, g) \subseteq FaninCone(net, g)}
<1>1. ASSUME NEW g \in GateID, \A h \in GateID : h < g => h \in S PROVE g \in S
  <2>1. ASSUME NEW r \in Search!WalkedPorts(net, out, g)
        PROVE  Search!WalkedGates(net, out, InputOf(net, g, r)) \subseteq FaninCone(net, g)
    <3>1. r \in GateInputs(net, g) BY WalkedInputs
    <3>2. PICK j : j = InputOf(net, g, r) OBVIOUS
    <3>3. j \in Fanins(net, g) BY <3>1, <3>2, LinesOf
    <3>4. j \in GateID /\ j < g BY <3>3, FaninsPrecede
    <3>5. j \in FaninCone(net, g) BY <3>3, ConeClosed
    <3>6. FaninCone(net, j) \subseteq FaninCone(net, g) BY <3>5, ConeTransitive
    <3> QED BY <1>1, <3>2, <3>4, <3>6
  <2>2. Search!WalkedGates(net, out, g) =
          {g} \cup UNION {Search!WalkedGates(net, out, InputOf(net, g, p)) : p \in Search!WalkedPorts(net, out, g)}
    BY WalkedEquation
  <2>3. g \in FaninCone(net, g) BY ConeClosed
  <2> QED BY <2>1, <2>2, <2>3
<1> HIDE DEF S
<1>2. \A g \in GateID : g \in S BY <1>1, GateInduction
<1> QED BY <1>2 DEF S

\* The faults it meets at a gate sit there.
LEMMA FoundSits ==
  ASSUME NEW net, WellFormed(net), NEW p \in [PIs -> Bit], NEW diff, NEW h \in GateID, NEW x,
         x \in Search!FaultsIn(net, RefValue(net, {}, p), diff, h)
  PROVE  faultGate(x) = h
<1>1. PICK out : out = RefValue(net, {}, p) OBVIOUS
<1>4. net[h] \in Gate /\ \A r : Flag(net, h, r) \in Bit BY LinesOf
<1>5. ASSUME NEW r \in GateInputs(net, h) PROVE out[InputOf(net, h, r)] \in Bit
  <2>1. LineValue(net, {}, p, h, r) \in Bit BY LinesOf
  <2> QED BY <1>1, <2>1, GoodLine
<1>6. ASSUME NEW r \in Search!WalkedPorts(net, out, h)
      PROVE  r \in {1, 2, 3} /\ Search!StuckatToInvert(net, out, h, r) \in Bit
  <2>1. r \in GateInputs(net, h) BY WalkedInputs
  <2>2. Search!Inverse(out[InputOf(net, h, r)]) \in Bit BY <1>5, <2>1, SameLinesSearched, Opposites
  <2>3. net[h].invIn1 \in Bit /\ Search!Inverse(net[h].invIn1) \in Bit BY <1>4, SameLinesSearched, Opposites DEF Gate
  <2> QED BY <2>1, <2>2, <2>3, InputPorts, SameLinesSearched DEF Search!StuckatToInvert
<1>7. CASE x \in {Search!FaultID(h, r, Search!StuckatToInvert(net, out, h, r)) : r \in Search!WalkedPorts(net, out, h)}
  <2>1. PICK r \in Search!WalkedPorts(net, out, h) : x = FaultID(h, r, Search!StuckatToInvert(net, out, h, r))
    BY <1>7, SameGatesSearched
  <2> QED BY <1>6, <2>1, FaultDecoded
<1>8. CASE x \in {Search!FaultID(h, r, Search!InvOf(net, h, r)) : r \in {1, 2}}
  <2>1. PICK r \in {1, 2} : x = FaultID(h, r, Flag(net, h, r)) BY <1>8, SameLinesSearched, SameGatesSearched
  <2> QED BY <1>4, <2>1, FaultDecoded
<1> QED BY <1>1, <1>7, <1>8 DEF Search!FaultsIn

\* The pairs found from a gate are listed faults in its cone.
LEMMA HelperInCone ==
  ASSUME NEW net, WellFormed(net), NEW p \in [PIs -> Bit], NEW diff, NEW list, NEW g \in GateID,
         NEW D \in Search!findBlockDSADFS_helper(net, RefValue(net, {}, p), diff, list, g), NEW x \in D
  PROVE  x \in list /\ faultGate(x) \in FaninCone(net, g)
<1>1. PICK out : out = RefValue(net, {}, p) OBVIOUS
<1> DEFINE release(h, r) == (list \cap {Search!FaultID(h, r, Search!Inverse(Search!InValue(net, out, h, r)))}) \cup
                            Search!sameFaultCurToPI(net, out, diff, list, Search!FaninOf(net, h, r))
<1>2. PICK h \in Search!WalkedGates(net, out, g), r \in {1, 2} : net[h].gateType = "aig" /\ x \in release(h, r)
  <2>1. PICK h \in Search!WalkedGates(net, out, g) :
          net[h].gateType = "aig" /\ D \in Search!Pairs(release(h, 1), release(h, 2))
    BY <1>1 DEF Search!findBlockDSADFS_helper
  <2> HIDE DEF release
  <2> QED BY <2>1 DEF Search!Pairs
<1>3. h \in FaninCone(net, g) /\ h \in GateID BY <1>2, WalkedInCone, ConeClosed
<1>4. PICK j : j = InputOf(net, h, r) OBVIOUS
<1>5. r \in GateInputs(net, h) BY <1>2 DEF GateInputs
<1>6. j \in Fanins(net, h) BY <1>3, <1>4, <1>5, LinesOf
<1>7. j \in GateID /\ j \in FaninCone(net, g) BY <1>3, <1>6, ConeClosed, FaninsPrecede
<1>8. x \in list BY <1>2 DEF Search!sameFaultCurToPI
<1>9. CASE x = FaultID(h, r, Opposite(out[j]))
  <2>1. LineValue(net, {}, p, h, r) \in Bit BY <1>3, <1>5, LinesOf
  <2>2. out[j] \in Bit BY <1>1, <1>4, <2>1, GoodLine
  <2>3. Opposite(out[j]) \in Bit BY <2>2, Opposites
  <2> QED BY <1>3, <1>8, <1>9, <2>3, FaultDecoded
<1>10. CASE x \in Search!sameFaultCurToPI(net, out, diff, list, j)
  <2>1. PICK i \in Search!WalkedGates(net, out, j) : x \in Search!FaultsIn(net, out, diff, i)
    BY <1>10 DEF Search!sameFaultCurToPI
  <2>2. i \in FaninCone(net, j) /\ i \in GateID BY <1>7, <2>1, WalkedInCone, ConeClosed
  <2>3. faultGate(x) = i BY <1>1, <2>1, <2>2, FoundSits
  <2>4. FaninCone(net, j) \subseteq FaninCone(net, g) BY <1>7, ConeTransitive
  <2> QED BY <1>8, <2>2, <2>3, <2>4
<1> QED BY <1>2, <1>4, <1>9, <1>10, SameGatesSearched, SameLinesSearched

\* A fault is in no pair that the search finds for it.
LEMMA PairsElsewhere ==
  ASSUME NEW net, NEW a, NEW q, NEW u, NEW p, Tested(net, a, q, u, p), NEW list,
         NEW D \in Search!findBlockDSA(net, RefValue(net, {}, p), Search!Marks(net, {FaultID(a, q, u)}, p), list,
                                       FaultID(a, q, u))
  PROVE  FaultID(a, q, u) \notin D
<1>1. WellFormed(net) /\ p \in [PIs -> Bit] BY DEF Tested
<1>2. PICK f, diff : f = FaultID(a, q, u) /\ diff = Search!Marks(net, {f}, p) OBVIOUS
<1>3. MarkedPath(net, a, diff) BY <1>2, SimulationMarks
<1>4. PICK s \in Search!Steps(net, diff, f) :
        /\ net[s[1]].gateType = "aig"
        /\ D \in Search!findBlockDSADFS_helper(net, RefValue(net, {}, p), diff, list,
                   Search!FaninOf(net, s[1], Search!SidePort(net, s[1], s[2])))
  BY <1>2 DEF Search!findBlockDSA
<1>5. PICK h, r : StepAt(net, a, q, h, r) /\ s = <<h, InputOf(net, h, r)>> BY <1>2, <1>3, <1>4, StepTaken
<1>6. h \in GateID /\ r \in GateInputs(net, h) /\ a \in FaninCone(net, h) /\ EntersBy(net, a, q, h, r) BY <1>5 DEF StepAt
<1>7. s[1] = h /\ s[2] = InputOf(net, h, r) BY <1>5
<1>8. PICK k : k = 3 - r OBVIOUS
<1>9. r \in {1, 2} /\ GateInputs(net, h) = {1, 2} BY <1>4, <1>6, <1>7 DEF GateInputs
<1>10. k \in {1, 2} /\ k # r BY <1>8, <1>9
<1>11. Search!SidePort(net, h, InputOf(net, h, r)) = k BY <1>1, <1>6, <1>8, PortsAre DEF Tested
<1>12. D \in Search!findBlockDSADFS_helper(net, RefValue(net, {}, p), diff, list, InputOf(net, h, k))
  BY <1>4, <1>7, <1>11, SameLinesSearched
<1>13. InputOf(net, h, k) \in GateID /\ a \notin FaninCone(net, InputOf(net, h, k)) BY <1>6, <1>9, <1>10, SideOfPath
<1>14. \A x \in D : faultGate(x) \in FaninCone(net, InputOf(net, h, k)) BY <1>1, <1>12, <1>13, HelperInCone
<1>15. faultGate(FaultID(a, q, u)) = a BY TestedFault
<1> QED BY <1>13, <1>14, <1>15

\* Pairs of listed faults.
IsPair(D) == \E x, y : D = {x, y}
TwoFaults(D) == \E x, y : x # y /\ D = {x, y}

\* They are two faults when counted so.
LEMMA TwoCounted ==
  ASSUME NEW D, IsPair(D)
  PROVE  /\ TwoFaults(D) <=> Cardinality(D) = 2
         /\ \A f : TwoFaults(D) /\ f \notin D => Cardinality({f} \cup D) = 3
<1>1. PICK x, y : D = {x, y} BY DEF IsPair
<1>2. IsFiniteSet({x}) /\ Cardinality({x}) = 1 BY FS_Singleton
<1>3. CASE x = y
  <2>1. D = {x} BY <1>1, <1>3
  <2>2. ~ TwoFaults(D) BY <2>1 DEF TwoFaults
  <2> QED BY <1>2, <2>1, <2>2
<1>4. CASE x # y
  <2>1. IsFiniteSet({x} \cup {y}) /\ Cardinality({x} \cup {y}) = 2 BY <1>2, <1>4, FS_AddElement
  <2>2. D = {x} \cup {y} BY <1>1
  <2>3. TwoFaults(D) BY <1>1, <1>4 DEF TwoFaults
  <2>4. IsFiniteSet(D) /\ Cardinality(D) = 2 BY <2>1, <2>2
  <2>5. ASSUME NEW f, f \notin D PROVE Cardinality({f} \cup D) = 3
    <3>1. Cardinality(D \cup {f}) = 3 BY <2>4, <2>5, FS_AddElement
    <3>2. D \cup {f} = {f} \cup D OBVIOUS
    <3> QED BY <3>1, <3>2
  <2> QED BY <2>3, <2>4, <2>5
<1> QED BY <1>3, <1>4

\* The search for pairs returns pairs of the faults it is given.
LEMMA HelperLists ==
  ASSUME NEW net, NEW out, NEW diff, NEW list, NEW g, NEW D \in Search!findBlockDSADFS_helper(net, out, diff, list, g)
  PROVE  IsPair(D) /\ D \subseteq list
<1> DEFINE release(h, r) == (list \cap {Search!FaultID(h, r, Search!Inverse(Search!InValue(net, out, h, r)))}) \cup
                            Search!sameFaultCurToPI(net, out, diff, list, Search!FaninOf(net, h, r))
<1>1. PICK h : D \in Search!Pairs(release(h, 1), release(h, 2)) BY DEF Search!findBlockDSADFS_helper
<1>2. \A i, r : release(i, r) \subseteq list BY DEF Search!sameFaultCurToPI
<1> HIDE DEF release
<1>3. PICK x \in release(h, 1), y \in release(h, 2) : D = {x, y} BY <1>1 DEF Search!Pairs
<1>4. x \in list /\ y \in list BY <1>2, <1>3
<1> QED BY <1>3, <1>4 DEF IsPair

\* So does the search for the pairs that hide a fault.
LEMMA PairsListed ==
  ASSUME NEW net, NEW out, NEW diff, NEW list, NEW f, NEW D \in Search!findBlockDSA(net, out, diff, list, f)
  PROVE  IsPair(D) /\ D \subseteq list
<1>1. PICK g : D \in Search!findBlockDSADFS_helper(net, out, diff, list, g) BY DEF Search!findBlockDSA
<1> QED BY <1>1, HelperLists

\* Without fanout there are no two paths to close.
LEMMA OnePathOnly ==
  ASSUME Search!FanoutFree, NEW path, NEW blockedIn
  PROVE  Search!blockFaultInTwoPaths(netlist, path, blockedIn) = {}
<1>1. \A g \in GateID : fanoutSize(netlist, g) <= 1 BY SameGatesSearched, SameValuesSearched DEF Search!FanoutFree
<1>2. Search!twoFanoutGates(netlist) = {} BY <1>1, SameGatesSearched, SameValuesSearched DEF Search!twoFanoutGates
<1> QED BY <1>2 DEF Search!blockFaultInTwoPaths

\* A pair that is recorded for a fault is of other faults.
LEMMA RecordedApart ==
  ASSUME SearchInv, Search!FanoutFree, NEW f \in DOMAIN SSAFToPatterns, NEW D,
         D \in Search!findBlockDSA(netlist, RefValue(netlist, {}, SSAFToPatterns[f]),
                 Search!Marks(netlist, {f}, SSAFToPatterns[f]), Search!listed, f)
  PROVE  IsPair(D) /\ f \notin D
<1>1. IsPair(D) /\ D \subseteq Search!listed BY PairsListed
<1>2. CASE f \notin Search!listed BY <1>1, <1>2
<1>3. CASE f \in Search!listed
  <2>1. PICK a, q, u : f = FaultID(a, q, u) /\ Tested(netlist, a, q, u, SSAFToPatterns[f]) BY <1>3, ListedTested
  <2>2. PICK p, list : p = SSAFToPatterns[f] /\ list = Search!listed OBVIOUS
  <2>3. Tested(netlist, a, q, u, p) BY <2>1, <2>2
  <2>4. D \in Search!findBlockDSA(netlist, RefValue(netlist, {}, p), Search!Marks(netlist, {FaultID(a, q, u)}, p),
                list, FaultID(a, q, u))
    BY <2>1, <2>2
  <2>5. FaultID(a, q, u) \notin D BY <2>3, <2>4, PairsElsewhere
  <2> QED BY <1>1, <2>1, <2>5
<1> QED BY <1>2, <1>3

\* In a circuit without fanout, no fault is listed as one that hides itself.
LEMMA BlockedTwo ==
  ASSUME PairsInv, Search!FanoutFree, pc = "compressDSA", NEW D \in Search!BlockedPairs
  PROVE  TwoFaults(D)
<1>1. SearchInv /\ PatternsKnown BY DEF PairsInv
<1>2. PICK x \in DOMAIN potentiallyUndetected, y \in Search!listed :
        /\ D = {x, y}
        /\ \E f, g \in D : D = {f, g} /\ f \in DOMAIN potentiallyUndetected /\ g \in potentiallyUndetected[f]
  BY DEF Search!BlockedPairs, Search!Pairs
<1>3. CASE x # y BY <1>2, <1>3 DEF TwoFaults
<1>4. CASE x = y
  <2>1. x \in potentiallyUndetected[x] BY <1>2, <1>4
  <2>2. x \in DOMAIN SSAFToPatterns \cap Search!listed BY <1>1, <1>2, <1>4 DEF PatternsKnown
  <2>3. {g \in Search!OtherLines(x) : Search!HiddenBy(x, {g})} = Recorded(potentiallyUndetected, x)
    BY <1>1, <2>2, RecordedExactly
  <2>4. x \in Search!OtherLines(x) BY <1>2, <2>1, <2>3 DEF Recorded
  <2> QED BY <2>4, OtherLinesAre
<1> QED BY <1>3, <1>4

\* On a circuit without fanout the maps of the third phase are about pairs, and
\* of other faults than the one they go with.
MapsOfPairs ==
  Search!FanoutFree =>
    /\ \A D \in DOMAIN DSAFToPatterns : TwoFaults(D)
    /\ \A f \in DOMAIN SSAToblockDSA : \A D \in SSAToblockDSA[f] : IsPair(D) /\ f \notin D
    /\ \A D \in DOMAIN DSAToblockSSA : TwoFaults(D) /\ \A f \in DSAToblockSSA[D] : f \notin D

\* What the phases go through are pairs.
LoopsOverPairs ==
  /\ pc = "compressDSA" => \A D \in undetectedDSA : D \in Search!BlockedPairs \/ TwoFaults(D)
  /\ pc = "testDSA" => todo \subseteq undetectedDSA /\ (Search!FanoutFree => \A D \in undetectedDSA : TwoFaults(D))
  /\ pc \in {"searchDSAToSSA", "blockSSAOfDSA"} => todo \subseteq DOMAIN DSAFToPatterns

\* A triple has a test, or is known to have none.
Settled(net, T, list, never) ==
  ListDetects(net, T, list) \/ (T \in never /\ \A t \in [PIs -> Bit] : ~ RefDetects(net, T, t))

TriplesTreated ==
  /\ TSAFPatterns \in Seq([PIs -> Bit])
  /\ pc = "testTSA" => \A T \in undetectedTSA : T \in todo \/ Settled(netlist, T, TSAFPatterns, redundantTSAFList)
  /\ pc = "done" => \A T \in undetectedTSA : Settled(netlist, T, TSAFPatterns, redundantTSAFList)
  /\ pc \in {"testTSA", "done"} /\ Search!FanoutFree => \A T \in undetectedTSA : Cardinality(T) = 3

TriplesInv == PairsInv /\ MapsOfPairs /\ LoopsOverPairs /\ TriplesTreated

\* At first the maps are empty.
LEMMA TriplesInitially ==
  ASSUME Search!Init
  PROVE  TriplesInv
<1>1. PairsInv BY PairsInitially
<1>2. /\ pc = "searchDSA" /\ TSAFPatterns = << >>
      /\ DSAFToPatterns = Search!EmptyMap /\ SSAToblockDSA = Search!EmptyMap /\ DSAToblockSSA = Search!EmptyMap
  BY DEF Search!Init
<1>3. DOMAIN DSAFToPatterns = {} /\ DOMAIN SSAToblockDSA = {} /\ DOMAIN DSAToblockSSA = {} BY <1>2 DEF Search!EmptyMap
<1>4. TriplesTreated BY <1>2 DEF TriplesTreated
<1> QED BY <1>1, <1>2, <1>3, <1>4 DEF TriplesInv, MapsOfPairs, LoopsOverPairs

\* The circuit stays without fanout.
LEMMA FanoutKept ==
  ASSUME UNCHANGED Search!ssaVars
  PROVE  (Search!FanoutFree)' <=> Search!FanoutFree
BY DEF Search!FanoutFree, Search!ssaVars

\* The maps stay.
LEMMA MapsKept ==
  ASSUME TriplesInv, UNCHANGED Search!ssaVars, UNCHANGED Search!blockVars, DSAFToPatterns' = DSAFToPatterns
  PROVE  MapsOfPairs'
BY FanoutKept DEF TriplesInv, MapsOfPairs, Search!blockVars

\* Before the triples are listed nothing is said of them.
LEMMA NoTriplesYet ==
  ASSUME TriplesInv, TSAFPatterns' = TSAFPatterns, pc' \notin {"testTSA", "done"}
  PROVE  TriplesTreated'
BY DEF TriplesInv, TriplesTreated

\* Between the loops over pairs.
LEMMA BetweenStep ==
  ASSUME TriplesInv, PairsInv', UNCHANGED Search!ssaVars, UNCHANGED Search!blockVars, UNCHANGED Search!tsaVars,
         DSAFToPatterns' = DSAFToPatterns,
         \/ pc' \in {"searchDSA", "blockSSA", "searchTSA", "blockDSA"}
         \/ pc' \in {"searchDSAToSSA", "blockSSAOfDSA"} /\ todo' \subseteq DOMAIN DSAFToPatterns
  PROVE  TriplesInv'
<1>1. MapsOfPairs' BY MapsKept
<1>2. TriplesTreated' BY NoTriplesYet DEF Search!tsaVars
<1>3. LoopsOverPairs' BY DEF LoopsOverPairs
<1> QED BY <1>1, <1>2, <1>3 DEF TriplesInv

-----------------------------------------------------------------------------
\* The second phase: what is listed, ...
LEMMA PairingKeeps ==
  ASSUME TriplesInv, PairsInv', UNCHANGED Search!ssaVars, Search!pairUndetectedDSAF
  PROVE  TriplesInv'
<1>1. /\ undetectedDSA' = Search!BlockedPairs \cup Search!KeptPairs /\ pc' = "compressDSA"
      /\ potentiallyUndetected' = potentiallyUndetected /\ DSAFToPatterns' = DSAFToPatterns
      /\ UNCHANGED Search!blockVars /\ TSAFPatterns' = TSAFPatterns
  BY DEF Search!pairUndetectedDSAF, Search!pathVars, Search!tsaVars
<1>2. MapsOfPairs' BY <1>1, MapsKept
<1>3. TriplesTreated' BY <1>1, NoTriplesYet
<1>4. (Search!BlockedPairs)' = Search!BlockedPairs BY <1>1, BlockedKept
<1>5. ASSUME NEW D \in Search!KeptPairs PROVE TwoFaults(D)
  <2>1. PICK x \in redundantSSAF, y \in redundantSSAF : D = {x, y} /\ Search!Cardinality(D) = 2
    BY DEF Search!KeptPairs, Search!RedundantPairs, Search!Pairs
  <2>2. IsPair(D) /\ Cardinality(D) = 2 BY <2>1, SameCardinality DEF IsPair
  <2> QED BY <2>2, TwoCounted
<1>6. LoopsOverPairs' BY <1>1, <1>4, <1>5 DEF LoopsOverPairs
<1> QED BY <1>2, <1>3, <1>6 DEF TriplesInv

\* ... compressed ...
LEMMA CompressionKeeps ==
  ASSUME TriplesInv, PairsInv', UNCHANGED Search!ssaVars, Search!compressUndetectedDSAF
  PROVE  TriplesInv'
<1>1. /\ pc = "compressDSA" /\ pc' = "testDSA" /\ DOMAIN DSAFToPatterns' \subseteq undetectedDSA
      /\ undetectedDSA' \subseteq undetectedDSA /\ todo' = undetectedDSA'
      /\ UNCHANGED Search!blockVars /\ TSAFPatterns' = TSAFPatterns
  BY DEF Search!compressUndetectedDSAF, Search!tsaVars
<1>2. Search!FanoutFree => \A D \in undetectedDSA : TwoFaults(D)
  BY <1>1, BlockedTwo DEF TriplesInv, LoopsOverPairs
<1>3. (Search!FanoutFree)' <=> Search!FanoutFree BY FanoutKept
<1>4. MapsOfPairs' BY <1>1, <1>2, <1>3 DEF TriplesInv, MapsOfPairs, Search!blockVars
<1>5. TriplesTreated' BY <1>1, NoTriplesYet
<1>6. LoopsOverPairs' BY <1>1, <1>2, <1>3 DEF LoopsOverPairs
<1> QED BY <1>4, <1>5, <1>6 DEF TriplesInv

\* ... and tested.
LEMMA TestingKeeps ==
  ASSUME TriplesInv, PairsInv', UNCHANGED Search!ssaVars, NEW D \in todo, Search!generateDSATest(D)
  PROVE  TriplesInv'
<1>1. /\ pc = "testDSA" /\ pc' = "testDSA" /\ todo' \subseteq todo /\ undetectedDSA' = undetectedDSA
      /\ DOMAIN DSAFToPatterns' \subseteq DOMAIN DSAFToPatterns \cup {D}
      /\ UNCHANGED Search!blockVars /\ TSAFPatterns' = TSAFPatterns
  BY DEF Search!generateDSATest, Search!Inserted, Search!tsaVars
<1>2. D \in undetectedDSA /\ (Search!FanoutFree => TwoFaults(D)) BY <1>1 DEF TriplesInv, LoopsOverPairs
<1>3. (Search!FanoutFree)' <=> Search!FanoutFree BY FanoutKept
<1>4. MapsOfPairs' BY <1>1, <1>2, <1>3 DEF TriplesInv, MapsOfPairs, Search!blockVars
<1>5. TriplesTreated' BY <1>1, NoTriplesYet
<1>6. LoopsOverPairs' BY <1>1, <1>3 DEF TriplesInv, LoopsOverPairs
<1> QED BY <1>4, <1>5, <1>6 DEF TriplesInv

\* The third: the pairs that hide a fault, ...
LEMMA HidingPairsKeep ==
  ASSUME TriplesInv, PairsInv', UNCHANGED Search!ssaVars, NEW f \in todo, Search!findSSABlockedByDSA(f)
  PROVE  TriplesInv'
<1>1. /\ pc = "blockDSA" /\ pc' = "searchTSA" /\ current = {f} /\ DSAFToPatterns' = DSAFToPatterns
      /\ DSAToblockSSA' = DSAToblockSSA /\ TSAFPatterns' = TSAFPatterns
      /\ SSAToblockDSA' = Search!Inserted(SSAToblockDSA, f,
           Search!findBlockDSA(netlist, outValue, different, Search!listed, f) \cup
           Search!blockFaultInTwoPaths(netlist, SSAFToPathGates[f], SSAFToFaultsBlockedInGate[f]))
  BY DEF Search!findSSABlockedByDSA, Search!dsaVars, Search!tsaVars
<1>2. SearchInv BY DEF TriplesInv, PairsInv
<1>3. /\ f \in DOMAIN SSAFToPatterns /\ outValue = RefValue(netlist, {}, SSAFToPatterns[f])
      /\ different = Search!Marks(netlist, {f}, SSAFToPatterns[f])
  BY <1>1, <1>2 DEF SearchInv, SimulatedFirst
<1>4. (Search!FanoutFree)' <=> Search!FanoutFree BY FanoutKept
<1>5. ASSUME Search!FanoutFree, NEW g \in DOMAIN SSAToblockDSA', NEW D \in SSAToblockDSA'[g]
      PROVE  IsPair(D) /\ g \notin D
  <2>1. CASE g \in DOMAIN SSAToblockDSA
    <3>1. SSAToblockDSA'[g] = SSAToblockDSA[g] BY <1>1, <2>1 DEF Search!Inserted
    <3> QED BY <1>5, <2>1, <3>1 DEF TriplesInv, MapsOfPairs
  <2>2. CASE g \notin DOMAIN SSAToblockDSA
    <3>1. g = f BY <1>1, <2>2 DEF Search!Inserted
    <3>2. D \in Search!findBlockDSA(netlist, outValue, different, Search!listed, f) \cup
                Search!blockFaultInTwoPaths(netlist, SSAFToPathGates[f], SSAFToFaultsBlockedInGate[f])
      BY <1>1, <1>5, <2>2, <3>1 DEF Search!Inserted
    <3>3. D \in Search!findBlockDSA(netlist, outValue, different, Search!listed, f) BY <1>5, <3>2, OnePathOnly
    <3> QED BY <1>2, <1>3, <1>5, <3>1, <3>3, RecordedApart
  <2> QED BY <2>1, <2>2
<1>6. MapsOfPairs' BY <1>1, <1>4, <1>5 DEF TriplesInv, MapsOfPairs
<1>7. TriplesTreated' BY <1>1, NoTriplesYet
<1>8. LoopsOverPairs' BY <1>1 DEF LoopsOverPairs
<1> QED BY <1>6, <1>7, <1>8 DEF TriplesInv

\* ... and the redundant faults that hide a pair.
LEMMA HidingFaultsKeep ==
  ASSUME TriplesInv, PairsInv', UNCHANGED Search!ssaVars, NEW D \in todo, Search!findDSABlockedbySSA(D)
  PROVE  TriplesInv'
<1>1. /\ pc = "blockSSAOfDSA" /\ pc' = "searchDSAToSSA" /\ DSAFToPatterns' = DSAFToPatterns /\ todo' \subseteq todo
      /\ SSAToblockDSA' = SSAToblockDSA /\ TSAFPatterns' = TSAFPatterns
  BY DEF Search!findDSABlockedbySSA, Search!dsaVars, Search!tsaVars
<1>2. PICK S : S \cap D = {} /\ DSAToblockSSA' = Search!Inserted(DSAToblockSSA, D, S)
  <2>1. \A S : (S \ D) \cap D = {} OBVIOUS
  <2> QED BY <2>1 DEF Search!findDSABlockedbySSA
<1>3. D \in DOMAIN DSAFToPatterns BY <1>1 DEF TriplesInv, LoopsOverPairs
<1>4. (Search!FanoutFree)' <=> Search!FanoutFree BY FanoutKept
<1>5. ASSUME Search!FanoutFree, NEW E \in DOMAIN DSAToblockSSA'
      PROVE  TwoFaults(E) /\ \A f \in DSAToblockSSA'[E] : f \notin E
  <2>1. CASE E \in DOMAIN DSAToblockSSA
    <3>1. DSAToblockSSA'[E] = DSAToblockSSA[E] BY <1>2, <2>1 DEF Search!Inserted
    <3> QED BY <1>5, <2>1, <3>1 DEF TriplesInv, MapsOfPairs
  <2>2. CASE E \notin DOMAIN DSAToblockSSA
    <3>1. E = D /\ DSAToblockSSA'[E] = S BY <1>2, <2>2 DEF Search!Inserted
    <3> QED BY <1>2, <1>3, <1>5, <3>1 DEF TriplesInv, MapsOfPairs
  <2> QED BY <2>1, <2>2
<1>6. MapsOfPairs' BY <1>1, <1>4, <1>5 DEF TriplesInv, MapsOfPairs
<1>7. TriplesTreated' BY <1>1, NoTriplesYet
<1>8. LoopsOverPairs' BY <1>1 DEF TriplesInv, LoopsOverPairs
<1> QED BY <1>6, <1>7, <1>8 DEF TriplesInv

\* Without fanout every listed triple is a fault and a pair of others.
LEMMA TriplesOfThree ==
  ASSUME TriplesInv, Search!FanoutFree, NEW T \in Search!BlockedTriples
  PROVE  Cardinality(T) = 3
<1>1. MapsOfPairs BY DEF TriplesInv
<1>2. CASE \E f \in DOMAIN SSAToblockDSA : \E D \in SSAToblockDSA[f] :
             /\ T = {f} \cup D
             /\ (D \in DOMAIN DSAToblockSSA /\ f \in DSAToblockSSA[D]) \/ Search!Confirmed(f, D)
  <2>1. PICK f \in DOMAIN SSAToblockDSA : \E D \in SSAToblockDSA[f] :
          /\ T = {f} \cup D
          /\ (D \in DOMAIN DSAToblockSSA /\ f \in DSAToblockSSA[D]) \/ Search!Confirmed(f, D)
    BY <1>2
  <2>2. PICK D \in SSAToblockDSA[f] :
          /\ T = {f} \cup D
          /\ (D \in DOMAIN DSAToblockSSA /\ f \in DSAToblockSSA[D]) \/ Search!Confirmed(f, D)
    BY <2>1
  <2>3. IsPair(D) /\ f \notin D BY <1>1 DEF MapsOfPairs
  <2>4. Search!Confirmed(f, D) => Cardinality(D) = 2 BY SameCardinality DEF Search!Confirmed
  <2>5. TwoFaults(D)
    <3>1. CASE D \in DOMAIN DSAToblockSSA BY <1>1, <3>1 DEF MapsOfPairs
    <3>2. CASE Search!Confirmed(f, D) BY <2>3, <2>4, <3>2, TwoCounted
    <3> QED BY <2>2, <3>1, <3>2
  <2> QED BY <2>2, <2>3, <2>5, TwoCounted
<1>3. CASE \E D \in DOMAIN DSAToblockSSA : \E f \in DSAToblockSSA[D] : T = {f} \cup D
  <2>1. PICK D \in DOMAIN DSAToblockSSA : \E f \in DSAToblockSSA[D] : T = {f} \cup D BY <1>3
  <2>2. PICK f \in DSAToblockSSA[D] : T = {f} \cup D BY <2>1
  <2>3. TwoFaults(D) /\ f \notin D BY <1>1 DEF MapsOfPairs
  <2>4. IsPair(D) BY <2>3 DEF TwoFaults, IsPair
  <2> QED BY <2>2, <2>3, <2>4, TwoCounted
<1> QED BY <1>2, <1>3 DEF Search!BlockedTriples

\* Listing the triples ...
LEMMA TriplesStep ==
  ASSUME TriplesInv, PairsInv', UNCHANGED Search!ssaVars, Search!pairUndetectedTSAF
  PROVE  TriplesInv'
<1>1. /\ pc' = "testTSA" /\ DSAFToPatterns' = DSAFToPatterns /\ UNCHANGED Search!blockVars
      /\ todo' = undetectedTSA' /\ undetectedTSA' \subseteq Search!BlockedTriples /\ TSAFPatterns' = TSAFPatterns
  BY DEF Search!pairUndetectedTSAF, Search!dsaVars
<1>2. MapsOfPairs' BY <1>1, MapsKept
<1>3. (Search!FanoutFree)' <=> Search!FanoutFree BY FanoutKept
<1>4. TriplesTreated' BY <1>1, <1>3, TriplesOfThree DEF TriplesInv, TriplesTreated
<1>5. LoopsOverPairs' BY <1>1 DEF LoopsOverPairs
<1> QED BY <1>2, <1>4, <1>5 DEF TriplesInv

\* ... and testing them.
LEMMA TestingTriplesStep ==
  ASSUME TriplesInv, PairsInv', UNCHANGED Search!ssaVars, NEW T \in todo, Search!generateTSATest(T)
  PROVE  TriplesInv'
<1>1. /\ pc = "testTSA" /\ pc' = "testTSA" /\ DSAFToPatterns' = DSAFToPatterns /\ UNCHANGED Search!blockVars
      /\ todo' = todo \ {T} /\ undetectedTSA' = undetectedTSA
      /\ \/ Search!Detected(T, TSAFPatterns) /\ TSAFPatterns' = TSAFPatterns /\ redundantTSAFList' = redundantTSAFList
         \/ /\ \E t \in Search!DetectedBy(T) : TSAFPatterns' = Append(TSAFPatterns, t)
            /\ redundantTSAFList' = redundantTSAFList
         \/ /\ Search!DetectedBy(T) = {} /\ TSAFPatterns' = TSAFPatterns
            /\ redundantTSAFList' = redundantTSAFList \cup {T}
  BY DEF Search!generateTSATest, Search!dsaVars
<1>2. TSAFPatterns \in Seq([PIs -> Bit]) /\ TriplesTreated BY DEF TriplesInv, TriplesTreated
<1>3. netlist' = netlist BY DEF Search!ssaVars
<1> DEFINE settled(E) == Settled(netlist, E, TSAFPatterns, redundantTSAFList)
           settledNow(E) == Settled(netlist, E, TSAFPatterns', redundantTSAFList')
<1>4. TSAFPatterns' \in Seq([PIs -> Bit]) /\ settledNow(T) /\ \A E : settled(E) => settledNow(E)
  <2>1. CASE Search!Detected(T, TSAFPatterns) /\ TSAFPatterns' = TSAFPatterns /\ redundantTSAFList' = redundantTSAFList
    BY <1>2, <2>1, TestsAsked DEF Settled
  <2>2. CASE /\ Search!DetectedBy(T) = {} /\ TSAFPatterns' = TSAFPatterns
             /\ redundantTSAFList' = redundantTSAFList \cup {T}
    BY <1>2, <2>2, TestsAsked DEF Settled
  <2>3. ASSUME NEW t \in Search!DetectedBy(T), TSAFPatterns' = Append(TSAFPatterns, t),
               redundantTSAFList' = redundantTSAFList
        PROVE  TSAFPatterns' \in Seq([PIs -> Bit]) /\ settledNow(T) /\ \A E : settled(E) => settledNow(E)
    <3>1. t \in [PIs -> Bit] /\ RefDetects(netlist, T, t) BY <1>2, TestsAsked
    <3>2. TSAFPatterns' \in Seq([PIs -> Bit]) /\ ListDetects(netlist, T, TSAFPatterns')
      BY <1>2, <2>3, <3>1, ListGrows
    <3>3. ASSUME NEW E PROVE ListDetects(netlist, E, TSAFPatterns) => ListDetects(netlist, E, TSAFPatterns')
      BY <1>2, <2>3, <3>1, ListGrows
    <3> QED BY <2>3, <3>2, <3>3 DEF Settled
  <2> QED BY <1>1, <2>1, <2>2, <2>3
<1> HIDE DEF settled, settledNow
<1>5. \A E \in undetectedTSA : E \in todo' \/ settledNow(E)
  <2>1. \A E \in undetectedTSA : E \in todo \/ settled(E) BY <1>1, <1>2 DEF TriplesTreated, settled
  <2> QED BY <1>1, <1>4, <2>1
<1>6. (Search!FanoutFree)' <=> Search!FanoutFree BY FanoutKept
<1>7. TriplesTreated' BY <1>1, <1>2, <1>3, <1>4, <1>5, <1>6 DEF TriplesTreated, settledNow
<1>8. MapsOfPairs' BY <1>1, MapsKept
<1>9. LoopsOverPairs' BY <1>1 DEF LoopsOverPairs
<1> QED BY <1>7, <1>8, <1>9 DEF TriplesInv

\* The end.
LEMMA TriplesDoneStep ==
  ASSUME TriplesInv, PairsInv', UNCHANGED Search!ssaVars, Search!generateTSATestDone
  PROVE  TriplesInv'
<1>1. /\ pc = "testTSA" /\ pc' = "done" /\ todo = {} /\ DSAFToPatterns' = DSAFToPatterns
      /\ UNCHANGED Search!blockVars /\ UNCHANGED Search!tsaVars
  BY DEF Search!generateTSATestDone, Search!dsaVars
<1>2. netlist' = netlist BY DEF Search!ssaVars
<1>3. (Search!FanoutFree)' <=> Search!FanoutFree BY FanoutKept
<1>4. TriplesTreated' BY <1>1, <1>2, <1>3 DEF TriplesInv, TriplesTreated, Search!tsaVars
<1>5. MapsOfPairs' BY <1>1, MapsKept
<1>6. LoopsOverPairs' BY <1>1 DEF LoopsOverPairs
<1> QED BY <1>4, <1>5, <1>6 DEF TriplesInv

-----------------------------------------------------------------------------
\* Every step keeps the invariant ...
LEMMA TriplesInvStep ==
  ASSUME TriplesInv, [Search!Next]_(Search!vars)
  PROVE  TriplesInv'
<1>1. PairsInv' BY PairsInvStep DEF TriplesInv
<1>2. CASE UNCHANGED Search!vars
  <2>1. /\ UNCHANGED Search!ssaVars /\ UNCHANGED Search!blockVars /\ UNCHANGED Search!tsaVars
        /\ netlist' = netlist /\ pc' = pc /\ todo' = todo /\ potentiallyUndetected' = potentiallyUndetected
        /\ undetectedDSA' = undetectedDSA /\ DSAFToPatterns' = DSAFToPatterns
    BY <1>2 DEF Search!vars, Search!ssaVars, Search!pathVars, Search!dsaVars
  <2>2. (Search!FanoutFree)' <=> Search!FanoutFree BY <2>1, FanoutKept
  <2>3. (Search!BlockedPairs)' = Search!BlockedPairs BY <2>1, BlockedKept
  <2>4. MapsOfPairs' BY <2>1, MapsKept
  <2>5. LoopsOverPairs' BY <2>1, <2>2, <2>3 DEF TriplesInv, LoopsOverPairs
  <2>6. TriplesTreated' BY <2>1, <2>2 DEF TriplesInv, TriplesTreated, Search!tsaVars
  <2> QED BY <1>1, <2>4, <2>5, <2>6 DEF TriplesInv
<1>3. CASE Search!Next
  <2>1. UNCHANGED Search!ssaVars BY <1>3, AllKeepTests
  <2>2. ASSUME NEW f \in todo, Search!SimulateSSA(f) PROVE TriplesInv'
    BY <1>1, <2>1, <2>2, BetweenStep DEF Search!SimulateSSA, Search!Simulate, Search!dsaVars
  <2>3. ASSUME NEW f \in todo, Search!findPotentialUndetectedDSAF(f) PROVE TriplesInv'
    BY <1>1, <2>1, <2>3, BetweenStep DEF Search!findPotentialUndetectedDSAF, Search!dsaVars
  <2>4. ASSUME NEW f \in todo, Search!SimulateSSAAgain(f) PROVE TriplesInv'
    BY <1>1, <2>1, <2>4, BetweenStep DEF Search!SimulateSSAAgain, Search!Simulate, Search!dsaVars
  <2>5. ASSUME NEW f \in todo, Search!findSSABlockedByDSA(f) PROVE TriplesInv' BY <1>1, <2>1, <2>5, HidingPairsKeep
  <2>6. ASSUME NEW D \in todo, Search!generateDSATest(D) PROVE TriplesInv' BY <1>1, <2>1, <2>6, TestingKeeps
  <2>7. ASSUME NEW D \in todo, Search!SimulateDSA(D) PROVE TriplesInv'
    BY <1>1, <2>1, <2>7, BetweenStep
    DEF TriplesInv, LoopsOverPairs, Search!SimulateDSA, Search!Simulate, Search!dsaVars
  <2>8. ASSUME NEW D \in todo, Search!findDSABlockedbySSA(D) PROVE TriplesInv' BY <1>1, <2>1, <2>8, HidingFaultsKeep
  <2>9. ASSUME NEW T \in todo, Search!generateTSATest(T) PROVE TriplesInv' BY <1>1, <2>1, <2>9, TestingTriplesStep
  <2>10. CASE Search!pairUndetectedDSAF BY <1>1, <2>1, <2>10, PairingKeeps
  <2>11. CASE Search!compressUndetectedDSAF BY <1>1, <2>1, <2>11, CompressionKeeps
  <2>12. CASE Search!generateDSATestDone
    BY <1>1, <2>1, <2>12, BetweenStep DEF Search!generateDSATestDone, Search!dsaVars
  <2>13. CASE Search!findSSABlockedByDSADone
    BY <1>1, <2>1, <2>13, BetweenStep DEF Search!findSSABlockedByDSADone, Search!dsaVars
  <2>14. CASE Search!pairUndetectedTSAF BY <1>1, <2>1, <2>14, TriplesStep
  <2>15. CASE Search!generateTSATestDone BY <1>1, <2>1, <2>15, TriplesDoneStep
  <2> QED
    BY <1>3, <2>2, <2>3, <2>4, <2>5, <2>6, <2>7, <2>8, <2>9, <2>10, <2>11, <2>12, <2>13, <2>14, <2>15 DEF Search!Next
<1> QED BY <1>2, <1>3

\* ... so it holds of every run.
LEMMA TriplesInvariant ==
  Search!Spec => []TriplesInv
<1>1. Search!Init => TriplesInv BY TriplesInitially
<1>2. TriplesInv /\ [Search!Next]_(Search!vars) => TriplesInv' BY TriplesInvStep
<1> QED BY <1>1, <1>2, PTL DEF Search!Spec

TriplesDecided ==
  pc = "done" => \A T \in undetectedTSA :
                   Search!Detected(T, TSAFPatterns) \/ (T \in redundantTSAFList /\ ~ Search!Testable(T))

\* What the invariant says of the end: of every circuit, ...
LEMMA TriplesEnd ==
  TriplesInv => TriplesDecided
<1> SUFFICES ASSUME TriplesInv, pc = "done", NEW T \in undetectedTSA
             PROVE  Search!Detected(T, TSAFPatterns) \/ (T \in redundantTSAFList /\ ~ Search!Testable(T))
  BY DEF TriplesDecided
<1>1. TriplesTreated BY DEF TriplesInv
<1>2. TSAFPatterns \in Seq([PIs -> Bit]) /\ Settled(netlist, T, TSAFPatterns, redundantTSAFList)
  BY <1>1 DEF TriplesTreated
<1>3. Search!Testable(T) => \E t \in [PIs -> Bit] : RefDetects(netlist, T, t) BY <1>2, TestsAsked DEF Search!Testable
<1> QED BY <1>2, <1>3, TestsAsked DEF Settled

\* ... and of those without fanout.
LEMMA ThreeAtTheEnd ==
  TriplesInv /\ Search!FanoutFree => Search!TriplesSettled
<1> SUFFICES ASSUME TriplesInv, Search!FanoutFree, pc = "done", NEW T \in undetectedTSA
             PROVE  /\ Search!Detected(T, TSAFPatterns) \/ (T \in redundantTSAFList /\ ~ Search!Testable(T))
                    /\ Search!Cardinality(T) = 3
  BY DEF Search!TriplesSettled
<1>1. TriplesDecided BY TriplesEnd
<1>2. Cardinality(T) = 3 BY DEF TriplesInv, TriplesTreated
<1> QED BY <1>1, <1>2, SameCardinality DEF TriplesDecided

\* On every circuit, each triple fault that generateTSATest gets ends with a
\* test, or there is none and it is recorded as redundant.
THEOREM ListedTriplesDecided == Search!Spec => []TriplesDecided
<1>1. Search!Spec => []TriplesInv BY TriplesInvariant
<1>2. TriplesInv => TriplesDecided BY TriplesEnd
<1> QED BY <1>1, <1>2, PTL

\* On a circuit without fanout, it also has three faults.
THEOREM TriplesCovered == Search!Spec => [](Search!FanoutFree => TriplesSettled)
<1>1. Search!Spec => []TriplesInv BY TriplesInvariant
<1>2. TriplesInv => (Search!FanoutFree => TriplesSettled) BY ThreeAtTheEnd DEF TriplesSettled
<1> QED BY <1>1, <1>2, PTL
=============================================================================
