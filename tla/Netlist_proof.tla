--------------------------- MODULE Netlist_proof ---------------------------
(***************************************************************************)
(* What the reference semantics and the cones of a circuit are: both are   *)
(* recursive along the fanins, and in a well-formed circuit every fanin    *)
(* precedes its gate, so that they exist, are determined by their          *)
(* recursion equations, and can be reasoned about by induction.  The       *)
(* induction is on sets of natural numbers: a nonempty one has a least     *)
(* element.                                                                *)
(*                                                                         *)
(* In a circuit without fanout a fault's effect has one path to an output: *)
(* a test inverts everything on it and nothing else, and whatever keeps    *)
(* one gate of it as it would be hides the fault.                          *)
(***************************************************************************)
EXTENDS Netlist, WellFoundedInduction, TLAPS

\* The natural numbers are well-ordered.
LEMMA LeastNumber ==
  ASSUME NEW S \in SUBSET Nat, S # {}
  PROVE  \E m \in S : \A n \in S : m <= n
<1> DEFINE R == {p \in Nat \X Nat : p[1] < p[2]}
<1>1. IsWellFoundedOn(R, Nat)
  <2>1. IsWellFoundedOn(OpToRel(<, Nat), Nat)
    BY NatLessThanWellFounded
  <2>2. OpToRel(<, Nat) = R
    BY DEF OpToRel
  <2> QED
    BY <2>1, <2>2
<1>2. \A x, y \in Nat : y < x => <<y, x>> \in R
  OBVIOUS
<1> HIDE DEF R
<1>3. PICK x \in S : \A y \in S : ~ (<<y, x>> \in R)
  BY <1>1, WFMin
<1>4. \A y \in S : ~ (y < x)
  BY <1>2, <1>3
<1> QED
  BY <1>4

\* Induction in the form the lemmas use it: a set of numbers below a bound
\* that has every number whose predecessors it has.
LEMMA Induction ==
  ASSUME NEW n \in Nat, NEW S,
         \A g \in 0 .. n - 1 : (\A h \in 0 .. n - 1 : h < g => h \in S) => g \in S
  PROVE  \A g \in 0 .. n - 1 : g \in S
<1> DEFINE Missing == {g \in 0 .. n - 1 : g \notin S}
<1> SUFFICES ASSUME Missing # {} PROVE FALSE
  OBVIOUS
<1>1. Missing \in SUBSET Nat
  OBVIOUS
<1>2. PICK m \in Missing : \A k \in Missing : m <= k
  BY <1>1, LeastNumber
<1>3. \A h \in 0 .. n - 1 : h < m => h \in S
  BY <1>2
<1> QED
  BY <1>2, <1>3

\* Every gate number is a natural number, and so is their count.
LEMMA SizeNat == Size \in Nat /\ GateID \subseteq Nat
BY SizeAssumption DEF Size, GateID

\* Induction along the order of the gates.
LEMMA GateInduction ==
  ASSUME NEW S, \A g \in GateID : (\A h \in GateID : h < g => h \in S) => g \in S
  PROVE  \A g \in GateID : g \in S
BY SizeNat, Induction DEF GateID

\* Gates, and the order of fanins, in a well-formed circuit.
LEMMA FaninsPrecede ==
  ASSUME NEW net, WellFormed(net), NEW g \in GateID, NEW f \in Fanins(net, g)
  PROVE  f \in GateID /\ f < g /\ f \notin POs
BY DEF WellFormed

\* A held line carries a bit.
LEMMA LineBit ==
  ASSUME NEW F, NEW g, NEW p, NEW v \in Bit
  PROVE  Line(F, g, p, v) \in Bit
BY DEF Line, Held, Bit

\* A gate that reads bits puts out a bit.
LEMMA RefOutBit ==
  ASSUME NEW net, WellFormed(net), NEW F, NEW pattern \in [PIs -> Bit], NEW g \in GateID,
         NEW values, \A f \in Fanins(net, g) : values[f] \in Bit
  PROVE  RefOut(net, F, pattern, values, g) \in Bit
<1>1. net[g] \in Gate /\ (net[g].gateType = "PI" => g \in PIs)
  BY DEF WellFormed
<1>2. CASE net[g].gateType = "PI"
  BY <1>1, <1>2, LineBit DEF RefOut
<1>3. CASE net[g].gateType = "constant"
  <2>1. net[g].constant \in Bit
    BY <1>1 DEF Gate
  <2> QED
    BY <1>3, <2>1, LineBit DEF RefOut
<1>4. CASE net[g].gateType \notin {"PI", "constant"}
  <2> DEFINE a == Line(F, g, 1, values[net[g].fanin1])
             b == Line(F, g, 2, values[net[g].fanin2])
  <2>1. net[g].fanin1 \in Fanins(net, g)
    BY <1>1, <1>4 DEF Fanins, Gate, Type
  <2>2. a \in Bit
    BY <2>1, LineBit
  <2>3. getOutValue(net[g], a, b) \in Bit
    <3>1. net[g].invOut \in Bit /\ net[g].gateType \in {"bufInv", "aig", "PO"}
      BY <1>1, <1>4 DEF Gate, Type
    <3> HIDE DEF a, b
    <3> QED
      BY <3>1, <2>2 DEF getOutValue, Bit
  <2> QED
    BY <1>4, <2>3, LineBit DEF RefOut
<1> QED
  BY <1>2, <1>3, <1>4

\* What a gate puts out depends on its fanins only.
LEMMA RefOutLocal ==
  ASSUME NEW net, WellFormed(net), NEW F, NEW pattern, NEW g \in GateID,
         NEW v, NEW w, \A f \in Fanins(net, g) : v[f] = w[f]
  PROVE  RefOut(net, F, pattern, v, g) = RefOut(net, F, pattern, w, g)
<1>1. net[g].gateType \in Type
  BY DEF WellFormed, Gate
<1>2. CASE net[g].gateType \in {"PI", "constant"}
  BY <1>2 DEF RefOut
<1>3. CASE net[g].gateType \in {"bufInv", "PO"}
  <2>1. v[net[g].fanin1] = w[net[g].fanin1]
    BY <1>3 DEF Fanins
  <2> QED
    BY <1>3, <2>1 DEF RefOut, getOutValue
<1>4. CASE net[g].gateType = "aig"
  <2>1. v[net[g].fanin1] = w[net[g].fanin1] /\ v[net[g].fanin2] = w[net[g].fanin2]
    BY <1>4 DEF Fanins
  <2> QED
    BY <1>4, <2>1 DEF RefOut
<1> QED
  BY <1>1, <1>2, <1>3, <1>4 DEF Type

\* A step of a recursion along the order of the gates: what it gives for a
\* gate depends on the gates before it only.
OrderedStep(V, Step) ==
  /\ V # {}
  /\ Step \in [[GateID -> V] \X GateID -> V]
  /\ \A v, w \in [GateID -> V], g \in GateID :
       (\A h \in GateID : h < g => v[h] = w[h]) => Step[<<v, g>>] = Step[<<w, g>>]

Solutions(V, Step) == {v \in [GateID -> V] : \A g \in GateID : v[g] = Step[<<v, g>>]}

\* The recursion equation of such a step has a solution.
LEMMA RecursionExists ==
  ASSUME NEW V, NEW Step, OrderedStep(V, Step)
  PROVE  Solutions(V, Step) # {}
<1> USE DEF OrderedStep
<1> DEFINE Solves(v, n) == \A g \in GateID : g < n => v[g] = Step[<<v, g>>]
           Reached == {n \in 0 .. Size : \E v \in [GateID -> V] : Solves(v, n)}
<1>1. \A n \in 0 .. Size : n \in Reached
  <2>1. ASSUME NEW n \in 0 .. Size, \A m \in 0 .. Size : m < n => m \in Reached
        PROVE  n \in Reached
    <3>1. CASE n = 0
      <4>1. PICK a \in V : TRUE
        OBVIOUS
      <4>2. [g \in GateID |-> a] \in [GateID -> V]
        OBVIOUS
      <4>3. Solves([g \in GateID |-> a], 0)
        BY SizeNat
      <4> QED
        BY <3>1, <4>2, <4>3
    <3>2. CASE n # 0
      <4>1. n - 1 \in Reached /\ n - 1 \in GateID
        <5>1. n - 1 \in 0 .. Size /\ n - 1 < n /\ n - 1 \in GateID
          BY <3>2, SizeNat DEF GateID
        <5> HIDE DEF Reached
        <5> QED
          BY <2>1, <5>1
      <4>2. PICK v \in [GateID -> V] : Solves(v, n - 1)
        BY <4>1
      <4> DEFINE b == Step[<<v, n - 1>>]
                 w == [v EXCEPT ![n - 1] = b]
      <4>3. b \in V
        BY <4>1
      <4>4. w \in [GateID -> V] /\ w[n - 1] = b /\ \A g \in GateID : g # n - 1 => w[g] = v[g]
        BY <4>1, <4>3
      <4> HIDE DEF w
      <4>5. ASSUME NEW g \in GateID, g < n
            PROVE  Step[<<w, g>>] = Step[<<v, g>>]
        <5>1. \A h \in GateID : h < g => w[h] = v[h]
          BY <4>4, <4>5, SizeNat
        <5> QED
          BY <4>4, <5>1
      <4>6. ASSUME NEW g \in GateID, g < n
            PROVE  w[g] = Step[<<w, g>>]
        <5>1. CASE g = n - 1
          BY <4>4, <4>5, <4>6, <5>1
        <5>2. CASE g # n - 1
          <6>1. g < n - 1
            BY <4>6, <5>2, SizeNat
          <6>2. v[g] = Step[<<v, g>>]
            BY <4>2, <6>1
          <6> QED
            BY <4>4, <4>5, <4>6, <5>2, <6>2
        <5> QED
          BY <5>1, <5>2
      <4> QED
        BY <4>4, <4>6
    <3> QED
      BY <3>1, <3>2
  <2> HIDE DEF Reached
  <2>2. Size + 1 \in Nat /\ 0 .. (Size + 1) - 1 = 0 .. Size
    BY SizeNat
  <2> QED
    BY <2>1, <2>2, Induction
<1>2. Size \in Reached
  BY <1>1, SizeNat
<1>3. PICK v \in [GateID -> V] : Solves(v, Size)
  BY <1>2
<1> QED
  BY <1>3, SizeNat DEF GateID, Solutions

\* The reference semantics exists: gate by gate, the values of the gates before
\* it determine a gate's own.
LEMMA RefValueExists ==
  ASSUME NEW net, WellFormed(net), NEW F, NEW pattern \in [PIs -> Bit]
  PROVE  \E v : v = [g \in GateID |-> RefOut(net, F, pattern, v, g)]
<1> DEFINE Step == [x \in [GateID -> Bit] \X GateID |-> RefOut(net, F, pattern, x[1], x[2])]
<1>1. ASSUME NEW v \in [GateID -> Bit], NEW g \in GateID
      PROVE  RefOut(net, F, pattern, v, g) \in Bit
  <2>1. \A f \in Fanins(net, g) : v[f] \in Bit
    BY FaninsPrecede
  <2> QED
    BY <2>1, RefOutBit
<1>2. \A v \in [GateID -> Bit], g \in GateID : Step[<<v, g>>] = RefOut(net, F, pattern, v, g)
  OBVIOUS
<1>3. Step \in [[GateID -> Bit] \X GateID -> Bit]
  <2>1. \A x \in [GateID -> Bit] \X GateID : x[1] \in [GateID -> Bit] /\ x[2] \in GateID
    OBVIOUS
  <2> QED
    BY <1>1, <2>1
<1> HIDE DEF Step
<1>4. ASSUME NEW v \in [GateID -> Bit], NEW w \in [GateID -> Bit], NEW g \in GateID,
             \A h \in GateID : h < g => v[h] = w[h]
      PROVE  Step[<<v, g>>] = Step[<<w, g>>]
  <2>1. \A f \in Fanins(net, g) : v[f] = w[f]
    BY <1>4, FaninsPrecede
  <2>2. RefOut(net, F, pattern, v, g) = RefOut(net, F, pattern, w, g)
    BY <2>1, RefOutLocal
  <2> QED
    BY <1>2, <2>2
<1>5. OrderedStep(Bit, Step)
  BY <1>3, <1>4 DEF OrderedStep, Bit
<1>6. PICK v \in Solutions(Bit, Step) : TRUE
  BY <1>5, RecursionExists
<1>7. v = [g \in GateID |-> RefOut(net, F, pattern, v, g)]
  BY <1>2, <1>6 DEF Solutions
<1> QED
  BY <1>7

\* ... and it is what its recursion equation says.
LEMMA RefValueEquation ==
  ASSUME NEW net, WellFormed(net), NEW F, NEW pattern \in [PIs -> Bit]
  PROVE  /\ RefValue(net, F, pattern) \in [GateID -> Bit]
         /\ \A g \in GateID : RefValue(net, F, pattern)[g]
                                = RefOut(net, F, pattern, RefValue(net, F, pattern), g)
<1> DEFINE r == RefValue(net, F, pattern)
<1>1. \E v : v = [g \in GateID |-> RefOut(net, F, pattern, v, g)]
  BY RefValueExists
<1>2. r = CHOOSE v : v = [g \in GateID |-> RefOut(net, F, pattern, v, g)]
  BY DEF RefValue
<1>3. r = [g \in GateID |-> RefOut(net, F, pattern, r, g)]
  BY <1>1, <1>2
<1> HIDE DEF r
<1>4. \A g \in GateID : r[g] = RefOut(net, F, pattern, r, g)
  BY <1>3
<1>5. \A g \in GateID : r[g] \in Bit
  <2> DEFINE Typed == {g \in GateID : r[g] \in Bit}
  <2>1. ASSUME NEW g \in GateID, \A h \in GateID : h < g => h \in Typed
        PROVE  g \in Typed
    <3>1. \A f \in Fanins(net, g) : r[f] \in Bit
      BY <2>1, FaninsPrecede
    <3> QED
      BY <1>4, <3>1, RefOutBit
  <2> HIDE DEF Typed
  <2>2. \A g \in GateID : g \in Typed
    BY <2>1, GateInduction
  <2> QED
    BY <2>2 DEF Typed
<1> QED
  BY <1>3, <1>4, <1>5 DEF r

\* The cone of a gate exists and is made of the gate and its fanins' cones.
LEMMA ConeEquation ==
  ASSUME NEW net, WellFormed(net)
  PROVE  \A g \in GateID :
           /\ FaninCone(net, g) \in SUBSET GateID
           /\ FaninCone(net, g) = {g} \cup UNION {FaninCone(net, f) : f \in Fanins(net, g)}
<1> DEFINE V == SUBSET GateID
           Step == [x \in [GateID -> V] \X GateID |->
                      {x[2]} \cup UNION {x[1][f] : f \in Fanins(net, x[2])}]
           C(c) == [h \in GateID |-> {h} \cup UNION {c[f] : f \in Fanins(net, h)}]
           cone == CHOOSE c : c = C(c)
<1>1. \A v \in [GateID -> V], g \in GateID :
        Step[<<v, g>>] = {g} \cup UNION {v[f] : f \in Fanins(net, g)}
  OBVIOUS
<1>2. Step \in [[GateID -> V] \X GateID -> V]
  <2>1. ASSUME NEW v \in [GateID -> V], NEW g \in GateID
        PROVE  {g} \cup UNION {v[f] : f \in Fanins(net, g)} \in V
    <3>1. \A f \in Fanins(net, g) : v[f] \in SUBSET GateID
      BY FaninsPrecede
    <3> QED
      BY <3>1
  <2>2. \A x \in [GateID -> V] \X GateID : x[1] \in [GateID -> V] /\ x[2] \in GateID
    OBVIOUS
  <2> QED
    BY <2>1, <2>2
<1> HIDE DEF Step
<1>3. ASSUME NEW v \in [GateID -> V], NEW w \in [GateID -> V], NEW g \in GateID,
             \A h \in GateID : h < g => v[h] = w[h]
      PROVE  Step[<<v, g>>] = Step[<<w, g>>]
  <2>1. \A f \in Fanins(net, g) : v[f] = w[f]
    BY <1>3, FaninsPrecede
  <2>2. {v[f] : f \in Fanins(net, g)} = {w[f] : f \in Fanins(net, g)}
    BY <2>1
  <2> QED
    BY <1>1, <2>2
<1>4. OrderedStep(V, Step)
  <2>1. V # {}
    OBVIOUS
  <2> HIDE DEF V
  <2> QED
    BY <1>2, <1>3, <2>1 DEF OrderedStep
<1> HIDE DEF V
<1>5. PICK v \in Solutions(V, Step) : TRUE
  BY <1>4, RecursionExists
<1>6. v = C(v)
  BY <1>1, <1>5 DEF Solutions
<1> HIDE DEF C
<1>7. cone = C(cone)
  BY <1>6
<1>8. \A g \in GateID : FaninCone(net, g) = cone[g]
  BY DEF FaninCone, C
<1> HIDE DEF cone
<1>9. \A g \in GateID : cone[g] = {g} \cup UNION {cone[f] : f \in Fanins(net, g)}
  BY <1>7 DEF C
<1>10. \A g \in GateID : cone[g] \in V
  <2> DEFINE Typed == {g \in GateID : cone[g] \in V}
  <2>1. ASSUME NEW g \in GateID, \A h \in GateID : h < g => h \in Typed
        PROVE  g \in Typed
    <3>1. \A f \in Fanins(net, g) : cone[f] \in SUBSET GateID
      BY <2>1, FaninsPrecede DEF V
    <3> QED
      BY <1>9, <3>1 DEF V
  <2> HIDE DEF Typed
  <2>2. \A g \in GateID : g \in Typed
    BY <2>1, GateInduction
  <2> QED
    BY <2>2 DEF Typed
<1>11. ASSUME NEW g \in GateID
       PROVE  FaninCone(net, g) = {g} \cup UNION {FaninCone(net, f) : f \in Fanins(net, g)}
  <2>1. {FaninCone(net, f) : f \in Fanins(net, g)} = {cone[f] : f \in Fanins(net, g)}
    BY <1>8, FaninsPrecede
  <2> QED
    BY <1>8, <1>9, <2>1
<1> QED
  BY <1>8, <1>10, <1>11 DEF V

\* A gate is in its own cone, and the fanins of a gate of a cone are in it.
LEMMA ConeClosed ==
  ASSUME NEW net, WellFormed(net), NEW g \in GateID
  PROVE  /\ g \in FaninCone(net, g)
         /\ FaninCone(net, g) \subseteq GateID
         /\ \A h \in FaninCone(net, g) : Fanins(net, h) \subseteq FaninCone(net, g)
<1> DEFINE Cone(h) == FaninCone(net, h)
           Closed == {x \in GateID : \A h \in Cone(x) : Fanins(net, h) \subseteq Cone(x)}
<1>1. \A x \in GateID : Cone(x) \subseteq GateID /\ Cone(x) = {x} \cup UNION {Cone(f) : f \in Fanins(net, x)}
  BY ConeEquation
<1> HIDE DEF Cone
<1>2. ASSUME NEW x \in GateID, \A y \in GateID : y < x => y \in Closed
      PROVE  x \in Closed
  <2> SUFFICES ASSUME NEW h \in Cone(x), NEW k \in Fanins(net, h)
               PROVE  k \in Cone(x)
    OBVIOUS
  <2>1. CASE h = x
    <3>1. k \in GateID /\ k \in Cone(k)
      BY <1>1, <2>1, FaninsPrecede
    <3> QED
      BY <1>1, <2>1, <3>1
  <2>2. CASE h # x
    <3>1. PICK f \in Fanins(net, x) : h \in Cone(f)
      BY <1>1, <2>2
    <3>2. k \in Cone(f)
      BY <1>2, <3>1, FaninsPrecede
    <3> QED
      BY <1>1, <3>2
  <2> QED
    BY <2>1, <2>2
<1> HIDE DEF Closed
<1>3. \A x \in GateID : x \in Closed
  BY <1>2, GateInduction
<1> QED
  BY <1>1, <1>3 DEF Closed, Cone

\* Two sets of faults have the same faults in the cone of a gate.
SameInCone(net, F, G, g) ==
  \A h \in FaninCone(net, g) : {f \in F : faultGate(f) = h} = {f \in G : faultGate(f) = h}

\* What a gate carries depends on the faults in its cone only.
LEMMA SameFaultsSameValue ==
  ASSUME NEW net, WellFormed(net), NEW pattern \in [PIs -> Bit], NEW F, NEW G, NEW g \in GateID,
         SameInCone(net, F, G, g)
  PROVE  RefValue(net, F, pattern)[g] = RefValue(net, G, pattern)[g]
<1> DEFINE a == RefValue(net, F, pattern)
           b == RefValue(net, G, pattern)
           Same == {h \in GateID : h \in FaninCone(net, g) => a[h] = b[h]}
<1>1. \A h \in GateID : a[h] = RefOut(net, F, pattern, a, h) /\ b[h] = RefOut(net, G, pattern, b, h)
  BY RefValueEquation
<1> HIDE DEF a, b
<1>2. ASSUME NEW h \in GateID, \A k \in GateID : k < h => k \in Same
      PROVE  h \in Same
  <2> SUFFICES ASSUME h \in FaninCone(net, g)
               PROVE  a[h] = b[h]
    OBVIOUS
  <2>1. \A k \in Fanins(net, h) : a[k] = b[k]
    BY <1>2, ConeClosed, FaninsPrecede
  <2>2. RefOut(net, G, pattern, a, h) = RefOut(net, G, pattern, b, h)
    BY <2>1, RefOutLocal
  <2>3. {f \in F : faultGate(f) = h} = {f \in G : faultGate(f) = h}
    BY DEF SameInCone
  <2>4. \A p : StuckValues(F, h, p) = StuckValues(G, h, p)
    <3>1. \A p : {x \in F : faultGate(x) = h /\ faultPort(x) = p} = {x \in G : faultGate(x) = h /\ faultPort(x) = p}
      BY <2>3
    <3> QED
      BY <3>1 DEF StuckValues
  <2>5. RefOut(net, F, pattern, a, h) = RefOut(net, G, pattern, a, h)
    BY <2>4 DEF RefOut, Line
  <2> QED
    BY <1>1, <2>2, <2>5
<1> HIDE DEF Same
<1>3. g \in Same
  BY <1>2, GateInduction
<1> QED
  BY <1>3, ConeClosed DEF Same, a, b

\* Faults outside the cone of a gate do not change what the gate carries.
LEMMA Unaffected ==
  ASSUME NEW net, WellFormed(net), NEW pattern \in [PIs -> Bit], NEW F, NEW g \in GateID,
         \A f \in F : faultGate(f) \notin FaninCone(net, g)
  PROVE  RefValue(net, F, pattern)[g] = RefValue(net, {}, pattern)[g]
<1>1. SameInCone(net, F, {}, g)
  BY DEF SameInCone
<1> QED
  BY <1>1, SameFaultsSameValue

\* The gates related to a gate are closed under fanins: whatever one of them
\* reads is among them.
LEMMA RelatedGatesClosed ==
  ASSUME NEW net, WellFormed(net), NEW k \in GateID, NEW g \in RelatedGates(net, k)
  PROVE  g \in GateID /\ Fanins(net, g) \subseteq RelatedGates(net, k)
<1>1. \A x \in GateID : g \in FaninCone(net, x) => Fanins(net, g) \subseteq FaninCone(net, x)
  BY ConeClosed
<1>2. g \in GateID /\ Fanins(net, g) \subseteq GateID
  BY FaninsPrecede DEF RelatedGates
<1> QED
  BY <1>1, <1>2 DEF RelatedGates, FanoutCone

\* A gate is related to itself.
LEMMA RelatedToItself ==
  ASSUME NEW net, WellFormed(net), NEW g \in GateID
  PROVE  g \in RelatedGates(net, g)
BY ConeClosed DEF RelatedGates

\* A gate that is not related to faults whose gates a primary input reaches
\* carries the same with them and without them.
LEMMA UnrelatedUnaffected ==
  ASSUME NEW net, WellFormed(net), NEW pattern \in [PIs -> Bit], NEW F, NEW g \in GateID,
         \A f \in F : /\ faultGate(f) \in GateID /\ ReachedFromPI(net, faultGate(f))
                     /\ g \notin RelatedGates(net, faultGate(f))
  PROVE  RefValue(net, F, pattern)[g] = RefValue(net, {}, pattern)[g]
<1>1. ASSUME NEW f \in F, faultGate(f) \in FaninCone(net, g)
      PROVE  FALSE
  <2>1. g \in FaninCone(net, g)
    BY ConeClosed
  <2>2. g \in RelatedGates(net, faultGate(f))
    BY <1>1, <2>1 DEF RelatedGates, FanoutCone
  <2> QED
    BY <2>2
<1> QED
  BY <1>1, Unaffected
\* A gate reaches itself, and what its fanouts reach, and nothing else; a
\* primary output reaches nothing but itself.
LEMMA FanoutConeFront ==
  ASSUME NEW net, WellFormed(net), NEW g \in GateID
  PROVE  /\ FanoutCone(net, g) = {g} \cup UNION {FanoutCone(net, k) : k \in Fanouts(net, g)}
         /\ g \in POs => Fanouts(net, g) = {} /\ FanoutCone(net, g) = {g}
<1> DEFINE Through(h) == \E k \in Fanouts(net, g) : k \in FaninCone(net, h)
           Front == {h \in GateID : g \in FaninCone(net, h) /\ h # g => Through(h)}
<1>1. ASSUME NEW h \in GateID, \A x \in GateID : x < h => x \in Front
      PROVE  h \in Front
  <2> SUFFICES ASSUME g \in FaninCone(net, h), h # g PROVE Through(h)
    OBVIOUS
  <2>1. PICK f \in Fanins(net, h) : g \in FaninCone(net, f)
    BY ConeEquation
  <2>2. f \in GateID /\ f < h /\ FaninCone(net, f) \subseteq FaninCone(net, h)
    BY <2>1, FaninsPrecede, ConeEquation
  <2>3. CASE f = g
    BY <2>1, <2>3, ConeClosed DEF Fanouts
  <2>4. CASE f # g
    BY <1>1, <2>1, <2>2, <2>4
  <2> QED
    BY <2>3, <2>4
<1> HIDE DEF Front
<1>2. \A h \in GateID : h \in Front
  BY <1>1, GateInduction
<1>3. ASSUME NEW k \in Fanouts(net, g), NEW h \in FanoutCone(net, k)
      PROVE  h \in FanoutCone(net, g)
  <2>1. h \in GateID /\ k \in FaninCone(net, h) /\ g \in Fanins(net, k)
    BY DEF Fanouts, FanoutCone
  <2> QED
    BY <2>1, ConeClosed DEF FanoutCone
<1>4. g \in FanoutCone(net, g)
  BY ConeClosed DEF FanoutCone
<1>5. ASSUME NEW h \in FanoutCone(net, g), h # g
      PROVE  \E k \in Fanouts(net, g) : h \in FanoutCone(net, k)
  BY <1>2, <1>5 DEF Front, FanoutCone
<1>6. FanoutCone(net, g) = {g} \cup UNION {FanoutCone(net, k) : k \in Fanouts(net, g)}
  BY <1>3, <1>4, <1>5
<1>7. ASSUME g \in POs
      PROVE  Fanouts(net, g) = {}
  BY <1>7, FaninsPrecede DEF Fanouts
<1> QED
  BY <1>6, <1>7

-----------------------------------------------------------------------------
(***************************************************************************)
(* Faults as numbers.                                                      *)
(***************************************************************************)
\* A fault number that names a line of the netlist.
FaultNumber == {FaultID(g, p, v) : g \in GateID, p \in {1, 2, 3}, v \in Bit}

\* Decoding a fault gives back what it was made of.
LEMMA FaultDecoded ==
  ASSUME NEW g \in GateID, NEW p \in {1, 2, 3}, NEW v \in Bit
  PROVE  /\ faultGate(FaultID(g, p, v)) = g
         /\ faultPort(FaultID(g, p, v)) = p
         /\ faultStuckat(FaultID(g, p, v)) = v
<1>1. g \in Nat
  BY SizeNat
<1>2. (8 * g + 2 * p + v) \div 8 = g
  BY <1>1 DEF Bit
<1>3. (8 * g + 2 * p + v) % 2 = v
  BY <1>1 DEF Bit
<1>4. (8 * g + 2 * p + v) \div 2 = 4 * g + p
  BY <1>1 DEF Bit
<1>5. (4 * g + p) % 4 = p
  BY <1>1
<1> QED
  BY <1>2, <1>3, <1>4, <1>5 DEF FaultID, faultGate, faultPort, faultStuckat

\* A fault number leads to a gate of the circuit and holds a bit.
LEMMA FaultNumberFields ==
  ASSUME NEW f \in FaultNumber
  PROVE  faultGate(f) \in GateID /\ faultStuckat(f) \in Bit
BY FaultDecoded DEF FaultNumber

\* The faults of the list are fault numbers.
LEMMA ListedFaults ==
  ASSUME NEW net
  PROVE  allSSAFList(net) \subseteq FaultNumber
BY DEF allSSAFList, FaultNumber

\* A fault number is made of its gate, port and value.
LEMMA FaultNumberMade ==
  ASSUME NEW f \in FaultNumber
  PROVE  /\ f = 8 * faultGate(f) + 2 * faultPort(f) + faultStuckat(f)
         /\ faultGate(f) \in GateID /\ faultPort(f) \in {1, 2, 3} /\ faultStuckat(f) \in {0, 1}
<1>1. PICK g \in GateID, p \in {1, 2, 3}, v \in Bit : f = FaultID(g, p, v)
  BY DEF FaultNumber
<1>2. faultGate(f) = g /\ faultPort(f) = p /\ faultStuckat(f) = v
  BY <1>1, FaultDecoded
<1> QED
  BY <1>1, <1>2 DEF FaultID, Bit

\* Only AIGs have a fault of input 2 in the list.
LEMMA InputTwoOfAigs ==
  ASSUME NEW net, NEW f \in allSSAFList(net), faultPort(f) = 2
  PROVE  net[faultGate(f)].gateType = "aig"
<1>1. \A g \in GateID, p \in {1, 3}, v \in Bit : faultPort(FaultID(g, p, v)) = p
  BY FaultDecoded
<1>2. PICK g \in {h \in GateID : net[h].gateType \in BinaryTypes}, v \in Bit : f = FaultID(g, 2, v)
  BY <1>1 DEF allSSAFList
<1>3. faultGate(f) = g
  BY <1>2, FaultDecoded
<1> QED
  BY <1>2, <1>3 DEF BinaryTypes

\* A cone goes back, along the order of the gates.
LEMMA ConeBelow ==
  ASSUME NEW net, WellFormed(net)
  PROVE  \A g \in GateID : \A h \in FaninCone(net, g) : h <= g
<1> DEFINE Below == {x \in GateID : \A h \in FaninCone(net, x) : h <= x}
<1>1. ASSUME NEW x \in GateID, \A y \in GateID : y < x => y \in Below PROVE x \in Below
  <2> SUFFICES ASSUME NEW h \in FaninCone(net, x) PROVE h <= x OBVIOUS
  <2>1. FaninCone(net, x) = {x} \cup UNION {FaninCone(net, f) : f \in Fanins(net, x)} /\ h \in GateID
    BY ConeEquation
  <2>2. CASE h = x BY <2>2, SizeNat
  <2>3. CASE \E f \in Fanins(net, x) : h \in FaninCone(net, f)
    <3>1. PICK f \in Fanins(net, x) : h \in FaninCone(net, f) BY <2>3
    <3>2. f \in GateID /\ f < x BY FaninsPrecede
    <3>3. h <= f BY <1>1, <3>1, <3>2
    <3>4. h \in Int /\ f \in Int /\ x \in Int BY <2>1, <3>2, SizeNat
    <3> QED BY <3>2, <3>3, <3>4
  <2> QED BY <2>1, <2>2, <2>3
<1> HIDE DEF Below
<1>2. \A x \in GateID : x \in Below BY <1>1, GateInduction
<1> QED BY <1>2 DEF Below

-----------------------------------------------------------------------------
(***************************************************************************)
(* Circuits without fanout: every gate is read once, so that the cones of  *)
(* a gate's inputs are apart, and all that leaves a cone leaves it through *)
(* its gate.                                                               *)
(***************************************************************************)
Tree(net) ==
  /\ \A g \in GateID : \A h, k \in Fanouts(net, g) : h = k
  /\ \A h \in GateID : net[h].gateType = "aig" => net[h].fanin1 # net[h].fanin2

\* What a cone has besides its gate is read within the cone.
LEMMA ReadWithin ==
  ASSUME NEW net, WellFormed(net), Tree(net), NEW g \in GateID, NEW j \in FaninCone(net, g), j # g,
         NEW h \in GateID, j \in Fanins(net, h)
  PROVE  h \in FaninCone(net, g)
<1>1. j \in GateID BY ConeEquation
<1>2. g \in FanoutCone(net, j) BY DEF FanoutCone
<1>3. PICK k \in Fanouts(net, j) : g \in FanoutCone(net, k) BY <1>1, <1>2, FanoutConeFront
<1>4. h \in Fanouts(net, j) BY DEF Fanouts
<1> QED BY <1>1, <1>3, <1>4 DEF Tree, FanoutCone

\* A gate is not in the cone of what it reads.
LEMMA NotBefore ==
  ASSUME NEW net, WellFormed(net), NEW h \in GateID, NEW j \in Fanins(net, h)
  PROVE  h \notin FaninCone(net, j)
<1>1. j \in GateID /\ j < h BY FaninsPrecede
<1>2. h \in Int /\ j \in Int BY <1>1, SizeNat
<1>3. \A k \in FaninCone(net, j) : k <= j BY <1>1, ConeBelow
<1> QED BY <1>1, <1>2, <1>3

\* Of two cones that share a gate one lies in the other.
LEMMA Nested ==
  ASSUME NEW net, WellFormed(net), Tree(net), NEW k \in GateID, NEW x \in FaninCone(net, k)
  PROVE  \A y \in GateID : x \in FaninCone(net, y) => y \in FaninCone(net, k) \/ k \in FaninCone(net, y)
<1> DEFINE S == {y \in GateID : x \in FaninCone(net, y) => y \in FaninCone(net, k) \/ k \in FaninCone(net, y)}
<1>1. ASSUME NEW y \in GateID, \A z \in GateID : z < y => z \in S PROVE y \in S
  <2> SUFFICES ASSUME x \in FaninCone(net, y), x # y PROVE y \in FaninCone(net, k) \/ k \in FaninCone(net, y)
    OBVIOUS
  <2>1. PICK j \in Fanins(net, y) : x \in FaninCone(net, j) BY ConeEquation
  <2>2. j \in GateID /\ j < y BY FaninsPrecede
  <2>3. j \in FaninCone(net, k) \/ k \in FaninCone(net, j) BY <1>1, <2>1, <2>2
  <2>4. FaninCone(net, j) \subseteq FaninCone(net, y) /\ j \in FaninCone(net, y)
    BY <2>2, ConeEquation
  <2>5. CASE j \in FaninCone(net, k) /\ j # k BY <2>5, ReadWithin
  <2> QED BY <2>3, <2>4, <2>5
<1> HIDE DEF S
<1>2. \A y \in GateID : y \in S BY <1>1, GateInduction
<1> QED BY <1>2 DEF S

\* The cones of what a gate reads are apart.
LEMMA ConesApart ==
  ASSUME NEW net, WellFormed(net), Tree(net), NEW h \in GateID, NEW i \in Fanins(net, h), NEW j \in Fanins(net, h), i # j
  PROVE  FaninCone(net, i) \cap FaninCone(net, j) = {}
<1>1. i \in GateID /\ j \in GateID BY FaninsPrecede
<1>2. h \notin FaninCone(net, i) /\ h \notin FaninCone(net, j) BY NotBefore
<1>3. i \notin FaninCone(net, j) /\ j \notin FaninCone(net, i) BY <1>1, <1>2, ReadWithin
<1> QED BY <1>1, <1>3, Nested

\* The faults that sit at gate h.
FaultsAtGate(F, h) == {x \in F : faultGate(x) = h}

\* Gates where the faults and the pattern are the same put out the same for the
\* same inputs.
LEMMA SameStep ==
  ASSUME NEW net, WellFormed(net), NEW F, NEW G, NEW p \in [PIs -> Bit], NEW q \in [PIs -> Bit], NEW h \in GateID,
         FaultsAtGate(F, h) = FaultsAtGate(G, h), h \in PIs => p[h] = q[h],
         \A j \in Fanins(net, h) : RefValue(net, F, p)[j] = RefValue(net, G, q)[j]
  PROVE  RefValue(net, F, p)[h] = RefValue(net, G, q)[h]
<1>1. PICK v, w : v = RefValue(net, F, p) /\ w = RefValue(net, G, q) OBVIOUS
<1>2. v[h] = RefOut(net, F, p, v, h) /\ w[h] = RefOut(net, G, q, w, h) BY <1>1, RefValueEquation
<1>3. RefOut(net, F, p, v, h) = RefOut(net, F, p, w, h) BY <1>1, RefOutLocal
<1>4. \A r : StuckValues(F, h, r) = StuckValues(G, h, r)
  <2>1. \A r : {x \in F : faultGate(x) = h /\ faultPort(x) = r} = {x \in G : faultGate(x) = h /\ faultPort(x) = r}
    BY DEF FaultsAtGate
  <2> QED BY <2>1 DEF StuckValues
<1>5. net[h].gateType = "PI" => h \in PIs BY DEF WellFormed
<1>6. RefOut(net, F, p, w, h) = RefOut(net, G, q, w, h) BY <1>4, <1>5 DEF RefOut, Line
<1> QED BY <1>1, <1>2, <1>3, <1>6

\* What a gate carries depends on the faults and inputs in its cone only.
LEMMA SameConeSameValue ==
  ASSUME NEW net, WellFormed(net), NEW F, NEW G, NEW p \in [PIs -> Bit], NEW q \in [PIs -> Bit], NEW g \in GateID,
         \A h \in FaninCone(net, g) : FaultsAtGate(F, h) = FaultsAtGate(G, h) /\ (h \in PIs => p[h] = q[h])
  PROVE  RefValue(net, F, p)[g] = RefValue(net, G, q)[g]
<1> DEFINE S == {h \in GateID : h \in FaninCone(net, g) => RefValue(net, F, p)[h] = RefValue(net, G, q)[h]}
<1>1. ASSUME NEW h \in GateID, \A k \in GateID : k < h => k \in S PROVE h \in S
  <2> SUFFICES ASSUME h \in FaninCone(net, g) PROVE RefValue(net, F, p)[h] = RefValue(net, G, q)[h] OBVIOUS
  <2>1. \A j \in Fanins(net, h) : RefValue(net, F, p)[j] = RefValue(net, G, q)[j]
    BY <1>1, ConeClosed, FaninsPrecede
  <2> QED BY <2>1, SameStep
<1> HIDE DEF S
<1>2. g \in S BY <1>1, GateInduction
<1>3. g \in FaninCone(net, g) BY ConeClosed
<1> QED BY <1>2, <1>3 DEF S

\* A gate is a cut: what is the same there and differs only in its cone is the
\* same outside of the cone, and at all outputs.
LEMMA GateCut ==
  ASSUME NEW net, WellFormed(net), Tree(net), NEW F, NEW G, NEW p \in [PIs -> Bit], NEW q \in [PIs -> Bit], NEW g \in GateID,
         RefValue(net, F, p)[g] = RefValue(net, G, q)[g],
         \A h \in GateID \ FaninCone(net, g) : FaultsAtGate(F, h) = FaultsAtGate(G, h) /\ (h \in PIs => p[h] = q[h])
  PROVE  /\ \A h \in GateID \ FaninCone(net, g) : RefValue(net, F, p)[h] = RefValue(net, G, q)[h]
         /\ \A o \in POs : RefValue(net, F, p)[o] = RefValue(net, G, q)[o]
<1> DEFINE S == {h \in GateID : h \notin FaninCone(net, g) => RefValue(net, F, p)[h] = RefValue(net, G, q)[h]}
<1>1. ASSUME NEW h \in GateID, \A k \in GateID : k < h => k \in S PROVE h \in S
  <2> SUFFICES ASSUME h \notin FaninCone(net, g) PROVE RefValue(net, F, p)[h] = RefValue(net, G, q)[h] OBVIOUS
  <2>1. ASSUME NEW j \in Fanins(net, h) PROVE RefValue(net, F, p)[j] = RefValue(net, G, q)[j]
    <3>1. j \in GateID /\ j < h BY FaninsPrecede
    <3>2. CASE j = g BY <3>2
    <3>3. CASE j # g
      <4>1. j \notin FaninCone(net, g) BY <3>3, ReadWithin
      <4> QED BY <1>1, <3>1, <4>1
    <3> QED BY <3>2, <3>3
  <2> QED BY <2>1, SameStep
<1> HIDE DEF S
<1>2. \A h \in GateID : h \in S BY <1>1, GateInduction
<1>3. ASSUME NEW o \in POs PROVE RefValue(net, F, p)[o] = RefValue(net, G, q)[o]
  <2>1. o \in GateID BY SizeAssumption DEF POs, GateID, Size
  <2>2. o \in FaninCone(net, g) => o = g
    <3>1. FanoutCone(net, o) = {o} BY <2>1, FanoutConeFront
    <3> QED BY <3>1 DEF FanoutCone
  <2> QED BY <1>2, <2>1, <2>2 DEF S
<1> QED BY <1>2, <1>3 DEF S

-----------------------------------------------------------------------------
(***************************************************************************)
(* A test of a fault at an input of an AIG, in a circuit without fanout:   *)
(* along one path everything differs from the fault-free values, and       *)
(* nothing else does.                                                      *)
(***************************************************************************)
InputOf(net, g, r) == IF r = 1 THEN net[g].fanin1 ELSE net[g].fanin2
Flag(net, g, r) == IF r = 1 THEN net[g].invIn1 ELSE net[g].invIn2

\* What arrives at input r of gate g.
LineValue(net, F, p, g, r) == Line(F, g, r, RefValue(net, F, p)[InputOf(net, g, r)])

\* The inputs a gate has.
GateInputs(net, g) ==
  CASE net[g].gateType = "aig" -> {1, 2}
    [] net[g].gateType \in {"bufInv", "PO"} -> {1}
    [] OTHER -> {}

\* What a gate makes of its inputs.
Opposite(v) == 1 - v
AigOut(gate, open) == IF open THEN gate.invOut ELSE Opposite(gate.invOut)

\* The opposite of a bit is the other one.
LEMMA Opposites ==
  \A v \in Bit : Opposite(v) \in Bit /\ Opposite(v) # v /\ Opposite(Opposite(v)) = v /\ \A w \in Bit : w # v => w = Opposite(v)
BY DEF Opposite, Bit


\* An AIG puts out what its two lines decide, unless its output is stuck.
LEMMA AigValue ==
  ASSUME NEW net, WellFormed(net), NEW F, NEW p \in [PIs -> Bit], NEW g \in GateID, net[g].gateType = "aig", NEW r \in {1, 2}
  PROVE  RefValue(net, F, p)[g] =
           Line(F, g, 3, AigOut(net[g], /\ LineValue(net, F, p, g, r) = Flag(net, g, r)
                                        /\ LineValue(net, F, p, g, 3 - r) = Flag(net, g, 3 - r)))
<1>1. PICK v, gate : v = RefValue(net, F, p) /\ gate = net[g] OBVIOUS
<1>2. v[g] = RefOut(net, F, p, v, g) BY <1>1, RefValueEquation
<1>3. PICK i1, i2 : i1 = Line(F, g, 1, v[gate.fanin1]) /\ i2 = Line(F, g, 2, v[gate.fanin2]) OBVIOUS
<1>4. v[g] = Line(F, g, 3, getOutValue(gate, i1, i2)) BY <1>1, <1>2, <1>3 DEF RefOut
<1>5. getOutValue(gate, i1, i2) = AigOut(gate, i1 = gate.invIn1 /\ i2 = gate.invIn2)
  BY <1>1 DEF getOutValue, AigOut, Opposite
<1>6. /\ LineValue(net, F, p, g, 1) = i1 /\ LineValue(net, F, p, g, 2) = i2
      /\ Flag(net, g, 1) = gate.invIn1 /\ Flag(net, g, 2) = gate.invIn2
  BY <1>1, <1>3 DEF LineValue, InputOf, Flag
<1>7. CASE r = 1
  <2>1. 3 - r = 2 BY <1>7
  <2> QED BY <1>1, <1>4, <1>5, <1>6, <1>7, <2>1
<1>8. CASE r = 2
  <2>1. 3 - r = 1 BY <1>8
  <2>2. AigOut(gate, i1 = gate.invIn1 /\ i2 = gate.invIn2) = AigOut(gate, i2 = gate.invIn2 /\ i1 = gate.invIn1)
    BY DEF AigOut
  <2> QED BY <1>1, <1>4, <1>5, <1>6, <1>8, <2>1, <2>2
<1> QED BY <1>7, <1>8

\* A buffer, inverter or output puts out what its input, unhindered, decides.
OneOut(gate, v) == IF gate.gateType = "PO" THEN v ELSE AigOut(gate, v = gate.invIn1)

\* The same for the other gates.
LEMMA OneValue ==
  ASSUME NEW net, WellFormed(net), NEW F, NEW p \in [PIs -> Bit], NEW g \in GateID, net[g].gateType \in {"bufInv", "PO"}
  PROVE  RefValue(net, F, p)[g] = Line(F, g, 3, OneOut(net[g], LineValue(net, F, p, g, 1)))
<1>1. PICK v, gate : v = RefValue(net, F, p) /\ gate = net[g] OBVIOUS
<1>2. v[g] = RefOut(net, F, p, v, g) BY <1>1, RefValueEquation
<1>3. PICK i1, i2 : i1 = Line(F, g, 1, v[gate.fanin1]) /\ i2 = Line(F, g, 2, v[gate.fanin2]) OBVIOUS
<1>4. v[g] = Line(F, g, 3, getOutValue(gate, i1, i2)) BY <1>1, <1>2, <1>3 DEF RefOut
<1>5. getOutValue(gate, i1, i2) = OneOut(gate, i1)
  BY <1>1 DEF getOutValue, AigOut, Opposite, OneOut
<1>6. LineValue(net, F, p, g, 1) = i1 BY <1>1, <1>3 DEF LineValue, InputOf
<1> QED BY <1>1, <1>4, <1>5, <1>6

\* Lines carry bits, and what drives an input is a fanin.
LEMMA LinesOf ==
  ASSUME NEW net, WellFormed(net), NEW g \in GateID
  PROVE  /\ net[g] \in Gate /\ net[g].invOut \in Bit
         /\ \A r \in GateInputs(net, g) : InputOf(net, g, r) \in Fanins(net, g)
         /\ \A j \in Fanins(net, g) : \E r \in GateInputs(net, g) : InputOf(net, g, r) = j
         /\ \A r : Flag(net, g, r) \in Bit
         /\ \A F : \A p \in [PIs -> Bit], r \in GateInputs(net, g) : LineValue(net, F, p, g, r) \in Bit
         /\ Tree(net) => \A r, s \in GateInputs(net, g) : r # s => InputOf(net, g, r) # InputOf(net, g, s)
<1>1. net[g] \in Gate BY DEF WellFormed
<1>2. net[g].invOut \in Bit /\ net[g].invIn1 \in Bit /\ net[g].invIn2 \in Bit /\ net[g].gateType \in Type BY <1>1 DEF Gate
<1>3. \A r \in GateInputs(net, g) : InputOf(net, g, r) \in Fanins(net, g) BY DEF GateInputs, InputOf, Fanins
<1>4. \A j \in Fanins(net, g) : \E r \in GateInputs(net, g) : InputOf(net, g, r) = j BY <1>2 DEF GateInputs, InputOf, Fanins, Type
<1>5. \A r : Flag(net, g, r) \in Bit BY <1>2 DEF Flag
<1>6. ASSUME NEW F, NEW p \in [PIs -> Bit], NEW r \in GateInputs(net, g) PROVE LineValue(net, F, p, g, r) \in Bit
  <2>1. InputOf(net, g, r) \in GateID BY <1>3, FaninsPrecede
  <2>2. RefValue(net, F, p)[InputOf(net, g, r)] \in Bit BY <2>1, RefValueEquation
  <2> QED BY <2>2, LineBit DEF LineValue
<1>7. ASSUME Tree(net), NEW r \in GateInputs(net, g), NEW s \in GateInputs(net, g), r # s PROVE InputOf(net, g, r) # InputOf(net, g, s)
  <2>1. net[g].gateType = "aig" => net[g].fanin1 # net[g].fanin2 BY <1>7 DEF Tree
  <2> QED BY <1>7, <2>1 DEF GateInputs, InputOf
<1> QED BY <1>1, <1>2, <1>3, <1>4, <1>5, <1>6, <1>7

\* Without a fault at line r of gate g, or at most the one of another line.
LEMMA FreeLine ==
  ASSUME NEW F, NEW g, NEW r, NEW v, \A x \in F : faultGate(x) = g => faultPort(x) # r
  PROVE  Line(F, g, r, v) = v
<1>1. StuckValues(F, g, r) = {} BY DEF StuckValues
<1> QED BY <1>1 DEF Line

\* The one fault of a line holds it.
LEMMA StuckLine ==
  ASSUME NEW F, NEW g \in GateID, NEW r \in {1, 2, 3}, NEW u \in Bit, NEW v, FaultID(g, r, u) \in F,
         \A x \in F : faultGate(x) = g /\ faultPort(x) = r => x = FaultID(g, r, u)
  PROVE  Line(F, g, r, v) = u
<1>1. StuckValues(F, g, r) = {u} BY FaultDecoded DEF StuckValues
<1> QED BY <1>1 DEF Line, Held, Bit

\* The fault at a line: its place, and the value of the line.
LEMMA OneFault ==
  ASSUME NEW h \in GateID, NEW k \in {1, 2, 3}, NEW v \in Bit
  PROVE  /\ faultGate(FaultID(h, k, v)) = h /\ faultPort(FaultID(h, k, v)) = k
         /\ \A w : Line({FaultID(h, k, v)}, h, k, w) = v
<1>1. faultGate(FaultID(h, k, v)) = h /\ faultPort(FaultID(h, k, v)) = k BY FaultDecoded
<1>2. ASSUME NEW w PROVE Line({FaultID(h, k, v)}, h, k, w) = v
  <2>1. FaultID(h, k, v) \in {FaultID(h, k, v)} OBVIOUS
  <2>2. \A x \in {FaultID(h, k, v)} : faultGate(x) = h /\ faultPort(x) = k => x = FaultID(h, k, v) OBVIOUS
  <2> QED BY <2>1, <2>2, StuckLine
<1> QED BY <1>1, <1>2

\* The fault at input q of AIG a, stuck at u, is detected by pattern p; the input
\* is a primary input's.
Tested(net, a, q, u, p) ==
  /\ WellFormed(net) /\ Tree(net)
  /\ a \in GateID /\ net[a].gateType = "aig" /\ q \in {1, 2} /\ u \in Bit /\ p \in [PIs -> Bit]
  /\ InputOf(net, a, q) \in PIs
  /\ RefDetects(net, {FaultID(a, q, u)}, p)

\* The tested fault and its line.
LEMMA TestedFault ==
  ASSUME NEW net, NEW a, NEW q, NEW u, NEW p, Tested(net, a, q, u, p)
  PROVE  /\ faultGate(FaultID(a, q, u)) = a /\ faultPort(FaultID(a, q, u)) = q
         /\ q \in GateInputs(net, a) /\ a \notin POs
         /\ a \in FaninCone(net, a)
         /\ InputOf(net, a, q) \in GateID /\ InputOf(net, a, q) \in Fanins(net, a)
<1>1. q \in GateInputs(net, a) BY DEF Tested, GateInputs
<1>2. InputOf(net, a, q) \in Fanins(net, a) BY <1>1, LinesOf DEF Tested
<1>3. InputOf(net, a, q) \in GateID BY <1>2, FaninsPrecede DEF Tested
<1>4. a \notin POs BY DEF Tested, WellFormed
<1> QED BY <1>1, <1>2, <1>3, <1>4, FaultDecoded, ConeClosed DEF Tested

\* What the fault can reach differs, and nothing else.
LEMMA PathDiffers ==
  ASSUME NEW net, NEW a, NEW q, NEW u, NEW p, Tested(net, a, q, u, p)
  PROVE  \A h \in GateID : RefValue(net, {FaultID(a, q, u)}, p)[h] # RefValue(net, {}, p)[h] <=> a \in FaninCone(net, h)
<1>1. PICK f : f = FaultID(a, q, u) OBVIOUS
<1>2. faultGate(f) = a /\ faultPort(f) = q BY <1>1, TestedFault
<1>0. WellFormed(net) /\ Tree(net) /\ p \in [PIs -> Bit] BY DEF Tested
<1>3. ASSUME NEW h \in GateID, a \in FaninCone(net, h), RefValue(net, {f}, p)[h] = RefValue(net, {}, p)[h] PROVE FALSE
  <2>1. \A k \in GateID \ FaninCone(net, h) : FaultsAtGate({f}, k) = FaultsAtGate({}, k) /\ (k \in PIs => p[k] = p[k])
    BY <1>2, <1>3 DEF FaultsAtGate
  <2>2. \A o \in POs : RefValue(net, {f}, p)[o] = RefValue(net, {}, p)[o] BY <1>0, <1>3, <2>1, GateCut, SMTT(40)
  <2> QED BY <1>1, <2>2 DEF Tested, RefDetects
<1>4. ASSUME NEW h \in GateID, a \notin FaninCone(net, h) PROVE RefValue(net, {f}, p)[h] = RefValue(net, {}, p)[h]
  BY <1>2, <1>4, Unaffected DEF Tested
<1> QED BY <1>1, <1>3, <1>4

\* The input of the faulty line carries the other value.
LEMMA FaultExcited ==
  ASSUME NEW net, NEW a, NEW q, NEW u, NEW p, Tested(net, a, q, u, p)
  PROVE  RefValue(net, {}, p)[InputOf(net, a, q)] = Opposite(u)
<1>1. PICK f : f = FaultID(a, q, u) OBVIOUS
<1>2. faultGate(f) = a /\ faultPort(f) = q BY <1>1, TestedFault
<1>4. \A h \in GateID : RefValue(net, {f}, p)[h] # RefValue(net, {}, p)[h] <=> a \in FaninCone(net, h) BY <1>1, PathDiffers
<1>5. RefValue(net, {}, p)[InputOf(net, a, q)] \in Bit BY TestedFault, RefValueEquation DEF Tested
<1>6. ASSUME RefValue(net, {}, p)[InputOf(net, a, q)] = u PROVE FALSE
  <2>1. a \notin FaninCone(net, InputOf(net, a, q)) /\ \A s \in GateInputs(net, a) : a \notin FaninCone(net, InputOf(net, a, s))
    BY TestedFault, NotBefore, LinesOf DEF Tested
  <2>2. ASSUME NEW s \in GateInputs(net, a) PROVE LineValue(net, {f}, p, a, s) = LineValue(net, {}, p, a, s)
    <3>1. PICK v : v = RefValue(net, {}, p)[InputOf(net, a, s)] OBVIOUS
    <3>2. InputOf(net, a, s) \in GateID BY LinesOf, FaninsPrecede DEF Tested
    <3>3. RefValue(net, {f}, p)[InputOf(net, a, s)] = v BY <1>4, <2>1, <3>1, <3>2
    <3>4. Line({}, a, s, v) = v BY FreeLine
    <3>5. CASE s = q
      <4>1. Line({f}, a, q, v) = u
        <5>1. a \in GateID /\ q \in {1, 2, 3} /\ u \in Bit BY DEF Tested
        <5>2. f = FaultID(a, q, u) BY <1>1
        <5> QED BY <5>1, <5>2, OneFault
      <4> QED BY <1>6, <3>1, <3>3, <3>4, <3>5, <4>1 DEF LineValue
    <3>6. CASE s # q
      <4>1. Line({f}, a, s, v) = v BY <1>2, <3>6, FreeLine
      <4> QED BY <3>1, <3>3, <3>4, <4>1 DEF LineValue
    <3> QED BY <3>5, <3>6
  <2>3. LineValue(net, {f}, p, a, 1) = LineValue(net, {}, p, a, 1) /\ LineValue(net, {f}, p, a, 2) = LineValue(net, {}, p, a, 2)
    BY <2>2 DEF GateInputs, Tested
  <2>4. \A v : Line({f}, a, 3, v) = v /\ Line({}, a, 3, v) = v
    <3>1. q # 3 BY DEF Tested
    <3> QED BY <1>2, <3>1, FreeLine
  <2>5. /\ RefValue(net, {f}, p)[a] = Line({f}, a, 3, AigOut(net[a], LineValue(net, {f}, p, a, 1) = Flag(net, a, 1) /\ LineValue(net, {f}, p, a, 3 - 1) = Flag(net, a, 3 - 1)))
        /\ RefValue(net, {}, p)[a] = Line({}, a, 3, AigOut(net[a], LineValue(net, {}, p, a, 1) = Flag(net, a, 1) /\ LineValue(net, {}, p, a, 3 - 1) = Flag(net, a, 3 - 1)))
    BY AigValue, ZenonT(60) DEF Tested
  <2>6. 3 - 1 = 2 OBVIOUS
  <2>7. RefValue(net, {f}, p)[a] = RefValue(net, {}, p)[a] BY <2>3, <2>4, <2>5, <2>6
  <2> QED BY <1>4, <2>7, TestedFault DEF Tested
<1>7. RefValue(net, {}, p)[InputOf(net, a, q)] = Opposite(u)
  <2>1. u \in Bit BY DEF Tested
  <2> QED BY <1>5, <1>6, <2>1 DEF Bit, Opposite
<1> QED BY <1>7

\* What is in a cone brings its own cone with it.
LEMMA ConeTransitive ==
  ASSUME NEW net, WellFormed(net), NEW y \in GateID
  PROVE  \A k \in FaninCone(net, y) : k \in GateID /\ FaninCone(net, k) \subseteq FaninCone(net, y)
<1> DEFINE S == {z \in GateID : z \in FaninCone(net, y) => FaninCone(net, z) \subseteq FaninCone(net, y)}
<1>1. ASSUME NEW z \in GateID, \A w \in GateID : w < z => w \in S PROVE z \in S
  <2> SUFFICES ASSUME z \in FaninCone(net, y) PROVE FaninCone(net, z) \subseteq FaninCone(net, y) OBVIOUS
  <2>1. \A j \in Fanins(net, z) : j \in FaninCone(net, y) /\ j \in GateID /\ j < z BY ConeClosed, FaninsPrecede
  <2>2. \A j \in Fanins(net, z) : FaninCone(net, j) \subseteq FaninCone(net, y) BY <1>1, <2>1
  <2> QED BY <2>2, ConeEquation
<1> HIDE DEF S
<1>2. \A z \in GateID : z \in S BY <1>1, GateInduction
<1> QED BY <1>2, ConeEquation DEF S

\* The input of the path: at the faulty gate the faulty one, behind it the one
\* that the path comes from.
EntersBy(net, a, q, h, r) == IF h = a THEN r = q ELSE a \in FaninCone(net, InputOf(net, h, r))

\* The path enters a gate by one input; the other inputs and what is behind
\* them are off the path.
LEMMA OneEntrance ==
  ASSUME NEW net, NEW a, NEW q, NEW u, NEW p, Tested(net, a, q, u, p), NEW h \in GateID, a \in FaninCone(net, h)
  PROVE  /\ \E r \in GateInputs(net, h) : EntersBy(net, a, q, h, r)
         /\ \A r, s \in GateInputs(net, h) : EntersBy(net, a, q, h, r) /\ r # s =>
              /\ ~ EntersBy(net, a, q, h, s)
              /\ a \notin FaninCone(net, InputOf(net, h, s))
              /\ \A k \in FaninCone(net, InputOf(net, h, s)) : a \notin FaninCone(net, k)
         /\ \A r \in GateInputs(net, h) : a \in FaninCone(net, InputOf(net, h, r)) => EntersBy(net, a, q, h, r)
<1>1. WellFormed(net) /\ Tree(net) BY DEF Tested
<1>2. \A k, x, y \in GateID : k \in FaninCone(net, y) /\ x \in FaninCone(net, k) => x \in FaninCone(net, y)
  BY <1>1, ConeTransitive
<1>3. \A r \in GateInputs(net, h) : InputOf(net, h, r) \in GateID /\ InputOf(net, h, r) \in Fanins(net, h)
  BY <1>1, LinesOf, FaninsPrecede
<1>4. CASE h = a
  <2>1. \A r \in GateInputs(net, a) : a \notin FaninCone(net, InputOf(net, a, r)) BY <1>1, <1>3, <1>4, NotBefore
  <2>2. \A r \in GateInputs(net, a) : \A k \in FaninCone(net, InputOf(net, a, r)) : a \notin FaninCone(net, k)
    BY <1>1, <1>2, <1>3, <1>4, <2>1, ConeClosed
  <2> QED BY <1>4, <2>1, <2>2, TestedFault DEF EntersBy
<1>5. CASE h # a
  <2>1. PICK j \in Fanins(net, h) : a \in FaninCone(net, j) BY <1>1, <1>5, ConeEquation
  <2>2. PICK r \in GateInputs(net, h) : InputOf(net, h, r) = j BY <1>1, LinesOf
  <2>3. ASSUME NEW s \in GateInputs(net, h), NEW t \in GateInputs(net, h), s # t, a \in FaninCone(net, InputOf(net, h, s))
        PROVE  /\ a \notin FaninCone(net, InputOf(net, h, t))
               /\ \A k \in FaninCone(net, InputOf(net, h, t)) : a \notin FaninCone(net, k)
    <3>1. InputOf(net, h, s) # InputOf(net, h, t) BY <1>1, <2>3, LinesOf
    <3>2. a \notin FaninCone(net, InputOf(net, h, t)) BY <1>1, <1>3, <2>3, <3>1, ConesApart
    <3>3. a \in GateID BY DEF Tested
    <3> QED BY <1>1, <1>2, <1>3, <3>2, <3>3, ConeClosed
  <2> QED BY <1>5, <2>1, <2>2, <2>3 DEF EntersBy
<1> QED BY <1>4, <1>5

\* A primary input carries what the pattern gives it.
LEMMA InputValue ==
  ASSUME NEW net, WellFormed(net), NEW p \in [PIs -> Bit], NEW g \in PIs
  PROVE  g \in GateID /\ RefValue(net, {}, p)[g] = p[g]
<1>1. g \in GateID BY SizeAssumption DEF PIs, GateID, Size
<1>2. net[g].gateType = "PI" BY <1>1 DEF WellFormed
<1>3. RefValue(net, {}, p)[g] = RefOut(net, {}, p, RefValue(net, {}, p), g) BY <1>1, RefValueEquation
<1>4. \A r, v : Line({}, g, r, v) = v BY FreeLine
<1> QED BY <1>1, <1>2, <1>3, <1>4 DEF RefOut

\* The fault holds its line and no other.
LEMMA FaultyLine ==
  ASSUME NEW net, NEW a, NEW q, NEW u, NEW p, Tested(net, a, q, u, p), NEW h \in GateID, NEW r
  PROVE  LineValue(net, {FaultID(a, q, u)}, p, h, r) =
           IF h = a /\ r = q THEN u ELSE RefValue(net, {FaultID(a, q, u)}, p)[InputOf(net, h, r)]
<1>1. PICK f : f = FaultID(a, q, u) OBVIOUS
<1>2. faultGate(f) = a /\ faultPort(f) = q BY <1>1, TestedFault
<1>3. PICK w : w = RefValue(net, {f}, p)[InputOf(net, h, r)] OBVIOUS
<1>4. CASE h = a /\ r = q
  <2>1. a \in GateID /\ q \in {1, 2, 3} /\ u \in Bit BY DEF Tested
  <2>2. FaultID(a, q, u) \in {f} /\ \A x \in {f} : faultGate(x) = a /\ faultPort(x) = q => x = FaultID(a, q, u) BY <1>1
  <2>3. Line({f}, a, q, w) = u BY <2>1, <2>2, StuckLine
  <2> QED BY <1>1, <1>3, <1>4, <2>3 DEF LineValue
<1>5. CASE ~ (h = a /\ r = q)
  <2>1. Line({f}, h, r, w) = w BY <1>2, <1>5, FreeLine
  <2> QED BY <1>1, <1>3, <1>5, <2>1 DEF LineValue
<1> QED BY <1>4, <1>5

\* The lines of a gate on the path: the one of the path is inverted, the others
\* are as they were.
LEMMA PathLines ==
  ASSUME NEW net, NEW a, NEW q, NEW u, NEW p, Tested(net, a, q, u, p), NEW h \in GateID, a \in FaninCone(net, h),
         NEW r \in GateInputs(net, h)
  PROVE  /\ LineValue(net, {}, p, h, r) = RefValue(net, {}, p)[InputOf(net, h, r)]
         /\ LineValue(net, {}, p, h, r) \in Bit
         /\ EntersBy(net, a, q, h, r) => LineValue(net, {FaultID(a, q, u)}, p, h, r) = Opposite(LineValue(net, {}, p, h, r))
         /\ ~ EntersBy(net, a, q, h, r) => LineValue(net, {FaultID(a, q, u)}, p, h, r) = LineValue(net, {}, p, h, r)
<1>1. PICK f : f = FaultID(a, q, u) OBVIOUS
<1>2. faultGate(f) = a /\ faultPort(f) = q BY <1>1, TestedFault
<1>3. WellFormed(net) /\ Tree(net) /\ p \in [PIs -> Bit] BY DEF Tested
<1>4. PICK j, v, w : j = InputOf(net, h, r) /\ v = RefValue(net, {}, p)[j] /\ w = RefValue(net, {f}, p)[j] OBVIOUS
<1>5. j \in GateID /\ j \in Fanins(net, h) BY <1>3, <1>4, LinesOf, FaninsPrecede
<1>6. v \in Bit /\ w \in Bit BY <1>3, <1>4, <1>5, RefValueEquation
<1>7. LineValue(net, {}, p, h, r) = v BY <1>4, FreeLine DEF LineValue
<1>8. h # a \/ r # q => LineValue(net, {f}, p, h, r) = w BY <1>1, <1>3, <1>4, FaultyLine
<1>9. h = a /\ r = q => LineValue(net, {f}, p, h, r) = u BY <1>1, <1>3, FaultyLine
<1>10. w # v <=> a \in FaninCone(net, j) BY <1>1, <1>4, <1>5, PathDiffers
<1>11. h = a /\ r = q => v = Opposite(u)
  <2>1. RefValue(net, {}, p)[InputOf(net, a, q)] = Opposite(u) BY FaultExcited
  <2> QED BY <1>4, <2>1
<1>12. h = a => a \notin FaninCone(net, j) BY <1>3, <1>5, NotBefore
<1>13. u \in Bit BY DEF Tested
<1>14. CASE h = a
  <2>1. EntersBy(net, a, q, h, r) <=> r = q BY <1>14 DEF EntersBy
  <2>2. w = v BY <1>10, <1>12, <1>14
  <2>3. CASE r = q
    <3>1. u = Opposite(v) BY <1>11, <1>13, <1>14, <2>3, Opposites
    <3> QED BY <1>1, <1>4, <1>6, <1>7, <1>9, <1>14, <2>1, <2>3, <3>1
  <2>4. CASE r # q BY <1>1, <1>4, <1>6, <1>7, <1>8, <2>1, <2>2, <2>4
  <2> QED BY <2>3, <2>4
<1>15. CASE h # a
  <2>1. EntersBy(net, a, q, h, r) <=> a \in FaninCone(net, j) BY <1>4, <1>15 DEF EntersBy
  <2>2. w # v => w = Opposite(v) BY <1>6, Opposites
  <2> QED BY <1>1, <1>4, <1>6, <1>7, <1>8, <1>10, <1>15, <2>1, <2>2
<1> QED BY <1>14, <1>15

\* The pattern with the faulty input inverted: what the circuit carries without
\* fault is what the faulty one carries under the test.
Inverted(net, a, q, p) == [p EXCEPT ![InputOf(net, a, q)] = Opposite(@)]

\* Without fault it gives what the test gives with it.
LEMMA InvertedValues ==
  ASSUME NEW net, NEW a, NEW q, NEW u, NEW p, Tested(net, a, q, u, p)
  PROVE  /\ Inverted(net, a, q, p) \in [PIs -> Bit]
         /\ \A k \in PIs : k # InputOf(net, a, q) => Inverted(net, a, q, p)[k] = p[k]
         /\ \A h \in GateID : h # InputOf(net, a, q) =>
              RefValue(net, {}, Inverted(net, a, q, p))[h] = RefValue(net, {FaultID(a, q, u)}, p)[h]
<1>1. PICK f, x, t : f = FaultID(a, q, u) /\ x = InputOf(net, a, q) /\ t = Inverted(net, a, q, p) OBVIOUS
<1>2. faultGate(f) = a /\ faultPort(f) = q /\ x \in Fanins(net, a) BY <1>1, TestedFault
<1>3. WellFormed(net) /\ Tree(net) /\ p \in [PIs -> Bit] /\ x \in PIs /\ a \in GateID /\ u \in Bit BY <1>1 DEF Tested
<1>4. t = [p EXCEPT ![x] = Opposite(p[x])] BY <1>1 DEF Inverted
<1>5. t \in [PIs -> Bit] /\ (\A k \in PIs : k # x => t[k] = p[k]) /\ t[x] = Opposite(p[x])
  <2>1. p[x] \in Bit BY <1>3
  <2>2. Opposite(p[x]) \in Bit BY <2>1, Opposites
  <2> QED BY <1>3, <1>4, <2>2
<1>6. RefValue(net, {}, t)[x] = u
  <2>1. RefValue(net, {}, t)[x] = Opposite(p[x]) BY <1>3, <1>5, InputValue
  <2>2. RefValue(net, {}, p)[InputOf(net, a, q)] = Opposite(u) BY FaultExcited
  <2>3. p[x] = Opposite(u) BY <1>1, <1>3, <2>2, InputValue
  <2> QED BY <1>3, <2>1, <2>3, Opposites
<1> DEFINE S == {h \in GateID : h # x => RefValue(net, {}, t)[h] = RefValue(net, {f}, p)[h]}
<1>7. ASSUME NEW h \in GateID, \A k \in GateID : k < h => k \in S PROVE h \in S
  <2> SUFFICES ASSUME h # x PROVE RefValue(net, {}, t)[h] = RefValue(net, {f}, p)[h] OBVIOUS
  <2>1. \A j \in Fanins(net, h) : j \in GateID /\ (j # x => RefValue(net, {}, t)[j] = RefValue(net, {f}, p)[j])
    BY <1>3, <1>7, FaninsPrecede
  <2>2. CASE h # a
    <3>1. x \notin Fanins(net, h)
      <4>1. x \in GateID BY <1>2, <1>3, FaninsPrecede
      <4>2. x \in Fanins(net, h) => h \in Fanouts(net, x) /\ a \in Fanouts(net, x) BY <1>2, <1>3 DEF Fanouts
      <4> QED BY <1>3, <2>2, <4>1, <4>2 DEF Tree
    <3>2. \A j \in Fanins(net, h) : RefValue(net, {}, t)[j] = RefValue(net, {f}, p)[j] BY <2>1, <3>1
    <3>3. FaultsAtGate({}, h) = FaultsAtGate({f}, h) BY <1>2, <2>2 DEF FaultsAtGate
    <3> QED BY <1>3, <1>5, <3>2, <3>3, SameStep, SMTT(40)
  <2>3. CASE h = a
    <3>1. ASSUME NEW s \in GateInputs(net, a) PROVE LineValue(net, {}, t, a, s) = LineValue(net, {f}, p, a, s)
      <4>1. LineValue(net, {}, t, a, s) = RefValue(net, {}, t)[InputOf(net, a, s)] BY FreeLine DEF LineValue
      <4>2. a \in FaninCone(net, a) BY <1>3, ConeClosed
      <4>3. CASE s = q BY <1>1, <1>3, <1>6, <4>1, <4>3, FaultyLine
      <4>4. CASE s # q
        <5>1. InputOf(net, a, s) \in Fanins(net, a) /\ InputOf(net, a, s) # x
          BY <1>1, <1>3, <4>4, LinesOf, TestedFault
        <5>2. LineValue(net, {f}, p, a, s) = RefValue(net, {f}, p)[InputOf(net, a, s)]
          <6>1. LineValue(net, {FaultID(a, q, u)}, p, a, s) = RefValue(net, {FaultID(a, q, u)}, p)[InputOf(net, a, s)]
            BY <1>3, <4>4, FaultyLine
          <6> QED BY <1>1, <6>1
        <5> QED BY <2>1, <2>3, <4>1, <5>1, <5>2
      <4> QED BY <4>3, <4>4
    <3>2. LineValue(net, {}, t, a, 1) = LineValue(net, {f}, p, a, 1) /\ LineValue(net, {}, t, a, 2) = LineValue(net, {f}, p, a, 2)
      BY <3>1 DEF GateInputs, Tested
    <3>3. \A v : Line({f}, a, 3, v) = v /\ Line({}, a, 3, v) = v
      <4>1. q # 3 BY DEF Tested
      <4> QED BY <1>2, <4>1, FreeLine
    <3>4. ASSUME NEW F, NEW y \in [PIs -> Bit]
          PROVE  RefValue(net, F, y)[a] =
            Line(F, a, 3, AigOut(net[a], LineValue(net, F, y, a, 1) = Flag(net, a, 1) /\ LineValue(net, F, y, a, 2) = Flag(net, a, 2)))
      <4>1. 3 - 1 = 2 OBVIOUS
      <4>2. net[a].gateType = "aig" BY DEF Tested
      <4>3. RefValue(net, F, y)[a] =
            Line(F, a, 3, AigOut(net[a], LineValue(net, F, y, a, 1) = Flag(net, a, 1) /\ LineValue(net, F, y, a, 3 - 1) = Flag(net, a, 3 - 1)))
        BY <1>3, <4>2, AigValue
      <4> QED BY <4>1, <4>3
    <3>5. RefValue(net, {}, t)[a] = Line({}, a, 3, AigOut(net[a], LineValue(net, {}, t, a, 1) = Flag(net, a, 1) /\ LineValue(net, {}, t, a, 2) = Flag(net, a, 2)))
      BY <1>5, <3>4
    <3>6. RefValue(net, {f}, p)[a] = Line({f}, a, 3, AigOut(net[a], LineValue(net, {f}, p, a, 1) = Flag(net, a, 1) /\ LineValue(net, {f}, p, a, 2) = Flag(net, a, 2)))
      BY <1>3, <3>4
    <3> QED BY <2>3, <3>2, <3>3, <3>5, <3>6
  <2> QED BY <2>2, <2>3
<1> HIDE DEF S
<1>8. \A h \in GateID : h \in S BY <1>7, GateInduction
<1> QED BY <1>1, <1>5, <1>8 DEF S

\* A gate whose lines are the same, and whose output is free, is the same.
FreeOutput(F, h) == \A x \in F : faultGate(x) = h => faultPort(x) # 3

\* Two circuits, or one under two patterns, compared at such a gate.
LEMMA SameLines ==
  ASSUME NEW net, WellFormed(net), NEW F, NEW G, NEW p \in [PIs -> Bit], NEW t \in [PIs -> Bit], NEW h \in GateID,
         GateInputs(net, h) # {}, FreeOutput(F, h), FreeOutput(G, h),
         \A r \in GateInputs(net, h) : LineValue(net, F, p, h, r) = LineValue(net, G, t, h, r)
  PROVE  RefValue(net, F, p)[h] = RefValue(net, G, t)[h]
<1>1. \A v : Line(F, h, 3, v) = v /\ Line(G, h, 3, v) = v BY FreeLine DEF FreeOutput
<1>2. CASE net[h].gateType = "aig"
  <2>1. LineValue(net, F, p, h, 1) = LineValue(net, G, t, h, 1) /\ LineValue(net, F, p, h, 3 - 1) = LineValue(net, G, t, h, 3 - 1)
    BY <1>2 DEF GateInputs
  <2>2. RefValue(net, F, p)[h] = Line(F, h, 3, AigOut(net[h], LineValue(net, F, p, h, 1) = Flag(net, h, 1) /\ LineValue(net, F, p, h, 3 - 1) = Flag(net, h, 3 - 1)))
    BY <1>2, AigValue
  <2>3. RefValue(net, G, t)[h] = Line(G, h, 3, AigOut(net[h], LineValue(net, G, t, h, 1) = Flag(net, h, 1) /\ LineValue(net, G, t, h, 3 - 1) = Flag(net, h, 3 - 1)))
    BY <1>2, AigValue
  <2> QED BY <1>1, <2>1, <2>2, <2>3
<1>3. CASE net[h].gateType \in {"bufInv", "PO"}
  <2>1. 1 \in GateInputs(net, h) BY <1>3 DEF GateInputs
  <2>2. RefValue(net, F, p)[h] = Line(F, h, 3, OneOut(net[h], LineValue(net, F, p, h, 1))) BY <1>3, OneValue
  <2>3. RefValue(net, G, t)[h] = Line(G, h, 3, OneOut(net[h], LineValue(net, G, t, h, 1))) BY <1>3, OneValue
  <2> QED BY <1>1, <2>1, <2>2, <2>3
<1> QED BY <1>2, <1>3 DEF GateInputs

\* The value of an AIG with a free output.
LEMMA AigFree ==
  ASSUME NEW net, WellFormed(net), NEW F, NEW p \in [PIs -> Bit], NEW h \in GateID, net[h].gateType = "aig",
         FreeOutput(F, h), NEW r \in {1, 2}
  PROVE  RefValue(net, F, p)[h] = AigOut(net[h], /\ LineValue(net, F, p, h, r) = Flag(net, h, r)
                                                 /\ LineValue(net, F, p, h, 3 - r) = Flag(net, h, 3 - r))
<1>1. \A v : Line(F, h, 3, v) = v BY FreeLine DEF FreeOutput
<1> DEFINE o == AigOut(net[h], /\ LineValue(net, F, p, h, r) = Flag(net, h, r)
                               /\ LineValue(net, F, p, h, 3 - r) = Flag(net, h, 3 - r))
<1>2. RefValue(net, F, p)[h] = Line(F, h, 3, o) BY AigValue, ZenonT(60)
<1>3. Line(F, h, 3, o) = o
  <2> HIDE DEF o
  <2> QED BY <1>1
<1> QED BY <1>2, <1>3

\* Faults that leave a line of the gate alone, and the cone of what drives it.
LEMMA SameLine ==
  ASSUME NEW net, WellFormed(net), NEW F, NEW G, NEW p \in [PIs -> Bit], NEW t \in [PIs -> Bit], NEW h \in GateID,
         NEW s \in GateInputs(net, h),
         {x \in F : faultGate(x) = h /\ faultPort(x) = s} = {x \in G : faultGate(x) = h /\ faultPort(x) = s},
         \A k \in FaninCone(net, InputOf(net, h, s)) : FaultsAtGate(F, k) = FaultsAtGate(G, k) /\ (k \in PIs => p[k] = t[k])
  PROVE  LineValue(net, F, p, h, s) = LineValue(net, G, t, h, s)
<1>1. InputOf(net, h, s) \in GateID BY LinesOf, FaninsPrecede
<1>2. RefValue(net, F, p)[InputOf(net, h, s)] = RefValue(net, G, t)[InputOf(net, h, s)]
  BY <1>1, SameConeSameValue
<1>3. StuckValues(F, h, s) = StuckValues(G, h, s) BY DEF StuckValues
<1> QED BY <1>2, <1>3 DEF LineValue, Line

\* Input s of gate h is not on the path, and the faulty input is not behind it.
LEMMA SideOfPath ==
  ASSUME NEW net, NEW a, NEW q, NEW u, NEW p, Tested(net, a, q, u, p), NEW h \in GateID, a \in FaninCone(net, h),
         NEW r \in GateInputs(net, h), EntersBy(net, a, q, h, r), NEW s \in GateInputs(net, h), s # r
  PROVE  /\ InputOf(net, h, s) \in GateID
         /\ ~ EntersBy(net, a, q, h, s)
         /\ a \notin FaninCone(net, InputOf(net, h, s))
         /\ h \notin FaninCone(net, InputOf(net, h, s))
         /\ InputOf(net, a, q) \notin FaninCone(net, InputOf(net, h, s))
         /\ FaninCone(net, InputOf(net, h, s)) \subseteq FaninCone(net, h)
<1>1. WellFormed(net) /\ Tree(net) /\ a \in GateID BY DEF Tested
<1>2. PICK j, x : j = InputOf(net, h, s) /\ x = InputOf(net, a, q) OBVIOUS
<1>3. j \in GateID /\ j \in Fanins(net, h) BY <1>1, <1>2, LinesOf, FaninsPrecede
<1>4. ~ EntersBy(net, a, q, h, s) /\ a \notin FaninCone(net, j) BY <1>2, OneEntrance
<1>5. h \notin FaninCone(net, j) /\ FaninCone(net, j) \subseteq FaninCone(net, h) BY <1>1, <1>3, NotBefore, ConeEquation
<1>6. x \in GateID /\ x \in Fanins(net, a) BY <1>2, TestedFault
<1>7. ASSUME x \in FaninCone(net, j) PROVE FALSE
  <2>1. CASE x = j
    <3>1. h \in Fanouts(net, x) /\ a \in Fanouts(net, x) BY <1>1, <1>3, <1>6, <2>1 DEF Fanouts
    <3>2. h = a BY <1>1, <1>6, <3>1 DEF Tree
    <3>3. s # q BY <1>4, <3>2 DEF EntersBy
    <3>4. q \in GateInputs(net, a) /\ s \in GateInputs(net, a) BY <3>2, TestedFault
    <3>5. \A i, k \in GateInputs(net, a) : i # k => InputOf(net, a, i) # InputOf(net, a, k) BY <1>1, LinesOf
    <3> QED BY <1>2, <2>1, <3>2, <3>3, <3>4, <3>5
  <2>2. CASE x # j BY <1>1, <1>3, <1>4, <1>6, <1>7, <2>2, ReadWithin
  <2> QED BY <2>1, <2>2
<1> QED BY <1>2, <1>3, <1>4, <1>5, <1>7

\* Faults off the path that stop nothing leave the path as it is.
OffPath(net, a, q, F) ==
  \A x \in F : a \in FaninCone(net, faultGate(x)) =>
    faultPort(x) # 3 /\ ~ EntersBy(net, a, q, faultGate(x), faultPort(x))

\* The fault arrives at a closed input, r, and the other one is open.
CanBlock(net, p, h, r) ==
  /\ net[h].gateType = "aig" /\ r \in {1, 2}
  /\ LineValue(net, {}, p, h, r) # Flag(net, h, r)
  /\ LineValue(net, {}, p, h, 3 - r) = Flag(net, h, 3 - r)

\* Faults that stop the effect of another fault at gate h, where it arrives at r.
Blocking(net, a, q, p, F, h, r) ==
  /\ a \in FaninCone(net, h) /\ EntersBy(net, a, q, h, r) /\ CanBlock(net, p, h, r)
  /\ LineValue(net, F, p, h, 3 - r) # LineValue(net, {}, p, h, 3 - r)

\* If they stop it nowhere, the test still detects the fault.
LEMMA NothingBlocks ==
  ASSUME NEW net, NEW a, NEW q, NEW u, NEW p, Tested(net, a, q, u, p), NEW F, OffPath(net, a, q, F),
         \A h \in GateID, r \in {1, 2} : ~ Blocking(net, a, q, p, F, h, r)
  PROVE  RefDetects(net, F \cup {FaultID(a, q, u)}, p)
<1>1. PICK f, G : f = FaultID(a, q, u) /\ G = F \cup {f} OBVIOUS
<1>2. faultGate(f) = a /\ faultPort(f) = q /\ q \in {1, 2} BY <1>1, TestedFault DEF Tested
<1>3. WellFormed(net) /\ Tree(net) /\ p \in [PIs -> Bit] /\ a \in GateID /\ u \in Bit BY DEF Tested
<1> DEFINE S == {h \in GateID : a \in FaninCone(net, h) => RefValue(net, G, p)[h] = RefValue(net, {f}, p)[h]}
<1>4. ASSUME NEW h \in GateID, \A k \in GateID : k < h => k \in S PROVE h \in S
  <2> SUFFICES ASSUME a \in FaninCone(net, h) PROVE RefValue(net, G, p)[h] = RefValue(net, {f}, p)[h] OBVIOUS
  <2>1. PICK r \in GateInputs(net, h) : EntersBy(net, a, q, h, r) BY OneEntrance
  <2>2. \A x \in F : faultGate(x) = h => faultPort(x) # 3 /\ faultPort(x) # r BY <2>1 DEF OffPath
  <2>3. FreeOutput(G, h) /\ FreeOutput({f}, h) BY <1>1, <1>2, <2>2 DEF FreeOutput
  <2>4. LineValue(net, G, p, h, r) = LineValue(net, {f}, p, h, r)
    <3>1. {x \in G : faultGate(x) = h /\ faultPort(x) = r} = {x \in {f} : faultGate(x) = h /\ faultPort(x) = r}
      BY <1>1, <2>2
    <3>2. StuckValues(G, h, r) = StuckValues({f}, h, r) BY <3>1 DEF StuckValues
    <3>3. CASE h = a
      <4>1. r = q BY <2>1, <3>3 DEF EntersBy
      <4>2. StuckValues({f}, h, r) # {} BY <1>2, <3>3, <4>1 DEF StuckValues
      <4> QED BY <3>2, <4>2 DEF LineValue, Line
    <3>4. CASE h # a
      <4>1. a \in FaninCone(net, InputOf(net, h, r)) BY <2>1, <3>4 DEF EntersBy
      <4>2. InputOf(net, h, r) \in GateID /\ InputOf(net, h, r) < h BY <1>3, LinesOf, FaninsPrecede
      <4>3. RefValue(net, G, p)[InputOf(net, h, r)] = RefValue(net, {f}, p)[InputOf(net, h, r)] BY <1>4, <4>1, <4>2
      <4> QED BY <3>2, <4>3 DEF LineValue, Line
    <3> QED BY <3>3, <3>4
  <2>5. CASE net[h].gateType = "aig"
    <3>1. PICK s : s = 3 - r OBVIOUS
    <3>2. r \in {1, 2} /\ s \in {1, 2} /\ s # r /\ s \in GateInputs(net, h) BY <2>5, <3>1 DEF GateInputs
    <3>3. LineValue(net, G, p, h, s) = LineValue(net, F, p, h, s)
      <4>1. ~ EntersBy(net, a, q, h, s) /\ a \notin FaninCone(net, InputOf(net, h, s)) BY <2>1, <3>2, SideOfPath
      <4>2. {x \in G : faultGate(x) = h /\ faultPort(x) = s} = {x \in F : faultGate(x) = h /\ faultPort(x) = s}
        BY <1>1, <1>2, <4>1 DEF EntersBy
      <4>3. \A k \in FaninCone(net, InputOf(net, h, s)) : FaultsAtGate(G, k) = FaultsAtGate(F, k) /\ (k \in PIs => p[k] = p[k])
        BY <1>1, <1>2, <4>1 DEF FaultsAtGate
      <4> QED BY <1>3, <3>2, <4>2, <4>3, SameLine
    <3>4. PICK gp, gs, fs, bp : /\ gp = LineValue(net, {}, p, h, r) /\ gs = LineValue(net, {}, p, h, s)
                                /\ fs = LineValue(net, F, p, h, s) /\ bp = LineValue(net, {f}, p, h, r)
      OBVIOUS
    <3>5. gp \in Bit /\ bp = Opposite(gp) /\ LineValue(net, {f}, p, h, s) = gs
      <4>1. ~ EntersBy(net, a, q, h, s) BY <2>1, <3>2, SideOfPath
      <4> QED BY <1>1, <2>1, <3>2, <3>4, <4>1, PathLines
    <3>6. PICK open, side : open = Flag(net, h, r) /\ side = Flag(net, h, s) OBVIOUS
    <3>7. open \in Bit BY <1>3, <3>6, LinesOf
    <3> DEFINE Free(E) == FreeOutput(E, h) => RefValue(net, E, p)[h] =
                 AigOut(net[h], LineValue(net, E, p, h, r) = Flag(net, h, r) /\ LineValue(net, E, p, h, s) = Flag(net, h, s))
    <3>17. ASSUME NEW E PROVE Free(E)
      <4> SUFFICES ASSUME FreeOutput(E, h) PROVE RefValue(net, E, p)[h] =
                 AigOut(net[h], LineValue(net, E, p, h, r) = Flag(net, h, r) /\ LineValue(net, E, p, h, 3 - r) = Flag(net, h, 3 - r))
        BY <3>1
      <4>1. WellFormed(net) BY <1>3
      <4>2. p \in [PIs -> Bit] BY <1>3
      <4>3. r \in {1, 2} BY <3>2
      <4> QED BY <2>5, <4>1, <4>2, <4>3, AigFree, ZenonT(60)
    <3>8. RefValue(net, {}, p)[h] = AigOut(net[h], gp = open /\ gs = side)
      <4>1. FreeOutput({}, h) BY DEF FreeOutput
      <4>2. Free({}) BY <3>17
      <4> QED BY <3>4, <3>6, <4>1, <4>2
    <3>9. RefValue(net, {f}, p)[h] = AigOut(net[h], bp = open /\ gs = side)
      <4>1. Free({f}) BY <3>17
      <4> QED BY <2>3, <3>4, <3>5, <3>6, <4>1
    <3>10. RefValue(net, G, p)[h] = AigOut(net[h], bp = open /\ fs = side)
      <4>1. Free(G) BY <3>17
      <4> QED BY <2>3, <2>4, <3>3, <3>4, <3>6, <4>1
    <3>11. RefValue(net, {f}, p)[h] # RefValue(net, {}, p)[h] BY <1>1, PathDiffers
    <3>12. gs = side BY <3>8, <3>9, <3>11
    <3>13. gp # open => fs = gs
      <4>1. ~ Blocking(net, a, q, p, F, h, r) BY <3>2
      <4> QED BY <2>1, <2>5, <3>1, <3>2, <3>4, <3>6, <3>12, <4>1 DEF Blocking, CanBlock
    <3>14. gp = open => bp # open BY <3>5, <3>7, Opposites
    <3>15. CASE gp = open
      <4>1. AigOut(net[h], bp = open /\ gs = side) = AigOut(net[h], bp = open /\ fs = side) BY <3>14, <3>15 DEF AigOut
      <4> QED BY <3>9, <3>10, <4>1
    <3>16. CASE gp # open BY <3>9, <3>10, <3>13, <3>16
    <3> QED BY <3>15, <3>16
  <2>6. CASE net[h].gateType # "aig"
    <3>1. \A s \in GateInputs(net, h) : s = r BY <2>6 DEF GateInputs
    <3> QED BY <1>3, <2>3, <2>4, <3>1, SameLines
  <2> QED BY <2>5, <2>6
<1> HIDE DEF S
<1>5. \A h \in GateID : h \in S BY <1>4, GateInduction
<1>6. PICK o \in POs : RefValue(net, {f}, p)[o] # RefValue(net, {}, p)[o] BY <1>1 DEF Tested, RefDetects
<1>7. o \in GateID BY SizeAssumption DEF POs, GateID, Size
<1>8. a \in FaninCone(net, o) BY <1>1, <1>6, <1>7, PathDiffers
<1>9. RefValue(net, G, p)[o] = RefValue(net, {f}, p)[o] BY <1>5, <1>7, <1>8 DEF S
<1> QED BY <1>1, <1>6, <1>9 DEF RefDetects

\* The other inputs stay as they are.
LEMMA InvertedElsewhere ==
  ASSUME NEW net, NEW a, NEW q, NEW u, NEW p, Tested(net, a, q, u, p), NEW k \in PIs, k # InputOf(net, a, q)
  PROVE  Inverted(net, a, q, p)[k] = p[k]
BY DEF Inverted, Tested

\* The faults a line feels: those on it and those in the cone behind it.
FeltBy(net, F, h, r) ==
  {x \in F : \/ faultGate(x) = h /\ faultPort(x) = r
             \/ faultGate(x) \in FaninCone(net, InputOf(net, h, r))}

\* Nothing else changes the line.
LEMMA LineBehind ==
  ASSUME NEW net, WellFormed(net), NEW F, NEW G, NEW p \in [PIs -> Bit], NEW h \in GateID, NEW s \in GateInputs(net, h),
         FeltBy(net, F, h, s) = FeltBy(net, G, h, s)
  PROVE  LineValue(net, F, p, h, s) = LineValue(net, G, p, h, s)
<1>1. InputOf(net, h, s) \in GateID /\ InputOf(net, h, s) \in Fanins(net, h) BY LinesOf, FaninsPrecede
<1>3. {x \in F : faultGate(x) = h /\ faultPort(x) = s} = {x \in G : faultGate(x) = h /\ faultPort(x) = s}
  BY DEF FeltBy
<1>4. \A k \in FaninCone(net, InputOf(net, h, s)) : FaultsAtGate(F, k) = FaultsAtGate(G, k) /\ (k \in PIs => p[k] = p[k])
  BY DEF FeltBy, FaultsAtGate
<1> QED BY <1>3, <1>4, SameLine

\* What no fault is in the cone of is as it is without them.
LEMMA ClearCone ==
  ASSUME NEW net, WellFormed(net), NEW F, NEW p \in [PIs -> Bit], NEW g \in GateID,
         \A x \in F : faultGate(x) \notin FaninCone(net, g)
  PROVE  RefValue(net, F, p)[g] = RefValue(net, {}, p)[g]
<1>1. \A h \in FaninCone(net, g) : FaultsAtGate(F, h) = FaultsAtGate({}, h) /\ (h \in PIs => p[h] = p[h])
  BY DEF FaultsAtGate
<1> QED BY <1>1, SameConeSameValue

\* Faults that close the open side input of a gate where the effect of f arrives
\* at a closed one hide f.
LEMMA Blocked ==
  ASSUME NEW net, NEW a, NEW q, NEW u, NEW p, Tested(net, a, q, u, p), NEW h \in GateID, a \in FaninCone(net, h),
         NEW r \in {1, 2}, EntersBy(net, a, q, h, r), CanBlock(net, p, h, r), NEW s, s = 3 - r,
         NEW F, \A x \in F : \/ faultGate(x) = h /\ faultPort(x) = s
                             \/ faultGate(x) \in FaninCone(net, InputOf(net, h, s)),
         LineValue(net, F, p, h, s) # LineValue(net, {}, p, h, s)
  PROVE  ~ RefDetects(net, F \cup {FaultID(a, q, u)}, p)
<1>1. PICK f, G : f = FaultID(a, q, u) /\ G = F \cup {f} OBVIOUS
<1>2. faultGate(f) = a /\ faultPort(f) = q /\ q \in {1, 2} BY <1>1, TestedFault DEF Tested
<1>3. WellFormed(net) /\ Tree(net) /\ p \in [PIs -> Bit] /\ a \in GateID BY DEF Tested
<1>4. net[h].gateType = "aig" BY DEF CanBlock
<1>5. s \in {1, 2} /\ s # r /\ r \in GateInputs(net, h) /\ s \in GateInputs(net, h) BY <1>4 DEF GateInputs
<1>6. PICK j : j = InputOf(net, h, s) OBVIOUS
<1>7. j \in GateID /\ ~ EntersBy(net, a, q, h, s) /\ a \notin FaninCone(net, j) /\ h \notin FaninCone(net, j)
      /\ FaninCone(net, j) \subseteq FaninCone(net, h)
  BY <1>5, <1>6, SideOfPath
<1>8. FeltBy(net, G, h, s) = FeltBy(net, F, h, s) BY <1>1, <1>2, <1>6, <1>7 DEF FeltBy, EntersBy
<1>9. LineValue(net, G, p, h, s) = LineValue(net, F, p, h, s) BY <1>3, <1>5, <1>8, LineBehind
<1>10. FreeOutput(G, h) BY <1>1, <1>2, <1>5, <1>6, <1>7 DEF FreeOutput
<1>11. FreeOutput({}, h) BY DEF FreeOutput
<1>12. LineValue(net, {}, p, h, s) = Flag(net, h, s) /\ LineValue(net, {}, p, h, r) # Flag(net, h, r) BY DEF CanBlock
<1>13. RefValue(net, G, p)[h] = AigOut(net[h], LineValue(net, G, p, h, r) = Flag(net, h, r) /\ LineValue(net, G, p, h, 3 - r) = Flag(net, h, 3 - r))
  <2>1. WellFormed(net) BY <1>3
  <2>2. p \in [PIs -> Bit] BY <1>3
  <2> QED BY <1>4, <1>10, <2>1, <2>2, AigFree, ZenonT(60)
<1>14. RefValue(net, {}, p)[h] = AigOut(net[h], LineValue(net, {}, p, h, r) = Flag(net, h, r) /\ LineValue(net, {}, p, h, 3 - r) = Flag(net, h, 3 - r))
  <2>1. WellFormed(net) BY <1>3
  <2>2. p \in [PIs -> Bit] BY <1>3
  <2> QED BY <1>4, <1>11, <2>1, <2>2, AigFree, ZenonT(60)
<1>15. LineValue(net, G, p, h, 3 - r) # Flag(net, h, 3 - r) BY <1>9, <1>12
<1>16. RefValue(net, G, p)[h] = RefValue(net, {}, p)[h] BY <1>12, <1>13, <1>14, <1>15 DEF AigOut
<1>17. \A k \in GateID \ FaninCone(net, h) : FaultsAtGate(G, k) = FaultsAtGate({}, k) /\ (k \in PIs => p[k] = p[k])
  <2>1. h \in FaninCone(net, h) BY <1>3, ConeClosed
  <2>2. \A x \in G : faultGate(x) \in FaninCone(net, h) BY <1>1, <1>2, <1>6, <1>7, <2>1
  <2> QED BY <2>2 DEF FaultsAtGate
<1>18. \A o \in POs : RefValue(net, G, p)[o] = RefValue(net, {}, p)[o] BY <1>3, <1>16, <1>17, GateCut
<1> QED BY <1>1, <1>18 DEF RefDetects

\* With the faulty input inverted, faults that keep a gate on the path as the
\* test has it are detected.
LEMMA DetectedInverted ==
  ASSUME NEW net, NEW a, NEW q, NEW u, NEW p, Tested(net, a, q, u, p), NEW h \in GateID, a \in FaninCone(net, h),
         NEW F, \A x \in F : faultGate(x) \in FaninCone(net, h),
         RefValue(net, F, Inverted(net, a, q, p))[h] = RefValue(net, {}, p)[h]
  PROVE  RefDetects(net, F, Inverted(net, a, q, p))
<1>1. PICK f, x, t : f = FaultID(a, q, u) /\ x = InputOf(net, a, q) /\ t = Inverted(net, a, q, p) OBVIOUS
<1>2. x \in GateID /\ x \in Fanins(net, a) BY <1>1, TestedFault
<1>3. WellFormed(net) /\ Tree(net) /\ p \in [PIs -> Bit] /\ a \in GateID /\ x \in PIs BY <1>1 DEF Tested
<1>4. t \in [PIs -> Bit] /\ \A k \in PIs : k # x => t[k] = p[k]
  <2>1. Inverted(net, a, q, p) \in [PIs -> Bit] BY InvertedValues
  <2>2. \A k \in PIs : k # InputOf(net, a, q) => Inverted(net, a, q, p)[k] = p[k] BY InvertedElsewhere
  <2> QED BY <1>1, <2>1, <2>2
<1>5. x \in FaninCone(net, h)
  <2>1. FaninCone(net, a) \subseteq FaninCone(net, h) BY <1>3, ConeTransitive
  <2>2. x \in FaninCone(net, a) BY <1>2, <1>3, ConeClosed
  <2> QED BY <2>1, <2>2
<1>6. \A k \in GateID \ FaninCone(net, h) : FaultsAtGate(F, k) = FaultsAtGate({}, k) /\ (k \in PIs => t[k] = p[k])
  BY <1>4, <1>5 DEF FaultsAtGate
<1>7. \A o \in POs : RefValue(net, F, t)[o] = RefValue(net, {}, p)[o] BY <1>1, <1>3, <1>4, <1>6, GateCut
<1>8. \A k \in GateID : k # x => RefValue(net, {}, t)[k] = RefValue(net, {f}, p)[k] BY <1>1, InvertedValues
<1>9. PICK o \in POs : RefValue(net, {f}, p)[o] # RefValue(net, {}, p)[o] BY <1>1 DEF Tested, RefDetects
<1>10. o \in GateID /\ o # x
  <2>1. o \in GateID BY SizeAssumption DEF POs, GateID, Size
  <2> QED BY <1>2, <1>3, <2>1, FaninsPrecede
<1>11. RefValue(net, F, t)[o] # RefValue(net, {}, t)[o] BY <1>7, <1>8, <1>9, <1>10
<1> QED BY <1>1, <1>11 DEF RefDetects

\* What the inverted pattern brings to the lines of the path, and to the others.
LEMMA InvertedLines ==
  ASSUME NEW net, NEW a, NEW q, NEW u, NEW p, Tested(net, a, q, u, p), NEW h \in GateID, a \in FaninCone(net, h),
         NEW r \in GateInputs(net, h), EntersBy(net, a, q, h, r)
  PROVE  /\ LineValue(net, {}, Inverted(net, a, q, p), h, r) = Opposite(LineValue(net, {}, p, h, r))
         /\ \A s \in GateInputs(net, h) : s # r => \A F :
              LineValue(net, F, Inverted(net, a, q, p), h, s) = LineValue(net, F, p, h, s)
<1>1. PICK x, t : x = InputOf(net, a, q) /\ t = Inverted(net, a, q, p) OBVIOUS
<1>2. x \in GateID /\ x \in Fanins(net, a) BY <1>1, TestedFault
<1>3. WellFormed(net) /\ Tree(net) /\ p \in [PIs -> Bit] /\ a \in GateID /\ x \in PIs /\ net[a].gateType = "aig"
  BY <1>1 DEF Tested
<1>4. t \in [PIs -> Bit] /\ \A k \in PIs : k # x => t[k] = p[k]
  <2>1. Inverted(net, a, q, p) \in [PIs -> Bit] BY InvertedValues
  <2>2. \A k \in PIs : k # InputOf(net, a, q) => Inverted(net, a, q, p)[k] = p[k] BY InvertedElsewhere
  <2> QED BY <1>1, <2>1, <2>2
<1>5. ASSUME NEW s \in GateInputs(net, h), s # r, NEW F PROVE LineValue(net, F, t, h, s) = LineValue(net, F, p, h, s)
  <2>1. x \notin FaninCone(net, InputOf(net, h, s)) BY <1>1, <1>5, SideOfPath
  <2>2. \A k \in FaninCone(net, InputOf(net, h, s)) : FaultsAtGate(F, k) = FaultsAtGate(F, k) /\ (k \in PIs => t[k] = p[k])
    BY <1>4, <2>1
  <2> QED BY <1>3, <1>4, <2>2, SameLine
<1>6. LineValue(net, {}, t, h, r) = Opposite(LineValue(net, {}, p, h, r))
  <2>1. PICK j : j = InputOf(net, h, r) OBVIOUS
  <2>2. LineValue(net, {}, t, h, r) = RefValue(net, {}, t)[j] /\ LineValue(net, {}, p, h, r) = RefValue(net, {}, p)[j]
    BY <2>1, FreeLine DEF LineValue
  <2>3. j \in GateID BY <1>3, <2>1, LinesOf, FaninsPrecede
  <2>4. CASE h = a
    <3>1. j = x BY <1>1, <2>1, <2>4 DEF EntersBy
    <3>2. RefValue(net, {}, t)[x] = t[x] /\ RefValue(net, {}, p)[x] = p[x] BY <1>3, <1>4, InputValue
    <3>3. t[x] = Opposite(p[x])
      <4>1. Inverted(net, a, q, p)[InputOf(net, a, q)] = Opposite(p[InputOf(net, a, q)]) BY <1>1, <1>3 DEF Inverted
      <4> QED BY <1>1, <4>1
    <3> QED BY <2>2, <3>1, <3>2, <3>3
  <2>5. CASE h # a
    <3>1. a \in FaninCone(net, j) BY <2>1, <2>5 DEF EntersBy
    <3>2. j # x
      <4>1. a \notin FaninCone(net, x) BY <1>2, <1>3, NotBefore
      <4> QED BY <3>1, <4>1
    <3>3. \A k \in GateID : k # InputOf(net, a, q) => RefValue(net, {}, Inverted(net, a, q, p))[k] = RefValue(net, {FaultID(a, q, u)}, p)[k]
      BY InvertedValues
    <3>4. RefValue(net, {}, t)[j] = RefValue(net, {FaultID(a, q, u)}, p)[j] BY <1>1, <2>3, <3>2, <3>3
    <3>5. RefValue(net, {FaultID(a, q, u)}, p)[j] # RefValue(net, {}, p)[j] BY <2>3, <3>1, PathDiffers
    <3>6. RefValue(net, {FaultID(a, q, u)}, p)[j] \in Bit /\ RefValue(net, {}, p)[j] \in Bit BY <1>3, <2>3, RefValueEquation
    <3> QED BY <2>2, <3>4, <3>5, <3>6, Opposites
  <2> QED BY <2>4, <2>5
<1> QED BY <1>1, <1>5, <1>6

\* A fault that keeps a gate of the path as the tested fault has it is detected
\* by the test itself.
LEMMA DetectedLikewise ==
  ASSUME NEW net, NEW a, NEW q, NEW u, NEW p, Tested(net, a, q, u, p), NEW h \in GateID, a \in FaninCone(net, h),
         NEW F, \A x \in F : faultGate(x) \in FaninCone(net, h),
         RefValue(net, F, p)[h] = RefValue(net, {FaultID(a, q, u)}, p)[h]
  PROVE  RefDetects(net, F, p)
<1>1. PICK f : f = FaultID(a, q, u) OBVIOUS
<1>2. faultGate(f) = a BY <1>1, TestedFault
<1>3. WellFormed(net) /\ Tree(net) /\ p \in [PIs -> Bit] BY DEF Tested
<1>4. \A k \in GateID \ FaninCone(net, h) : FaultsAtGate(F, k) = FaultsAtGate({f}, k) /\ (k \in PIs => p[k] = p[k])
  BY <1>2 DEF FaultsAtGate
<1>5. \A o \in POs : RefValue(net, F, p)[o] = RefValue(net, {f}, p)[o] BY <1>1, <1>3, <1>4, GateCut
<1> QED BY <1>1, <1>5 DEF Tested, RefDetects

\* Every fault on the path can be detected, by the test or by the inverted one.
LEMMA OnPathTestable ==
  ASSUME NEW net, NEW a, NEW q, NEW u, NEW p, Tested(net, a, q, u, p), NEW h \in GateID, a \in FaninCone(net, h),
         NEW k \in {1, 2, 3}, k = 3 \/ (k \in GateInputs(net, h) /\ EntersBy(net, a, q, h, k)), NEW v \in Bit
  PROVE  RefDetects(net, {FaultID(h, k, v)}, p) \/ RefDetects(net, {FaultID(h, k, v)}, Inverted(net, a, q, p))
<1>1. PICK f, t, g : f = FaultID(a, q, u) /\ t = Inverted(net, a, q, p) /\ g = FaultID(h, k, v) OBVIOUS
<1>2. faultGate(g) = h /\ faultPort(g) = k /\ \A w : Line({g}, h, k, w) = v BY <1>1, OneFault
<1>3. WellFormed(net) /\ Tree(net) /\ p \in [PIs -> Bit] BY DEF Tested
<1>4. t \in [PIs -> Bit] BY <1>1, InvertedValues
<1>5. h \in FaninCone(net, h) BY <1>3, ConeClosed
<1>6. \A x \in {g} : faultGate(x) \in FaninCone(net, h) BY <1>2, <1>5
<1>7. RefValue(net, {f}, p)[h] # RefValue(net, {}, p)[h] BY <1>1, PathDiffers
<1>8. RefValue(net, {f}, p)[h] \in Bit /\ RefValue(net, {}, p)[h] \in Bit BY <1>3, RefValueEquation
<1>9. CASE RefValue(net, {g}, t)[h] = RefValue(net, {}, p)[h] BY <1>1, <1>6, <1>9, DetectedInverted
<1>10. CASE RefValue(net, {g}, p)[h] = RefValue(net, {f}, p)[h] BY <1>1, <1>6, <1>10, DetectedLikewise
<1>11. CASE k = 3
  <2>1. RefValue(net, {g}, t)[h] = RefOut(net, {g}, t, RefValue(net, {g}, t), h)
        /\ RefValue(net, {g}, p)[h] = RefOut(net, {g}, p, RefValue(net, {g}, p), h)
    BY <1>3, <1>4, RefValueEquation
  <2>2. RefValue(net, {g}, t)[h] = v /\ RefValue(net, {g}, p)[h] = v BY <1>2, <1>11, <2>1 DEF RefOut
  <2>3. v = RefValue(net, {f}, p)[h] \/ v = RefValue(net, {}, p)[h] BY <1>7, <1>8 DEF Bit
  <2> QED BY <1>9, <1>10, <2>2, <2>3
<1>12. CASE k # 3
  <2>1. k \in GateInputs(net, h) /\ EntersBy(net, a, q, h, k) BY <1>12
  <2>2. FreeOutput({g}, h) /\ FreeOutput({}, h) BY <1>2, <1>12 DEF FreeOutput
  <2>3. LineValue(net, {g}, t, h, k) = v /\ LineValue(net, {g}, p, h, k) = v BY <1>2 DEF LineValue
  <2>4. LineValue(net, {}, p, h, k) \in Bit /\ LineValue(net, {f}, p, h, k) = Opposite(LineValue(net, {}, p, h, k))
    BY <1>1, <2>1, PathLines
  <2>5. ASSUME NEW s \in GateInputs(net, h), s # k
        PROVE  /\ LineValue(net, {g}, p, h, s) = LineValue(net, {}, p, h, s)
               /\ LineValue(net, {g}, t, h, s) = LineValue(net, {}, p, h, s)
               /\ LineValue(net, {f}, p, h, s) = LineValue(net, {}, p, h, s)
    <3>1. h \notin FaninCone(net, InputOf(net, h, s)) /\ ~ EntersBy(net, a, q, h, s) BY <2>1, <2>5, SideOfPath
    <3>2. FeltBy(net, {g}, h, s) = FeltBy(net, {}, h, s) BY <1>2, <2>5, <3>1 DEF FeltBy
    <3>3. LineValue(net, {g}, p, h, s) = LineValue(net, {}, p, h, s) BY <1>3, <3>2, LineBehind
    <3>4. \A F : LineValue(net, F, Inverted(net, a, q, p), h, s) = LineValue(net, F, p, h, s)
      BY <2>1, <2>5, InvertedLines
    <3>5. LineValue(net, {f}, p, h, s) = LineValue(net, {}, p, h, s) BY <1>1, <3>1, PathLines
    <3> QED BY <1>1, <3>3, <3>4, <3>5
  <2>6. CASE v = LineValue(net, {}, p, h, k)
    <3>1. \A s \in GateInputs(net, h) : LineValue(net, {g}, t, h, s) = LineValue(net, {}, p, h, s) BY <2>3, <2>5, <2>6
    <3>2. RefValue(net, {g}, t)[h] = RefValue(net, {}, p)[h]
      <4>1. WellFormed(net) /\ p \in [PIs -> Bit] /\ t \in [PIs -> Bit] /\ h \in GateID /\ GateInputs(net, h) # {}
        BY <1>3, <1>4, <2>1
      <4> QED BY <4>1, <2>2, <3>1, SameLines
    <3> QED BY <1>9, <3>2
  <2>7. CASE v # LineValue(net, {}, p, h, k)
    <3>1. v = LineValue(net, {f}, p, h, k) BY <2>4, <2>7, Opposites
    <3>2. \A s \in GateInputs(net, h) : LineValue(net, {g}, p, h, s) = LineValue(net, {f}, p, h, s) BY <2>3, <2>5, <3>1
    <3>3. CASE FreeOutput({f}, h)
      <4>1. RefValue(net, {g}, p)[h] = RefValue(net, {f}, p)[h] BY <1>3, <2>1, <2>2, <3>2, <3>3, SameLines, SMTT(60)
      <4> QED BY <1>10, <4>1
    <3>4. FreeOutput({f}, h)
      <4>1. faultPort(f) = q /\ q # 3 BY <1>1, TestedFault DEF Tested
      <4> QED BY <4>1 DEF FreeOutput
    <3> QED BY <3>3, <3>4
  <2> QED BY <2>6, <2>7
<1> QED BY <1>11, <1>12

\* Every fault behind an open side input that would close it can be detected.
LEMMA SideTestable ==
  ASSUME NEW net, NEW a, NEW q, NEW u, NEW p, Tested(net, a, q, u, p), NEW h \in GateID, a \in FaninCone(net, h),
         NEW r \in {1, 2}, EntersBy(net, a, q, h, r), CanBlock(net, p, h, r), NEW s, s = 3 - r,
         NEW g, faultGate(g) \in FaninCone(net, InputOf(net, h, s)),
         LineValue(net, {g}, p, h, s) # LineValue(net, {}, p, h, s)
  PROVE  RefDetects(net, {g}, Inverted(net, a, q, p))
<1>1. PICK t : t = Inverted(net, a, q, p) OBVIOUS
<1>3. WellFormed(net) /\ Tree(net) /\ p \in [PIs -> Bit] BY DEF Tested
<1>4. t \in [PIs -> Bit] BY <1>1, InvertedValues
<1>5. net[h].gateType = "aig" BY DEF CanBlock
<1>6. s \in {1, 2} /\ s # r /\ r \in GateInputs(net, h) /\ s \in GateInputs(net, h) BY <1>5 DEF GateInputs
<1>7. h \notin FaninCone(net, InputOf(net, h, s)) /\ FaninCone(net, InputOf(net, h, s)) \subseteq FaninCone(net, h)
  BY <1>6, SideOfPath
<1>8. LineValue(net, {}, p, h, s) = Flag(net, h, s) /\ LineValue(net, {}, p, h, r) # Flag(net, h, r) BY DEF CanBlock
<1>9. LineValue(net, {g}, t, h, s) # Flag(net, h, s)
  <2>1. \A F : LineValue(net, F, Inverted(net, a, q, p), h, s) = LineValue(net, F, p, h, s) BY <1>6, InvertedLines
  <2> QED BY <1>1, <1>8, <2>1
<1>10. FreeOutput({g}, h) /\ FreeOutput({}, h) BY <1>7 DEF FreeOutput
<1>11. RefValue(net, {g}, t)[h] = AigOut(net[h], LineValue(net, {g}, t, h, r) = Flag(net, h, r) /\ LineValue(net, {g}, t, h, 3 - r) = Flag(net, h, 3 - r))
  <2>1. WellFormed(net) BY <1>3
  <2>2. FreeOutput({g}, h) BY <1>10
  <2> QED BY <1>4, <1>5, <2>1, <2>2, AigFree, ZenonT(60)
<1>12. RefValue(net, {}, p)[h] = AigOut(net[h], LineValue(net, {}, p, h, r) = Flag(net, h, r) /\ LineValue(net, {}, p, h, 3 - r) = Flag(net, h, 3 - r))
  <2>1. WellFormed(net) BY <1>3
  <2>2. p \in [PIs -> Bit] BY <1>3
  <2>3. FreeOutput({}, h) BY <1>10
  <2> QED BY <1>5, <2>1, <2>2, <2>3, AigFree, ZenonT(60)
<1>13. RefValue(net, {g}, t)[h] = RefValue(net, {}, p)[h] BY <1>8, <1>9, <1>11, <1>12 DEF AigOut
<1>14. \A x \in {g} : faultGate(x) \in FaninCone(net, h) BY <1>7
<1> QED BY <1>1, <1>13, <1>14, DetectedInverted
=============================================================================
