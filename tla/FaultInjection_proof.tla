------------------------ MODULE FaultInjection_proof ------------------------
(***************************************************************************)
(* What making a circuit faulty in place keeps, and what undoing it gives  *)
(* back, for every netlist: the lemmas on which the simulators' invariants *)
(* rest.                                                                   *)
(***************************************************************************)
EXTENDS FaultInjection, Netlist_proof

\* The types of the four variables and of what they lead to.
InjectTypeOK ==
  /\ theCircuit \in [GateID -> Gate]
  /\ stuckatCons \in Seq(Bit)
  /\ DOMAIN preGateInTheCircuit \subseteq GateID
  /\ \A g \in DOMAIN preGateInTheCircuit : preGateInTheCircuit[g].gate \in Gate
  /\ faultsInsertedtheCircuit \in Nat

\* A gate stays a gate when one of its lines is tied to a constant.
LEMMA FaultedType ==
  ASSUME NEW g \in Gate, NEW port, NEW cons \in Int
  PROVE  Faulted(g, port, cons) \in Gate
BY DEF Faulted, changeOutputStuckat, Gate, Type, Bit

\* A tied line never makes a primary output of another gate, and input 1 of a
\* primary output is where it was or at the new constant.
LEMMA FaultedOutput ==
  ASSUME NEW g \in Gate, NEW port, NEW cons \in Int,
         Faulted(g, port, cons).gateType = "PO"
  PROVE  /\ g.gateType = "PO"
         /\ Faulted(g, port, cons).fanin1 \in {g.fanin1, cons}
BY DEF Faulted, changeOutputStuckat, Gate, Type, Bit

\* One round of the injection loop keeps the types.
LEMMA InjectKeepsTypes ==
  ASSUME InjectTypeOK, NEW f \in FaultNumber, NEW values, InjectFault(f, values)
  PROVE  InjectTypeOK'
<1> DEFINE g == faultGate(f)
<1>1. g \in GateID /\ faultStuckat(f) \in Bit
  BY FaultNumberFields
<1>2. CASE Skipped(f)
  BY <1>2 DEF InjectFault, injectVars, InjectTypeOK
<1>3. CASE ~ Skipped(f)
  <2>1. /\ DOMAIN preGateInTheCircuit' = DOMAIN preGateInTheCircuit \cup {g}
        /\ \A h \in DOMAIN preGateInTheCircuit :
             preGateInTheCircuit'[h] = preGateInTheCircuit[h]
        /\ g \notin DOMAIN preGateInTheCircuit =>
             preGateInTheCircuit'[g] = [gate |-> theCircuit[g], outValue |-> values[g]]
    BY <1>3 DEF InjectFault, copyGate
  <2>2. theCircuit[g] \in Gate
    BY <1>1 DEF InjectTypeOK
  <2>3. \A h \in DOMAIN preGateInTheCircuit' : preGateInTheCircuit'[h].gate \in Gate
    BY <2>1, <2>2 DEF InjectTypeOK
  <2>4. Size + Len(stuckatCons) \in Int
    BY SizeNat DEF InjectTypeOK
  <2>5. theCircuit' \in [GateID -> Gate]
    BY <1>3, <2>2, <2>4, FaultedType DEF InjectFault, InjectTypeOK
  <2>6. stuckatCons' \in Seq(Bit) /\ faultsInsertedtheCircuit' \in Nat
    BY <1>1, <1>3, SMTT(60) DEF InjectFault, InjectTypeOK
  <2> QED
    BY <1>1, <2>1, <2>3, <2>5, <2>6 DEF InjectTypeOK
<1> QED
  BY <1>2, <1>3

\* One round of the injection loop keeps the circuit recoverable: the first
\* copy of a gate is the netlist's gate, a gate without a copy is untouched,
\* and a constant is pushed whenever one is counted.
LEMMA InjectKeepsRecoverable ==
  ASSUME NEW net, InjectTypeOK, Recoverable(net),
         NEW f \in FaultNumber, NEW values, InjectFault(f, values)
  PROVE  /\ \A g \in GateID : IF g \in DOMAIN preGateInTheCircuit'
                              THEN preGateInTheCircuit'[g].gate = net[g]
                              ELSE theCircuit'[g] = net[g]
         /\ Len(stuckatCons') = faultsInsertedtheCircuit'
<1>1. faultGate(f) \in GateID
  BY FaultNumberFields
<1>2. CASE Skipped(f)
  BY <1>2 DEF InjectFault, injectVars, Recoverable
<1>3. CASE ~ Skipped(f)
  <2>1. Len(stuckatCons') = faultsInsertedtheCircuit'
    BY <1>3 DEF InjectFault, copyGate, InjectTypeOK, Recoverable
  <2>2. ASSUME NEW h \in GateID
        PROVE  IF h \in DOMAIN preGateInTheCircuit'
               THEN preGateInTheCircuit'[h].gate = net[h]
               ELSE theCircuit'[h] = net[h]
    BY <1>1, <1>3 DEF InjectFault, copyGate, InjectTypeOK, Recoverable
  <2> QED
    BY <2>1, <2>2
<1> QED
  BY <1>2, <1>3

\* A reset of a recoverable circuit gives back the netlist, and nothing else
\* is left behind.
LEMMA ResetRestores ==
  ASSUME NEW net \in [GateID -> Gate], InjectTypeOK, Recoverable(net), ResetFaults
  PROVE  /\ theCircuit' = net
         /\ preGateInTheCircuit' = NoCopies
         /\ stuckatCons' = << >>
         /\ faultsInsertedtheCircuit' = 0
<1>1. theCircuit' = net
  BY DEF ResetFaults, Recoverable, InjectTypeOK
<1>2. SubSeq(stuckatCons, 1, 0) = << >>
  BY DEF InjectTypeOK
<1>3. Len(stuckatCons) - faultsInsertedtheCircuit = 0
  BY DEF Recoverable, InjectTypeOK
<1> QED
  BY <1>1, <1>2, <1>3 DEF ResetFaults

\* A circuit without a fault is recoverable and well typed.
LEMMA FaultFreeRecoverable ==
  ASSUME NEW net \in [GateID -> Gate], theCircuit = net, preGateInTheCircuit = NoCopies,
         stuckatCons = << >>, faultsInsertedtheCircuit = 0
  PROVE  InjectTypeOK /\ Recoverable(net)
BY DEF InjectTypeOK, Recoverable, NoCopies
-----------------------------------------------------------------------------
(***************************************************************************)
(* What the gates are while faults are in them.                            *)
(***************************************************************************)
\* A fanin pointer leads to a stuck-at constant of this value.
TiedTo(i, v) ==
  /\ i \in Size .. Size + Len(stuckatCons) - 1
  /\ stuckatCons[i - Size + 1] = v

\* Gate g is that of the netlist with its lines held by the faults injected so
\* far: a faulty output makes it a buffer of the constant, and so does a faulty
\* line of a primary input or a constant.
HasFaults(net, injected, g) ==
  LET stuck(p) == StuckValues(injected, g, p)
      c == theCircuit[g]
  IN IF stuck(3) # {}
     THEN c.gateType = "bufInv" /\ c.invIn1 = 1 /\ c.invOut = 1 /\ TiedTo(c.fanin1, Held(stuck(3)))
     ELSE /\ c.gateType = IF net[g].gateType \in {"PI", "constant"} /\ stuck(1) # {}
                          THEN "bufInv" ELSE net[g].gateType
          /\ c.invIn1 = net[g].invIn1 /\ c.invIn2 = net[g].invIn2 /\ c.invOut = net[g].invOut
          /\ IF stuck(1) # {} THEN TiedTo(c.fanin1, Held(stuck(1))) ELSE c.fanin1 = net[g].fanin1
          /\ IF stuck(2) # {} THEN TiedTo(c.fanin2, Held(stuck(2))) ELSE c.fanin2 = net[g].fanin2

HasAllFaults(net, injected) == \A g \in GateID : HasFaults(net, injected, g)

\* The faults are injected in increasing order: those of input 1 of a gate
\* first, those of its output last, and stuck-at 1 after stuck-at 0, so that
\* the line a fault names is held at the fault's value from then on.
LEMMA LaterFaultHolds ==
  ASSUME NEW injected, injected \subseteq FaultNumber, NEW f \in FaultNumber,
         \A x \in injected : x < f
  PROVE  LET with == injected \cup {f}
             g == faultGate(f)
             p == faultPort(f)
         IN /\ \A h, q : ~ (h = g /\ q = p) => StuckValues(with, h, q) = StuckValues(injected, h, q)
            /\ StuckValues(with, g, p) # {} /\ Held(StuckValues(with, g, p)) = faultStuckat(f)
            /\ \A q \in {1, 2, 3} : q > p => StuckValues(injected, g, q) = {}
<1> DEFINE with == injected \cup {f}
           g == faultGate(f)
           p == faultPort(f)
           v == faultStuckat(f)
<1>1. \A h, q : ~ (h = g /\ q = p) => StuckValues(with, h, q) = StuckValues(injected, h, q)
  BY DEF StuckValues
<1>2. v \in StuckValues(with, g, p)
  BY DEF StuckValues
<1>3. f = 8 * g + 2 * p + v /\ g \in Nat /\ p \in Nat /\ v \in {0, 1}
  <2>1. f = 8 * g + 2 * p + v /\ g \in GateID /\ p \in {1, 2, 3} /\ v \in {0, 1}
    BY FaultNumberMade
  <2> HIDE DEF g, p, v
  <2>2. g \in Nat
    BY <2>1, SizeNat
  <2> QED
    BY <2>1, <2>2
<1>4. ASSUME NEW x \in injected, faultGate(x) = g
      PROVE  /\ faultPort(x) <= p
             /\ faultPort(x) = p => faultStuckat(x) <= v
  <2>1. x \in FaultNumber /\ x < f
    OBVIOUS
  <2>2. x = 8 * g + 2 * faultPort(x) + faultStuckat(x) /\ faultPort(x) \in Nat /\ faultStuckat(x) \in {0, 1}
    BY <1>4, <2>1, FaultNumberMade
  <2> HIDE DEF g, p, v
  <2> QED
    BY <1>3, <2>1, <2>2
<1>5. Held(StuckValues(with, g, p)) = v
  <2>1. CASE v = 1
    BY <1>2, <2>1 DEF Held
  <2>2. CASE v = 0
    <3>1. 1 \notin StuckValues(with, g, p)
      BY <1>4, <2>2 DEF StuckValues
    <3> QED
      BY <2>2, <3>1 DEF Held
  <2> QED
    BY <1>3, <2>1, <2>2
<1>6. ASSUME NEW q \in {1, 2, 3}, q > p
      PROVE  StuckValues(injected, g, q) = {}
  <2>1. \A x \in injected : ~ (faultGate(x) = g /\ faultPort(x) = q)
    <3> SUFFICES ASSUME NEW x \in injected, faultGate(x) = g, faultPort(x) = q PROVE FALSE
      OBVIOUS
    <3>1. q <= p
      BY <1>4
    <3> QED
      BY <1>3, <1>6, <3>1
  <2> QED
    BY <2>1 DEF StuckValues
<1> QED
  BY <1>1, <1>2, <1>5, <1>6

\* A tied line stays tied when another constant is pushed.
LEMMA TiedStaysTied ==
  ASSUME stuckatCons \in Seq(Bit), NEW b \in Bit, stuckatCons' = Append(stuckatCons, b),
         NEW cons, cons = Size + Len(stuckatCons)
  PROVE  /\ \A i, v : TiedTo(i, v) => TiedTo(i, v)'
         /\ TiedTo(cons, b)'
<1>1. Size \in Nat /\ Len(stuckatCons) \in Nat /\ Len(stuckatCons') = Len(stuckatCons) + 1
  BY SizeNat
<1> HIDE DEF GateID, Size
<1>2. \A k \in 1 .. Len(stuckatCons) : stuckatCons'[k] = stuckatCons[k]
  OBVIOUS
<1>3. stuckatCons'[Len(stuckatCons) + 1] = b
  OBVIOUS
<1>4. ASSUME NEW i, NEW v, TiedTo(i, v)
      PROVE  TiedTo(i, v)'
  <2>1. i \in Size .. Size + Len(stuckatCons) - 1 /\ stuckatCons[i - Size + 1] = v
    BY <1>4 DEF TiedTo
  <2>2. i - Size + 1 \in 1 .. Len(stuckatCons)
    BY <1>1, <2>1
  <2> QED
    BY <1>1, <1>2, <2>1, <2>2 DEF TiedTo
<1>5. TiedTo(cons, b)'
  BY <1>1, <1>3 DEF TiedTo
<1> QED
  BY <1>4, <1>5

\* One round of the injection loop adds one fault to what the gates show.
LEMMA InjectAddsFault ==
  ASSUME NEW net, WellFormed(net), InjectTypeOK,
         NEW injected, injected \subseteq FaultNumber, HasAllFaults(net, injected),
         NEW f \in allSSAFList(net), \A x \in injected : x < f,
         NEW values, InjectFault(f, values)
  PROVE  HasAllFaults(net, injected \cup {f})'
<1> DEFINE with == injected \cup {f}
           g == faultGate(f)
           p == faultPort(f)
           v == faultStuckat(f)
           S(h, q) == StuckValues(injected, h, q)
           W(h, q) == StuckValues(with, h, q)
<1>1. f \in FaultNumber /\ g \in GateID /\ p \in {1, 2, 3} /\ v \in Bit
  BY ListedFaults, FaultNumberMade DEF Bit
<1>2. /\ \A h, q : ~ (h = g /\ q = p) => W(h, q) = S(h, q)
      /\ W(g, p) # {} /\ Held(W(g, p)) = v
      /\ \A q \in {1, 2, 3} : q > p => S(g, q) = {}
  BY <1>1, LaterFaultHolds
<1>3. HasFaults(net, injected, g) /\ net[g] \in Gate /\ theCircuit[g] \in Gate
  BY <1>1 DEF HasAllFaults, InjectTypeOK, WellFormed
<1>4. ~ Skipped(f)
  <2>1. CASE p = 2
    <3>1. net[g].gateType = "aig"
      BY <2>1, InputTwoOfAigs
    <3>2. S(g, 3) = {}
      BY <1>2, <2>1
    <3>3. theCircuit[g].gateType = "aig"
      BY <1>3, <3>1, <3>2 DEF HasFaults
    <3> QED
      BY <2>1, <3>3 DEF Skipped, BinaryTypes
  <2> QED
    BY <1>1, <2>1 DEF Skipped
<1>0. PICK cons : cons = Size + Len(stuckatCons)
  OBVIOUS
<1>5. /\ stuckatCons' = Append(stuckatCons, v)
      /\ theCircuit' = [theCircuit EXCEPT ![g] = Faulted(@, p, cons)]
  BY <1>0, <1>4 DEF InjectFault
<1>6. /\ theCircuit'[g] = Faulted(theCircuit[g], p, cons)
      /\ \A h \in GateID : h # g => theCircuit'[h] = theCircuit[h]
  BY <1>1, <1>5 DEF InjectTypeOK
<1>7. /\ \A i, b : TiedTo(i, b) => TiedTo(i, b)'
      /\ TiedTo(cons, v)'
  BY <1>0, <1>1, <1>5, TiedStaysTied DEF InjectTypeOK
<1> HIDE DEF with, g, p, v
<1>8. ASSUME NEW h \in GateID, h # g
      PROVE  HasFaults(net, with, h)'
  <2>1. HasFaults(net, injected, h)
    BY DEF HasAllFaults
  <2>2. W(h, 1) = S(h, 1) /\ W(h, 2) = S(h, 2) /\ W(h, 3) = S(h, 3) /\ theCircuit'[h] = theCircuit[h]
    BY <1>2, <1>6, <1>8
  <2> QED
    BY <1>7, <2>1, <2>2 DEF HasFaults
<1>9. HasFaults(net, with, g)'
  <2>1. CASE p = 1
    <3>1. S(g, 2) = {} /\ S(g, 3) = {} /\ W(g, 2) = {} /\ W(g, 3) = {}
      BY <1>2, <2>1
    <3>2. W(g, 1) # {} /\ Held(W(g, 1)) = v
      BY <1>2, <2>1
    <3>3. theCircuit'[g] = [(IF theCircuit[g].gateType \in {"PI", "constant"}
                             THEN [theCircuit[g] EXCEPT !.gateType = "bufInv"]
                             ELSE theCircuit[g]) EXCEPT !.fanin1 = cons]
      BY <1>6, <2>1 DEF Faulted
    <3>4. /\ theCircuit'[g].fanin1 = cons
          /\ theCircuit'[g].gateType = IF theCircuit[g].gateType \in {"PI", "constant"}
                                       THEN "bufInv" ELSE theCircuit[g].gateType
          /\ theCircuit'[g].fanin2 = theCircuit[g].fanin2
          /\ theCircuit'[g].invIn1 = theCircuit[g].invIn1
          /\ theCircuit'[g].invIn2 = theCircuit[g].invIn2
          /\ theCircuit'[g].invOut = theCircuit[g].invOut
      BY <1>3, <3>3 DEF Gate
    <3> QED
      BY <1>3, <1>7, <3>1, <3>2, <3>4 DEF HasFaults
  <2>2. CASE p = 2
    <3>1. S(g, 3) = {} /\ W(g, 1) = S(g, 1) /\ W(g, 3) = {} /\ net[g].gateType = "aig"
      BY <1>2, <2>2, InputTwoOfAigs DEF g, p
    <3>2. W(g, 2) # {} /\ Held(W(g, 2)) = v
      BY <1>2, <2>2
    <3>3. theCircuit[g].gateType = "aig"
      BY <1>3, <3>1 DEF HasFaults
    <3>4. theCircuit'[g] = [theCircuit[g] EXCEPT !.fanin2 = cons]
      BY <1>6, <2>2, <3>3 DEF Faulted
    <3>5. /\ theCircuit'[g].fanin2 = cons
          /\ theCircuit'[g].gateType = theCircuit[g].gateType
          /\ theCircuit'[g].fanin1 = theCircuit[g].fanin1
          /\ theCircuit'[g].invIn1 = theCircuit[g].invIn1
          /\ theCircuit'[g].invIn2 = theCircuit[g].invIn2
          /\ theCircuit'[g].invOut = theCircuit[g].invOut
      BY <1>3, <3>4 DEF Gate
    <3> QED
      BY <1>3, <1>7, <3>1, <3>2, <3>5 DEF HasFaults
  <2>3. CASE p = 3
    <3>1. W(g, 3) # {} /\ Held(W(g, 3)) = v
      BY <1>2, <2>3
    <3>2. theCircuit'[g] = changeOutputStuckat(theCircuit[g], cons)
      BY <1>6, <2>3 DEF Faulted
    <3>3. /\ theCircuit'[g].fanin1 = cons /\ theCircuit'[g].gateType = "bufInv"
          /\ theCircuit'[g].invIn1 = 1 /\ theCircuit'[g].invOut = 1
      BY <1>3, <3>2 DEF changeOutputStuckat, Gate
    <3> QED
      BY <1>7, <3>1, <3>3 DEF HasFaults
  <2> QED
    BY <1>1, <2>1, <2>2, <2>3
<1> QED
  BY <1>8, <1>9 DEF HasAllFaults, with

\* The netlist itself shows no fault.
LEMMA NoFaults ==
  ASSUME NEW net, theCircuit = net
  PROVE  HasAllFaults(net, {})
BY DEF HasAllFaults, HasFaults, StuckValues

\* What the gate g of the faulty circuit reads on its inputs: the value a line
\* is tied to, or what the reference semantics has at the fanin; a gate that is
\* not computed carries its pattern's bit or its constant.
ReadsReference(net, pattern, ref, g, in1, in2, own) ==
  LET c == theCircuit[g]
  IN /\ \A v : TiedTo(c.fanin1, v) => in1 = v
     /\ \A v : TiedTo(c.fanin2, v) => in2 = v
     /\ c.fanin1 \in Fanins(net, g) => in1 = ref[c.fanin1]
     /\ c.fanin2 \in Fanins(net, g) => in2 = ref[c.fanin2]
     /\ c.gateType = "PI" => own = pattern[g]
     /\ c.gateType = "constant" => own = net[g].constant

\* A gate of a circuit with faults in it computes what the reference semantics
\* says, if its fanins carry what it says.
LEMMA ComputesReference ==
  ASSUME NEW net, WellFormed(net), NEW F, HasAllFaults(net, F), NEW pattern, NEW g \in GateID,
         NEW ref, NEW in1, NEW in2, NEW own, ReadsReference(net, pattern, ref, g, in1, in2, own)
  PROVE  (IF theCircuit[g].gateType \in {"PI", "constant"} THEN own
          ELSE getOutValue(theCircuit[g], in1, in2)) = RefOut(net, F, pattern, ref, g)
<1> DEFINE stuck(p) == StuckValues(F, g, p)
           c == theCircuit[g]
           out == IF c.gateType \in {"PI", "constant"} THEN own ELSE getOutValue(c, in1, in2)
<1> USE DEF ReadsReference
<1>1. HasFaults(net, F, g) /\ net[g] \in Gate
  BY DEF HasAllFaults, WellFormed
<1>2. \A p : Held(stuck(p)) \in {0, 1}
  BY DEF Held
<1>3. out = IF c.gateType \in {"PI", "constant"} THEN own ELSE getOutValue(c, in1, in2)
  OBVIOUS
<1>4. \A v \in {0, 1} : c.gateType = "bufInv" /\ c.invIn1 = 1 /\ c.invOut = 1 /\ TiedTo(c.fanin1, v)
                          => out = v
  <2> SUFFICES ASSUME NEW v \in {0, 1}, c.gateType = "bufInv", c.invIn1 = 1, c.invOut = 1,
                      TiedTo(c.fanin1, v)
               PROVE  out = v
    OBVIOUS
  <2>1. in1 = v
    OBVIOUS
  <2> HIDE DEF out, c
  <2> QED
    BY <1>3, <2>1 DEF getOutValue
<1>5. CASE stuck(3) # {}
  <2>1. out = Held(stuck(3))
    BY <1>1, <1>2, <1>4, <1>5 DEF HasFaults
  <2> QED
    BY <1>5, <2>1 DEF RefOut, Line
<1>6. CASE stuck(3) = {} /\ net[g].gateType \in {"PI", "constant"}
  <2>1. net[g].invIn1 = 1 /\ net[g].invOut = 1
    BY <1>6 DEF WellFormed
  <2>2. CASE stuck(1) # {}
    <3>1. out = Held(stuck(1))
      BY <1>1, <1>2, <1>4, <1>6, <2>1, <2>2 DEF HasFaults
    <3> QED
      BY <1>6, <2>2, <3>1 DEF RefOut, Line
  <2>3. CASE stuck(1) = {}
    <3>1. c.gateType = net[g].gateType
      BY <1>1, <1>6, <2>3 DEF HasFaults
    <3>2. out = own
      BY <1>3, <1>6, <3>1
    <3> QED
      BY <1>6, <2>3, <3>1, <3>2 DEF RefOut, Line
  <2> QED
    BY <2>2, <2>3
<1>7. CASE stuck(3) = {} /\ net[g].gateType \notin {"PI", "constant"}
  <2> DEFINE l1 == Line(F, g, 1, ref[net[g].fanin1])
             l2 == Line(F, g, 2, ref[net[g].fanin2])
  <2>1. /\ c.gateType = net[g].gateType
        /\ c.invIn1 = net[g].invIn1 /\ c.invIn2 = net[g].invIn2 /\ c.invOut = net[g].invOut
        /\ IF stuck(1) # {} THEN TiedTo(c.fanin1, Held(stuck(1))) ELSE c.fanin1 = net[g].fanin1
        /\ IF stuck(2) # {} THEN TiedTo(c.fanin2, Held(stuck(2))) ELSE c.fanin2 = net[g].fanin2
    BY <1>1, <1>7 DEF HasFaults
  <2>2. RefOut(net, F, pattern, ref, g) = getOutValue(net[g], l1, l2)
    BY <1>7 DEF RefOut, Line
  <2>3. net[g].gateType \in {"bufInv", "aig", "PO"}
    BY <1>1, <1>7 DEF Gate, Type
  <2>4. in1 = l1
    <3>1. CASE stuck(1) # {}
      BY <2>1, <3>1 DEF Line
    <3>2. CASE stuck(1) = {}
      <4>1. net[g].fanin1 \in Fanins(net, g)
        BY <2>3 DEF Fanins
      <4> QED
        BY <2>1, <3>2, <4>1 DEF Line
    <3> QED
      BY <3>1, <3>2
  <2>5. net[g].gateType = "aig" => in2 = l2
    <3> SUFFICES ASSUME net[g].gateType = "aig" PROVE in2 = l2
      OBVIOUS
    <3>1. CASE stuck(2) # {}
      BY <2>1, <3>1 DEF Line
    <3>2. CASE stuck(2) = {}
      <4>1. net[g].fanin2 \in Fanins(net, g)
        BY DEF Fanins
      <4> QED
        BY <2>1, <3>2, <4>1 DEF Line
    <3> QED
      BY <3>1, <3>2
  <2>6. out = getOutValue(c, in1, in2)
    BY <1>3, <1>7, <2>1
  <2> HIDE DEF out, c, l1, l2
  <2>7. getOutValue(c, in1, in2) = getOutValue(net[g], l1, l2)
    BY <2>1, <2>3, <2>4, <2>5 DEF getOutValue
  <2> QED
    BY <2>2, <2>6, <2>7 DEF out, c
<1> QED
  BY <1>5, <1>6, <1>7
=============================================================================
