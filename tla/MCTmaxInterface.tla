-------------------------- MODULE MCTmaxInterface --------------------------
(***************************************************************************)
(* Two inputs, two gates that read them and four outputs, two of which     *)
(* are inputs; up to two multiple faults.                                  *)
(***************************************************************************)
EXTENDS TmaxInterface, FiniteSetsExt

\* 0 and 1 inputs, 2 and 3 gates, 4 to 7 the outputs
Net(g2, g3, outputs) ==
  (0 :> PIGate) @@ (1 :> PIGate) @@ (2 :> g2) @@ (3 :> g3) @@ [p \in POs |-> POGate(outputs[p - 3])]

SideBySide ==
  {Net(AigGate(0, 1, i[1], i[2], i[3]), AigGate(0, 1, 0, 0, 1), <<0, 2, 1, 3>>) :
     i \in {<<1, 1, 1>>, <<1, 0, 1>>, <<0, 1, 0>>}}
MCNetlists ==
  SideBySide \cup
  {Net(AigGate(0, 1, 1, 1, 0), g3, <<0, 2, 1, 3>>) :
     g3 \in {AigGate(0, 2, 0, 1, 1), AigGate(2, 1, 1, 0, 0), BufInvGate(0, 1, 1), ConstantGate(0)}} \cup
  {Net(AigGate(0, 1, 0, 0, 0), g3, <<3, 0, 2, 1>>) :
     g3 \in {AigGate(2, 2, 1, 1, 1), BufInvGate(2, 1, 0), BufInvGate(2, 0, 1), ConstantGate(1)}}

HasPin(net, f) ==
  faultPort(f) = 3 \/ (faultPort(f) = 1 /\ net[faultGate(f)].fanin1 # NoGate) \/
  (faultPort(f) = 2 /\ net[faultGate(f)].fanin2 # NoGate)

\* Three lines of the two gates and behind them.
MCFaults(net) == {f \in allSSAFList(net) : faultGate(f) \in {2, 3, 5} /\ HasPin(net, f)}
LinesOf(S) == {<<faultGate(f), faultPort(f)>> : f \in S}
Triples(net) == {S \in kSubset(3, MCFaults(net)) : Cardinality(LinesOf(S)) = 3}

\* Three of the six lines that no other one is behind, when both gates and two
\* outputs read the inputs.
FromInputs(net) ==
  kSubset(3, {f \in allSSAFList(net) : /\ faultStuckat(f) = 1
                                       /\ LinesOf({f}) \subseteq ({2, 3} \X {1, 2}) \cup ({4, 6} \X {1})})
PairsOf(sets) == {pair \in sets \X sets : Before(pair[1], pair[2])}

\* Also sets of two, of four, with a fault on a pin that does not exist, and two
\* of different sizes.
MCMSASets(net) ==
  {<<S>> : S \in Triples(net)} \cup
  {<<{FaultID(2, 1, 0), FaultID(2, 3, 1)}>>, <<{FaultID(2, 3, 1), FaultID(0, 1, 1)}>>,
   <<{FaultID(2, p, 1) : p \in 1 .. 3} \cup {FaultID(3, 3, 0)}, {FaultID(2, 3, 1), FaultID(3, 3, 0), FaultID(5, 1, 1)}>>} \cup
  (IF net \in SideBySide THEN PairsOf(FromInputs(net)) ELSE {})
=============================================================================
