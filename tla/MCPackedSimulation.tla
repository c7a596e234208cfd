------------------------- MODULE MCPackedSimulation -------------------------
(***************************************************************************)
(* One input, two gates and two outputs with words of two bits and up to   *)
(* three patterns: one full block and one block with an unused bit.  The   *)
(* outputs have different cones, so that a call leaves words of earlier    *)
(* calls in the circuit, and a pattern list can hold two detecting         *)
(* patterns that show at different outputs.                                *)
(***************************************************************************)
EXTENDS PackedSimulation

FromZero(s) == [g \in GateID |-> s[g + 1]]

\* 0 the input, 1 and 2 gates, 3 and 4 the outputs
Contradiction == FromZero(<<PIGate, BufInvGate(0, 1, 0), AigGate(0, 1, 1, 0, 0), POGate(2), POGate(1)>>)
WithConstant == FromZero(<<PIGate, ConstantGate(1), AigGate(0, 1, 0, 1, 1), POGate(2), POGate(0)>>)
MCNetlists == {Contradiction, WithConstant}

\* No fault and one; a fault on the first line of gate 2 with one on the same
\* gate, with one elsewhere, and with one before and one behind it.
MCFaultSets(net) ==
  LET reached == {f \in allSSAFList(net) : ReachedFromPI(net, faultGate(f))}
      On(gates) == {f \in reached : faultGate(f) \in gates}
      first == {f \in On({2}) : faultPort(f) = 1}
      zero == {f \in first : faultStuckat(f) = 0}
  IN {{}} \cup {{f} : f \in reached}
          \cup {{f, g} : f \in first, g \in On({2})}
          \cup {{f, g} : f \in zero, g \in On(GateID \ {2})}
          \cup {{f, g, h} : f \in zero, g \in On({0, 1}), h \in On({3})}
=============================================================================
