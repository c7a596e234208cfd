------------------------ MODULE MCCircuitSimulation ------------------------
(***************************************************************************)
(* Small circuits for the simulator, with two inputs, two gates and two    *)
(* outputs: a gate reconverges on an input, with inverted pins; the cones  *)
(* of the outputs are disjoint or overlap, so that a call leaves part of   *)
(* the circuit as earlier calls left it; a constant feeds a gate.          *)
(***************************************************************************)
EXTENDS CircuitSimulation

FromZero(s) == [g \in GateID |-> s[g + 1]]

\* 0 and 1 inputs, 2 and 3 gates, 4 and 5 the outputs
Reconvergent == FromZero(<<PIGate, PIGate, AigGate(0, 1, 1, 0, 1), AigGate(2, 1, 0, 1, 0), POGate(3), POGate(3)>>)
Disjoint == FromZero(<<PIGate, PIGate, BufInvGate(0, 1, 0), BufInvGate(1, 0, 0), POGate(2), POGate(3)>>)
Overlapping == FromZero(<<PIGate, PIGate, AigGate(0, 1, 1, 1, 1), BufInvGate(2, 1, 0), POGate(1), POGate(3)>>)
WithConstant == FromZero(<<PIGate, PIGate, ConstantGate(1), AigGate(2, 0, 1, 1, 0), POGate(3), POGate(1)>>)
MCNetlists == {Reconvergent, Disjoint, Overlapping, WithConstant}

\* On the first, a fault of gate 2 with any fault; single faults on the others.
MCFaultSets(net) ==
  IF net = Reconvergent
  THEN {{f, g} : f \in {h \in allSSAFList(net) : faultGate(h) = 2}, g \in allSSAFList(net)}
  ELSE {{f} : f \in allSSAFList(net)}
=============================================================================
