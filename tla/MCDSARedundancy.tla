--------------------------- MODULE MCDSARedundancy ---------------------------
(***************************************************************************)
(* Two inputs (0, 1), three AIGs (2, 3, 4) and two outputs (5, 6) in three *)
(* shapes with every choice of inversions: two branches that meet, two     *)
(* that do not, and a chain that reads its inputs again and again, which   *)
(* is where redundant faults come in numbers.                              *)
(***************************************************************************)
EXTENDS DSARedundancy

FromZero(s) == [g \in GateID |-> s[g + 1]]

Shape(a, b, c, p, q) ==
  {FromZero(<<PIGate, PIGate,
              AigGate(a[1], a[2], i[1], i[2], i[3]),
              AigGate(b[1], b[2], i[4], i[5], 1),
              AigGate(c[1], c[2], 0, i[6], i[3]),
              POGate(p), POGate(q)>>) : i \in [1 .. 6 -> Bit]}

Meeting == Shape(<<0, 0>>, <<1, 1>>, <<2, 3>>, 4, 4)
Apart == Shape(<<0, 0>>, <<1, 1>>, <<2, 0>>, 4, 3)
Chain == Shape(<<1, 0>>, <<2, 1>>, <<3, 2>>, 4, 4)
MCNetlists == Meeting \cup Apart \cup Chain

\* The chain in which two redundant faults on one path make a detectable pair.
OneChain ==
  {FromZero(<<PIGate, PIGate, AigGate(1, 0, 1, 1, 0), AigGate(2, 1, 0, 0, 1),
              AigGate(3, 2, 0, 0, 0), POGate(4), POGate(4)>>)}
=============================================================================
