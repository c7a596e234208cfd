------------------------------- MODULE Miter -------------------------------
(***************************************************************************)
(* The circuit that inc/Testgenebysat.h gives to the SAT solver, and its   *)
(* clauses: two copies of (part of) the circuit, inputs they share, an XOR *)
(* for each pair of outputs and the outputs of the whole; faults go into   *)
(* the second copy.                                                        *)
(*                                                                         *)
(* A gate of the miter is a record of Gate with its gateID added.  A fanin *)
(* pointer is kept as the gateID of the gate it leads to, which is all     *)
(* that generateClause reads through it.  A literal is the number of a     *)
(* variable, gateID + 1, or its negative; a clause is a set of literals.   *)
(***************************************************************************)
EXTENDS Netlist, Sequences

MiterGate(g, id) ==
  [gateID |-> id, gateType |-> g.gateType, fanin1 |-> g.fanin1, fanin2 |-> g.fanin2,
   invIn1 |-> g.invIn1, invIn2 |-> g.invIn2, invOut |-> g.invOut, constant |-> g.constant]

(***************************************************************************)
(* Clauses.                                                                *)
(***************************************************************************)
Var(gateID) == gateID + 1
Literal(gateID, flag) == IF flag = 1 THEN Var(gateID) ELSE - Var(gateID)

\* generateClause; CNFGeneration.h has a second copy of it.  OR gates occur
\* nowhere and are left out.
generateClause(g) ==
  LET in1 == Literal(g.fanin1, g.invIn1)
      in2 == Literal(g.fanin2, g.invIn2)
      out == Literal(g.gateID, g.invOut)
  IN CASE g.gateType = "PI"             -> {{- Var(g.gateID), Var(g.gateID)}}
       [] g.gateType \in {"PO", "bufInv"} -> {{in1, - out}, {- in1, out}}
       [] g.gateType = "constant"       -> {{Literal(g.gateID, g.constant)}}
       [] g.gateType = "aig"            -> {{in1, - out}, {in2, - out}, {- in1, - in2, out}}
       [] g.gateType = "XOR"            -> {{in1, in2, - out}, {in1, - in2, out},
                                            {- in1, - in2, - out}, {- in1, in2, out}}
       [] OTHER                         -> {}

\* The elements of a set in the order of a relation.
Enumerated(S, before) ==
  [k \in 1 .. Cardinality(S) |-> CHOOSE x \in S : Cardinality({y \in S : <<y, x>> \in before}) = k - 1] \o << >>

(***************************************************************************)
(* The miter over the gates cur (positions of the circuit, inputs first    *)
(* and outputs last).  The gateIDs are the positions in                    *)
(*   original | faulty | new inputs | XORs | new outputs                   *)
(***************************************************************************)
CountOf(net, cur, type) == Cardinality({i \in 1 .. Len(cur) : net[cur[i]].gateType = type})

\* oriCirIDToCur
oriCirIDToCur(cur, g) == CHOOSE i \in 0 .. Len(cur) - 1 : cur[i + 1] = g

\* copyCircuit_1, for the copy that starts at offset; copyCircuit is the same
\* for the whole circuit.
copyCircuit_1(net, cur, offset) ==
  [i \in 1 .. Len(cur) |->
     LET g == net[cur[i]]
     IN [MiterGate(g, offset + i - 1) EXCEPT
           !.fanin1 = IF @ = NoGate THEN NoGate ELSE offset + oriCirIDToCur(cur, @),
           !.fanin2 = IF @ = NoGate THEN NoGate ELSE offset + oriCirIDToCur(cur, @)]]

\* generateOriAndFau and generateOriAndFau_1.
generateOriAndFau(net, cur) ==
  LET n == Len(cur)
      pis == CountOf(net, cur, "PI")
      pos == CountOf(net, cur, "PO")
      \* inputs read the new inputs, outputs become buffers
      connected(copy) ==
        [i \in 1 .. n |->
           CASE i <= pis     -> [copy[i] EXCEPT !.gateType = "bufInv", !.fanin1 = 2 * n + i - 1]
             [] i > n - pos  -> [copy[i] EXCEPT !.gateType = "bufInv"]
             [] OTHER        -> copy[i]]
      newXOR(i) == [MiterGate(AigGate(n - pos + i - 1, 2 * n - pos + i - 1, 1, 1, 1), 2 * n + pis + i - 1)
                      EXCEPT !.gateType = "XOR"]
  IN connected(copyCircuit_1(net, cur, 0)) \o connected(copyCircuit_1(net, cur, n)) \o
     [i \in 1 .. pis |-> MiterGate(PIGate, 2 * n + i - 1)] \o
     [i \in 1 .. pos |-> newXOR(i)] \o
     [i \in 1 .. pos |-> MiterGate(POGate(2 * n + pis + i - 1), 2 * n + pis + pos + i - 1)]

\* The gateID of the first stuck-at constant, and how a gate becomes faulty:
\* the same in injectFaultsInCNF and injectFaultsInOriAndFau_1.
preSize(net, cur) == 2 * Len(cur) + CountOf(net, cur, "PI") + 2 * CountOf(net, cur, "PO") + 1

Skipped(g, port) == port = 0 \/ (port = 2 /\ g.gateType \notin {"aig", "XOR"})

\* Broken variant: the gate keeps its output inversion.
Faulted_InversionKept(g, port, cons) ==
  LET asBuffer == IF g.gateType = "constant" THEN [g EXCEPT !.gateType = "bufInv"] ELSE g
  IN CASE port = 1 -> [asBuffer EXCEPT !.fanin1 = cons]
       [] port = 2 -> [asBuffer EXCEPT !.fanin2 = cons]
       [] OTHER    -> [g EXCEPT !.gateType = "bufInv", !.fanin1 = cons, !.invIn1 = 1]

Faulted(g, port, cons) ==
  LET asBuffer == IF g.gateType = "constant" THEN [g EXCEPT !.gateType = "bufInv"] ELSE g
  IN CASE port = 1 -> [asBuffer EXCEPT !.fanin1 = cons]
       [] port = 2 -> [asBuffer EXCEPT !.fanin2 = cons]
       [] OTHER    -> changeOutputStuckat(g, cons)

\* The clauses of all gates, and the one that asks for an output that differs:
\* the output variable is taken from the position.
outputClause(gates) == {Var(p - 1) : p \in {q \in 1 .. Len(gates) : gates[q].gateType = "PO"}}

(***************************************************************************)
(* What the solver promises: an assignment that satisfies all clauses, any *)
(* one, if there is one.  Models are computed variable by variable in a    *)
(* given order; every order gives the same set.                            *)
(***************************************************************************)
Holds(clause, a) == \E l \in clause : IF l > 0 THEN a[l] = 1 ELSE a[- l] = 0

VarOf(l) == IF l > 0 THEN l ELSE - l

Models(cnf, order) ==
  LET place == [v \in {order[k] : k \in 1 .. Len(order)} |-> CHOOSE k \in 1 .. Len(order) : order[k] = v]
      lastOf(c) == CHOOSE k \in {place[VarOf(l)] : l \in c} : \A l \in c : place[VarOf(l)] <= k
      due == [k \in 1 .. Len(order) |-> {c \in cnf : c # {} /\ lastOf(c) = k}]
      models[k \in 0 .. Len(order)] ==
        IF k = 0 THEN {[v \in {} |-> 0]}
        ELSE {a \in {[v \in DOMAIN b \cup {order[k]} |-> IF v = order[k] THEN x ELSE b[v]] :
                     b \in models[k - 1], x \in Bit} :
                \A c \in due[k] : Holds(c, a)}
  IN IF {} \in cnf THEN {} ELSE models[Len(order)]

\* The variables of the clauses in an order in which few assignments survive:
\* those of inputs and constants, which have a clause to themselves, first.
Order(cnf) ==
  LET vars == UNION {{VarOf(l) : l \in c} : c \in cnf}
      first == {v \in vars : {{v}, {- v}, {v, - v}} \cap cnf # {}}
      before(u, v) == IF u \in first <=> v \in first THEN u < v ELSE u \in first
  IN Enumerated(vars, {p \in vars \X vars : before(p[1], p[2])})
=============================================================================
