-------------------------------- MODULE Gate --------------------------------
(***************************************************************************)
(* One gate of the and-inverter graph: class gate of inc/Gate.h.           *)
(*                                                                         *)
(* A gate record keeps what decides a gate's function: its type, the       *)
(* positions its fanin pointers lead to and its three inversion flags.     *)
(* The value a gate carries (outValue, outValue_64) is state of the        *)
(* simulator and lives in the modules that simulate; the value a constant  *)
(* is built with is the field "constant".                                  *)
(***************************************************************************)
EXTENDS Integers

Bit == {0, 1}

\* enum Type, without the XOR and OR gates that only the SAT miter contains.
Type == {"PI", "constant", "bufInv", "aig", "PO"}

\* A fanin pointer nobody has set.
NoGate == -1

Gate == [gateType : Type, fanin1 : Int, fanin2 : Int,
         invIn1 : Bit, invIn2 : Bit, invOut : Bit, constant : Bit]

\* The constructors of primary inputs and outputs, constants, buffers and AIGs.
PIGate == [gateType |-> "PI", fanin1 |-> NoGate, fanin2 |-> NoGate,
           invIn1 |-> 1, invIn2 |-> 0, invOut |-> 1, constant |-> 0]

POGate(f1) == [PIGate EXCEPT !.gateType = "PO", !.fanin1 = f1]

ConstantGate(v) == [PIGate EXCEPT !.gateType = "constant", !.constant = v]

BufInvGate(f1, inv1, invO) ==
  [PIGate EXCEPT !.gateType = "bufInv", !.fanin1 = f1, !.invIn1 = inv1, !.invOut = invO]

AigGate(f1, f2, inv1, inv2, invO) ==
  [gateType |-> "aig", fanin1 |-> f1, fanin2 |-> f2,
   invIn1 |-> inv1, invIn2 |-> inv2, invOut |-> invO, constant |-> 0]

\* Gates whose function reads a second input.
BinaryTypes == {"aig"}

\* gate::getOutValue: an AIG puts out invOut exactly when both inputs equal
\* their flags, a buffer/inverter when its one input does.
getOutValue(g, in1, in2) ==
  CASE g.gateType = "PO"     -> in1
    [] g.gateType = "bufInv" -> IF in1 = g.invIn1 THEN g.invOut ELSE 1 - g.invOut
    [] g.gateType = "aig"    -> IF in1 = g.invIn1 /\ in2 = g.invIn2
                                THEN g.invOut ELSE 1 - g.invOut
    [] OTHER                 -> 0

\* gate::changeOutputStuckat: the gate becomes a buffer of the stuck-at constant.
changeOutputStuckat(g, stuckatCons) ==
  [g EXCEPT !.gateType = "bufInv", !.fanin1 = stuckatCons, !.invIn1 = 1, !.invOut = 1]

(***************************************************************************)
(* Faults.  A fault is an integer whose bits are the gate, the port (1 and *)
(* 2 the inputs, 3 the output) and the value the port is stuck at.         *)
(***************************************************************************)
FaultID(gateID, port, stuckat) == 8 * gateID + 2 * port + stuckat

faultGate(faultID) == faultID \div 8
faultPort(faultID) == (faultID \div 2) % 4
faultStuckat(faultID) == faultID % 2
=============================================================================
