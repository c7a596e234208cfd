--------------------------- MODULE FaultDetection ---------------------------
(***************************************************************************)
(* What checkallPatterns promises its callers: asked which of a list of    *)
(* patterns detects a set of simultaneous faults, it names one that does,  *)
(* from the earliest block of WSIZE patterns that holds such a pattern, or *)
(* answers -1 when there is none.  It need not be the first of its block.  *)
(***************************************************************************)
EXTENDS Integers, Sequences

CONSTANTS
  WSIZE,            \* patterns simulated at a time
  Netlists,         \* circuits
  Requests(_),      \* of a circuit: pairs of a set of faults and a list of patterns
  Detects(_, _, _)  \* in a circuit, a pattern shows the faults at some primary output

VARIABLES netlist, asked, reply

NoRequest == <<>>
NoReply == -2
Undetected == -1

\* Positions count from 0.
Detecting(req) == {i \in 0 .. Len(req[2]) - 1 : Detects(netlist, req[1], req[2][i + 1])}
Block(i) == i \div WSIZE

Init == netlist \in Netlists /\ asked = NoRequest /\ reply = NoReply

Ask ==
  /\ asked = NoRequest
  /\ asked' \in Requests(netlist)
  /\ reply' = NoReply
  /\ UNCHANGED netlist

ReplyWith(i) ==
  /\ asked # NoRequest
  /\ \/ i = Undetected /\ (asked[1] = {} \/ Detecting(asked) = {})
     \/ /\ i \in Detecting(asked)
        /\ \A j \in Detecting(asked) : Block(i) <= Block(j)
  /\ reply' = i
  /\ asked' = NoRequest
  /\ UNCHANGED netlist

Next ==
  \/ Ask
  \/ asked # NoRequest /\ \E i \in -1 .. Len(asked[2]) - 1 : ReplyWith(i)

Spec == Init /\ [][Next]_<<netlist, asked, reply>>
=============================================================================
