---------------------------- MODULE MCFaultSearch ----------------------------
(***************************************************************************)
(* Circuits of four inputs, six gates and two outputs, each chosen for     *)
(* something the search has to do: see the definitions.  An AIG is given   *)
(* by its fanins and inversion flags.  Patterns are numbers, input i being *)
(* bit i.                                                                  *)
(*                                                                         *)
(* FaultSearch is an instance, over the circuit and the redundant faults   *)
(* of DSARedundancy.  Two variables of the latter are not its own: the     *)
(* cones, which never change, and the pairs on one path, which it          *)
(* recomputes.                                                             *)
(***************************************************************************)
EXTENDS DSARedundancy, Sequences

CONSTANT PatternLists(_)

VARIABLES
  SSAFPatterns, SSAFToPatterns, potentiallyUndetected, SSAFToPathGates, SSAFToFaultsBlockedInGate,
  DSAFPatterns, DSAFToPatterns, SSAToblockDSA, DSAToblockSSA,
  undetectedTSA, redundantTSAFList, TSAFPatterns, current, outValue, different

Search == INSTANCE FaultSearch

ASSUME PatternListsAssumption == Search!PatternListsAssumption

SearchInit ==
  /\ Search!Init
  /\ gateToRelatedGates = [g \in GateID |-> RelatedGates(netlist, g)]
  /\ deleteDSAs = {}

SearchNext == Search!Next /\ UNCHANGED <<gateToRelatedGates, deleteDSAs>>

SearchSpec == SearchInit /\ [][SearchNext]_<<Search!vars, gateToRelatedGates, deleteDSAs>>

\* generateDSATest gets pairs only, and leaves no testable pair without a test.
PairsSettled == Search!PairsSettled

\* The triples that are listed have three faults, and each is settled.
TriplesSettled == Search!TriplesSettled

\* findPotentialUndetectedDSAF, without fanout: the faults that hide another.
SingleMasksExact == Search!SingleMasksExact

\* findSSABlockedByDSAInOnePath, without fanout: the pairs that hide a fault.
DoubleMasksFound == Search!DoubleMasksFound
-----------------------------------------------------------------------------

Circuit(gates, outputs) ==
  [g \in GateID |->
     IF g \in PIs THEN PIGate
     ELSE IF g \in POs THEN POGate(outputs[g - PISize - gateSize + 1])
     ELSE gates[g - PISize + 1]]

PatternOf(n) == [i \in PIs |-> (n \div 2^i) % 2]

Aigs(list) == [k \in 1 .. Len(list) |-> AigGate(list[k][1], list[k][2], list[k][3], list[k][4], list[k][5])]

\* A circuit of four AIGs over the inputs 0, 1 and 2 that input 3 enables; the
\* second output repeats the first.
Enabled3(list) == Circuit(Aigs(Append(list, <<7, 3, 0, 0, 0>>)) \o <<BufInvGate(8, 0, 0)>>, <<8, 9>>)

\* One additional test that serves two pairs; two additional tests; pairs that
\* are one fault; an additional test for a triple.
Shared == Enabled3(<<<<1,0,0,1,0>>, <<2,4,0,1,1>>, <<5,1,1,0,0>>, <<6,1,1,0,1>>>>)
TwoTests == Enabled3(<<<<1,2,0,0,0>>, <<2,0,1,0,1>>, <<4,5,1,1,1>>, <<6,4,0,0,0>>>>)
Single == Enabled3(<<<<1,0,0,0,1>>, <<4,2,0,1,0>>, <<5,4,1,0,0>>, <<6,4,1,0,1>>>>)
Triple == Enabled3(<<<<1,2,1,0,1>>, <<4,1,1,0,1>>, <<5,0,1,0,1>>, <<6,1,0,0,1>>>>)

\* An additional test is due to a pair that is only found behind a side input.
BehindSide == Circuit(Aigs(<<<<0,1,0,0,0>>, <<2,4,1,0,0>>, <<3,0,1,1,0>>, <<5,4,1,1,0>>,
                         <<6,5,1,0,0>>, <<7,6,0,0,1>>>>), <<8, 9>>)

\* Circuits without fanout, with some of their inversions.
Flags == {<<1,0,0,0,1,0>>, <<1,1,1,1,1,1>>, <<0,1,1,0,1,0>>, <<0,0,1,0,0,1>>}
Inv(a, i) == BufInvGate(a, i, 0)
Chains == {Circuit(<<AigGate(0, 1, i[1], i[2], i[3]), Inv(4, i[5]), AigGate(5, 2, i[4], i[6], i[1]),
                     Inv(6, i[3]), Inv(7, i[2]), Inv(3, i[1])>>, <<8, 9>>) : i \in Flags}
SearchNetlists == {Shared, TwoTests, Single, Triple, BehindSide} \cup Chains

\* The patterns to take first.
FirstPatterns(net) ==
  CASE net = Shared   -> <<11, 12, 8, 9>>
    [] net = TwoTests -> <<12, 10, 9>>
    [] net = Single   -> <<14, 9, 8, 12, 13>>
    [] net = Triple   -> <<13, 11, 12, 8>>
    [] net = BehindSide   -> <<8, 3, 15, 9, 14, 4>>
    [] OTHER          -> <<3, 6, 9, 12, 15, 2, 5>>

Order(net) ==
  FirstPatterns(net) \o
  SelectSeq([k \in 1 .. 2^PISize |-> k - 1],
            LAMBDA n : \A k \in 1 .. Len(FirstPatterns(net)) : FirstPatterns(net)[k] # n)

\* The patterns that detect a fault none before them does.
Cover(net, order) ==
  LET step[k \in 0 .. Len(order)] ==
        IF k = 0 THEN [list |-> << >>, left |-> allSSAFList(net)]
        ELSE LET previous == step[k - 1]
                 found == {f \in previous.left : RefDetects(net, {f}, PatternOf(order[k]))}
             IN IF found = {} THEN previous
                ELSE [list |-> Append(previous.list, PatternOf(order[k])), left |-> previous.left \ found]
  IN step[Len(order)].list

MCPatternLists(net) == {Cover(net, Order(net))}
=============================================================================
