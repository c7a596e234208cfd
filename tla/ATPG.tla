-------------------------------- MODULE ATPG --------------------------------
(***************************************************************************)
(* The test generation flow of ATPGInit in inc/ATPG.h: the given patterns  *)
(* are paired with the single stuck-at faults (SSA), tests are added for   *)
(* the faults they miss, then the double (DSA) and the triple (TSA) faults *)
(* that those tests may miss are listed, thinned out and tested.           *)
(*                                                                         *)
(* Three services are used through what they promise.  checkallPatterns    *)
(* names a pattern of a list that detects the faults, if there is one.     *)
(* generateTestBySAT_1 finds a detecting pattern, if there is one.  The    *)
(* search for blocking faults returns faults of the lists it is given; the *)
(* flow takes whatever it returns.                                         *)
(***************************************************************************)
EXTENDS Integers, Sequences, FiniteSets

CONSTANTS
  allSSAFList,        \* every single fault
  collapsedSSAFList,  \* the faults the fault model selects
  Patterns,           \* input vectors
  InitialPatterns,    \* pattern files: the lists of patterns that may be given
  DetectionTables,    \* which patterns detect which sets of simultaneous faults
  BlockLists,         \* what one search for blocking single faults may return
  DSABlockLists       \* what one search for blocking double faults may return

DoubleFaults == {{f, g} : f \in allSSAFList, g \in allSSAFList}
MultipleFaults == {{f, g, h} : f \in allSSAFList, g \in allSSAFList, h \in allSSAFList}

ASSUME ATPGAssumption ==
  /\ allSSAFList \subseteq Nat
  /\ collapsedSSAFList \subseteq allSSAFList
  /\ InitialPatterns \subseteq Seq(Patterns)
  /\ \A table \in DetectionTables :
       /\ DOMAIN table = MultipleFaults
       /\ \A F \in MultipleFaults : table[F] \subseteq Patterns
  /\ BlockLists \subseteq SUBSET allSSAFList
  /\ \A L \in DSABlockLists : L \subseteq DoubleFaults

VARIABLES
  detectedBy,             \* the circuit, as far as the flow sees it; never changes
  pc,                     \* phase of ATPGInit
  todo,                   \* what the phase's loop has not reached
  SSAFPatterns, newSSAPatterns, DSAFPatterns, TSAFPatterns, AllPatterns,
  SSAFToPatterns, DSAFToPatterns,               \* fault, or pair, to a pattern for it
  redundantSSAF, redundantDSAF, redundantTSAFList,
  potentiallyUndetected,                        \* fault to the faults that may block it
  undetectedDSA, undetectedTSA,
  searchedDSA, searchedTSA                      \* history: the lists before compression

ssaVars == <<SSAFPatterns, newSSAPatterns, SSAFToPatterns, redundantSSAF>>
dsaVars == <<potentiallyUndetected, undetectedDSA, DSAFPatterns, DSAFToPatterns, redundantDSAF, searchedDSA>>
tsaVars == <<undetectedTSA, TSAFPatterns, redundantTSAFList, searchedTSA>>
vars == <<detectedBy, pc, todo, ssaVars, dsaVars, tsaVars, AllPatterns>>

First(S) == {x \in S : \A y \in S : x <= y}

Patterned(list) == {list[i] : i \in 1 .. Len(list)}

\* The patterns checkallPatterns may point to; none stands for its answer -1.
checkallPatterns(F, list) == Patterned(list) \cap detectedBy[F]

\* map::insert keeps an entry that is there.
Inserted(map, key, value) ==
  [k \in DOMAIN map \cup {key} |-> IF k \in DOMAIN map THEN map[k] ELSE value]

EmptyMap == [k \in {} |-> {}]

Init ==
  /\ detectedBy \in DetectionTables
  /\ pc = "pairSSA"
  /\ todo = allSSAFList
  /\ SSAFPatterns \in InitialPatterns
  /\ newSSAPatterns = << >> /\ DSAFPatterns = << >> /\ TSAFPatterns = << >> /\ AllPatterns = << >>
  /\ SSAFToPatterns = EmptyMap /\ DSAFToPatterns = EmptyMap
  /\ redundantSSAF = {} /\ redundantDSAF = {} /\ redundantTSAFList = {}
  /\ potentiallyUndetected = EmptyMap
  /\ undetectedDSA = {} /\ undetectedTSA = {}
  /\ searchedDSA = {} /\ searchedTSA = {}

(***************************************************************************)
(* Single faults: pairSSAPatternWithSSAF.                                  *)
(***************************************************************************)
PairSSA(f) ==
  /\ pc = "pairSSA"
  /\ f \in First(todo)
  /\ \/ \E p \in checkallPatterns({f}, SSAFPatterns) :
          SSAFToPatterns' = Inserted(SSAFToPatterns, f, p)
     \/ checkallPatterns({f}, SSAFPatterns) = {} /\ UNCHANGED SSAFToPatterns
  /\ todo' = todo \ {f}
  /\ UNCHANGED <<detectedBy, pc, SSAFPatterns, newSSAPatterns, redundantSSAF, dsaVars, tsaVars, AllPatterns>>

PairSSADone ==
  /\ pc = "pairSSA"
  /\ todo = {}
  /\ todo' = allSSAFList \ DOMAIN SSAFToPatterns
  /\ pc' = "testSSA"
  /\ UNCHANGED <<detectedBy, ssaVars, dsaVars, tsaVars, AllPatterns>>

\* Broken variant: the answer -1 counts as an index.
TestSSA_AlwaysSkipped(f) ==
  /\ pc = "testSSA"
  /\ f \in First(todo)
  /\ todo' = todo \ {f}
  /\ UNCHANGED <<detectedBy, pc, ssaVars, dsaVars, tsaVars, AllPatterns>>

\* A fault that no given pattern detects: a test made for an earlier one may
\* do, else the SAT solver is asked.
TestSSA(f) ==
  /\ pc = "testSSA"
  /\ f \in First(todo)
  /\ todo' = todo \ {f}
  /\ \/ /\ checkallPatterns({f}, newSSAPatterns) # {}
        /\ UNCHANGED <<newSSAPatterns, redundantSSAF>>
     \/ /\ checkallPatterns({f}, newSSAPatterns) = {}
        /\ \E testVector \in detectedBy[{f}] : newSSAPatterns' = Append(newSSAPatterns, testVector)
        /\ UNCHANGED redundantSSAF
     \/ /\ checkallPatterns({f}, newSSAPatterns) = {}
        /\ detectedBy[{f}] = {}
        /\ redundantSSAF' = redundantSSAF \cup {f}
        /\ UNCHANGED newSSAPatterns
  /\ UNCHANGED <<detectedBy, pc, SSAFPatterns, SSAFToPatterns, dsaVars, tsaVars, AllPatterns>>

\* vector::assign: the new patterns take the place of the given ones.
TestSSADone ==
  /\ pc = "testSSA"
  /\ todo = {}
  /\ SSAFPatterns' = IF Len(newSSAPatterns) > 0 THEN newSSAPatterns ELSE SSAFPatterns
  /\ todo' = DOMAIN SSAFToPatterns
  /\ pc' = "searchDSA"
  /\ UNCHANGED <<detectedBy, newSSAPatterns, SSAFToPatterns, redundantSSAF, dsaVars, tsaVars, AllPatterns>>

(***************************************************************************)
(* Double faults.                                                          *)
(***************************************************************************)
\* findPotentialUndetectedDSAF, for one fault with a test.
SearchDSA(f) ==
  /\ pc = "searchDSA"
  /\ f \in First(todo)
  /\ \E blockFaultsList \in {B \in BlockLists : B \subseteq collapsedSSAFList \cup redundantSSAF} :
       potentiallyUndetected' = IF blockFaultsList = {} THEN potentiallyUndetected
                                ELSE Inserted(potentiallyUndetected, f, blockFaultsList)
  /\ todo' = todo \ {f}
  /\ UNCHANGED <<detectedBy, pc, ssaVars, undetectedDSA, DSAFPatterns, DSAFToPatterns,
                 redundantDSAF, searchedDSA, tsaVars, AllPatterns>>

Blocks(f, g) == g \in DOMAIN potentiallyUndetected /\ f \in potentiallyUndetected[g]

\* Two faults that block each other, or a fault blocked by a redundant one.
BlockedPairs ==
  UNION {{{f, g} : g \in {h \in allSSAFList : /\ Blocks(h, f)
                                              /\ h \in redundantSSAF \/ Blocks(f, h)}} :
         f \in DOMAIN potentiallyUndetected}

RedundantPairs == {P \in {{f, g} : f \in redundantSSAF, g \in redundantSSAF} : Cardinality(P) = 2}

\* pairUndetectedDSAF.  Of the pairs of redundant faults, those whose gates
\* are related and that checkPath does not find on one path are kept; the
\* others are declared redundant without asking the SAT solver.
PairDSA ==
  /\ pc = "searchDSA"
  /\ todo = {}
  /\ \E related \in SUBSET RedundantPairs :
       /\ undetectedDSA' = BlockedPairs \cup related
       /\ redundantDSAF' = redundantDSAF \cup (RedundantPairs \ related)
  \* operator[] enters a redundant fault that it does not find
  /\ potentiallyUndetected' =
       LET looked == {g \in redundantSSAF : \E f \in DOMAIN potentiallyUndetected : g \in potentiallyUndetected[f]}
       IN [f \in DOMAIN potentiallyUndetected \cup looked |->
             IF f \in DOMAIN potentiallyUndetected THEN potentiallyUndetected[f] ELSE {}]
  /\ searchedDSA' = undetectedDSA'
  /\ todo' = undetectedDSA'
  /\ pc' = "compressDSA"
  /\ UNCHANGED <<detectedBy, ssaVars, DSAFPatterns, DSAFToPatterns, tsaVars, AllPatterns>>

\* Broken variant: the index of the detecting pattern is lost.
CompressDSA_FirstPattern(D) ==
  /\ pc = "compressDSA"
  /\ D \in todo
  /\ \/ \E p \in checkallPatterns(D, SSAFPatterns) :
          /\ DSAFToPatterns' = Inserted(DSAFToPatterns, D, SSAFPatterns[1])
          /\ undetectedDSA' = undetectedDSA \ {D}
     \/ checkallPatterns(D, SSAFPatterns) = {} /\ UNCHANGED <<DSAFToPatterns, undetectedDSA>>
  /\ todo' = todo \ {D}
  /\ UNCHANGED <<detectedBy, pc, ssaVars, potentiallyUndetected, DSAFPatterns, redundantDSAF,
                 searchedDSA, tsaVars, AllPatterns>>

\* compressUndetectedDSAF
CompressDSA(D) ==
  /\ pc = "compressDSA"
  /\ D \in todo
  /\ \/ \E p \in checkallPatterns(D, SSAFPatterns) :
          /\ DSAFToPatterns' = Inserted(DSAFToPatterns, D, p)
          /\ undetectedDSA' = undetectedDSA \ {D}
     \/ checkallPatterns(D, SSAFPatterns) = {} /\ UNCHANGED <<DSAFToPatterns, undetectedDSA>>
  /\ todo' = todo \ {D}
  /\ UNCHANGED <<detectedBy, pc, ssaVars, potentiallyUndetected, DSAFPatterns, redundantDSAF,
                 searchedDSA, tsaVars, AllPatterns>>

CompressDSADone ==
  /\ pc = "compressDSA"
  /\ todo = {}
  /\ todo' = undetectedDSA
  /\ pc' = "testDSA"
  /\ UNCHANGED <<detectedBy, ssaVars, dsaVars, tsaVars, AllPatterns>>

\* Broken variant: the additional patterns are not tried first.
TestDSA_NotTried(D) ==
  /\ pc = "testDSA"
  /\ D \in todo
  /\ todo' = todo \ {D}
  /\ \/ /\ \E testVector \in detectedBy[D] :
             /\ DSAFPatterns' = Append(DSAFPatterns, testVector)
             /\ DSAFToPatterns' = Inserted(DSAFToPatterns, D, testVector)
        /\ UNCHANGED redundantDSAF
     \/ /\ detectedBy[D] = {}
        /\ redundantDSAF' = redundantDSAF \cup {D}
        /\ UNCHANGED <<DSAFPatterns, DSAFToPatterns>>
  /\ UNCHANGED <<detectedBy, pc, ssaVars, potentiallyUndetected, undetectedDSA, searchedDSA,
                 tsaVars, AllPatterns>>

\* generateDSATest.  A pair that an additional pattern already detects gets no
\* entry in DSAFToPatterns.
TestDSA(D) ==
  /\ pc = "testDSA"
  /\ D \in todo
  /\ todo' = todo \ {D}
  /\ \/ /\ checkallPatterns(D, DSAFPatterns) # {}
        /\ UNCHANGED <<DSAFPatterns, DSAFToPatterns, redundantDSAF>>
     \/ /\ checkallPatterns(D, DSAFPatterns) = {}
        /\ \E testVector \in detectedBy[D] :
             /\ DSAFPatterns' = Append(DSAFPatterns, testVector)
             /\ DSAFToPatterns' = Inserted(DSAFToPatterns, D, testVector)
        /\ UNCHANGED redundantDSAF
     \/ /\ checkallPatterns(D, DSAFPatterns) = {}
        /\ detectedBy[D] = {}
        /\ redundantDSAF' = redundantDSAF \cup {D}
        /\ UNCHANGED <<DSAFPatterns, DSAFToPatterns>>
  /\ UNCHANGED <<detectedBy, pc, ssaVars, potentiallyUndetected, undetectedDSA, searchedDSA,
                 tsaVars, AllPatterns>>

\* Broken variant: the additional patterns are not added.
TestDSADone_NotMerged ==
  /\ pc = "testDSA"
  /\ todo = {}
  /\ AllPatterns' = SSAFPatterns
  /\ pc' = "searchTSA"
  /\ UNCHANGED <<detectedBy, todo, ssaVars, dsaVars, tsaVars>>

TestDSADone ==
  /\ pc = "testDSA"
  /\ todo = {}
  /\ AllPatterns' = SSAFPatterns \o DSAFPatterns
  /\ pc' = "searchTSA"
  /\ UNCHANGED <<detectedBy, todo, ssaVars, dsaVars, tsaVars>>

(***************************************************************************)
(* Triple faults.                                                          *)
(***************************************************************************)
\* pairPotentialUndetectedTSAF.  blocked[f] are the pairs that block f,
\* blockers[D] the redundant faults that block the pair D.  A pair that is a
\* single fault leaves fault3 at 0, which is in no list.
ConfirmedBy(blocked, f, D) ==
  /\ Cardinality(D) = 2
  /\ \A g \in D : \/ g \in redundantSSAF
                  \/ g \in DOMAIN blocked /\ {f} \cup (D \ {g}) \in blocked[g]

ConfirmedTSA(f, blocked, blockers) ==
  {{f} \cup D : D \in {E \in blocked[f] : \/ E \in DOMAIN blockers /\ f \in blockers[E]
                                          \/ ConfirmedBy(blocked, f, E)}}

RedundantTSA(D, blockers) == {{f} \cup D : f \in blockers[D] \cap redundantSSAF}

PairedTSA(blocked, blockers) ==
  (UNION {ConfirmedTSA(f, blocked, blockers) : f \in DOMAIN blocked}) \cup
  (UNION {RedundantTSA(D, blockers) : D \in DOMAIN blockers})

\* findPotentialUndetectedTSAF, then the pairing.
SearchTSA ==
  /\ pc = "searchTSA"
  /\ \E blocked \in [DOMAIN SSAFToPatterns ->
                       {L \in DSABlockLists : UNION L \subseteq collapsedSSAFList \cup redundantSSAF}],
        blockers \in [DOMAIN DSAFToPatterns -> SUBSET redundantSSAF] :
       /\ \A D \in DOMAIN blockers : blockers[D] \cap D = {}
       /\ undetectedTSA' = PairedTSA(blocked, blockers)
  /\ searchedTSA' = undetectedTSA'
  /\ todo' = undetectedTSA'
  /\ pc' = "compressTSA"
  /\ UNCHANGED <<detectedBy, ssaVars, dsaVars, TSAFPatterns, redundantTSAFList, AllPatterns>>

\* compressundetectedTSA
CompressTSA(T) ==
  /\ pc = "compressTSA"
  /\ T \in todo
  /\ undetectedTSA' = IF checkallPatterns(T, AllPatterns) = {} THEN undetectedTSA ELSE undetectedTSA \ {T}
  /\ todo' = todo \ {T}
  /\ UNCHANGED <<detectedBy, pc, ssaVars, dsaVars, TSAFPatterns, redundantTSAFList, searchedTSA, AllPatterns>>

CompressTSADone ==
  /\ pc = "compressTSA"
  /\ todo = {}
  /\ todo' = undetectedTSA
  /\ pc' = "testTSA"
  /\ UNCHANGED <<detectedBy, ssaVars, dsaVars, tsaVars, AllPatterns>>

\* Broken variant: the iterator is not advanced.
TestTSA_Repeated(T) ==
  /\ pc = "testTSA"
  /\ T \in todo
  /\ todo' = todo
  /\ \/ /\ checkallPatterns(T, TSAFPatterns) # {}
        /\ UNCHANGED <<TSAFPatterns, redundantTSAFList>>
     \/ /\ checkallPatterns(T, TSAFPatterns) = {}
        /\ \E testVector \in detectedBy[T] : TSAFPatterns' = Append(TSAFPatterns, testVector)
        /\ UNCHANGED redundantTSAFList
     \/ /\ checkallPatterns(T, TSAFPatterns) = {}
        /\ detectedBy[T] = {}
        /\ redundantTSAFList' = redundantTSAFList \cup {T}
        /\ UNCHANGED TSAFPatterns
  /\ UNCHANGED <<detectedBy, pc, ssaVars, dsaVars, undetectedTSA, searchedTSA, AllPatterns>>

\* generateTSATest
TestTSA(T) ==
  /\ pc = "testTSA"
  /\ T \in todo
  /\ todo' = todo \ {T}
  /\ \/ /\ checkallPatterns(T, TSAFPatterns) # {}
        /\ UNCHANGED <<TSAFPatterns, redundantTSAFList>>
     \/ /\ checkallPatterns(T, TSAFPatterns) = {}
        /\ \E testVector \in detectedBy[T] : TSAFPatterns' = Append(TSAFPatterns, testVector)
        /\ UNCHANGED redundantTSAFList
     \/ /\ checkallPatterns(T, TSAFPatterns) = {}
        /\ detectedBy[T] = {}
        /\ redundantTSAFList' = redundantTSAFList \cup {T}
        /\ UNCHANGED TSAFPatterns
  /\ UNCHANGED <<detectedBy, pc, ssaVars, dsaVars, undetectedTSA, searchedTSA, AllPatterns>>

\* Broken variant: the additional patterns are not added.
TestTSADone_NotMerged ==
  /\ pc = "testTSA"
  /\ todo = {}
  /\ AllPatterns' = AllPatterns
  /\ pc' = "done"
  /\ UNCHANGED <<detectedBy, todo, ssaVars, dsaVars, tsaVars>>

TestTSADone ==
  /\ pc = "testTSA"
  /\ todo = {}
  /\ AllPatterns' = AllPatterns \o TSAFPatterns
  /\ pc' = "done"
  /\ UNCHANGED <<detectedBy, todo, ssaVars, dsaVars, tsaVars>>

Next ==
  \/ \E f \in todo : PairSSA(f) \/ TestSSA(f) \/ SearchDSA(f)
  \/ \E D \in todo : CompressDSA(D) \/ TestDSA(D) \/ CompressTSA(D) \/ TestTSA(D)
  \/ PairSSADone \/ TestSSADone
  \/ PairDSA \/ CompressDSADone \/ TestDSADone
  \/ SearchTSA \/ CompressTSADone \/ TestTSADone

\* ATPGInit runs to its end.
Spec == Init /\ [][Next]_vars /\ WF_vars(Next)
-----------------------------------------------------------------------------
AfterSSA == {"searchDSA", "compressDSA", "testDSA", "searchTSA", "compressTSA", "testTSA", "done"}
AfterDSA == {"searchTSA", "compressTSA", "testTSA", "done"}

\* Types of the flow's lists and maps; what is todo belongs to the phase.
TypeOK ==
  /\ detectedBy \in DetectionTables
  /\ pc \in {"pairSSA", "testSSA"} \cup AfterSSA
  /\ pc \in {"pairSSA", "testSSA", "searchDSA"} => todo \subseteq allSSAFList
  /\ pc \in {"compressDSA", "testDSA"} => todo \subseteq DoubleFaults
  /\ pc \in {"compressTSA", "testTSA"} => todo \subseteq MultipleFaults
  /\ SSAFPatterns \in Seq(Patterns) /\ newSSAPatterns \in Seq(Patterns)
  /\ DSAFPatterns \in Seq(Patterns) /\ TSAFPatterns \in Seq(Patterns) /\ AllPatterns \in Seq(Patterns)
  /\ DOMAIN SSAFToPatterns \subseteq allSSAFList
  /\ \A f \in DOMAIN SSAFToPatterns : SSAFToPatterns[f] \in Patterns
  /\ DOMAIN DSAFToPatterns \subseteq DoubleFaults
  /\ \A D \in DOMAIN DSAFToPatterns : DSAFToPatterns[D] \in Patterns
  /\ redundantSSAF \subseteq allSSAFList
  /\ redundantDSAF \subseteq DoubleFaults
  /\ redundantTSAFList \subseteq MultipleFaults
  /\ DOMAIN potentiallyUndetected \subseteq allSSAFList
  /\ \A f \in DOMAIN potentiallyUndetected : potentiallyUndetected[f] \subseteq allSSAFList
  /\ undetectedDSA \subseteq DoubleFaults /\ searchedDSA \subseteq DoubleFaults
  /\ undetectedTSA \subseteq MultipleFaults /\ searchedTSA \subseteq MultipleFaults

DetectedByList(F, list) == checkallPatterns(F, list) # {}

\* Once pairSSAPatternWithSSAF is through, every single fault has a test of
\* the given list in SSAFToPatterns, is detected by a generated test, or has
\* been found redundant: no fault falls between the two loops.
SSAAccounted ==
  pc \in AfterSSA =>
    \A f \in allSSAFList : \/ f \in DOMAIN SSAFToPatterns
                           \/ f \in redundantSSAF
                           \/ DetectedByList({f}, newSSAPatterns)

\* The maps that the path searches read lead from a fault, or a pair, to a
\* pattern that really detects it.
TestMapsSound ==
  /\ \A f \in DOMAIN SSAFToPatterns : SSAFToPatterns[f] \in detectedBy[{f}]
  /\ \A D \in DOMAIN DSAFToPatterns : DSAFToPatterns[D] \in detectedBy[D]

\* No fault for which a test exists, single, double or triple, is counted
\* redundant once the SAT solver has been asked about it.  (Pairs of redundant
\* faults it is never asked about are the subject of DSARedundancy.)
RedundancySound ==
  /\ \A f \in redundantSSAF : detectedBy[{f}] = {}
  /\ \A D \in redundantDSAF \cap searchedDSA : detectedBy[D] = {}
  /\ \A T \in redundantTSAFList : detectedBy[T] = {}

\* What the flow says of a fault, by a test in a map or by calling it
\* redundant, is true.
VerdictsSound == TestMapsSound /\ RedundancySound

\* Every double fault that the search listed is detected by the test set
\* handed to the triple-fault phase or is redundant, and stays so: compression
\* drops none, and a test generated for one pair never hides another.
DSAAccounted ==
  pc \in AfterDSA =>
    \A D \in searchedDSA : D \in redundantDSAF \/ DetectedByList(D, AllPatterns)

\* The same for the triple faults and the final test set.
TSAAccounted ==
  pc = "done" =>
    \A T \in searchedTSA : T \in redundantTSAFList \/ DetectedByList(T, AllPatterns)

\* list[i] is the first test, of those before it and those in earlier, that
\* detects some member of searched.
Needed(list, i, earlier, searched) ==
  \E F \in searched : /\ list[i] \in detectedBy[F]
                      /\ ~ DetectedByList(F, earlier)
                      /\ ~ DetectedByList(F, SubSeq(list, 1, i - 1))

\* No additional test is generated in vain: each detects a listed fault that
\* no test before it detects.
AdditionalTestsNeeded ==
  /\ \A i \in 1 .. Len(DSAFPatterns) : Needed(DSAFPatterns, i, SSAFPatterns, searchedDSA)
  /\ pc \in {"compressTSA", "testTSA"} =>
       \A i \in 1 .. Len(TSAFPatterns) : Needed(TSAFPatterns, i, AllPatterns, searchedTSA)

\* The flow ends: every loop runs over a list that is finite and fixed.
Terminates == <>(pc = "done")
=============================================================================
