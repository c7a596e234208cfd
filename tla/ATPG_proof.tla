----------------------------- MODULE ATPG_proof -----------------------------
(***************************************************************************)
(* For every set of faults, every pattern file, every circuit and whatever *)
(* the searches return: the accounts of the three phases balance.          *)
(***************************************************************************)
EXTENDS ATPG, TLAPS

\* Sets of one and of two faults are sets of at most three.
LEMMA SmallSets ==
  /\ \A f \in allSSAFList : {f} \in DoubleFaults /\ {f} \in MultipleFaults
  /\ DoubleFaults \subseteq MultipleFaults
<1>1. ASSUME NEW f \in allSSAFList, NEW g \in allSSAFList
      PROVE  {f, g} \in MultipleFaults
  <2>1. {f, g} = {f, g, g}
    OBVIOUS
  <2> QED
    BY <2>1 DEF MultipleFaults
<1>2. ASSUME NEW f \in allSSAFList
      PROVE  {f} \in DoubleFaults
  <2>1. {f} = {f, f}
    OBVIOUS
  <2> QED
    BY <2>1 DEF DoubleFaults
<1>3. \A f \in allSSAFList : {f} \in MultipleFaults
  <2> TAKE f \in allSSAFList
  <2>1. {f} = {f, f}
    OBVIOUS
  <2> QED
    BY <1>1, <2>1
<1>4. DoubleFaults \subseteq MultipleFaults
  <2> SUFFICES ASSUME NEW D \in DoubleFaults PROVE D \in MultipleFaults
    OBVIOUS
  <2>1. PICK f \in allSSAFList, g \in allSSAFList : D = {f, g}
    BY DEF DoubleFaults
  <2> QED
    BY <1>1, <2>1
<1> QED
  BY <1>2, <1>3, <1>4

\* What detects a set of faults is a pattern.
LEMMA TestsArePatterns ==
  ASSUME detectedBy \in DetectionTables, NEW F \in MultipleFaults
  PROVE  detectedBy[F] \subseteq Patterns
BY ATPGAssumption

\* A pattern appended to a list is one of its patterns; the others stay.
LEMMA PatternedAppend ==
  ASSUME NEW S, NEW s \in Seq(S), NEW p \in S
  PROVE  Patterned(Append(s, p)) = Patterned(s) \cup {p}
<1>1. /\ Len(Append(s, p)) = Len(s) + 1 /\ Len(s) \in Nat
      /\ \A i \in 1 .. Len(s) : Append(s, p)[i] = s[i]
      /\ Append(s, p)[Len(s) + 1] = p
  OBVIOUS
<1> QED
  BY <1>1 DEF Patterned

\* Two lists in a row have the patterns of both.
LEMMA PatternedConcat ==
  ASSUME NEW S, NEW s \in Seq(S), NEW t \in Seq(S)
  PROVE  Patterned(s \o t) = Patterned(s) \cup Patterned(t)
<1>1. /\ Len(s \o t) = Len(s) + Len(t) /\ Len(s) \in Nat /\ Len(t) \in Nat
      /\ \A i \in 1 .. Len(s) : (s \o t)[i] = s[i]
      /\ \A i \in 1 .. Len(t) : (s \o t)[Len(s) + i] = t[i]
  OBVIOUS
<1>2. ASSUME NEW i \in 1 .. Len(s) + Len(t)
      PROVE  (s \o t)[i] \in Patterned(s) \cup Patterned(t)
  <2>1. CASE i <= Len(s)
    BY <1>1, <2>1 DEF Patterned
  <2>2. CASE i > Len(s)
    <3>1. i - Len(s) \in 1 .. Len(t) /\ i = Len(s) + (i - Len(s))
      BY <1>1, <2>2
    <3> QED
      BY <1>1, <3>1 DEF Patterned
  <2> QED
    BY <1>1, <2>1, <2>2
<1>3. \A i \in 1 .. Len(s) : i \in 1 .. Len(s \o t)
  BY <1>1
<1>4. \A i \in 1 .. Len(t) : Len(s) + i \in 1 .. Len(s \o t)
  BY <1>1
<1>5. Patterned(s) \subseteq Patterned(s \o t)
  BY <1>1, <1>3 DEF Patterned
<1>6. Patterned(t) \subseteq Patterned(s \o t)
  BY <1>1, <1>4 DEF Patterned
<1> QED
  BY <1>1, <1>2, <1>5, <1>6 DEF Patterned

\* Adding an entry whose key is in K and whose value is in V to a map from K to V.
LEMMA InsertedTyped ==
  ASSUME NEW K, NEW V, NEW map, NEW key \in K, NEW value \in V,
         DOMAIN map \subseteq K, \A k \in DOMAIN map : map[k] \in V
  PROVE  /\ DOMAIN Inserted(map, key, value) \subseteq K
         /\ \A k \in DOMAIN Inserted(map, key, value) : Inserted(map, key, value)[k] \in V
BY DEF Inserted

\* What the pairing of triple faults yields are sets of at most three faults.
LEMMA PairedTSATyped ==
  ASSUME TypeOK,
         NEW blocked \in [DOMAIN SSAFToPatterns -> DSABlockLists],
         NEW blockers \in [DOMAIN DSAFToPatterns -> SUBSET redundantSSAF]
  PROVE  PairedTSA(blocked, blockers) \subseteq MultipleFaults
<1>1. ASSUME NEW f \in allSSAFList, NEW D \in DoubleFaults
      PROVE  {f} \cup D \in MultipleFaults
  <2>1. PICK g \in allSSAFList, h \in allSSAFList : D = {g, h}
    BY DEF DoubleFaults
  <2>2. {f} \cup D = {f, g, h}
    BY <2>1
  <2> QED
    BY <2>2 DEF MultipleFaults
<1>2. ASSUME NEW f \in DOMAIN blocked, NEW D \in blocked[f]
      PROVE  {f} \cup D \in MultipleFaults
  <2>1. f \in allSSAFList
    BY DEF TypeOK
  <2>2. D \in DoubleFaults
    BY ATPGAssumption
  <2> QED
    BY <1>1, <2>1, <2>2
<1>3. ASSUME NEW D \in DOMAIN blockers, NEW f \in blockers[D] \cap redundantSSAF
      PROVE  {f} \cup D \in MultipleFaults
  BY <1>1 DEF TypeOK
<1>4. \A f \in DOMAIN blocked : ConfirmedTSA(f, blocked, blockers) \subseteq MultipleFaults
  BY <1>2 DEF ConfirmedTSA
<1>5. \A D \in DOMAIN blockers : RedundantTSA(D, blockers) \subseteq MultipleFaults
  BY <1>3 DEF RedundantTSA
<1> SUFFICES ASSUME NEW T \in PairedTSA(blocked, blockers) PROVE T \in MultipleFaults
  OBVIOUS
<1>6. \/ \E f \in DOMAIN blocked : T \in ConfirmedTSA(f, blocked, blockers)
      \/ \E D \in DOMAIN blockers : T \in RedundantTSA(D, blockers)
  BY DEF PairedTSA
<1> QED
  BY <1>4, <1>5, <1>6

\* The pairs that the search finds, and the pairs of redundant faults.
LEMMA PairsTyped ==
  ASSUME TypeOK
  PROVE  BlockedPairs \subseteq DoubleFaults /\ RedundantPairs \subseteq DoubleFaults
BY DEF TypeOK, BlockedPairs, RedundantPairs, DoubleFaults
-----------------------------------------------------------------------------
\* The flow starts well typed and stays so.
LEMMA TypeInit == Init => TypeOK
BY ATPGAssumption DEF Init, TypeOK, EmptyMap

\* Every step of the flow keeps the types.
LEMMA TypeStep == TypeOK /\ [Next]_vars => TypeOK'
<1> SUFFICES ASSUME TypeOK, [Next]_vars PROVE TypeOK'
  OBVIOUS
<1> USE DEF ssaVars, dsaVars, tsaVars
<1>1. ASSUME NEW f \in todo, PairSSA(f) PROVE TypeOK'
  <2>1. f \in allSSAFList
    BY <1>1 DEF PairSSA, TypeOK
  <2>2. CASE \E p \in checkallPatterns({f}, SSAFPatterns) : SSAFToPatterns' = Inserted(SSAFToPatterns, f, p)
    <3>1. PICK p \in checkallPatterns({f}, SSAFPatterns) : SSAFToPatterns' = Inserted(SSAFToPatterns, f, p)
      BY <2>2
    <3>2. p \in Patterns
      BY <2>1, SmallSets, TestsArePatterns DEF checkallPatterns, TypeOK
    <3>3. /\ DOMAIN SSAFToPatterns' \subseteq allSSAFList
          /\ \A g \in DOMAIN SSAFToPatterns' : SSAFToPatterns'[g] \in Patterns
      <4>1. DOMAIN SSAFToPatterns \subseteq allSSAFList /\ \A g \in DOMAIN SSAFToPatterns : SSAFToPatterns[g] \in Patterns
        BY DEF TypeOK
      <4>2. /\ DOMAIN Inserted(SSAFToPatterns, f, p) \subseteq allSSAFList
            /\ \A g \in DOMAIN Inserted(SSAFToPatterns, f, p) : Inserted(SSAFToPatterns, f, p)[g] \in Patterns
        BY <2>1, <3>2, <4>1, InsertedTyped
      <4> QED
        BY <3>1, <4>2
    <3> QED
      BY <1>1, <3>3 DEF PairSSA, TypeOK
  <2>3. CASE UNCHANGED SSAFToPatterns
    BY <1>1, <2>3 DEF PairSSA, TypeOK
  <2> QED
    BY <1>1, <2>2, <2>3 DEF PairSSA
<1>2. ASSUME NEW f \in todo, TestSSA(f) PROVE TypeOK'
  <2>1. f \in allSSAFList /\ detectedBy[{f}] \subseteq Patterns
    BY <1>2, SmallSets, TestsArePatterns DEF TestSSA, TypeOK
  <2>2. newSSAPatterns' \in Seq(Patterns)
    <3>1. newSSAPatterns \in Seq(Patterns)
      BY DEF TypeOK
    <3>2. \/ UNCHANGED newSSAPatterns
          \/ \E testVector \in detectedBy[{f}] : newSSAPatterns' = Append(newSSAPatterns, testVector)
      BY <1>2 DEF TestSSA
    <3>3. \A testVector \in Patterns : Append(newSSAPatterns, testVector) \in Seq(Patterns)
      BY <3>1
    <3> QED
      BY <2>1, <3>1, <3>2, <3>3
  <2>3. redundantSSAF' \subseteq allSSAFList
    BY <1>2, <2>1 DEF TestSSA, TypeOK
  <2> QED
    BY <1>2, <2>2, <2>3 DEF TestSSA, TypeOK
<1>3. ASSUME NEW f \in todo, SearchDSA(f) PROVE TypeOK'
  <2>1. f \in allSSAFList
    BY <1>3 DEF SearchDSA, TypeOK
  <2>2. PICK B \in BlockLists :
          potentiallyUndetected' = IF B = {} THEN potentiallyUndetected ELSE Inserted(potentiallyUndetected, f, B)
    BY <1>3 DEF SearchDSA
  <2>3. B \subseteq allSSAFList
    BY ATPGAssumption
  <2>4. /\ DOMAIN potentiallyUndetected' \subseteq allSSAFList
        /\ \A g \in DOMAIN potentiallyUndetected' : potentiallyUndetected'[g] \subseteq allSSAFList
    <3>1. /\ DOMAIN potentiallyUndetected \subseteq allSSAFList
          /\ \A g \in DOMAIN potentiallyUndetected : potentiallyUndetected[g] \in SUBSET allSSAFList
      BY DEF TypeOK
    <3>2. CASE B = {}
      BY <2>2, <3>1, <3>2
    <3>3. CASE B # {}
      <4>1. potentiallyUndetected' = Inserted(potentiallyUndetected, f, B) /\ B \in SUBSET allSSAFList
        BY <2>2, <2>3, <3>3
      <4>2. /\ DOMAIN potentiallyUndetected' \subseteq allSSAFList
            /\ \A g \in DOMAIN potentiallyUndetected' : potentiallyUndetected'[g] \in SUBSET allSSAFList
        BY ZenonT(120), <2>1, <3>1, <4>1, InsertedTyped
      <4> QED
        BY <4>2
    <3> QED
      BY <3>2, <3>3
  <2> QED
    BY <1>3, <2>4 DEF SearchDSA, TypeOK
<1>4. ASSUME NEW D \in todo, CompressDSA(D) PROVE TypeOK'
  <2>1. D \in DoubleFaults /\ detectedBy[D] \subseteq Patterns
    BY <1>4, SmallSets, TestsArePatterns DEF CompressDSA, TypeOK
  <2>2. CASE \E p \in checkallPatterns(D, SSAFPatterns) :
               DSAFToPatterns' = Inserted(DSAFToPatterns, D, p) /\ undetectedDSA' = undetectedDSA \ {D}
    <3>1. PICK p \in checkallPatterns(D, SSAFPatterns) : DSAFToPatterns' = Inserted(DSAFToPatterns, D, p)
      BY <2>2
    <3>2. /\ DOMAIN DSAFToPatterns' \subseteq DoubleFaults
          /\ \A E \in DOMAIN DSAFToPatterns' : DSAFToPatterns'[E] \in Patterns
      <4>1. DOMAIN DSAFToPatterns \subseteq DoubleFaults /\ \A E \in DOMAIN DSAFToPatterns : DSAFToPatterns[E] \in Patterns
        BY DEF TypeOK
      <4>2. p \in Patterns
        BY <2>1 DEF checkallPatterns
      <4> QED
        BY <2>1, <3>1, <4>1, <4>2, InsertedTyped
    <3> QED
      BY <1>4, <2>2, <3>2 DEF CompressDSA, TypeOK
  <2>3. CASE UNCHANGED <<DSAFToPatterns, undetectedDSA>>
    BY <1>4, <2>3 DEF CompressDSA, TypeOK
  <2> QED
    BY <1>4, <2>2, <2>3 DEF CompressDSA
<1>5. ASSUME NEW D \in todo, TestDSA(D) PROVE TypeOK'
  <2>1. D \in DoubleFaults /\ detectedBy[D] \subseteq Patterns
    BY <1>5, SmallSets, TestsArePatterns DEF TestDSA, TypeOK
  <2>2. CASE \E testVector \in detectedBy[D] :
               /\ DSAFPatterns' = Append(DSAFPatterns, testVector)
               /\ DSAFToPatterns' = Inserted(DSAFToPatterns, D, testVector)
               /\ UNCHANGED redundantDSAF
    <3>1. PICK testVector \in detectedBy[D] :
            /\ DSAFPatterns' = Append(DSAFPatterns, testVector)
            /\ DSAFToPatterns' = Inserted(DSAFToPatterns, D, testVector)
      BY <2>2
    <3>2. /\ DOMAIN DSAFToPatterns' \subseteq DoubleFaults
          /\ \A E \in DOMAIN DSAFToPatterns' : DSAFToPatterns'[E] \in Patterns
      <4>1. DOMAIN DSAFToPatterns \subseteq DoubleFaults /\ \A E \in DOMAIN DSAFToPatterns : DSAFToPatterns[E] \in Patterns
        BY DEF TypeOK
      <4>2. testVector \in Patterns
        BY <2>1
      <4> QED
        BY <2>1, <3>1, <4>1, <4>2, InsertedTyped
    <3>3. DSAFPatterns' \in Seq(Patterns)
      BY <2>1, <3>1 DEF TypeOK
    <3> QED
      BY <1>5, <2>2, <3>2, <3>3 DEF TestDSA, TypeOK
  <2>3. CASE UNCHANGED <<DSAFPatterns, DSAFToPatterns>> /\ redundantDSAF' \in {redundantDSAF, redundantDSAF \cup {D}}
    BY <1>5, <2>1, <2>3 DEF TestDSA, TypeOK
  <2> QED
    BY <1>5, <2>2, <2>3 DEF TestDSA
<1>6. ASSUME NEW T \in todo, CompressTSA(T) PROVE TypeOK'
  BY <1>6 DEF CompressTSA, TypeOK
<1>7. ASSUME NEW T \in todo, TestTSA(T) PROVE TypeOK'
  <2>1. T \in MultipleFaults /\ detectedBy[T] \subseteq Patterns
    BY <1>7, TestsArePatterns DEF TestTSA, TypeOK
  <2>2. TSAFPatterns' \in Seq(Patterns)
    <3>1. TSAFPatterns \in Seq(Patterns)
      BY DEF TypeOK
    <3>2. \/ UNCHANGED TSAFPatterns
          \/ \E testVector \in detectedBy[T] : TSAFPatterns' = Append(TSAFPatterns, testVector)
      BY <1>7 DEF TestTSA
    <3> QED
      BY <2>1, <3>1, <3>2
  <2>3. redundantTSAFList' \subseteq MultipleFaults
    BY <1>7, <2>1 DEF TestTSA, TypeOK
  <2> QED
    BY <1>7, <2>2, <2>3 DEF TestTSA, TypeOK
<1>8. CASE PairSSADone
  BY <1>8 DEF PairSSADone, TypeOK
<1>9. CASE TestSSADone
  BY <1>9 DEF TestSSADone, TypeOK, AfterSSA
<1>10. CASE PairDSA
  <2>1. PICK related \in SUBSET RedundantPairs :
          /\ undetectedDSA' = BlockedPairs \cup related
          /\ redundantDSAF' = redundantDSAF \cup (RedundantPairs \ related)
    BY <1>10 DEF PairDSA
  <2>2. undetectedDSA' \subseteq DoubleFaults /\ redundantDSAF' \subseteq DoubleFaults
    BY <2>1, PairsTyped DEF TypeOK
  <2>3. /\ DOMAIN potentiallyUndetected' \subseteq allSSAFList
        /\ \A f \in DOMAIN potentiallyUndetected' : potentiallyUndetected'[f] \subseteq allSSAFList
    BY <1>10 DEF PairDSA, TypeOK
  <2> QED
    BY <1>10, <2>2, <2>3 DEF PairDSA, TypeOK, AfterSSA
<1>11. CASE CompressDSADone
  BY <1>11 DEF CompressDSADone, TypeOK, AfterSSA
<1>12. CASE TestDSADone
  BY <1>12 DEF TestDSADone, TypeOK, AfterSSA
<1>13. CASE SearchTSA
  <2>1. undetectedTSA' \subseteq MultipleFaults
    BY <1>13, PairedTSATyped DEF SearchTSA
  <2> QED
    BY <1>13, <2>1 DEF SearchTSA, TypeOK, AfterSSA
<1>14. CASE CompressTSADone
  BY <1>14 DEF CompressTSADone, TypeOK, AfterSSA
<1>15. CASE TestTSADone
  BY <1>15 DEF TestTSADone, TypeOK, AfterSSA
<1>16. CASE UNCHANGED vars
  BY <1>16 DEF vars, TypeOK
<1> QED
  BY <1>1, <1>2, <1>3, <1>4, <1>5, <1>6, <1>7, <1>8, <1>9, <1>10, <1>11, <1>12, <1>13, <1>14,
     <1>15, <1>16 DEF Next

\* Type correctness of the flow.
THEOREM TypeCorrect == Spec => []TypeOK
BY TypeInit, TypeStep, PTL DEF Spec
-----------------------------------------------------------------------------
(***************************************************************************)
(* The accounts.  None of the properties below is inductive alone: in the  *)
(* middle of a loop an account is open for exactly what the loop has not   *)
(* reached, and the redundant pairs are apart from the searched ones only  *)
(* because the search starts from faults that have a test.                 *)
(***************************************************************************)
AccountedSSA(f) ==
  f \in DOMAIN SSAFToPatterns \/ f \in redundantSSAF \/ DetectedByList({f}, newSSAPatterns)

SSALedger ==
  /\ pc = "testSSA" => \A f \in allSSAFList \ todo : AccountedSSA(f)
  /\ pc \in AfterSSA => \A f \in allSSAFList : AccountedSSA(f)

\* Until the redundant pairs are made, only tested faults have been searched from.
SearchLedger ==
  /\ pc = "searchDSA" => todo \subseteq DOMAIN SSAFToPatterns
  /\ pc \in {"pairSSA", "testSSA", "searchDSA"} =>
       /\ DOMAIN potentiallyUndetected \subseteq DOMAIN SSAFToPatterns
       /\ redundantDSAF = {} /\ searchedDSA = {} /\ DSAFPatterns = << >> /\ DSAFToPatterns = EmptyMap

DSALedger ==
  /\ pc \in {"compressDSA", "testDSA"} => todo \subseteq undetectedDSA /\ undetectedDSA \subseteq searchedDSA
  /\ pc = "compressDSA" =>
       /\ DSAFPatterns = << >>
       /\ \A D \in searchedDSA \ undetectedDSA : DetectedByList(D, SSAFPatterns)
       /\ \A D \in undetectedDSA \ todo : ~ DetectedByList(D, SSAFPatterns)
  /\ pc = "testDSA" =>
       /\ \A D \in todo : ~ DetectedByList(D, SSAFPatterns)
       /\ \A D \in searchedDSA \ todo :
            D \in redundantDSAF \/ DetectedByList(D, SSAFPatterns) \/ DetectedByList(D, DSAFPatterns)

TSALedger ==
  /\ pc \notin {"compressTSA", "testTSA", "done"} => TSAFPatterns = << >> /\ redundantTSAFList = {}
  /\ pc \in {"compressTSA", "testTSA"} => todo \subseteq undetectedTSA /\ undetectedTSA \subseteq searchedTSA
  /\ pc = "compressTSA" =>
       /\ TSAFPatterns = << >>
       /\ \A T \in searchedTSA \ undetectedTSA : DetectedByList(T, AllPatterns)
       /\ \A T \in undetectedTSA \ todo : ~ DetectedByList(T, AllPatterns)
  /\ pc = "testTSA" =>
       /\ \A T \in todo : ~ DetectedByList(T, AllPatterns)
       /\ \A T \in searchedTSA \ todo :
            T \in redundantTSAFList \/ DetectedByList(T, AllPatterns) \/ DetectedByList(T, TSAFPatterns)

IInv ==
  /\ TypeOK
  /\ TestMapsSound /\ RedundancySound
  /\ SSALedger /\ SearchLedger
  /\ DSALedger /\ DSAAccounted
  /\ TSALedger /\ TSAAccounted
-----------------------------------------------------------------------------
\* The accounts are balanced when nothing has been done.
LEMMA InitLedger == Init => IInv
BY TypeInit DEF Init, IInv, TestMapsSound, RedundancySound, SSALedger, SearchLedger, DSALedger,
   DSAAccounted, TSALedger, TSAAccounted, EmptyMap, AfterSSA, AfterDSA

\* A single fault is paired with a given pattern.
LEMMA PairSSALedger ==
  ASSUME IInv, TypeOK', NEW f \in todo, PairSSA(f)
  PROVE  IInv'
<1> USE DEF ssaVars, dsaVars, tsaVars, DetectedByList, checkallPatterns, PairSSA
<1>1. CASE UNCHANGED SSAFToPatterns
  BY <1>1 DEF IInv, TestMapsSound, RedundancySound, SSALedger, SearchLedger, DSALedger,
              DSAAccounted, TSALedger, TSAAccounted, AfterSSA, AfterDSA
<1>2. CASE \E p \in checkallPatterns({f}, SSAFPatterns) : SSAFToPatterns' = Inserted(SSAFToPatterns, f, p)
  <2>1. PICK p \in detectedBy[{f}] : SSAFToPatterns' = Inserted(SSAFToPatterns, f, p)
    BY <1>2
  <2>2. /\ DOMAIN SSAFToPatterns' = DOMAIN SSAFToPatterns \cup {f}
        /\ \A k \in DOMAIN SSAFToPatterns : SSAFToPatterns'[k] = SSAFToPatterns[k]
        /\ f \notin DOMAIN SSAFToPatterns => SSAFToPatterns'[f] = p
    BY <2>1 DEF Inserted
  <2>3. TestMapsSound'
    <3>1. \A k \in DOMAIN SSAFToPatterns' : SSAFToPatterns'[k] \in detectedBy[{k}]
      BY <2>1, <2>2 DEF IInv, TestMapsSound
    <3> QED
      BY <3>1 DEF IInv, TestMapsSound
  <2>4. RedundancySound' /\ SSALedger' /\ SearchLedger'
    BY <2>2 DEF IInv, RedundancySound, SSALedger, SearchLedger, AfterSSA
  <2>5. DSALedger' /\ DSAAccounted' /\ TSALedger' /\ TSAAccounted'
    BY DEF IInv, DSALedger, DSAAccounted, TSALedger, TSAAccounted, AfterDSA
  <2> QED
    BY <2>3, <2>4, <2>5 DEF IInv
<1> QED
  BY <1>1, <1>2

\* The faults without a pattern are what the second loop starts from.
LEMMA PairSSADoneLedger ==
  ASSUME IInv, TypeOK', PairSSADone
  PROVE  IInv'
<1> USE DEF ssaVars, dsaVars, tsaVars, DetectedByList, checkallPatterns, PairSSADone
<1>1. TestMapsSound' /\ RedundancySound' /\ SearchLedger'
  BY DEF IInv, TestMapsSound, RedundancySound, SearchLedger
<1>2. SSALedger'
  BY DEF SSALedger, AccountedSSA, AfterSSA
<1>3. DSALedger' /\ DSAAccounted' /\ TSALedger' /\ TSAAccounted'
  BY DEF IInv, DSALedger, DSAAccounted, TSALedger, TSAAccounted, AfterDSA
<1> QED
  BY <1>1, <1>2, <1>3 DEF IInv

\* A fault is detected by an earlier test, gets one, or is redundant.
LEMMA TestSSALedger ==
  ASSUME IInv, TypeOK', NEW f \in todo, TestSSA(f)
  PROVE  IInv'
<1> USE DEF ssaVars, dsaVars, tsaVars
<1>1. newSSAPatterns \in Seq(Patterns) /\ f \in allSSAFList /\ pc = "testSSA" /\ pc' = pc
      /\ todo' = todo \ {f} /\ detectedBy' = detectedBy /\ SSAFToPatterns' = SSAFToPatterns
  BY DEF IInv, TypeOK, TestSSA
<1>2. /\ redundantSSAF' \in {redundantSSAF, redundantSSAF \cup {f}}
      /\ f \in redundantSSAF' => f \in redundantSSAF \/ detectedBy[{f}] = {}
  BY DEF TestSSA
<1>3. Patterned(newSSAPatterns) \subseteq Patterned(newSSAPatterns')
  <2>1. detectedBy[{f}] \subseteq Patterns
    BY <1>1, SmallSets, TestsArePatterns DEF IInv, TypeOK
  <2>2. ASSUME NEW p \in detectedBy[{f}], newSSAPatterns' = Append(newSSAPatterns, p)
        PROVE  Patterned(newSSAPatterns') = Patterned(newSSAPatterns) \cup {p}
    <3>1. newSSAPatterns \in Seq(Patterns) /\ p \in Patterns
      BY <1>1, <2>1
    <3>2. Patterned(Append(newSSAPatterns, p)) = Patterned(newSSAPatterns) \cup {p}
      BY <3>1, PatternedAppend
    <3> QED
      BY <2>2, <3>2
  <2> QED
    BY <2>2 DEF TestSSA
<1>4. AccountedSSA(f)'
  <2>1. CASE DetectedByList({f}, newSSAPatterns)
    BY <1>1, <1>3, <2>1 DEF AccountedSSA, DetectedByList, checkallPatterns
  <2>2. CASE \E p \in detectedBy[{f}] : newSSAPatterns' = Append(newSSAPatterns, p)
    <3>1. PICK p \in detectedBy[{f}] : newSSAPatterns' = Append(newSSAPatterns, p)
      BY <2>2
    <3>2. p \in Patterns
      BY <1>1, SmallSets, TestsArePatterns DEF IInv, TypeOK
    <3>3. p \in Patterned(newSSAPatterns')
      BY <1>1, <3>1, <3>2, PatternedAppend
    <3> QED
      BY <1>1, <3>3 DEF AccountedSSA, DetectedByList, checkallPatterns
  <2>3. CASE redundantSSAF' = redundantSSAF \cup {f}
    BY <2>3 DEF AccountedSSA
  <2> QED
    BY <2>1, <2>2, <2>3 DEF TestSSA, DetectedByList
<1>5. \A g \in allSSAFList : AccountedSSA(g) => AccountedSSA(g)'
  BY <1>1, <1>2, <1>3 DEF AccountedSSA, DetectedByList, checkallPatterns
<1>6. SSALedger'
  BY <1>1, <1>4, <1>5 DEF IInv, SSALedger, AfterSSA
<1>7. RedundancySound'
  BY <1>1, <1>2 DEF IInv, RedundancySound, TestSSA
<1>8. TestMapsSound' /\ SearchLedger' /\ DSALedger' /\ DSAAccounted' /\ TSALedger' /\ TSAAccounted'
  BY DEF IInv, TestMapsSound, SearchLedger, DSALedger, DSAAccounted, TSALedger, TSAAccounted,
         AfterDSA, TestSSA, DetectedByList, checkallPatterns
<1> QED
  BY <1>6, <1>7, <1>8 DEF IInv

\* The patterns are exchanged; the accounts of the first phase stay.
LEMMA TestSSADoneLedger ==
  ASSUME IInv, TypeOK', TestSSADone
  PROVE  IInv'
<1> USE DEF ssaVars, dsaVars, tsaVars, TestSSADone, DetectedByList, checkallPatterns
<1>1. SSALedger'
  BY DEF IInv, SSALedger, AccountedSSA, AfterSSA
<1>2. TestMapsSound' /\ RedundancySound' /\ SearchLedger' /\ DSALedger' /\ DSAAccounted' /\ TSALedger' /\ TSAAccounted'
  BY DEF IInv, TestMapsSound, RedundancySound, SearchLedger, DSALedger, DSAAccounted, TSALedger,
         TSAAccounted, AfterDSA
<1> QED
  BY <1>1, <1>2 DEF IInv

\* A search starts from a tested fault.
LEMMA SearchDSALedger ==
  ASSUME IInv, TypeOK', NEW f \in todo, SearchDSA(f)
  PROVE  IInv'
<1> USE DEF ssaVars, dsaVars, tsaVars, SearchDSA, DetectedByList, checkallPatterns
<1>1. pc = "searchDSA" /\ f \in DOMAIN SSAFToPatterns
  BY DEF IInv, SearchLedger
<1>2. DOMAIN potentiallyUndetected' \subseteq DOMAIN SSAFToPatterns'
  BY <1>1 DEF IInv, SearchLedger, Inserted
<1>3. SSALedger' /\ SearchLedger'
  BY <1>2 DEF IInv, SSALedger, AccountedSSA, SearchLedger
<1>4. TestMapsSound' /\ RedundancySound' /\ DSALedger' /\ DSAAccounted' /\ TSALedger' /\ TSAAccounted'
  BY DEF IInv, TestMapsSound, RedundancySound, DSALedger, DSAAccounted, TSALedger, TSAAccounted, AfterDSA
<1> QED
  BY <1>3, <1>4 DEF IInv

\* A searched pair has a member with a test; a pair of redundant faults has
\* none, so that no searched pair is declared redundant unasked.
LEMMA PairDSALedger ==
  ASSUME IInv, TypeOK', PairDSA
  PROVE  IInv'
<1> USE DEF ssaVars, dsaVars, tsaVars
<1>1. PICK related \in SUBSET RedundantPairs :
        /\ undetectedDSA' = BlockedPairs \cup related
        /\ redundantDSAF' = redundantDSAF \cup (RedundantPairs \ related)
  BY DEF PairDSA
<1>2. /\ pc = "searchDSA" /\ pc' = "compressDSA"
      /\ searchedDSA' = undetectedDSA' /\ todo' = undetectedDSA'
      /\ UNCHANGED <<detectedBy, ssaVars, DSAFPatterns, DSAFToPatterns, tsaVars, AllPatterns>>
  BY DEF PairDSA
<1>3. redundantDSAF = {} /\ DSAFPatterns = << >>
  BY <1>2 DEF IInv, SearchLedger
<1>4. BlockedPairs \cap RedundantPairs = {}
  <2> SUFFICES ASSUME NEW D \in BlockedPairs, D \in RedundantPairs PROVE FALSE
    OBVIOUS
  <2>1. PICK f \in DOMAIN potentiallyUndetected : f \in D
    BY DEF BlockedPairs
  <2>2. D \subseteq redundantSSAF
    BY DEF RedundantPairs
  <2>3. f \in DOMAIN SSAFToPatterns
    BY <1>2, <2>1 DEF IInv, SearchLedger
  <2>4. SSAFToPatterns[f] \in detectedBy[{f}] /\ detectedBy[{f}] = {}
    BY <2>1, <2>2, <2>3 DEF IInv, TestMapsSound, RedundancySound
  <2> QED
    BY <2>4
<1>5. redundantDSAF' \cap searchedDSA' = {}
  BY <1>1, <1>2, <1>3, <1>4
<1>6. RedundancySound'
  BY <1>2, <1>5 DEF IInv, RedundancySound
<1>7. DSALedger'
  BY <1>2, <1>3 DEF DSALedger
<1>8. SSALedger' /\ SearchLedger' /\ TestMapsSound'
  BY <1>2 DEF IInv, SSALedger, AccountedSSA, SearchLedger, TestMapsSound, AfterSSA, DetectedByList, checkallPatterns
<1>9. DSAAccounted' /\ TSALedger' /\ TSAAccounted'
  BY <1>2 DEF IInv, DSAAccounted, TSALedger, TSAAccounted, AfterDSA
<1> QED
  BY <1>6, <1>7, <1>8, <1>9 DEF IInv

\* A pair leaves the list exactly when a pattern of the first phase detects it.
LEMMA CompressDSALedger ==
  ASSUME IInv, TypeOK', NEW D \in todo, CompressDSA(D)
  PROVE  IInv'
<1> USE DEF ssaVars, dsaVars, tsaVars, CompressDSA, DetectedByList, checkallPatterns
<1>1. CASE DetectedByList(D, SSAFPatterns)
  <2>1. PICK p \in detectedBy[D] : DSAFToPatterns' = Inserted(DSAFToPatterns, D, p)
    BY <1>1
  <2>2. \A k \in DOMAIN DSAFToPatterns' : DSAFToPatterns'[k] \in detectedBy[k]
    BY <2>1 DEF IInv, TestMapsSound, Inserted
  <2>3. TestMapsSound'
    BY <2>2 DEF IInv, TestMapsSound
  <2>4. undetectedDSA' = undetectedDSA \ {D}
    BY <1>1
  <2>5. DSALedger'
    BY <1>1, <2>4 DEF IInv, DSALedger
  <2> QED
    BY <2>3, <2>5 DEF IInv, RedundancySound, SSALedger, AccountedSSA, SearchLedger, DSAAccounted,
                      TSALedger, TSAAccounted, AfterDSA
<1>2. CASE ~ DetectedByList(D, SSAFPatterns)
  <2>1. UNCHANGED <<DSAFToPatterns, undetectedDSA>>
    BY <1>2
  <2>2. DSALedger'
    BY <1>2, <2>1 DEF IInv, DSALedger
  <2> QED
    BY <2>1, <2>2 DEF IInv, TestMapsSound, RedundancySound, SSALedger, AccountedSSA, SearchLedger,
                      DSAAccounted, TSALedger, TSAAccounted, AfterDSA
<1> QED
  BY <1>1, <1>2

\* When the compression of the pairs ends, what is left is to be tested.
LEMMA CompressDSADoneLedger ==
  ASSUME IInv, TypeOK', CompressDSADone
  PROVE  IInv'
<1> USE DEF ssaVars, dsaVars, tsaVars, CompressDSADone, DetectedByList, checkallPatterns
<1>1. DSALedger'
  BY DEF IInv, DSALedger
<1> QED
  BY <1>1 DEF IInv, TestMapsSound, RedundancySound, SSALedger, AccountedSSA, SearchLedger,
              DSAAccounted, TSALedger, TSAAccounted, AfterSSA, AfterDSA

\* A pair is detected by an earlier additional test, gets one, or is redundant.
LEMMA TestDSALedger ==
  ASSUME IInv, TypeOK', NEW D \in todo, TestDSA(D)
  PROVE  IInv'
<1> USE DEF ssaVars, dsaVars, tsaVars
<1>1. /\ pc = "testDSA" /\ pc' = pc /\ todo' = todo \ {D}
      /\ UNCHANGED <<detectedBy, ssaVars, potentiallyUndetected, undetectedDSA, searchedDSA, tsaVars, AllPatterns>>
      /\ DSAFPatterns \in Seq(Patterns) /\ D \in DoubleFaults /\ detectedBy[D] \subseteq Patterns
  BY SmallSets, TestsArePatterns DEF IInv, TypeOK, TestDSA
<1>2. /\ Patterned(DSAFPatterns) \subseteq Patterned(DSAFPatterns')
      /\ redundantDSAF \subseteq redundantDSAF'
      /\ \/ DetectedByList(D, DSAFPatterns)
         \/ \E p \in detectedBy[D] : p \in Patterned(DSAFPatterns')
         \/ D \in redundantDSAF'
  <2>1. ASSUME NEW p \in detectedBy[D], DSAFPatterns' = Append(DSAFPatterns, p)
        PROVE  Patterned(DSAFPatterns') = Patterned(DSAFPatterns) \cup {p}
    BY <1>1, <2>1, PatternedAppend
  <2> QED
    BY <2>1 DEF TestDSA, DetectedByList
<1>3. TestMapsSound'
  <2>1. CASE UNCHANGED DSAFToPatterns
    BY <1>1, <2>1 DEF IInv, TestMapsSound
  <2>2. CASE \E p \in detectedBy[D] : DSAFToPatterns' = Inserted(DSAFToPatterns, D, p)
    <3>1. PICK p \in detectedBy[D] : DSAFToPatterns' = Inserted(DSAFToPatterns, D, p)
      BY <2>2
    <3>2. \A k \in DOMAIN DSAFToPatterns' : DSAFToPatterns'[k] \in detectedBy[k]
      BY <3>1 DEF IInv, TestMapsSound, Inserted
    <3> QED
      BY <1>1, <3>2 DEF IInv, TestMapsSound
  <2> QED
    BY <2>1, <2>2 DEF TestDSA
<1>4. RedundancySound'
  BY <1>1 DEF IInv, RedundancySound, TestDSA
<1>5. DSALedger'
  BY <1>1, <1>2 DEF IInv, DSALedger, DetectedByList, checkallPatterns
<1>6. SSALedger' /\ SearchLedger'
  BY <1>1 DEF IInv, SSALedger, AccountedSSA, SearchLedger, DetectedByList, checkallPatterns
<1>7. DSAAccounted' /\ TSALedger' /\ TSAAccounted'
  BY <1>1 DEF IInv, DSAAccounted, TSALedger, TSAAccounted, AfterDSA
<1> QED
  BY <1>3, <1>4, <1>5, <1>6, <1>7 DEF IInv

\* The test set of both phases is put together.
LEMMA TestDSADoneLedger ==
  ASSUME IInv, TypeOK', TestDSADone
  PROVE  IInv'
<1> USE DEF ssaVars, dsaVars, tsaVars, TestDSADone
<1>1. Patterned(AllPatterns') = Patterned(SSAFPatterns) \cup Patterned(DSAFPatterns)
  BY PatternedConcat DEF IInv, TypeOK
<1>2. DSAAccounted'
  BY <1>1 DEF IInv, DSALedger, DSAAccounted, DetectedByList, checkallPatterns
<1>3. SSALedger' /\ SearchLedger' /\ DSALedger' /\ TSALedger' /\ TSAAccounted'
  BY DEF IInv, SSALedger, AccountedSSA, SearchLedger, DSALedger, TSALedger, TSAAccounted, AfterSSA,
         DetectedByList, checkallPatterns
<1>4. TestMapsSound' /\ RedundancySound'
  BY DEF IInv, TestMapsSound, RedundancySound
<1> QED
  BY <1>2, <1>3, <1>4 DEF IInv

\* The triple faults are listed.
LEMMA SearchTSALedger ==
  ASSUME IInv, TypeOK', SearchTSA
  PROVE  IInv'
<1> USE DEF ssaVars, dsaVars, tsaVars
<1>1. /\ pc = "searchTSA" /\ pc' = "compressTSA"
      /\ searchedTSA' = undetectedTSA' /\ todo' = undetectedTSA'
      /\ UNCHANGED <<detectedBy, ssaVars, dsaVars, TSAFPatterns, redundantTSAFList, AllPatterns>>
  BY DEF SearchTSA
<1>2. TSALedger'
  BY <1>1 DEF IInv, TSALedger
<1> QED
  BY <1>1, <1>2 DEF IInv, TestMapsSound, RedundancySound, SSALedger, AccountedSSA, SearchLedger, DSALedger,
                    DSAAccounted, TSAAccounted, AfterSSA, AfterDSA, DetectedByList, checkallPatterns

\* A triple leaves the list exactly when a pattern of both phases detects it.
LEMMA CompressTSALedger ==
  ASSUME IInv, TypeOK', NEW T \in todo, CompressTSA(T)
  PROVE  IInv'
<1> USE DEF ssaVars, dsaVars, tsaVars, CompressTSA, DetectedByList, checkallPatterns
<1>1. TSALedger'
  BY DEF IInv, TSALedger
<1> QED
  BY <1>1 DEF IInv, TestMapsSound, RedundancySound, SSALedger, AccountedSSA, SearchLedger, DSALedger,
              DSAAccounted, TSAAccounted, AfterSSA, AfterDSA

\* When the compression of the triples ends, what is left is to be tested.
LEMMA CompressTSADoneLedger ==
  ASSUME IInv, TypeOK', CompressTSADone
  PROVE  IInv'
<1> USE DEF ssaVars, dsaVars, tsaVars, CompressTSADone, DetectedByList, checkallPatterns
<1>1. TSALedger'
  BY DEF IInv, TSALedger
<1> QED
  BY <1>1 DEF IInv, TestMapsSound, RedundancySound, SSALedger, AccountedSSA, SearchLedger, DSALedger,
              DSAAccounted, TSAAccounted, AfterSSA, AfterDSA

\* A triple is detected by an earlier additional test, gets one, or is redundant.
LEMMA TestTSALedger ==
  ASSUME IInv, TypeOK', NEW T \in todo, TestTSA(T)
  PROVE  IInv'
<1> USE DEF ssaVars, dsaVars, tsaVars
<1>1. /\ pc = "testTSA" /\ pc' = pc /\ todo' = todo \ {T}
      /\ UNCHANGED <<detectedBy, ssaVars, dsaVars, undetectedTSA, searchedTSA, AllPatterns>>
      /\ TSAFPatterns \in Seq(Patterns) /\ T \in MultipleFaults /\ detectedBy[T] \subseteq Patterns
  BY TestsArePatterns DEF IInv, TypeOK, TestTSA
<1>2. /\ Patterned(TSAFPatterns) \subseteq Patterned(TSAFPatterns')
      /\ redundantTSAFList \subseteq redundantTSAFList'
      /\ \/ DetectedByList(T, TSAFPatterns)
         \/ \E p \in detectedBy[T] : p \in Patterned(TSAFPatterns')
         \/ T \in redundantTSAFList'
  <2>1. ASSUME NEW p \in detectedBy[T], TSAFPatterns' = Append(TSAFPatterns, p)
        PROVE  Patterned(TSAFPatterns') = Patterned(TSAFPatterns) \cup {p}
    BY <1>1, <2>1, PatternedAppend
  <2> QED
    BY <2>1 DEF TestTSA, DetectedByList
<1>3. RedundancySound'
  BY <1>1 DEF IInv, RedundancySound, TestTSA
<1>4. TSALedger'
  BY <1>1, <1>2 DEF IInv, TSALedger, DetectedByList, checkallPatterns
<1> QED
  BY <1>1, <1>3, <1>4 DEF IInv, TestMapsSound, SSALedger, AccountedSSA, SearchLedger, DSALedger,
                          DSAAccounted, TSAAccounted, AfterSSA, AfterDSA, DetectedByList, checkallPatterns

\* The final test set is put together.
LEMMA TestTSADoneLedger ==
  ASSUME IInv, TypeOK', TestTSADone
  PROVE  IInv'
<1> USE DEF ssaVars, dsaVars, tsaVars, TestTSADone
<1>1. Patterned(AllPatterns') = Patterned(AllPatterns) \cup Patterned(TSAFPatterns)
  BY PatternedConcat DEF IInv, TypeOK
<1>2. DSAAccounted' /\ TSAAccounted'
  BY <1>1 DEF IInv, DSAAccounted, TSALedger, TSAAccounted, AfterDSA, DetectedByList, checkallPatterns
<1> QED
  BY <1>2 DEF IInv, TestMapsSound, RedundancySound, SSALedger, AccountedSSA, SearchLedger, DSALedger,
              TSALedger, AfterSSA, DetectedByList, checkallPatterns

\* A step that changes nothing keeps the accounts balanced.
LEMMA StutterLedger ==
  ASSUME IInv, TypeOK', UNCHANGED vars
  PROVE  IInv'
<1> USE DEF vars, ssaVars, dsaVars, tsaVars, DetectedByList, checkallPatterns
<1>1. TestMapsSound' /\ RedundancySound'
  BY DEF IInv, TestMapsSound, RedundancySound
<1>2. SSALedger' /\ SearchLedger'
  BY DEF IInv, SSALedger, AccountedSSA, SearchLedger
<1>3. DSALedger' /\ DSAAccounted'
  BY DEF IInv, DSALedger, DSAAccounted
<1>4. TSALedger' /\ TSAAccounted'
  BY DEF IInv, TSALedger, TSAAccounted
<1> QED
  BY <1>1, <1>2, <1>3, <1>4 DEF IInv

\* The accounts balance at every step of the flow.
THEOREM Invariant == Spec => []IInv
<1>1. Init => IInv
  BY InitLedger
<1>2. IInv /\ [Next]_vars => IInv'
  <2> SUFFICES ASSUME IInv, [Next]_vars PROVE IInv'
    OBVIOUS
  <2>1. TypeOK'
    BY TypeStep DEF IInv
  <2> QED
    BY <2>1, PairSSALedger, PairSSADoneLedger, TestSSALedger, TestSSADoneLedger, SearchDSALedger,
       PairDSALedger, CompressDSALedger, CompressDSADoneLedger, TestDSALedger, TestDSADoneLedger,
       SearchTSALedger, CompressTSALedger, CompressTSADoneLedger, TestTSALedger, TestTSADoneLedger,
       StutterLedger DEF Next
<1> QED
  BY <1>1, <1>2, PTL DEF Spec

\* Every single fault is tested, detected by a generated test, or redundant.
THEOREM SSABalance == Spec => []SSAAccounted
<1>1. IInv => SSAAccounted
  BY DEF IInv, SSALedger, SSAAccounted, AccountedSSA
<1> QED
  BY <1>1, Invariant, PTL

\* The tests in the maps detect their faults, and no testable fault is counted
\* redundant by the solver's answers.
THEOREM VerdictSoundness == Spec => []VerdictsSound
BY Invariant, PTL DEF IInv, VerdictsSound

\* Every listed double fault is detected by the test set or redundant.
THEOREM DSABalance == Spec => []DSAAccounted
BY Invariant, PTL DEF IInv

\* Every listed triple fault is detected by the final test set or redundant.
THEOREM TSABalance == Spec => []TSAAccounted
BY Invariant, PTL DEF IInv
-----------------------------------------------------------------------------
(***************************************************************************)
(* No test is generated in vain.  Between phases the lists of additional   *)
(* tests and of searched faults do not change; within testDSA and testTSA  *)
(* the ledgers say that a fault still to be tested is missed by the older  *)
(* patterns.                                                               *)
(***************************************************************************)
\* A needed test stays needed when another is put behind it, and the new one
\* is needed when its fault was missed by every test before it.
LEMMA NeededAppend ==
  ASSUME NEW list \in Seq(Patterns), NEW p \in Patterns, NEW earlier, NEW searched, NEW F \in searched,
         p \in detectedBy[F], ~ DetectedByList(F, earlier), ~ DetectedByList(F, list),
         \A i \in 1 .. Len(list) : Needed(list, i, earlier, searched)
  PROVE  \A i \in 1 .. Len(Append(list, p)) : Needed(Append(list, p), i, earlier, searched)
<1> DEFINE new == Append(list, p)
<1>1. /\ Len(list) \in Nat /\ Len(new) = Len(list) + 1
      /\ \A i \in 1 .. Len(list) : new[i] = list[i]
      /\ new[Len(list) + 1] = p
  OBVIOUS
<1>2. \A i \in 1 .. Len(list) + 1 : SubSeq(new, 1, i - 1) = SubSeq(list, 1, i - 1)
  OBVIOUS
<1>3. SubSeq(list, 1, Len(list)) = list
  OBVIOUS
<1>4. ASSUME NEW i \in 1 .. Len(list)
      PROVE  Needed(new, i, earlier, searched)
  <2>1. new[i] = list[i] /\ SubSeq(new, 1, i - 1) = SubSeq(list, 1, i - 1)
    BY <1>1, <1>2
  <2>2. Needed(list, i, earlier, searched)
    OBVIOUS
  <2> HIDE DEF new
  <2> QED
    BY <2>1, <2>2 DEF Needed
<1>5. Needed(new, Len(list) + 1, earlier, searched)
  <2>1. SubSeq(new, 1, (Len(list) + 1) - 1) = list
    BY <1>1, <1>2, <1>3
  <2> HIDE DEF new
  <2> QED
    BY <1>1, <2>1 DEF Needed
<1> QED
  BY <1>1, <1>4, <1>5

NeededDSA == \A i \in 1 .. Len(DSAFPatterns) : Needed(DSAFPatterns, i, SSAFPatterns, searchedDSA)

NeededTSA == pc \in {"compressTSA", "testTSA"} =>
               \A i \in 1 .. Len(TSAFPatterns) : Needed(TSAFPatterns, i, AllPatterns, searchedTSA)

\* A pair for which a test is generated is missed by the given tests and by
\* the additional ones.
LEMMA TestDSANeeded ==
  ASSUME IInv, NeededDSA, NEW D \in todo, TestDSA(D)
  PROVE  NeededDSA'
<1>1. /\ UNCHANGED <<detectedBy, SSAFPatterns, searchedDSA>>
      /\ D \in searchedDSA /\ ~ DetectedByList(D, SSAFPatterns)
      /\ DSAFPatterns \in Seq(Patterns) /\ detectedBy[D] \subseteq Patterns
  BY SmallSets, TestsArePatterns DEF IInv, TypeOK, TestDSA, ssaVars, DSALedger
<1>2. CASE UNCHANGED DSAFPatterns
  BY <1>1, <1>2 DEF NeededDSA, Needed, DetectedByList, checkallPatterns
<1>3. CASE DSAFPatterns' # DSAFPatterns
  <2>1. PICK p \in detectedBy[D] : DSAFPatterns' = Append(DSAFPatterns, p) /\ ~ DetectedByList(D, DSAFPatterns)
    BY <1>3 DEF TestDSA, DetectedByList
  <2>2. \A i \in 1 .. Len(DSAFPatterns') : Needed(DSAFPatterns', i, SSAFPatterns, searchedDSA)
    BY <1>1, <2>1, NeededAppend DEF NeededDSA
  <2> QED
    BY <1>1, <2>2 DEF NeededDSA, Needed, DetectedByList, checkallPatterns
<1> QED
  BY <1>2, <1>3

\* The same for a triple and the patterns of both phases.
LEMMA TestTSANeeded ==
  ASSUME IInv, NeededTSA, NEW T \in todo, TestTSA(T)
  PROVE  NeededTSA'
<1>1. /\ UNCHANGED <<detectedBy, AllPatterns, searchedTSA>> /\ pc = "testTSA" /\ pc' = pc
      /\ T \in searchedTSA /\ ~ DetectedByList(T, AllPatterns)
      /\ TSAFPatterns \in Seq(Patterns) /\ detectedBy[T] \subseteq Patterns
  BY TestsArePatterns DEF IInv, TypeOK, TestTSA, TSALedger
<1>2. CASE UNCHANGED TSAFPatterns
  BY <1>1, <1>2 DEF NeededTSA, Needed, DetectedByList, checkallPatterns
<1>3. CASE TSAFPatterns' # TSAFPatterns
  <2>1. PICK p \in detectedBy[T] : TSAFPatterns' = Append(TSAFPatterns, p) /\ ~ DetectedByList(T, TSAFPatterns)
    BY <1>3 DEF TestTSA, DetectedByList
  <2>2. \A i \in 1 .. Len(TSAFPatterns') : Needed(TSAFPatterns', i, AllPatterns, searchedTSA)
    BY <1>1, <2>1, NeededAppend DEF NeededTSA
  <2> QED
    BY <1>1, <2>2 DEF NeededTSA, Needed, DetectedByList, checkallPatterns
<1> QED
  BY <1>2, <1>3

\* The other steps generate no test: the list of additional tests is still
\* empty, or neither it nor what makes its tests needed changes.
LEMMA NeededStep ==
  ASSUME IInv, IInv', AdditionalTestsNeeded, [Next]_vars
  PROVE  AdditionalTestsNeeded'
<1> USE DEF ssaVars, dsaVars, tsaVars
<1>1. NeededDSA /\ NeededTSA
  BY DEF AdditionalTestsNeeded, NeededDSA, NeededTSA
<1>2. ASSUME DSAFPatterns' = << >>
      PROVE  NeededDSA'
  BY <1>2 DEF NeededDSA
<1>3. ASSUME TSAFPatterns' = << >> \/ pc' \notin {"compressTSA", "testTSA"}
      PROVE  NeededTSA'
  BY <1>3 DEF NeededTSA
<1>4. ASSUME UNCHANGED <<detectedBy, DSAFPatterns, SSAFPatterns, searchedDSA>>
      PROVE  NeededDSA'
  BY <1>1, <1>4 DEF NeededDSA, Needed, DetectedByList, checkallPatterns
<1>5. ASSUME UNCHANGED <<detectedBy, pc, TSAFPatterns, AllPatterns, searchedTSA>>
      PROVE  NeededTSA'
  BY <1>1, <1>5 DEF NeededTSA, Needed, DetectedByList, checkallPatterns
<1>6. NeededDSA'
  <2>1. CASE pc' \in {"pairSSA", "testSSA", "searchDSA", "compressDSA"}
    BY <1>2, <2>1 DEF IInv, SearchLedger, DSALedger
  <2>2. ASSUME NEW D \in todo, TestDSA(D) PROVE NeededDSA'
    BY <1>1, <2>2, TestDSANeeded
  <2>3. CASE UNCHANGED <<detectedBy, DSAFPatterns, SSAFPatterns, searchedDSA>>
    BY <1>4, <2>3
  <2> QED
    BY <2>1, <2>2, <2>3 DEF Next, vars, PairSSA, PairSSADone, TestSSA, TestSSADone, SearchDSA, PairDSA,
       CompressDSA, CompressDSADone, TestDSADone, SearchTSA, CompressTSA, CompressTSADone, TestTSA, TestTSADone
<1>7. NeededTSA'
  <2>1. CASE TSAFPatterns' = << >> \/ pc' \notin {"compressTSA", "testTSA"}
    BY <1>3, <2>1
  <2>2. ASSUME NEW T \in todo, TestTSA(T) PROVE NeededTSA'
    BY <1>1, <2>2, TestTSANeeded
  <2>3. CASE UNCHANGED <<detectedBy, pc, TSAFPatterns, AllPatterns, searchedTSA>>
    BY <1>5, <2>3
  <2> QED
    BY <2>1, <2>2, <2>3 DEF IInv, TSALedger, Next, vars, PairSSA, PairSSADone, TestSSA, TestSSADone, SearchDSA,
       PairDSA, CompressDSA, CompressDSADone, TestDSA, TestDSADone, SearchTSA, CompressTSA, CompressTSADone, TestTSADone
<1> QED
  BY <1>6, <1>7 DEF AdditionalTestsNeeded, NeededDSA, NeededTSA

\* Every additional test detects a listed fault that no test before it detects.
THEOREM TestsNeeded == Spec => []AdditionalTestsNeeded
<1>1. Init => AdditionalTestsNeeded
  BY DEF Init, AdditionalTestsNeeded
<1>2. IInv /\ IInv' /\ AdditionalTestsNeeded /\ [Next]_vars => AdditionalTestsNeeded'
  BY NeededStep
<1> QED
  BY <1>1, <1>2, Invariant, PTL DEF Spec
=============================================================================
