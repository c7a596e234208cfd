-------------------------- MODULE GlucoseParts_proof ---------------------------
(***************************************************************************)
(* Parts of Glucose, for every size, every INT_MAX, every formula and any  *)
(* number of threads: the ring of the latest values the restarts are       *)
(* decided on (BoundedQueue), the circular buffer of the clauses backward  *)
(* subsumption has to look at (Queue), which implements a queue (Fifo),    *)
(* the vector, whose length cannot overflow (Vec), the threads of the      *)
(* parallel solver (ParallelSolving) and the buffer they exchange clauses  *)
(* through (ClausesBuffer).  The invariant of each part is proved of its   *)
(* own module; the last section lifts them to GlucoseParts.                *)
(***************************************************************************)
EXTENDS GlucoseParts, FiniteSetTheorems, TLAPS

\* A full ring is overwritten where its oldest value is; one that is not yet
\* full starts at 0, because first never comes round before it is full.
RingShape ==
    IF queuesize = maxsize THEN first = last ELSE last = 0 /\ first = queuesize

TotalsAreSums ==
    /\ \A n \in 1 .. Len(pushed) : total[n + 1] = total[n] + pushed[n]
    /\ \A m, n \in 1 .. Len(total) : m <= n => total[m] <= total[n]

RingInv == R!TypeOK /\ RingShape /\ TotalsAreSums /\ R!LatestKept /\ R!SumExact

\* The queue as the solver's constructor leaves it: empty, its sum 0.
LEMMA RingInit == R!Init => RingInv
<1>1. \A size \in Sizes : size \in Nat \ {0}
  BY RingConstants DEF R!BoundedQueueAssumption
<1>2. R!Init => R!TypeOK
  BY <1>1 DEF R!Init, R!TypeOK
<1> QED
  BY <1>1, <1>2 DEF R!Init, RingInv, RingShape, TotalsAreSums, R!LatestKept, R!SumExact, R!Slot

\* Pushing on the history: the older values and sums stay, the new ones follow.
LEMMA HistoryGrows ==
    ASSUME R!TypeOK, TotalsAreSums, NEW x \in Nat, R!push(x)
    PROVE  /\ pushed' \in Seq(Nat) /\ total' \in Seq(Nat)
           /\ Len(pushed') = Len(pushed) + 1 /\ Len(total') = Len(total) + 1
           /\ \A i \in 1 .. Len(pushed) : pushed'[i] = pushed[i]
           /\ \A i \in 1 .. Len(total) : total'[i] = total[i]
           /\ pushed'[Len(pushed) + 1] = x
           /\ total'[Len(total) + 1] = total[Len(total)] + x
           /\ TotalsAreSums'
<1>1. total[Len(total)] \in Nat BY DEF R!TypeOK
<1>2. /\ pushed' = Append(pushed, x) /\ total' = Append(total, total[Len(total)] + x)
  BY DEF R!push
<1>3. /\ pushed' \in Seq(Nat) /\ total' \in Seq(Nat)
      /\ Len(pushed') = Len(pushed) + 1 /\ Len(total') = Len(total) + 1
      /\ \A i \in 1 .. Len(pushed) : pushed'[i] = pushed[i]
      /\ \A i \in 1 .. Len(total) : total'[i] = total[i]
      /\ pushed'[Len(pushed) + 1] = x
      /\ total'[Len(total) + 1] = total[Len(total)] + x
  BY <1>1, <1>2 DEF R!TypeOK
<1>4. \A n \in 1 .. Len(pushed') : total'[n + 1] = total'[n] + pushed'[n]
  <2> SUFFICES ASSUME NEW n \in 1 .. Len(pushed')
               PROVE  total'[n + 1] = total'[n] + pushed'[n]
    OBVIOUS
  <2>1. Len(pushed) \in Nat /\ Len(total) = Len(pushed) + 1 BY DEF R!TypeOK
  <2>2. CASE n = Len(pushed) + 1
    <3>1. n = Len(total) /\ n \in 1 .. Len(total) BY <2>1, <2>2
    <3>2. total'[n] = total[n] /\ total'[n + 1] = total[n] + x /\ pushed'[n] = x
      BY <1>3, <2>2, <3>1
    <3> QED BY <3>2
  <2>3. CASE n \in 1 .. Len(pushed)
    <3>1. n \in 1 .. Len(total) /\ n + 1 \in 1 .. Len(total) BY <2>1, <2>3
    <3>2. total[n + 1] = total[n] + pushed[n] BY <2>3 DEF TotalsAreSums
    <3> QED BY <1>3, <2>3, <3>1, <3>2
  <2> QED BY <1>3, <2>1, <2>2, <2>3
<1>5. \A m, n \in 1 .. Len(total') : m <= n => total'[m] <= total'[n]
  <2> SUFFICES ASSUME NEW m \in 1 .. Len(total'), NEW n \in 1 .. Len(total'), m <= n
               PROVE  total'[m] <= total'[n]
    OBVIOUS
  <2>1. CASE n \in 1 .. Len(total)
    <3>1. m \in 1 .. Len(total) BY <2>1
    <3>2. total[m] <= total[n] BY <2>1, <3>1 DEF TotalsAreSums
    <3> QED BY <1>3, <2>1, <3>1, <3>2
  <2>2. CASE n = Len(total) + 1
    <3>1. total[Len(total)] <= total'[n] BY <1>1, <1>3, <2>2
    <3>2. CASE m = n BY <1>1, <1>3, <2>2, <3>2
    <3>3. CASE m \in 1 .. Len(total)
      <4>1. total[m] <= total[Len(total)] BY <3>3 DEF TotalsAreSums, R!TypeOK
      <4>2. total[m] \in Nat /\ total'[n] \in Nat BY <1>3, <3>3, SMTT(30) DEF R!TypeOK
      <4>3. total'[m] = total[m] BY <1>3, <3>3
      <4> QED BY <1>1, <3>1, <4>1, <4>2, <4>3
    <3> QED BY <1>3, <2>2, <3>2, <3>3
  <2> QED BY <1>3, <2>1, <2>2
<1> QED BY <1>3, <1>4, <1>5 DEF TotalsAreSums

\* push keeps the ring in step with the history, whether it overwrites or not.
LEMMA RingPush ==
    ASSUME RingInv, NEW x \in Nat, R!push(x)
    PROVE RingInv'
<1> USE DEF RingInv
<1>h. /\ pushed' \in Seq(Nat) /\ total' \in Seq(Nat)
      /\ Len(pushed') = Len(pushed) + 1 /\ Len(total') = Len(total) + 1
      /\ \A i \in 1 .. Len(pushed) : pushed'[i] = pushed[i]
      /\ \A i \in 1 .. Len(total) : total'[i] = total[i]
      /\ pushed'[Len(pushed) + 1] = x
      /\ total'[Len(total) + 1] = total[Len(total)] + x
      /\ TotalsAreSums'
  BY HistoryGrows
<1>t. /\ maxsize \in Nat \ {0} /\ first \in 0 .. maxsize - 1
      /\ last \in 0 .. maxsize - 1 /\ queuesize \in 0 .. maxsize
      /\ sumofqueue \in Nat /\ Len(pushed) \in Nat /\ Len(total) = Len(pushed) + 1
      /\ \A i \in 0 .. maxsize - 1 : i \in DOMAIN elems /\ elems[i] \in Nat
  BY DEF R!TypeOK
<1>n. /\ \A n \in 1 .. Len(total) : total[n] \in Nat
      /\ \A n \in 1 .. Len(pushed) : pushed[n] \in Nat
  <2>1. pushed \in Seq(Nat) /\ total \in Seq(Nat) BY DEF R!TypeOK
  <2> HIDE DEF RingInv
  <2> QED BY <2>1
<1>m. maxsize' = maxsize BY DEF R!push
<1>e. /\ DOMAIN elems' = DOMAIN elems
      /\ \A i \in 0 .. maxsize - 1 : elems'[i] = IF i = first THEN x ELSE elems[i]
  BY <1>t DEF R!push
<1>r. RingShape' BY <1>t, <1>m DEF RingShape, R!push, R!isvalid, R!Next1
<1>s. /\ first' \in 0 .. maxsize - 1 /\ last' \in 0 .. maxsize - 1
      /\ queuesize' \in 0 .. maxsize
      /\ queuesize' = IF Len(pushed') < maxsize THEN Len(pushed') ELSE maxsize
  <2>1. queuesize = IF Len(pushed) < maxsize THEN Len(pushed) ELSE maxsize
    BY DEF R!LatestKept
  <2>2. /\ queuesize' = IF queuesize = maxsize THEN queuesize ELSE queuesize + 1
        /\ first' = IF first + 1 = maxsize THEN 0 ELSE first + 1
        /\ last' = IF first + 1 = maxsize THEN 0
                   ELSE IF queuesize = maxsize
                        THEN IF last + 1 = maxsize THEN 0 ELSE last + 1 ELSE last
    BY DEF R!push, R!isvalid, R!Next1
  <2> HIDE DEF RingInv
  <2> QED BY <2>1, <2>2, <1>t, <1>h, SMTT(30)
<1>1. R!LatestKept'
  <2> SUFFICES ASSUME NEW i \in 0 .. queuesize' - 1
               PROVE  elems'[R!Slot(i)'] = pushed'[Len(pushed') - queuesize' + i + 1]
    BY <1>s, <1>m DEF R!LatestKept
  <2>1. CASE queuesize = maxsize
    <3>1. /\ queuesize' = maxsize /\ first = last
          /\ last' = IF first + 1 = maxsize THEN 0 ELSE first + 1
      BY <2>1, <1>t DEF R!push, R!isvalid, R!Next1, RingShape
    <3>2. CASE i = maxsize - 1
      <4>1. R!Slot(i)' = first BY <3>1, <3>2, <1>t, <1>m DEF R!Slot
      <4>2. Len(pushed') - queuesize' + i + 1 = Len(pushed) + 1
        BY <3>1, <3>2, <1>h, <1>t
      <4> QED BY <4>1, <4>2, <1>e, <1>h, <1>t
    <3>3. CASE i # maxsize - 1
      <4>1. R!Slot(i)' = R!Slot(i + 1) /\ R!Slot(i)' # first /\ R!Slot(i)' \in 0 .. maxsize - 1
        BY <3>1, <3>3, <1>t, <1>m DEF R!Slot
      <4>2. Len(pushed') - queuesize' + i + 1 = Len(pushed) - queuesize + (i + 1) + 1
        BY <3>1, <2>1, <1>h, <1>t
      <4>3. elems[R!Slot(i + 1)] = pushed[Len(pushed) - queuesize + (i + 1) + 1]
        <5>1. i + 1 \in 0 .. queuesize - 1 BY <3>1, <3>3, <2>1, <1>t
        <5> QED BY <5>1 DEF R!LatestKept
      <4>4. Len(pushed) - queuesize + (i + 1) + 1 \in 1 .. Len(pushed)
        BY <3>1, <3>3, <2>1, <1>t DEF R!LatestKept
      <4> QED BY <4>1, <4>2, <4>3, <4>4, <1>e, <1>h
    <3> QED BY <3>2, <3>3
  <2>2. CASE queuesize # maxsize
    <3>1. /\ queuesize' = queuesize + 1 /\ last = 0 /\ last' = 0 /\ first = queuesize
          /\ Len(pushed) = queuesize
      BY <2>2, <1>t DEF R!push, R!isvalid, RingShape, R!LatestKept
    <3>2. R!Slot(i)' = i /\ i \in 0 .. maxsize - 1 BY <3>1, <1>t, <1>m, <1>s DEF R!Slot
    <3>3. Len(pushed') - queuesize' + i + 1 = i + 1 BY <3>1, <1>h, <1>t
    <3>4. CASE i = queuesize BY <3>1, <3>2, <3>3, <3>4, <1>e, <1>h
    <3>5. CASE i # queuesize
      <4>1. i \in 0 .. queuesize - 1 /\ R!Slot(i) = i BY <3>1, <3>5, <1>t DEF R!Slot
      <4>2. elems[R!Slot(i)] = pushed[Len(pushed) - queuesize + i + 1] BY <4>1 DEF R!LatestKept
      <4>3. Len(pushed) - queuesize + i + 1 = i + 1 /\ i + 1 \in 1 .. Len(pushed) BY <4>1, <3>1, <1>t
      <4> QED BY <4>1, <4>2, <4>3, <3>1, <3>2, <3>3, <1>e, <1>h
    <3> QED BY <3>4, <3>5
  <2> QED BY <2>1, <2>2
<1>2. R!SumExact' /\ sumofqueue' \in Nat
  <2>1. CASE queuesize = maxsize
    <3> DEFINE o == Len(pushed) - queuesize + 1
    <3>1. /\ queuesize' = maxsize /\ o \in 1 .. Len(pushed)
          /\ sumofqueue' = sumofqueue - elems[last] + x
      BY <2>1, <1>t DEF R!push, R!isvalid, R!LatestKept
    <3>2. elems[last] = pushed[o]
      <4>1. R!Slot(0) = last /\ 0 \in 0 .. queuesize - 1 BY <2>1, <1>t DEF R!Slot
      <4>2. elems[R!Slot(0)] = pushed[Len(pushed) - queuesize + 0 + 1] BY <4>1 DEF R!LatestKept
      <4> QED BY <4>1, <4>2, <1>t
    <3>3. total[o + 1] = total[o] + pushed[o] BY <3>1 DEF TotalsAreSums
    <3>4. sumofqueue = total[Len(total)] - total[o]
      <4>1. Len(total) - queuesize = o BY <1>t
      <4> QED BY <4>1 DEF R!SumExact
    <3>5. total'[Len(total')] = total[Len(total)] + x BY <1>h
    <3>6. total'[Len(total') - queuesize'] = total[o + 1]
      <4>1. Len(total') - queuesize' = o + 1 BY <3>1, <2>1, <1>h, <1>t
      <4>2. o + 1 \in 1 .. Len(total) BY <3>1, <1>t
      <4> QED BY <4>1, <4>2, <1>h
    <3>7. total[Len(total)] \in Nat /\ total[o] \in Nat /\ pushed[o] \in Nat
      <4>1. o \in 1 .. Len(total) /\ Len(total) \in 1 .. Len(total) BY <3>1, <1>t
      <4> HIDE DEF o
      <4> QED BY <4>1, <3>1, <1>n
    <3> HIDE DEF o
    <3>8. sumofqueue' = total'[Len(total')] - total'[Len(total') - queuesize']
      <4> HIDE DEF RingInv
      <4>1. sumofqueue' = (total[Len(total)] + x) - (total[o] + pushed[o])
        BY <3>1, <3>2, <3>4, <3>7, SMTT(40)
      <4> QED BY <4>1, <3>3, <3>5, <3>6
    <3>9. total[o + 1] <= total[Len(total)]
      <4>1. o + 1 \in 1 .. Len(total) /\ Len(total) \in 1 .. Len(total) BY <3>1, <1>t
      <4> QED BY <4>1, <1>t DEF TotalsAreSums
    <3>10. sumofqueue' \in Nat
      <4> HIDE DEF RingInv
      <4>1. sumofqueue' = (total[Len(total)] + x) - (total[o] + pushed[o])
        BY <3>1, <3>2, <3>4, <3>7, SMTT(40)
      <4> QED BY <4>1, <3>3, <3>7, <3>9
    <3> QED BY <3>8, <3>10 DEF R!SumExact
  <2>2. CASE queuesize # maxsize
    <3>1. /\ queuesize' = queuesize + 1 /\ Len(pushed) = queuesize
          /\ sumofqueue' = sumofqueue + x
      BY <2>2, <1>t DEF R!push, R!isvalid, R!LatestKept
    <3>2. Len(total) - queuesize = 1 /\ Len(total') - queuesize' = 1
      BY <3>1, <1>t, <1>h
    <3>3. total'[1] = total[1] /\ total'[Len(total')] = total[Len(total)] + x
      BY <1>h, <1>t
    <3>4. total[Len(total)] \in Nat /\ total[1] \in Nat BY <1>n, <1>t
    <3>5. sumofqueue = total[Len(total)] - total[1] BY <3>2 DEF R!SumExact
    <3>6. sumofqueue' = total'[Len(total')] - total'[Len(total') - queuesize']
      <4> HIDE DEF RingInv
      <4>1. sumofqueue' = (total[Len(total)] + x) - total[1] BY <3>1, <3>4, <3>5
      <4> QED BY <4>1, <3>2, <3>3
    <3> QED BY <3>1, <3>6, <1>t DEF R!SumExact
  <2> QED BY <2>1, <2>2
<1>3. R!TypeOK'
  BY <1>h, <1>t, <1>m, <1>e, <1>s, <1>2 DEF R!TypeOK
<1> QED BY <1>1, <1>2, <1>3, <1>r, <1>h DEF RingInv

\* Clearing leaves the old values in the ring and forgets them.
LEMMA RingClear ==
    ASSUME RingInv, R!fastclear
    PROVE RingInv'
<1>1. R!TypeOK' BY DEF RingInv, R!TypeOK, R!fastclear
<1>2. maxsize' = maxsize /\ maxsize \in Nat \ {0} BY DEF RingInv, R!TypeOK, R!fastclear
<1> QED
  BY <1>1, <1>2 DEF RingInv, RingShape, TotalsAreSums, R!LatestKept, R!SumExact, R!fastclear

\* A queue nothing is in may be given another size: its sum is 0 already.
LEMMA RingGrow ==
    ASSUME RingInv, NEW size \in Sizes, R!growTo(size)
    PROVE RingInv'
<1>1. size \in Nat \ {0} BY RingConstants DEF R!BoundedQueueAssumption
<1>2. R!TypeOK'
  BY <1>1 DEF RingInv, R!TypeOK, R!growTo
<1>3. /\ pushed = <<>> /\ pushed' = <<>> /\ total' = total /\ Len(total) = 1
      /\ maxsize' = size /\ queuesize' = 0 /\ first' = 0 /\ last' = 0
      /\ queuesize = 0 /\ sumofqueue' = sumofqueue
  BY DEF RingInv, R!TypeOK, R!growTo, R!LatestKept
<1>4. R!SumExact' BY <1>3 DEF RingInv, R!SumExact
<1>5. TotalsAreSums' BY <1>3 DEF RingInv, TotalsAreSums
<1>6. RingShape' /\ R!LatestKept' BY <1>1, <1>3 DEF RingShape, R!LatestKept
<1> QED BY <1>2, <1>4, <1>5, <1>6 DEF RingInv

\* push, fastclear and growTo of BoundedQueue.h.
LEMMA RingStep == RingInv /\ [R!Next]_(R!vars) => RingInv'
<1> SUFFICES ASSUME RingInv, [R!Next]_(R!vars) PROVE RingInv'
  OBVIOUS
<1>1. CASE R!Push
  <2>1. PICK x \in Values : R!push(x) BY <1>1 DEF R!Push
  <2>2. x \in Nat BY RingConstants DEF R!BoundedQueueAssumption
  <2> QED BY <2>1, <2>2, RingPush
<1>2. CASE R!fastclear BY <1>2, RingClear
<1>3. CASE R!GrowTo BY <1>3, RingGrow DEF R!GrowTo
<1>4. CASE UNCHANGED R!vars
  BY <1>4 DEF R!vars, RingInv, R!TypeOK, RingShape, TotalsAreSums, R!LatestKept, R!SumExact, R!Slot
<1> QED BY <1>1, <1>2, <1>3, <1>4 DEF R!Next

-----------------------------------------------------------------------------
\* Queue: the circular buffer is a queue. The lemmas are about a buffer b whose
\* elements start at f and end before d, so that they can be used of a state
\* and of the state after it.

Stored == Elems \cup {NoElem}

Circle(b, f, d) ==
    b \in Seq(Stored) /\ Len(b) \in Nat \ {0} /\ f \in 0 .. Len(b) - 1 /\ d \in 0 .. Len(b) - 1

Count(b, f, d) == IF d >= f THEN d - f ELSE d - f + Len(b)

At(b, f, i) == ((f + i) % Len(b)) + 1

List(b, f, d) == [i \in 1 .. Count(b, f, d) |-> b[At(b, f, i - 1)]]

\* The definitions of the module are those of its state, now and after a step.
LEMMA OfState ==
    /\ Q!TypeOK <=> Circle(buf, front, end)
    /\ Q!size = Count(buf, front, end)
    /\ Q!Contents = List(buf, front, end)
    /\ \A i : Q!Place(i) = At(buf, front, i)
    /\ Q!TypeOK' <=> Circle(buf', front', end')
    /\ Q!Contents' = List(buf', front', end')
<1>1. \A b : b \in Seq(Stored) => Len(b) \in Nat
  OBVIOUS
<1>2. (Q!TypeOK <=> Circle(buf, front, end)) /\ (Q!TypeOK' <=> Circle(buf', front', end'))
  BY <1>1 DEF Q!TypeOK, Circle, Stored
<1>3. Q!size = Count(buf, front, end) /\ \A i : Q!Place(i) = At(buf, front, i)
  BY DEF Q!size, Count, Q!Place, At
<1>4. Q!Contents = List(buf, front, end) /\ Q!Contents' = List(buf', front', end')
  BY DEF Q!Contents, List, Q!size, Count, Q!Place, At
<1> QED BY <1>2, <1>3, <1>4

\* Two sequences with the same elements are the same.
LEMMA SameElements ==
    ASSUME NEW S, NEW s \in Seq(S), NEW t \in Seq(S), Len(s) = Len(t),
           \A i \in 1 .. Len(s) : s[i] = t[i]
    PROVE  s = t
OBVIOUS

\* The number of elements, and the place the next one will take.
LEMMA CountIs ==
    ASSUME NEW b, NEW f, NEW d, Circle(b, f, d)
    PROVE  /\ Count(b, f, d) \in 0 .. Len(b) - 1 /\ Count(b, f, d) \in Nat
           /\ d = IF f + Count(b, f, d) < Len(b) THEN f + Count(b, f, d)
                  ELSE f + Count(b, f, d) - Len(b)
BY DEF Circle, Count

\* Where an element is: behind f, or before it once the buffer has wrapped.
LEMMA AtIs ==
    ASSUME NEW b, NEW f, NEW d, Circle(b, f, d), NEW i \in 0 .. Len(b) - 1
    PROVE  /\ At(b, f, i) = IF f + i < Len(b) THEN f + i + 1 ELSE f + i - Len(b) + 1
           /\ At(b, f, i) \in 1 .. Len(b)
<1>1. Len(b) \in Nat \ {0} /\ f \in Nat /\ f < Len(b) /\ i \in Nat /\ i < Len(b)
  BY DEF Circle
<1> QED BY <1>1 DEF At

\* No two elements are in one place, and none is where the next one will be.
LEMMA AtApart ==
    ASSUME NEW b, NEW f, NEW d, Circle(b, f, d)
    PROVE  /\ \A i, j \in 0 .. Len(b) - 1 : At(b, f, i) = At(b, f, j) => i = j
           /\ At(b, f, Count(b, f, d)) = d + 1
           /\ \A i \in 0 .. Count(b, f, d) - 1 : At(b, f, i) # d + 1
<1> DEFINE n == Len(b)
           k == Count(b, f, d)
<1>1. n \in Nat \ {0} /\ f \in 0 .. n - 1 /\ d \in 0 .. n - 1 BY DEF Circle
<1>2. k \in 0 .. n - 1 /\ d = IF f + k < n THEN f + k ELSE f + k - n BY CountIs
<1>3. \A i \in 0 .. n - 1 : At(b, f, i) = IF f + i < n THEN f + i + 1 ELSE f + i - n + 1
  BY AtIs
<1> HIDE DEF n, k
<1>4. \A i, j \in 0 .. n - 1 : At(b, f, i) = At(b, f, j) => i = j
  BY <1>1, <1>3
<1>5. At(b, f, k) = d + 1 BY <1>1, <1>2, <1>3
<1>6. \A i \in 0 .. k - 1 : At(b, f, i) # d + 1
  BY <1>1, <1>2, <1>4, <1>5
<1> QED BY <1>4, <1>5, <1>6 DEF n, k

\* The elements of the circular list, in their order.
LEMMA ListIs ==
    ASSUME NEW b, NEW f, NEW d, Circle(b, f, d)
    PROVE  /\ List(b, f, d) \in Seq(Stored) /\ Len(List(b, f, d)) = Count(b, f, d)
           /\ \A i \in 1 .. Count(b, f, d) : List(b, f, d)[i] = b[At(b, f, i - 1)]
<1> DEFINE k == Count(b, f, d)
<1>1. k \in Nat /\ k \in 0 .. Len(b) - 1 /\ Len(b) \in Nat BY CountIs DEF Circle
<1>2. ASSUME NEW i \in 1 .. k PROVE b[At(b, f, i - 1)] \in Stored
  <2>1. i - 1 \in 0 .. Len(b) - 1 BY <1>1
  <2>2. At(b, f, i - 1) \in 1 .. Len(b) BY <2>1, AtIs
  <2> QED BY <2>2 DEF Circle
<1> HIDE DEF k
<1> QED BY <1>1, <1>2 DEF List, k

\* The code's Queue(): one place, nothing in it.
LEMMA InitQueue == Q!Init => Q!TypeOK /\ Q!Promise!Init
<1> SUFFICES ASSUME Q!Init PROVE Q!TypeOK /\ Q!Promise!Init
  OBVIOUS
<1>1. Q!TypeOK BY DEF Q!Init, Q!TypeOK
<1>2. Count(buf, front, end) = 0 BY DEF Q!Init, Count
<1>3. List(buf, front, end) = <<>> BY <1>1, <1>2, ListIs, OfState
<1> QED BY <1>1, <1>3, OfState DEF Q!Promise!Init

OneMore(b, f, d, e, b2, f2, d2) ==
    /\ Count(b2, f2, d2) = Count(b, f, d) + 1
    /\ \A i \in 0 .. Count(b, f, d) - 1 : b2[At(b2, f2, i)] = b[At(b, f, i)]
    /\ b2[At(b2, f2, Count(b, f, d))] = e

\* A buffer that holds the elements of another, and one more, holds the list of
\* the other with that element appended.
LEMMA Appended ==
    ASSUME NEW b, NEW f, NEW d, Circle(b, f, d), NEW b2, NEW f2, NEW d2, Circle(b2, f2, d2),
           NEW e \in Stored, OneMore(b, f, d, e, b2, f2, d2)
    PROVE  List(b2, f2, d2) = Append(List(b, f, d), e)
<1> DEFINE k == Count(b, f, d)
           s == List(b, f, d)
           t == List(b2, f2, d2)
<1>1. k \in Nat /\ s \in Seq(Stored) /\ Len(s) = k
      /\ \A i \in 1 .. k : s[i] = b[At(b, f, i - 1)]
  BY ListIs, CountIs
<1>2. t \in Seq(Stored) /\ Len(t) = k + 1
      /\ \A i \in 1 .. k + 1 : t[i] = b2[At(b2, f2, i - 1)]
  BY ListIs DEF OneMore
<1>3. /\ \A i \in 0 .. k - 1 : b2[At(b2, f2, i)] = b[At(b, f, i)]
      /\ b2[At(b2, f2, k)] = e
  BY DEF OneMore
<1> HIDE DEF k, s, t
<1>4. \A i \in 1 .. k : t[i] = s[i]
  <2> TAKE i \in 1 .. k
  <2>1. i - 1 \in 0 .. k - 1 /\ i \in 1 .. k + 1 BY <1>1
  <2> QED BY <2>1, <1>1, <1>2, <1>3
<1>5. t[k + 1] = e
  <2>1. k + 1 \in 1 .. k + 1 /\ (k + 1) - 1 = k BY <1>1
  <2> QED BY <2>1, <1>2, <1>3
<1>6. /\ Append(s, e) \in Seq(Stored) /\ Len(Append(s, e)) = k + 1
      /\ \A i \in 1 .. k : Append(s, e)[i] = s[i]
      /\ Append(s, e)[k + 1] = e
  BY <1>1
<1>7. \A i \in 1 .. k + 1 : t[i] = Append(s, e)[i]
  BY <1>1, <1>4, <1>5, <1>6
<1>8. t = Append(s, e)
  BY <1>2, <1>6, <1>7, SameElements
<1> QED BY <1>8 DEF s, t

\* Writing in a place, and every other place as it was.
LEMMA Written ==
    ASSUME NEW b \in Seq(Stored), NEW p \in 1 .. Len(b), NEW e \in Stored
    PROVE  /\ [b EXCEPT ![p] = e] \in Seq(Stored)
           /\ Len([b EXCEPT ![p] = e]) = Len(b)
           /\ \A i \in 1 .. Len(b) : [b EXCEPT ![p] = e][i] = IF i = p THEN e ELSE b[i]
OBVIOUS

Put(w, b, p, e) == w = [b EXCEPT ![p] = e]

Following(b, d) == IF d + 1 = Len(b) THEN 0 ELSE d + 1

\* What Resized of Queue.tla makes of a full buffer that starts at f.
MovedTo(b2, w, f) ==
    b2 = [i \in 1 .. (Len(w) * 3 + 1) \div 2 |->
             IF i <= Len(w) - f THEN w[f + i]
             ELSE IF i <= Len(w) THEN w[i - (Len(w) - f)] ELSE NoElem]

\* insert while there is still a free place: the elements stay where they are.
LEMMA InsertedInPlace ==
    ASSUME NEW b, NEW f, NEW d, Circle(b, f, d), NEW e \in Stored,
           NEW after, after = Following(b, d), f # after,
           NEW w, Put(w, b, d + 1, e)
    PROVE  Circle(w, f, after) /\ List(w, f, after) = Append(List(b, f, d), e)
<1> DEFINE n == Len(b)
           k == Count(b, f, d)
<1>0. after = IF d + 1 = n THEN 0 ELSE d + 1 BY DEF Following
<1>1. /\ n \in Nat \ {0} /\ f \in 0 .. n - 1 /\ d \in 0 .. n - 1 /\ d + 1 \in 1 .. n
      /\ b \in Seq(Stored)
  BY DEF Circle
<1>2. w \in Seq(Stored) /\ Len(w) = n /\ \A i \in 1 .. n : w[i] = IF i = d + 1 THEN e ELSE b[i]
  BY <1>1, Written DEF Put
<1>3. k \in 0 .. n - 1 /\ d = IF f + k < n THEN f + k ELSE f + k - n
  BY CountIs
<1>4. /\ \A i \in 0 .. n - 1 : At(b, f, i) \in 1 .. n
      /\ At(b, f, k) = d + 1
      /\ \A i \in 0 .. k - 1 : At(b, f, i) # d + 1
  BY AtIs, AtApart
<1> HIDE DEF n, k
<1>5. Circle(w, f, after) BY <1>0, <1>1, <1>2 DEF Circle
<1>6. Count(w, f, after) = k + 1
  <2>1. Count(w, f, after) = IF after >= f THEN after - f ELSE after - f + n
    BY <1>2 DEF Count
  <2> QED BY <2>1, <1>0, <1>1, <1>3
<1>7. \A i : At(w, f, i) = At(b, f, i) BY <1>2 DEF At, n
<1>8. \A i \in 0 .. k - 1 : w[At(w, f, i)] = b[At(b, f, i)]
  <2> TAKE i \in 0 .. k - 1
  <2>1. i \in 0 .. n - 1 BY <1>1, <1>3
  <2> QED BY <2>1, <1>2, <1>4, <1>7
<1>9. w[At(w, f, k)] = e BY <1>1, <1>2, <1>4, <1>7
<1>10. OneMore(b, f, d, e, w, f, after) BY <1>6, <1>8, <1>9 DEF OneMore, k
<1> QED BY <1>5, <1>10, Appended

\* insert in the last free place: the move to a larger buffer keeps the order.
LEMMA InsertedAndMoved ==
    ASSUME NEW b, NEW f, NEW d, Circle(b, f, d), NEW e \in Stored,
           f = Following(b, d), NEW w, Put(w, b, d + 1, e),
           NEW b2, MovedTo(b2, w, f)
    PROVE  /\ Circle(b2, 0, Len(b))
           /\ List(b2, 0, Len(b)) = Append(List(b, f, d), e)
<1> DEFINE n == Len(b)
           k == Count(b, f, d)
           m == (Len(w) * 3 + 1) \div 2
<1>1. /\ n \in Nat \ {0} /\ f \in 0 .. n - 1 /\ d \in 0 .. n - 1 /\ d + 1 \in 1 .. n
      /\ b \in Seq(Stored)
  BY DEF Circle
<1>2. w \in Seq(Stored) /\ Len(w) = n /\ \A i \in 1 .. n : w[i] = IF i = d + 1 THEN e ELSE b[i]
  BY <1>1, Written DEF Put
<1>3. k \in 0 .. n - 1 /\ k = n - 1
  BY <1>1 DEF Count, Following
<1>4. /\ \A i \in 0 .. n - 1 : At(b, f, i) = IF f + i < n THEN f + i + 1 ELSE f + i - n + 1
      /\ \A i \in 0 .. n - 1 : At(b, f, i) \in 1 .. n
      /\ At(b, f, k) = d + 1
      /\ \A i \in 0 .. k - 1 : At(b, f, i) # d + 1
  BY AtIs, AtApart
<1>5. m \in Nat /\ m > n BY <1>1, <1>2
<1>6. b2 = [i \in 1 .. m |-> IF i <= n - f THEN w[f + i]
                             ELSE IF i <= n THEN w[i - (n - f)] ELSE NoElem]
  BY <1>2 DEF MovedTo
<1> HIDE DEF n, k, m
<1>7. \A i \in 1 .. m : b2[i] \in Stored
  <2> TAKE i \in 1 .. m
  <2>1. b2[i] = IF i <= n - f THEN w[f + i] ELSE IF i <= n THEN w[i - (n - f)] ELSE NoElem
    BY <1>6
  <2>2. CASE i <= n - f
    <3>1. f + i \in 1 .. n BY <2>2, <1>1, <1>5
    <3> QED BY <2>1, <2>2, <3>1, <1>2
  <2>3. CASE ~(i <= n - f) /\ i <= n
    <3>1. i - (n - f) \in 1 .. n BY <2>3, <1>1, <1>5
    <3> QED BY <2>1, <2>3, <3>1, <1>2
  <2>4. CASE ~(i <= n - f) /\ ~(i <= n) BY <2>1, <2>4 DEF Stored
  <2>5. i <= n - f => i <= n BY <1>1, <1>5
  <2> QED BY <2>2, <2>3, <2>4, <2>5
<1>8. b2 \in Seq(Stored) /\ Len(b2) = m
  <2>1. b2 = [i \in 1 .. m |-> b2[i]] BY <1>6
  <2> QED BY <2>1, <1>5, <1>7
<1>9. Circle(b2, 0, n) BY <1>1, <1>5, <1>8 DEF Circle
<1>10. Count(b2, 0, n) = n BY <1>1 DEF Count
<1>11. \A i \in 0 .. n - 1 : b2[At(b2, 0, i)] = w[At(b, f, i)]
  <2> TAKE i \in 0 .. n - 1
  <2>1. At(b2, 0, i) = i + 1
    <3>1. i \in 0 .. Len(b2) - 1 /\ 0 + i < Len(b2) /\ 0 + i + 1 = i + 1
      BY <1>1, <1>5, <1>8
    <3> QED BY <3>1, <1>9, AtIs
  <2>2. i + 1 \in 1 .. m /\ i + 1 <= n BY <1>1, <1>5
  <2>3. b2[i + 1] = IF i + 1 <= n - f THEN w[f + (i + 1)] ELSE w[(i + 1) - (n - f)]
    BY <1>6, <2>2
  <2>4. /\ i + 1 <= n - f <=> f + i < n
        /\ f + (i + 1) = f + i + 1
        /\ (i + 1) - (n - f) = f + i - n + 1
    <3>1. n \in Nat /\ f \in Nat /\ i \in Nat BY <1>1
    <3> QED BY <3>1
  <2> QED BY <2>1, <2>3, <2>4, <1>4
<1>12. \A i \in 0 .. k - 1 : b2[At(b2, 0, i)] = b[At(b, f, i)]
  <2> TAKE i \in 0 .. k - 1
  <2>1. i \in 0 .. n - 1 BY <1>1, <1>3
  <2>2. w[At(b, f, i)] = b[At(b, f, i)] BY <2>1, <1>2, <1>4
  <2> QED BY <2>1, <2>2, <1>11
<1>13. b2[At(b2, 0, k)] = e
  <2>1. b2[At(b2, 0, k)] = w[At(b, f, k)] BY <1>3, <1>11
  <2> QED BY <2>1, <1>1, <1>2, <1>4
<1>14. Count(b2, 0, n) = k + 1 BY <1>1, <1>3, <1>10
<1>15. List(b2, 0, n) = Append(List(b, f, d), e)
  <2>1. OneMore(b, f, d, e, b2, 0, n) BY <1>12, <1>13, <1>14 DEF OneMore, k
  <2> QED BY <2>1, <1>9, Appended
<1> QED BY <1>9, <1>15 DEF n

\* insert of Queue.h, whether or not the buffer has to grow.
LEMMA InsertStep ==
    ASSUME Q!TypeOK, NEW e \in Elems, Q!insert(e)
    PROVE  Q!TypeOK' /\ Q!Promise!Insert(e)
<1> DEFINE written == [buf EXCEPT ![end + 1] = e]
           after == IF end + 1 = Len(buf) THEN 0 ELSE end + 1
<1>1. Circle(buf, front, end) /\ e \in Stored BY OfState DEF Stored
<1>2. Circle(buf', front', end')
      /\ List(buf', front', end') = Append(List(buf, front, end), e)
  <2>1. after = Following(buf, end) BY DEF Following
  <2>2. CASE front # after
    <3>1. buf' = written /\ end' = after /\ front' = front BY <2>2 DEF Q!insert
    <3> HIDE DEF written, after
    <3>2. Circle(written, front, after)
          /\ List(written, front, after) = Append(List(buf, front, end), e)
      <4>1. Put(written, buf, end + 1, e) BY DEF written, Put
      <4> QED BY <4>1, <2>1, <2>2, <1>1, InsertedInPlace
    <3> QED BY <3>1, <3>2
  <2>3. CASE front = after
    <3>1. buf' = Q!Resized(written) /\ end' = Len(buf) /\ front' = 0 BY <2>3 DEF Q!insert
    <3>2. MovedTo(Q!Resized(written), written, front)
      <4> HIDE DEF written
      <4> QED BY DEF Q!Resized, MovedTo
    <3> HIDE DEF written, after
    <3>3. Circle(Q!Resized(written), 0, Len(buf))
          /\ List(Q!Resized(written), 0, Len(buf)) = Append(List(buf, front, end), e)
      <4>1. Put(written, buf, end + 1, e) BY DEF written, Put
      <4> QED BY <4>1, <2>1, <2>3, <3>2, <1>1, InsertedAndMoved
    <3> QED BY <3>1, <3>3
  <2> QED BY <2>2, <2>3
<1> QED BY <1>2, OfState DEF Q!Promise!Insert

\* pop: the rest of the elements, in the same places.
LEMMA PopStep ==
    ASSUME Q!TypeOK, Q!pop
    PROVE Q!TypeOK' /\ Q!Promise!Pop
<1> DEFINE n == Len(buf)
           k == Count(buf, front, end)
           s == List(buf, front, end)
           t == List(buf, front', end)
<1>1. Circle(buf, front, end) /\ buf' = buf /\ end' = end /\ front # end
      /\ front' = IF front + 1 = n THEN 0 ELSE front + 1
  BY OfState DEF Q!pop
<1>2. n \in Nat \ {0} /\ front \in 0 .. n - 1 /\ end \in 0 .. n - 1
  BY <1>1 DEF Circle
<1>3. Circle(buf, front', end) BY <1>1, <1>2 DEF Circle
<1>4. k \in 1 .. n - 1 /\ Count(buf, front', end) = k - 1
  BY <1>1, <1>2 DEF Count
<1>5. s \in Seq(Stored) /\ Len(s) = k /\ \A i \in 1 .. k : s[i] = buf[At(buf, front, i - 1)]
  BY <1>1, ListIs
<1>6. t \in Seq(Stored) /\ Len(t) = k - 1
      /\ \A i \in 1 .. k - 1 : t[i] = buf[At(buf, front', i - 1)]
  BY <1>3, <1>4, ListIs
<1>7. \A i \in 0 .. n - 1 :
         /\ At(buf, front, i) = IF front + i < n THEN front + i + 1 ELSE front + i - n + 1
         /\ At(buf, front', i) = IF front' + i < n THEN front' + i + 1 ELSE front' + i - n + 1
  BY <1>1, <1>3, AtIs
<1> HIDE DEF n, k, s, t
<1>8. \A i \in 1 .. k - 1 : t[i] = s[i + 1]
  <2> TAKE i \in 1 .. k - 1
  <2>1. i - 1 \in 0 .. n - 1 /\ i \in 0 .. n - 1 /\ i + 1 \in 1 .. k /\ (i + 1) - 1 = i
    BY <1>2, <1>4
  <2>2. At(buf, front', i - 1) = At(buf, front, i)
    <3>1. /\ At(buf, front, i) = IF front + i < n THEN front + i + 1 ELSE front + i - n + 1
          /\ At(buf, front', i - 1) = IF front' + (i - 1) < n THEN front' + (i - 1) + 1
                                      ELSE front' + (i - 1) - n + 1
      BY <1>7, <2>1
    <3> QED BY <3>1, <1>1, <1>2, <1>4, <2>1
  <2> QED BY <2>1, <2>2, <1>5, <1>6, SMTT(30)
<1>9. s # <<>> /\ Tail(s) \in Seq(Stored) /\ Len(Tail(s)) = k - 1
      /\ \A i \in 1 .. k - 1 : Tail(s)[i] = s[i + 1]
  BY <1>2, <1>4, <1>5
<1>10. \A i \in 1 .. k - 1 : t[i] = Tail(s)[i] BY <1>8, <1>9
<1>11. t = Tail(s) BY <1>6, <1>9, <1>10, SameElements
<1>12. Q!TypeOK' /\ Q!Contents = s /\ Q!Contents' = t
  BY <1>1, <1>3, OfState DEF s, t
<1> QED BY <1>9, <1>11, <1>12 DEF Q!Promise!Pop

\* Writing through operator[] replaces one element and no other.
LEMMA WriteStep ==
    ASSUME Q!TypeOK, NEW e \in Elems, NEW i \in 0 .. Q!size - 1, Q!write(i, e)
    PROVE  Q!TypeOK' /\ Q!Promise!Replace(i + 1, e)
<1> DEFINE n == Len(buf)
           k == Count(buf, front, end)
           s == List(buf, front, end)
           t == List(buf', front, end)
           p == At(buf, front, i)
<1>1. Circle(buf, front, end) /\ front' = front /\ end' = end
      /\ buf' = [buf EXCEPT ![p] = e] /\ i \in 0 .. k - 1 /\ e \in Stored
  BY OfState DEF Q!write, Stored
<1>2. n \in Nat \ {0} /\ k \in 0 .. n - 1 /\ buf \in Seq(Stored)
  BY <1>1, CountIs DEF Circle
<1>3. i \in 0 .. n - 1 /\ i + 1 \in 1 .. k BY <1>1, <1>2
<1>4. p \in 1 .. n /\ (\A j \in 0 .. n - 1 : At(buf, front, j) \in 1 .. n)
      /\ \A j \in 0 .. n - 1 : At(buf, front, j) = p => j = i
  BY <1>1, <1>3, AtIs, AtApart
<1>5. buf' \in Seq(Stored) /\ Len(buf') = n
      /\ \A j \in 1 .. n : buf'[j] = IF j = p THEN e ELSE buf[j]
  BY <1>1, <1>2, <1>4, Written
<1>6. Circle(buf', front, end) /\ Count(buf', front, end) = k
      /\ \A j : At(buf', front, j) = At(buf, front, j)
  BY <1>1, <1>5 DEF Circle, Count, At
<1>7. s \in Seq(Stored) /\ Len(s) = k /\ \A j \in 1 .. k : s[j] = buf[At(buf, front, j - 1)]
  BY <1>1, ListIs
<1>8. t \in Seq(Stored) /\ Len(t) = k /\ \A j \in 1 .. k : t[j] = buf'[At(buf', front, j - 1)]
  BY <1>6, ListIs
<1> HIDE DEF n, k, s, t, p
<1>9. /\ [s EXCEPT ![i + 1] = e] \in Seq(Stored) /\ Len([s EXCEPT ![i + 1] = e]) = k
      /\ \A j \in 1 .. k : [s EXCEPT ![i + 1] = e][j] = IF j = i + 1 THEN e ELSE s[j]
  BY <1>1, <1>3, <1>7, Written
<1>10. \A j \in 1 .. k : t[j] = [s EXCEPT ![i + 1] = e][j]
  <2> TAKE j \in 1 .. k
  <2>1. j - 1 \in 0 .. n - 1 BY <1>2
  <2>2. t[j] = buf'[At(buf, front, j - 1)] BY <1>6, <1>8
  <2>3. CASE j = i + 1
    <3>1. j - 1 = i BY <2>3, <1>3
    <3>2. At(buf, front, j - 1) = p BY <3>1 DEF p
    <3> QED BY <2>2, <2>3, <3>2, <1>4, <1>5, <1>9
  <2>4. CASE j # i + 1
    <3>1. j - 1 # i BY <2>4, <1>2, <1>3
    <3>2. At(buf, front, j - 1) # p /\ At(buf, front, j - 1) \in 1 .. n BY <2>1, <3>1, <1>4
    <3> QED BY <2>2, <2>4, <3>2, <1>5, <1>7, <1>9
  <2> QED BY <2>3, <2>4
<1>11. t = [s EXCEPT ![i + 1] = e] BY <1>8, <1>9, <1>10, SameElements
<1>12. Q!TypeOK' /\ Q!Contents = s /\ Q!Contents' = t
  BY <1>1, <1>6, OfState DEF s, t
<1>13. i + 1 \in 1 .. Len(s) BY <1>3, <1>7
<1> QED BY <1>11, <1>12, <1>13 DEF Q!Promise!Replace

\* clear: an empty queue again.
LEMMA ClearStep ==
    ASSUME Q!clear
    PROVE Q!TypeOK' /\ Q!Promise!Clear
<1>1. Circle(buf', front', end') BY DEF Q!clear, Circle, Stored
<1>2. Count(buf', front', end') = 0 BY DEF Q!clear, Count
<1>3. List(buf', front', end') = <<>> BY <1>1, <1>2, ListIs
<1> QED BY <1>1, <1>3, OfState DEF Q!Promise!Clear

\* Every step of the buffer is a step of the queue it stands for.
LEMMA QueueStep == Q!TypeOK /\ [Q!Next]_(Q!vars) => Q!TypeOK' /\ [Q!Promise!Next]_(Q!Contents)
<1> SUFFICES ASSUME Q!TypeOK, [Q!Next]_(Q!vars) PROVE Q!TypeOK' /\ [Q!Promise!Next]_(Q!Contents)
  OBVIOUS
<1>1. CASE Q!Insert
  <2>1. PICK e \in Elems : Q!insert(e) BY <1>1 DEF Q!Insert
  <2> QED BY <2>1, InsertStep DEF Q!Promise!Next
<1>2. CASE Q!Write
  <2>1. PICK e \in Elems, i \in 0 .. Q!size - 1 : Q!write(i, e) BY <1>2 DEF Q!Write
  <2>2. Q!TypeOK' /\ Q!Promise!Replace(i + 1, e) BY <2>1, WriteStep
  <2>3. i + 1 \in 1 .. Len(Q!Contents) BY <2>2 DEF Q!Promise!Replace
  <2> QED BY <2>2, <2>3 DEF Q!Promise!Next
<1>3. CASE Q!pop BY <1>3, PopStep DEF Q!Promise!Next
<1>4. CASE Q!clear BY <1>4, ClearStep DEF Q!Promise!Next
<1>5. CASE UNCHANGED Q!vars
  <2>1. buf' = buf /\ front' = front /\ end' = end BY <1>5 DEF Q!vars
  <2>2. Q!TypeOK' /\ Q!Contents' = Q!Contents BY <2>1, OfState
  <2> QED BY <2>2
<1> QED BY <1>1, <1>2, <1>3, <1>4, <1>5 DEF Q!Next

-----------------------------------------------------------------------------
\* Vec: the arithmetic of the capacities, for every odd INT_MAX.

\* A vector that no exception has ended has room for its elements, and an even
\* capacity, which INT_MAX is not.
VecInv ==
    /\ cap \in Int /\ V!CapacitiesEven
    /\ ~thrown => sz \in Int /\ V!ElementsFit

\* A sum of two ints is its value, or has wrapped around once.
LEMMA WrapIs ==
    ASSUME V!IntMaxAssumption, NEW x \in Int, -INT_MAX - 1 <= x, x <= 2 * INT_MAX
    PROVE  V!Wrap(x) = IF x <= INT_MAX THEN x ELSE x - 2 * INT_MAX - 2
<1> DEFINE m == 2 * INT_MAX + 2
           y == x + INT_MAX + 1
<1>1. m \in Nat \ {0} /\ y \in Nat /\ y < 2 * m BY DEF V!IntMaxAssumption
<1>2. y % m = IF y < m THEN y ELSE y - m
  <2> HIDE DEF m, y
  <2> QED BY <1>1
<1> QED BY <1>2 DEF V!IntMaxAssumption, V!Wrap

\* Rounding down to an even number loses at most one.
LEMMA EvenIs ==
    ASSUME NEW x \in Int
    PROVE  V!Even(x) \in Int /\ V!Even(x) % 2 = 0 /\ x - 1 <= V!Even(x) /\ V!Even(x) <= x
BY DEF V!Even

\* What a vector that has to grow asks for is enough, unless it has overflowed.
LEMMA GrowthIs ==
    ASSUME V!IntMaxAssumption, NEW c \in 0 .. INT_MAX, c % 2 = 0, NEW min_cap \in 0 .. INT_MAX, c < min_cap
    PROVE  /\ V!Growth(c, min_cap) \in Int
           /\ V!Growth(c, min_cap) % 2 = 0
           /\ c + V!Growth(c, min_cap) >= 0 => c + V!Growth(c, min_cap) >= min_cap
<1> DEFINE x == V!Even(V!Wrap(V!Wrap(min_cap - c) + 1))
           y == V!Even((c \div 2) + 2)
<1>0. INT_MAX \in Nat /\ INT_MAX % 2 = 1 /\ INT_MAX >= 7 BY DEF V!IntMaxAssumption
<1>1. V!Wrap(min_cap - c) = min_cap - c BY <1>0, WrapIs
<1>2. V!Wrap(min_cap - c + 1) = IF min_cap - c + 1 <= INT_MAX THEN min_cap - c + 1
                              ELSE min_cap - c + 1 - 2 * INT_MAX - 2
  BY <1>0, WrapIs
<1>3. y \in Int /\ y % 2 = 0 /\ y >= 1 /\ y <= INT_MAX
  <2> DEFINE h == (c \div 2) + 2
  <2>1. h \in Int /\ h >= 2 /\ h <= INT_MAX BY <1>0
  <2> HIDE DEF h
  <2>2. V!Even(h) \in Int /\ V!Even(h) % 2 = 0 /\ h - 1 <= V!Even(h) /\ V!Even(h) <= h BY <2>1, EvenIs
  <2>3. V!Even(h) >= 1 /\ V!Even(h) <= INT_MAX BY <2>1, <2>2, <1>0
  <2> QED BY <2>2, <2>3 DEF h
<1>4. V!Growth(c, min_cap) = V!imax(x, y) BY DEF V!Growth
<1>5. CASE min_cap - c + 1 <= INT_MAX
  <2>1. x = V!Even(min_cap - c + 1) BY <1>1, <1>2, <1>5
  <2>2. x \in Int /\ x % 2 = 0 /\ x >= min_cap - c /\ x <= INT_MAX BY <2>1, <1>5, <1>0, EvenIs
  <2> HIDE DEF x, y
  <2>3. V!Wrap(y - x) = y - x BY <2>2, <1>3, <1>0, WrapIs
  <2>4. V!imax(x, y) = IF y - x < 0 THEN x ELSE y BY <2>3 DEF V!imax
  <2> QED BY <2>2, <2>4, <1>3, <1>4
<1>6. CASE min_cap - c + 1 > INT_MAX
  <2>1. c = 0 /\ min_cap = INT_MAX BY <1>6, <1>0
  <2>2. V!Wrap(V!Wrap(min_cap - c) + 1) = -INT_MAX - 1 BY <1>1, <1>2, <1>6, <2>1, <1>0
  <2>3. x = -INT_MAX - 1 BY <2>2, <1>0 DEF V!Even
  <2>4. y = 2 BY <2>1 DEF V!Even
  <2> HIDE DEF x, y
  <2>5. y - x = INT_MAX + 3 BY <2>3, <2>4, <1>0
  <2>6. V!Wrap(INT_MAX + 3) = INT_MAX + 3 - 2 * INT_MAX - 2 BY <1>0, WrapIs
  <2>7. V!Wrap(y - x) < 0 BY <2>5, <2>6, <1>0
  <2>8. V!Growth(c, min_cap) = -INT_MAX - 1 BY <2>3, <2>7, <1>4 DEF V!imax
  <2>9. (-INT_MAX - 1) % 2 = 0 /\ c + (-INT_MAX - 1) < 0 BY <2>1, <1>0
  <2> QED BY <2>8, <2>9, <1>0, <2>1
<1> HIDE DEF x, y
<1> QED BY <1>0, <1>5, <1>6

\* A reservation that does not throw gives room for what is asked.
LEMMA ReserveKeeps ==
    ASSUME V!IntMaxAssumption, VecInv, ~thrown, NEW min_cap \in 0 .. INT_MAX, NEW n \in 0 .. min_cap,
           V!Reserve(min_cap, n)
    PROVE  VecInv'
<1>1. cap \in 0 .. INT_MAX /\ cap % 2 = 0 /\ INT_MAX \in Nat
  BY DEF V!IntMaxAssumption, VecInv, V!CapacitiesEven, V!ElementsFit
<1>2. CASE cap >= min_cap
  <2>1. sz' = n /\ cap' = cap BY <1>2 DEF V!Reserve
  <2> QED BY <1>1, <1>2, <2>1 DEF VecInv, V!CapacitiesEven, V!ElementsFit
<1>3. CASE cap < min_cap
  <2> DEFINE add == V!Growth(cap, min_cap)
  <2>1. add \in Int /\ add % 2 = 0 /\ (cap + add >= 0 => cap + add >= min_cap)
    BY <1>1, <1>3, GrowthIs
  <2>2. \/ add <= INT_MAX - cap /\ cap + add >= 0 /\ cap' = cap + add /\ sz' = n
        \/ thrown' = TRUE /\ cap' = cap
        \/ thrown' = TRUE /\ cap' = cap + add
    BY <1>1, <1>3 DEF V!Reserve
  <2> HIDE DEF add
  <2>3. cap' \in Int /\ cap' % 2 = 0 BY <2>1, <2>2, <1>1
  <2>4. n \in Int /\ 0 <= n /\ n <= min_cap BY <1>1
  <2>5. ~thrown' => sz' \in Int /\ 0 <= sz' /\ sz' <= cap' /\ cap' <= INT_MAX
    BY <2>1, <2>2, <2>4, <1>1
  <2>6. V!CapacitiesEven' /\ (~thrown' => V!ElementsFit')
    BY <2>3, <2>5 DEF V!CapacitiesEven, V!ElementsFit
  <2> QED BY <2>3, <2>5, <2>6 DEF VecInv
<1> QED BY <1>1, <1>2, <1>3

\* An empty vec has no capacity.
LEMMA VecInit == V!Init => VecInv
BY VecConstants DEF V!IntMaxAssumption, V!Init, VecInv, V!CapacitiesEven, V!ElementsFit

\* push, growTo, capacity, shrink and clear of Vec.h.
LEMMA VecStep == V!IntMaxAssumption => (VecInv /\ [V!Next]_(V!vars) => VecInv')
<1> SUFFICES ASSUME V!IntMaxAssumption PROVE VecInv /\ [V!Next]_(V!vars) => VecInv'
  OBVIOUS
<1>2. VecInv /\ [V!Next]_(V!vars) => VecInv'
  <2> SUFFICES ASSUME VecInv, [V!Next]_(V!vars) PROVE VecInv'
    OBVIOUS
  <2>0. INT_MAX \in Nat /\ INT_MAX % 2 = 1 BY DEF V!IntMaxAssumption
  <2>1. CASE ~thrown /\ V!push
    <3>0. sz \in Nat /\ sz <= cap /\ cap \in 0 .. INT_MAX - 1
      BY <2>0, <2>1 DEF VecInv, V!CapacitiesEven, V!ElementsFit
    <3>1. CASE sz = cap
      <4>1. V!Wrap(sz + 1) = sz + 1 BY <3>0, <2>0, WrapIs
      <4>2. sz + 1 \in 0 .. INT_MAX BY <3>0, <2>0
      <4>3. V!Reserve(sz + 1, sz + 1) BY <2>1, <3>1, <4>1 DEF V!push
      <4> QED BY <2>1, <3>0, <4>2, <4>3, ReserveKeeps
    <3>2. CASE sz # cap
      <4>1. sz' = sz + 1 /\ cap' = cap BY <2>1, <3>2 DEF V!push
      <4> QED BY <4>1, <3>0, <3>2, <2>1 DEF VecInv, V!CapacitiesEven, V!ElementsFit
    <3> QED BY <3>1, <3>2
  <2>2. ASSUME NEW size \in 0 .. INT_MAX, V!growTo(size) PROVE VecInv'
    <3>1. CASE sz >= size
      BY <2>2, <3>1 DEF V!growTo, V!vars, VecInv, V!CapacitiesEven, V!ElementsFit
    <3>2. CASE ~(sz >= size)
      <4>1. ~thrown /\ V!Reserve(size, size) /\ size \in 0 .. size
        BY <2>0, <2>2, <3>2 DEF V!growTo
      <4> QED BY <4>1, ReserveKeeps
    <3> QED BY <3>1, <3>2
  <2>3. ASSUME NEW size \in 0 .. INT_MAX, V!capacity(size) PROVE VecInv'
    <3>1. ~thrown /\ V!Reserve(size, sz) BY <2>3 DEF V!capacity
    <3>2. CASE sz <= size
      <4>1. sz \in 0 .. size BY <3>1, <3>2 DEF VecInv, V!ElementsFit
      <4> QED BY <3>1, <4>1, ReserveKeeps
    <3>3. CASE sz > size
      <4>1. sz' = sz /\ cap' = cap
        BY <3>1, <3>3 DEF V!Reserve, VecInv, V!ElementsFit
      <4> QED BY <3>1, <4>1 DEF VecInv, V!CapacitiesEven, V!ElementsFit
    <3> QED BY <3>1, <3>2, <3>3 DEF VecInv
  <2>4. ASSUME NEW nelems \in 1 .. INT_MAX, V!shrink(nelems) PROVE VecInv'
    BY <2>4 DEF V!shrink, VecInv, V!CapacitiesEven, V!ElementsFit
  <2>5. ASSUME NEW dealloc \in BOOLEAN, V!clear(dealloc) PROVE VecInv'
    <3>1. ~thrown /\ sz' = 0 /\ (cap' = 0 \/ cap' = cap) BY <2>5 DEF V!clear
    <3>2. cap \in Int /\ cap % 2 = 0 /\ 0 <= cap /\ cap <= INT_MAX
      BY <3>1 DEF VecInv, V!CapacitiesEven, V!ElementsFit
    <3>3. cap' \in Int /\ cap' % 2 = 0 /\ 0 <= cap' /\ cap' <= INT_MAX
      <4>1. CASE cap' = 0 BY <4>1, <2>0
      <4>2. CASE cap' = cap BY <4>2, <3>2
      <4> QED BY <3>1, <4>1, <4>2
    <3>4. V!CapacitiesEven' BY <3>3 DEF V!CapacitiesEven
    <3>5. sz' \in Int /\ 0 <= sz' /\ sz' <= cap' BY <3>1, <3>3
    <3>6. V!ElementsFit' BY <3>3, <3>5 DEF V!ElementsFit
    <3> QED BY <3>3, <3>4, <3>5, <3>6 DEF VecInv
  <2>6. CASE UNCHANGED V!vars
    BY <2>6 DEF V!vars, VecInv, V!CapacitiesEven, V!ElementsFit
  <2> QED BY <2>1, <2>2, <2>3, <2>4, <2>5, <2>6 DEF V!Next, V!push
<1> QED BY <1>2

-----------------------------------------------------------------------------
\* ParallelSolving: the exchange of proved literals and the way to one answer.

Labels == {"created", "while", "import", "search", "finish", "tell", "model", "signal", "ended"}
Answers == {"l_True", "l_False", "l_Undef"}
Models == [Vars -> BOOLEAN]
FoundModels == [P!Kept -> BOOLEAN] \cup {P!NoModel}

ThreadsTyping ==
    /\ formula \in Formulas
    /\ pc \in [P!Threads -> Labels]
    /\ status \in [P!Threads -> Answers]
    /\ known \in [P!Threads -> SUBSET P!Lits]
    /\ unitLit \in Seq(P!Lits)
    /\ nextUnit \in [P!Threads -> Nat \ {0}]
    /\ bjobFinished \in BOOLEAN
    /\ assigns \in [P!Threads -> FoundModels]
    /\ model \in [P!Threads -> FoundModels \cup Models]

\* What is proved holds in every model, a literal is given to the others once,
\* and what a thread was given it has.
Units ==
    /\ \A t \in P!Threads : \A l \in known[t] : P!Implied(l)
    /\ \A i \in 1 .. Len(unitLit) : P!Implied(unitLit[i])
    /\ \A i, j \in 1 .. Len(unitLit) : unitLit[i][1] = unitLit[j][1] => i = j
    /\ \A t \in P!Threads : nextUnit[t] <= Len(unitLit) + 1
    /\ \A t \in P!Threads, i \in 1 .. Len(unitLit) :
          i < nextUnit[t] => unitLit[i][1] \in P!Assigned(t)

\* What a search has returned is right.
Statuses ==
    \A t \in P!Threads :
        /\ status[t] = "l_False" => formula = {}
        /\ status[t] = "l_True" => \E m \in formula : assigns[t] = P!Restricted(m)

\* One thread is the winner; it alone writes, and the others end after it has
\* become the winner.
Winner ==
    /\ \A t \in P!Threads :
          /\ pc[t] \in {"tell", "model"} => bjobFinished /\ jobFinishedBy = t
          /\ pc[t] \in {"signal", "ended"} => bjobFinished
          /\ pc[t] = "finish" /\ status[t] = "l_Undef" => bjobFinished
    /\ bjobFinished =>
          /\ jobFinishedBy \in P!Threads
          /\ pc[jobFinishedBy] \in {"tell", "model", "signal", "ended"}
          /\ status[jobFinishedBy] # "l_Undef"
          /\ pc[jobFinishedBy] # "tell" => jobStatus = status[jobFinishedBy]
          /\ pc[jobFinishedBy] \in {"signal", "ended"} /\ status[jobFinishedBy] = "l_True" =>
                main = "returned" \/ model[jobFinishedBy] = assigns[jobFinishedBy]

\* The model that is returned is one of the formula, the eliminated variables included.
Returned ==
    main = "returned" =>
        /\ result = jobStatus /\ \A t \in P!Threads : pc[t] = "ended"
        /\ result = "l_True" => solution \in formula

ThreadsInv == ThreadsTyping /\ Units /\ Statuses /\ Winner /\ Returned

-----------------------------------------------------------------------------

\* Before any thread has found something.
LEMMA ThreadsInit == P!Init => ThreadsInv
<1> SUFFICES ASSUME P!Init PROVE ThreadsInv
    OBVIOUS
<1>1. ThreadsTyping
  <2>1. /\ formula \in Formulas
        /\ pc \in [P!Threads -> Labels] /\ status \in [P!Threads -> Answers]
      BY DEF P!Init, Labels, Answers
  <2>2. known \in [P!Threads -> SUBSET P!Lits] /\ nextUnit \in [P!Threads -> Nat \ {0}]
      BY DEF P!Init
  <2>3. unitLit \in Seq(P!Lits)
      BY DEF P!Init
  <2>4. bjobFinished \in BOOLEAN
      BY DEF P!Init
  <2>5. /\ assigns \in [P!Threads -> FoundModels]
        /\ model \in [P!Threads -> FoundModels \cup Models]
      BY DEF P!Init, FoundModels
  <2> QED
      BY <2>1, <2>2, <2>3, <2>4, <2>5 DEF ThreadsTyping
<1>2. Units
    BY DEF P!Init, Units
<1>3. Statuses /\ Winner /\ Returned
    BY DEF P!Init, Statuses, Winner, Returned
<1> QED
    BY <1>1, <1>2, <1>3 DEF ThreadsInv

\* A model of the formula without the eliminated variables is one a search can
\* find.
LEMMA RestrictedFound ==
    ASSUME ThreadsTyping, NEW m \in formula
    PROVE  P!Restricted(m) \in FoundModels
<1>1. m \in [Vars -> BOOLEAN]
    BY ThreadsConstants DEF P!ParallelSolvingAssumption, ThreadsTyping
<1> QED
    BY <1>1 DEF P!Restricted, P!Kept, FoundModels

\* extendModel gives values to all variables, and makes of a part of a model of
\* the formula a model of it.
LEMMA ModelExtended ==
    ASSUME NEW n, NEW m \in P!extendModel(n), formula \in Formulas
    PROVE  /\ m \in Models
           /\ (\E k \in formula : n = P!Restricted(k)) => m \in formula
<1>1. formula \subseteq [Vars -> BOOLEAN]
    BY ThreadsConstants DEF P!ParallelSolvingAssumption
<1> DEFINE same == {k \in [Vars -> BOOLEAN] : P!Restricted(k) = n}
<1>2. m \in same /\ (same \cap formula # {} => m \in formula)
    BY DEF P!extendModel
<1>3. ASSUME NEW k \in formula, n = P!Restricted(k) PROVE k \in same \cap formula
    BY <1>1, <1>3
<1> QED
    BY <1>2, <1>3 DEF Models

\* The steps of a thread that change none of what the conjunct is about.
LEMMA TypingKept == ThreadsInv /\ [P!Next]_(P!vars) => ThreadsTyping'
<1> SUFFICES ASSUME ThreadsInv, [P!Next]_(P!vars) PROVE ThreadsTyping'
    OBVIOUS
<1> USE DEF ThreadsInv, ThreadsTyping, P!goto, P!shared
<1>0. UNCHANGED eliminated => FoundModels' = FoundModels
    BY DEF FoundModels, P!Kept
<1>1. ASSUME NEW t \in P!Threads, P!While(t) PROVE ThreadsTyping'
    BY <1>0, <1>1 DEF P!While, Labels
<1>2. ASSUME NEW t \in P!Threads, P!ImportUnary(t) PROVE ThreadsTyping'
  <2>1. CASE P!unitsLeft(t)
    <3>1. unitLit[nextUnit[t]] \in P!Lits
        BY <2>1 DEF P!unitsLeft
    <3>2. known' \in [P!Threads -> SUBSET P!Lits]
      <4>1. CASE unitLit[nextUnit[t]][1] \in P!Assigned(t)
          BY <1>2, <2>1, <4>1 DEF P!ImportUnary, P!getUnary
      <4>2. CASE unitLit[nextUnit[t]][1] \notin P!Assigned(t)
        <5>1. known' = [known EXCEPT ![t] = known[t] \cup {unitLit[nextUnit[t]]}]
            BY <1>2, <2>1, <4>2 DEF P!ImportUnary, P!getUnary
        <5> QED
            BY <3>1, <5>1
      <4> QED
          BY <4>1, <4>2
    <3>3. nextUnit' \in [P!Threads -> Nat \ {0}]
        BY <1>2, <2>1 DEF P!ImportUnary, P!getUnary
    <3> QED
        BY <1>0, <1>2, <2>1, <3>2, <3>3 DEF P!ImportUnary
  <2>2. CASE ~P!unitsLeft(t)
      BY <1>0, <1>2, <2>2 DEF P!ImportUnary, Labels
  <2> QED
      BY <2>1, <2>2
<1>3. ASSUME NEW t \in P!Threads, NEW l \in P!Lits, P!LearnUnary(t, l) PROVE ThreadsTyping'
  <2>1. unitLit' \in Seq(P!Lits)
      BY <1>3 DEF P!LearnUnary, P!addLearnt
  <2>2. known' \in [P!Threads -> SUBSET P!Lits]
      BY <1>3 DEF P!LearnUnary
  <2> QED
      BY <1>0, <1>3, <2>1, <2>2 DEF P!LearnUnary, Labels
<1>4. ASSUME NEW t \in P!Threads, NEW s \in Answers, P!SearchReturns(t, s) PROVE ThreadsTyping'
  <2>1. FoundModels' = FoundModels
      BY <1>4 DEF P!SearchReturns, FoundModels, P!Kept
  <2>2. assigns' \in [P!Threads -> FoundModels]
    <3>1. CASE s = "l_True"
      <4>1. PICK m \in formula : assigns' = [assigns EXCEPT ![t] = P!Restricted(m)]
          BY <1>4, <3>1 DEF P!SearchReturns
      <4>2. P!Restricted(m) \in FoundModels
          BY RestrictedFound, <4>1
      <4> QED
          BY <4>1, <4>2
    <3>2. CASE s # "l_True"
        BY <1>4, <3>2 DEF P!SearchReturns
    <3> QED
        BY <3>1, <3>2
  <2> QED
      BY <1>4, <2>1, <2>2 DEF P!SearchReturns, Labels
<1>5. ASSUME NEW t \in P!Threads, P!IFinished(t) PROVE ThreadsTyping'
    BY <1>0, <1>5 DEF P!IFinished, Labels
<1>6. ASSUME NEW t \in P!Threads, P!NotFinished(t) PROVE ThreadsTyping'
    BY <1>0, <1>6 DEF P!NotFinished, Labels
<1>7. ASSUME NEW t \in P!Threads, P!TellStatus(t) PROVE ThreadsTyping'
    BY <1>0, <1>7 DEF P!TellStatus, Labels
<1>8. ASSUME NEW t \in P!Threads, P!CopyModel(t) PROVE ThreadsTyping'
    BY <1>0, <1>8 DEF P!CopyModel, Labels
<1>9. ASSUME NEW t \in P!Threads, P!Signal(t) PROVE ThreadsTyping'
    BY <1>0, <1>9 DEF P!Signal, Labels
<1>10. ASSUME NEW t \in P!Threads, P!Launch(t) PROVE ThreadsTyping'
    BY <1>0, <1>10 DEF P!Launch, Labels
<1>11. CASE P!Wait \/ P!TimedOut \/ P!WakesUp
    BY <1>0, <1>11 DEF P!Wait, P!TimedOut, P!WakesUp
<1>12. CASE P!Join
  <2>1. UNCHANGED <<formula, eliminated, pc, status, known, unitLit, nextUnit, bjobFinished, assigns>>
      BY <1>12 DEF P!Join
  <2>2. model' \in [P!Threads -> FoundModels \cup Models]
    <3>1. CASE jobStatus = "l_True"
      <4>1. solution' \in Models /\ model' = [model EXCEPT ![jobFinishedBy] = solution']
          BY <1>12, <3>1, ModelExtended DEF P!Join
      <4> QED
          BY <4>1
    <3>2. CASE jobStatus # "l_True"
        BY <1>12, <3>2 DEF P!Join
    <3> QED
        BY <3>1, <3>2
  <2> QED
      BY <1>0, <2>1, <2>2
<1>13. CASE UNCHANGED P!vars
    BY <1>0, <1>13 DEF P!vars
<1> QED
    BY <1>1, <1>2, <1>3, <1>4, <1>5, <1>6, <1>7, <1>8, <1>9, <1>10, <1>11, <1>12, <1>13
    DEF P!Next, P!Main, P!Thread, Answers

\* What a thread learns is implied, and it has kept all it has read.
LEMMA UnitsKept == ThreadsInv /\ [P!Next]_(P!vars) => Units'
<1> SUFFICES ASSUME ThreadsInv, [P!Next]_(P!vars) PROVE Units'
    OBVIOUS
<1> USE DEF ThreadsInv
<1>1. ASSUME UNCHANGED <<formula, known, unitLit, nextUnit>> PROVE Units'
    BY <1>1 DEF Units, P!Implied, P!Assigned
<1>2. ASSUME NEW t \in P!Threads, P!ImportUnary(t), P!unitsLeft(t) PROVE Units'
  <2> DEFINE l == unitLit[nextUnit[t]]
  <2>1. /\ UNCHANGED <<formula, unitLit>>
        /\ nextUnit' = [nextUnit EXCEPT ![t] = nextUnit[t] + 1]
        /\ known' = IF l[1] \in P!Assigned(t) THEN known ELSE [known EXCEPT ![t] = known[t] \cup {l}]
      BY <1>2 DEF P!ImportUnary, P!getUnary
  <2>2. nextUnit[t] \in 1 .. Len(unitLit) /\ l \in P!Lits /\ P!Implied(l)
      BY <1>2 DEF P!unitsLeft, ThreadsTyping, Units
  <2>3. \A u \in P!Threads : known[u] \subseteq known'[u] /\ known'[u] \subseteq known[u] \cup {l}
      BY <2>1 DEF ThreadsTyping
  <2>4. \A u \in P!Threads : P!Assigned(u) \subseteq P!Assigned(u)'
      BY <2>3 DEF P!Assigned
  <2>5. l[1] \in P!Assigned(t)'
    <3>1. CASE l[1] \in P!Assigned(t)
        BY <2>4, <3>1
    <3>2. CASE l[1] \notin P!Assigned(t)
      <4>1. l \in known'[t]
          BY <2>1, <3>2 DEF ThreadsTyping
      <4> QED
          BY <4>1 DEF P!Assigned
    <3> QED
        BY <3>1, <3>2
  <2>6. \A u \in P!Threads : \A k \in known'[u] : P!Implied(k)'
      BY <2>1, <2>2, <2>3 DEF Units, P!Implied
  <2>7. \A u \in P!Threads : nextUnit'[u] <= Len(unitLit) + 1
      BY <2>1, <2>2 DEF ThreadsTyping, Units
  <2>8. ASSUME NEW u \in P!Threads, NEW i \in 1 .. Len(unitLit), i < nextUnit'[u]
        PROVE  unitLit[i][1] \in P!Assigned(u)'
    <3>1. CASE i < nextUnit[u]
        BY <2>4, <2>8, <3>1 DEF Units
    <3>2. CASE ~(i < nextUnit[u])
      <4>1. u = t /\ i = nextUnit[t]
          BY <2>1, <2>8, <3>2 DEF ThreadsTyping
      <4> QED
          BY <2>5, <4>1
    <3> QED
        BY <3>1, <3>2
  <2> QED
      BY <2>1, <2>6, <2>7, <2>8 DEF Units, P!Implied
<1>3. ASSUME NEW t \in P!Threads, NEW l \in P!Lits, P!LearnUnary(t, l) PROVE Units'
  <2>1. /\ UNCHANGED <<formula, nextUnit>> /\ P!Implied(l)
        /\ known' = [known EXCEPT ![t] = known[t] \cup {l}]
        /\ P!addLearnt(l)
      BY <1>3 DEF P!LearnUnary
  <2>2. \A u \in P!Threads : known[u] \subseteq known'[u] /\ known'[u] \subseteq known[u] \cup {l}
      BY <2>1 DEF ThreadsTyping
  <2>3. \A u \in P!Threads : P!Assigned(u) \subseteq P!Assigned(u)'
      BY <2>2 DEF P!Assigned
  <2>4. \A u \in P!Threads : \A k \in known'[u] : P!Implied(k)'
      BY <2>1, <2>2 DEF Units, P!Implied
  <2>5. CASE \E i \in DOMAIN unitLit : unitLit[i][1] = l[1]
    <3>1. unitLit' = unitLit
        BY <2>1, <2>5 DEF P!addLearnt
    <3> QED
        BY <2>1, <2>3, <2>4, <3>1 DEF Units, P!Implied
  <2>6. CASE ~\E i \in DOMAIN unitLit : unitLit[i][1] = l[1]
    <3>1. unitLit' = Append(unitLit, l)
        BY <2>1, <2>6 DEF P!addLearnt
    <3>2. /\ Len(unitLit') = Len(unitLit) + 1 /\ Len(unitLit) \in Nat
          /\ \A i \in 1 .. Len(unitLit) : unitLit'[i] = unitLit[i]
          /\ unitLit'[Len(unitLit) + 1] = l
        BY <3>1 DEF ThreadsTyping
    <3>3. \A i \in 1 .. Len(unitLit) : unitLit[i][1] # l[1]
        BY <2>6 DEF ThreadsTyping
    <3>4. \A i \in 1 .. Len(unitLit') : i \in 1 .. Len(unitLit) \/ i = Len(unitLit) + 1
        BY <3>2
    <3>5. \A i \in 1 .. Len(unitLit') : \A m \in formula' : m[unitLit'[i][1]] = unitLit'[i][2]
        BY <2>1, <3>2, <3>4 DEF Units, P!Implied
    <3>6. \A i, j \in 1 .. Len(unitLit') : unitLit'[i][1] = unitLit'[j][1] => i = j
        BY <3>2, <3>3, <3>4 DEF Units
    <3>7. \A u \in P!Threads : nextUnit'[u] <= Len(unitLit') + 1
        BY <2>1, <3>2 DEF Units, ThreadsTyping
    <3>8. \A u \in P!Threads, i \in 1 .. Len(unitLit') :
             i < nextUnit'[u] => i \in 1 .. Len(unitLit) /\ i < nextUnit[u]
        BY <2>1, <3>2, <3>4 DEF Units, ThreadsTyping
    <3>9. \A u \in P!Threads, i \in 1 .. Len(unitLit') :
             i < nextUnit'[u] => unitLit'[i][1] \in P!Assigned(u)'
        BY <2>3, <3>2, <3>8 DEF Units
    <3> QED
        BY <2>4, <3>5, <3>6, <3>7, <3>9 DEF Units, P!Implied
  <2> QED
      BY <2>5, <2>6
<1>4. ASSUME NEW t \in P!Threads, P!ImportUnary(t), ~P!unitsLeft(t) PROVE Units'
    BY <1>1, <1>4 DEF P!ImportUnary
<1>5. ASSUME NEW t \in P!Threads,
             \/ P!While(t) \/ \E s \in Answers : P!SearchReturns(t, s)
             \/ P!IFinished(t) \/ P!NotFinished(t) \/ P!TellStatus(t) \/ P!CopyModel(t) \/ P!Signal(t)
             \/ P!Launch(t)
      PROVE  Units'
    BY <1>1, <1>5
    DEF P!While, P!SearchReturns, P!IFinished, P!NotFinished, P!TellStatus, P!CopyModel, P!Signal, P!Launch, P!shared
<1>6. CASE P!Wait \/ P!TimedOut \/ P!WakesUp \/ P!Join \/ UNCHANGED P!vars
    BY <1>1, <1>6 DEF P!Wait, P!TimedOut, P!WakesUp, P!Join, P!shared, P!vars
<1> QED
    BY <1>2, <1>3, <1>4, <1>5, <1>6 DEF P!Next, P!Main, P!Thread, Answers

\* A search that returns an answer has proved it or has a model.
LEMMA StatusesKept == ThreadsInv /\ [P!Next]_(P!vars) => Statuses'
<1> SUFFICES ASSUME ThreadsInv, [P!Next]_(P!vars) PROVE Statuses'
    OBVIOUS
<1> USE DEF ThreadsInv
<1>1. ASSUME UNCHANGED <<formula, eliminated, status, assigns>> PROVE Statuses'
    BY <1>1 DEF Statuses, P!Restricted, P!Kept
<1>2. ASSUME NEW t \in P!Threads, NEW s \in Answers, P!SearchReturns(t, s) PROVE Statuses'
  <2>1. /\ formula' = formula /\ status' = [status EXCEPT ![t] = s]
        /\ s = "l_False" => formula = {}
        /\ \A m : P!Restricted(m)' = P!Restricted(m)
      BY <1>2 DEF P!SearchReturns, P!Restricted, P!Kept
  <2>2. CASE s = "l_True"
    <3>1. PICK m \in formula : assigns' = [assigns EXCEPT ![t] = P!Restricted(m)]
        BY <1>2, <2>2 DEF P!SearchReturns
    <3> QED
        BY <2>1, <2>2, <3>1 DEF Statuses, ThreadsTyping
  <2>3. CASE s # "l_True"
    <3>1. assigns' = assigns
        BY <1>2, <2>3 DEF P!SearchReturns
    <3> QED
        BY <2>1, <2>3, <3>1 DEF Statuses, ThreadsTyping
  <2> QED
      BY <2>2, <2>3
<1>3. ASSUME NEW t \in P!Threads,
             \/ P!While(t) \/ P!ImportUnary(t) \/ \E l \in P!Lits : P!LearnUnary(t, l)
             \/ P!IFinished(t) \/ P!NotFinished(t) \/ P!TellStatus(t) \/ P!CopyModel(t) \/ P!Signal(t)
             \/ P!Launch(t)
      PROVE  Statuses'
    BY <1>1, <1>3
    DEF P!While, P!ImportUnary, P!LearnUnary, P!IFinished, P!NotFinished, P!TellStatus, P!CopyModel, P!Signal, P!Launch
<1>4. CASE P!Wait \/ P!TimedOut \/ P!WakesUp \/ P!Join \/ UNCHANGED P!vars
    BY <1>1, <1>4 DEF P!Wait, P!TimedOut, P!WakesUp, P!Join, P!vars
<1> QED
    BY <1>2, <1>3, <1>4 DEF P!Next, P!Main, P!Thread, Answers

\* A step of a thread that is not at "finish", "tell" or "model", and does not
\* touch what the winner has written.
LEMMA WinnerKept == ThreadsInv /\ [P!Next]_(P!vars) => Winner'
<1> SUFFICES ASSUME ThreadsInv, [P!Next]_(P!vars) PROVE Winner'
    OBVIOUS
<1> USE DEF ThreadsInv, ThreadsTyping, P!goto, P!shared
<1>1. ASSUME NEW t \in P!Threads, P!While(t) PROVE Winner'
    BY <1>1 DEF P!While, Winner, P!jobFinished
<1>2. ASSUME NEW t \in P!Threads, P!ImportUnary(t) PROVE Winner'
  <2>1. UNCHANGED <<status, bjobFinished, jobFinishedBy, jobStatus, assigns, model, main>>
      BY <1>2 DEF P!ImportUnary
  <2>2. pc[t] = "import" /\ (pc' = pc \/ pc' = [pc EXCEPT ![t] = "search"])
      BY <1>2 DEF P!ImportUnary
  <2> QED
      BY <2>1, <2>2 DEF Winner
<1>3. ASSUME NEW t \in P!Threads, NEW l \in P!Lits, P!LearnUnary(t, l) PROVE Winner'
    BY <1>3 DEF P!LearnUnary, Winner
<1>4. ASSUME NEW t \in P!Threads, NEW s \in Answers, P!SearchReturns(t, s) PROVE Winner'
  <2>1. /\ UNCHANGED <<bjobFinished, jobFinishedBy, jobStatus, model, main>>
        /\ pc[t] = "search" /\ pc' = [pc EXCEPT ![t] = "while"]
        /\ \A u \in P!Threads \ {t} : status'[u] = status[u] /\ assigns'[u] = assigns[u]
      BY <1>4 DEF P!SearchReturns
  <2>2. bjobFinished => jobFinishedBy \in P!Threads \ {t}
      BY <2>1 DEF Winner
  <2> QED
      BY <2>1, <2>2 DEF Winner
<1>5. ASSUME NEW t \in P!Threads, P!IFinished(t) PROVE Winner'
  <2>1. CASE bjobFinished
      BY <1>5, <2>1 DEF P!IFinished, Winner
  <2>2. CASE ~bjobFinished
      BY <1>5, <2>2 DEF P!IFinished, Winner
  <2> QED
      BY <2>1, <2>2
<1>6. ASSUME NEW t \in P!Threads, P!NotFinished(t) PROVE Winner'
    BY <1>6 DEF P!NotFinished, Winner
<1>7. ASSUME NEW t \in P!Threads, P!TellStatus(t) PROVE Winner'
    BY <1>7 DEF P!TellStatus, Winner
<1>8. ASSUME NEW t \in P!Threads, P!CopyModel(t) PROVE Winner'
    BY <1>8 DEF P!CopyModel, Winner
<1>9. ASSUME NEW t \in P!Threads, P!Signal(t) PROVE Winner'
    BY <1>9 DEF P!Signal, Winner
<1>10. ASSUME NEW t \in P!Threads, P!Launch(t) PROVE Winner'
    BY <1>10 DEF P!Launch, Winner
<1>11. CASE P!Wait \/ P!TimedOut \/ P!WakesUp \/ P!Join \/ UNCHANGED P!vars
    BY <1>11 DEF P!Wait, P!TimedOut, P!WakesUp, P!Join, P!vars, Winner
<1> QED
    BY <1>1, <1>2, <1>3, <1>4, <1>5, <1>6, <1>7, <1>8, <1>9, <1>10, <1>11
    DEF P!Next, P!Main, P!Thread, Answers

\* The main thread returns the result when every thread has ended.
LEMMA ReturnedKept == ThreadsInv /\ [P!Next]_(P!vars) => Returned'
<1> SUFFICES ASSUME ThreadsInv, [P!Next]_(P!vars) PROVE Returned'
    OBVIOUS
<1> USE DEF ThreadsInv
<1>1. ASSUME NEW t \in P!Threads, pc[t] # "ended", main' = main \/ main' # "returned" PROVE Returned'
    BY <1>1 DEF Returned
<1>2. ASSUME NEW t \in P!Threads,
             \/ P!While(t) \/ P!ImportUnary(t) \/ \E l \in P!Lits : P!LearnUnary(t, l)
             \/ \E s \in Answers : P!SearchReturns(t, s)
             \/ P!IFinished(t) \/ P!NotFinished(t) \/ P!TellStatus(t) \/ P!CopyModel(t)
      PROVE  Returned'
    BY <1>1, <1>2
    DEF P!While, P!ImportUnary, P!LearnUnary, P!SearchReturns, P!IFinished, P!NotFinished, P!TellStatus, P!CopyModel
<1>3. ASSUME NEW t \in P!Threads, P!Signal(t) PROVE Returned'
    BY <1>1, <1>3 DEF P!Signal
<1>4. ASSUME NEW t \in P!Threads, P!Launch(t) PROVE Returned'
    BY <1>1, <1>4 DEF P!Launch
<1>5. CASE P!Wait \/ P!TimedOut \/ P!WakesUp
    BY <1>5 DEF P!Wait, P!TimedOut, P!WakesUp, Returned
<1>6. CASE P!Join
  <2>1. /\ \A t \in P!Threads : pc[t] = "ended"
        /\ UNCHANGED <<formula, pc, jobStatus>> /\ result' = jobStatus /\ main = "join"
      BY <1>6 DEF P!Join, P!shared
  <2>2. ASSUME jobStatus = "l_True" PROVE solution' \in formula
    <3>1. 1 \in P!Threads
        BY ThreadsConstants DEF P!ParallelSolvingAssumption, P!Threads
    <3>2. bjobFinished /\ jobFinishedBy \in P!Threads /\ pc[jobFinishedBy] = "ended"
        BY <2>1, <3>1 DEF Winner
    <3>3. status[jobFinishedBy] = "l_True" /\ model[jobFinishedBy] = assigns[jobFinishedBy]
        BY <2>1, <2>2, <3>2 DEF Winner
    <3>4. \E m \in formula : model[jobFinishedBy] = P!Restricted(m)
        BY <3>2, <3>3 DEF Statuses
    <3>5. solution' \in P!extendModel(model[jobFinishedBy])
        BY <1>6, <2>2 DEF P!Join
    <3> QED
        BY <3>4, <3>5, ModelExtended DEF ThreadsTyping
  <2> QED
      BY <2>1, <2>2 DEF Returned
<1>7. CASE UNCHANGED P!vars
    BY <1>7 DEF P!vars, P!shared, Returned
<1> QED
    BY <1>2, <1>3, <1>4, <1>5, <1>6, <1>7 DEF P!Next, P!Main, P!Thread, Answers

\* What the threads do keeps all of it.
LEMMA ThreadsStep == ThreadsInv /\ [P!Next]_(P!vars) => ThreadsInv'
BY TypingKept, UnitsKept, StatusesKept, WinnerKept, ReturnedKept DEF ThreadsInv

\* When solve() has returned, the winner's status is the answer, and the model
\* is one of the formula.
LEMMA ResultFollows == ThreadsInv => P!ResultRight
<1> SUFFICES ASSUME ThreadsInv, main = "returned"
             PROVE  IF formula = {} THEN result = "l_False"
                    ELSE result = "l_True" /\ solution \in formula
    BY DEF P!ResultRight
<1>1. 1 \in P!Threads
    BY ThreadsConstants DEF P!ParallelSolvingAssumption, P!Threads
<1>2. bjobFinished /\ jobFinishedBy \in P!Threads /\ pc[jobFinishedBy] = "ended"
    BY <1>1 DEF ThreadsInv, Returned, Winner
<1>3. result = status[jobFinishedBy] /\ status[jobFinishedBy] \in {"l_True", "l_False"}
    BY <1>2 DEF ThreadsInv, Returned, Winner, ThreadsTyping, Answers
<1>4. CASE status[jobFinishedBy] = "l_True"
    BY <1>2, <1>3, <1>4 DEF ThreadsInv, Returned, Statuses
<1>5. CASE status[jobFinishedBy] = "l_False"
    BY <1>2, <1>3, <1>5 DEF ThreadsInv, Statuses
<1> QED
    BY <1>3, <1>4, <1>5

\* So every unit literal exchanged is implied.
LEMMA UnitsFollow == ThreadsInv => P!UnitsSound
<1> SUFFICES ASSUME ThreadsInv PROVE P!UnitsSound
    OBVIOUS
<1>1. DOMAIN unitLit = 1 .. Len(unitLit)
    BY DEF ThreadsInv, ThreadsTyping
<1> QED
    BY <1>1 DEF ThreadsInv, Units, P!UnitsSound

-----------------------------------------------------------------------------
\* ClausesBuffer: the circular buffer of clauses, for any number of threads, any
\* size that holds each clause, and clauses of any length.

BufferIndex == 0 .. bufferSize - 1
BufferClause == [origin : B!Threads, lits : Seq(Nat)]

\* The words of clause i.
WordCount(i) == Len(pushedClauses[i].lits) + B!headerSize

BufferTyping ==
    /\ whenFullRemoveOlder \in BOOLEAN
    /\ words \in [BufferIndex -> Int]
    /\ head \in BufferIndex /\ tail \in BufferIndex /\ thislast \in BufferIndex
    /\ wordsUsed \in Nat
    /\ lastOfThread \in [B!Threads -> BufferIndex]
    /\ op \in {"free", "push", "pushRemoves", "get", "getRemoves"}
    /\ op # "free" => threadId \in B!Threads
    /\ op \in {"push", "pushRemoves"} => clause \in SharedClauses
    /\ pushedClauses \in Seq(BufferClause)
    /\ starts \in Seq(Nat) /\ Len(starts) = Len(pushedClauses) + 1
    /\ passed \in [B!Threads -> 0 .. Len(pushedClauses)]
    /\ removedClauses \in 0 .. Len(pushedClauses)

\* The clauses lie behind each other, without a gap.
ClausesApart ==
    \A i \in 1 .. Len(pushedClauses) :
        /\ starts[i + 1] = starts[i] + WordCount(i)
        /\ \A j \in i + 1 .. Len(pushedClauses) + 1 : starts[i] + WordCount(i) <= starts[j]

\* place is before clause b (or at the end), which no clause that thread t has
\* still to get comes before.
PlaceBefore(t, place, b) ==
    /\ b \in removedClauses + 1 .. Len(pushedClauses) + 1
    /\ B!nextIndex(place) = B!Place(starts[b])
    /\ passed[t] < b
    /\ \A i \in removedClauses + 1 .. b - 1 : passed[t] < i => pushedClauses[i].origin = t

\* The places of the threads are between clauses.  The one that is removing what
\* it has read gets its place at the end.
PlacesRight ==
    /\ \A t \in B!Threads :
          ~(op = "getRemoves" /\ t = threadId) => \E b \in Nat : PlaceBefore(t, lastOfThread[t], b)
    /\ op = "get" => \E b \in Nat : PlaceBefore(threadId, thislast, b)
    /\ op = "getRemoves" =>
          \/ passed[threadId] <= removedClauses
          \/ passed[threadId] = removedClauses + 1 /\ B!Unread(removedClauses + 1) = {}

\* Clauses nobody was asked about are removed with -removeolder only.
RemovalAllowed ==
    /\ op = "push" => whenFullRemoveOlder \/ ~B!Full(clause)
    /\ op = "pushRemoves" => whenFullRemoveOlder

BufferInv ==
    /\ BufferTyping
    /\ ClausesApart
    /\ B!WordsExact
    /\ PlacesRight
    /\ RemovalAllowed
    /\ B!NothingLost
    /\ B!DeliveredInOrder

\* The constants of ClausesBuffer.
LEMMA BufferSizes ==
    /\ nbThreads \in Nat /\ nbThreads > 1 /\ bufferSize \in Nat /\ bufferSize > 0
    /\ \A c \in SharedClauses : c \in Seq(Nat) /\ Len(c) + 3 < bufferSize
BY BufferConstants DEF B!ClausesBufferAssumption, B!headerSize

\* Going forward from one place of the ring to another.
LEMMA AddIndex ==
    ASSUME NEW o \in BufferIndex, NEW d \in BufferIndex
    PROVE  /\ B!addIndex(o, d) \in BufferIndex
           /\ B!addIndex(o, 0) = o
           /\ B!nextIndex(o) \in BufferIndex
           /\ B!nextIndex(B!addIndex(o, d)) = B!addIndex(B!nextIndex(o), d)
           /\ d > 0 => B!addIndex(o, d) = B!addIndex(B!nextIndex(o), d - 1)
           /\ \A e \in BufferIndex : B!addIndex(o, d) = B!addIndex(o, e) => d = e
           /\ \A e \in Nat : d + e < bufferSize => B!addIndex(B!addIndex(o, d), e) = B!addIndex(o, d + e)
BY BufferSizes DEF BufferIndex, B!addIndex, B!nextIndex

\* No two places have the same next one.
LEMMA NextIndex ==
    ASSUME NEW o \in BufferIndex, NEW p \in BufferIndex, B!nextIndex(o) = B!nextIndex(p)
    PROVE  o = p
BY BufferSizes DEF BufferIndex, B!nextIndex

\* A clause as it is written: its header, then its literals.
LEMMA WordList ==
    ASSUME NEW a, NEW b, NEW c, NEW s \in Seq(Nat)
    PROVE  LET w == <<a, b, c>> \o s
           IN /\ Len(w) = Len(s) + 3
              /\ w[1] = a /\ w[2] = b /\ w[3] = c
              /\ \A k \in 1 .. Len(s) : w[k + 3] = s[k]
              /\ \A k \in 4 .. Len(s) + 3 : w[k] = s[k - 3]
OBVIOUS

\* What is known of a clause and of where it starts.
LEMMA ClauseFacts ==
    ASSUME BufferTyping, ClausesApart
    PROVE  /\ Len(pushedClauses) \in Nat
           /\ \A i \in 1 .. Len(pushedClauses) :
                 /\ pushedClauses[i].origin \in B!Threads
                 /\ pushedClauses[i].lits \in Seq(Nat)
                 /\ WordCount(i) \in Nat /\ WordCount(i) = Len(pushedClauses[i].lits) + 3
                 /\ WordCount(i) >= 3
           /\ \A i \in 1 .. Len(pushedClauses) + 1 : starts[i] \in Nat
           /\ \A i, j \in 1 .. Len(pushedClauses) + 1 : i <= j => starts[i] <= starts[j]
           /\ \A i, j \in 1 .. Len(pushedClauses) + 1 : i < j => starts[i] + 3 <= starts[j]
<1>1. Len(pushedClauses) \in Nat
    BY DEF BufferTyping
<1>2. \A i \in 1 .. Len(pushedClauses) : pushedClauses[i] \in BufferClause
    BY DEF BufferTyping
<1>3. \A i \in 1 .. Len(pushedClauses) :
         /\ pushedClauses[i].origin \in B!Threads
         /\ pushedClauses[i].lits \in Seq(Nat)
    BY <1>2 DEF BufferClause
<1>4. \A i \in 1 .. Len(pushedClauses) :
         /\ WordCount(i) \in Nat /\ WordCount(i) = Len(pushedClauses[i].lits) + 3
         /\ WordCount(i) >= 3
    BY <1>3 DEF WordCount, B!headerSize
<1>5. \A i \in 1 .. Len(pushedClauses) + 1 : starts[i] \in Nat
    BY DEF BufferTyping
<1>6. \A i, j \in 1 .. Len(pushedClauses) + 1 : i < j => starts[i] + 3 <= starts[j]
  <2> SUFFICES ASSUME NEW i \in 1 .. Len(pushedClauses) + 1, NEW j \in 1 .. Len(pushedClauses) + 1, i < j
               PROVE  starts[i] + 3 <= starts[j]
      OBVIOUS
  <2>1. i \in 1 .. Len(pushedClauses) /\ j \in i + 1 .. Len(pushedClauses) + 1
      BY <1>1
  <2>2. starts[i] + WordCount(i) <= starts[j]
      BY <2>1 DEF ClausesApart
  <2>3. starts[i] \in Nat /\ starts[j] \in Nat /\ WordCount(i) \in Nat /\ WordCount(i) >= 3
      BY <1>4, <1>5, <2>1
  <2> QED
      BY <2>2, <2>3
<1>7. \A i, j \in 1 .. Len(pushedClauses) + 1 : i <= j => starts[i] <= starts[j]
    BY <1>1, <1>5, <1>6
<1> QED
    BY <1>1, <1>3, <1>4, <1>5, <1>6, <1>7

\* ClausesBuffer counts as everybody else.
LEMMA SameCardinality == \A S : B!Cardinality(S) = Cardinality(S)
BY DEF B!Cardinality, Cardinality, B!IsFiniteSet, IsFiniteSet

\* The readers that are left can be counted.
LEMMA UnreadCounted ==
    ASSUME NEW t, NEW S \in SUBSET B!Threads
    PROVE  /\ IsFiniteSet(S) /\ Cardinality(S) \in Nat
           /\ Cardinality(S) = 0 <=> S = {}
           /\ t \in S => Cardinality(S \ {t}) = Cardinality(S) - 1
           /\ t \in B!Threads => Cardinality(B!Threads \ {t}) = nbThreads - 1
<1>1. IsFiniteSet(B!Threads) /\ Cardinality(B!Threads) = nbThreads
    BY FS_Interval, BufferSizes DEF B!Threads
<1>2. IsFiniteSet(S)
    BY <1>1, FS_Subset
<1> QED
    BY <1>1, <1>2, FS_CardinalityType, FS_EmptySet, FS_RemoveElement

\* A clause in the buffer: its size, its counter, its origin, its literals.
LEMMA WordsCounted ==
    ASSUME BufferTyping, ClausesApart, NEW i \in 1 .. Len(pushedClauses)
    PROVE  /\ Len(B!Words(i)) = WordCount(i)
           /\ B!Words(i)[1] = Len(pushedClauses[i].lits) /\ B!Words(i)[2] = Cardinality(B!Unread(i))
           /\ B!Words(i)[3] = pushedClauses[i].origin
           /\ \A k \in 1 .. Len(pushedClauses[i].lits) : B!Words(i)[k + 3] = pushedClauses[i].lits[k]
<1> DEFINE lits == pushedClauses[i].lits
           w == <<Len(lits), Cardinality(B!Unread(i)), pushedClauses[i].origin>> \o lits
<1>1. B!Words(i) = w
    BY SameCardinality DEF B!Words
<1>2. lits \in Seq(Nat) /\ WordCount(i) = Len(lits) + 3
    BY ClauseFacts
<1>3. /\ Len(w) = Len(lits) + 3
      /\ w[1] = Len(lits) /\ w[2] = Cardinality(B!Unread(i)) /\ w[3] = pushedClauses[i].origin
      /\ \A k \in 1 .. Len(lits) : w[k + 3] = lits[k]
    BY <1>2, WordList
<1> HIDE DEF w, lits
<1> QED
    BY <1>1, <1>2, <1>3 DEF lits

\* What the buffer holds of a clause, from the place before it.
LEMMA ClauseAt ==
    ASSUME BufferTyping, ClausesApart, B!WordsExact,
           NEW b \in removedClauses + 1 .. Len(pushedClauses), NEW p \in BufferIndex,
           B!nextIndex(p) = B!Place(starts[b])
    PROVE  /\ words[B!nextIndex(p)] = Len(pushedClauses[b].lits)
           /\ words[B!addIndex(p, 2)] = Cardinality(B!Unread(b))
           /\ words[B!addIndex(p, 3)] = pushedClauses[b].origin
           /\ B!Popped(p, Len(pushedClauses[b].lits)) = pushedClauses[b].lits
           /\ B!addIndex(p, WordCount(b)) \in BufferIndex
           /\ B!nextIndex(B!addIndex(p, WordCount(b))) = B!Place(starts[b + 1])
           /\ B!addIndex(p, 2) = B!Place(starts[b] + 1)
<1> DEFINE N == Len(pushedClauses)
           size == WordCount(b)
           lits == pushedClauses[b].lits
           freed == starts[removedClauses + 1]
           d == starts[b] - freed
           o == B!nextIndex(tail)
<1>1. N \in Nat /\ removedClauses \in 0 .. N /\ b \in 1 .. N /\ lits \in Seq(Nat)
    BY ClauseFacts, SMTT(40) DEF BufferTyping
<1>2. size \in Nat /\ size >= 3 /\ size = Len(lits) + 3 /\ Len(lits) \in Nat
    BY <1>1, ClauseFacts
<1>3. /\ freed \in Nat /\ starts[b] \in Nat /\ starts[b + 1] \in Nat /\ starts[N + 1] \in Nat
      /\ freed <= starts[b] /\ starts[b + 1] = starts[b] + size /\ starts[b + 1] <= starts[N + 1]
  <2>1. b + 1 \in 1 .. N + 1 /\ N + 1 \in 1 .. N + 1 /\ removedClauses + 1 \in 1 .. N + 1 /\ b \in 1 .. N + 1
        /\ removedClauses + 1 <= b /\ b + 1 <= N + 1
      BY <1>1
  <2>2. /\ freed \in Nat /\ starts[b] \in Nat /\ starts[b + 1] \in Nat /\ starts[N + 1] \in Nat
        /\ freed <= starts[b] /\ starts[b + 1] <= starts[N + 1]
      BY <2>1, ClauseFacts
  <2>3. starts[b + 1] = starts[b] + size
      BY <1>1 DEF ClausesApart
  <2> QED
      BY <2>2, <2>3
<1>4. wordsUsed = starts[N + 1] - freed /\ wordsUsed < bufferSize /\ wordsUsed \in Nat
    BY DEF B!WordsExact, BufferTyping
<1>5. d \in Nat /\ d + size <= wordsUsed /\ d + size \in BufferIndex /\ size \in BufferIndex /\ d \in BufferIndex
  <2>1. d \in Nat /\ d + size = starts[b + 1] - freed
    <3>1. /\ freed \in Nat /\ starts[b] \in Nat /\ size \in Nat
          /\ freed <= starts[b] /\ starts[b + 1] = starts[b] + size
        BY <1>2, <1>3
    <3> HIDE DEF size, freed
    <3> QED
        BY <3>1
  <2>2. d + size <= wordsUsed
      BY <1>3, <1>4, <2>1
  <2>3. size \in Nat /\ wordsUsed < bufferSize /\ wordsUsed \in Nat
      BY <1>2, <1>4
  <2> HIDE DEF d, size
  <2>4. d <= wordsUsed /\ size <= wordsUsed
      BY <2>1, <2>2, <2>3
  <2> QED
      BY <2>1, <2>2, <2>3, <2>4, BufferSizes DEF BufferIndex
<1>6. o \in BufferIndex /\ B!nextIndex(p) = B!addIndex(o, d) /\ tail \in BufferIndex
    BY <1>5, AddIndex DEF BufferTyping, B!Place
<1>7. \A k \in 1 .. size : B!addIndex(p, k) = B!Place(starts[b] + k - 1)
    <2> SUFFICES ASSUME NEW k \in 1 .. size PROVE B!addIndex(p, k) = B!Place(starts[b] + k - 1)
        OBVIOUS
    <2>1. k \in BufferIndex /\ k > 0 /\ k - 1 \in Nat /\ d + (k - 1) < bufferSize
      <3> HIDE DEF d, size
      <3> QED
          BY <1>2, <1>5, BufferSizes, SMTT(60) DEF BufferIndex
    <2>2. B!addIndex(p, k) = B!addIndex(B!addIndex(o, d), k - 1)
        BY <1>6, <2>1, AddIndex
    <2>3. @ = B!addIndex(o, d + (k - 1))
      <3> HIDE DEF d, o
      <3> QED
          BY <1>5, <1>6, <2>1, AddIndex
    <2>4. (starts[b] + k - 1) - freed = d + (k - 1)
        BY <1>2, <1>3, <2>1, SMTT(40)
    <2> HIDE DEF d
    <2> QED
        BY <2>2, <2>3, <2>4 DEF B!Place
<1>8. /\ B!addIndex(p, size) \in BufferIndex
      /\ B!nextIndex(B!addIndex(p, size)) = B!Place(starts[b + 1])
    <2>1. B!nextIndex(B!addIndex(p, size)) = B!addIndex(B!addIndex(o, d), size)
        BY <1>5, <1>6, AddIndex
    <2>2. @ = B!addIndex(o, d + size)
      <3>1. size \in Nat /\ d + size < bufferSize
          BY <1>2, <1>5, BufferSizes DEF BufferIndex
      <3> HIDE DEF d, size, o
      <3> QED
          BY <1>5, <1>6, <3>1, AddIndex
    <2>3. starts[b + 1] - freed = d + size
      <3>1. PICK x, y, z, w : x = starts[b] /\ y = starts[b + 1] /\ z = size /\ w = freed
          OBVIOUS
      <3>2. x \in Nat /\ z \in Nat /\ w \in Nat /\ y = x + z
          BY <1>2, <1>3, <3>1
      <3>3. y - w = (x - w) + z
          BY <3>2
      <3> QED
          BY <3>1, <3>3
    <2>4. B!addIndex(p, size) \in BufferIndex
        BY <1>5, AddIndex
    <2> HIDE DEF d
    <2> QED
        BY <2>1, <2>2, <2>3, <2>4 DEF B!Place
<1>9. /\ Len(B!Words(b)) = size
      /\ B!Words(b)[1] = Len(lits) /\ B!Words(b)[2] = Cardinality(B!Unread(b))
      /\ B!Words(b)[3] = pushedClauses[b].origin
      /\ \A k \in 1 .. Len(lits) : B!Words(b)[k + 3] = lits[k]
    BY <1>1, WordsCounted
<1>10. \A k \in 1 .. size : words[B!addIndex(p, k)] = B!Words(b)[k]
    BY <1>7, <1>9 DEF B!WordsExact
<1>11. 1 \in 1 .. size /\ 2 \in 1 .. size /\ 3 \in 1 .. size
    BY <1>2
<1>14. B!nextIndex(p) = B!addIndex(p, 1)
    BY BufferSizes DEF B!nextIndex, B!addIndex, BufferIndex
<1>12. B!Popped(p, Len(lits)) = lits
    <2>1. \A k \in 1 .. Len(lits) : k + 3 \in 1 .. size /\ words[B!addIndex(p, k + 3)] = lits[k]
        BY <1>2, <1>9, <1>10
    <2>2. lits = [k \in 1 .. Len(lits) |-> lits[k]]
        BY <1>1
    <2> QED
        BY <2>1, <2>2 DEF B!Popped, B!headerSize
<1>13. B!addIndex(p, 2) = B!Place(starts[b] + 1)
    BY <1>2, <1>3, <1>7, SMTT(60)
<1> QED
    BY <1>8, <1>9, <1>10, <1>11, <1>12, <1>13, <1>14

\* The tests the code makes on places.
LEMMA EndsAt ==
    ASSUME BufferTyping, ClausesApart, B!WordsExact,
           NEW b \in removedClauses + 1 .. Len(pushedClauses) + 1, NEW p \in BufferIndex,
           B!nextIndex(p) = B!Place(starts[b])
    PROVE  /\ B!nextIndex(p) = head <=> b = Len(pushedClauses) + 1
           /\ p = tail <=> b = removedClauses + 1
           /\ B!FromLast(p) = p
<1> DEFINE N == Len(pushedClauses)
           freed == starts[removedClauses + 1]
           d == starts[b] - freed
           o == B!nextIndex(tail)
<1>1. N \in Nat /\ removedClauses \in 0 .. N /\ b \in 1 .. N + 1
    BY ClauseFacts DEF BufferTyping
<1>2. /\ freed \in Nat /\ starts[b] \in Nat /\ starts[N + 1] \in Nat
      /\ freed <= starts[b] /\ starts[b] <= starts[N + 1]
      /\ b < N + 1 => starts[b] + 3 <= starts[N + 1]
      /\ removedClauses + 1 < b => freed + 3 <= starts[b]
    BY <1>1, ClauseFacts
<1>3. wordsUsed = starts[N + 1] - freed /\ wordsUsed < bufferSize /\ wordsUsed \in Nat
    BY DEF B!WordsExact, BufferTyping
<1>4. d \in 0 .. wordsUsed /\ d \in BufferIndex /\ wordsUsed \in BufferIndex
    BY <1>2, <1>3, BufferSizes DEF BufferIndex
<1>5. /\ o \in BufferIndex /\ tail \in BufferIndex /\ B!nextIndex(p) = B!addIndex(o, d)
      /\ head = B!addIndex(o, wordsUsed) /\ head \in BufferIndex
    BY <1>3, <1>4, AddIndex DEF BufferTyping, B!Place, B!WordsExact
<1>6. (d = wordsUsed <=> b = N + 1) /\ (d = 0 <=> b = removedClauses + 1)
    <2>1. b < N + 1 \/ b = N + 1
        BY <1>1
    <2>2. removedClauses + 1 < b \/ b = removedClauses + 1
        BY <1>1
    <2>3. d = wordsUsed <=> b = N + 1
        BY <1>1, <1>2, <1>3, <2>1
    <2>4. d = 0 <=> b = removedClauses + 1
        BY <1>1, <1>2, <1>3, <2>2
    <2> QED
        BY <2>3, <2>4
<1> HIDE DEF d
<1> HIDE DEF o
<1>14. \A e \in BufferIndex : B!addIndex(o, d) = B!addIndex(o, e) => d = e
  <2>1. d \in BufferIndex /\ o \in BufferIndex
      BY <1>4, <1>5
  <2> HIDE DEF d
  <2> QED
      BY <2>1, BufferSizes DEF BufferIndex, B!addIndex
<1>7. B!nextIndex(p) = head <=> b = N + 1
    BY <1>4, <1>5, <1>6, <1>14
<1>8. 0 \in BufferIndex /\ B!addIndex(o, 0) = o
    BY <1>5, AddIndex, BufferSizes DEF BufferIndex
<1>9. p = tail <=> b = removedClauses + 1
    <2>1. B!nextIndex(p) = o <=> d = 0
        BY <1>4, <1>5, <1>8, <1>14
    <2>2. B!nextIndex(p) = o <=> p = tail
        BY <1>5, NextIndex DEF o
    <2> QED
        BY <1>6, <2>1, <2>2
<1>10. B!FromLast(p) = p
    <2>1. p = B!addIndex(tail, d)
      <3>1. B!nextIndex(B!addIndex(tail, d)) = B!addIndex(o, d) /\ B!addIndex(tail, d) \in BufferIndex
          BY <1>4, <1>5, AddIndex DEF o
      <3> QED
          BY <1>5, <3>1, NextIndex
    <2>2. /\ tail \in 0 .. bufferSize - 1 /\ wordsUsed \in 0 .. bufferSize - 1 /\ d \in 0 .. wordsUsed
          /\ bufferSize \in Nat
        BY <1>4, <1>5, BufferSizes DEF BufferIndex
    <2>3. p = IF tail + d >= bufferSize THEN tail + d - bufferSize ELSE tail + d
        BY <2>1 DEF B!addIndex
    <2>4. head = IF tail + wordsUsed + 1 >= bufferSize THEN tail + wordsUsed + 1 - bufferSize ELSE tail + wordsUsed + 1
        BY <1>5, <2>2 DEF o, B!addIndex, B!nextIndex
    <2> QED
        BY <2>2, <2>3, <2>4 DEF B!FromLast
<1> QED
    BY <1>7, <1>9, <1>10

\* The earliest of a set of places.
LEMMA EarliestIs ==
    ASSUME NEW S, NEW b \in S, \A j \in S : b <= j, \A i \in S : (\A j \in S : i <= j) => i = b
    PROVE  B!Earliest(S) = b
BY DEF B!Earliest

\* What the next clause for a thread is, told from its place.
LEMMA DueAt ==
    ASSUME BufferTyping, NEW t \in B!Threads, NEW place, NEW b, PlaceBefore(t, place, b)
    PROVE  /\ b = Len(pushedClauses) + 1 => B!Pending(t) = {}
           /\ b <= Len(pushedClauses) /\ pushedClauses[b].origin # t =>
                 /\ B!Pending(t) # {} /\ B!Earliest(B!Pending(t)) = b
                 /\ b \in B!Pending(t) /\ \A i \in B!Pending(t) : b <= i
<1> DEFINE N == Len(pushedClauses)
<1>1. /\ N \in Nat /\ removedClauses \in 0 .. N /\ b \in removedClauses + 1 .. N + 1
      /\ passed[t] \in 0 .. N /\ passed[t] < b
    BY DEF BufferTyping, PlaceBefore
<1>2. \A i \in B!Pending(t) : i \in removedClauses + 1 .. N /\ passed[t] < i /\ pushedClauses[i].origin # t
    BY <1>1 DEF B!Pending
<1>3. \A i \in B!Pending(t) : ~(i < b)
    BY <1>1, <1>2 DEF PlaceBefore
<1>4. CASE b = N + 1
    BY <1>1, <1>2, <1>3, <1>4
<1>5. CASE b <= N /\ pushedClauses[b].origin # t
  <2>1. b \in B!Pending(t)
      BY <1>1, <1>5 DEF B!Pending
  <2>2. \A j \in B!Pending(t) : b <= j
      BY <1>1, <1>2, <1>3
  <2>3. \A i \in B!Pending(t) : (\A j \in B!Pending(t) : i <= j) => i = b
      BY <1>1, <1>2, <2>1, <2>2
  <2>4. B!Earliest(B!Pending(t)) = b
      BY <2>1, <2>2, <2>3, EarliestIs
  <2> QED
      BY <1>1, <1>5, <2>1, <2>2, <2>4
<1> QED
    BY <1>1, <1>4, <1>5

\* One round of removeLastClause: the words behind the oldest clause stay where
\* they are.
LEMMA OldestGoes ==
    ASSUME BufferTyping, ClausesApart, B!WordsExact, removedClauses < Len(pushedClauses), B!removeOne
    PROVE  /\ removedClauses' = removedClauses + 1
           /\ tail' = B!addIndex(tail, WordCount(removedClauses + 1)) /\ tail' \in BufferIndex
           /\ B!nextIndex(tail') = B!Place(starts[removedClauses + 2])
           /\ wordsUsed' = starts[Len(pushedClauses) + 1] - starts[removedClauses + 2] /\ wordsUsed' \in Nat
           /\ wordsUsed' < bufferSize
           /\ \A u \in Nat : starts[removedClauses + 2] <= u /\ u <= starts[Len(pushedClauses) + 1] =>
                 B!addIndex(B!nextIndex(tail'), u - starts[removedClauses + 2]) = B!Place(u)
           /\ lastOfThread' = [t \in B!Threads |-> IF lastOfThread[t] = tail THEN tail' ELSE lastOfThread[t]]
<1> DEFINE N == Len(pushedClauses)
           r == removedClauses + 1
           freed == starts[r]
           size == WordCount(r)
           o == B!nextIndex(tail)
<1>1. N \in Nat /\ removedClauses \in 0 .. N /\ r \in removedClauses + 1 .. N /\ r \in 1 .. N
      /\ r + 1 = removedClauses + 2 /\ tail \in BufferIndex
    BY DEF BufferTyping
<1>2. /\ freed \in Nat /\ starts[r + 1] \in Nat /\ starts[N + 1] \in Nat
      /\ starts[r + 1] = freed + size /\ starts[r + 1] <= starts[N + 1] /\ freed <= starts[N + 1]
      /\ size \in Nat /\ size >= 3 /\ size = Len(pushedClauses[r].lits) + 3
  <2>1. r \in 1 .. N + 1 /\ r + 1 \in 1 .. N + 1 /\ N + 1 \in 1 .. N + 1 /\ r <= N + 1 /\ r + 1 <= N + 1
      BY <1>1
  <2>2. starts[r + 1] = starts[r] + size
      BY <1>1 DEF ClausesApart
  <2>3. size \in Nat /\ size >= 3 /\ size = Len(pushedClauses[r].lits) + 3
      BY <1>1, ClauseFacts
  <2>4. /\ starts[r] \in Nat /\ starts[r + 1] \in Nat /\ starts[N + 1] \in Nat
        /\ starts[r + 1] <= starts[N + 1] /\ starts[r] <= starts[N + 1]
      BY <2>1, ClauseFacts
  <2> HIDE DEF size, r, N
  <2> QED
      BY <2>2, <2>3, <2>4
<1>3. wordsUsed = starts[N + 1] - freed /\ wordsUsed < bufferSize /\ wordsUsed \in Nat
    BY DEF B!WordsExact, BufferTyping
<1>4. o \in BufferIndex /\ B!addIndex(o, 0) = o /\ 0 \in BufferIndex
  <2>1. 0 \in BufferIndex
      BY BufferSizes DEF BufferIndex
  <2> QED
      BY <1>1, <2>1, AddIndex
<1>5. o = B!Place(freed)
  <2>1. freed - freed = 0
      BY <1>2
  <2> QED
      BY <1>4, <2>1 DEF B!Place
<1>6. /\ words[B!nextIndex(tail)] = Len(pushedClauses[r].lits)
      /\ B!addIndex(tail, size) \in BufferIndex
      /\ B!nextIndex(B!addIndex(tail, size)) = B!Place(starts[r + 1])
  <2> HIDE DEF r
  <2> QED
      BY <1>1, <1>5, ClauseAt
<1>7. /\ removedClauses' = removedClauses + 1 /\ tail' = B!addIndex(tail, size)
      /\ wordsUsed' = wordsUsed - size
      /\ lastOfThread' = [t \in B!Threads |-> IF lastOfThread[t] = tail THEN tail' ELSE lastOfThread[t]]
  <2>1. words[B!nextIndex(tail)] + B!headerSize = size
      BY <1>2, <1>6 DEF B!headerSize
  <2> HIDE DEF size
  <2> QED
      BY <2>1 DEF B!removeOne
<1>8. wordsUsed' = starts[N + 1] - starts[r + 1] /\ wordsUsed' \in Nat /\ wordsUsed' < bufferSize
  <2>1. /\ freed \in Nat /\ starts[r + 1] \in Nat /\ starts[N + 1] \in Nat /\ size \in Nat
        /\ starts[r + 1] = freed + size /\ starts[r + 1] <= starts[N + 1]
      BY <1>2
  <2>2. wordsUsed' = (starts[N + 1] - freed) - size
      BY <1>3, <1>7
  <2>3. starts[N + 1] - freed < bufferSize
      BY <1>3
  <2> HIDE DEF N, r, freed, size
  <2> QED
      BY <2>1, <2>2, <2>3, BufferSizes
<1>9. \A u \in Nat : starts[r + 1] <= u /\ u <= starts[N + 1] =>
         B!addIndex(B!nextIndex(tail'), u - starts[r + 1]) = B!Place(u)
  <2> SUFFICES ASSUME NEW u \in Nat, starts[r + 1] <= u, u <= starts[N + 1]
               PROVE  B!addIndex(B!nextIndex(tail'), u - starts[r + 1]) = B!Place(u)
      OBVIOUS
  <2> DEFINE e == u - starts[r + 1]
  <2>1. /\ e \in Nat /\ size + e < bufferSize /\ size \in BufferIndex /\ size + e = u - freed
        /\ starts[r + 1] - freed = size
    <3>1. /\ freed \in Nat /\ starts[r + 1] \in Nat /\ starts[N + 1] \in Nat /\ size \in Nat
          /\ starts[r + 1] = freed + size /\ starts[r + 1] <= starts[N + 1]
        BY <1>2
    <3>2. starts[N + 1] - freed < bufferSize
        BY <1>3
    <3> HIDE DEF N, r, freed, size
    <3>3. e \in Nat /\ size + e = u - freed /\ starts[r + 1] - freed = size
        BY <3>1
    <3> HIDE DEF e
    <3>4. size + e < bufferSize
        BY <3>1, <3>2, <3>3, BufferSizes
    <3> QED
        BY <3>1, <3>3, <3>4, BufferSizes DEF BufferIndex
  <2>2. B!nextIndex(tail') = B!addIndex(o, size)
    <3> HIDE DEF o
    <3> QED
        BY <1>6, <1>7, <2>1 DEF B!Place, o
  <2>3. B!addIndex(B!addIndex(o, size), e) = B!addIndex(o, size + e)
    <3> HIDE DEF e, size, o
    <3> QED
        BY <1>4, <2>1, AddIndex
  <2> HIDE DEF e
  <2>4. B!addIndex(B!nextIndex(tail'), e) = B!addIndex(o, u - freed)
      BY <2>1, <2>2, <2>3
  <2> QED
      BY <2>4 DEF B!Place, e
<1> QED
    BY <1>1, <1>6, <1>7, <1>8, <1>9

\* The words of a clause do not depend on what was removed.
LEMMA SameWords ==
    ASSUME pushedClauses' = pushedClauses, passed' = passed, NEW i
    PROVE  B!Words(i)' = B!Words(i) /\ B!Unread(i)' = B!Unread(i) /\ WordCount(i)' = WordCount(i)
BY DEF B!Words, B!Unread, WordCount

\* Clauses stay apart while none is pushed.
LEMMA SameClausesApart ==
    ASSUME ClausesApart, pushedClauses' = pushedClauses, starts' = starts
    PROVE  ClausesApart'
BY DEF ClausesApart, WordCount

\* The words behind the oldest clause are those of the other clauses.
LEMMA RoundKeepsWords ==
    ASSUME BufferTyping, ClausesApart, B!WordsExact, removedClauses < Len(pushedClauses), B!removeOne
    PROVE  B!WordsExact'
<1> DEFINE N == Len(pushedClauses)
           r == removedClauses + 1
<1>1. /\ UNCHANGED <<words, head, pushedClauses, starts, passed>>
      /\ removedClauses' = r
    BY DEF B!removeOne, B!history
<1>2. N \in Nat /\ removedClauses \in 0 .. N /\ r \in 1 .. N /\ r + 1 = removedClauses + 2
    BY DEF BufferTyping
<1>3. /\ wordsUsed' = starts[N + 1] - starts[r + 1] /\ wordsUsed' < bufferSize
      /\ \A u \in Nat : starts[r + 1] <= u /\ u <= starts[N + 1] =>
            B!addIndex(B!nextIndex(tail'), u - starts[r + 1]) = B!Place(u)
    BY <1>2, OldestGoes
<1>4. /\ starts[N + 1] \in Nat /\ starts[r + 1] \in Nat /\ starts[r + 1] <= starts[N + 1]
      /\ \A i \in r + 1 .. N : starts[i] \in Nat /\ starts[i + 1] \in Nat /\ WordCount(i) \in Nat
                               /\ starts[r + 1] <= starts[i] /\ starts[i + 1] <= starts[N + 1]
                               /\ starts[i + 1] = starts[i] + WordCount(i)
  <2>1. /\ r + 1 \in 1 .. N + 1 /\ N + 1 \in 1 .. N + 1 /\ r + 1 <= N + 1
        /\ \A i \in r + 1 .. N : i \in 1 .. N /\ i \in 1 .. N + 1 /\ i + 1 \in 1 .. N + 1 /\ r + 1 <= i /\ i + 1 <= N + 1
      BY <1>2
  <2>2. \A i \in r + 1 .. N : starts[i + 1] = starts[i] + WordCount(i)
      BY <2>1 DEF ClausesApart
  <2>3. \A i \in r + 1 .. N : starts[i] \in Nat /\ starts[i + 1] \in Nat /\ WordCount(i) \in Nat
                              /\ starts[r + 1] <= starts[i] /\ starts[i + 1] <= starts[N + 1]
      BY <2>1, ClauseFacts
  <2>4. starts[N + 1] \in Nat /\ starts[r + 1] \in Nat /\ starts[r + 1] <= starts[N + 1]
      BY <2>1, ClauseFacts
  <2> HIDE DEF N, r
  <2> QED
      BY <2>2, <2>3, <2>4
<1>5. \A u \in Nat : starts[r + 1] <= u /\ u <= starts[N + 1] => B!Place(u)' = B!Place(u)
    BY <1>1, <1>3 DEF B!Place
<1>6. head' = (B!Place(starts[N + 1]))'
  <2>1. head = B!Place(starts[N + 1])
      BY DEF B!WordsExact
  <2>2. B!addIndex(B!nextIndex(tail'), starts[N + 1] - starts[r + 1]) = B!Place(starts[N + 1])
      BY <1>3, <1>4
  <2> QED
      BY <1>1, <2>1, <2>2 DEF B!Place
<1>7. ASSUME NEW i \in r + 1 .. N, NEW k \in 1 .. Len(B!Words(i))
      PROVE  words'[(B!Place(starts[i] + k - 1))'] = B!Words(i)'[k]
  <2> DEFINE u == starts[i] + k - 1
  <2>1. i \in removedClauses + 1 .. N /\ i \in 1 .. N
      BY <1>2
  <2>2. Len(B!Words(i)) = WordCount(i)
      BY <2>1, WordsCounted
  <2>3. u \in Nat /\ starts[r + 1] <= u /\ u <= starts[N + 1]
    <3>1. k \in 1 .. WordCount(i) /\ WordCount(i) \in Nat
        BY <1>4, <2>2
    <3> HIDE DEF N, r
    <3> QED
        BY <1>4, <3>1, SMTT(60)
  <2>4. B!addIndex(B!nextIndex(tail'), u - starts[r + 1]) = B!Place(u)
      BY <1>3, <2>3
  <2>5. words[B!Place(u)] = B!Words(i)[k]
      BY <2>1 DEF B!WordsExact
  <2>6. (B!Place(starts[i] + k - 1))' = B!addIndex(B!nextIndex(tail'), u - starts[r + 1])
      BY <1>1 DEF B!Place
  <2> HIDE DEF u
  <2> QED
      BY <1>1, <2>4, <2>5, <2>6, SameWords
<1>8. removedClauses' + 1 = r + 1 /\ Len(pushedClauses') = N
    BY <1>1
<1>9. \A i : B!Words(i)' = B!Words(i)
    BY <1>1, SameWords
<1> QED
    BY <1>1, <1>3, <1>6, <1>7, <1>8, <1>9 DEF B!WordsExact

\* A thread before the oldest clause is behind it, the others stay.
LEMMA RoundKeepsPlace ==
    ASSUME BufferTyping, ClausesApart, B!WordsExact, removedClauses < Len(pushedClauses), B!removeOne,
           NEW t \in B!Threads, NEW p \in BufferIndex, NEW b, PlaceBefore(t, p, b),
           NEW q, q = IF p = tail THEN tail' ELSE p
    PROVE  \E c \in Nat : PlaceBefore(t, q, c)'
<1> DEFINE N == Len(pushedClauses)
           r == removedClauses + 1
<1>1. UNCHANGED <<pushedClauses, starts, passed>> /\ removedClauses' = r
    BY DEF B!removeOne, B!history
<1>2. /\ N \in Nat /\ removedClauses \in 0 .. N /\ r \in 1 .. N /\ r + 1 = removedClauses + 2
      /\ b \in r .. N + 1 /\ passed[t] \in 0 .. N /\ passed[t] < b
    BY DEF BufferTyping, PlaceBefore
<1>3. /\ B!nextIndex(tail') = B!Place(starts[r + 1]) /\ tail' \in BufferIndex
      /\ \A u \in Nat : starts[r + 1] <= u /\ u <= starts[N + 1] =>
            B!addIndex(B!nextIndex(tail'), u - starts[r + 1]) = B!Place(u)
    BY <1>2, OldestGoes
<1>4. p = tail <=> b = r
    BY <1>2, EndsAt DEF PlaceBefore
<1>11. PICK c : c = IF b = r THEN r + 1 ELSE b
    OBVIOUS
<1>5. c \in r + 1 .. N + 1 /\ c \in Nat /\ passed[t] < c
    BY <1>2, <1>11
<1>6. B!nextIndex(q) = B!Place(starts[c])
  <2>1. CASE b = r
      BY <1>3, <1>4, <1>11, <2>1
  <2>2. CASE b # r
      BY <1>4, <1>11, <2>2 DEF PlaceBefore
  <2> QED
      BY <2>1, <2>2
<1>7. \A i \in r + 1 .. c - 1 : passed[t] < i => pushedClauses[i].origin = t
    BY <1>2, <1>5, <1>11 DEF PlaceBefore
<1>8. (B!Place(starts[c]))' = B!Place(starts[c])
  <2>1. starts[c] \in Nat /\ starts[r + 1] <= starts[c] /\ starts[c] <= starts[N + 1]
    <3>1. c \in 1 .. N + 1 /\ r + 1 \in 1 .. N + 1 /\ N + 1 \in 1 .. N + 1 /\ r + 1 <= c /\ c <= N + 1
        BY <1>2, <1>5
    <3> QED
        BY <3>1, ClauseFacts
  <2> QED
      BY <1>1, <1>3, <2>1 DEF B!Place
<1>9. /\ c \in removedClauses' + 1 .. Len(pushedClauses') + 1
      /\ B!nextIndex(q) = (B!Place(starts[c]))'
      /\ passed'[t] < c
      /\ \A i \in removedClauses' + 1 .. c - 1 : passed'[t] < i => pushedClauses'[i].origin = t
    BY <1>1, <1>5, <1>6, <1>7, <1>8
<1>10. PlaceBefore(t, q, c)'
    BY <1>9 DEF PlaceBefore
<1> QED
    BY <1>5, <1>10

\* The words are exact as long as nobody writes and the readers left stay.
LEMMA SameWordsExact ==
    ASSUME B!WordsExact, UNCHANGED <<words, head, tail, wordsUsed, removedClauses, pushedClauses, starts>>,
           \A i \in removedClauses + 1 .. Len(pushedClauses) : B!Unread(i)' = B!Unread(i)
    PROVE  B!WordsExact'
<1>1. \A i \in removedClauses + 1 .. Len(pushedClauses) : B!Words(i)' = B!Words(i)
    BY DEF B!Words
<1>2. \A u : B!Place(u)' = B!Place(u)
    BY DEF B!Place
<1>3. /\ wordsUsed = starts[Len(pushedClauses) + 1] - starts[removedClauses + 1] /\ wordsUsed < bufferSize
      /\ head = B!Place(starts[Len(pushedClauses) + 1])
      /\ \A i \in removedClauses + 1 .. Len(pushedClauses) : \A k \in 1 .. Len(B!Words(i)) :
            words[B!Place(starts[i] + k - 1)] = B!Words(i)[k]
    BY DEF B!WordsExact
<1>4. /\ (B!Place(starts[Len(pushedClauses) + 1]))' = B!Place(starts[Len(pushedClauses) + 1])
      /\ \A i, k : (B!Place(starts[i] + k - 1))' = B!Place(starts[i] + k - 1)
    BY DEF B!Place
<1>5. /\ wordsUsed' = starts'[Len(pushedClauses') + 1] - starts'[removedClauses' + 1] /\ wordsUsed' < bufferSize
      /\ head' = (B!Place(starts[Len(pushedClauses) + 1]))'
      /\ \A i \in removedClauses' + 1 .. Len(pushedClauses') : \A k \in 1 .. Len(B!Words(i)') :
            words'[(B!Place(starts[i] + k - 1))'] = B!Words(i)'[k]
  <2>1. /\ words' = words /\ head' = head /\ wordsUsed' = wordsUsed /\ starts' = starts
        /\ removedClauses' + 1 = removedClauses + 1
        /\ Len(pushedClauses') + 1 = Len(pushedClauses) + 1 /\ Len(pushedClauses') = Len(pushedClauses)
      OBVIOUS
  <2>2. wordsUsed' = starts'[Len(pushedClauses') + 1] - starts'[removedClauses' + 1] /\ wordsUsed' < bufferSize
      BY <1>3, <2>1
  <2>3. head' = (B!Place(starts[Len(pushedClauses) + 1]))'
      BY <1>3, <1>4, <2>1
  <2>4. ASSUME NEW i \in removedClauses' + 1 .. Len(pushedClauses'), NEW k \in 1 .. Len(B!Words(i)')
        PROVE  words'[(B!Place(starts[i] + k - 1))'] = B!Words(i)'[k]
    <3>1. i \in removedClauses + 1 .. Len(pushedClauses) /\ B!Words(i)' = B!Words(i) /\ k \in 1 .. Len(B!Words(i))
        BY <1>1, <2>1, <2>4
    <3>2. (B!Place(starts[i] + k - 1))' = B!Place(starts[i] + k - 1)
        BY DEF B!Place
    <3>3. words[B!Place(starts[i] + k - 1)] = B!Words(i)[k]
        BY <1>3, <3>1
    <3> QED
        BY <2>1, <3>1, <3>2, <3>3
  <2> QED
      BY <2>2, <2>3, <2>4
<1> QED
    BY <1>5 DEF B!WordsExact

\* A place stays before the next clause of its thread.
LEMMA SamePlace ==
    ASSUME UNCHANGED <<tail, removedClauses, pushedClauses, starts>>,
           NEW t, passed'[t] = passed[t], NEW p, NEW b, PlaceBefore(t, p, b)
    PROVE  PlaceBefore(t, p, b)'
BY DEF PlaceBefore, B!Place

\* A thread that is through with everything is not missed by any clause.
LEMMA ThroughWithAll ==
    ASSUME BufferTyping, NEW t \in B!Threads, B!Pending(t) = {},
           passed' = [passed EXCEPT ![t] = Len(pushedClauses)],
           UNCHANGED <<removedClauses, pushedClauses>>,
           NEW i \in removedClauses + 1 .. Len(pushedClauses)
    PROVE  B!Unread(i)' = B!Unread(i)
<1> DEFINE N == Len(pushedClauses)
<1>1. N \in Nat /\ removedClauses \in 0 .. N /\ passed \in [B!Threads -> 0 .. N]
    BY DEF BufferTyping
<1>2. i \in 1 .. N /\ (pushedClauses[i].origin # t => i <= passed[t])
    BY <1>1 DEF B!Pending
<1>3. ~(passed'[t] < i)
    BY <1>1, <1>2
<1>4. \A u \in B!Threads : u # t => passed'[u] = passed[u]
    BY <1>1
<1>5. \A u \in B!Threads \ {pushedClauses[i].origin} : passed'[u] < i <=> passed[u] < i
    BY <1>1, <1>2, <1>3, <1>4
<1> QED
    BY <1>5 DEF B!Unread

\* A thread that is given clause b is no longer counted there, and nowhere else.
LEMMA ThroughWithOne ==
    ASSUME BufferTyping, NEW t \in B!Threads, NEW b \in removedClauses + 1 .. Len(pushedClauses),
           B!Pending(t) # {}, B!Earliest(B!Pending(t)) = b, b \in B!Pending(t),
           \A i \in B!Pending(t) : b <= i,
           passed' = [passed EXCEPT ![t] = b],
           UNCHANGED <<removedClauses, pushedClauses>>
    PROVE  /\ B!Unread(b)' = B!Unread(b) \ {t} /\ t \in B!Unread(b)
           /\ \A i \in removedClauses + 1 .. Len(pushedClauses) : i # b => B!Unread(i)' = B!Unread(i)
<1> DEFINE N == Len(pushedClauses)
<1>1. N \in Nat /\ removedClauses \in 0 .. N /\ passed \in [B!Threads -> 0 .. N]
    BY DEF BufferTyping
<1>2. b \in 1 .. N /\ passed[t] < b /\ pushedClauses[b].origin # t /\ passed'[t] = b
    BY <1>1 DEF B!Pending
<1>3. \A u \in B!Threads : u # t => passed'[u] = passed[u]
    BY <1>1
<1>4. B!Unread(b)' = B!Unread(b) \ {t} /\ t \in B!Unread(b)
    BY <1>1, <1>2, <1>3 DEF B!Unread
<1>5. ASSUME NEW i \in removedClauses + 1 .. N, i # b
      PROVE  B!Unread(i)' = B!Unread(i)
  <2>1. pushedClauses[i].origin # t => (passed'[t] < i <=> passed[t] < i)
      BY <1>1, <1>2, <1>5 DEF B!Pending
  <2>2. \A u \in B!Threads \ {pushedClauses[i].origin} : passed'[u] < i <=> passed[u] < i
      BY <1>3, <2>1
  <2> QED
      BY <2>2 DEF B!Unread
<1> QED
    BY <1>4, <1>5

\* What was not lost is not lost by reading on.
LEMMA ReadingLosesNothing ==
    ASSUME B!NothingLost, BufferTyping, UNCHANGED <<whenFullRemoveOlder, removedClauses, pushedClauses>>,
           \A t \in B!Threads : passed'[t] \in Nat /\ passed[t] <= passed'[t]
    PROVE  B!NothingLost'
<1>1. \A t \in B!Threads : passed[t] \in Nat
    BY DEF BufferTyping
<1>2. ASSUME ~whenFullRemoveOlder, NEW i \in 1 .. removedClauses, NEW t \in B!Threads
      PROVE  passed'[t] >= i \/ pushedClauses[i].origin = t
  <2>1. passed[t] >= i \/ pushedClauses[i].origin = t
      BY <1>2 DEF B!NothingLost
  <2>2. i \in Int
      BY <1>2 DEF BufferTyping
  <2> QED
      BY <1>1, <2>1, <2>2
<1> QED
    BY <1>2 DEF B!NothingLost

\* The buffer at the start of the solver.
LEMMA BufferInit == B!Init => BufferInv
<1> SUFFICES ASSUME B!Init PROVE BufferInv
    OBVIOUS
<1> USE DEF B!Init
<1>1. BufferTyping
    BY BufferSizes DEF BufferTyping, BufferIndex, BufferClause, B!Threads
<1>2. ClausesApart
    BY DEF ClausesApart
<1>3. B!WordsExact
    BY BufferSizes DEF B!WordsExact, B!Place, B!nextIndex, B!addIndex
<1>4. PlacesRight
  <2>1. \A t \in B!Threads : PlaceBefore(t, lastOfThread[t], 1)
      BY BufferSizes DEF PlaceBefore, B!Place, B!nextIndex, B!addIndex
  <2> QED
      BY <2>1 DEF PlacesRight
<1>5. RemovalAllowed /\ B!NothingLost /\ B!DeliveredInOrder
    BY DEF RemovalAllowed, B!NothingLost, B!DeliveredInOrder, B!NoReply
<1> QED
    BY <1>1, <1>2, <1>3, <1>4, <1>5 DEF BufferInv

\* A place that was found is the place of the thread, or of the operation.
LEMMA ThreadPut ==
    ASSUME NEW t, NEW p, p = lastOfThread'[t], \E b \in Nat : PlaceBefore(t, p, b)'
    PROVE  (\E b \in Nat : PlaceBefore(t, lastOfThread[t], b))'
BY DEF PlaceBefore

\* The thread in the operation, after a step that changes its place.
LEMMA OperationPut ==
    ASSUME NEW t, t = threadId', NEW p, p = thislast', \E b \in Nat : PlaceBefore(t, p, b)'
    PROVE  (\E b \in Nat : PlaceBefore(threadId, thislast, b))'
BY DEF PlaceBefore

\* A thread that the step does not concern keeps its place.
LEMMA ThreadStays ==
    ASSUME UNCHANGED <<tail, removedClauses, pushedClauses, starts>>,
           NEW t, passed'[t] = passed[t], lastOfThread'[t] = lastOfThread[t],
           \E b \in Nat : PlaceBefore(t, lastOfThread[t], b)
    PROVE  (\E b \in Nat : PlaceBefore(t, lastOfThread[t], b))'
<1>1. PICK p : p = lastOfThread[t]
    OBVIOUS
<1>2. PICK b \in Nat : PlaceBefore(t, p, b)
    BY <1>1
<1> QED
    BY <1>1, <1>2, SamePlace, ThreadPut

\* What steps that only change local variables keep.
LEMMA LocalsOnly ==
    ASSUME BufferInv, UNCHANGED B!code, UNCHANGED <<pushedClauses, starts, passed>>
    PROVE  /\ ClausesApart' /\ B!WordsExact' /\ B!NothingLost'
           /\ \A t \in B!Threads :
                 (\E b \in Nat : PlaceBefore(t, lastOfThread[t], b)) =>
                    (\E b \in Nat : PlaceBefore(t, lastOfThread[t], b))'
           /\ \A t, p, b : PlaceBefore(t, p, b) => PlaceBefore(t, p, b)'
<1>1. /\ UNCHANGED <<words, head, tail, wordsUsed, lastOfThread, removedClauses, whenFullRemoveOlder>>
    BY DEF B!code, B!ends
<1>2. \A i : B!Unread(i)' = B!Unread(i)
    BY DEF B!Unread
<1>3. \A t \in B!Threads : passed'[t] \in Nat /\ passed[t] <= passed'[t]
    BY DEF BufferInv, BufferTyping
<1>4. B!WordsExact'
    BY <1>1, <1>2, SameWordsExact DEF BufferInv
<1>5. ClausesApart' /\ B!NothingLost'
    BY <1>1, <1>3, SameClausesApart, ReadingLosesNothing DEF BufferInv
<1>6. \A t, p, b : PlaceBefore(t, p, b) => PlaceBefore(t, p, b)'
    BY <1>1, SamePlace
<1>7. \A t \in B!Threads :
         (\E b \in Nat : PlaceBefore(t, lastOfThread[t], b)) =>
            (\E b \in Nat : PlaceBefore(t, lastOfThread[t], b))'
    BY <1>1, ThreadStays
<1> QED
    BY <1>4, <1>5, <1>6, <1>7

\* pushClause starts, or gives up on a full buffer; no word is written yet.
LEMMA PushBegins ==
    ASSUME BufferInv, NEW t \in B!Threads, NEW c \in SharedClauses, B!pushClause(t, c)
    PROVE  BufferInv'
<1>1. /\ op = "free" /\ UNCHANGED B!code /\ UNCHANGED <<pushedClauses, starts, passed>>
      /\ reply' = B!NoReply
      /\ \/ UNCHANGED <<op, threadId, clause, thislast>>
         \/ /\ whenFullRemoveOlder \/ ~B!Full(c)
            /\ op' = "push" /\ threadId' = t /\ clause' = c /\ thislast' = 0
    BY DEF B!pushClause, B!Lock, B!locals
<1>2. UNCHANGED <<words, head, tail, wordsUsed, lastOfThread, removedClauses, whenFullRemoveOlder>>
    BY <1>1 DEF B!code, B!ends
<1>3. BufferTyping'
  <2>1. 0 \in BufferIndex
      BY BufferSizes DEF BufferIndex
  <2> QED
      BY <1>1, <1>2, <2>1 DEF BufferInv, BufferTyping
<1>4. RemovalAllowed'
    BY <1>1, <1>2 DEF RemovalAllowed, B!Full
<1>5. PlacesRight'
    BY <1>1, LocalsOnly DEF BufferInv, PlacesRight
<1>6. B!DeliveredInOrder'
    BY <1>1 DEF B!DeliveredInOrder, B!NoReply
<1> QED
    BY <1>1, <1>3, <1>4, <1>5, <1>6, LocalsOnly DEF BufferInv

\* The removals that make room stop at a clause that somebody has still to read.
LEMMA RoomMade ==
    ASSUME BufferInv, B!roomMade
    PROVE  BufferInv'
<1>1. /\ op = "pushRemoves" /\ UNCHANGED B!code /\ UNCHANGED <<pushedClauses, starts, passed, reply>>
      /\ op' = "push" /\ threadId' = threadId /\ clause' = clause /\ thislast' = 0
    BY DEF B!roomMade, B!Lock, B!history
<1>2. UNCHANGED <<words, head, tail, wordsUsed, lastOfThread, removedClauses, whenFullRemoveOlder>>
    BY <1>1 DEF B!code, B!ends
<1>3. BufferTyping'
  <2>1. 0 \in BufferIndex
      BY BufferSizes DEF BufferIndex
  <2> QED
      BY <1>1, <1>2, <2>1 DEF BufferInv, BufferTyping
<1>4. RemovalAllowed'
    BY <1>1, <1>2 DEF BufferInv, RemovalAllowed
<1>5. PlacesRight'
    BY <1>1, LocalsOnly DEF BufferInv, PlacesRight
<1>6. B!DeliveredInOrder'
    BY <1>1 DEF BufferInv, B!DeliveredInOrder
<1> QED
    BY <1>1, <1>3, <1>4, <1>5, <1>6, LocalsOnly DEF BufferInv

\* getClause starts with the place that the thread has.
LEMMA GetBegins ==
    ASSUME BufferInv, NEW t \in B!Threads, B!getClause(t)
    PROVE  BufferInv'
<1>1. /\ op = "free" /\ UNCHANGED B!code /\ UNCHANGED <<pushedClauses, starts, passed>>
      /\ reply' = B!NoReply
      /\ op' = "get" /\ threadId' = t /\ thislast' = B!FromLast(lastOfThread[t])
    BY DEF B!getClause, B!Lock
<1>2. UNCHANGED <<words, head, tail, wordsUsed, lastOfThread, removedClauses, whenFullRemoveOlder>>
    BY <1>1 DEF B!code, B!ends
<1>3. PICK p : p = lastOfThread[t]
    OBVIOUS
<1>4. PICK b \in Nat : PlaceBefore(t, p, b)
    BY <1>1, <1>3 DEF BufferInv, PlacesRight
<1>5. thislast' = p /\ p \in BufferIndex
  <2>1. p \in BufferIndex
      BY <1>3 DEF BufferInv, BufferTyping
  <2>2. B!FromLast(p) = p
      BY <1>4, <2>1, EndsAt DEF BufferInv, PlaceBefore
  <2> QED
      BY <1>1, <1>3, <2>1, <2>2
<1>6. BufferTyping'
    BY <1>1, <1>2, <1>5 DEF BufferInv, BufferTyping
<1>7. RemovalAllowed'
    BY <1>1 DEF RemovalAllowed
<1>8. PlacesRight'
  <2>1. (\E c \in Nat : PlaceBefore(threadId, thislast, c))'
      BY <1>1, <1>4, <1>5, LocalsOnly, OperationPut
  <2> QED
      BY <1>1, <2>1, LocalsOnly DEF BufferInv, PlacesRight
<1>9. B!DeliveredInOrder'
    BY <1>1 DEF B!DeliveredInOrder, B!NoReply
<1> QED
    BY <1>1, <1>6, <1>7, <1>8, <1>9, LocalsOnly DEF BufferInv

\* A clause of the thread's own is passed over.
LEMMA OwnSkipped ==
    ASSUME BufferInv, B!skipOwn
    PROVE  BufferInv'
<1>1. /\ op = "get" /\ UNCHANGED B!code /\ UNCHANGED <<pushedClauses, starts, passed, reply>>
      /\ B!nextIndex(thislast) # head /\ words[B!addIndex(thislast, 3)] = threadId
      /\ op' = "get" /\ threadId' = threadId
      /\ thislast' = B!addIndex(thislast, words[B!nextIndex(thislast)] + 3)
    BY DEF B!skipOwn, B!Lock, B!history, B!Clauses, B!OfOthers, B!headerSize
<1>2. UNCHANGED <<words, head, tail, wordsUsed, lastOfThread, removedClauses, whenFullRemoveOlder>>
    BY <1>1 DEF B!code, B!ends
<1>3. PICK t \in B!Threads, p \in BufferIndex : t = threadId /\ p = thislast
    BY <1>1 DEF BufferInv, BufferTyping
<1>4. PICK b \in Nat : PlaceBefore(t, p, b)
    BY <1>1, <1>3 DEF BufferInv, PlacesRight
<1>5. b \in removedClauses + 1 .. Len(pushedClauses) + 1 /\ B!nextIndex(p) = B!Place(starts[b])
    BY <1>4 DEF PlaceBefore
<1>6. b \in removedClauses + 1 .. Len(pushedClauses) /\ b \in 1 .. Len(pushedClauses)
  <2>1. b # Len(pushedClauses) + 1
      BY <1>1, <1>3, <1>5, EndsAt DEF BufferInv
  <2> QED
      BY <1>5, <2>1 DEF BufferInv, BufferTyping
<1>7. /\ words[B!nextIndex(p)] = Len(pushedClauses[b].lits) /\ words[B!addIndex(p, 3)] = pushedClauses[b].origin
      /\ B!addIndex(p, WordCount(b)) \in BufferIndex
      /\ B!nextIndex(B!addIndex(p, WordCount(b))) = B!Place(starts[b + 1])
    BY <1>5, <1>6, ClauseAt DEF BufferInv
<1>8. thislast' = B!addIndex(p, WordCount(b)) /\ pushedClauses[b].origin = t
    BY <1>1, <1>3, <1>7 DEF WordCount, B!headerSize
<1>9. PICK q : q = thislast'
    OBVIOUS
<1>10. PlaceBefore(t, q, b + 1)
  <2>1. b + 1 \in removedClauses + 1 .. Len(pushedClauses) + 1 /\ passed[t] < b + 1
      BY <1>4, <1>6 DEF PlaceBefore, BufferInv, BufferTyping
  <2>2. \A i \in removedClauses + 1 .. (b + 1) - 1 : passed[t] < i => pushedClauses[i].origin = t
    <3>1. \A i \in removedClauses + 1 .. (b + 1) - 1 : i \in removedClauses + 1 .. b - 1 \/ i = b
        BY <1>6 DEF BufferInv, BufferTyping
    <3> QED
        BY <1>4, <1>8, <3>1 DEF PlaceBefore
  <2> QED
      BY <1>7, <1>8, <1>9, <2>1, <2>2 DEF PlaceBefore
<1>11. BufferTyping'
    BY <1>1, <1>2, <1>7, <1>8 DEF BufferInv, BufferTyping
<1>12. RemovalAllowed'
    BY <1>1 DEF RemovalAllowed
<1>13. PlacesRight'
  <2>1. PlaceBefore(t, q, b + 1)' /\ b + 1 \in Nat
      BY <1>1, <1>10, LocalsOnly
  <2>2. (\E c \in Nat : PlaceBefore(threadId, thislast, c))'
      BY <1>1, <1>3, <1>9, <2>1, OperationPut
  <2> QED
      BY <1>1, <2>2, LocalsOnly DEF BufferInv, PlacesRight
<1>14. B!DeliveredInOrder'
    BY <1>1 DEF BufferInv, B!DeliveredInOrder
<1> QED
    BY <1>1, <1>11, <1>12, <1>13, <1>14, LocalsOnly DEF BufferInv

\* A thread that finds nothing and stays, or is put, at the end.
LEMMA NothingForThread ==
    ASSUME BufferInv, NEW t \in B!Threads, NEW p \in BufferIndex, NEW b, PlaceBefore(t, p, b),
           B!nextIndex(p) = head, B!Return(t, B!NoClause),
           UNCHANGED <<words, head, tail, wordsUsed, removedClauses, whenFullRemoveOlder>>,
           lastOfThread' = [lastOfThread EXCEPT ![t] = p]
    PROVE  /\ ClausesApart' /\ B!WordsExact' /\ B!NothingLost' /\ B!DeliveredInOrder'
           /\ UNCHANGED <<pushedClauses, starts>>
           /\ passed' \in [B!Threads -> 0 .. Len(pushedClauses)]
           /\ lastOfThread' \in [B!Threads -> BufferIndex]
           /\ \A u \in B!Threads : (\E c \in Nat : PlaceBefore(u, lastOfThread[u], c)) =>
                 (\E c \in Nat : PlaceBefore(u, lastOfThread[u], c))'
           /\ (\E c \in Nat : PlaceBefore(t, lastOfThread[t], c))'
<1> DEFINE N == Len(pushedClauses)
<1>1. b = N + 1
    BY EndsAt DEF BufferInv, PlaceBefore
<1>2. B!Pending(t) = {}
    BY <1>1, DueAt DEF BufferInv
<1>3. /\ passed' = [passed EXCEPT ![t] = N] /\ UNCHANGED <<pushedClauses, starts>>
      /\ reply' = [got |-> B!NoClause, due |-> B!NoClause]
    BY <1>2 DEF B!Return
<1>4. N \in Nat /\ passed \in [B!Threads -> 0 .. N] /\ lastOfThread \in [B!Threads -> BufferIndex]
      /\ removedClauses \in 0 .. N
    BY DEF BufferInv, BufferTyping
<1>5. \A i \in removedClauses + 1 .. N : B!Unread(i)' = B!Unread(i)
    BY <1>2, <1>3, ThroughWithAll DEF BufferInv
<1>6. B!WordsExact'
    BY <1>3, <1>5, SameWordsExact DEF BufferInv
<1>7. \A u \in B!Threads : passed'[u] \in Nat /\ passed[u] <= passed'[u]
    BY <1>3, <1>4
<1>8. ClausesApart' /\ B!NothingLost' /\ B!DeliveredInOrder'
    BY <1>3, <1>7, SameClausesApart, ReadingLosesNothing DEF BufferInv, B!DeliveredInOrder
<1>9. PlaceBefore(t, p, b)'
  <2>1. /\ b \in removedClauses + 1 .. N + 1 /\ passed'[t] = N /\ N < b
        /\ \A i \in removedClauses + 1 .. b - 1 : ~(N < i)
      BY <1>1, <1>3, <1>4
  <2>2. B!nextIndex(p) = (B!Place(starts[b]))'
      BY <1>3 DEF PlaceBefore, B!Place
  <2> QED
      BY <1>3, <2>1, <2>2 DEF PlaceBefore
<1>10. b \in Nat /\ lastOfThread'[t] = p
    BY <1>1, <1>4
<1>11. (\E c \in Nat : PlaceBefore(t, lastOfThread[t], c))'
    BY <1>9, <1>10, ThreadPut
<1>12. ASSUME NEW u \in B!Threads, u # t, \E c \in Nat : PlaceBefore(u, lastOfThread[u], c)
       PROVE  (\E c \in Nat : PlaceBefore(u, lastOfThread[u], c))'
  <2>1. passed'[u] = passed[u] /\ lastOfThread'[u] = lastOfThread[u]
      BY <1>3, <1>4, <1>12
  <2> QED
      BY <1>3, <1>12, <2>1, ThreadStays
<1>13. passed' \in [B!Threads -> 0 .. N] /\ lastOfThread' \in [B!Threads -> BufferIndex]
    BY <1>3, <1>4
<1> QED
    BY <1>3, <1>6, <1>8, <1>11, <1>12, <1>13

\* The early exit of getClause: the thread's place is at the end.
LEMMA NoneGot ==
    ASSUME BufferInv, NEW t \in B!Threads, B!getClauseNone(t)
    PROVE  BufferInv'
<1>1. /\ op = "free" /\ B!nextIndex(lastOfThread[t]) = head /\ B!Return(t, B!NoClause)
      /\ UNCHANGED <<op, threadId, clause, thislast, words, head, tail, wordsUsed, lastOfThread,
                     removedClauses, whenFullRemoveOlder>>
    BY DEF B!getClauseNone, B!code, B!ends, B!locals
<1>2. PICK p \in BufferIndex : p = lastOfThread[t]
    BY DEF BufferInv, BufferTyping
<1>3. PICK b \in Nat : PlaceBefore(t, p, b)
    BY <1>1, <1>2 DEF BufferInv, PlacesRight
<1>4. lastOfThread' = [lastOfThread EXCEPT ![t] = p]
    BY <1>1, <1>2 DEF BufferInv, BufferTyping
<1>5. /\ ClausesApart' /\ B!WordsExact' /\ B!NothingLost' /\ B!DeliveredInOrder'
      /\ UNCHANGED <<pushedClauses, starts>>
      /\ passed' \in [B!Threads -> 0 .. Len(pushedClauses)]
      /\ lastOfThread' \in [B!Threads -> BufferIndex]
      /\ \A u \in B!Threads : (\E c \in Nat : PlaceBefore(u, lastOfThread[u], c)) =>
            (\E c \in Nat : PlaceBefore(u, lastOfThread[u], c))'
    BY <1>1, <1>2, <1>3, <1>4, NothingForThread
<1>6. BufferTyping'
    BY <1>1, <1>5 DEF BufferInv, BufferTyping
<1>7. PlacesRight'
    BY <1>1, <1>5 DEF BufferInv, PlacesRight
<1>8. RemovalAllowed'
    BY <1>1 DEF RemovalAllowed
<1> QED
    BY <1>5, <1>6, <1>7, <1>8 DEF BufferInv

\* getClause finds nothing but clauses of the thread's own.
LEMMA OwnOnly ==
    ASSUME BufferInv, B!getClauseOwn
    PROVE  BufferInv'
<1>1. /\ op = "get" /\ B!nextIndex(thislast) = head /\ B!Return(threadId, B!NoClause)
      /\ op' = "free" /\ thislast' = 0
      /\ lastOfThread' = [lastOfThread EXCEPT ![threadId] = thislast]
      /\ UNCHANGED <<words, head, tail, wordsUsed, removedClauses, whenFullRemoveOlder>>
    BY DEF B!getClauseOwn, B!Clauses, B!Unlock, B!Lock
<1>2. PICK t \in B!Threads, p \in BufferIndex : t = threadId /\ p = thislast
    BY <1>1 DEF BufferInv, BufferTyping
<1>3. PICK b \in Nat : PlaceBefore(t, p, b)
    BY <1>1, <1>2 DEF BufferInv, PlacesRight
<1>4. /\ ClausesApart' /\ B!WordsExact' /\ B!NothingLost' /\ B!DeliveredInOrder'
      /\ UNCHANGED <<pushedClauses, starts>>
      /\ passed' \in [B!Threads -> 0 .. Len(pushedClauses)]
      /\ lastOfThread' \in [B!Threads -> BufferIndex]
      /\ \A u \in B!Threads : (\E c \in Nat : PlaceBefore(u, lastOfThread[u], c)) =>
            (\E c \in Nat : PlaceBefore(u, lastOfThread[u], c))'
    BY <1>1, <1>2, <1>3, NothingForThread
<1>5. BufferTyping'
  <2>1. 0 \in BufferIndex
      BY BufferSizes DEF BufferIndex
  <2> QED
      BY <1>1, <1>4, <2>1 DEF BufferInv, BufferTyping
<1>6. PlacesRight'
    BY <1>1, <1>4 DEF BufferInv, PlacesRight
<1>7. RemovalAllowed'
    BY <1>1 DEF RemovalAllowed
<1> QED
    BY <1>4, <1>5, <1>6, <1>7 DEF BufferInv

\* The oldest clause is there as long as words are.
LEMMA OldestThere ==
    ASSUME BufferInv
    PROVE  /\ wordsUsed > 0 <=> removedClauses < Len(pushedClauses)
           /\ removedClauses < Len(pushedClauses) =>
                 words[B!addIndex(tail, 2)] = Cardinality(B!Unread(removedClauses + 1))
<1> DEFINE N == Len(pushedClauses)
           r == removedClauses + 1
<1>1. N \in Nat /\ removedClauses \in 0 .. N /\ r \in 1 .. N + 1 /\ N + 1 \in 1 .. N + 1 /\ tail \in BufferIndex
    BY DEF BufferInv, BufferTyping
<1>2. wordsUsed = starts[N + 1] - starts[r] /\ wordsUsed \in Nat
    BY DEF BufferInv, BufferTyping, B!WordsExact
<1>3. /\ starts[r] \in Nat /\ starts[N + 1] \in Nat
      /\ r < N + 1 => starts[r] + 3 <= starts[N + 1]
    BY <1>1, ClauseFacts DEF BufferInv
<1>4. wordsUsed > 0 <=> removedClauses < N
  <2>1. CASE r = N + 1
    <3>1. starts[r] = starts[N + 1]
        BY <2>1
    <3> HIDE DEF r, N
    <3>2. ~(wordsUsed > 0)
        BY <1>2, <1>3, <3>1
    <3> QED
        BY <1>1, <2>1, <3>2 DEF r, N
  <2>2. CASE r < N + 1
    <3>1. starts[r] + 3 <= starts[N + 1]
        BY <1>3, <2>2
    <3> HIDE DEF r, N
    <3>2. wordsUsed > 0
        BY <1>2, <1>3, <3>1
    <3> QED
        BY <1>1, <2>2, <3>2 DEF r, N
  <2> QED
      BY <1>1, <2>1, <2>2
<1>5. ASSUME removedClauses < N
      PROVE  words[B!addIndex(tail, 2)] = Cardinality(B!Unread(r))
  <2>1. r \in removedClauses + 1 .. N
      BY <1>1, <1>5
  <2>2. B!nextIndex(tail) = B!Place(starts[r])
    <3>1. starts[r] - starts[r] = 0 /\ 0 \in BufferIndex
        BY <1>3, BufferSizes DEF BufferIndex
    <3>2. B!addIndex(B!nextIndex(tail), 0) = B!nextIndex(tail)
        BY <1>1, <3>1, AddIndex
    <3> QED
        BY <3>1, <3>2 DEF B!Place
  <2> HIDE DEF r
  <2> QED
      BY <1>1, <2>1, <2>2, ClauseAt DEF BufferInv
<1> QED
    BY <1>4, <1>5

\* The removals after a clause was got stop, and the thread's place is set.
LEMMA RemovedAfter ==
    ASSUME BufferInv, B!removedAfter
    PROVE  BufferInv'
<1>1. /\ op = "getRemoves" /\ ~(wordsUsed > 0 /\ words[B!addIndex(tail, 2)] = 0)
      /\ op' = "free" /\ thislast' = 0
      /\ lastOfThread' = [lastOfThread EXCEPT ![threadId] = tail]
      /\ UNCHANGED <<words, head, tail, wordsUsed, removedClauses, whenFullRemoveOlder,
                     pushedClauses, starts, passed, reply>>
    BY DEF B!removedAfter, B!OldestRead, B!Unlock, B!Lock, B!history
<1>2. PICK t \in B!Threads : t = threadId
    BY <1>1 DEF BufferInv, BufferTyping
<1> DEFINE N == Len(pushedClauses)
<1>3. /\ N \in Nat /\ removedClauses \in 0 .. N /\ passed \in [B!Threads -> 0 .. N]
      /\ lastOfThread \in [B!Threads -> BufferIndex] /\ tail \in BufferIndex
    BY DEF BufferInv, BufferTyping
<1>4. passed[t] <= removedClauses
  <2> SUFFICES ASSUME passed[t] = removedClauses + 1, B!Unread(removedClauses + 1) = {} PROVE FALSE
      BY <1>1, <1>2 DEF BufferInv, PlacesRight
  <2>1. removedClauses < N
      BY <1>3
  <2>2. wordsUsed > 0 /\ words[B!addIndex(tail, 2)] = 0
      BY <2>1, OldestThere, FS_EmptySet
  <2> QED
      BY <1>1, <2>2
<1>5. PICK p, b : p = tail /\ b = removedClauses + 1
    OBVIOUS
<1>6. PlaceBefore(t, p, b)
  <2>1. starts[b] \in Nat
    <3>1. b \in 1 .. N + 1
        BY <1>3, <1>5
    <3> QED
        BY <3>1, ClauseFacts DEF BufferInv
  <2>2. B!nextIndex(tail) = B!Place(starts[b])
    <3>1. starts[b] - starts[b] = 0 /\ 0 \in BufferIndex
        BY <2>1, BufferSizes DEF BufferIndex
    <3>2. B!addIndex(B!nextIndex(tail), 0) = B!nextIndex(tail)
        BY <1>3, <3>1, AddIndex
    <3> QED
        BY <1>5, <3>1, <3>2 DEF B!Place
  <2> QED
      BY <1>3, <1>4, <1>5, <2>2 DEF PlaceBefore
<1>7. (\E c \in Nat : PlaceBefore(t, lastOfThread[t], c))'
  <2>1. PlaceBefore(t, p, b)' /\ b \in Nat /\ p = lastOfThread'[t]
      BY <1>1, <1>2, <1>3, <1>5, <1>6, SamePlace
  <2> QED
      BY <2>1, ThreadPut
<1>8. ASSUME NEW u \in B!Threads, u # t
      PROVE  (\E c \in Nat : PlaceBefore(u, lastOfThread[u], c))'
  <2>1. lastOfThread'[u] = lastOfThread[u] /\ passed'[u] = passed[u]
      BY <1>1, <1>2, <1>3, <1>8
  <2>2. \E c \in Nat : PlaceBefore(u, lastOfThread[u], c)
      BY <1>1, <1>2, <1>8 DEF BufferInv, PlacesRight
  <2> QED
      BY <1>1, <2>1, <2>2, ThreadStays
<1>9. PlacesRight'
    BY <1>1, <1>7, <1>8 DEF PlacesRight
<1>10. BufferTyping'
  <2>1. 0 \in BufferIndex
      BY BufferSizes DEF BufferIndex
  <2> QED
      BY <1>1, <2>1 DEF BufferInv, BufferTyping
<1>11. B!WordsExact'
  <2>1. \A i : B!Unread(i)' = B!Unread(i)
      BY <1>1 DEF B!Unread
  <2> QED
      BY <1>1, <2>1, SameWordsExact DEF BufferInv
<1>12. ClausesApart' /\ B!NothingLost' /\ RemovalAllowed' /\ B!DeliveredInOrder'
  <2>1. \A u \in B!Threads : passed'[u] \in Nat /\ passed[u] <= passed'[u]
      BY <1>1, <1>3
  <2> QED
      BY <1>1, <2>1, SameClausesApart, ReadingLosesNothing DEF BufferInv, B!DeliveredInOrder, RemovalAllowed
<1> QED
    BY <1>9, <1>10, <1>11, <1>12 DEF BufferInv

\* What a round of removeLastClause keeps.
LEMMA RoundKeeps ==
    ASSUME BufferInv, removedClauses < Len(pushedClauses), B!removeOne,
           whenFullRemoveOlder \/ B!Unread(removedClauses + 1) = {}
    PROVE  /\ ClausesApart' /\ B!WordsExact' /\ B!NothingLost' /\ B!DeliveredInOrder'
           /\ UNCHANGED <<words, head, whenFullRemoveOlder, pushedClauses, starts, passed>>
           /\ tail' \in BufferIndex /\ wordsUsed' \in Nat
           /\ removedClauses' = removedClauses + 1 /\ removedClauses' \in 0 .. Len(pushedClauses)
           /\ lastOfThread' \in [B!Threads -> BufferIndex]
           /\ \A t \in B!Threads : (\E b \in Nat : PlaceBefore(t, lastOfThread[t], b)) =>
                 (\E b \in Nat : PlaceBefore(t, lastOfThread[t], b))'
<1> DEFINE N == Len(pushedClauses)
<1>1. UNCHANGED <<words, head, whenFullRemoveOlder, pushedClauses, starts, passed, reply>>
    BY DEF B!removeOne, B!history
<1>2. /\ N \in Nat /\ removedClauses \in 0 .. N /\ lastOfThread \in [B!Threads -> BufferIndex]
      /\ passed \in [B!Threads -> 0 .. N]
    BY DEF BufferInv, BufferTyping
<1>3. /\ removedClauses' = removedClauses + 1 /\ tail' \in BufferIndex /\ wordsUsed' \in Nat
      /\ lastOfThread' = [t \in B!Threads |-> IF lastOfThread[t] = tail THEN tail' ELSE lastOfThread[t]]
    BY OldestGoes DEF BufferInv
<1>4. B!WordsExact'
    BY RoundKeepsWords DEF BufferInv
<1>5. B!NothingLost'
  <2> SUFFICES ASSUME ~whenFullRemoveOlder, NEW i \in 1 .. removedClauses + 1, NEW t \in B!Threads
               PROVE  passed[t] >= i \/ pushedClauses[i].origin = t
      BY <1>1, <1>3 DEF B!NothingLost
  <2>1. CASE i \in 1 .. removedClauses
      BY <2>1 DEF BufferInv, B!NothingLost
  <2>2. CASE i = removedClauses + 1
    <3>1. t \notin B!Unread(i)
        BY <2>2
    <3>2. pushedClauses[i].origin = t \/ ~(passed[t] < i)
        BY <3>1 DEF B!Unread
    <3> QED
        BY <1>2, <2>2, <3>2
  <2> QED
      BY <1>2, <2>1, <2>2
<1>6. ASSUME NEW t \in B!Threads, \E b \in Nat : PlaceBefore(t, lastOfThread[t], b)
      PROVE  (\E b \in Nat : PlaceBefore(t, lastOfThread[t], b))'
  <2>1. PICK p \in BufferIndex, q \in BufferIndex : p = lastOfThread[t] /\ q = IF p = tail THEN tail' ELSE p
      BY <1>2, <1>3
  <2>2. PICK b : PlaceBefore(t, p, b)
      BY <1>6, <2>1
  <2>3. \E c \in Nat : PlaceBefore(t, q, c)'
      BY <2>1, <2>2, RoundKeepsPlace DEF BufferInv
  <2>4. q = lastOfThread'[t]
      BY <1>3, <2>1
  <2> QED
      BY <2>3, <2>4, ThreadPut
<1>7. ClausesApart' /\ B!DeliveredInOrder'
    BY <1>1, SameClausesApart DEF BufferInv, B!DeliveredInOrder
<1>8. removedClauses' \in 0 .. N /\ lastOfThread' \in [B!Threads -> BufferIndex]
    BY <1>2, <1>3
<1> QED
    BY <1>1, <1>3, <1>4, <1>5, <1>6, <1>7, <1>8

\* The oldest clause is taken out to make room.
LEMMA RoomBegins ==
    ASSUME BufferInv, B!makeRoom
    PROVE  BufferInv'
<1>1. /\ op = "push" /\ wordsUsed + Len(clause) + 3 >= bufferSize /\ B!Full(clause) /\ B!removeOne
      /\ op' = "pushRemoves" /\ threadId' = threadId /\ clause' = clause /\ thislast' = 0
    BY DEF B!makeRoom, B!Full, B!headerSize, B!Lock
<1>2. whenFullRemoveOlder
    BY <1>1 DEF BufferInv, RemovalAllowed
<1>3. removedClauses < Len(pushedClauses)
  <2>1. clause \in SharedClauses /\ wordsUsed \in Nat
      BY <1>1 DEF BufferInv, BufferTyping
  <2>2. Len(clause) \in Nat /\ Len(clause) + 3 < bufferSize
      BY <2>1, BufferSizes
  <2>3. wordsUsed > 0
      BY <1>1, <2>1, <2>2, BufferSizes
  <2> QED
      BY <2>3, OldestThere
<1>4. /\ ClausesApart' /\ B!WordsExact' /\ B!NothingLost' /\ B!DeliveredInOrder'
      /\ UNCHANGED <<words, head, whenFullRemoveOlder, pushedClauses, starts, passed>>
      /\ tail' \in BufferIndex /\ wordsUsed' \in Nat
      /\ removedClauses' \in 0 .. Len(pushedClauses)
      /\ lastOfThread' \in [B!Threads -> BufferIndex]
      /\ \A t \in B!Threads : (\E b \in Nat : PlaceBefore(t, lastOfThread[t], b)) =>
            (\E b \in Nat : PlaceBefore(t, lastOfThread[t], b))'
    BY <1>1, <1>2, <1>3, RoundKeeps
<1>5. BufferTyping'
  <2>1. 0 \in BufferIndex
      BY BufferSizes DEF BufferIndex
  <2> QED
      BY <1>1, <1>4, <2>1 DEF BufferInv, BufferTyping
<1>6. PlacesRight' /\ RemovalAllowed'
    BY <1>1, <1>2, <1>4 DEF BufferInv, PlacesRight, RemovalAllowed
<1> QED
    BY <1>4, <1>5, <1>6 DEF BufferInv

\* One more clause that all have read is taken out.
LEMMA NextRemoved ==
    ASSUME BufferInv, B!removeNext
    PROVE  BufferInv'
<1>1. /\ op \in {"pushRemoves", "getRemoves"} /\ wordsUsed > 0 /\ words[B!addIndex(tail, 2)] = 0
      /\ B!removeOne /\ UNCHANGED <<op, threadId, clause, thislast>>
    BY DEF B!removeNext, B!OldestRead, B!locals
<1>2. removedClauses < Len(pushedClauses) /\ B!Unread(removedClauses + 1) = {}
  <2>1. removedClauses < Len(pushedClauses) /\ Cardinality(B!Unread(removedClauses + 1)) = 0
      BY <1>1, OldestThere
  <2>2. B!Unread(removedClauses + 1) \in SUBSET B!Threads
      BY DEF B!Unread
  <2> QED
      BY <2>1, <2>2, UnreadCounted
<1>3. /\ ClausesApart' /\ B!WordsExact' /\ B!NothingLost' /\ B!DeliveredInOrder'
      /\ UNCHANGED <<words, head, whenFullRemoveOlder, pushedClauses, starts, passed>>
      /\ tail' \in BufferIndex /\ wordsUsed' \in Nat
      /\ removedClauses' = removedClauses + 1 /\ removedClauses' \in 0 .. Len(pushedClauses)
      /\ lastOfThread' \in [B!Threads -> BufferIndex]
      /\ \A t \in B!Threads : (\E b \in Nat : PlaceBefore(t, lastOfThread[t], b)) =>
            (\E b \in Nat : PlaceBefore(t, lastOfThread[t], b))'
    BY <1>1, <1>2, RoundKeeps
<1>4. BufferTyping'
    BY <1>1, <1>3 DEF BufferInv, BufferTyping
<1>5. RemovalAllowed'
    BY <1>1, <1>3 DEF BufferInv, RemovalAllowed
<1>6. PlacesRight'
  <2>1. op = "getRemoves" => passed[threadId] \in Nat /\ removedClauses \in Nat /\ passed[threadId] <= removedClauses + 1
      BY DEF BufferInv, PlacesRight, BufferTyping
  <2>2. op' = "getRemoves" => passed'[threadId'] <= removedClauses'
      BY <1>1, <1>3, <2>1
  <2> QED
      BY <1>1, <1>3, <2>2 DEF BufferInv, PlacesRight
<1> QED
    BY <1>3, <1>4, <1>5, <1>6 DEF BufferInv

\* A word of a clause is at no other place than the words of others.
LEMMA WordsApart ==
    ASSUME BufferTyping, ClausesApart, B!WordsExact,
           NEW i \in removedClauses + 1 .. Len(pushedClauses), NEW k \in 1 .. WordCount(i),
           NEW j \in removedClauses + 1 .. Len(pushedClauses), NEW l \in 1 .. WordCount(j),
           B!Place(starts[i] + k - 1) = B!Place(starts[j] + l - 1)
    PROVE  i = j /\ k = l
<1> DEFINE N == Len(pushedClauses)
           r == removedClauses + 1
           o == B!nextIndex(tail)
<1>1. N \in Nat /\ removedClauses \in 0 .. N /\ i \in 1 .. N /\ j \in 1 .. N /\ tail \in BufferIndex
    BY DEF BufferTyping
<1>2. /\ starts[r] \in Nat /\ starts[N + 1] \in Nat /\ starts[i] \in Nat /\ starts[j] \in Nat
      /\ WordCount(i) \in Nat /\ WordCount(j) \in Nat
      /\ starts[r] <= starts[i] /\ starts[r] <= starts[j]
      /\ starts[i] + WordCount(i) <= starts[N + 1] /\ starts[j] + WordCount(j) <= starts[N + 1]
  <2>1. /\ r \in 1 .. N + 1 /\ N + 1 \in 1 .. N + 1 /\ i \in 1 .. N + 1 /\ j \in 1 .. N + 1
        /\ r <= i /\ r <= j /\ N + 1 \in i + 1 .. N + 1 /\ N + 1 \in j + 1 .. N + 1
      BY <1>1
  <2>2. starts[i] + WordCount(i) <= starts[N + 1] /\ starts[j] + WordCount(j) <= starts[N + 1]
      BY <1>1, <2>1 DEF ClausesApart
  <2>3. /\ starts[r] \in Nat /\ starts[N + 1] \in Nat /\ starts[i] \in Nat /\ starts[j] \in Nat
        /\ WordCount(i) \in Nat /\ WordCount(j) \in Nat
        /\ starts[r] <= starts[i] /\ starts[r] <= starts[j]
      BY <1>1, <2>1, ClauseFacts
  <2> QED
      BY <2>2, <2>3
<1>3. wordsUsed = starts[N + 1] - starts[r] /\ wordsUsed < bufferSize /\ wordsUsed \in Nat
    BY DEF BufferTyping, B!WordsExact
<1>4. /\ i < j => starts[i] + WordCount(i) <= starts[j]
      /\ j < i => starts[j] + WordCount(j) <= starts[i]
  <2>1. i < j => j \in i + 1 .. N + 1
      BY <1>1
  <2>2. j < i => i \in j + 1 .. N + 1
      BY <1>1
  <2> QED
      BY <1>1, <2>1, <2>2 DEF ClausesApart
<1>5. PICK a, b, n, m, s, z :
         /\ a = starts[i] /\ b = starts[j] /\ n = WordCount(i) /\ m = WordCount(j)
         /\ s = starts[r] /\ z = starts[N + 1]
    OBVIOUS
<1>6. o \in BufferIndex
    BY <1>1, BufferSizes DEF B!nextIndex, BufferIndex
<1>7. /\ a \in Nat /\ b \in Nat /\ n \in Nat /\ m \in Nat /\ s \in Nat /\ z \in Nat
      /\ s <= a /\ s <= b /\ a + n <= z /\ b + m <= z /\ z - s < bufferSize
      /\ k \in 1 .. n /\ l \in 1 .. m
    BY <1>2, <1>3, <1>5
<1> DEFINE d == (starts[i] + k - 1) - starts[r]
           e == (starts[j] + l - 1) - starts[r]
<1>13. d = (a + k - 1) - s /\ e = (b + l - 1) - s
    BY <1>5, <1>7
<1>14. B!addIndex(o, d) = B!addIndex(o, e)
    BY DEF B!Place
<1>9. (i < j => a + n <= b) /\ (j < i => b + m <= a) /\ (i = j => a = b)
    BY <1>4, <1>5
<1> HIDE DEF o, r, N, d, e
<1>10. a + k = b + l
  <2>1. d \in BufferIndex /\ e \in BufferIndex
      BY <1>7, <1>13, BufferSizes DEF BufferIndex
  <2>2. d = e
      BY <1>6, <1>14, <2>1, BufferSizes DEF BufferIndex, B!addIndex
  <2> QED
      BY <1>7, <1>13, <2>2
<1>11. ~(i < j) /\ ~(j < i)
    BY <1>7, <1>9, <1>10
<1>12. i = j
    BY <1>1, <1>11
<1> QED
    BY <1>7, <1>9, <1>10, <1>12

\* One reader less for clause b.
LEMMA CounterGoesDown ==
    ASSUME BufferTyping, ClausesApart, B!WordsExact,
           UNCHANGED <<head, tail, wordsUsed, removedClauses, pushedClauses, starts>>,
           NEW b \in removedClauses + 1 .. Len(pushedClauses), NEW t \in B!Unread(b),
           B!Unread(b)' = B!Unread(b) \ {t},
           \A i \in removedClauses + 1 .. Len(pushedClauses) : i # b => B!Unread(i)' = B!Unread(i),
           NEW seen, seen = B!Place(starts[b] + 1),
           words' = [words EXCEPT ![seen] = words[seen] - 1]
    PROVE  /\ B!WordsExact' /\ words' \in [BufferIndex -> Int]
           /\ words'[seen] = Cardinality(B!Unread(b)')
<1> DEFINE N == Len(pushedClauses)
<1>1. N \in Nat /\ removedClauses \in 0 .. N /\ b \in 1 .. N /\ words \in [BufferIndex -> Int]
    BY DEF BufferTyping
<1>2. WordCount(b) \in Nat /\ WordCount(b) >= 3 /\ starts[b] \in Nat /\ starts[b] + 1 = starts[b] + 2 - 1
    BY <1>1, ClauseFacts
<1>3. Len(B!Words(b)) = WordCount(b) /\ B!Words(b)[2] = Cardinality(B!Unread(b))
    BY <1>1, WordsCounted
<1>4. words[seen] = Cardinality(B!Unread(b))
  <2>1. 2 \in 1 .. Len(B!Words(b))
      BY <1>2, <1>3
  <2>2. words[B!Place(starts[b] + 2 - 1)] = B!Words(b)[2]
      BY <2>1 DEF B!WordsExact
  <2> QED
      BY <1>2, <1>3, <2>2
<1>5. /\ Cardinality(B!Unread(b)) \in Nat
      /\ Cardinality(B!Unread(b)') = Cardinality(B!Unread(b)) - 1
  <2>1. PICK S : S = B!Unread(b)
      OBVIOUS
  <2>2. S \in SUBSET B!Threads /\ t \in S
      BY <2>1 DEF B!Unread
  <2>3. Cardinality(S) \in Nat /\ Cardinality(S \ {t}) = Cardinality(S) - 1
      BY <2>2, UnreadCounted
  <2>4. B!Unread(b)' = S \ {t}
      BY <2>1
  <2> QED
      BY <2>1, <2>3, <2>4
<1>6. seen \in BufferIndex
  <2>1. PICK r, x, z, o : /\ r = starts[removedClauses + 1] /\ x = starts[b] /\ z = starts[N + 1]
                          /\ o = B!nextIndex(tail)
      OBVIOUS
  <2>2. /\ r \in Nat /\ x \in Nat /\ z \in Nat /\ r <= x /\ x + 3 <= z
    <3>1. /\ removedClauses + 1 \in 1 .. N + 1 /\ b \in 1 .. N + 1 /\ N + 1 \in 1 .. N + 1
          /\ removedClauses + 1 <= b /\ b < N + 1
        BY <1>1
    <3> HIDE DEF N
    <3> QED
        BY <2>1, <3>1, ClauseFacts DEF N
  <2>3. z - r < bufferSize
      BY <2>1 DEF B!WordsExact
  <2> DEFINE d == (starts[b] + 1) - starts[removedClauses + 1]
  <2>4. d = (x + 1) - r
      BY <2>1
  <2>6. o \in BufferIndex
      BY <2>1, BufferSizes DEF B!nextIndex, BufferIndex, BufferTyping
  <2>8. seen = B!addIndex(B!nextIndex(tail), d)
      BY DEF B!Place
  <2> HIDE DEF d
  <2>5. d \in BufferIndex
      BY <2>2, <2>3, <2>4, BufferSizes DEF BufferIndex
  <2>7. seen = B!addIndex(o, d)
      BY <2>1, <2>8
  <2> QED
      BY <2>5, <2>6, <2>7, AddIndex
<1>7. words'[seen] = Cardinality(B!Unread(b)') /\ words' \in [BufferIndex -> Int]
    BY <1>1, <1>4, <1>5, <1>6
<1>8. ASSUME NEW i \in removedClauses + 1 .. N
      PROVE  /\ Len(B!Words(i)') = WordCount(i)
             /\ \A k \in 1 .. WordCount(i) : i # b \/ k # 2 => B!Words(i)'[k] = B!Words(i)[k]
             /\ i = b => B!Words(i)'[2] = Cardinality(B!Unread(b)')
  <2> DEFINE lits == pushedClauses[i].lits
             w == <<Len(lits), Cardinality(B!Unread(i)'), pushedClauses[i].origin>> \o lits
  <2>1. B!Words(i)' = w
      BY SameCardinality DEF B!Words
  <2>2. i \in 1 .. N /\ lits \in Seq(Nat) /\ WordCount(i) = Len(lits) + 3 /\ Len(lits) \in Nat
      BY <1>1, <1>8, ClauseFacts
  <2>3. /\ Len(w) = Len(lits) + 3
        /\ w[1] = Len(lits) /\ w[2] = Cardinality(B!Unread(i)') /\ w[3] = pushedClauses[i].origin
        /\ \A k \in 1 .. Len(lits) : w[k + 3] = lits[k]
      BY <2>2, WordList
  <2>4. /\ B!Words(i)[1] = Len(lits) /\ B!Words(i)[2] = Cardinality(B!Unread(i))
        /\ B!Words(i)[3] = pushedClauses[i].origin
        /\ \A k \in 1 .. Len(lits) : B!Words(i)[k + 3] = lits[k]
      BY <2>2, WordsCounted
  <2>5. i # b => B!Unread(i)' = B!Unread(i)
      BY <1>8
  <2> HIDE DEF w, lits
  <2>6. ASSUME NEW k \in 1 .. WordCount(i), i # b \/ k # 2
        PROVE  w[k] = B!Words(i)[k]
    <3>1. CASE k = 1
        BY <2>3, <2>4, <3>1
    <3>2. CASE k = 2
        BY <2>3, <2>4, <2>5, <2>6, <3>2
    <3>3. CASE k = 3
        BY <2>3, <2>4, <3>3
    <3>4. CASE k > 3
      <4>1. PICK m : m = k - 3
          OBVIOUS
      <4>2. m \in 1 .. Len(lits) /\ m + 3 = k
          BY <2>2, <3>4, <4>1
      <4> QED
          BY <2>3, <2>4, <4>2
    <3> QED
        BY <2>2, <3>1, <3>2, <3>3, <3>4
  <2> QED
      BY <2>1, <2>2, <2>3, <2>6
<1>9. ASSUME NEW i \in removedClauses + 1 .. N, NEW k \in 1 .. WordCount(i)
      PROVE  words'[B!Place(starts[i] + k - 1)] = B!Words(i)'[k]
  <2>1. CASE i = b /\ k = 2
      BY <1>2, <1>7, <1>8, <2>1
  <2>2. CASE i # b \/ k # 2
    <3>1. B!Place(starts[i] + k - 1) # seen
      <4>1. 2 \in 1 .. WordCount(b)
          BY <1>2
      <4> QED
          BY <1>2, <2>2, <4>1, WordsApart
    <3>2. words[B!Place(starts[i] + k - 1)] = B!Words(i)[k]
      <4>1. Len(B!Words(i)) = WordCount(i)
          BY <1>1, <1>9, WordsCounted
      <4> QED
          BY <1>9, <4>1 DEF B!WordsExact
    <3>3. words'[B!Place(starts[i] + k - 1)] = words[B!Place(starts[i] + k - 1)]
        BY <1>1, <3>1
    <3> QED
        BY <1>8, <2>2, <3>2, <3>3
  <2> QED
      BY <2>1, <2>2
<1>10. B!WordsExact'
  <2>1. \A u : B!Place(u)' = B!Place(u)
      BY DEF B!Place
  <2>2. /\ wordsUsed = starts[N + 1] - starts[removedClauses + 1] /\ wordsUsed < bufferSize
        /\ head = B!Place(starts[N + 1])
      BY DEF B!WordsExact
  <2>3. (B!Place(starts[N + 1]))' = B!Place(starts[N + 1])
      BY DEF B!Place
  <2>4. /\ head' = head /\ wordsUsed' = wordsUsed /\ starts' = starts
        /\ removedClauses' + 1 = removedClauses + 1
        /\ Len(pushedClauses') + 1 = N + 1 /\ Len(pushedClauses') = N
      OBVIOUS
  <2>5. ASSUME NEW i \in removedClauses' + 1 .. Len(pushedClauses'), NEW k \in 1 .. Len(B!Words(i)')
        PROVE  words'[(B!Place(starts[i] + k - 1))'] = B!Words(i)'[k]
    <3>1. i \in removedClauses + 1 .. N
        BY <2>4, <2>5
    <3>2. k \in 1 .. WordCount(i)
        BY <1>8, <2>5, <3>1
    <3>3. (B!Place(starts[i] + k - 1))' = B!Place(starts[i] + k - 1)
        BY DEF B!Place
    <3> QED
        BY <1>9, <3>1, <3>2, <3>3
  <2>6. wordsUsed' = starts'[Len(pushedClauses') + 1] - starts'[removedClauses' + 1] /\ wordsUsed' < bufferSize
      BY <2>2, <2>4
  <2>7. head' = (B!Place(starts[Len(pushedClauses) + 1]))'
      BY <2>2, <2>3, <2>4
  <2> QED
      BY <2>5, <2>6, <2>7 DEF B!WordsExact
<1> QED
    BY <1>7, <1>10
\* What getClause does to the words, what it gives, and where it goes on.
OneReaderLess(seen) == words' = [words EXCEPT ![seen] = words[seen] - 1]
Given(p) == [origin |-> words[B!addIndex(p, 3)], lits |-> B!Popped(p, words[B!nextIndex(p)])]
Behind(p) == B!addIndex(p, words[B!nextIndex(p)] + 3)

\* A thread is given the clause behind its place.
LEMMA ClauseRead ==
    ASSUME BufferInv, NEW t \in B!Threads, NEW p \in BufferIndex, NEW b \in Nat, PlaceBefore(t, p, b),
           B!nextIndex(p) # head, words[B!addIndex(p, 3)] # t,
           NEW seen, seen = B!addIndex(p, 2), OneReaderLess(seen),
           NEW got, got = Given(p), B!Return(t, got),
           UNCHANGED <<head, tail, wordsUsed, removedClauses, whenFullRemoveOlder>>,
           NEW q, q = Behind(p)
    PROVE  /\ ClausesApart' /\ B!WordsExact' /\ B!NothingLost' /\ B!DeliveredInOrder'
           /\ UNCHANGED <<pushedClauses, starts>>
           /\ passed' = [passed EXCEPT ![t] = b]
           /\ passed' \in [B!Threads -> 0 .. Len(pushedClauses)]
           /\ words' \in [BufferIndex -> Int] /\ words'[seen] = Cardinality(B!Unread(b)')
           /\ b \in removedClauses + 1 .. Len(pushedClauses) /\ (p = tail <=> b = removedClauses + 1)
           /\ q \in BufferIndex /\ PlaceBefore(t, q, b + 1)'
<1> DEFINE N == Len(pushedClauses)
<1>1. BufferTyping /\ ClausesApart /\ B!WordsExact /\ B!NothingLost
    BY DEF BufferInv
<1>2. N \in Nat /\ removedClauses \in 0 .. N /\ passed \in [B!Threads -> 0 .. N]
    BY <1>1 DEF BufferTyping
<1>3. b \in removedClauses + 1 .. N + 1 /\ B!nextIndex(p) = B!Place(starts[b]) /\ passed[t] < b
    BY DEF PlaceBefore
<1>4. b # N + 1 /\ (p = tail <=> b = removedClauses + 1)
    BY <1>1, <1>3, EndsAt
<1>5. b \in removedClauses + 1 .. N /\ b \in 1 .. N
    BY <1>2, <1>3, <1>4
<1>6. /\ words[B!nextIndex(p)] = Len(pushedClauses[b].lits) /\ words[B!addIndex(p, 3)] = pushedClauses[b].origin
      /\ B!Popped(p, Len(pushedClauses[b].lits)) = pushedClauses[b].lits
      /\ B!addIndex(p, WordCount(b)) \in BufferIndex
      /\ B!nextIndex(B!addIndex(p, WordCount(b))) = B!Place(starts[b + 1])
      /\ seen = B!Place(starts[b] + 1)
    BY <1>1, <1>3, <1>5, ClauseAt
<1>7. q = B!addIndex(p, WordCount(b)) /\ pushedClauses[b].origin # t
    BY <1>6 DEF WordCount, B!headerSize, Behind
<1>8. /\ B!Pending(t) # {} /\ B!Earliest(B!Pending(t)) = b
      /\ b \in B!Pending(t) /\ \A i \in B!Pending(t) : b <= i
  <2>1. b <= N
      BY <1>5
  <2> QED
      BY <1>1, <1>7, <2>1, DueAt
<1>9. /\ passed' = [passed EXCEPT ![t] = b] /\ UNCHANGED <<pushedClauses, starts>>
      /\ reply'.due = pushedClauses[b]
      /\ reply'.got = got /\ got = [origin |-> pushedClauses[b].origin, lits |-> pushedClauses[b].lits]
    BY <1>6, <1>8 DEF B!Return, Given
<1>10. B!DeliveredInOrder'
  <2>1. pushedClauses[b] \in BufferClause
      BY <1>1, <1>5 DEF BufferTyping
  <2>2. pushedClauses[b] = [origin |-> pushedClauses[b].origin, lits |-> pushedClauses[b].lits]
      BY <2>1 DEF BufferClause
  <2> QED
      BY <1>9, <2>2 DEF B!DeliveredInOrder
<1>11. /\ B!Unread(b)' = B!Unread(b) \ {t} /\ t \in B!Unread(b)
       /\ \A i \in removedClauses + 1 .. N : i # b => B!Unread(i)' = B!Unread(i)
    BY <1>1, <1>5, <1>8, <1>9, ThroughWithOne
<1>12. B!WordsExact' /\ words' \in [BufferIndex -> Int] /\ words'[seen] = Cardinality(B!Unread(b)')
    BY <1>1, <1>5, <1>6, <1>9, <1>11, CounterGoesDown DEF OneReaderLess
<1>13. passed' \in [B!Threads -> 0 .. N]
    BY <1>2, <1>5, <1>9
<1>14. \A u \in B!Threads : passed'[u] \in Nat /\ passed[u] <= passed'[u]
    BY <1>2, <1>3, <1>5, <1>9
<1>15. ClausesApart' /\ B!NothingLost'
    BY <1>1, <1>9, <1>14, SameClausesApart, ReadingLosesNothing
<1>16. PlaceBefore(t, q, b + 1)'
  <2>1. b + 1 \in removedClauses + 1 .. N + 1 /\ passed'[t] = b /\ b < b + 1
      BY <1>2, <1>5, <1>9
  <2>2. \A i \in removedClauses + 1 .. (b + 1) - 1 : ~(passed'[t] < i)
      BY <1>2, <1>5, <2>1
  <2>3. B!nextIndex(q) = (B!Place(starts[b + 1]))'
      BY <1>6, <1>7, <1>9 DEF B!Place
  <2> QED
      BY <1>9, <2>1, <2>2, <2>3 DEF PlaceBefore
<1> QED
    BY <1>4, <1>5, <1>6, <1>7, <1>9, <1>10, <1>12, <1>13, <1>15, <1>16

\* getClause hands a clause to the thread and counts it down.
LEMMA Found ==
    ASSUME BufferInv, B!getClauseFound
    PROVE  BufferInv'
<1>1. /\ op = "get" /\ B!nextIndex(thislast) # head /\ words[B!addIndex(thislast, 3)] # threadId
      /\ words' = [words EXCEPT ![B!addIndex(thislast, 2)] = words[B!addIndex(thislast, 2)] - 1]
      /\ B!Return(threadId, [origin |-> words[B!addIndex(thislast, 3)],
                             lits |-> B!Popped(thislast, words[B!nextIndex(thislast)])])
      /\ UNCHANGED <<head, tail, wordsUsed, removedClauses, whenFullRemoveOlder>>
      /\ \/ /\ words'[B!addIndex(thislast, 2)] = 0 /\ tail = thislast
            /\ op' = "getRemoves" /\ threadId' = threadId /\ thislast' = 0
            /\ UNCHANGED lastOfThread
         \/ /\ lastOfThread' = [lastOfThread EXCEPT ![threadId] = B!addIndex(thislast, words[B!nextIndex(thislast)] + 3)]
            /\ op' = "free" /\ thislast' = 0
    BY DEF B!getClauseFound, B!Clauses, B!OfOthers, B!Lock, B!Unlock, B!headerSize
<1>2. PICK t \in B!Threads, p \in BufferIndex : t = threadId /\ p = thislast
    BY <1>1 DEF BufferInv, BufferTyping
<1>3. PICK b \in Nat : PlaceBefore(t, p, b)
    BY <1>1, <1>2 DEF BufferInv, PlacesRight
<1>4. PICK seen, q, got :
         seen = B!addIndex(p, 2) /\ q = Behind(p) /\ got = Given(p)
    OBVIOUS
<1>5. /\ ClausesApart' /\ B!WordsExact' /\ B!NothingLost' /\ B!DeliveredInOrder'
      /\ UNCHANGED <<pushedClauses, starts>>
      /\ passed' = [passed EXCEPT ![t] = b]
      /\ passed' \in [B!Threads -> 0 .. Len(pushedClauses)]
      /\ words' \in [BufferIndex -> Int] /\ words'[seen] = Cardinality(B!Unread(b)')
      /\ b \in removedClauses + 1 .. Len(pushedClauses) /\ (p = tail <=> b = removedClauses + 1)
      /\ q \in BufferIndex /\ PlaceBefore(t, q, b + 1)'
  <2>1. /\ B!nextIndex(p) # head /\ words[B!addIndex(p, 3)] # t
        /\ OneReaderLess(seen) /\ B!Return(t, got)
        /\ UNCHANGED <<head, tail, wordsUsed, removedClauses, whenFullRemoveOlder>>
      BY <1>1, <1>2, <1>4 DEF OneReaderLess, Given
  <2> QED
      BY <1>3, <1>4, <2>1, ClauseRead
<1>6. /\ lastOfThread \in [B!Threads -> BufferIndex] /\ passed \in [B!Threads -> 0 .. Len(pushedClauses)]
      /\ \A u \in B!Threads : \E c \in Nat : PlaceBefore(u, lastOfThread[u], c)
    BY <1>1 DEF BufferInv, BufferTyping, PlacesRight
<1>7. 0 \in BufferIndex
    BY BufferSizes DEF BufferIndex
<1>8. lastOfThread' \in [B!Threads -> BufferIndex]
    BY <1>1, <1>2, <1>4, <1>5, <1>6 DEF Behind
<1>9. BufferTyping'
    BY <1>1, <1>2, <1>5, <1>7, <1>8 DEF BufferInv, BufferTyping
<1>10. ASSUME NEW u \in B!Threads, u # t
       PROVE  (\E c \in Nat : PlaceBefore(u, lastOfThread[u], c))'
  <2>1. passed'[u] = passed[u] /\ lastOfThread'[u] = lastOfThread[u]
      BY <1>1, <1>2, <1>5, <1>6, <1>10
  <2> QED
      BY <1>1, <1>5, <1>6, <2>1, ThreadStays
<1>11. RemovalAllowed'
    BY <1>1 DEF RemovalAllowed
<1>12. PlacesRight'
  <2>1. CASE words'[seen] = 0 /\ tail = p /\ op' = "getRemoves" /\ threadId' = t
    <3>1. b = removedClauses + 1 /\ passed'[t] = b
        BY <1>5, <1>6, <2>1
    <3>2. PICK S : S = B!Unread(b)'
        OBVIOUS
    <3>3. S \in SUBSET B!Threads /\ Cardinality(S) = 0
        BY <1>5, <2>1, <3>2 DEF B!Unread
    <3>4. S = {}
        BY <3>3, UnreadCounted
    <3>5. B!Unread(removedClauses + 1)' = {}
        BY <1>1, <3>1, <3>2, <3>4 DEF B!Unread
    <3>6. removedClauses' = removedClauses /\ passed'[threadId'] = removedClauses' + 1
        BY <1>1, <2>1, <3>1
    <3> QED
        BY <1>10, <2>1, <3>5, <3>6 DEF PlacesRight
  <2>2. CASE lastOfThread' = [lastOfThread EXCEPT ![t] = q] /\ op' = "free"
    <3>1. lastOfThread'[t] = q /\ b + 1 \in Nat
        BY <1>6, <2>2
    <3>2. (\E c \in Nat : PlaceBefore(t, lastOfThread[t], c))'
        BY <1>5, <3>1, ThreadPut
    <3> QED
        BY <1>10, <2>2, <3>2 DEF PlacesRight
  <2> QED
      BY <1>1, <1>2, <1>4, <2>1, <2>2 DEF Behind
<1> QED
    BY <1>5, <1>9, <1>11, <1>12 DEF BufferInv

\* noCheckPush writes behind the d words that are used from o on.
LEMMA WordsWritten ==
    ASSUME NEW e \in [BufferIndex -> Int], NEW o \in BufferIndex, NEW d \in BufferIndex, NEW W,
           NEW n \in Nat, Len(W) = n, d + n < bufferSize, \A k \in 1 .. n : W[k] \in Int,
           NEW h, h = B!addIndex(o, d), NEW f, f = B!noCheckPush(e, h, W)
    PROVE  /\ f \in [BufferIndex -> Int]
           /\ \A x \in 0 .. d - 1 : f[B!addIndex(o, x)] = e[B!addIndex(o, x)]
           /\ \A k \in 1 .. n : f[B!addIndex(o, d + k - 1)] = W[k]
<1> DEFINE place(j) == IF j >= h THEN j - h + 1 ELSE j - h + bufferSize + 1
<1>1. h \in BufferIndex
    BY AddIndex
<1>2. f = [j \in BufferIndex |-> IF place(j) <= n THEN W[place(j)] ELSE e[j]]
    BY DEF B!noCheckPush
<1>3. \A j \in BufferIndex : place(j) \in Nat /\ place(j) >= 1
  <2> SUFFICES ASSUME NEW j \in BufferIndex PROVE place(j) \in Nat /\ place(j) >= 1
      OBVIOUS
  <2>1. CASE j >= h
      BY <1>1, <2>1, BufferSizes DEF BufferIndex
  <2>2. CASE ~(j >= h)
    <3>1. place(j) = (j - h) + bufferSize + 1
        BY <2>2
    <3>2. j \in Int /\ h \in Int /\ bufferSize \in Int /\ 0 <= j /\ h < bufferSize
        BY <1>1, BufferSizes DEF BufferIndex
    <3> HIDE DEF place
    <3> QED
        BY <3>1, <3>2
  <2> QED
      BY <2>1, <2>2
<1>4. \A x \in 0 .. d - 1 : B!addIndex(o, x) \in BufferIndex /\ ~(place(B!addIndex(o, x)) <= n)
    BY BufferSizes DEF BufferIndex, B!addIndex
<1>5. \A k \in 1 .. n : B!addIndex(o, d + k - 1) \in BufferIndex /\ place(B!addIndex(o, d + k - 1)) = k
    BY BufferSizes DEF BufferIndex, B!addIndex
<1> HIDE DEF place
<1>6. f \in [BufferIndex -> Int]
    BY <1>2, <1>3
<1>7. \A x \in 0 .. d - 1 : f[B!addIndex(o, x)] = e[B!addIndex(o, x)]
    BY <1>2, <1>4
<1>8. \A k \in 1 .. n : f[B!addIndex(o, d + k - 1)] = W[k]
    BY <1>2, <1>5
<1> QED
    BY <1>6, <1>7, <1>8

\* What pushClause appends to the histories.
LEMMA ClauseAppended ==
    ASSUME BufferInv, NEW t \in B!Threads, NEW c \in SharedClauses,
           pushedClauses' = Append(pushedClauses, [origin |-> t, lits |-> c]),
           starts' = Append(starts, starts[Len(starts)] + (Len(c) + B!headerSize))
    PROVE  LET N == Len(pushedClauses)
           IN /\ N \in Nat /\ Len(pushedClauses') = N + 1 /\ Len(starts') = N + 2
              /\ pushedClauses' \in Seq(BufferClause) /\ starts' \in Seq(Nat)
              /\ \A i \in 1 .. N : pushedClauses'[i] = pushedClauses[i]
              /\ pushedClauses'[N + 1].origin = t /\ pushedClauses'[N + 1].lits = c
              /\ \A i \in 1 .. N + 1 : starts'[i] = starts[i]
              /\ starts'[N + 2] = starts[N + 1] + (Len(c) + 3)
              /\ Len(c) \in Nat /\ c \in Seq(Nat)
<1> DEFINE N == Len(pushedClauses)
           x == [origin |-> t, lits |-> c]
           y == starts[N + 1] + (Len(c) + 3)
<1>1. /\ pushedClauses \in Seq(BufferClause) /\ starts \in Seq(Nat) /\ Len(starts) = N + 1 /\ N \in Nat
    BY DEF BufferInv, BufferTyping
<1>2. c \in Seq(Nat) /\ Len(c) \in Nat
    BY BufferSizes
<1>3. x \in BufferClause /\ x.origin = t /\ x.lits = c
    BY <1>2 DEF BufferClause
<1>4. y \in Nat
    BY <1>1, <1>2
<1>5. pushedClauses' = Append(pushedClauses, x) /\ starts' = Append(starts, y)
    BY <1>1 DEF B!headerSize
<1> HIDE DEF x, y
<1>6. /\ Len(pushedClauses') = N + 1 /\ pushedClauses' \in Seq(BufferClause)
      /\ \A i \in 1 .. N : pushedClauses'[i] = pushedClauses[i]
      /\ pushedClauses'[N + 1] = x
    BY <1>1, <1>3, <1>5
<1>7. /\ Len(starts') = N + 2 /\ starts' \in Seq(Nat)
      /\ \A i \in 1 .. N + 1 : starts'[i] = starts[i]
      /\ starts'[N + 2] = y
    BY <1>1, <1>4, <1>5
<1> QED
    BY <1>1, <1>2, <1>3, <1>6, <1>7 DEF y

\* The clauses in the buffer are as they were.
LEMMA OthersUntouched ==
    ASSUME BufferInv, NEW N \in Nat, N = Len(pushedClauses),
           UNCHANGED <<tail, lastOfThread, removedClauses, passed>>,
           Len(pushedClauses') = N + 1,
           \A i \in 1 .. N : pushedClauses'[i] = pushedClauses[i],
           \A i \in 1 .. N + 1 : starts'[i] = starts[i]
    PROVE  /\ \A i \in 1 .. N : B!Unread(i)' = B!Unread(i) /\ B!Words(i)' = B!Words(i) /\ WordCount(i)' = WordCount(i)
           /\ \A u : B!Place(u)' = B!Place(u)
           /\ \A t, p, b : PlaceBefore(t, p, b) => PlaceBefore(t, p, b)'
           /\ B!NothingLost /\ UNCHANGED whenFullRemoveOlder => B!NothingLost'
<1>1. removedClauses \in 0 .. N
    BY DEF BufferInv, BufferTyping
<1>2. \A i \in 1 .. N : B!Unread(i)' = B!Unread(i) /\ B!Words(i)' = B!Words(i) /\ WordCount(i)' = WordCount(i)
  <2> SUFFICES ASSUME NEW i \in 1 .. N
               PROVE  B!Unread(i)' = B!Unread(i) /\ B!Words(i)' = B!Words(i) /\ WordCount(i)' = WordCount(i)
      OBVIOUS
  <2>1. B!Unread(i)' = B!Unread(i)
      BY DEF B!Unread
  <2>2. pushedClauses'[i] = pushedClauses[i]
      OBVIOUS
  <2> QED
      BY <2>1, <2>2 DEF B!Words, WordCount
<1>3. \A u : B!Place(u)' = B!Place(u)
  <2>1. starts'[removedClauses' + 1] = starts[removedClauses + 1]
      BY <1>1
  <2> QED
      BY <2>1 DEF B!Place
<1>4. ASSUME NEW t, NEW p, NEW b, PlaceBefore(t, p, b)
      PROVE  PlaceBefore(t, p, b)'
  <2>1. /\ b \in removedClauses + 1 .. N + 1 /\ B!nextIndex(p) = B!Place(starts[b]) /\ passed[t] < b
        /\ \A i \in removedClauses + 1 .. b - 1 : passed[t] < i => pushedClauses[i].origin = t
      BY <1>4 DEF PlaceBefore
  <2>2. b \in 1 .. N + 1 /\ b \in removedClauses + 1 .. N + 2
      BY <1>1, <2>1
  <2>3. \A i \in removedClauses + 1 .. b - 1 : pushedClauses'[i] = pushedClauses[i]
      BY <1>1, <2>2
  <2>4. (B!Place(starts[b]))' = B!Place(starts[b])
    <3>1. PICK u : u = starts[b]
        OBVIOUS
    <3>2. starts'[b] = u
        BY <2>2, <3>1
    <3>3. starts'[removedClauses' + 1] = starts[removedClauses + 1]
        BY <1>1
    <3> QED
        BY <3>1, <3>2, <3>3 DEF B!Place
  <2>5. b \in removedClauses' + 1 .. Len(pushedClauses') + 1
      BY <2>2
  <2>6. B!nextIndex(p) = (B!Place(starts[b]))'
      BY <2>1, <2>4
  <2>7. passed'[t] < b /\ \A i \in removedClauses' + 1 .. b - 1 : passed'[t] < i => pushedClauses'[i].origin = t
      BY <2>1, <2>3
  <2> QED
      BY <2>5, <2>6, <2>7 DEF PlaceBefore
<1>5. ASSUME B!NothingLost, UNCHANGED whenFullRemoveOlder
      PROVE  B!NothingLost'
  <2>1. \A i \in 1 .. removedClauses : pushedClauses'[i] = pushedClauses[i]
      BY <1>1
  <2> QED
      BY <1>5, <2>1 DEF B!NothingLost
<1> QED
    BY <1>2, <1>3, <1>4, <1>5

\* The words of the new clause are written behind the others.
LEMMA WordsPushed ==
    ASSUME BufferInv, B!pushWords
    PROVE  BufferInv'
<1> DEFINE N == Len(pushedClauses)
           r == removedClauses + 1
           o == B!nextIndex(tail)
<1>1. /\ op = "push" /\ op' = "free" /\ thislast' = 0 /\ UNCHANGED reply
      /\ UNCHANGED <<whenFullRemoveOlder, tail, lastOfThread, removedClauses, passed>>
      /\ ~(wordsUsed + Len(clause) + 3 >= bufferSize)
      /\ words' = B!noCheckPush(words, head, <<Len(clause), nbThreads - 1, threadId>> \o clause)
      /\ head' = B!addIndex(head, Len(clause) + 3) /\ wordsUsed' = wordsUsed + (Len(clause) + 3)
      /\ starts' = Append(starts, starts[Len(starts)] + (Len(clause) + B!headerSize))
      /\ pushedClauses' = Append(pushedClauses, [origin |-> threadId, lits |-> clause])
    BY DEF B!pushWords, B!Full, B!Unlock, B!Lock, B!headerSize
<1>2. PICK t \in B!Threads, c \in SharedClauses : t = threadId /\ c = clause
    BY <1>1 DEF BufferInv, BufferTyping
<1>3. /\ N \in Nat /\ Len(pushedClauses') = N + 1 /\ Len(starts') = N + 2
      /\ pushedClauses' \in Seq(BufferClause) /\ starts' \in Seq(Nat)
      /\ \A i \in 1 .. N : pushedClauses'[i] = pushedClauses[i]
      /\ pushedClauses'[N + 1].origin = t /\ pushedClauses'[N + 1].lits = c
      /\ \A i \in 1 .. N + 1 : starts'[i] = starts[i]
      /\ starts'[N + 2] = starts[N + 1] + (Len(c) + 3)
      /\ Len(c) \in Nat /\ c \in Seq(Nat)
    BY <1>1, <1>2, ClauseAppended
<1>4. /\ removedClauses \in 0 .. N /\ r \in 1 .. N + 1 /\ passed \in [B!Threads -> 0 .. N]
      /\ words \in [BufferIndex -> Int] /\ head \in BufferIndex /\ tail \in BufferIndex
      /\ wordsUsed \in Nat /\ o \in BufferIndex
    BY BufferSizes, SMTT(60) DEF BufferInv, BufferTyping, B!nextIndex, BufferIndex
<1>5. /\ \A i \in 1 .. N : B!Unread(i)' = B!Unread(i) /\ B!Words(i)' = B!Words(i) /\ WordCount(i)' = WordCount(i)
      /\ \A u : B!Place(u)' = B!Place(u)
      /\ \A u, p, b : PlaceBefore(u, p, b) => PlaceBefore(u, p, b)'
      /\ B!NothingLost'
    BY <1>1, <1>3, OthersUntouched DEF BufferInv
<1>6. PICK n, d, s, W :
         /\ n = Len(c) + 3 /\ d = wordsUsed /\ s = starts[r]
         /\ W = <<Len(c), nbThreads - 1, t>> \o c
    OBVIOUS
<1>7. /\ Len(W) = n /\ n \in Nat /\ W[1] = Len(c) /\ W[2] = nbThreads - 1 /\ W[3] = t
      /\ \A k \in 1 .. Len(c) : W[k + 3] = c[k]
      /\ \A k \in 4 .. n : W[k] = c[k - 3]
    BY <1>3, <1>6, WordList, SMTT(40)
<1>8. \A k \in 1 .. n : W[k] \in Int
  <2> SUFFICES ASSUME NEW k \in 1 .. n PROVE W[k] \in Int
      OBVIOUS
  <2>1. CASE k \in 4 .. n
    <3>1. PICK m : m = k - 3
        OBVIOUS
    <3>4. m \in 1 .. Len(c)
        BY <1>3, <1>6, <2>1, <3>1
    <3>2. m \in 1 .. Len(c) /\ W[m + 3] = c[m] /\ m + 3 = k
        BY <1>7, <2>1, <3>1, <3>4
    <3>3. c[m] \in Nat
        BY <1>3, <3>2, SMTT(40)
    <3> QED
        BY <3>2, <3>3
  <2>2. CASE k \in {1, 2, 3}
      BY <1>3, <1>7, <2>2, BufferSizes, SMTT(60) DEF B!Threads
  <2> QED
      BY <1>7, <2>1, <2>2
<1>9. /\ d + n < bufferSize /\ d \in BufferIndex /\ d \in Nat /\ s \in Nat /\ starts[N + 1] \in Nat
      /\ starts[N + 1] - s = d /\ s <= starts[N + 1] /\ head = B!addIndex(o, d)
  <2>1. s \in Nat /\ starts[N + 1] \in Nat /\ s <= starts[N + 1]
    <3>1. r \in 1 .. N + 1 /\ N + 1 \in 1 .. N + 1 /\ r <= N + 1
        BY <1>3, <1>4
    <3> HIDE DEF r, N
    <3> QED
        BY <1>6, <3>1, ClauseFacts DEF BufferInv, N
  <2>2. starts[N + 1] - s = d
      BY <1>6 DEF BufferInv, B!WordsExact
  <2>3. d \in Nat /\ d + n < bufferSize
    <3>1. ~(d + Len(c) + 3 >= bufferSize)
        BY <1>1, <1>2, <1>6
    <3>2. d \in Nat /\ Len(c) \in Nat /\ n = Len(c) + 3
        BY <1>3, <1>4, <1>6
    <3> QED
        BY <3>1, <3>2, BufferSizes
  <2>4. d \in BufferIndex
      BY <1>7, <2>3, BufferSizes DEF BufferIndex
  <2>5. head = B!Place(starts[N + 1])
      BY DEF BufferInv, B!WordsExact
  <2>6. head = B!addIndex(o, starts[N + 1] - s)
      BY <1>6, <2>5 DEF B!Place
  <2> QED
      BY <2>1, <2>2, <2>3, <2>4, <2>6
<1>10. words' = B!noCheckPush(words, head, W)
    BY <1>1, <1>2, <1>6
<1> HIDE DEF o
<1>11. /\ words' \in [BufferIndex -> Int]
       /\ \A x \in 0 .. d - 1 : words'[B!addIndex(o, x)] = words[B!addIndex(o, x)]
       /\ \A k \in 1 .. n : words'[B!addIndex(o, d + k - 1)] = W[k]
  <2>1. PICK e, f, h : e = words /\ f = words' /\ h = head
      OBVIOUS
  <2>2. f = B!noCheckPush(e, h, W) /\ h = B!addIndex(o, d)
      BY <1>9, <1>10, <2>1
  <2>4. e \in [BufferIndex -> Int] /\ o \in BufferIndex /\ d \in BufferIndex /\ n \in Nat /\ Len(W) = n /\ d + n < bufferSize
      BY <1>4, <1>7, <1>9, <2>1
  <2>3. /\ f \in [BufferIndex -> Int]
        /\ \A x \in 0 .. d - 1 : f[B!addIndex(o, x)] = e[B!addIndex(o, x)]
        /\ \A k \in 1 .. n : f[B!addIndex(o, d + k - 1)] = W[k]
      BY <1>8, <2>2, <2>4, WordsWritten, SMTT(40)
  <2> QED
      BY <2>1, <2>3
<1>12. head' = B!addIndex(o, d + n) /\ head' \in BufferIndex /\ wordsUsed' = d + n /\ d + n \in Nat
  <2>1. head' = B!addIndex(head, n) /\ wordsUsed' = d + n
      BY <1>1, <1>2, <1>6
  <2>2. B!addIndex(B!addIndex(o, d), n) = B!addIndex(o, d + n)
      BY <1>4, <1>7, <1>9, AddIndex
  <2>3. d + n \in BufferIndex
      BY <1>7, <1>9, BufferSizes DEF BufferIndex
  <2>4. B!addIndex(o, d + n) \in BufferIndex
      BY <1>4, <2>3, AddIndex
  <2> QED
      BY <1>7, <1>9, <2>1, <2>2, <2>4
<1>13. ClausesApart'
  <2>3. Len(pushedClauses') = N + 1 /\ Len(pushedClauses') + 1 = N + 2
      BY <1>3
  <2> SUFFICES ASSUME NEW i \in 1 .. N + 1
               PROVE  /\ starts'[i + 1] = starts'[i] + WordCount(i)'
                      /\ \A j \in i + 1 .. N + 2 : starts'[i] + WordCount(i)' <= starts'[j]
      BY <2>3 DEF ClausesApart
  <2>1. CASE i \in 1 .. N
    <3>1. WordCount(i)' = WordCount(i) /\ starts'[i] = starts[i] /\ starts'[i + 1] = starts[i + 1]
      <4>1. i \in 1 .. N + 1 /\ i + 1 \in 1 .. N + 1
          BY <1>3, <2>1
      <4> QED
          BY <1>3, <1>5, <2>1, <4>1
    <3>2. /\ starts[i + 1] = starts[i] + WordCount(i)
          /\ \A j \in i + 1 .. N + 1 : starts[i] + WordCount(i) <= starts[j]
        BY <2>1 DEF BufferInv, ClausesApart
    <3>3. \A j \in i + 1 .. N + 1 : starts'[j] = starts[j]
        BY <1>3, <2>1
    <3>4. starts[i] \in Nat /\ WordCount(i) \in Nat
      <4>1. i \in 1 .. N + 1
          OBVIOUS
      <4> QED
          BY <2>1, <4>1, ClauseFacts DEF BufferInv
    <3>5. starts[i] + WordCount(i) <= starts'[N + 2]
      <4>1. N + 1 \in i + 1 .. N + 1
          BY <1>3, <2>1
      <4>2. starts[i] + WordCount(i) <= starts[N + 1]
          BY <3>2, <4>1
      <4>3. starts'[N + 2] = starts[N + 1] + n /\ starts[N + 1] \in Nat /\ n \in Nat
          BY <1>3, <1>6, <1>7, <1>9
      <4> QED
          BY <3>4, <4>2, <4>3
    <3>6. \A j \in i + 1 .. N + 2 : j \in i + 1 .. N + 1 \/ j = N + 2
        BY <1>3
    <3> QED
        BY <3>1, <3>2, <3>3, <3>5, <3>6
  <2>2. CASE i = N + 1
    <3>1. WordCount(i)' = n
        BY <1>3, <1>6, <2>2 DEF WordCount, B!headerSize
    <3>2. starts'[i] = starts[N + 1] /\ starts'[i + 1] = starts[N + 1] + n
      <4>1. i + 1 = N + 2 /\ N + 1 \in 1 .. N + 1
          BY <1>3, <2>2
      <4> QED
          BY <1>3, <1>6, <2>2, <4>1
    <3>3. \A j \in i + 1 .. N + 2 : j = i + 1
        BY <1>3, <2>2
    <3>4. starts[N + 1] + n <= starts[N + 1] + n
        BY <1>7, <1>9
    <3> QED
        BY <3>1, <3>2, <3>3, <3>4
  <2> QED
      BY <1>3, <2>1, <2>2
<1>14. B!WordsExact'
  <2>1. /\ Len(pushedClauses') = N + 1 /\ Len(pushedClauses') + 1 = N + 2 /\ removedClauses' + 1 = r
        /\ starts'[r] = s /\ tail' = tail
      BY <1>1, <1>3, <1>4, <1>6, SMTT(40)
  <2>2. wordsUsed' = starts'[N + 2] - s /\ wordsUsed' < bufferSize
    <3>1. starts'[N + 2] = starts[N + 1] + n
        BY <1>3, <1>6
    <3>2. PICK z, y : z = starts[N + 1] /\ y = starts'[N + 2]
        OBVIOUS
    <3>3. z \in Nat /\ s \in Nat /\ n \in Nat /\ z - s = d /\ y = z + n /\ d + n < bufferSize
        BY <1>7, <1>9, <3>1, <3>2
    <3>4. d + n = y - s
        BY <3>3
    <3> QED
        BY <1>12, <3>2, <3>3, <3>4
  <2>3. head' = (B!Place(starts[Len(pushedClauses) + 1]))'
    <3>1. starts'[Len(pushedClauses') + 1] - starts'[removedClauses' + 1] = wordsUsed'
        BY <2>1, <2>2
    <3>2. head' = B!addIndex(B!nextIndex(tail'), wordsUsed')
        BY <1>12, <2>1 DEF o
    <3> QED
        BY <3>1, <3>2 DEF B!Place
  <2>4. ASSUME NEW i \in 1 .. N + 1, NEW k, NEW x, x = (starts[i] + k - 1) - s
        PROVE  (B!Place(starts[i] + k - 1))' = B!addIndex(o, x) /\ B!Place(starts[i] + k - 1) = B!addIndex(o, x)
    <3>1. starts'[i] = starts[i]
        BY <1>3
    <3> QED
        BY <1>6, <2>1, <2>4, <3>1 DEF B!Place, o
  <2>5. ASSUME NEW i \in r .. N, NEW k \in 1 .. Len(B!Words(i)')
        PROVE  words'[(B!Place(starts[i] + k - 1))'] = B!Words(i)'[k]
    <3>1. i \in 1 .. N /\ i \in 1 .. N + 1 /\ B!Words(i)' = B!Words(i)
      <4>1. i \in 1 .. N /\ i \in 1 .. N + 1
          BY <1>3, <1>4, <2>5
      <4> QED
          BY <1>5, <4>1
    <3>2. Len(B!Words(i)) = WordCount(i) /\ k \in 1 .. WordCount(i)
        BY <2>5, <3>1, WordsCounted DEF BufferInv
    <3>3. words[B!Place(starts[i] + k - 1)] = B!Words(i)[k]
        BY <3>1, <3>2 DEF BufferInv, B!WordsExact
    <3>4. PICK x : x = (starts[i] + k - 1) - s
        OBVIOUS
    <3>5. x \in 0 .. d - 1
      <4>1. /\ starts[i] \in Nat /\ WordCount(i) \in Nat /\ s <= starts[i]
            /\ starts[i] + WordCount(i) <= starts[N + 1]
        <5>1. i \in 1 .. N /\ i \in 1 .. N + 1 /\ r \in 1 .. N + 1 /\ r <= i /\ N + 1 \in i + 1 .. N + 1
            BY <1>3, <1>4, <2>5
        <5>2. starts[i] + WordCount(i) <= starts[N + 1]
            BY <5>1 DEF BufferInv, ClausesApart
        <5>3. starts[i] \in Nat /\ WordCount(i) \in Nat /\ starts[r] <= starts[i]
          <6> HIDE DEF r
          <6> QED
              BY <5>1, ClauseFacts DEF BufferInv
        <5> QED
            BY <1>6, <5>2, <5>3
      <4>2. PICK a, m, z : a = starts[i] /\ m = WordCount(i) /\ z = starts[N + 1]
          OBVIOUS
      <4>3. a \in Nat /\ m \in Nat /\ z \in Nat /\ s \in Nat /\ s <= a /\ a + m <= z /\ z - s = d /\ k \in 1 .. m
          BY <1>9, <3>2, <4>1, <4>2
      <4>4. x = (a + k - 1) - s
          BY <3>4, <4>2
      <4> QED
          BY <4>3, <4>4
    <3>6. words'[B!addIndex(o, x)] = words[B!addIndex(o, x)]
        BY <1>11, <3>5
    <3> QED
        BY <2>4, <3>1, <3>3, <3>4, <3>6
  <2>6. ASSUME NEW i, i = N + 1, NEW k \in 1 .. Len(B!Words(i)')
        PROVE  words'[(B!Place(starts[i] + k - 1))'] = B!Words(i)'[k]
    <3>1. B!Unread(i)' = B!Threads \ {t}
      <4>1. \A u \in B!Threads : passed'[u] < i
        <5>1. passed' = passed /\ \A j \in 0 .. N : j < N + 1
            BY <1>1, <1>3
        <5> HIDE DEF N
        <5> QED
            BY <1>4, <2>6, <5>1
      <4>2. pushedClauses'[i].origin = t
          BY <1>3, <2>6
      <4> QED
          BY <4>1, <4>2 DEF B!Unread
    <3>2. Cardinality(B!Threads \ {t}) = nbThreads - 1
        BY UnreadCounted
    <3>3. B!Words(i)' = W
      <4>1. B!Words(i)' = <<Len(pushedClauses'[i].lits), Cardinality(B!Unread(i)'), pushedClauses'[i].origin>>
                              \o pushedClauses'[i].lits
          BY SameCardinality DEF B!Words
      <4>2. pushedClauses'[i].lits = c /\ pushedClauses'[i].origin = t
          BY <1>3, <2>6
      <4> QED
          BY <1>6, <3>1, <3>2, <4>1, <4>2
    <3>4. k \in 1 .. n
        BY <1>7, <2>6, <3>3
    <3>5. PICK x : x = (starts[i] + k - 1) - s
        OBVIOUS
    <3>6. x = d + k - 1
        BY <1>9, <2>6, <3>4, <3>5
    <3>7. words'[B!addIndex(o, x)] = W[k]
        BY <1>11, <3>4, <3>6
    <3>8. i \in 1 .. N + 1
        BY <1>3, <2>6
    <3> QED
        BY <2>4, <3>3, <3>5, <3>7, <3>8
  <2>7. \A i \in r .. N + 1 : i \in r .. N \/ i = N + 1
      BY <1>3, <1>4
  <2>8. \A i \in removedClauses' + 1 .. Len(pushedClauses') :
           \A k \in 1 .. Len(B!Words(i)') : words'[(B!Place(starts[i] + k - 1))'] = B!Words(i)'[k]
      BY <2>1, <2>5, <2>6, <2>7
  <2>9. wordsUsed' = starts'[Len(pushedClauses') + 1] - starts'[removedClauses' + 1] /\ wordsUsed' < bufferSize
      BY <2>1, <2>2
  <2> QED
      BY <2>3, <2>8, <2>9 DEF B!WordsExact
<1>15. BufferTyping'
  <2>1. passed' \in [B!Threads -> 0 .. N + 1] /\ removedClauses' \in 0 .. N + 1
    <3>1. \A j \in 0 .. N : j \in 0 .. N + 1
        BY <1>3
    <3>2. passed' = passed /\ removedClauses' = removedClauses
        BY <1>1
    <3> HIDE DEF N
    <3> QED
        BY <1>4, <3>1, <3>2
  <2>2. 0 \in BufferIndex
      BY BufferSizes DEF BufferIndex
  <2>3. whenFullRemoveOlder' \in BOOLEAN /\ lastOfThread' \in [B!Threads -> BufferIndex]
      BY <1>1 DEF BufferInv, BufferTyping
  <2>4. Len(starts') = Len(pushedClauses') + 1
      BY <1>3
  <2> QED
      BY <1>1, <1>3, <1>4, <1>11, <1>12, <2>1, <2>2, <2>3, <2>4 DEF BufferTyping
<1>16. PlacesRight' /\ RemovalAllowed'
  <2>1. ASSUME NEW u \in B!Threads
        PROVE  (\E b \in Nat : PlaceBefore(u, lastOfThread[u], b))'
    <3>1. PICK p : p = lastOfThread[u]
        OBVIOUS
    <3>2. PICK b \in Nat : PlaceBefore(u, p, b)
        BY <1>1, <3>1 DEF BufferInv, PlacesRight
    <3>3. PlaceBefore(u, p, b)' /\ p = lastOfThread'[u]
        BY <1>1, <1>5, <3>1, <3>2
    <3> QED
        BY <3>3, ThreadPut
  <2> QED
      BY <1>1, <2>1 DEF PlacesRight, RemovalAllowed
<1>17. B!DeliveredInOrder'
    BY <1>1 DEF BufferInv, B!DeliveredInOrder
<1> QED
    BY <1>5, <1>13, <1>14, <1>15, <1>16, <1>17 DEF BufferInv

\* Every step of an operation on the buffer, and none.
LEMMA BufferStep == BufferInv /\ [B!Next]_(B!vars) => BufferInv'
<1> SUFFICES ASSUME BufferInv, [B!Next]_(B!vars)
             PROVE  BufferInv'
    OBVIOUS
<1>1. ASSUME NEW t \in B!Threads, NEW c \in SharedClauses, B!pushClause(t, c) PROVE BufferInv'
    BY <1>1, PushBegins
<1>2. ASSUME NEW t \in B!Threads, B!getClauseNone(t) PROVE BufferInv'
    BY <1>2, NoneGot
<1>3. ASSUME NEW t \in B!Threads, B!getClause(t) PROVE BufferInv'
    BY <1>3, GetBegins
<1>4. CASE B!makeRoom
    BY <1>4, RoomBegins
<1>5. CASE B!roomMade
    BY <1>5, RoomMade
<1>6. CASE B!pushWords
    BY <1>6, WordsPushed
<1>7. CASE B!skipOwn
    BY <1>7, OwnSkipped
<1>8. CASE B!getClauseOwn
    BY <1>8, OwnOnly
<1>9. CASE B!getClauseFound
    BY <1>9, Found
<1>10. CASE B!removedAfter
    BY <1>10, RemovedAfter
<1>11. CASE B!removeNext
    BY <1>11, NextRemoved
<1>12. CASE UNCHANGED B!vars
  <2>1. /\ UNCHANGED B!code /\ UNCHANGED <<pushedClauses, starts, passed, reply>>
        /\ UNCHANGED <<op, threadId, clause, thislast>>
      BY <1>12 DEF B!vars, B!locals, B!history
  <2>2. UNCHANGED <<words, head, tail, wordsUsed, lastOfThread, removedClauses, whenFullRemoveOlder>>
      BY <2>1 DEF B!code, B!ends
  <2>3. BufferTyping'
      BY <2>1, <2>2 DEF BufferInv, BufferTyping
  <2>4. RemovalAllowed' /\ B!DeliveredInOrder'
      BY <2>1, <2>2 DEF BufferInv, RemovalAllowed, B!Full, B!DeliveredInOrder
  <2>5. /\ ClausesApart' /\ B!WordsExact' /\ B!NothingLost'
        /\ \A t \in B!Threads :
              (\E b \in Nat : PlaceBefore(t, lastOfThread[t], b)) =>
                 (\E b \in Nat : PlaceBefore(t, lastOfThread[t], b))'
        /\ \A t, p, b : PlaceBefore(t, p, b) => PlaceBefore(t, p, b)'
      BY <2>1, LocalsOnly
  <2>6. PlacesRight'
    <3>1. op = "get" => (\E b \in Nat : PlaceBefore(threadId, thislast, b))'
      <4>1. PICK t, p : t = threadId /\ p = thislast
          OBVIOUS
      <4>2. op = "get" => \E b \in Nat : PlaceBefore(t, p, b)'
          BY <2>5, <4>1 DEF BufferInv, PlacesRight
      <4> QED
          BY <2>1, <4>1, <4>2, OperationPut
    <3>2. B!Unread(removedClauses + 1)' = B!Unread(removedClauses + 1)
        BY <2>1, <2>2 DEF B!Unread
    <3> QED
        BY <2>1, <2>2, <2>5, <3>1, <3>2 DEF BufferInv, PlacesRight
  <2> QED
      BY <2>3, <2>4, <2>5, <2>6 DEF BufferInv
<1> QED
    BY <1>1, <1>2, <1>3, <1>4, <1>5, <1>6, <1>7, <1>8, <1>9, <1>10, <1>11, <1>12
    DEF B!Next, B!PushClause, B!GetClause

-----------------------------------------------------------------------------
\* The parts together: a step of GlucoseParts is a step of one part, and leaves
\* the others as they are.

\* The sum of the parts starts where each part starts.
LEMMA PartsInit == Init => R!Init /\ Q!Init /\ V!Init /\ B!Init /\ P!Init
BY DEF Init

\* A step of the sum is a step of the ring or leaves it alone.
LEMMA RingSteps == [Next]_vars => [R!Next]_(R!vars)
BY DEF Next, Ring, Subsumption, Vector, Buffer, MainThread, SolverThread, OnlyThreads, vars, ringVars, R!vars

\* The same of the queue.
LEMMA QueueSteps == [Next]_vars => [Q!Next]_(Q!vars)
BY DEF Next, Ring, Subsumption, Vector, Buffer, MainThread, SolverThread, OnlyThreads, vars, queueVars, Q!vars

\* The same of the vector.
LEMMA VecSteps == [Next]_vars => [V!Next]_(V!vars)
BY DEF Next, Ring, Subsumption, Vector, Buffer, MainThread, SolverThread, OnlyThreads, vars, vecVars, V!vars

\* The same of the threads.
LEMMA ThreadsSteps == [Next]_vars => [P!Next]_(P!vars)
BY DEF Next, Ring, Subsumption, Vector, Buffer, MainThread, SolverThread, OnlyThreads, vars, threadVars,
   P!vars, P!shared, P!Next

\* The same of the buffer of clauses.
LEMMA BufferSteps == [Next]_vars => [B!Next]_(B!vars)
BY DEF Next, Ring, Subsumption, Vector, Buffer, MainThread, SolverThread, OnlyThreads, vars, bufferVars,
   B!vars, B!code, B!ends, B!locals, B!history

\* The ring, its latest values and their sum, in every state of the solver's
\* queues (push, fastclear, growTo of BoundedQueue.h).
THEOREM RingInvariant == Spec => []RingInv
BY PartsInit, RingInit, RingSteps, RingStep, PTL DEF Spec

\* The ring holds the latest values in order, the running sum that getavg
\* divides is their sum, and the assertion of push holds.
THEOREM RingAlwaysExact == Spec => []RingExact
<1>1. RingInv => RingExact
  BY DEF RingInv, RingShape, RingExact, R!FullAtOldest, R!isvalid
<1> QED BY <1>1, RingInvariant, PTL

\* Queue.h keeps the order in which clauses were put in, however it grows and
\* wraps around: it implements a queue.
THEOREM QueueKeepsOrder == Spec => KeepsOrder
<1>1. Spec => []Q!TypeOK
  BY PartsInit, InitQueue, QueueSteps, QueueStep, PTL DEF Spec
<1> QED BY <1>1, PartsInit, InitQueue, QueueSteps, QueueStep, PTL
        DEF Spec, KeepsOrder, Q!KeepsOrder, Q!Promise!Spec

\* Why a vector is safe: its capacity is even, which INT_MAX is not, and holds
\* its elements (capacity of Vec.h).
THEOREM VecInvariant == Spec => []VecInv
BY PartsInit, VecInit, VecSteps, VecStep, VecConstants, PTL DEF Spec

\* What the comment at push of Vec.h argues: sz+1 cannot overflow; and the
\* elements are inside the reserved memory.
THEOREM VecAlwaysSafe == Spec => []VecSafe
<1>1. VecInv => VecSafe
  BY VecConstants
  DEF V!IntMaxAssumption, VecInv, VecSafe, V!CapacitiesEven, V!ElementsFit, V!PushCannotOverflow
<1> QED BY <1>1, VecInvariant, PTL

\* The invariant of the threads, of SharedCompanion and of solve().
THEOREM ThreadsInvariant == Spec => []ThreadsInv
BY PartsInit, ThreadsInit, ThreadsSteps, ThreadsStep, PTL DEF Spec

\* solve() answers what holds of the formula, and with a model of it if there is
\* one, whatever the order in which the threads end; what they take for proved
\* on the way holds in every model.
THEOREM ResultAlwaysRight == Spec => []ResultRight
<1>1. ThreadsInv => ResultRight
  BY ResultFollows, UnitsFollow DEF ResultRight
<1> QED BY <1>1, ThreadsInvariant, PTL

\* A thread that returns to its search has every literal given to it by then.
THEOREM UnitsAlwaysImported == Spec => UnitsImported
<1> DEFINE Step ==
      \A t \in P!Threads :
         pc[t] = "import" /\ pc'[t] = "search" =>
            \A i \in DOMAIN unitLit : unitLit[i][1] \in P!Assigned(t)
<1>1. ThreadsInv /\ [P!Next]_(P!vars) => Step
  <2> SUFFICES ASSUME ThreadsInv, [P!Next]_(P!vars), NEW t \in P!Threads,
                      pc[t] = "import", pc'[t] = "search"
               PROVE  \A i \in DOMAIN unitLit : unitLit[i][1] \in P!Assigned(t)
      OBVIOUS
  <2>1. P!ImportUnary(t) /\ ~P!unitsLeft(t)
    <3> USE DEF ThreadsInv, ThreadsTyping, P!goto
    <3>1. \A u \in P!Threads :
             ~(\/ P!While(u) \/ \E l \in P!Lits : P!LearnUnary(u, l)
               \/ \E s \in {"l_True", "l_False", "l_Undef"} : P!SearchReturns(u, s)
               \/ P!IFinished(u) \/ P!NotFinished(u) \/ P!TellStatus(u) \/ P!CopyModel(u) \/ P!Signal(u) \/ P!Launch(u))
        BY DEF P!While, P!LearnUnary, P!SearchReturns, P!IFinished, P!NotFinished, P!TellStatus, P!CopyModel, P!Signal, P!Launch
    <3>2. ~(P!Wait \/ P!TimedOut \/ P!WakesUp \/ P!Join \/ UNCHANGED P!vars)
        BY DEF P!Wait, P!TimedOut, P!WakesUp, P!Join, P!vars
    <3>3. P!Main \/ \E u \in P!Threads : P!Thread(u)
        BY <3>2 DEF P!Next
    <3>4. PICK u \in P!Threads : P!Thread(u)
        BY <3>1, <3>2, <3>3 DEF P!Main
    <3> HIDE DEF ThreadsInv, ThreadsTyping, P!goto
    <3>5. P!ImportUnary(u)
      <4>1. /\ ~P!While(u) /\ ~P!IFinished(u) /\ ~P!NotFinished(u)
            /\ ~P!TellStatus(u) /\ ~P!CopyModel(u) /\ ~P!Signal(u)
          BY <3>1
      <4>2. ~\E l \in P!Lits : P!LearnUnary(u, l)
          BY <3>1, Zenon
      <4>3. ~\E s \in {"l_True", "l_False", "l_Undef"} : P!SearchReturns(u, s)
          BY <3>1, Zenon
      <4> QED
          BY <3>4, <4>1, <4>2, <4>3, Zenon DEF P!Thread
    <3> QED
        BY <3>5 DEF P!ImportUnary, P!goto, ThreadsInv, ThreadsTyping
  <2>2. Len(unitLit) < nextUnit[t]
      BY <2>1 DEF P!unitsLeft, ThreadsInv, ThreadsTyping
  <2>3. /\ DOMAIN unitLit = 1 .. Len(unitLit) /\ Len(unitLit) \in Nat
        /\ nextUnit[t] \in Nat
      BY DEF ThreadsInv, ThreadsTyping
  <2>4. \A i \in DOMAIN unitLit : i < nextUnit[t]
      BY <2>2, <2>3
  <2> QED
      BY <2>3, <2>4 DEF ThreadsInv, Units
<1> QED
    BY ThreadsInvariant, ThreadsSteps, <1>1, PTL DEF Spec, UnitsImported, P!UnitsImported

\* The clauses in the buffer and the places of the threads, in every state of an
\* operation of SharedCompanion on it (pushClause, getClause, removeLastClause).
THEOREM BufferInvariant == Spec => []BufferInv
BY PartsInit, BufferInit, BufferSteps, BufferStep, PTL DEF Spec

\* The threads get each other's clauses whole, once and in order; without
\* -removeolder none is removed unread.
THEOREM BufferAlwaysExact == Spec => []BufferExact
<1>1. BufferInv => BufferExact
    BY DEF BufferInv, BufferExact
<1> QED
    BY <1>1, BufferInvariant, PTL

\* getClause: the place of a thread is never outside of the words in use, so its
\* "special case where last has moved" does not come up.
THEOREM LastNeverMoved ==
    Spec => [](op = "free" => \A t \in B!Threads : B!FromLast(lastOfThread[t]) = lastOfThread[t])
<1>1. BufferInv => (op = "free" => \A t \in B!Threads : B!FromLast(lastOfThread[t]) = lastOfThread[t])
  <2> SUFFICES ASSUME BufferInv, op = "free", NEW t \in B!Threads
               PROVE  B!FromLast(lastOfThread[t]) = lastOfThread[t]
      OBVIOUS
  <2>1. PICK p \in BufferIndex : p = lastOfThread[t]
      BY DEF BufferInv, BufferTyping
  <2>2. PICK b \in Nat : PlaceBefore(t, p, b)
      BY <2>1 DEF BufferInv, PlacesRight
  <2> QED
      BY <2>1, <2>2, EndsAt DEF BufferInv, PlaceBefore
<1> QED
    BY <1>1, BufferInvariant, PTL
=============================================================================
