---------------------------- MODULE BoundedQueue ----------------------------
(***************************************************************************)
(* bqueue of glucose/core/BoundedQueue.h: a ring of the latest maxsize     *)
(* values and their sum. The solver keeps two of them, the levels of the   *)
(* latest learnt clauses (lbdQueue) and the trail lengths at the latest    *)
(* conflicts (trailQueue), and restarts, or puts a restart off, when the   *)
(* average of one is far from where it should be.                          *)
(* The sum is a natural number: the code keeps it in 64 bits, for at most  *)
(* some thousand values of 32 bits. pop and the cached average of         *)
(* getAvgExp, which nothing calls, are left out.                           *)
(***************************************************************************)
EXTENDS Integers, Sequences

CONSTANTS
    Values,     \* the values that are pushed
    Sizes,      \* the sizes a queue is given
    MaxPushes   \* bound on the values pushed between two clearings

\* What the module takes for granted of its constants.
BoundedQueueAssumption ==
    /\ Values \subseteq Nat
    /\ Sizes \subseteq Nat \ {0}
    /\ MaxPushes \in Nat

VARIABLES
    elems,       \* the ring, indexed from 0
    first,       \* where the next value goes
    last,        \* where the oldest value is
    sumofqueue,
    maxsize,
    queuesize,
    pushed,      \* history: the values pushed since the queue was last emptied
    total        \* history: total[n + 1] is the sum of the first n of them

vars == <<elems, first, last, sumofqueue, maxsize, queuesize, pushed, total>>

isvalid == queuesize = maxsize

\* The index after i in the ring.
Next1(i) == IF i + 1 = maxsize THEN 0 ELSE i + 1

\* The constructor and initSize, which the solver's constructor calls at once.
Init ==
    \E size \in Sizes :
        /\ elems = [i \in 0 .. size - 1 |-> 0]
        /\ first = 0 /\ last = 0 /\ sumofqueue = 0
        /\ maxsize = size /\ queuesize = 0
        /\ pushed = <<>> /\ total = <<0>>

\* Mutant: the oldest value keeps its place when a full ring is overwritten.
push_LastKept(x) ==
    /\ Len(pushed) < MaxPushes
    /\ sumofqueue' = sumofqueue - (IF isvalid THEN elems[last] ELSE 0) + x
    /\ queuesize' = IF isvalid THEN queuesize ELSE queuesize + 1
    /\ elems' = [elems EXCEPT ![first] = x]
    /\ first' = Next1(first)
    /\ last' = IF first + 1 = maxsize THEN 0 ELSE last
    /\ pushed' = Append(pushed, x)
    /\ total' = Append(total, total[Len(total)] + x)
    /\ UNCHANGED maxsize

push(x) ==
    /\ Len(pushed) < MaxPushes
    /\ sumofqueue' = sumofqueue - (IF isvalid THEN elems[last] ELSE 0) + x
    /\ queuesize' = IF isvalid THEN queuesize ELSE queuesize + 1
    /\ elems' = [elems EXCEPT ![first] = x]
    /\ first' = Next1(first)
    /\ last' = IF first + 1 = maxsize THEN 0
               ELSE IF isvalid THEN Next1(last) ELSE last
    /\ pushed' = Append(pushed, x)
    /\ total' = Append(total, total[Len(total)] + x)
    /\ UNCHANGED maxsize

\* "to be called after restarts"
fastclear ==
    /\ first' = 0 /\ last' = 0 /\ queuesize' = 0 /\ sumofqueue' = 0
    /\ pushed' = <<>> /\ total' = <<0>>
    /\ UNCHANGED <<elems, maxsize>>

\* Its callers give a queue its size before anything is pushed on it; the sum
\* is not reset.
growTo(size) ==
    /\ pushed = <<>>
    /\ elems' = [i \in DOMAIN elems \cup 0 .. size - 1 |->
                    IF i < size THEN 0 ELSE elems[i]]
    /\ first' = 0 /\ last' = 0 /\ queuesize' = 0 /\ maxsize' = size
    /\ UNCHANGED <<sumofqueue, pushed, total>>

Push == \E x \in Values : push(x)
GrowTo == \E size \in Sizes : growTo(size)

Next == Push \/ fastclear \/ GrowTo

Spec == Init /\ [][Next]_vars

-----------------------------------------------------------------------------

TypeOK ==
    /\ maxsize \in Nat \ {0}
    /\ first \in 0 .. maxsize - 1 /\ last \in 0 .. maxsize - 1
    /\ queuesize \in 0 .. maxsize
    /\ \A i \in 0 .. maxsize - 1 : i \in DOMAIN elems /\ elems[i] \in Nat
    /\ sumofqueue \in Nat
    /\ pushed \in Seq(Nat) /\ total \in Seq(Nat) /\ Len(total) = Len(pushed) + 1

\* Where the value that is i places younger than the oldest one is kept.
Slot(i) == IF last + i < maxsize THEN last + i ELSE last + i - maxsize

\* The ring holds the latest values, as many of them as it may hold, the oldest
\* at last and the others after it: a full queue is overwritten at first, which
\* push moves together with last, and wraps around with it.
LatestKept ==
    /\ queuesize = IF Len(pushed) < maxsize THEN Len(pushed) ELSE maxsize
    /\ \A i \in 0 .. queuesize - 1 :
          elems[Slot(i)] = pushed[Len(pushed) - queuesize + i + 1]

\* The average the restarts are decided on is that of the latest values: the
\* running sum, which push corrects by the value it overwrites, is their sum.
SumExact ==
    sumofqueue = total[Len(total)] - total[Len(total) - queuesize]

\* push: assert(last==first), "The queue is full, next value to enter will
\* replace oldest one".
FullAtOldest == isvalid => last = first
=============================================================================
