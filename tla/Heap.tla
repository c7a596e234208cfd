-------------------------------- MODULE Heap --------------------------------
(***************************************************************************)
(* The binary heap of glucose/mtl/Heap.h as a sequence, ordered by a       *)
(* function cost that its owner changes from outside: after each change    *)
(* the owner must call increase, decrease or update for the element.       *)
(* The array indices is the inverse of the sequence and is not kept.       *)
(***************************************************************************)
LOCAL INSTANCE Integers
LOCAL INSTANCE Sequences
LOCAL INSTANCE SequencesExt

inHeap(h, n) == n \in ToSet(h)

HeapOrdered(h, cost) == \A i \in 2 .. Len(h) : cost[h[i \div 2]] <= cost[h[i]]

\* The positions an element of cost x passes on its way up, and down, from i.
Upwards(h, cost, x, i) ==
    LET path[k \in 1 .. Len(h)] ==
          IF k = 1 \/ cost[h[k \div 2]] <= x THEN <<k>> ELSE <<k>> \o path[k \div 2]
    IN path[i]

Downwards(h, cost, x, i) ==
    LET child(k) == IF 2 * k < Len(h) /\ cost[h[2 * k + 1]] < cost[h[2 * k]]
                    THEN 2 * k + 1 ELSE 2 * k
        path[k \in 1 .. Len(h)] ==
          IF 2 * k > Len(h) \/ x <= cost[h[child(k)]] THEN <<k>>
          ELSE <<k>> \o path[child(k)]
    IN path[i]

\* Every element on the path moves to the position before it, x to the last one.
Shift(h, path) ==
    [i \in DOMAIN h |->
        IF i \notin ToSet(path) THEN h[i]
        ELSE LET k == CHOOSE k \in DOMAIN path : path[k] = i
             IN IF k = Len(path) THEN h[path[1]] ELSE h[path[k + 1]]]

percolateUp(h, cost, i) == Shift(h, Upwards(h, cost, cost[h[i]], i))

percolateDown(h, cost, i) == Shift(h, Downwards(h, cost, cost[h[i]], i))

indexOf(h, n) == CHOOSE i \in DOMAIN h : h[i] = n

increase(h, cost, n) == percolateDown(h, cost, indexOf(h, n))

insert(h, cost, n) == percolateUp(Append(h, n), cost, Len(h) + 1)

update(h, cost, n) ==
    IF ~inHeap(h, n) THEN insert(h, cost, n)
    ELSE LET up == percolateUp(h, cost, indexOf(h, n))
         IN percolateDown(up, cost, indexOf(up, n))

\* The heap left by removeMin, which returns h[1].
removeMin(h, cost) ==
    LET moved == [Front(h) EXCEPT ![1] = Last(h)]
    IN IF Len(h) = 1 THEN <<>> ELSE percolateDown(moved, cost, 1)
=============================================================================
