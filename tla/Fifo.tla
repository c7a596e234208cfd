-------------------------------- MODULE Fifo --------------------------------
(***************************************************************************)
(* What the users of a queue count on: the elements leave it in the order  *)
(* they came in, and the i-th one can be read and replaced.                *)
(***************************************************************************)
EXTENDS Naturals, Sequences

CONSTANT Elems
VARIABLE queue

Init == queue = <<>>

Insert(e) == queue' = Append(queue, e)

Pop == queue # <<>> /\ queue' = Tail(queue)

Replace(i, e) == i \in 1 .. Len(queue) /\ queue' = [queue EXCEPT ![i] = e]

Clear == queue' = <<>>

Next ==
    \/ \E e \in Elems : Insert(e)
    \/ \E e \in Elems, i \in 1 .. Len(queue) : Replace(i, e)
    \/ Pop
    \/ Clear

Spec == Init /\ [][Next]_queue
=============================================================================
