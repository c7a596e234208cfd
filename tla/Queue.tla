-------------------------------- MODULE Queue -------------------------------
(***************************************************************************)
(* Queue<T> of glucose/mtl/Queue.h, the circular buffer behind the queue   *)
(* of clauses backward subsumption still has to look at. It grows by half  *)
(* when it is full, and its memory then starts at the first element again. *)
(***************************************************************************)
EXTENDS Integers, Sequences

CONSTANTS
    Elems,
    NoElem,     \* what a place of the buffer holds before anything is put there
    MaxSize     \* bound on the elements in the queue

\* What the module takes for granted of its constants.
QueueAssumption == MaxSize \in Nat /\ NoElem \notin Elems

VARIABLES
    buf,    \* the places of the buffer; buf[i + 1] is the code's buf[i]
    first,
    end

vars == <<buf, first, end>>

size == IF end >= first THEN end - first ELSE end - first + Len(buf)

\* The place, counted from 1, of the element at index i.
Place(i) == ((first + i) % Len(buf)) + 1

Init == buf = <<NoElem>> /\ first = 0 /\ end = 0

\* clear: the buffer shrinks to one place.
clear == buf' = <<NoElem>> /\ first' = 0 /\ end' = 0

pop ==
    /\ first # end
    /\ first' = IF first + 1 = Len(buf) THEN 0 ELSE first + 1
    /\ UNCHANGED <<buf, end>>

\* The caller writes through operator[]: relocAll moves every clause.
write(i, e) ==
    /\ i \in 0 .. size - 1
    /\ buf' = [buf EXCEPT ![Place(i)] = e]
    /\ UNCHANGED <<first, end>>

\* Mutant: the memory is copied as it lies, as realloc would do.
Resized_AsItLies(b) ==
    [i \in 1 .. (Len(b) * 3 + 1) \div 2 |-> IF i <= Len(b) THEN b[i] ELSE NoElem]

\* The buffer of (size * 3 + 1) >> 1 places a full buffer b is moved to.
Resized(b) ==
    LET n == Len(b)
    IN [i \in 1 .. (n * 3 + 1) \div 2 |->
           IF i <= n - first THEN b[first + i]
           ELSE IF i <= n THEN b[i - (n - first)] ELSE NoElem]

\* "INVARIANT: buf[end] is always unused"
insert(e) ==
    /\ size < MaxSize
    /\ LET written == [buf EXCEPT ![end + 1] = e]
           after == IF end + 1 = Len(buf) THEN 0 ELSE end + 1
       IN IF first # after
          THEN buf' = written /\ end' = after /\ UNCHANGED first
          ELSE buf' = Resized(written) /\ first' = 0 /\ end' = Len(buf)

Insert == \E e \in Elems : insert(e)
Write == \E e \in Elems, i \in 0 .. size - 1 : write(i, e)

Next == Insert \/ Write \/ pop \/ clear

Spec == Init /\ [][Next]_vars

-----------------------------------------------------------------------------

TypeOK ==
    /\ buf \in Seq(Elems \cup {NoElem}) /\ Len(buf) > 0
    /\ first \in 0 .. Len(buf) - 1
    /\ end \in 0 .. Len(buf) - 1

\* The elements of the queue, the oldest first.
Contents == [i \in 1 .. size |-> buf[Place(i - 1)]]

\* Clauses leave the queue in the order they came in, whatever the buffer's
\* size and wherever its first element is, and none is lost, repeated or made
\* up when the buffer wraps around or is moved to a larger one.
Promise == INSTANCE Fifo WITH queue <- Contents

KeepsOrder == Promise!Spec
=============================================================================
