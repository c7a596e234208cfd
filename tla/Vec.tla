--------------------------------- MODULE Vec --------------------------------
(***************************************************************************)
(* vec<T> of glucose/mtl/Vec.h: the length and the capacity of a vector,   *)
(* with the arithmetic of a signed int of the machine. What is stored is   *)
(* left out: realloc keeps it.                                             *)
(***************************************************************************)
EXTENDS Integers

CONSTANT INT_MAX
\* What the module takes for granted of its constants.
IntMaxAssumption == INT_MAX \in Nat /\ INT_MAX % 2 = 1 /\ INT_MAX >= 7

VARIABLES
    sz,
    cap,
    thrown  \* an OutOfMemoryException has left the vector behind

vars == <<sz, cap, thrown>>

\* What a sum outside of the int range comes to: undefined in C++, and wrapped
\* around by the instructions the compiler uses.
Wrap(x) == ((x + INT_MAX + 1) % (2 * INT_MAX + 2)) - INT_MAX - 1

Even(x) == x - (x % 2)    \* x & ~1

\* The maximum of two ints, from the sign of their difference.
imax(x, y) == IF Wrap(y - x) < 0 THEN x ELSE y

\* Mutant: the low bit of what is missing is not cleared.
Growth_Odd(c, min_cap) == imax(Wrap(min_cap - c), Even((c \div 2) + 2))

\* How much a vector of capacity c grows when it has to hold min_cap elements.
Growth(c, min_cap) ==
    imax(Even(Wrap(Wrap(min_cap - c) + 1)), Even((c \div 2) + 2))

\* capacity(min_cap), and then the vector has n elements. An addition beyond
\* INT_MAX is refused before, a failing realloc after the capacity is changed.
Reserve(min_cap, n) ==
    LET add == Growth(cap, min_cap)
    IN IF cap >= min_cap THEN sz' = n /\ UNCHANGED <<cap, thrown>>
       ELSE \/ /\ add <= INT_MAX - cap /\ cap + add >= 0
               /\ cap' = cap + add /\ sz' = n /\ UNCHANGED thrown
            \/ /\ add > INT_MAX - cap
               /\ thrown' = TRUE /\ UNCHANGED <<sz, cap>>
            \/ /\ add <= INT_MAX - cap
               /\ cap' = cap + add /\ thrown' = TRUE /\ UNCHANGED sz

Init == sz = 0 /\ cap = 0 /\ thrown = FALSE

\* push: room is made for sz+1 elements when there is none left.
push == ~thrown /\ IF sz = cap THEN Reserve(Wrap(sz + 1), Wrap(sz + 1))
                   ELSE sz' = sz + 1 /\ UNCHANGED <<cap, thrown>>

growTo(size) ==
    ~thrown /\ IF sz >= size THEN UNCHANGED vars ELSE Reserve(size, size)

capacity(min_cap) == ~thrown /\ Reserve(min_cap, sz)

\* pop, shrink and remove: the vector keeps its memory.
shrink(nelems) ==
    ~thrown /\ nelems <= sz /\ sz' = sz - nelems /\ UNCHANGED <<cap, thrown>>

\* clear, and with dealloc, or when its memory is moved to another vector, the
\* capacity goes too.
clear(dealloc) ==
    /\ ~thrown
    /\ sz' = 0 /\ cap' = IF dealloc THEN 0 ELSE cap
    /\ UNCHANGED thrown

Next ==
    \/ push
    \/ \E size \in 0 .. INT_MAX : growTo(size) \/ capacity(size)
    \/ \E nelems \in 1 .. INT_MAX : shrink(nelems)
    \/ \E dealloc \in BOOLEAN : clear(dealloc)

Spec == Init /\ [][Next]_vars

-----------------------------------------------------------------------------

\* "it seems possible that overflow can happen in the 'sz+1' expression of
\* 'push()', but in fact it can not since it requires that 'cap' is equal to
\* INT_MAX. This in turn can not happen [...] all capacities are even, but
\* INT_MAX is odd."
PushCannotOverflow == ~thrown => sz + 1 <= INT_MAX

\* Why it cannot.
CapacitiesEven == cap % 2 = 0

\* The elements are inside the memory that was reserved for them, also when a
\* computed capacity has overflowed.
ElementsFit == ~thrown => 0 <= sz /\ sz <= cap /\ cap <= INT_MAX
=============================================================================
