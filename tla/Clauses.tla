------------------------------ MODULE Clauses ------------------------------
(***************************************************************************)
(* Literals and clauses of the SAT solver, glucose/core/SolverTypes.h, and *)
(* the operations on one or two clauses that the solver and its            *)
(* preprocessor are built from.  A variable is a number from 0, a literal  *)
(* is 2v for v and 2v+1 for its negation, a clause is a sequence of        *)
(* literals because the first two are the watched ones.                    *)
(***************************************************************************)
EXTENDS Integers, Sequences, FiniteSets, SequencesExt

lit_Undef == -2
lit_Error == -1

mkLit(v, sign) == 2 * v + (IF sign THEN 1 ELSE 0)

neg(p) == IF p % 2 = 0 THEN p + 1 ELSE p - 1

var(p) == p \div 2

vars(lits) == {var(p) : p \in lits}

\* A set of literals no assignment falsifies.
Tautology(lits) == \E p \in lits : neg(p) \in lits

\* sort() of literals or variables
ascending(S) ==
    [k \in 1 .. Cardinality(S) |-> CHOOSE x \in S : Cardinality({y \in S : y < x}) = k - 1]

\* Mutant: a clause shortens another although two of its literals are negated in it.
subsumes_Broken(c, d) ==
    LET flipped == {p \in ToSet(c) : neg(p) \in ToSet(d)}
    IN IF Len(d) < Len(c) \/ ~(ToSet(c) \subseteq ToSet(d) \cup flipped) THEN lit_Error
       ELSE IF flipped = {} THEN lit_Undef ELSE CHOOSE p \in flipped : TRUE

\* Clause::subsumes: lit_Undef if every literal of c is in d; the literal of c
\* whose negation may be deleted from d if it is the only one not in d.
subsumes(c, d) ==
    LET flipped == {p \in ToSet(c) : neg(p) \in ToSet(d)}
    IN IF \/ Len(d) < Len(c)
          \/ ~(ToSet(c) \subseteq ToSet(d) \cup flipped)
          \/ Cardinality(flipped) > 1
       THEN lit_Error
       ELSE IF flipped = {} THEN lit_Undef ELSE CHOOSE p \in flipped : TRUE

\* Clause::strengthen
strengthen(c, p) == Remove(c, p)

\* The literals of the resolvent of c and d on v.
Resolvent(c, d, v) == {p \in c \cup d : var(p) # v}

\* SimpSolver::merge, both of them: FALSE if the resolvent is always satisfied.
merges(c, d, v) == ~Tautology(Resolvent(ToSet(c), ToSet(d), v))

\* The clause stored when v is eliminated, the literal of v in front.
mkElimClause(c, v) ==
    LET pos == CHOOSE i \in DOMAIN c : var(c[i]) = v
    IN [c EXCEPT ![1] = c[pos], ![pos] = c[1]]

\* An assignment is the set of its true literals.
Satisfies(a, lits) == a \cap lits # {}

Assignments(V) == {{mkLit(v, v \in N) : v \in V} : N \in SUBSET V}

Models(V, clauses) == {a \in Assignments(V) : \A c \in clauses : Satisfies(a, c)}
=============================================================================
