------------------------- MODULE TestGeneBySAT_proof -------------------------
(***************************************************************************)
(* For every circuit and every set of faults that a primary input reaches: *)
(* the clauses generateTestBySAT_1 hands to the solver have as models      *)
(* exactly the simulations of the fault-free and the faulty circuit under  *)
(* the patterns that tell them apart, and what the call answers is what    *)
(* module TestGeneration promises.  For every sequence of calls of         *)
(* generateTestBySAT: a reset restores the clauses of the circuit without  *)
(* faults, and the models are the tests for the faults of the call.        *)
(***************************************************************************)
EXTENDS MCTestGeneBySAT, Netlist_proof, FiniteSetTheorems, SequenceTheorems

(***************************************************************************)
(* Orders.                                                                 *)
(***************************************************************************)
Orders(R, S) ==
  /\ \A x \in S : <<x, x>> \notin R
  /\ \A x, y \in S : x # y => <<x, y>> \in R \/ <<y, x>> \in R
  /\ \A x, y, z \in S : <<x, y>> \in R /\ <<y, z>> \in R => <<x, z>> \in R

\* A list of a set in an order: it holds every element, each before those it
\* precedes.
Lists(s, S, R) ==
  /\ s \in Seq(S) /\ Len(s) = Cardinality(S)
  /\ \A x \in S : \E k \in 1 .. Len(s) : s[k] = x
  /\ \A j, k \in 1 .. Len(s) : j < k => <<s[j], s[k]>> \in R

\* Enumerated lists a finite set in a strict total order.
LEMMA EnumeratedLists ==
  ASSUME NEW S, IsFiniteSet(S), NEW R, Orders(R, S)
  PROVE  Lists(Enumerated(S, R), S, R)
<1> DEFINE below(x) == {y \in S : <<y, x>> \in R}
           c == Cardinality(S)
           rank == [x \in S |-> Cardinality(below(x))]
           list == [k \in 1 .. c |-> CHOOSE x \in S : Cardinality(below(x)) = k - 1]
<1>1. c \in Nat
  BY FS_CardinalityType
<1>2. ASSUME NEW x \in S
      PROVE  IsFiniteSet(below(x)) /\ rank[x] \in 0 .. c - 1
  <2>1. below(x) \in SUBSET S /\ below(x) # S
    BY DEF Orders
  <2>2. IsFiniteSet(below(x)) /\ Cardinality(below(x)) <= c /\ c # Cardinality(below(x))
    BY <2>1, FS_Subset
  <2>3. Cardinality(below(x)) \in Nat
    BY <2>2, FS_CardinalityType
  <2> QED
    BY <1>1, <2>2, <2>3
<1>3. ASSUME NEW x \in S, NEW y \in S, <<x, y>> \in R
      PROVE  rank[x] < rank[y]
  <2>1. below(x) \in SUBSET below(y) /\ below(x) # below(y)
    BY <1>3 DEF Orders
  <2>2. Cardinality(below(x)) <= Cardinality(below(y)) /\ Cardinality(below(y)) # Cardinality(below(x))
    BY <1>2, <2>1, FS_Subset
  <2>3. rank[x] = Cardinality(below(x)) /\ rank[y] = Cardinality(below(y))
    OBVIOUS
  <2>4. rank[x] \in 0 .. c - 1 /\ rank[y] \in 0 .. c - 1
    BY <1>2
  <2> HIDE DEF rank, below
  <2> QED
    BY <1>1, <2>2, <2>3, <2>4
<1>4. \A x, y \in S : rank[x] = rank[y] => x = y
  <2> SUFFICES ASSUME NEW x \in S, NEW y \in S, rank[x] = rank[y], x # y PROVE FALSE
    OBVIOUS
  <2>1. rank[x] \in 0 .. c - 1 /\ rank[y] \in 0 .. c - 1
    BY <1>2
  <2>2. <<x, y>> \in R \/ <<y, x>> \in R
    BY DEF Orders
  <2> HIDE DEF rank
  <2>3. rank[x] < rank[y] \/ rank[y] < rank[x]
    BY <1>3, <2>2
  <2> QED
    BY <1>1, <2>1, <2>3
<1> HIDE DEF below
<1>5. rank \in Injection(S, 0 .. c - 1)
  <2>1. rank \in [S -> 0 .. c - 1]
    BY <1>2
  <2> QED
    BY <1>4, <2>1 DEF Injection, IsInjective
<1>6. rank \in Surjection(S, 0 .. c - 1)
  <2>1. IsFiniteSet(0 .. c - 1) /\ Cardinality(0 .. c - 1) = c
    BY <1>1, FS_Interval, SMTT(60)
  <2> QED
    BY <1>5, <2>1, FS_Injection
<1>7. \A k \in 1 .. c : \E x \in S : rank[x] = k - 1
  <2>1. \A k \in 1 .. c : k - 1 \in 0 .. c - 1
    BY <1>1
  <2> QED
    BY <1>6, <2>1 DEF Surjection
<1>8. \A k \in 1 .. c : list[k] \in S /\ rank[list[k]] = k - 1
  <2> SUFFICES ASSUME NEW k \in 1 .. c PROVE list[k] \in S /\ rank[list[k]] = k - 1
    OBVIOUS
  <2>1. \E x \in S : Cardinality(below(x)) = k - 1
    BY <1>7
  <2> QED
    BY <2>1
<1>9. list \in Seq(S) /\ Len(list) = c /\ DOMAIN list = 1 .. c
  <2>1. list \in [1 .. c -> S]
    BY <1>8
  <2> HIDE DEF list
  <2> QED
    BY <1>1, <2>1
<1>10. Enumerated(S, R) = list
  <2>1. Enumerated(S, R) = list \o << >>
    BY DEF Enumerated, below
  <2> HIDE DEF list
  <2> QED
    BY <1>9, <2>1
<1> HIDE DEF rank, list, c
<1>11. \A x \in S : \E k \in 1 .. c : list[k] = x
  <2> SUFFICES ASSUME NEW x \in S PROVE \E k \in 1 .. c : list[k] = x
    OBVIOUS
  <2>1. rank[x] + 1 \in 1 .. c /\ rank[x] = (rank[x] + 1) - 1
    BY <1>1, <1>2
  <2>2. rank[list[rank[x] + 1]] = rank[x]
    BY <1>8, <2>1
  <2> QED
    BY <1>4, <1>8, <2>1, <2>2
<1>12. \A j, k \in 1 .. c : j < k => <<list[j], list[k]>> \in R
  <2> SUFFICES ASSUME NEW j \in 1 .. c, NEW k \in 1 .. c, j < k PROVE <<list[j], list[k]>> \in R
    OBVIOUS
  <2>1. rank[list[j]] = j - 1 /\ rank[list[k]] = k - 1 /\ list[j] \in S /\ list[k] \in S
    BY <1>8
  <2>2. j \in Int /\ k \in Int
    BY <1>1
  <2>3. ~ (<<list[k], list[j]>> \in R)
    BY <1>3, <2>1, <2>2
  <2>4. list[j] # list[k]
    BY <2>1, <2>2
  <2> QED
    BY <2>1, <2>3, <2>4 DEF Orders
<1> QED
  BY <1>9, <1>10, <1>11, <1>12 DEF Lists, c
-----------------------------------------------------------------------------
(***************************************************************************)
(* Models.                                                                 *)
(***************************************************************************)
Vars(cnf) == UNION {{VarOf(l) : l \in c} : c \in cnf}

\* Every variable of the clauses is in the list, once.
IsOrder(cnf, order) ==
  /\ order \in Seq(Vars(cnf))
  /\ \A v \in Vars(cnf) : \E k \in 1 .. Len(order) : order[k] = v
  /\ \A j, k \in 1 .. Len(order) : order[j] = order[k] => j = k

\* The largest of some positions.
LEMMA LargestPosition ==
  ASSUME NEW n \in Nat, NEW P \in SUBSET (1 .. n), P # {}
  PROVE  \E m \in P : \A k \in P : k <= m
<1> DEFINE D == {d \in Nat : \E k \in P : d = n - k}
<1>1. \A k \in P : k \in Nat /\ n - k \in D
  OBVIOUS
<1>2. D \in SUBSET Nat /\ D # {}
  BY <1>1
<1> HIDE DEF D
<1>3. PICK d \in D : \A e \in D : d <= e
  BY <1>2, LeastNumber
<1>4. PICK m \in P : d = n - m
  BY <1>3 DEF D
<1>5. \A k \in P : n - m <= n - k
  BY <1>1, <1>3, <1>4
<1> QED
  BY <1>1, <1>5

\* A clause says nothing of variables it does not contain.
LEMMA HoldsLocally ==
  ASSUME NEW c, NEW a, NEW b, \A l \in c : a[VarOf(l)] = b[VarOf(l)]
  PROVE  Holds(c, a) <=> Holds(c, b)
<1>1. \A l \in c : (IF l > 0 THEN a[l] = 1 ELSE a[- l] = 0) <=> (IF l > 0 THEN b[l] = 1 ELSE b[- l] = 0)
  BY DEF VarOf
<1> QED
  BY <1>1 DEF Holds

\* The models computed variable by variable are the assignments of bits to the
\* variables that satisfy every clause.
LEMMA ModelsExact ==
  ASSUME NEW cnf, NEW order, IsOrder(cnf, order)
  PROVE  Models(cnf, order) = {a \in [Vars(cnf) -> Bit] : \A c \in cnf : Holds(c, a)}
<1> DEFINE L == Len(order)
           place == [v \in {order[k] : k \in 1 .. L} |-> CHOOSE k \in 1 .. L : order[k] = v]
           lastOf(c) == CHOOSE k \in {place[VarOf(l)] : l \in c} : \A l \in c : place[VarOf(l)] <= k
           due == [k \in 1 .. L |-> {c \in cnf : c # {} /\ lastOf(c) = k}]
           Extended(b, k, x) == [v \in DOMAIN b \cup {order[k]} |-> IF v = order[k] THEN x ELSE b[v]]
           Step(k, m) ==
             IF k = 0 THEN {[v \in {} |-> 0]}
             ELSE {a \in {Extended(b, k, x) : b \in m[k - 1], x \in Bit} : \A c \in due[k] : Holds(c, a)}
           E(m) == [k \in 0 .. L |-> Step(k, m)]
           models == CHOOSE m : m = E(m)
           V(k) == {order[j] : j \in 1 .. k}
           M(k) == {a \in [V(k) -> Bit] : \A c \in cnf : c # {} /\ lastOf(c) <= k => Holds(c, a)}
           F == [k \in 0 .. L |-> M(k)]
<1>1. Models(cnf, order) = IF {} \in cnf THEN {} ELSE models[L]
  BY DEF Models
<1>2. L \in Nat /\ \A k \in 1 .. L : order[k] \in Vars(cnf)
  BY DEF IsOrder
<1>3. \A k \in 1 .. L : place[order[k]] = k
  <2> SUFFICES ASSUME NEW k \in 1 .. L PROVE place[order[k]] = k
    OBVIOUS
  <2>1. place[order[k]] = CHOOSE j \in 1 .. L : order[j] = order[k]
    OBVIOUS
  <2> HIDE DEF place
  <2> QED
    BY <2>1 DEF IsOrder
<1>4. \A c \in cnf : \A l \in c : \E k \in 1 .. L : VarOf(l) = order[k] /\ place[VarOf(l)] = k
  <2> HIDE DEF place
  <2>1. \A c \in cnf : \A l \in c : VarOf(l) \in Vars(cnf)
    BY DEF Vars
  <2> QED
    BY <1>3, <2>1 DEF IsOrder
<1> HIDE DEF place
<1>5. ASSUME NEW c \in cnf, c # {}
      PROVE  lastOf(c) \in 1 .. L /\ \A l \in c : place[VarOf(l)] <= lastOf(c)
  <2> DEFINE P == {place[VarOf(l)] : l \in c}
  <2>1. P \in SUBSET (1 .. L) /\ P # {}
    BY <1>4, <1>5
  <2>2. \E m \in P : \A k \in P : k <= m
    BY <1>2, <2>1, LargestPosition
  <2>3. lastOf(c) \in P /\ \A l \in c : place[VarOf(l)] <= lastOf(c)
    BY <2>2
  <2> QED
    BY <2>1, <2>3
<1> HIDE DEF lastOf
<1>6. \A k \in 1 .. L : V(k) = V(k - 1) \cup {order[k]} /\ order[k] \notin V(k - 1)
  <2> SUFFICES ASSUME NEW k \in 1 .. L PROVE V(k) = V(k - 1) \cup {order[k]} /\ order[k] \notin V(k - 1)
    OBVIOUS
  <2>1. 1 .. k = (1 .. k - 1) \cup {k} /\ 1 .. k - 1 \subseteq 1 .. L /\ k \notin 1 .. k - 1
    BY <1>2
  <2>2. \A j \in 1 .. k - 1 : order[j] # order[k]
    BY <2>1 DEF IsOrder
  <2>3. V(k) = V(k - 1) \cup {order[k]}
    BY <2>1
  <2> QED
    BY <2>2, <2>3
<1>7. \A k \in 0 .. L : \A c \in cnf : c # {} /\ lastOf(c) <= k => \A l \in c : VarOf(l) \in V(k)
  <2> SUFFICES ASSUME NEW k \in 0 .. L, NEW c \in cnf, c # {}, lastOf(c) <= k, NEW l \in c
               PROVE  VarOf(l) \in V(k)
    OBVIOUS
  <2>1. PICK j \in 1 .. L : VarOf(l) = order[j] /\ place[VarOf(l)] = j
    BY <1>4
  <2>2. j <= lastOf(c) /\ lastOf(c) \in 1 .. L
    BY <1>5, <2>1
  <2>3. j \in 1 .. k
    BY <1>2, <2>2
  <2> QED
    BY <2>1, <2>3
<1> HIDE DEF V
<1>8. ASSUME NEW k \in 1 .. L, NEW m, m[k - 1] = M(k - 1)
      PROVE  Step(k, m) = M(k)
  <2>1. k # 0 /\ k - 1 \in 0 .. L /\ k \in 0 .. L
    BY <1>2
  <2>2. ASSUME NEW a \in M(k)
        PROVE  a \in Step(k, m)
    <3> DEFINE b == [v \in V(k - 1) |-> a[v]]
    <3>1. a \in [V(k) -> Bit] /\ order[k] \in V(k)
      BY <1>6
    <3>2. b \in [V(k - 1) -> Bit]
      BY <1>6, <3>1
    <3>3. a = Extended(b, k, a[order[k]]) /\ a[order[k]] \in Bit
      BY <1>6, <3>1
    <3>4. ASSUME NEW c \in cnf, c # {}, lastOf(c) <= k - 1
          PROVE  Holds(c, b)
      <4>1. lastOf(c) <= k
        BY <1>2, <1>5, <3>4
      <4>2. Holds(c, a)
        BY <3>4, <4>1
      <4>3. \A l \in c : a[VarOf(l)] = b[VarOf(l)]
        BY <1>7, <2>1, <3>4
      <4> HIDE DEF b
      <4> QED
        BY <4>2, <4>3, HoldsLocally
    <3>5. b \in m[k - 1]
      BY <1>8, <3>2, <3>4
    <3>6. \A c \in due[k] : Holds(c, a)
      BY <1>2
    <3> HIDE DEF b, Extended, due, M
    <3> QED
      BY <2>1, <3>3, <3>5, <3>6
  <2>3. ASSUME NEW a \in Step(k, m)
        PROVE  a \in M(k)
    <3>1. PICK b \in M(k - 1), x \in Bit : a = Extended(b, k, x)
      <4> HIDE DEF Extended, M, due
      <4> QED
        BY <1>8, <2>1, <2>3
    <3>2. \A c \in due[k] : Holds(c, a)
      <4> HIDE DEF Extended, M, due
      <4> QED
        BY <2>1, <2>3
    <3>3. b \in [V(k - 1) -> Bit]
      OBVIOUS
    <3>4. a \in [V(k) -> Bit] /\ \A v \in V(k - 1) : a[v] = b[v]
      BY <1>6, <3>1, <3>3
    <3>5. ASSUME NEW c \in cnf, c # {}, lastOf(c) <= k
          PROVE  Holds(c, a)
      <4>1. CASE lastOf(c) = k
        BY <3>2, <3>5, <4>1
      <4>2. CASE lastOf(c) # k
        <5>1. lastOf(c) <= k - 1
          BY <1>2, <1>5, <3>5, <4>2
        <5>2. Holds(c, b)
          BY <3>5, <5>1
        <5>3. \A l \in c : a[VarOf(l)] = b[VarOf(l)]
          BY <1>7, <2>1, <3>4, <3>5, <5>1
        <5> QED
          BY <5>2, <5>3, HoldsLocally
      <4> QED
        BY <4>1, <4>2
    <3> QED
      BY <3>4, <3>5
  <2> HIDE DEF Step, M
  <2> QED
    BY <2>2, <2>3
<1>9. \A m : Step(0, m) = M(0)
  <2>1. V(0) = {}
    BY DEF V
  <2>2. \A c \in cnf : c # {} => ~ (lastOf(c) <= 0)
    BY <1>2, <1>5
  <2>3. M(0) = [{} -> Bit]
    BY <2>1, <2>2
  <2>4. [{} -> Bit] = {[v \in {} |-> 0]}
    OBVIOUS
  <2> QED
    BY <2>3, <2>4
<1> HIDE DEF Step, M
<1>10. F = E(F)
  <2>1. \A k \in 0 .. L : F[k] = Step(k, F)
    <3> SUFFICES ASSUME NEW k \in 0 .. L PROVE M(k) = Step(k, F)
      OBVIOUS
    <3>1. CASE k = 0
      BY <1>9, <3>1
    <3>2. CASE k # 0
      <4>1. k \in 1 .. L /\ k - 1 \in 0 .. L
        BY <1>2, <3>2
      <4>2. F[k - 1] = M(k - 1)
        BY <4>1
      <4> QED
        BY <1>8, <4>1, <4>2
    <3> QED
      BY <3>1, <3>2
  <2> HIDE DEF L
  <2> QED
    BY <2>1
<1>11. models = E(models)
  <2> HIDE DEF E, F
  <2> QED
    BY <1>10
<1> HIDE DEF models
<1>12. \A k \in 0 .. L : models[k] = M(k)
  <2> DEFINE Right == {k \in 0 .. L : models[k] = M(k)}
  <2>1. ASSUME NEW k \in 0 .. (L + 1) - 1, \A j \in 0 .. (L + 1) - 1 : j < k => j \in Right
        PROVE  k \in Right
    <3>1. k \in 0 .. L /\ models[k] = Step(k, models)
      BY <1>2, <1>11
    <3>2. CASE k = 0
      BY <1>9, <3>1, <3>2
    <3>3. CASE k # 0
      <4>1. k \in 1 .. L /\ k - 1 \in 0 .. (L + 1) - 1 /\ k - 1 < k
        BY <1>2, <3>1, <3>3
      <4>2. models[k - 1] = M(k - 1)
        BY <2>1, <4>1
      <4> QED
        BY <1>8, <3>1, <4>1, <4>2
    <3> QED
      BY <3>2, <3>3
  <2> HIDE DEF Right
  <2>3. L + 1 \in Nat
    BY <1>2
  <2> HIDE DEF L
  <2>2. \A k \in 0 .. (L + 1) - 1 : k \in Right
    BY <2>1, <2>3, Induction
  <2> QED
    BY <1>2, <2>2 DEF Right
<1>13. V(L) = Vars(cnf)
  BY <1>2 DEF V, IsOrder
<1>14. CASE {} \in cnf
  <2>1. \A a : ~ Holds({}, a)
    BY DEF Holds
  <2> QED
    BY <1>1, <1>14, <2>1
<1>15. CASE {} \notin cnf
  <2>1. \A c \in cnf : c # {} /\ lastOf(c) <= L
    BY <1>2, <1>5, <1>15
  <2>2. Models(cnf, order) = M(L)
    BY <1>1, <1>2, <1>12, <1>15
  <2>3. M(L) = {a \in [V(L) -> Bit] : \A c \in cnf : Holds(c, a)}
    BY <2>1 DEF M
  <2> QED
    BY <1>13, <2>2, <2>3
<1> QED
  BY <1>14, <1>15
-----------------------------------------------------------------------------
(***************************************************************************)
(* What the clauses of a gate say.                                         *)
(***************************************************************************)
Satisfied(clauses, a) == \A c \in clauses : Holds(c, a)

True(l, a) == IF l > 0 THEN a[l] = 1 ELSE a[- l] = 0

\* The gate has the number of a variable, and so has what it reads there; the
\* variables carry bits.
Carried(id, a) == id \in Nat /\ a[Var(id)] \in Bit

\* A literal that generateClause makes is true when the inverted line is 1.
LEMMA LiteralMeaning ==
  ASSUME NEW a, NEW id, Carried(id, a), NEW flag \in Bit
  PROVE  /\ True(Literal(id, flag), a) <=> a[Var(id)] = flag
         /\ True(- Literal(id, flag), a) <=> a[Var(id)] # flag
<1>1. \A v \in Nat : v > 0 => ~ (- v > 0) /\ - (- v) = v
  OBVIOUS
<1>2. Var(id) \in Nat /\ Var(id) > 0 /\ a[Var(id)] \in {0, 1}
  BY DEF Carried, Var, Bit
<1>3. True(Var(id), a) <=> a[Var(id)] = 1
  BY <1>2 DEF True
<1>4. True(- Var(id), a) <=> a[Var(id)] = 0
  BY <1>1, <1>2 DEF True
<1>5. CASE flag = 1
  BY <1>2, <1>3, <1>4, <1>5 DEF Literal
<1>6. CASE flag = 0
  <2>1. Literal(id, flag) = - Var(id) /\ - Literal(id, flag) = Var(id)
    BY <1>1, <1>2, <1>6 DEF Literal
  <2> QED
    BY <1>2, <1>3, <1>4, <1>6, <2>1
<1> QED
  BY <1>5, <1>6 DEF Bit

\* A clause holds if one of its literals is true.
LEMMA ClauseMeaning ==
  ASSUME NEW a
  PROVE  /\ \A l : Holds({l}, a) <=> True(l, a)
         /\ \A l, m : Holds({l, m}, a) <=> True(l, a) \/ True(m, a)
         /\ \A l, m, n : Holds({l, m, n}, a) <=> True(l, a) \/ True(m, a) \/ True(n, a)
<1>1. \A c : Holds(c, a) <=> \E l \in c : True(l, a)
  BY DEF Holds, True
<1> QED
  BY <1>1

\* The forms the clauses of a gate take.
OneOfOne(S, k) == S = {{k}}
OneOfTwo(S, k, l) == S = {{k, l}}
TwoOfTwo(S, k, l, m, n) == S = {{k, l}, {m, n}}
TwoAndThree(S, k, l, m, n, p, q, r) == S = {{k, l}, {m, n}, {p, q, r}}
FourOfThree(S, k, kk, l, ll, m, mm) == S = {{k, l, mm}, {k, ll, m}, {kk, ll, mm}, {kk, l, m}}

\* Small clauses and small sets of clauses, spelled out.
LEMMA OneLiteral ==
  ASSUME NEW a, NEW S, NEW k, OneOfOne(S, k)
  PROVE  Satisfied(S, a) <=> True(k, a)
BY ClauseMeaning DEF Satisfied, OneOfOne

\* The same for two literals.
LEMMA TwoLiterals ==
  ASSUME NEW a, NEW S, NEW k, NEW l, OneOfTwo(S, k, l)
  PROVE  Satisfied(S, a) <=> True(k, a) \/ True(l, a)
BY ClauseMeaning DEF Satisfied, OneOfTwo

\* Two clauses.
LEMMA TwoClauses ==
  ASSUME NEW a, NEW S, NEW k, NEW l, NEW m, NEW n, TwoOfTwo(S, k, l, m, n)
  PROVE  Satisfied(S, a) <=> (True(k, a) \/ True(l, a)) /\ (True(m, a) \/ True(n, a))
<1>1. Satisfied(S, a) <=> Holds({k, l}, a) /\ Holds({m, n}, a)
  BY DEF Satisfied, TwoOfTwo
<1> QED
  BY <1>1, ClauseMeaning

\* Three clauses.
LEMMA ThreeClauses ==
  ASSUME NEW a, NEW S, NEW k, NEW l, NEW m, NEW n, NEW p, NEW q, NEW r, TwoAndThree(S, k, l, m, n, p, q, r)
  PROVE  Satisfied(S, a) <=> /\ True(k, a) \/ True(l, a)
                             /\ True(m, a) \/ True(n, a)
                             /\ True(p, a) \/ True(q, a) \/ True(r, a)
<1>1. Satisfied(S, a) <=> Holds({k, l}, a) /\ Holds({m, n}, a) /\ Holds({p, q, r}, a)
  BY DEF Satisfied, TwoAndThree
<1> QED
  BY <1>1, ClauseMeaning

\* Four clauses.
LEMMA FourClauses ==
  ASSUME NEW a, NEW S, NEW k, NEW kk, NEW l, NEW ll, NEW m, NEW mm,
         FourOfThree(S, k, kk, l, ll, m, mm)
  PROVE  Satisfied(S, a) <=> /\ True(k, a) \/ True(l, a) \/ True(mm, a)
                             /\ True(k, a) \/ True(ll, a) \/ True(m, a)
                             /\ True(kk, a) \/ True(ll, a) \/ True(mm, a)
                             /\ True(kk, a) \/ True(l, a) \/ True(m, a)
<1>1. Satisfied(S, a) <=> Holds({k, l, mm}, a) /\ Holds({k, ll, m}, a) /\ Holds({kk, ll, mm}, a) /\ Holds({kk, l, m}, a)
  BY DEF Satisfied, FourOfThree
<1> QED
  BY <1>1, ClauseMeaning

\* A buffer or inverter puts out what getOutValue says.
LEMMA BufferClauses ==
  ASSUME NEW c, NEW a, c.gateType = "bufInv", c.invIn1 \in Bit, c.invOut \in Bit,
         Carried(c.gateID, a), Carried(c.fanin1, a)
  PROVE  \A in2 : Satisfied(generateClause(c), a) <=> a[Var(c.gateID)] = getOutValue(c, a[Var(c.fanin1)], in2)
<1> DEFINE in1 == Literal(c.fanin1, c.invIn1)
           out == Literal(c.gateID, c.invOut)
           noIn1 == - in1
           noOut == - out
<1>1. TwoOfTwo(generateClause(c), in1, noOut, noIn1, out)
  BY DEF generateClause, TwoOfTwo
<1>2. Satisfied(generateClause(c), a) <=> (True(in1, a) \/ True(noOut, a)) /\ (True(noIn1, a) \/ True(out, a))
  <2> HIDE DEF in1, out, noIn1, noOut
  <2> QED
    BY <1>1, TwoClauses
<1>3. /\ True(in1, a) <=> a[Var(c.fanin1)] = c.invIn1
      /\ True(noIn1, a) <=> a[Var(c.fanin1)] # c.invIn1
      /\ True(out, a) <=> a[Var(c.gateID)] = c.invOut
      /\ True(noOut, a) <=> a[Var(c.gateID)] # c.invOut
  BY LiteralMeaning
<1> HIDE DEF in1, out, noIn1, noOut
<1>4. Satisfied(generateClause(c), a) <=> (a[Var(c.fanin1)] = c.invIn1 <=> a[Var(c.gateID)] = c.invOut)
  BY <1>2, <1>3
<1> QED
  BY <1>4 DEF getOutValue, Carried, Bit

\* So does an AIG.
LEMMA AigClauses ==
  ASSUME NEW c, NEW a, c.gateType = "aig", c.invIn1 \in Bit, c.invIn2 \in Bit, c.invOut \in Bit,
         Carried(c.gateID, a), Carried(c.fanin1, a), Carried(c.fanin2, a)
  PROVE  Satisfied(generateClause(c), a) <=>
           a[Var(c.gateID)] = getOutValue(c, a[Var(c.fanin1)], a[Var(c.fanin2)])
<1> DEFINE in1 == Literal(c.fanin1, c.invIn1)
           in2 == Literal(c.fanin2, c.invIn2)
           out == Literal(c.gateID, c.invOut)
           noIn1 == - in1
           noIn2 == - in2
           noOut == - out
<1>1. TwoAndThree(generateClause(c), in1, noOut, in2, noOut, noIn1, noIn2, out)
  BY DEF generateClause, TwoAndThree
<1>2. Satisfied(generateClause(c), a) <=> /\ True(in1, a) \/ True(noOut, a)
                                          /\ True(in2, a) \/ True(noOut, a)
                                          /\ True(noIn1, a) \/ True(noIn2, a) \/ True(out, a)
  <2> HIDE DEF in1, in2, out, noIn1, noIn2, noOut
  <2> QED
    BY <1>1, ThreeClauses
<1>3. /\ True(in1, a) <=> a[Var(c.fanin1)] = c.invIn1
      /\ True(noIn1, a) <=> a[Var(c.fanin1)] # c.invIn1
      /\ True(in2, a) <=> a[Var(c.fanin2)] = c.invIn2
      /\ True(noIn2, a) <=> a[Var(c.fanin2)] # c.invIn2
      /\ True(out, a) <=> a[Var(c.gateID)] = c.invOut
      /\ True(noOut, a) <=> a[Var(c.gateID)] # c.invOut
  BY LiteralMeaning
<1> HIDE DEF in1, in2, out, noIn1, noIn2, noOut
<1>4. Satisfied(generateClause(c), a) <=>
        (a[Var(c.fanin1)] = c.invIn1 /\ a[Var(c.fanin2)] = c.invIn2 <=> a[Var(c.gateID)] = c.invOut)
  BY <1>2, <1>3
<1> QED
  BY <1>4 DEF getOutValue, Carried, Bit

\* The XOR of two outputs is 1 if they differ.
LEMMA XORClauses ==
  ASSUME NEW c, NEW a, c.gateType = "XOR", c.invIn1 = 1, c.invIn2 = 1, c.invOut = 1,
         Carried(c.gateID, a), Carried(c.fanin1, a), Carried(c.fanin2, a)
  PROVE  Satisfied(generateClause(c), a) <=>
           (a[Var(c.gateID)] = 1 <=> a[Var(c.fanin1)] # a[Var(c.fanin2)])
<1> DEFINE in1 == Literal(c.fanin1, c.invIn1)
           in2 == Literal(c.fanin2, c.invIn2)
           out == Literal(c.gateID, c.invOut)
           noIn1 == - in1
           noIn2 == - in2
           noOut == - out
<1>1. FourOfThree(generateClause(c), in1, noIn1, in2, noIn2, out, noOut)
  BY DEF generateClause, FourOfThree
<1>2. Satisfied(generateClause(c), a) <=> /\ True(in1, a) \/ True(in2, a) \/ True(noOut, a)
                                          /\ True(in1, a) \/ True(noIn2, a) \/ True(out, a)
                                          /\ True(noIn1, a) \/ True(noIn2, a) \/ True(noOut, a)
                                          /\ True(noIn1, a) \/ True(in2, a) \/ True(out, a)
  <2> HIDE DEF in1, in2, out, noIn1, noIn2, noOut
  <2> QED
    BY <1>1, FourClauses
<1>3. 1 \in Bit
  BY DEF Bit
<1>4. /\ True(in1, a) <=> a[Var(c.fanin1)] = 1
      /\ True(noIn1, a) <=> a[Var(c.fanin1)] # 1
      /\ True(in2, a) <=> a[Var(c.fanin2)] = 1
      /\ True(noIn2, a) <=> a[Var(c.fanin2)] # 1
      /\ True(out, a) <=> a[Var(c.gateID)] = 1
      /\ True(noOut, a) <=> a[Var(c.gateID)] # 1
  BY <1>3, LiteralMeaning
<1> HIDE DEF in1, in2, out, noIn1, noIn2, noOut
<1> QED
  BY <1>2, <1>4 DEF Carried, Bit

\* An output of the miter carries what it reads, a stuck-at constant its value,
\* and an input is free.
LEMMA OutputClauses ==
  ASSUME NEW c, NEW a, c.gateType = "PO", c.invIn1 = 1, c.invOut = 1,
         Carried(c.gateID, a), Carried(c.fanin1, a)
  PROVE  Satisfied(generateClause(c), a) <=> a[Var(c.gateID)] = a[Var(c.fanin1)]
<1> DEFINE in1 == Literal(c.fanin1, c.invIn1)
           out == Literal(c.gateID, c.invOut)
           noIn1 == - in1
           noOut == - out
<1>1. TwoOfTwo(generateClause(c), in1, noOut, noIn1, out)
  BY DEF generateClause, TwoOfTwo
<1>2. Satisfied(generateClause(c), a) <=> (True(in1, a) \/ True(noOut, a)) /\ (True(noIn1, a) \/ True(out, a))
  <2> HIDE DEF in1, out, noIn1, noOut
  <2> QED
    BY <1>1, TwoClauses
<1>3. 1 \in Bit
  BY DEF Bit
<1>4. /\ True(in1, a) <=> a[Var(c.fanin1)] = 1
      /\ True(noIn1, a) <=> a[Var(c.fanin1)] # 1
      /\ True(out, a) <=> a[Var(c.gateID)] = 1
      /\ True(noOut, a) <=> a[Var(c.gateID)] # 1
  BY <1>3, LiteralMeaning
<1> HIDE DEF in1, out, noIn1, noOut
<1> QED
  BY <1>2, <1>4 DEF Carried, Bit

\* The clause of a constant says its value.
LEMMA ConstantClauses ==
  ASSUME NEW c, NEW a, c.gateType = "constant", c.constant \in Bit, Carried(c.gateID, a)
  PROVE  Satisfied(generateClause(c), a) <=> a[Var(c.gateID)] = c.constant
<1>1. OneOfOne(generateClause(c), Literal(c.gateID, c.constant))
  BY DEF generateClause, OneOfOne
<1>2. Satisfied(generateClause(c), a) <=> True(Literal(c.gateID, c.constant), a)
  BY <1>1, OneLiteral
<1> QED
  BY <1>2, LiteralMeaning

\* The clause of an input says nothing.
LEMMA InputClauses ==
  ASSUME NEW c, NEW a, c.gateType = "PI", Carried(c.gateID, a)
  PROVE  Satisfied(generateClause(c), a)
<1>1. OneOfTwo(generateClause(c), - Var(c.gateID), Var(c.gateID))
  BY DEF generateClause, OneOfTwo
<1>2. Satisfied(generateClause(c), a) <=> True(- Var(c.gateID), a) \/ True(Var(c.gateID), a)
  BY <1>1, TwoLiterals
<1>3. \A v \in Nat : v > 0 => ~ (- v > 0) /\ - (- v) = v
  OBVIOUS
<1>4. Var(c.gateID) \in Nat /\ Var(c.gateID) > 0
  BY DEF Carried, Var
<1>5. True(- Var(c.gateID), a) <=> a[Var(c.gateID)] = 0
  BY <1>3, <1>4 DEF True
<1>6. True(Var(c.gateID), a) <=> a[Var(c.gateID)] = 1
  BY <1>4 DEF True
<1> QED
  BY <1>2, <1>5, <1>6 DEF Carried, Bit

\* The variables of a gate's clauses: its own, and those of what it reads.
LEMMA ClauseVariables ==
  ASSUME NEW c, c.gateID \in Nat,
         c.gateType \in {"PI", "PO", "bufInv", "constant", "aig", "XOR"},
         c.gateType \in {"PO", "bufInv", "aig", "XOR"} => c.fanin1 \in Nat,
         c.gateType \in {"aig", "XOR"} => c.fanin2 \in Nat
  PROVE  Vars(generateClause(c)) =
           {Var(c.gateID)} \cup
           (IF c.gateType \in {"PO", "bufInv", "aig", "XOR"} THEN {Var(c.fanin1)} ELSE {}) \cup
           (IF c.gateType \in {"aig", "XOR"} THEN {Var(c.fanin2)} ELSE {})
<1>1. \A id \in Nat : \A flag : VarOf(Literal(id, flag)) = Var(id) /\ VarOf(- Literal(id, flag)) = Var(id)
  <2> SUFFICES ASSUME NEW id \in Nat, NEW flag
               PROVE  VarOf(Literal(id, flag)) = Var(id) /\ VarOf(- Literal(id, flag)) = Var(id)
    OBVIOUS
  <2>1. Var(id) \in Int /\ Var(id) > 0 /\ - Var(id) < 0 /\ - (- Var(id)) = Var(id)
    BY DEF Var
  <2>2. VarOf(Var(id)) = Var(id) /\ VarOf(- Var(id)) = Var(id)
    BY <2>1 DEF VarOf
  <2>3. CASE flag = 1
    BY <2>2, <2>3 DEF Literal
  <2>4. CASE flag # 1
    BY <2>1, <2>2, <2>4 DEF Literal
  <2> QED
    BY <2>3, <2>4
<1>2. \A id \in Nat : VarOf(Var(id)) = Var(id) /\ VarOf(- Var(id)) = Var(id)
  BY DEF VarOf, Var
<1> DEFINE in1 == Literal(c.fanin1, c.invIn1)
           in2 == Literal(c.fanin2, c.invIn2)
           out == Literal(c.gateID, c.invOut)
<1>3. VarOf(out) = Var(c.gateID) /\ VarOf(- out) = Var(c.gateID)
  BY <1>1
<1>4. c.gateType \in {"PO", "bufInv", "aig", "XOR"} =>
        VarOf(in1) = Var(c.fanin1) /\ VarOf(- in1) = Var(c.fanin1)
  BY <1>1
<1>5. c.gateType \in {"aig", "XOR"} => VarOf(in2) = Var(c.fanin2) /\ VarOf(- in2) = Var(c.fanin2)
  BY <1>1
<1>6. CASE c.gateType = "PI"
  <2>1. generateClause(c) = {{- Var(c.gateID), Var(c.gateID)}}
    BY <1>6 DEF generateClause
  <2> QED
    BY <1>2, <1>6, <2>1 DEF Vars
<1>7. CASE c.gateType = "constant"
  <2>1. generateClause(c) = {{Literal(c.gateID, c.constant)}}
    BY <1>7 DEF generateClause
  <2> QED
    BY <1>1, <1>7, <2>1 DEF Vars
<1>8. CASE c.gateType \in {"PO", "bufInv"}
  <2>1. generateClause(c) = {{in1, - out}, {- in1, out}}
    BY <1>8 DEF generateClause
  <2> HIDE DEF in1, out
  <2> QED
    BY <1>3, <1>4, <1>8, <2>1 DEF Vars
<1>9. CASE c.gateType = "aig"
  <2>1. generateClause(c) = {{in1, - out}, {in2, - out}, {- in1, - in2, out}}
    BY <1>9 DEF generateClause
  <2> HIDE DEF in1, in2, out
  <2> QED
    BY <1>3, <1>4, <1>5, <1>9, <2>1 DEF Vars
<1>10. CASE c.gateType = "XOR"
  <2>1. generateClause(c) = {{in1, in2, - out}, {in1, - in2, out}, {- in1, - in2, - out}, {- in1, in2, out}}
    BY <1>10 DEF generateClause
  <2> HIDE DEF in1, in2, out
  <2> QED
    BY <1>3, <1>4, <1>5, <1>10, <2>1 DEF Vars
<1> QED
  BY <1>6, <1>7, <1>8, <1>9, <1>10
-----------------------------------------------------------------------------
(***************************************************************************)
(* The gates of a call: a set closed under fanins, listed in the order of  *)
(* the circuit.                                                            *)
(***************************************************************************)
Closed(net, R) == R \subseteq GateID /\ \A g \in R : Fanins(net, g) \subseteq R

Ordered(R, cur) ==
  /\ cur \in Seq(R) /\ \A g \in R : \E i \in 1 .. Len(cur) : cur[i] = g
  /\ \A i, j \in 1 .. Len(cur) : i < j => cur[i] < cur[j]

\* InOrder lists a set of gates in the order of the circuit.
LEMMA InOrderOrdered ==
  ASSUME NEW R \in SUBSET GateID
  PROVE  Ordered(R, InOrder(R))
<1> DEFINE less == {p \in R \X R : p[1] < p[2]}
<1>1. R \in SUBSET Nat /\ IsFiniteSet(R)
  <2>1. IsFiniteSet(GateID)
    BY SizeNat, FS_Interval DEF GateID
  <2> QED
    BY <2>1, SizeNat, FS_Subset
<1>2. \A x, y \in R : <<x, y>> \in less <=> x < y
  OBVIOUS
<1>3. \A x, y, z \in R : /\ ~ (x < x) /\ (x # y => x < y \/ y < x)
                         /\ x < y /\ y < z => x < z
  BY <1>1
<1> HIDE DEF less
<1>4. Orders(less, R)
  BY <1>2, <1>3 DEF Orders
<1>5. Lists(Enumerated(R, less), R, less)
  BY <1>1, <1>4, EnumeratedLists
<1>6. InOrder(R) = Enumerated(R, less)
  BY DEF InOrder, less
<1> HIDE DEF less
<1> DEFINE s == InOrder(R)
<1>7. s \in Seq(R) /\ Len(s) \in Nat
  BY <1>5, <1>6 DEF Lists
<1>8. \A j, k \in 1 .. Len(s) : j < k => s[j] < s[k]
  <2>1. \A j, k \in 1 .. Len(s) : j < k => <<s[j], s[k]>> \in less
    BY <1>5, <1>6 DEF Lists
  <2>2. \A j \in 1 .. Len(s) : s[j] \in R
    BY <1>7
  <2> HIDE DEF s
  <2> QED
    BY <1>2, <2>1, <2>2
<1> QED
  BY <1>5, <1>6, <1>8 DEF Lists, Ordered

\* A gate of the list stands at one place, which oriCirIDToCur finds.
LEMMA IndexFound ==
  ASSUME NEW R \in SUBSET GateID, NEW cur, Ordered(R, cur)
  PROVE  /\ Len(cur) \in Nat
         /\ \A i \in 1 .. Len(cur) : cur[i] \in R /\ oriCirIDToCur(cur, cur[i]) = i - 1
         /\ \A g \in R : \E i \in 1 .. Len(cur) : g = cur[i]
         /\ \A i, j \in 1 .. Len(cur) : cur[i] < cur[j] => i < j
<1>1. Len(cur) \in Nat /\ \A i \in 1 .. Len(cur) : cur[i] \in R /\ cur[i] \in Nat
  <2>1. Len(cur) \in Nat /\ \A i \in 1 .. Len(cur) : cur[i] \in R
    BY DEF Ordered
  <2> QED
    BY <2>1, SizeNat
<1>2. \A i, j \in 1 .. Len(cur) : i < j \/ i = j \/ j < i
  BY <1>1
<1>3. \A i, j \in 1 .. Len(cur) : (cur[i] = cur[j] => i = j) /\ (cur[i] < cur[j] => i < j)
  <2> SUFFICES ASSUME NEW i \in 1 .. Len(cur), NEW j \in 1 .. Len(cur)
               PROVE  (cur[i] = cur[j] => i = j) /\ (cur[i] < cur[j] => i < j)
    OBVIOUS
  <2>1. (i < j => cur[i] < cur[j]) /\ (j < i => cur[j] < cur[i])
    BY DEF Ordered
  <2>2. cur[i] \in Nat /\ cur[j] \in Nat
    BY <1>1
  <2> QED
    BY <1>2, <2>1, <2>2
<1>4. ASSUME NEW i \in 1 .. Len(cur)
      PROVE  oriCirIDToCur(cur, cur[i]) = i - 1
  <2>1. i - 1 \in 0 .. Len(cur) - 1 /\ cur[(i - 1) + 1] = cur[i]
    BY <1>1
  <2>2. \A k \in 0 .. Len(cur) - 1 : cur[k + 1] = cur[i] => k = i - 1
    BY <1>1, <1>3
  <2> QED
    BY <2>1, <2>2 DEF oriCirIDToCur
<1> QED
  BY <1>1, <1>3, <1>4 DEF Ordered

\* Positions that are closed downwards are the first ones.
LEMMA Prefix ==
  ASSUME NEW n \in Nat, NEW D \in SUBSET (1 .. n), \A i \in D : \A j \in 1 .. i : j \in D
  PROVE  \E c \in 0 .. n : D = 1 .. c
<1>1. CASE D = {}
  BY <1>1
<1>2. CASE D # {}
  <2>1. PICK m \in D : \A k \in D : k <= m
    BY <1>2, LargestPosition
  <2>2. \A k \in D : k \in 1 .. m
    BY <2>1
  <2>3. m \in 0 .. n /\ \A j \in 1 .. m : j \in D
    OBVIOUS
  <2>4. D = 1 .. m
    BY <2>2, <2>3
  <2> QED
    BY <2>3, <2>4
<1> QED
  BY <1>1, <1>2

\* Inputs come first and outputs last.
InputsFirst(net, cur) ==
  LET n == Len(cur)
      pis == CountOf(net, cur, "PI")
      pos == CountOf(net, cur, "PO")
  IN /\ pis \in Nat /\ pos \in Nat /\ pis + pos <= n
     /\ \A i \in 1 .. n : /\ i <= pis <=> net[cur[i]].gateType = "PI"
                          /\ i > n - pos <=> net[cur[i]].gateType = "PO"

\* The gates of a list are in the order inputs, gates, outputs.
LEMMA InputsComeFirst ==
  ASSUME NEW net, WellFormed(net), NEW R \in SUBSET GateID, NEW cur, Ordered(R, cur)
  PROVE  InputsFirst(net, cur)
<1> DEFINE n == Len(cur)
           I == {i \in 1 .. n : net[cur[i]].gateType = "PI"}
           O == {i \in 1 .. n : net[cur[i]].gateType = "PO"}
           B == (1 .. n) \ O
<1>1. n \in Nat /\ \A i \in 1 .. n : cur[i] \in GateID
  BY IndexFound
<1>2. /\ \A g \in GateID : net[g].gateType = "PI" <=> g < PISize
      /\ \A g \in GateID : net[g].gateType = "PO" <=> ~ (g < PISize + gateSize)
  BY SizeAssumption DEF WellFormed, PIs, POs, GateID, Size
<1>3. \A i, j \in 1 .. n : i < j => cur[i] < cur[j]
  BY DEF Ordered
<1>4. \A g, h \in GateID : \A m \in Nat : g < h /\ h < m => g < m
  BY SizeNat
<1>5. \E c \in 0 .. n : I = 1 .. c
  <2>1. ASSUME NEW i \in I, NEW j \in 1 .. i
        PROVE  j \in I
    <3>1. j \in 1 .. n /\ (j < i \/ j = i)
      BY <1>1
    <3>2. net[cur[j]].gateType = "PI"
      BY <1>1, <1>2, <1>3, <1>4, <3>1, SizeAssumption
    <3> QED
      BY <3>1, <3>2
  <2>2. I \in SUBSET (1 .. n)
    OBVIOUS
  <2> HIDE DEF n, I
  <2> QED
    BY <1>1, <2>1, <2>2, Prefix
<1>6. \E c \in 0 .. n : B = 1 .. c
  <2>1. ASSUME NEW i \in B, NEW j \in 1 .. i
        PROVE  j \in B
    <3>1. j \in 1 .. n /\ (j < i \/ j = i)
      BY <1>1
    <3>2. cur[i] < PISize + gateSize /\ PISize + gateSize \in Nat
      BY <1>1, <1>2, SizeAssumption
    <3>3. cur[j] < PISize + gateSize
      BY <1>1, <1>3, <1>4, <3>1, <3>2
    <3> QED
      BY <1>1, <1>2, <3>1, <3>3
  <2>2. B \in SUBSET (1 .. n)
    OBVIOUS
  <2> HIDE DEF n, B
  <2> QED
    BY <1>1, <2>1, <2>2, Prefix
<1>7. CountOf(net, cur, "PI") = Cardinality(I) /\ CountOf(net, cur, "PO") = Cardinality(O)
  BY DEF CountOf
<1>8. PICK p \in 0 .. n : I = 1 .. p
  BY <1>5
<1>9. PICK b \in 0 .. n : B = 1 .. b
  BY <1>6
<1>10. p \in Nat /\ b \in Nat /\ Cardinality(I) = p
  <2> HIDE DEF n, I
  <2>1. p \in Nat /\ b \in Nat /\ 1 \in Int
    BY <1>1
  <2>2. Cardinality(1 .. p) = IF 1 > p THEN 0 ELSE p - 1 + 1
    BY <2>1, FS_Interval
  <2> QED
    BY <1>8, <2>1, <2>2
<1>11. O = b + 1 .. n /\ Cardinality(O) = n - b
  <2>1. O = {i \in 1 .. n : i \notin B}
    OBVIOUS
  <2> HIDE DEF n, O, B
  <2>2. \A i \in 1 .. n : i \notin 1 .. b <=> i \in b + 1 .. n
    BY <1>1, <1>10
  <2>3. \A i \in b + 1 .. n : i \in 1 .. n
    BY <1>1, <1>10
  <2>4. O = b + 1 .. n
    BY <1>9, <2>1, <2>2, <2>3
  <2>5. b <= n /\ b + 1 \in Int /\ n \in Int
    BY <1>1, <1>9
  <2>6. Cardinality(b + 1 .. n) = IF b + 1 > n THEN 0 ELSE n - (b + 1) + 1
    BY <2>5, FS_Interval
  <2> QED
    BY <1>1, <1>10, <2>4, <2>5, <2>6
<1>12. p <= b
  <2>1. \A i \in I : i \in B
    OBVIOUS
  <2> HIDE DEF n, I, B
  <2> QED
    BY <1>1, <1>8, <1>9, <1>10, <2>1
<1>13. \A i \in 1 .. n : (i <= p <=> net[cur[i]].gateType = "PI") /\ (i > b <=> net[cur[i]].gateType = "PO")
  <2>1. \A i \in 1 .. n : (i <= p <=> i \in I) /\ (i > b <=> i \in O)
    BY <1>1, <1>8, <1>10, <1>11
  <2> QED
    BY <2>1
<1>14. n - (n - b) = b /\ n - b \in Nat /\ p + (n - b) <= n
  BY <1>1, <1>9, <1>10, <1>12
<1> HIDE DEF n, I, O, B
<1>15. Len(cur) = n
  BY DEF n
<1> QED
  BY <1>1, <1>7, <1>10, <1>11, <1>13, <1>14, <1>15 DEF InputsFirst
-----------------------------------------------------------------------------
(***************************************************************************)
(* The miter before the faults.                                            *)
(***************************************************************************)
Inputs(net, cur) == CountOf(net, cur, "PI")
Outputs(net, cur) == CountOf(net, cur, "PO")
Extent(net, cur) == 2 * Len(cur) + Inputs(net, cur) + 2 * Outputs(net, cur)

MiterRecord ==
  [gateID : Int, gateType : Type \cup {"XOR"}, fanin1 : Int, fanin2 : Int,
   invIn1 : Bit, invIn2 : Bit, invOut : Bit, constant : Bit]

FaninPlace(cur, offset, f) == IF f = NoGate THEN NoGate ELSE offset + oriCirIDToCur(cur, f)

\* The gate of a copy at a place of the list: inputs and outputs are buffers.
CopyGate(net, cur, offset, i) ==
  LET g == net[cur[i]]
  IN [gateID   |-> offset + i - 1,
      gateType |-> IF g.gateType \in {"PI", "PO"} THEN "bufInv" ELSE g.gateType,
      fanin1   |-> IF g.gateType = "PI" THEN 2 * Len(cur) + i - 1 ELSE FaninPlace(cur, offset, g.fanin1),
      fanin2   |-> FaninPlace(cur, offset, g.fanin2),
      invIn1 |-> g.invIn1, invIn2 |-> g.invIn2, invOut |-> g.invOut, constant |-> g.constant]

\* The XOR of a pair of outputs, and the output that carries it.
XORGate(net, cur, i) ==
  [gateID |-> 2 * Len(cur) + Inputs(net, cur) + i - 1, gateType |-> "XOR",
   fanin1 |-> Len(cur) - Outputs(net, cur) + i - 1, fanin2 |-> 2 * Len(cur) - Outputs(net, cur) + i - 1,
   invIn1 |-> 1, invIn2 |-> 1, invOut |-> 1, constant |-> 0]

NewInput(net, cur, i) == MiterGate(PIGate, 2 * Len(cur) + i - 1)

NewOutput(net, cur, i) ==
  MiterGate(POGate(2 * Len(cur) + Inputs(net, cur) + i - 1),
            2 * Len(cur) + Inputs(net, cur) + Outputs(net, cur) + i - 1)

\* What the lemmas assume of a call: a circuit, the gates it is about and
\* their list.
Cut(net, R, cur) == WellFormed(net) /\ Closed(net, R) /\ Ordered(R, cur)

\* What a gate of the list reads is in the list before it.
LEMMA FaninsListed ==
  ASSUME NEW net, NEW R, NEW cur, Cut(net, R, cur), NEW i \in 1 .. Len(cur), NEW offset,
         NEW f \in Fanins(net, cur[i])
  PROVE  /\ f \in R /\ f \in GateID /\ f # NoGate
         /\ \E j \in 1 .. Len(cur) : f = cur[j] /\ j < i /\ FaninPlace(cur, offset, f) = offset + (j - 1)
<1>1. R \in SUBSET GateID /\ WellFormed(net) /\ Ordered(R, cur)
  BY DEF Cut, Closed
<1>2. cur[i] \in R /\ cur[i] \in GateID
  BY <1>1, IndexFound
<1>3. f \in GateID /\ f < cur[i]
  BY <1>1, <1>2, FaninsPrecede
<1>4. f \in R /\ f # NoGate
  <2>1. f \in R
    BY <1>2 DEF Cut, Closed
  <2>2. f \in Nat
    BY <1>3, SizeNat
  <2> QED
    BY <2>1, <2>2 DEF NoGate
<1>5. PICK j \in 1 .. Len(cur) : f = cur[j]
  BY ZenonT(30), <1>1, <1>4, IndexFound
<1>6. j < i /\ oriCirIDToCur(cur, cur[j]) = j - 1
  BY <1>1, <1>3, <1>5, IndexFound
<1> QED
  BY <1>3, <1>4, <1>5, <1>6 DEF FaninPlace

\* A copied gate is a gate of the miter.
LEMMA CopyGateTyped ==
  ASSUME NEW net, NEW R, NEW cur, Cut(net, R, cur), NEW offset \in Nat, NEW i \in 1 .. Len(cur)
  PROVE  CopyGate(net, cur, offset, i) \in MiterRecord
<1> DEFINE g == net[cur[i]]
           c == CopyGate(net, cur, offset, i)
<1>1. R \in SUBSET GateID /\ WellFormed(net) /\ Ordered(R, cur)
  BY DEF Cut, Closed
<1>2. cur[i] \in GateID /\ Len(cur) \in Nat /\ i \in Int
  BY <1>1, IndexFound
<1>3. g \in Gate
  BY <1>1, <1>2 DEF WellFormed
<1>4. FaninPlace(cur, offset, NoGate) \in Int
  BY DEF FaninPlace, NoGate
<1>5. \A f \in Fanins(net, cur[i]) : FaninPlace(cur, offset, f) \in Int
  <2> SUFFICES ASSUME NEW f \in Fanins(net, cur[i]) PROVE FaninPlace(cur, offset, f) \in Int
    OBVIOUS
  <2>1. PICK j \in 1 .. Len(cur) : FaninPlace(cur, offset, f) = offset + (j - 1)
    BY FaninsListed
  <2> QED
    BY <1>2, <2>1
<1>6. FaninPlace(cur, offset, g.fanin2) \in Int
  <2>1. CASE g.gateType = "aig"
    BY <1>5, <2>1 DEF Fanins
  <2>2. CASE g.gateType # "aig"
    BY <1>1, <1>2, <1>4, <2>2 DEF WellFormed
  <2> QED
    BY <2>1, <2>2
<1>7. FaninPlace(cur, offset, g.fanin1) \in Int
  <2>1. CASE g.gateType \in {"aig", "bufInv", "PO"}
    BY <1>5, <2>1 DEF Fanins
  <2>2. CASE g.gateType \in {"PI", "constant"}
    BY <1>1, <1>2, <1>4, <2>2 DEF WellFormed
  <2> QED
    BY <1>3, <2>1, <2>2 DEF Gate, Type
<1>8. offset + i - 1 \in Int /\ 2 * Len(cur) + i - 1 \in Int
  BY <1>2
<1>9. (IF g.gateType \in {"PI", "PO"} THEN "bufInv" ELSE g.gateType) \in Type
  BY <1>3 DEF Gate, Type
<1>10. g.invIn1 \in Bit /\ g.invIn2 \in Bit /\ g.invOut \in Bit /\ g.constant \in Bit
  BY <1>3 DEF Gate
<1> HIDE DEF g
<1> QED
  BY <1>6, <1>7, <1>8, <1>9, <1>10 DEF CopyGate, MiterRecord, g

\* What generateOriAndFau makes of a copy.
ConnectedGate(net, cur, offset, i) ==
  LET copy == copyCircuit_1(net, cur, offset)
  IN CASE i <= Inputs(net, cur) -> [copy[i] EXCEPT !.gateType = "bufInv", !.fanin1 = 2 * Len(cur) + i - 1]
       [] i > Len(cur) - Outputs(net, cur) -> [copy[i] EXCEPT !.gateType = "bufInv"]
       [] OTHER -> copy[i]

\* What generateOriAndFau makes of a copied gate, field by field.
LEMMA ConnectedIsCopy ==
  ASSUME NEW net, NEW R, NEW cur, Cut(net, R, cur), NEW offset \in Nat, NEW i \in 1 .. Len(cur)
  PROVE  ConnectedGate(net, cur, offset, i) = CopyGate(net, cur, offset, i)
<1> DEFINE g == net[cur[i]]
           copied == [gateID   |-> offset + i - 1, gateType |-> g.gateType,
                      fanin1   |-> FaninPlace(cur, offset, g.fanin1), fanin2 |-> FaninPlace(cur, offset, g.fanin2),
                      invIn1 |-> g.invIn1, invIn2 |-> g.invIn2, invOut |-> g.invOut, constant |-> g.constant]
<1>1. copyCircuit_1(net, cur, offset)[i] = copied
  BY DEF copyCircuit_1, MiterGate, FaninPlace
<1>2. InputsFirst(net, cur) /\ Len(cur) \in Nat
  BY IndexFound, InputsComeFirst DEF Cut, Closed
<1>3. /\ i <= Inputs(net, cur) <=> g.gateType = "PI"
      /\ i > Len(cur) - Outputs(net, cur) <=> g.gateType = "PO"
  BY <1>2 DEF InputsFirst, Inputs, Outputs
<1>4. CASE g.gateType = "PI"
  <2>1. ConnectedGate(net, cur, offset, i) = [copied EXCEPT !.gateType = "bufInv", !.fanin1 = 2 * Len(cur) + i - 1]
    BY <1>1, <1>3, <1>4 DEF ConnectedGate
  <2> QED
    BY <1>4, <2>1 DEF CopyGate
<1>5. CASE g.gateType = "PO"
  <2>1. ConnectedGate(net, cur, offset, i) = [copied EXCEPT !.gateType = "bufInv"]
    BY <1>1, <1>3, <1>5 DEF ConnectedGate
  <2> QED
    BY <1>5, <2>1 DEF CopyGate
<1>6. CASE g.gateType \notin {"PI", "PO"}
  <2>1. ConnectedGate(net, cur, offset, i) = copied
    BY <1>1, <1>3, <1>6 DEF ConnectedGate
  <2> QED
    BY <1>6, <2>1 DEF CopyGate
<1> QED
  BY <1>4, <1>5, <1>6
-----------------------------------------------------------------------------
(***************************************************************************)
(* The miter with the first faults of a list.                              *)
(***************************************************************************)
FaultList(net, s) == s \in Seq(allSSAFList(net)) /\ \A i, j \in 1 .. Len(s) : i < j => s[i] < s[j]

OnLine(f, g, p) == faultGate(f) = g /\ faultPort(f) = p

\* The last of the first k faults that is on a line, 0 if none is.
LastFault(s, k, g, p) ==
  LET J == {j \in 1 .. k : OnLine(s[j], g, p)}
  IN IF J = {} THEN 0 ELSE CHOOSE j \in J : \A m \in J : m <= j

\* The gate of a copy after these faults.
FaultyGate(net, cur, offset, s, k, i) ==
  LET c == CopyGate(net, cur, offset, i)
      last(p) == LastFault(s, k, cur[i], p)
      reads(p, f) == IF last(p) # 0 THEN Extent(net, cur) + last(p) ELSE f
  IN [gateID   |-> c.gateID,
      gateType |-> IF last(3) # 0 \/ (last(1) # 0 /\ c.gateType = "constant") THEN "bufInv" ELSE c.gateType,
      fanin1   |-> reads(3, reads(1, c.fanin1)),
      fanin2   |-> reads(2, c.fanin2),
      invIn1   |-> IF last(3) # 0 THEN 1 ELSE c.invIn1,
      invIn2   |-> c.invIn2,
      invOut   |-> IF last(3) # 0 THEN 1 ELSE c.invOut,
      constant |-> c.constant]

StuckConstant(net, cur, s, j) == MiterGate(ConstantGate(faultStuckat(s[j])), Extent(net, cur) + j)

IsMiter(M, net, cur, s, k) ==
  LET n == Len(cur)
      pis == Inputs(net, cur)
      pos == Outputs(net, cur)
  IN /\ M \in Seq(MiterRecord) /\ Len(M) = Extent(net, cur) + k
     /\ \A i \in 1 .. n : M[i] = CopyGate(net, cur, 0, i) /\ M[n + i] = FaultyGate(net, cur, n, s, k, i)
     /\ \A i \in 1 .. pis : M[2 * n + i] = NewInput(net, cur, i)
     /\ \A i \in 1 .. pos : /\ M[2 * n + pis + i] = XORGate(net, cur, i)
                            /\ M[2 * n + pis + pos + i] = NewOutput(net, cur, i)
     /\ \A j \in 1 .. k : M[Extent(net, cur) + j] = StuckConstant(net, cur, s, j)

\* The last fault of a line, from one fault to the next.
LEMMA LastFaultIs ==
  ASSUME NEW s, NEW k \in Nat, NEW g, NEW p
  PROVE  LET l == LastFault(s, k, g, p)
         IN /\ l \in 0 .. k
            /\ l # 0 => OnLine(s[l], g, p)
            /\ \A j \in 1 .. k : OnLine(s[j], g, p) => j <= l
<1> DEFINE J == {j \in 1 .. k : OnLine(s[j], g, p)}
           l == LastFault(s, k, g, p)
<1>1. ASSUME J = {}
      PROVE  l = 0 /\ \A j \in 1 .. k : ~ OnLine(s[j], g, p)
  BY <1>1 DEF LastFault
<1>2. ASSUME J # {}
      PROVE  l \in J /\ \A m \in J : m <= l
  <2>1. \E j \in J : \A m \in J : m <= j
    <3>1. J \in SUBSET (1 .. k)
      OBVIOUS
    <3> HIDE DEF J
    <3> QED
      BY <1>2, <3>1, LargestPosition
  <2>2. l = CHOOSE j \in J : \A m \in J : m <= j
    BY <1>2 DEF LastFault
  <2> HIDE DEF l
  <2> QED
    BY <2>1, <2>2
<1> HIDE DEF l
<1>3. l \in 0 .. k /\ (l # 0 => OnLine(s[l], g, p)) /\ \A j \in 1 .. k : OnLine(s[j], g, p) => j <= l
  BY <1>1, <1>2
<1> QED
  BY <1>3 DEF l

\* One more fault, and the last fault of a line.
LEMMA LastFaultNext ==
  ASSUME NEW s, NEW k \in Nat, NEW g, NEW p
  PROVE  LastFault(s, k + 1, g, p) = IF OnLine(s[k + 1], g, p) THEN k + 1 ELSE LastFault(s, k, g, p)
<1> DEFINE l == LastFault(s, k, g, p)
           m == LastFault(s, k + 1, g, p)
<1>1. l \in 0 .. k /\ (l # 0 => OnLine(s[l], g, p)) /\ \A j \in 1 .. k : OnLine(s[j], g, p) => j <= l
  BY LastFaultIs
<1>2. m \in 0 .. k + 1 /\ (m # 0 => OnLine(s[m], g, p)) /\ \A j \in 1 .. k + 1 : OnLine(s[j], g, p) => j <= m
  <2>1. k + 1 \in Nat
    OBVIOUS
  <2> QED
    BY <2>1, LastFaultIs
<1> HIDE DEF l, m
<1>3. CASE OnLine(s[k + 1], g, p)
  BY <1>2, <1>3 DEF m
<1>4. CASE ~ OnLine(s[k + 1], g, p)
  <2>1. m \in 0 .. k
    BY <1>2, <1>4
  <2>2. m # 0 => m <= l
    BY <1>1, <1>2, <2>1
  <2>3. l # 0 => l <= m
    BY <1>1, <1>2
  <2>4. l = m
    BY <1>1, <2>1, <2>2, <2>3
  <2> QED
    BY <1>4, <2>4 DEF l, m
<1> QED
  BY <1>3, <1>4

\* Before the first fault on a gate the gate is the copy.
LEMMA NoFaultYet ==
  ASSUME NEW net, NEW cur, NEW offset, NEW s, NEW k \in Nat, NEW i,
         \A j \in 1 .. k : faultGate(s[j]) # cur[i]
  PROVE  FaultyGate(net, cur, offset, s, k, i) = CopyGate(net, cur, offset, i)
<1>1. \A p : LastFault(s, k, cur[i], p) = 0
  <2> SUFFICES ASSUME NEW p PROVE LastFault(s, k, cur[i], p) = 0
    OBVIOUS
  <2>1. {j \in 1 .. k : OnLine(s[j], cur[i], p)} = {}
    BY DEF OnLine
  <2> QED
    BY <2>1 DEF LastFault
<1> QED
  BY <1>1 DEF FaultyGate, CopyGate

\* The faults of a list are numbers of its gates; those of a gate come in the
\* order of its ports.
LEMMA ListedFault ==
  ASSUME NEW net, NEW s, FaultList(net, s), NEW j \in 1 .. Len(s)
  PROVE  /\ s[j] \in allSSAFList(net) /\ s[j] \in FaultNumber /\ s[j] \in Nat /\ Len(s) \in Nat
         /\ faultGate(s[j]) \in GateID /\ faultPort(s[j]) \in {1, 2, 3} /\ faultStuckat(s[j]) \in {0, 1}
         /\ s[j] = 8 * faultGate(s[j]) + 2 * faultPort(s[j]) + faultStuckat(s[j])
<1>1. s[j] \in allSSAFList(net) /\ Len(s) \in Nat
  BY DEF FaultList
<1>2. s[j] \in FaultNumber
  BY <1>1, ListedFaults
<1>3. /\ faultGate(s[j]) \in GateID /\ faultPort(s[j]) \in {1, 2, 3} /\ faultStuckat(s[j]) \in {0, 1}
      /\ s[j] = 8 * faultGate(s[j]) + 2 * faultPort(s[j]) + faultStuckat(s[j])
  BY <1>2, FaultNumberMade
<1>4. s[j] \in Nat
  <2>1. faultGate(s[j]) \in Nat /\ faultPort(s[j]) \in Nat /\ faultStuckat(s[j]) \in Nat
    <3>1. \A v \in {0, 1} : v \in Nat
      OBVIOUS
    <3>2. \A v \in {1, 2, 3} : v \in Nat
      OBVIOUS
    <3> QED
      BY <1>3, <3>1, <3>2, SizeNat
  <2>2. \A x, y, z \in Nat : 8 * x + 2 * y + z \in Nat
    OBVIOUS
  <2> QED
    BY <1>3, <2>1, <2>2
<1> QED
  BY <1>1, <1>2, <1>3, <1>4

\* Output faults are the last of a gate: before another one there is none.
LEMMA OutputFaultsLast ==
  ASSUME NEW net, NEW s, FaultList(net, s), NEW k \in 0 .. Len(s) - 1, NEW g,
         faultGate(s[k + 1]) = g, faultPort(s[k + 1]) # 3
  PROVE  LastFault(s, k, g, 3) = 0
<1> DEFINE l == LastFault(s, k, g, 3)
<1> SUFFICES ASSUME l # 0 PROVE FALSE
  OBVIOUS
<1>1. Len(s) \in Nat
  BY DEF FaultList
<1>2. k \in Nat /\ k + 1 \in 1 .. Len(s)
  BY <1>1
<1>3. l \in 0 .. k /\ OnLine(s[l], g, 3)
  BY <1>2, LastFaultIs
<1> HIDE DEF l
<1>4. l \in 1 .. Len(s) /\ l < k + 1
  BY <1>1, <1>3
<1>5. s[l] < s[k + 1]
  BY <1>2, <1>4 DEF FaultList
<1>6. faultGate(s[l]) = g /\ faultPort(s[l]) = 3
  BY <1>3 DEF OnLine
<1>7. s[l] = 8 * g + 2 * 3 + faultStuckat(s[l]) /\ faultStuckat(s[l]) \in {0, 1}
  BY <1>4, <1>6, ListedFault
<1>8. /\ s[k + 1] = 8 * g + 2 * faultPort(s[k + 1]) + faultStuckat(s[k + 1])
      /\ faultStuckat(s[k + 1]) \in {0, 1} /\ faultPort(s[k + 1]) \in {1, 2} /\ g \in GateID
  BY <1>2, ListedFault
<1>9. g \in Nat
  BY <1>8, SizeNat
<1> QED
  BY <1>5, <1>7, <1>8, <1>9

\* A fault makes the gate what the list up to it says; it is never skipped.
LEMMA FaultMade ==
  ASSUME NEW net, NEW R, NEW cur, Cut(net, R, cur), NEW offset, NEW s, FaultList(net, s),
         NEW k \in 0 .. Len(s) - 1, NEW i \in 1 .. Len(cur), faultGate(s[k + 1]) = cur[i]
  PROVE  LET before == FaultyGate(net, cur, offset, s, k, i)
             port == faultPort(s[k + 1])
         IN /\ ~ Skipped(before, port)
            /\ Faulted(before, port, Extent(net, cur) + (k + 1)) = FaultyGate(net, cur, offset, s, k + 1, i)
<1> DEFINE g == cur[i]
           f == s[k + 1]
           port == faultPort(f)
           c == CopyGate(net, cur, offset, i)
           N == Extent(net, cur)
           last(p) == LastFault(s, k, g, p)
           next(p) == LastFault(s, k + 1, g, p)
           before == FaultyGate(net, cur, offset, s, k, i)
           after == FaultyGate(net, cur, offset, s, k + 1, i)
<1>1. Len(s) \in Nat /\ k \in Nat /\ k + 1 \in 1 .. Len(s)
  BY DEF FaultList
<1>2. f \in allSSAFList(net) /\ port \in {1, 2, 3} /\ faultGate(f) = g
  BY <1>1, ListedFault
<1>3. \A p : next(p) = IF p = port THEN k + 1 ELSE last(p)
  <2> SUFFICES ASSUME NEW p PROVE next(p) = IF p = port THEN k + 1 ELSE last(p)
    OBVIOUS
  <2>1. next(p) = IF OnLine(f, g, p) THEN k + 1 ELSE last(p)
    BY <1>1, LastFaultNext
  <2> QED
    BY <1>2, <2>1 DEF OnLine
<1>4. port # 3 => last(3) = 0
  BY <1>2, OutputFaultsLast
<1>5. port = 2 => c.gateType = "aig"
  <2>1. port = 2 => net[g].gateType = "aig"
    BY <1>2, InputTwoOfAigs
  <2> QED
    BY <2>1 DEF CopyGate
<1>6. k + 1 # 0
  BY <1>1
<1> HIDE DEF last, next, c, N, f, port
<1>7. before = [gateID   |-> c.gateID,
                gateType |-> IF last(3) # 0 \/ (last(1) # 0 /\ c.gateType = "constant") THEN "bufInv" ELSE c.gateType,
                fanin1   |-> IF last(3) # 0 THEN N + last(3) ELSE IF last(1) # 0 THEN N + last(1) ELSE c.fanin1,
                fanin2   |-> IF last(2) # 0 THEN N + last(2) ELSE c.fanin2,
                invIn1   |-> IF last(3) # 0 THEN 1 ELSE c.invIn1,
                invIn2   |-> c.invIn2,
                invOut   |-> IF last(3) # 0 THEN 1 ELSE c.invOut,
                constant |-> c.constant]
  BY DEF FaultyGate, last, c, N
<1>8. after = [gateID   |-> c.gateID,
               gateType |-> IF next(3) # 0 \/ (next(1) # 0 /\ c.gateType = "constant") THEN "bufInv" ELSE c.gateType,
               fanin1   |-> IF next(3) # 0 THEN N + next(3) ELSE IF next(1) # 0 THEN N + next(1) ELSE c.fanin1,
               fanin2   |-> IF next(2) # 0 THEN N + next(2) ELSE c.fanin2,
               invIn1   |-> IF next(3) # 0 THEN 1 ELSE c.invIn1,
               invIn2   |-> c.invIn2,
               invOut   |-> IF next(3) # 0 THEN 1 ELSE c.invOut,
               constant |-> c.constant]
  BY DEF FaultyGate, next, c, N
<1> HIDE DEF before, after
<1>9. ~ Skipped(before, port)
  BY <1>2, <1>4, <1>5, <1>7 DEF Skipped
<1>10. Faulted(before, port, N + (k + 1)) = after
  <2>1. CASE port = 1
    <3>1. last(3) = 0 /\ next(3) = 0 /\ next(1) = k + 1 /\ next(2) = last(2)
      BY <1>3, <1>4, <2>1
    <3>2. CASE before.gateType = "constant"
      <4>2. c.gateType = "constant"
        BY <1>7, <3>1, <3>2
      <4>1. Faulted(before, port, N + (k + 1)) = [before EXCEPT !.gateType = "bufInv", !.fanin1 = N + (k + 1)]
        BY <2>1, <3>2, <1>7 DEF Faulted
      <4> QED
        <5>1. before = [gateID |-> c.gateID, gateType |-> "constant",
                        fanin1 |-> IF last(1) # 0 THEN N + last(1) ELSE c.fanin1,
                        fanin2 |-> IF last(2) # 0 THEN N + last(2) ELSE c.fanin2,
                        invIn1 |-> c.invIn1, invIn2 |-> c.invIn2, invOut |-> c.invOut, constant |-> c.constant]
          BY <1>7, <3>1, <3>2
        <5>2. after = [gateID |-> c.gateID, gateType |-> "bufInv", fanin1 |-> N + (k + 1),
                       fanin2 |-> IF last(2) # 0 THEN N + last(2) ELSE c.fanin2,
                       invIn1 |-> c.invIn1, invIn2 |-> c.invIn2, invOut |-> c.invOut, constant |-> c.constant]
          BY <1>6, <1>8, <3>1, <4>2
        <5>3. Faulted(before, port, N + (k + 1)) =
                      [gateID |-> c.gateID, gateType |-> "bufInv", fanin1 |-> N + (k + 1),
                       fanin2 |-> IF last(2) # 0 THEN N + last(2) ELSE c.fanin2,
                       invIn1 |-> c.invIn1, invIn2 |-> c.invIn2, invOut |-> c.invOut, constant |-> c.constant]
          BY ZenonT(120), <4>1, <5>1
        <5> QED
          BY <5>2, <5>3
    <3>3. CASE before.gateType # "constant"
      <4>1. Faulted(before, port, N + (k + 1)) = [before EXCEPT !.fanin1 = N + (k + 1)]
        BY <2>1, <3>3 DEF Faulted
      <4> QED
        BY <1>6, <1>7, <1>8, <3>1, <3>3, <4>1
    <3> QED
      BY <3>2, <3>3
  <2>2. CASE port = 2
    <3>1. last(3) = 0 /\ next(3) = 0 /\ next(1) = last(1) /\ next(2) = k + 1 /\ c.gateType = "aig"
      BY <1>3, <1>4, <1>5, <2>2
    <3>2. before.gateType = "aig"
      BY <1>7, <3>1
    <3>3. Faulted(before, port, N + (k + 1)) = [before EXCEPT !.fanin2 = N + (k + 1)]
      BY <2>2, <3>2 DEF Faulted
    <3> QED
      BY <1>6, <1>7, <1>8, <3>1, <3>3, SMTT(60)
  <2>3. CASE port = 3
    <3>1. next(3) = k + 1 /\ next(1) = last(1) /\ next(2) = last(2)
      BY <1>3, <2>3
    <3>2. Faulted(before, port, N + (k + 1)) =
            [before EXCEPT !.gateType = "bufInv", !.fanin1 = N + (k + 1), !.invIn1 = 1, !.invOut = 1]
      BY <2>3 DEF Faulted, changeOutputStuckat
    <3>3. after = [gateID |-> c.gateID, gateType |-> "bufInv", fanin1 |-> N + (k + 1),
                   fanin2 |-> IF last(2) # 0 THEN N + last(2) ELSE c.fanin2,
                   invIn1 |-> 1, invIn2 |-> c.invIn2, invOut |-> 1, constant |-> c.constant]
      BY <1>6, <1>8, <3>1
    <3>4. Faulted(before, port, N + (k + 1)) =
                  [gateID |-> c.gateID, gateType |-> "bufInv", fanin1 |-> N + (k + 1),
                   fanin2 |-> IF last(2) # 0 THEN N + last(2) ELSE c.fanin2,
                   invIn1 |-> 1, invIn2 |-> c.invIn2, invOut |-> 1, constant |-> c.constant]
      <4> DEFINE other == IF last(2) # 0 THEN N + last(2) ELSE c.fanin2
      <4>1. PICK t, x, u, v :
              before = [gateID |-> c.gateID, gateType |-> t, fanin1 |-> x, fanin2 |-> other,
                        invIn1 |-> u, invIn2 |-> c.invIn2, invOut |-> v, constant |-> c.constant]
        BY <1>7
      <4> HIDE DEF other
      <4>2. Faulted(before, port, N + (k + 1)) =
                    [gateID |-> c.gateID, gateType |-> "bufInv", fanin1 |-> N + (k + 1), fanin2 |-> other,
                     invIn1 |-> 1, invIn2 |-> c.invIn2, invOut |-> 1, constant |-> c.constant]
        BY <3>2, <4>1
      <4> QED
        BY <4>2 DEF other
    <3> QED
      BY <3>3, <3>4
  <2> QED
    BY <1>2, <2>1, <2>2, <2>3
<1> QED
  BY <1>9, <1>10 DEF before, after, port, f, N

\* A fault leaves the other gates alone.
LEMMA FaultElsewhere ==
  ASSUME NEW net, NEW cur, NEW offset, NEW s, NEW k \in Nat, NEW i, faultGate(s[k + 1]) # cur[i]
  PROVE  FaultyGate(net, cur, offset, s, k + 1, i) = FaultyGate(net, cur, offset, s, k, i)
<1>1. \A p : LastFault(s, k + 1, cur[i], p) = LastFault(s, k, cur[i], p)
  BY LastFaultNext DEF OnLine
<1> QED
  BY <1>1 DEF FaultyGate
-----------------------------------------------------------------------------
\* The inputs, XORs and outputs of the miter are gates of it.
LEMMA OtherGatesTyped ==
  ASSUME NEW net, NEW cur, Len(cur) \in Nat, Inputs(net, cur) \in Nat, Outputs(net, cur) \in Nat, NEW i \in Int
  PROVE  NewInput(net, cur, i) \in MiterRecord /\ XORGate(net, cur, i) \in MiterRecord
         /\ NewOutput(net, cur, i) \in MiterRecord
<1>1. NewInput(net, cur, i) =
        [gateID |-> 2 * Len(cur) + i - 1, gateType |-> "PI", fanin1 |-> NoGate, fanin2 |-> NoGate,
         invIn1 |-> 1, invIn2 |-> 0, invOut |-> 1, constant |-> 0]
  BY DEF NewInput, MiterGate, PIGate
<1>2. NewOutput(net, cur, i) =
        [gateID |-> 2 * Len(cur) + Inputs(net, cur) + Outputs(net, cur) + i - 1, gateType |-> "PO",
         fanin1 |-> 2 * Len(cur) + Inputs(net, cur) + i - 1, fanin2 |-> NoGate,
         invIn1 |-> 1, invIn2 |-> 0, invOut |-> 1, constant |-> 0]
  BY DEF NewOutput, MiterGate, POGate, PIGate
<1>3. /\ 2 * Len(cur) + i - 1 \in Int /\ 2 * Len(cur) + Inputs(net, cur) + i - 1 \in Int
      /\ 2 * Len(cur) + Inputs(net, cur) + Outputs(net, cur) + i - 1 \in Int
      /\ Len(cur) - Outputs(net, cur) + i - 1 \in Int /\ 2 * Len(cur) - Outputs(net, cur) + i - 1 \in Int
      /\ NoGate \in Int
  BY DEF NoGate
<1> QED
  BY <1>1, <1>2, <1>3 DEF MiterRecord, Type, Bit, XORGate

\* So is a gate with faults.
LEMMA FaultyGateTyped ==
  ASSUME NEW net, NEW R, NEW cur, Cut(net, R, cur), NEW offset \in Nat, NEW s, NEW k \in Nat,
         NEW i \in 1 .. Len(cur), Extent(net, cur) \in Int
  PROVE  FaultyGate(net, cur, offset, s, k, i) \in MiterRecord
<1> DEFINE c == CopyGate(net, cur, offset, i)
<1>1. c \in MiterRecord
  BY CopyGateTyped
<1>2. \A p : Extent(net, cur) + LastFault(s, k, cur[i], p) \in Int
  BY LastFaultIs
<1> HIDE DEF c
<1>3. /\ c.gateID \in Int /\ c.gateType \in Type \cup {"XOR"} /\ c.fanin1 \in Int /\ c.fanin2 \in Int
      /\ c.invIn1 \in Bit /\ c.invIn2 \in Bit /\ c.invOut \in Bit /\ c.constant \in Bit
  BY <1>1 DEF MiterRecord
<1> DEFINE last(p) == LastFault(s, k, cur[i], p)
           type == IF last(3) # 0 \/ (last(1) # 0 /\ c.gateType = "constant") THEN "bufInv" ELSE c.gateType
           in1 == IF last(3) # 0 THEN Extent(net, cur) + last(3)
                  ELSE IF last(1) # 0 THEN Extent(net, cur) + last(1) ELSE c.fanin1
           in2 == IF last(2) # 0 THEN Extent(net, cur) + last(2) ELSE c.fanin2
           inv1 == IF last(3) # 0 THEN 1 ELSE c.invIn1
           inv == IF last(3) # 0 THEN 1 ELSE c.invOut
<1>4. type \in Type \cup {"XOR"} /\ in1 \in Int /\ in2 \in Int /\ inv1 \in Bit /\ inv \in Bit
  BY <1>2, <1>3 DEF Type, Bit
<1>5. FaultyGate(net, cur, offset, s, k, i) =
        [gateID |-> c.gateID, gateType |-> type, fanin1 |-> in1, fanin2 |-> in2,
         invIn1 |-> inv1, invIn2 |-> c.invIn2, invOut |-> inv, constant |-> c.constant]
  BY DEF FaultyGate, c
<1> HIDE DEF type, in1, in2, inv1, inv
<1> QED
  BY <1>3, <1>4, <1>5 DEF MiterRecord

\* How many gates of each kind there are.
LEMMA Extents ==
  ASSUME NEW net, NEW R, NEW cur, Cut(net, R, cur)
  PROVE  /\ Len(cur) \in Nat /\ Inputs(net, cur) \in Nat /\ Outputs(net, cur) \in Nat
         /\ Inputs(net, cur) + Outputs(net, cur) <= Len(cur)
         /\ Extent(net, cur) \in Nat
         /\ Extent(net, cur) = 2 * Len(cur) + Inputs(net, cur) + 2 * Outputs(net, cur)
         /\ \A i \in 1 .. Len(cur) : /\ i <= Inputs(net, cur) <=> net[cur[i]].gateType = "PI"
                                     /\ i > Len(cur) - Outputs(net, cur) <=> net[cur[i]].gateType = "PO"
<1>1. InputsFirst(net, cur) /\ Len(cur) \in Nat
  BY IndexFound, InputsComeFirst DEF Cut, Closed
<1> QED
  BY <1>1 DEF InputsFirst, Inputs, Outputs, Extent

\* A list made place by place.
LEMMA Listed ==
  ASSUME NEW S, NEW n \in Nat, NEW s \in [1 .. n -> S]
  PROVE  s \in Seq(S) /\ Len(s) = n
OBVIOUS

\* Two lists, one after the other.
IsList(S, s, m) == s \in Seq(S) /\ Len(s) = m /\ m \in Nat

Joins(u, s, m, t, k) == (\A i \in 1 .. m : u[i] = s[i]) /\ (\A i \in 1 .. k : u[m + i] = t[i])

\* A joined list holds the first and then the second.
LEMMA Joined ==
  ASSUME NEW S, NEW m, NEW k, NEW s, NEW t, IsList(S, s, m), IsList(S, t, k)
  PROVE  IsList(S, s \o t, m + k) /\ Joins(s \o t, s, m, t, k)
<1> USE DEF IsList
<1>1. s \o t \in Seq(S) /\ Len(s \o t) = m + k
  BY ConcatProperties
<1>2. \A i \in 1 .. m : (s \o t)[i] = s[i]
  <2> SUFFICES ASSUME NEW i \in 1 .. m PROVE (s \o t)[i] = s[i]
    OBVIOUS
  <2>1. i \in 1 .. Len(s) + Len(t) /\ i <= Len(s)
    OBVIOUS
  <2> QED
    BY <2>1, ConcatProperties
<1>3. \A i \in 1 .. k : (s \o t)[m + i] = t[i]
  <2> SUFFICES ASSUME NEW i \in 1 .. k PROVE (s \o t)[m + i] = t[i]
    OBVIOUS
  <2>1. m + i \in 1 .. Len(s) + Len(t) /\ ~ (m + i <= Len(s)) /\ (m + i) - Len(s) = i
    OBVIOUS
  <2>2. (s \o t)[m + i] = t[(m + i) - Len(s)]
    BY <2>1, ConcatProperties
  <2> QED
    BY <2>1, <2>2
<1> QED
  BY <1>1, <1>2, <1>3 DEF Joins

\* generateOriAndFau builds the miter, without faults.
LEMMA MiterBuilt ==
  ASSUME NEW net, NEW R, NEW cur, Cut(net, R, cur), NEW s
  PROVE  IsMiter(generateOriAndFau(net, cur), net, cur, s, 0)
<1> DEFINE n == Len(cur)
           pis == Inputs(net, cur)
           pos == Outputs(net, cur)
           A == [i \in 1 .. n |-> ConnectedGate(net, cur, 0, i)]
           B == [i \in 1 .. n |-> ConnectedGate(net, cur, n, i)]
           inputs == [i \in 1 .. pis |-> NewInput(net, cur, i)]
           xors == [i \in 1 .. pos |-> XORGate(net, cur, i)]
           outputs == [i \in 1 .. pos |-> NewOutput(net, cur, i)]
           M == A \o B \o inputs \o xors \o outputs
<1>1. n \in Nat /\ pis \in Nat /\ pos \in Nat /\ Extent(net, cur) = 2 * n + pis + 2 * pos
  BY Extents
<1>2. generateOriAndFau(net, cur) = M
  <2>1. \A i : [MiterGate(AigGate(n - pos + i - 1, 2 * n - pos + i - 1, 1, 1, 1), 2 * n + pis + i - 1)
                  EXCEPT !.gateType = "XOR"] = XORGate(net, cur, i)
    BY DEF MiterGate, AigGate, XORGate
  <2> QED
    BY <2>1 DEF generateOriAndFau, ConnectedGate, NewInput, NewOutput, Inputs, Outputs
<1>3. \A i \in 1 .. n : /\ A[i] = CopyGate(net, cur, 0, i) /\ A[i] \in MiterRecord
                        /\ B[i] = CopyGate(net, cur, n, i) /\ B[i] \in MiterRecord
  BY <1>1, ConnectedIsCopy, CopyGateTyped
<1>4. /\ A \in Seq(MiterRecord) /\ Len(A) = n
      /\ B \in Seq(MiterRecord) /\ Len(B) = n
  <2>1. A \in [1 .. n -> MiterRecord] /\ B \in [1 .. n -> MiterRecord]
    BY <1>3
  <2> HIDE DEF A, B
  <2> QED
    BY <1>1, <2>1, Listed
<1>5. /\ inputs \in Seq(MiterRecord) /\ Len(inputs) = pis
      /\ xors \in Seq(MiterRecord) /\ Len(xors) = pos
      /\ outputs \in Seq(MiterRecord) /\ Len(outputs) = pos
  <2>1. inputs \in [1 .. pis -> MiterRecord] /\ xors \in [1 .. pos -> MiterRecord] /\ outputs \in [1 .. pos -> MiterRecord]
    BY <1>1, OtherGatesTyped
  <2> HIDE DEF inputs, xors, outputs
  <2> QED
    BY <1>1, <2>1, Listed
<1>6. /\ \A i \in 1 .. pis : inputs[i] = NewInput(net, cur, i)
      /\ \A i \in 1 .. pos : xors[i] = XORGate(net, cur, i) /\ outputs[i] = NewOutput(net, cur, i)
  OBVIOUS
<1> HIDE DEF A, B, inputs, xors, outputs, n, pis, pos
<1> DEFINE AB == A \o B
           ABI == AB \o inputs
           ABIX == ABI \o xors
<1>8. /\ IsList(MiterRecord, A, n) /\ IsList(MiterRecord, B, n) /\ IsList(MiterRecord, inputs, pis)
      /\ IsList(MiterRecord, xors, pos) /\ IsList(MiterRecord, outputs, pos)
  BY <1>1, <1>4, <1>5 DEF IsList
<1>7. IsList(MiterRecord, AB, n + n) /\ Joins(AB, A, n, B, n)
  BY <1>8, Joined
<1> HIDE DEF AB
<1>9. IsList(MiterRecord, ABI, n + n + pis) /\ Joins(ABI, AB, n + n, inputs, pis)
  BY <1>7, <1>8, Joined
<1> HIDE DEF ABI
<1>10. IsList(MiterRecord, ABIX, n + n + pis + pos) /\ Joins(ABIX, ABI, n + n + pis, xors, pos)
  BY <1>8, <1>9, Joined
<1> HIDE DEF ABIX
<1>11. IsList(MiterRecord, M, n + n + pis + pos + pos) /\ Joins(M, ABIX, n + n + pis + pos, outputs, pos)
  <2>1. M = ABIX \o outputs
    BY DEF ABIX, ABI, AB
  <2> HIDE DEF M
  <2> QED
    BY <1>8, <1>10, <2>1, Joined
<1> HIDE DEF M
<1>12. \A i \in 1 .. n : M[i] = A[i] /\ M[n + i] = B[i]
  <2> SUFFICES ASSUME NEW i \in 1 .. n PROVE M[i] = A[i] /\ M[n + i] = B[i]
    OBVIOUS
  <2>1. /\ i \in 1 .. n + n /\ n + i \in 1 .. n + n
        /\ i \in 1 .. n + n + pis /\ n + i \in 1 .. n + n + pis
        /\ i \in 1 .. n + n + pis + pos /\ n + i \in 1 .. n + n + pis + pos
    BY <1>1
  <2>2. M[i] = AB[i] /\ M[n + i] = AB[n + i]
    BY <1>9, <1>10, <1>11, <2>1 DEF Joins
  <2> QED
    BY <1>7, <2>2 DEF Joins
<1>18. \A i \in 1 .. pis : M[2 * n + i] = inputs[i]
  <2> SUFFICES ASSUME NEW i \in 1 .. pis PROVE M[2 * n + i] = inputs[i]
    OBVIOUS
  <2>1. /\ n + n + i \in 1 .. n + n + pis /\ n + n + i \in 1 .. n + n + pis + pos
        /\ 2 * n + i = n + n + i
    BY <1>1
  <2>2. M[n + n + i] = inputs[i]
    BY <1>9, <1>10, <1>11, <2>1 DEF Joins
  <2> QED
    BY <2>1, <2>2
<1>13. \A i \in 1 .. pos : M[2 * n + pis + i] = xors[i] /\ M[2 * n + pis + pos + i] = outputs[i]
  <2> SUFFICES ASSUME NEW i \in 1 .. pos
               PROVE  M[2 * n + pis + i] = xors[i] /\ M[2 * n + pis + pos + i] = outputs[i]
    OBVIOUS
  <2>1. /\ n + n + pis + i \in 1 .. n + n + pis + pos
        /\ 2 * n + pis + i = n + n + pis + i /\ 2 * n + pis + pos + i = n + n + pis + pos + i
    BY <1>1
  <2>2. M[n + n + pis + i] = xors[i] /\ M[n + n + pis + pos + i] = outputs[i]
    BY <1>10, <1>11, <2>1 DEF Joins
  <2> QED
    BY <2>1, <2>2
<1>14. \A i \in 1 .. n : FaultyGate(net, cur, n, s, 0, i) = CopyGate(net, cur, n, i)
  BY NoFaultYet
<1>15. \A i \in 1 .. n : M[i] = CopyGate(net, cur, 0, i) /\ M[n + i] = FaultyGate(net, cur, n, s, 0, i)
  BY <1>3, <1>12, <1>14
<1>16. M \in Seq(MiterRecord) /\ Len(M) = Extent(net, cur) + 0
  BY <1>1, <1>11 DEF IsList
<1>17. \A j \in 1 .. 0 : M[Extent(net, cur) + j] = StuckConstant(net, cur, s, j)
  OBVIOUS
<1> QED
  BY <1>2, <1>6, <1>13, <1>15, <1>16, <1>17, <1>18 DEF IsMiter, n, pis, pos

\* A round of injectFaultsInOriAndFau_1 adds the next fault.
LEMMA FaultInjected ==
  ASSUME NEW net, NEW R, NEW cur, Cut(net, R, cur), NEW s, FaultList(net, s),
         NEW k \in 0 .. Len(s) - 1, faultGate(s[k + 1]) \in R, NEW M, IsMiter(M, net, cur, s, k)
  PROVE  LET port == faultPort(s[k + 1])
             at == Len(cur) + oriCirIDToCur(cur, faultGate(s[k + 1])) + 1
             cons == MiterGate(ConstantGate(faultStuckat(s[k + 1])), preSize(net, cur) + k)
         IN IsMiter(IF Skipped(M[at], port) THEN M
                    ELSE Append([M EXCEPT ![at] = Faulted(@, port, cons.gateID)], cons), net, cur, s, k + 1)
<1> DEFINE n == Len(cur)
           pis == Inputs(net, cur)
           pos == Outputs(net, cur)
           N == Extent(net, cur)
           f == s[k + 1]
           port == faultPort(f)
           at == n + oriCirIDToCur(cur, faultGate(f)) + 1
           cons == MiterGate(ConstantGate(faultStuckat(f)), preSize(net, cur) + k)
<1>1. /\ n \in Nat /\ pis \in Nat /\ pos \in Nat /\ N \in Nat /\ N = 2 * n + pis + 2 * pos
      /\ k \in Nat /\ k + 1 \in 1 .. Len(s)
  BY Extents DEF FaultList
<1>2. R \in SUBSET GateID /\ Ordered(R, cur)
  BY DEF Cut, Closed
<1>3. PICK i \in 1 .. n : faultGate(f) = cur[i] /\ oriCirIDToCur(cur, cur[i]) = i - 1
  BY <1>2, IndexFound
<1>4. at = n + i /\ at \in 1 .. N + k
  BY SMTT(30), <1>1, <1>3
<1>5. /\ M \in Seq(MiterRecord) /\ Len(M) = N + k
      /\ \A h \in 1 .. n : M[h] = CopyGate(net, cur, 0, h) /\ M[n + h] = FaultyGate(net, cur, n, s, k, h)
      /\ \A h \in 1 .. pis : M[2 * n + h] = NewInput(net, cur, h)
      /\ \A h \in 1 .. pos : /\ M[2 * n + pis + h] = XORGate(net, cur, h)
                             /\ M[2 * n + pis + pos + h] = NewOutput(net, cur, h)
      /\ \A j \in 1 .. k : M[N + j] = StuckConstant(net, cur, s, j)
  BY DEF IsMiter
<1>6. cons = StuckConstant(net, cur, s, k + 1) /\ cons.gateID = N + (k + 1) /\ cons \in MiterRecord
  <2>1. preSize(net, cur) + k = N + (k + 1)
    BY <1>1 DEF preSize, Extent, Inputs, Outputs
  <2>2. cons = [gateID |-> N + (k + 1), gateType |-> "constant", fanin1 |-> NoGate, fanin2 |-> NoGate,
                invIn1 |-> 1, invIn2 |-> 0, invOut |-> 1, constant |-> faultStuckat(f)]
    BY <2>1 DEF MiterGate, ConstantGate, PIGate
  <2>3. faultStuckat(f) \in Bit /\ N + (k + 1) \in Int
    BY <1>1, ListedFault DEF Bit
  <2>4. cons = StuckConstant(net, cur, s, k + 1)
    BY <2>1 DEF StuckConstant
  <2> HIDE DEF cons
  <2> QED
    BY <2>2, <2>3, <2>4 DEF MiterRecord, Type, Bit, NoGate
<1>7. M[at] = FaultyGate(net, cur, n, s, k, i)
  BY <1>4, <1>5
<1>8. /\ ~ Skipped(M[at], port)
      /\ Faulted(M[at], port, N + (k + 1)) = FaultyGate(net, cur, n, s, k + 1, i)
  BY <1>3, <1>7, FaultMade
<1> DEFINE c == FaultyGate(net, cur, n, s, k + 1, i)
           M1 == [M EXCEPT ![at] = c]
           M2 == Append(M1, cons)
<1>9. c \in MiterRecord
  <2>1. k + 1 \in Nat
    BY <1>1
  <2> QED
    BY <1>1, <2>1, FaultyGateTyped
<1> HIDE DEF cons, c, N, f, port, pis, pos, n
<1>10. /\ M1 \in Seq(MiterRecord) /\ Len(M1) = N + k
       /\ \A h \in 1 .. N + k : M1[h] = IF h = at THEN c ELSE M[h]
  <2> HIDE DEF at
  <2> QED
    BY <1>4, <1>5, <1>9, ExceptSeq
<1> HIDE DEF M1
<1>11. /\ M2 \in Seq(MiterRecord) /\ Len(M2) = N + (k + 1)
       /\ M2[N + (k + 1)] = cons
       /\ \A h \in 1 .. N + k : M2[h] = M1[h]
  <2>1. /\ M2 \in Seq(MiterRecord) /\ Len(M2) = Len(M1) + 1 /\ M2[Len(M1) + 1] = cons
        /\ \A h \in 1 .. Len(M1) : M2[h] = M1[h]
    BY <1>6, <1>10, AppendProperties
  <2>2. Len(M1) + 1 = N + (k + 1)
    BY <1>1, <1>10
  <2> QED
    BY <1>10, <2>1, <2>2
<1> HIDE DEF M2
<1>12. \A h \in 1 .. N + k : h # n + i => M2[h] = M[h]
  BY <1>4, <1>10, <1>11
<1>13. M2[n + i] = c
  BY <1>4, <1>10, <1>11
<1>14. \A h \in 1 .. n : M2[h] = CopyGate(net, cur, 0, h)
  <2> SUFFICES ASSUME NEW h \in 1 .. n PROVE M2[h] = CopyGate(net, cur, 0, h)
    OBVIOUS
  <2>1. h \in 1 .. N + k /\ h # n + i
    BY <1>1
  <2> QED
    BY <1>5, <1>12, <2>1
<1>15. \A h \in 1 .. n : M2[n + h] = FaultyGate(net, cur, n, s, k + 1, h)
  <2> SUFFICES ASSUME NEW h \in 1 .. n PROVE M2[n + h] = FaultyGate(net, cur, n, s, k + 1, h)
    OBVIOUS
  <2>1. CASE h = i
    BY <1>13, <2>1 DEF c
  <2>2. CASE h # i
    <3>1. n + h \in 1 .. N + k /\ n + h # n + i
      BY <1>1, <2>2
    <3>2. cur[h] # cur[i]
      <4>1. h \in 1 .. Len(cur) /\ i \in 1 .. Len(cur) /\ h \in Int /\ i \in Int
        BY <1>1 DEF n
      <4>2. oriCirIDToCur(cur, cur[h]) = h - 1 /\ oriCirIDToCur(cur, cur[i]) = i - 1
        BY <1>2, <4>1, IndexFound
      <4> QED
        BY <2>2, <4>1, <4>2
    <3>3. FaultyGate(net, cur, n, s, k + 1, h) = FaultyGate(net, cur, n, s, k, h)
      BY <1>1, <1>3, <3>2, FaultElsewhere DEF f
    <3> QED
      BY <1>5, <1>12, <3>1, <3>3
  <2> QED
    BY <2>1, <2>2
<1>16. \A h \in 1 .. pis : M2[2 * n + h] = NewInput(net, cur, h)
  <2> SUFFICES ASSUME NEW h \in 1 .. pis PROVE M2[2 * n + h] = NewInput(net, cur, h)
    OBVIOUS
  <2>1. 2 * n + h \in 1 .. N + k /\ 2 * n + h # n + i
    BY <1>1
  <2> QED
    BY <1>5, <1>12, <2>1
<1>17. \A h \in 1 .. pos : /\ M2[2 * n + pis + h] = XORGate(net, cur, h)
                           /\ M2[2 * n + pis + pos + h] = NewOutput(net, cur, h)
  <2> SUFFICES ASSUME NEW h \in 1 .. pos
               PROVE  /\ M2[2 * n + pis + h] = XORGate(net, cur, h)
                      /\ M2[2 * n + pis + pos + h] = NewOutput(net, cur, h)
    OBVIOUS
  <2>1. /\ 2 * n + pis + h \in 1 .. N + k /\ 2 * n + pis + h # n + i
        /\ 2 * n + pis + pos + h \in 1 .. N + k /\ 2 * n + pis + pos + h # n + i
    BY <1>1
  <2> QED
    BY <1>5, <1>12, <2>1
<1>18. \A j \in 1 .. k + 1 : M2[N + j] = StuckConstant(net, cur, s, j)
  <2> SUFFICES ASSUME NEW j \in 1 .. k + 1 PROVE M2[N + j] = StuckConstant(net, cur, s, j)
    OBVIOUS
  <2>1. CASE j = k + 1
    BY <1>6, <1>11, <2>1
  <2>2. CASE j # k + 1
    <3>1. j \in 1 .. k /\ N + j \in 1 .. N + k /\ N + j # n + i
      BY <1>1, <2>2
    <3> QED
      BY <1>5, <1>12, <3>1
  <2> QED
    BY <2>1, <2>2
<1>19. IsMiter(M2, net, cur, s, k + 1)
  BY <1>11, <1>14, <1>15, <1>16, <1>17, <1>18 DEF IsMiter, n, pis, pos, N
<1>20. M2 = IF Skipped(M[at], port) THEN M
            ELSE Append([M EXCEPT ![at] = Faulted(@, port, cons.gateID)], cons)
  <2>1. Faulted(M[at], port, cons.gateID) = c
    BY <1>6, <1>8 DEF c, N, n, port, f
  <2> HIDE DEF at
  <2> QED
    BY <1>8, <2>1 DEF M2, M1
<1> QED
  BY <1>19, <1>20 DEF at, cons, port, f, n
-----------------------------------------------------------------------------
(***************************************************************************)
(* What the clauses of the miter say: every gate of the copies puts out    *)
(* what the reference semantics says, and an XOR tells outputs apart.      *)
(***************************************************************************)
Variables(net, cur, s) == (1 .. Extent(net, cur)) \cup {Extent(net, cur) + 1 + j : j \in 1 .. Len(s)}

Bits(net, cur, s, a) == \A x \in Variables(net, cur, s) : a[x] \in Bit

\* The constants have their values.
Stuck(net, cur, s, a) == \A j \in 1 .. Len(s) : a[Extent(net, cur) + 1 + j] = faultStuckat(s[j])

\* Values of the circuit's gates that are those of a copy, and a pattern that
\* is the one at the new inputs.
Carries(cur, offset, a, v) == \A h \in 1 .. Len(cur) : v[cur[h]] = a[offset + h]

Feeds(net, cur, a, p) == \A h \in 1 .. Inputs(net, cur) : p[cur[h]] = a[2 * Len(cur) + h]

\* A line carries the value of its last fault: of two faults on it the second
\* is stuck-at 1.
LEMMA LineStuck ==
  ASSUME NEW net, NEW s, FaultList(net, s), NEW g \in GateID, NEW p \in {1, 2, 3}, NEW x
  PROVE  LET l == LastFault(s, Len(s), g, p)
         IN Line(Faults(s), g, p, x) = IF l # 0 THEN faultStuckat(s[l]) ELSE x
<1> DEFINE l == LastFault(s, Len(s), g, p)
           V == StuckValues(Faults(s), g, p)
<1>1. Len(s) \in Nat
  BY DEF FaultList
<1>2. l \in 0 .. Len(s) /\ (l # 0 => OnLine(s[l], g, p)) /\ \A j \in 1 .. Len(s) : OnLine(s[j], g, p) => j <= l
  BY <1>1, LastFaultIs
<1>3. \A y : y \in V <=> \E j \in 1 .. Len(s) : OnLine(s[j], g, p) /\ y = faultStuckat(s[j])
  BY DEF StuckValues, Faults, OnLine
<1> HIDE DEF l, V
<1>4. CASE l = 0
  <2>1. V = {}
    BY <1>1, <1>2, <1>3, <1>4
  <2> QED
    BY <1>4, <2>1 DEF Line, V, l
<1>5. CASE l # 0
  <2>1. l \in 1 .. Len(s) /\ OnLine(s[l], g, p)
    BY <1>1, <1>2, <1>5
  <2>2. faultStuckat(s[l]) \in V /\ V # {}
    BY <1>3, <2>1
  <2>3. Held(V) = faultStuckat(s[l])
    <3>1. CASE 1 \in V
      <4>1. PICK j \in 1 .. Len(s) : OnLine(s[j], g, p) /\ faultStuckat(s[j]) = 1
        BY <1>3, <3>1
      <4>2. s[j] = 8 * g + 2 * p + 1 /\ s[l] = 8 * g + 2 * p + faultStuckat(s[l])
            /\ faultStuckat(s[l]) \in {0, 1}
        BY <2>1, <4>1, ListedFault DEF OnLine
      <4>3. j < l => s[j] < s[l]
        BY <2>1 DEF FaultList
      <4>4. j <= l
        BY <1>2, <4>1
      <4>5. g \in Nat /\ p \in Nat
        BY SizeNat
      <4>6. faultStuckat(s[l]) = 1
        <5>1. CASE j = l
          BY <4>1, <5>1
        <5>2. CASE j # l
          <6>1. j < l
            BY <1>1, <2>1, <4>4, <5>2
          <6> QED
            BY <4>2, <4>3, <4>5, <6>1
        <5> QED
          BY <5>1, <5>2
      <4> QED
        BY <3>1, <4>6 DEF Held
    <3>2. CASE 1 \notin V
      <4>1. faultStuckat(s[l]) \in {0, 1}
        BY <2>1, ListedFault
      <4> QED
        BY <2>2, <3>2, <4>1 DEF Held
    <3> QED
      BY <3>1, <3>2
  <2> QED
    BY <1>5, <2>2, <2>3 DEF Line, V, l
<1> QED
  BY <1>4, <1>5

\* The clauses of a gate of a copy say that it puts out what the reference
\* semantics says of it.
LEMMA CopyClauses ==
  ASSUME NEW net, NEW R, NEW cur, Cut(net, R, cur), NEW s, FaultList(net, s),
         NEW offset, offset = 0 \/ offset = Len(cur), NEW i \in 1 .. Len(cur), NEW a, NEW v, NEW p,
         Bits(net, cur, s, a), Stuck(net, cur, s, a), Carries(cur, offset, a, v), Feeds(net, cur, a, p)
  PROVE  Satisfied(generateClause(FaultyGate(net, cur, offset, s, Len(s), i)), a)
           <=> a[offset + i] = RefOut(net, Faults(s), p, v, cur[i])
<1> DEFINE n == Len(cur)
           N == Extent(net, cur)
           g == net[cur[i]]
           F == Faults(s)
           c == FaultyGate(net, cur, offset, s, Len(s), i)
           last(q) == LastFault(s, Len(s), cur[i], q)
           line(q, x) == Line(F, cur[i], q, x)
<1>1. /\ n \in Nat /\ N \in Nat /\ Inputs(net, cur) \in Nat /\ Outputs(net, cur) \in Nat
      /\ N = 2 * n + Inputs(net, cur) + 2 * Outputs(net, cur)
      /\ i <= Inputs(net, cur) <=> g.gateType = "PI"
  BY Extents
<1>2. /\ R \in SUBSET GateID /\ Ordered(R, cur) /\ WellFormed(net) /\ cur[i] \in GateID
      /\ Len(s) \in Nat
  <2>1. R \in SUBSET GateID /\ Ordered(R, cur) /\ WellFormed(net)
    BY DEF Cut, Closed
  <2>2. cur[i] \in GateID
    BY <2>1, IndexFound
  <2> QED
    BY <2>1, <2>2 DEF FaultList
<1>3. g \in Gate /\ (g.gateType \in {"PI", "constant", "PO"} => g.invIn1 = 1 /\ g.invOut = 1)
  BY <1>2 DEF WellFormed
<1>4. \A q \in {1, 2, 3} : /\ last(q) \in 0 .. Len(s)
                           /\ \A x : line(q, x) = IF last(q) # 0 THEN a[N + 1 + last(q)] ELSE x
                           /\ last(q) # 0 => Carried(N + last(q), a) /\ Var(N + last(q)) = N + 1 + last(q)
  <2> SUFFICES ASSUME NEW q \in {1, 2, 3}
               PROVE  /\ last(q) \in 0 .. Len(s)
                      /\ \A x : line(q, x) = IF last(q) # 0 THEN a[N + 1 + last(q)] ELSE x
                      /\ last(q) # 0 => Carried(N + last(q), a) /\ Var(N + last(q)) = N + 1 + last(q)
    OBVIOUS
  <2>1. last(q) \in 0 .. Len(s)
    BY <1>2, LastFaultIs
  <2>2. \A x : line(q, x) = IF last(q) # 0 THEN faultStuckat(s[last(q)]) ELSE x
    BY <1>2, LineStuck
  <2>3. last(q) # 0 => last(q) \in 1 .. Len(s)
    BY <1>2, <2>1
  <2> HIDE DEF last, line, N
  <2>4. last(q) # 0 => a[N + 1 + last(q)] = faultStuckat(s[last(q)])
    BY <2>3 DEF Stuck, N
  <2>5. last(q) # 0 => N + 1 + last(q) \in Variables(net, cur, s)
    BY <2>3 DEF Variables, N
  <2>6. last(q) # 0 => a[N + 1 + last(q)] \in Bit
    BY <2>5 DEF Bits
  <2>7. N + last(q) \in Nat /\ Var(N + last(q)) = N + 1 + last(q)
    BY SMTT(30), <1>1, <1>2, <2>1 DEF Var
  <2> QED
    BY <2>1, <2>2, <2>4, <2>6, <2>7 DEF Carried
<1>5. \A x \in 1 .. N : x - 1 \in Nat /\ Var(x - 1) = x /\ Carried(x - 1, a)
  BY <1>1 DEF Variables, Bits, Var, Carried
<1>6. offset + i \in 1 .. N /\ offset \in Nat
  BY <1>1
<1>7. /\ c.gateID = offset + i - 1
      /\ last(3) # 0 => /\ c.gateType = "bufInv" /\ c.fanin1 = N + last(3)
                        /\ c.invIn1 = 1 /\ c.invOut = 1
      /\ last(3) = 0 => /\ c.gateType = IF g.gateType \in {"PI", "PO"} \/ (last(1) # 0 /\ g.gateType = "constant")
                                        THEN "bufInv" ELSE g.gateType
                        /\ c.invIn1 = g.invIn1 /\ c.invIn2 = g.invIn2 /\ c.invOut = g.invOut
                        /\ c.constant = g.constant
                        /\ c.fanin1 = IF last(1) # 0 THEN N + last(1)
                                      ELSE IF g.gateType = "PI" THEN 2 * n + i - 1
                                      ELSE FaninPlace(cur, offset, g.fanin1)
                        /\ c.fanin2 = IF last(2) # 0 THEN N + last(2) ELSE FaninPlace(cur, offset, g.fanin2)
  BY DEF FaultyGate, CopyGate
<1>8. Var(c.gateID) = offset + i /\ Carried(c.gateID, a)
  BY <1>5, <1>6, <1>7
<1>9. \A f \in Fanins(net, cur[i]) : LET id == FaninPlace(cur, offset, f)
                                     IN Carried(id, a) /\ a[Var(id)] = v[f]
  <2> SUFFICES ASSUME NEW f \in Fanins(net, cur[i])
               PROVE  Carried(FaninPlace(cur, offset, f), a) /\ a[Var(FaninPlace(cur, offset, f))] = v[f]
    OBVIOUS
  <2>1. PICK j \in 1 .. n : f = cur[j] /\ FaninPlace(cur, offset, f) = offset + (j - 1)
    BY FaninsListed
  <2>2. offset + j \in 1 .. N /\ (offset + j) - 1 = offset + (j - 1)
    BY <1>1
  <2>3. v[f] = a[offset + j]
    BY <2>1 DEF Carries
  <2> QED
    BY <1>5, <2>1, <2>2, <2>3
<1> HIDE DEF n, N, g, F, c, last, line
<1>10. CASE last(3) # 0
  <2>1. /\ Carried(c.fanin1, a) /\ Var(c.fanin1) = N + 1 + last(3)
        /\ \A x : line(3, x) = a[Var(c.fanin1)]
    BY <1>4, <1>7, <1>10
  <2>2. Satisfied(generateClause(c), a) <=> a[Var(c.gateID)] = getOutValue(c, a[Var(c.fanin1)], 0)
    BY <1>7, <1>8, <1>10, <2>1, BufferClauses DEF Bit
  <2>3. getOutValue(c, a[Var(c.fanin1)], 0) = a[Var(c.fanin1)]
    BY <1>7, <1>10, <2>1 DEF getOutValue, Carried, Bit
  <2>4. RefOut(net, F, p, v, cur[i]) = a[Var(c.fanin1)]
    BY <2>1 DEF RefOut, line
  <2> QED
    BY <1>8, <2>2, <2>3, <2>4 DEF c, F
<1>11. CASE last(3) = 0
  <2>1. RefOut(net, F, p, v, cur[i]) =
          CASE g.gateType = "PI"       -> line(1, p[cur[i]])
            [] g.gateType = "constant" -> line(1, g.constant)
            [] OTHER -> getOutValue(g, line(1, v[g.fanin1]), line(2, v[g.fanin2]))
    <3>1. \A x : line(3, x) = x
      BY <1>4, <1>11
    <3> QED
      BY <3>1 DEF RefOut, line, g
  <2>2. CASE g.gateType = "PI"
    <3>1. 2 * n + i \in 1 .. N /\ (2 * n + i) - 1 = 2 * n + i - 1 /\ i \in 1 .. Inputs(net, cur)
      BY <1>1, <2>2
    <3>2. Carried(2 * n + i - 1, a) /\ Var(2 * n + i - 1) = 2 * n + i /\ a[2 * n + i] = p[cur[i]]
      BY <1>5, <3>1 DEF Feeds, n
    <3>3. Carried(c.fanin1, a) /\ a[Var(c.fanin1)] = line(1, p[cur[i]])
      BY <1>4, <1>7, <1>11, <2>2, <3>2
    <3>4. c.gateType = "bufInv" /\ c.invIn1 = 1 /\ c.invOut = 1
      BY <1>3, <1>7, <1>11, <2>2
    <3>5. Satisfied(generateClause(c), a) <=> a[Var(c.gateID)] = getOutValue(c, a[Var(c.fanin1)], 0)
      BY <1>8, <3>3, <3>4, BufferClauses DEF Bit
    <3>6. getOutValue(c, a[Var(c.fanin1)], 0) = a[Var(c.fanin1)]
      BY <3>3, <3>4 DEF getOutValue, Carried, Bit
    <3> QED
      BY <1>8, <2>1, <2>2, <3>3, <3>5, <3>6 DEF c, F
  <2>3. CASE g.gateType = "constant"
    <3>1. CASE last(1) = 0
      <4>1. c.gateType = "constant" /\ c.constant = g.constant /\ g.constant \in Bit
        BY <1>3, <1>7, <1>11, <2>3, <3>1 DEF Gate
      <4>2. Satisfied(generateClause(c), a) <=> a[Var(c.gateID)] = c.constant
        BY <1>8, <4>1, ConstantClauses
      <4>3. line(1, g.constant) = g.constant
        BY <1>4, <3>1
      <4> QED
        BY <1>8, <2>1, <2>3, <4>1, <4>2, <4>3 DEF c, F
    <3>2. CASE last(1) # 0
      <4>1. Carried(c.fanin1, a) /\ a[Var(c.fanin1)] = line(1, g.constant)
        BY <1>4, <1>7, <1>11, <3>2
      <4>2. c.gateType = "bufInv" /\ c.invIn1 = 1 /\ c.invOut = 1
        BY <1>3, <1>7, <1>11, <2>3, <3>2
      <4>3. Satisfied(generateClause(c), a) <=> a[Var(c.gateID)] = getOutValue(c, a[Var(c.fanin1)], 0)
        BY <1>8, <4>1, <4>2, BufferClauses DEF Bit
      <4>4. getOutValue(c, a[Var(c.fanin1)], 0) = a[Var(c.fanin1)]
        BY <4>1, <4>2 DEF getOutValue, Carried, Bit
      <4> QED
        BY <1>8, <2>1, <2>3, <4>1, <4>3, <4>4 DEF c, F
    <3> QED
      BY <3>1, <3>2
  <2>4. CASE g.gateType \in {"bufInv", "PO", "aig"}
    <3>1. g.fanin1 \in Fanins(net, cur[i])
      BY <2>4 DEF Fanins, g
    <3>2. Carried(FaninPlace(cur, offset, g.fanin1), a) /\ a[Var(FaninPlace(cur, offset, g.fanin1))] = v[g.fanin1]
      BY <1>9, <3>1
    <3>3. Carried(c.fanin1, a) /\ a[Var(c.fanin1)] = line(1, v[g.fanin1])
      BY <1>4, <1>7, <1>11, <2>4, <3>2
    <3>4. RefOut(net, F, p, v, cur[i]) = getOutValue(g, line(1, v[g.fanin1]), line(2, v[g.fanin2]))
      BY <2>1, <2>4
    <3>5. c.invIn1 = g.invIn1 /\ c.invIn2 = g.invIn2 /\ c.invOut = g.invOut
          /\ g.invIn1 \in Bit /\ g.invIn2 \in Bit /\ g.invOut \in Bit
      BY <1>3, <1>7, <1>11 DEF Gate
    <3>6. CASE g.gateType = "aig"
      <4>1. g.fanin2 \in Fanins(net, cur[i])
        BY <3>6 DEF Fanins, g
      <4>2. Carried(FaninPlace(cur, offset, g.fanin2), a) /\ a[Var(FaninPlace(cur, offset, g.fanin2))] = v[g.fanin2]
        BY <1>9, <4>1
      <4>3. Carried(c.fanin2, a) /\ a[Var(c.fanin2)] = line(2, v[g.fanin2]) /\ c.gateType = "aig"
        BY <1>4, <1>7, <1>11, <3>6, <4>2
      <4>4. Satisfied(generateClause(c), a) <=>
              a[Var(c.gateID)] = getOutValue(c, a[Var(c.fanin1)], a[Var(c.fanin2)])
        BY <1>8, <3>3, <3>5, <4>3, AigClauses
      <4>5. \A x, y : getOutValue(c, x, y) = getOutValue(g, x, y)
        BY <3>5, <3>6, <4>3 DEF getOutValue
      <4> QED
        BY <1>8, <3>3, <3>4, <4>3, <4>4, <4>5 DEF c, F
    <3>7. CASE g.gateType \in {"bufInv", "PO"}
      <4>1. c.gateType = "bufInv"
        BY <1>7, <1>11, <3>7
      <4>2. \A y : Satisfied(generateClause(c), a) <=> a[Var(c.gateID)] = getOutValue(c, a[Var(c.fanin1)], y)
        BY <1>8, <3>3, <3>5, <4>1, BufferClauses
      <4>3. \A y : getOutValue(c, a[Var(c.fanin1)], y) = getOutValue(g, a[Var(c.fanin1)], y)
        <5>1. CASE g.gateType = "bufInv"
          BY <3>5, <4>1, <5>1 DEF getOutValue
        <5>2. CASE g.gateType = "PO"
          BY <1>3, <3>3, <3>5, <4>1, <5>2 DEF getOutValue, Carried, Bit
        <5> QED
          BY <3>7, <5>1, <5>2
      <4> QED
        BY <1>8, <3>3, <3>4, <4>2, <4>3 DEF c, F
    <3> QED
      BY <2>4, <3>6, <3>7
  <2> QED
    BY <1>3, <2>2, <2>3, <2>4 DEF Gate, Type
<1> QED
  BY <1>10, <1>11
-----------------------------------------------------------------------------
(***************************************************************************)
(* Models and simulations.                                                 *)
(***************************************************************************)
\* Numbers of variables.
LEMMA CarriedPlaces ==
  ASSUME NEW net, NEW R, NEW cur, Cut(net, R, cur), NEW s, Len(s) \in Nat, NEW a, Bits(net, cur, s, a)
  PROVE  /\ \A x \in 1 .. Extent(net, cur) : Var(x - 1) = x /\ Carried(x - 1, a) /\ a[x] \in Bit
         /\ \A j \in 1 .. Len(s) : /\ Var(Extent(net, cur) + j) = Extent(net, cur) + 1 + j
                                   /\ Carried(Extent(net, cur) + j, a)
<1>1. Extent(net, cur) \in Nat
  BY Extents
<1>2. ASSUME NEW x \in 1 .. Extent(net, cur)
      PROVE  Var(x - 1) = x /\ Carried(x - 1, a) /\ a[x] \in Bit
  <2>1. x - 1 \in Nat /\ Var(x - 1) = x
    BY <1>1 DEF Var
  <2>2. a[x] \in Bit
    BY DEF Bits, Variables
  <2> QED
    BY <2>1, <2>2 DEF Carried
<1>3. ASSUME NEW j \in 1 .. Len(s)
      PROVE  /\ Var(Extent(net, cur) + j) = Extent(net, cur) + 1 + j
             /\ Carried(Extent(net, cur) + j, a)
  <2>1. Extent(net, cur) + j \in Nat /\ Var(Extent(net, cur) + j) = Extent(net, cur) + 1 + j
    BY <1>1 DEF Var
  <2>2. a[Extent(net, cur) + 1 + j] \in Bit
    BY DEF Bits, Variables
  <2> QED
    BY <2>1, <2>2 DEF Carried
<1> QED
  BY <1>2, <1>3

\* The clauses of the other gates.
LEMMA OtherClauses ==
  ASSUME NEW net, NEW R, NEW cur, Cut(net, R, cur), NEW s, FaultList(net, s), NEW a, Bits(net, cur, s, a)
  PROVE  LET n == Len(cur)
             pis == Inputs(net, cur)
             pos == Outputs(net, cur)
         IN /\ \A i \in 1 .. pis : Satisfied(generateClause(NewInput(net, cur, i)), a)
            /\ \A i \in 1 .. pos : Satisfied(generateClause(XORGate(net, cur, i)), a)
                                     <=> (a[2 * n + pis + i] = 1 <=> a[n - pos + i] # a[2 * n - pos + i])
            /\ \A i \in 1 .. pos : Satisfied(generateClause(NewOutput(net, cur, i)), a)
                                     <=> a[2 * n + pis + pos + i] = a[2 * n + pis + i]
            /\ \A j \in 1 .. Len(s) : Satisfied(generateClause(StuckConstant(net, cur, s, j)), a)
                                        <=> a[Extent(net, cur) + 1 + j] = faultStuckat(s[j])
<1> DEFINE n == Len(cur)
           pis == Inputs(net, cur)
           pos == Outputs(net, cur)
           N == Extent(net, cur)
<1>1. n \in Nat /\ pis \in Nat /\ pos \in Nat /\ pis + pos <= n /\ N = 2 * n + pis + 2 * pos /\ Len(s) \in Nat
  BY Extents DEF FaultList
<1>2. /\ \A x \in 1 .. N : Var(x - 1) = x /\ Carried(x - 1, a)
      /\ \A j \in 1 .. Len(s) : Var(N + j) = N + 1 + j /\ Carried(N + j, a)
  BY <1>1, CarriedPlaces
<1>3. ASSUME NEW i \in 1 .. pis
      PROVE  Satisfied(generateClause(NewInput(net, cur, i)), a)
  <2> DEFINE c == NewInput(net, cur, i)
  <2>1. c.gateType = "PI" /\ c.gateID = (2 * n + i) - 1
    BY <1>1 DEF NewInput, MiterGate, PIGate
  <2>2. 2 * n + i \in 1 .. N
    BY <1>1
  <2> HIDE DEF c, n, N
  <2> QED
    BY <1>2, <2>1, <2>2, InputClauses DEF c
<1>4. ASSUME NEW i \in 1 .. pos
      PROVE  Satisfied(generateClause(XORGate(net, cur, i)), a)
               <=> (a[2 * n + pis + i] = 1 <=> a[n - pos + i] # a[2 * n - pos + i])
  <2> DEFINE c == XORGate(net, cur, i)
  <2>1. /\ c.gateType = "XOR" /\ c.invIn1 = 1 /\ c.invIn2 = 1 /\ c.invOut = 1
        /\ c.gateID = (2 * n + pis + i) - 1 /\ c.fanin1 = (n - pos + i) - 1 /\ c.fanin2 = (2 * n - pos + i) - 1
    BY SMTT(30), <1>1 DEF XORGate
  <2>2. 2 * n + pis + i \in 1 .. N /\ n - pos + i \in 1 .. N /\ 2 * n - pos + i \in 1 .. N
    BY SMTT(30), <1>1
  <2> HIDE DEF c, n, N, pis, pos
  <2>3. /\ Carried(c.gateID, a) /\ Var(c.gateID) = 2 * n + pis + i
        /\ Carried(c.fanin1, a) /\ Var(c.fanin1) = n - pos + i
        /\ Carried(c.fanin2, a) /\ Var(c.fanin2) = 2 * n - pos + i
    BY <1>2, <2>1, <2>2
  <2>4. Satisfied(generateClause(c), a) <=> (a[Var(c.gateID)] = 1 <=> a[Var(c.fanin1)] # a[Var(c.fanin2)])
    BY <2>1, <2>3, XORClauses
  <2> QED
    BY <2>3, <2>4 DEF c
<1>5. ASSUME NEW i \in 1 .. pos
      PROVE  Satisfied(generateClause(NewOutput(net, cur, i)), a)
               <=> a[2 * n + pis + pos + i] = a[2 * n + pis + i]
  <2> DEFINE c == NewOutput(net, cur, i)
  <2>1. /\ c.gateType = "PO" /\ c.invIn1 = 1 /\ c.invOut = 1
        /\ c.gateID = (2 * n + pis + pos + i) - 1 /\ c.fanin1 = (2 * n + pis + i) - 1
    BY <1>1 DEF NewOutput, MiterGate, POGate, PIGate
  <2>2. 2 * n + pis + i \in 1 .. N /\ 2 * n + pis + pos + i \in 1 .. N
    BY <1>1
  <2> HIDE DEF c, n, N, pis, pos
  <2>3. /\ Carried(c.gateID, a) /\ Var(c.gateID) = 2 * n + pis + pos + i
        /\ Carried(c.fanin1, a) /\ Var(c.fanin1) = 2 * n + pis + i
    BY <1>2, <2>1, <2>2
  <2>4. Satisfied(generateClause(c), a) <=> a[Var(c.gateID)] = a[Var(c.fanin1)]
    BY <2>1, <2>3, OutputClauses
  <2> QED
    BY <2>3, <2>4 DEF c
<1>6. ASSUME NEW j \in 1 .. Len(s)
      PROVE  Satisfied(generateClause(StuckConstant(net, cur, s, j)), a) <=> a[N + 1 + j] = faultStuckat(s[j])
  <2> DEFINE c == StuckConstant(net, cur, s, j)
  <2>1. c.gateType = "constant" /\ c.gateID = N + j /\ c.constant = faultStuckat(s[j])
    BY DEF StuckConstant, MiterGate, ConstantGate, PIGate
  <2>2. faultStuckat(s[j]) \in Bit
    BY ListedFault DEF Bit
  <2> HIDE DEF c, N
  <2>3. Satisfied(generateClause(c), a) <=> a[Var(c.gateID)] = c.constant
    BY <1>2, <2>1, <2>2, ConstantClauses
  <2> QED
    BY <1>2, <2>1, <2>3 DEF c
<1> QED
  BY <1>3, <1>4, <1>5, <1>6

\* An assignment simulates the miter: the copies carry what their gates put
\* out, without and with the faults.
Simulates(net, cur, s, a, p, v, w) ==
  LET n == Len(cur)
      pis == Inputs(net, cur)
      pos == Outputs(net, cur)
  IN /\ Stuck(net, cur, s, a)
     /\ \A i \in 1 .. n : /\ a[i] = RefOut(net, {}, p, v, cur[i])
                          /\ a[n + i] = RefOut(net, Faults(s), p, w, cur[i])
     /\ \A i \in 1 .. pos : /\ a[2 * n + pis + i] = 1 <=> a[n - pos + i] # a[2 * n - pos + i]
                            /\ a[2 * n + pis + pos + i] = a[2 * n + pis + i]

\* The clauses of all gates say that the assignment simulates the miter.
LEMMA GatesSatisfied ==
  ASSUME NEW net, NEW R, NEW cur, Cut(net, R, cur), NEW s, FaultList(net, s),
         NEW M, IsMiter(M, net, cur, s, Len(s)), NEW a, Bits(net, cur, s, a),
         NEW p, Feeds(net, cur, a, p), NEW v, Carries(cur, 0, a, v), NEW w, Carries(cur, Len(cur), a, w)
  PROVE  (\A q \in 1 .. Len(M) : Satisfied(generateClause(M[q]), a)) <=> Simulates(net, cur, s, a, p, v, w)
<1> DEFINE n == Len(cur)
           pis == Inputs(net, cur)
           pos == Outputs(net, cur)
           N == Extent(net, cur)
           K == Len(s)
           Sat(q) == Satisfied(generateClause(M[q]), a)
<1>1. n \in Nat /\ pis \in Nat /\ pos \in Nat /\ N \in Nat /\ N = 2 * n + pis + 2 * pos /\ K \in Nat
  BY Extents DEF FaultList
<1>2. /\ Len(M) = N + K
      /\ \A i \in 1 .. n : M[i] = CopyGate(net, cur, 0, i) /\ M[n + i] = FaultyGate(net, cur, n, s, K, i)
      /\ \A i \in 1 .. pis : M[2 * n + i] = NewInput(net, cur, i)
      /\ \A i \in 1 .. pos : M[2 * n + pis + i] = XORGate(net, cur, i)
                             /\ M[2 * n + pis + pos + i] = NewOutput(net, cur, i)
      /\ \A j \in 1 .. K : M[N + j] = StuckConstant(net, cur, s, j)
  BY DEF IsMiter
<1>3. /\ \A i \in 1 .. pis : Sat(2 * n + i)
      /\ \A i \in 1 .. pos : Sat(2 * n + pis + i) <=> (a[2 * n + pis + i] = 1 <=> a[n - pos + i] # a[2 * n - pos + i])
      /\ \A i \in 1 .. pos : Sat(2 * n + pis + pos + i) <=> a[2 * n + pis + pos + i] = a[2 * n + pis + i]
      /\ \A j \in 1 .. K : Sat(N + j) <=> a[N + 1 + j] = faultStuckat(s[j])
  BY <1>2, OtherClauses
<1>4. \A i \in 1 .. n : Sat(i) <=> a[i] = RefOut(net, {}, p, v, cur[i])
  <2> SUFFICES ASSUME NEW i \in 1 .. n PROVE Sat(i) <=> a[i] = RefOut(net, {}, p, v, cur[i])
    OBVIOUS
  <2>1. FaultList(net, << >>) /\ Len(<< >>) = 0 /\ Faults(<< >>) = {}
    BY DEF FaultList, Faults
  <2>2. Bits(net, cur, << >>, a) /\ Stuck(net, cur, << >>, a)
    <3>1. \A x \in 1 .. N : a[x] \in Bit
      BY DEF Bits, Variables
    <3> QED
      BY <2>1, <3>1 DEF Bits, Variables, Stuck
  <2>3. FaultyGate(net, cur, 0, << >>, 0, i) = CopyGate(net, cur, 0, i)
    BY NoFaultYet
  <2>4. Satisfied(generateClause(FaultyGate(net, cur, 0, << >>, Len(<< >>), i)), a)
          <=> a[0 + i] = RefOut(net, Faults(<< >>), p, v, cur[i])
    BY <2>1, <2>2, CopyClauses
  <2>5. 0 + i = i
    BY <1>1
  <2> QED
    BY <1>2, <2>1, <2>3, <2>4, <2>5
<1>5. Stuck(net, cur, s, a) => \A i \in 1 .. n : Sat(n + i) <=> a[n + i] = RefOut(net, Faults(s), p, w, cur[i])
  <2> SUFFICES ASSUME Stuck(net, cur, s, a), NEW i \in 1 .. n
               PROVE  Sat(n + i) <=> a[n + i] = RefOut(net, Faults(s), p, w, cur[i])
    OBVIOUS
  <2> QED
    BY <1>2, CopyClauses
<1>6. Stuck(net, cur, s, a) <=> \A j \in 1 .. K : Sat(N + j)
  BY <1>3 DEF Stuck
<1>7. (\A q \in 1 .. N + K : Sat(q)) <=>
        /\ \A i \in 1 .. n : Sat(i) /\ Sat(n + i)
        /\ \A i \in 1 .. pis : Sat(2 * n + i)
        /\ \A i \in 1 .. pos : Sat(2 * n + pis + i) /\ Sat(2 * n + pis + pos + i)
        /\ \A j \in 1 .. K : Sat(N + j)
  <2> HIDE DEF n, pis, pos, N, K, Sat
  <2>1. ASSUME \A q \in 1 .. N + K : Sat(q)
        PROVE  /\ \A i \in 1 .. n : Sat(i) /\ Sat(n + i)
               /\ \A i \in 1 .. pis : Sat(2 * n + i)
               /\ \A i \in 1 .. pos : Sat(2 * n + pis + i) /\ Sat(2 * n + pis + pos + i)
               /\ \A j \in 1 .. K : Sat(N + j)
    <3>1. \A i \in 1 .. n : i \in 1 .. N + K /\ n + i \in 1 .. N + K
      BY <1>1
    <3>2. \A i \in 1 .. pis : 2 * n + i \in 1 .. N + K
      BY <1>1
    <3>3. \A i \in 1 .. pos : 2 * n + pis + i \in 1 .. N + K /\ 2 * n + pis + pos + i \in 1 .. N + K
      BY <1>1
    <3>4. \A j \in 1 .. K : N + j \in 1 .. N + K
      BY <1>1
    <3> QED
      BY <2>1, <3>1, <3>2, <3>3, <3>4
  <2>2. ASSUME /\ \A i \in 1 .. n : Sat(i) /\ Sat(n + i)
               /\ \A i \in 1 .. pis : Sat(2 * n + i)
               /\ \A i \in 1 .. pos : Sat(2 * n + pis + i) /\ Sat(2 * n + pis + pos + i)
               /\ \A j \in 1 .. K : Sat(N + j),
               NEW q \in 1 .. N + K
        PROVE  Sat(q)
    <3>1. CASE q <= n
      <4>1. q \in 1 .. n
        BY <1>1, <3>1
      <4> QED
        BY <2>2, <4>1
    <3>2. CASE n < q /\ q <= 2 * n
      <4>1. q - n \in 1 .. n /\ n + (q - n) = q
        BY <1>1, <3>2
      <4> QED
        BY <2>2, <4>1
    <3>3. CASE 2 * n < q /\ q <= 2 * n + pis
      <4>1. q - 2 * n \in 1 .. pis /\ 2 * n + (q - 2 * n) = q
        BY <1>1, <3>3
      <4> QED
        BY <2>2, <4>1
    <3>4. CASE 2 * n + pis < q /\ q <= 2 * n + pis + pos
      <4>1. q - (2 * n + pis) \in 1 .. pos /\ 2 * n + pis + (q - (2 * n + pis)) = q
        BY <1>1, <3>4
      <4> QED
        BY <2>2, <4>1
    <3>5. CASE 2 * n + pis + pos < q /\ q <= N
      <4>1. q - (2 * n + pis + pos) \in 1 .. pos /\ 2 * n + pis + pos + (q - (2 * n + pis + pos)) = q
        BY <1>1, <3>5
      <4> QED
        BY <2>2, <4>1
    <3>6. CASE N < q
      <4>1. q - N \in 1 .. K /\ N + (q - N) = q
        BY <1>1, <3>6
      <4> QED
        BY <2>2, <4>1
    <3> QED
      BY <1>1, <3>1, <3>2, <3>3, <3>4, <3>5, <3>6
  <2> QED
    BY <2>1, <2>2
<1> HIDE DEF Sat, n, pis, pos, N, K
<1>8. (\A q \in 1 .. Len(M) : Sat(q)) <=> \A q \in 1 .. N + K : Sat(q)
  BY <1>2
<1>9. Simulates(net, cur, s, a, p, v, w) <=>
        /\ \A i \in 1 .. n : Sat(i) /\ Sat(n + i)
        /\ \A i \in 1 .. pis : Sat(2 * n + i)
        /\ \A i \in 1 .. pos : Sat(2 * n + pis + i) /\ Sat(2 * n + pis + pos + i)
        /\ \A j \in 1 .. K : Sat(N + j)
  <2>1. Simulates(net, cur, s, a, p, v, w) <=>
          /\ Stuck(net, cur, s, a)
          /\ \A i \in 1 .. n : /\ a[i] = RefOut(net, {}, p, v, cur[i])
                               /\ a[n + i] = RefOut(net, Faults(s), p, w, cur[i])
          /\ \A i \in 1 .. pos : /\ a[2 * n + pis + i] = 1 <=> a[n - pos + i] # a[2 * n - pos + i]
                                 /\ a[2 * n + pis + pos + i] = a[2 * n + pis + i]
    BY DEF Simulates, n, pis, pos
  <2>2. CASE Stuck(net, cur, s, a)
    BY <1>3, <1>4, <1>5, <1>6, <2>1, <2>2
  <2>3. CASE ~ Stuck(net, cur, s, a)
    BY <1>6, <2>1, <2>3
  <2> QED
    BY <2>2, <2>3
<1> QED
  BY <1>7, <1>8, <1>9 DEF Sat
-----------------------------------------------------------------------------
\* On gates closed under fanins the recursion of the reference semantics
\* determines the values.
LEMMA RefDetermined ==
  ASSUME NEW net, WellFormed(net), NEW R, Closed(net, R), NEW F, NEW pattern \in [PIs -> Bit],
         NEW v, \A g \in R : v[g] = RefOut(net, F, pattern, v, g)
  PROVE  \A g \in R : v[g] = RefValue(net, F, pattern)[g]
<1> DEFINE r == RefValue(net, F, pattern)
           Right == {g \in GateID : g \in R => v[g] = r[g]}
<1>1. \A g \in GateID : r[g] = RefOut(net, F, pattern, r, g)
  BY RefValueEquation
<1> HIDE DEF r
<1>2. ASSUME NEW g \in GateID, \A h \in GateID : h < g => h \in Right
      PROVE  g \in Right
  <2> SUFFICES ASSUME g \in R PROVE v[g] = r[g]
    OBVIOUS
  <2>1. \A f \in Fanins(net, g) : v[f] = r[f]
    BY <1>2, FaninsPrecede DEF Closed
  <2>2. RefOut(net, F, pattern, v, g) = RefOut(net, F, pattern, r, g)
    BY <2>1, RefOutLocal
  <2> QED
    BY <1>1, <2>2
<1> HIDE DEF Right
<1>3. \A g \in GateID : g \in Right
  BY <1>2, GateInduction
<1> QED
  BY <1>3 DEF Right, r, Closed

\* The last clause asks for an output of the miter that is 1.
LEMMA OutputAsked ==
  ASSUME NEW net, NEW R, NEW cur, Cut(net, R, cur), NEW s, Len(s) \in Nat,
         NEW M, IsMiter(M, net, cur, s, Len(s))
  PROVE  LET n == Len(cur)
             pis == Inputs(net, cur)
             pos == Outputs(net, cur)
         IN outputClause(M) = {2 * n + pis + pos + i : i \in 1 .. pos}
<1> DEFINE n == Len(cur)
           pis == Inputs(net, cur)
           pos == Outputs(net, cur)
           N == Extent(net, cur)
           K == Len(s)
<1>1. n \in Nat /\ pis \in Nat /\ pos \in Nat /\ N \in Nat /\ N = 2 * n + pis + 2 * pos /\ K \in Nat
  BY Extents
<1>2. /\ Len(M) = N + K
      /\ \A i \in 1 .. n : M[i] = CopyGate(net, cur, 0, i) /\ M[n + i] = FaultyGate(net, cur, n, s, K, i)
      /\ \A i \in 1 .. pis : M[2 * n + i] = NewInput(net, cur, i)
      /\ \A i \in 1 .. pos : M[2 * n + pis + i] = XORGate(net, cur, i)
                             /\ M[2 * n + pis + pos + i] = NewOutput(net, cur, i)
      /\ \A j \in 1 .. K : M[N + j] = StuckConstant(net, cur, s, j)
  BY DEF IsMiter
<1>3. \A offset, i : CopyGate(net, cur, offset, i).gateType # "PO"
  BY DEF CopyGate
<1>4. \A i : FaultyGate(net, cur, n, s, K, i).gateType # "PO"
  BY <1>3 DEF FaultyGate
<1>5. \A i : /\ NewInput(net, cur, i).gateType = "PI" /\ XORGate(net, cur, i).gateType = "XOR"
             /\ NewOutput(net, cur, i).gateType = "PO" /\ StuckConstant(net, cur, s, i).gateType = "constant"
  BY DEF NewInput, NewOutput, XORGate, StuckConstant, MiterGate, PIGate, POGate, ConstantGate
<1> HIDE DEF n, pis, pos, N, K
<1>6. \A i \in 1 .. pos : 2 * n + pis + pos + i \in 1 .. Len(M) /\ M[2 * n + pis + pos + i].gateType = "PO"
  <2> SUFFICES ASSUME NEW i \in 1 .. pos
               PROVE  2 * n + pis + pos + i \in 1 .. Len(M) /\ M[2 * n + pis + pos + i].gateType = "PO"
    OBVIOUS
  <2>1. 2 * n + pis + pos + i \in 1 .. N + K
    BY <1>1
  <2>2. M[2 * n + pis + pos + i] = NewOutput(net, cur, i)
    BY <1>2
  <2> QED
    BY <1>2, <1>5, <2>1, <2>2
<1>7. ASSUME NEW q \in 1 .. Len(M), M[q].gateType = "PO"
      PROVE  \E i \in 1 .. pos : q = 2 * n + pis + pos + i
  <2>0. q \in 1 .. N + K
    BY <1>2
  <2>1. ~ (q <= n)
    <3> SUFFICES ASSUME q <= n PROVE FALSE
      OBVIOUS
    <3>1. q \in 1 .. n
      BY <1>1, <2>0
    <3> QED
      BY <1>2, <1>3, <1>7, <3>1
  <2>2. ~ (n < q /\ q <= 2 * n)
    <3> SUFFICES ASSUME n < q /\ q <= 2 * n PROVE FALSE
      OBVIOUS
    <3>1. q - n \in 1 .. n /\ n + (q - n) = q
      BY <1>1, <2>0
    <3> QED
      BY <1>2, <1>4, <1>7, <3>1
  <2>3. ~ (2 * n < q /\ q <= 2 * n + pis)
    <3> SUFFICES ASSUME 2 * n < q /\ q <= 2 * n + pis PROVE FALSE
      OBVIOUS
    <3>1. q - 2 * n \in 1 .. pis /\ 2 * n + (q - 2 * n) = q
      BY <1>1, <2>0
    <3> QED
      BY <1>2, <1>5, <1>7, <3>1
  <2>4. ~ (2 * n + pis < q /\ q <= 2 * n + pis + pos)
    <3> SUFFICES ASSUME 2 * n + pis < q /\ q <= 2 * n + pis + pos PROVE FALSE
      OBVIOUS
    <3>1. q - (2 * n + pis) \in 1 .. pos /\ 2 * n + pis + (q - (2 * n + pis)) = q
      BY <1>1, <2>0
    <3> QED
      BY <1>2, <1>5, <1>7, <3>1
  <2>5. ~ (N < q)
    <3> SUFFICES ASSUME N < q PROVE FALSE
      OBVIOUS
    <3>1. q - N \in 1 .. K /\ N + (q - N) = q
      BY <1>1, <2>0
    <3> QED
      BY <1>2, <1>5, <1>7, <3>1
  <2>6. q - (2 * n + pis + pos) \in 1 .. pos /\ q = 2 * n + pis + pos + (q - (2 * n + pis + pos))
    BY <1>1, <2>0, <2>1, <2>2, <2>3, <2>4, <2>5
  <2> QED
    BY <2>6
<1>8. \A q \in 1 .. Len(M) : Var(q - 1) = q
  BY <1>1, <1>2 DEF Var
<1>9. {q \in 1 .. Len(M) : M[q].gateType = "PO"} = {2 * n + pis + pos + i : i \in 1 .. pos}
  BY <1>6, <1>7
<1>10. outputClause(M) = {q \in 1 .. Len(M) : M[q].gateType = "PO"}
  BY <1>8 DEF outputClause
<1> QED
  BY <1>9, <1>10 DEF n, pis, pos

\* What generateCNF_1 puts together.
CNFOf(M) == (UNION {generateClause(M[q]) : q \in 1 .. Len(M)}) \cup {outputClause(M)}

\* The numbers a gate's clauses are made of.
Within(c, V) ==
  /\ c.gateID \in Nat /\ Var(c.gateID) \in V
  /\ c.gateType \in {"PI", "PO", "bufInv", "constant", "aig", "XOR"}
  /\ c.gateType \in {"PO", "bufInv", "aig", "XOR"} => c.fanin1 \in Nat /\ Var(c.fanin1) \in V
  /\ c.gateType \in {"aig", "XOR"} => c.fanin2 \in Nat /\ Var(c.fanin2) \in V

\* The variables of a gate's clauses.
LEMMA WithinVariables ==
  ASSUME NEW c, NEW V, Within(c, V)
  PROVE  Vars(generateClause(c)) \subseteq V /\ Var(c.gateID) \in Vars(generateClause(c))
<1>1. Vars(generateClause(c)) =
        {Var(c.gateID)} \cup
        (IF c.gateType \in {"PO", "bufInv", "aig", "XOR"} THEN {Var(c.fanin1)} ELSE {}) \cup
        (IF c.gateType \in {"aig", "XOR"} THEN {Var(c.fanin2)} ELSE {})
  BY ClauseVariables DEF Within
<1> QED
  BY <1>1 DEF Within

\* A gate of the faulty copy reads gates of the miter.
LEMMA CopyWithin ==
  ASSUME NEW net, NEW R, NEW cur, Cut(net, R, cur), NEW s, Len(s) \in Nat,
         NEW offset, offset = 0 \/ offset = Len(cur), NEW i \in 1 .. Len(cur)
  PROVE  Within(FaultyGate(net, cur, offset, s, Len(s), i), Variables(net, cur, s))
<1> DEFINE n == Len(cur)
           N == Extent(net, cur)
           V == Variables(net, cur, s)
           g == net[cur[i]]
           c == FaultyGate(net, cur, offset, s, Len(s), i)
           last(q) == LastFault(s, Len(s), cur[i], q)
<1>1. /\ n \in Nat /\ N \in Nat /\ Inputs(net, cur) \in Nat /\ Outputs(net, cur) \in Nat
      /\ N = 2 * n + Inputs(net, cur) + 2 * Outputs(net, cur)
      /\ i <= Inputs(net, cur) <=> g.gateType = "PI"
  BY Extents
<1>2. g.gateType \in Type
  <2>1. R \in SUBSET GateID /\ Ordered(R, cur) /\ WellFormed(net)
    BY DEF Cut, Closed
  <2>2. cur[i] \in GateID
    BY <2>1, IndexFound
  <2> QED
    BY <2>1, <2>2 DEF WellFormed, Gate
<1>3. \A q : last(q) # 0 => N + last(q) \in Nat /\ Var(N + last(q)) \in V
  <2> SUFFICES ASSUME NEW q, last(q) # 0 PROVE N + last(q) \in Nat /\ Var(N + last(q)) \in V
    OBVIOUS
  <2>1. last(q) \in 1 .. Len(s)
    BY LastFaultIs
  <2> HIDE DEF last, N
  <2>2. N + last(q) \in Nat /\ Var(N + last(q)) = N + 1 + last(q)
    BY SMTT(30), <1>1, <2>1 DEF Var
  <2> QED
    BY <2>1, <2>2 DEF Variables, N
<1>4. \A x \in 1 .. N : x - 1 \in Nat /\ Var(x - 1) \in V
  <2>1. \A x \in 1 .. N : x - 1 \in Nat /\ Var(x - 1) = x
    <3> HIDE DEF N, V, n, c, g, last
    <3> QED
      BY <1>1, SMTT(60) DEF Var
  <2> QED
    BY <2>1 DEF Variables
<1>5. \A f \in Fanins(net, cur[i]) : FaninPlace(cur, offset, f) \in Nat /\ Var(FaninPlace(cur, offset, f)) \in V
  <2> SUFFICES ASSUME NEW f \in Fanins(net, cur[i])
               PROVE  FaninPlace(cur, offset, f) \in Nat /\ Var(FaninPlace(cur, offset, f)) \in V
    OBVIOUS
  <2>1. PICK j \in 1 .. n : FaninPlace(cur, offset, f) = offset + (j - 1)
    BY FaninsListed
  <2>2. offset + j \in 1 .. N /\ (offset + j) - 1 = offset + (j - 1)
    BY SMTT(30), <1>1
  <2> QED
    BY <1>4, <2>1, <2>2
<1>6. /\ c.gateID = (offset + i) - 1 /\ offset + i \in 1 .. N
      /\ c.gateType = IF last(3) # 0 \/ g.gateType \in {"PI", "PO"} \/ (last(1) # 0 /\ g.gateType = "constant")
                      THEN "bufInv" ELSE g.gateType
      /\ c.fanin1 = IF last(3) # 0 THEN N + last(3) ELSE IF last(1) # 0 THEN N + last(1)
                    ELSE IF g.gateType = "PI" THEN (2 * n + i) - 1 ELSE FaninPlace(cur, offset, g.fanin1)
      /\ c.fanin2 = IF last(2) # 0 THEN N + last(2) ELSE FaninPlace(cur, offset, g.fanin2)
  <2>1. offset + i \in 1 .. N
    BY SMTT(30), <1>1
  <2>2. c.gateID = (offset + i) - 1
    BY SMTT(60) DEF FaultyGate, CopyGate
  <2>3. c.gateType = IF last(3) # 0 \/ g.gateType \in {"PI", "PO"} \/ (last(1) # 0 /\ g.gateType = "constant")
                     THEN "bufInv" ELSE g.gateType
    BY SMTT(60) DEF FaultyGate, CopyGate
  <2>4. c.fanin1 = IF last(3) # 0 THEN N + last(3) ELSE IF last(1) # 0 THEN N + last(1)
                   ELSE IF g.gateType = "PI" THEN (2 * n + i) - 1 ELSE FaninPlace(cur, offset, g.fanin1)
    BY SMTT(60) DEF FaultyGate, CopyGate
  <2>5. c.fanin2 = IF last(2) # 0 THEN N + last(2) ELSE FaninPlace(cur, offset, g.fanin2)
    BY SMTT(60) DEF FaultyGate, CopyGate
  <2> QED
    BY <2>1, <2>2, <2>3, <2>4, <2>5
<1>7. g.gateType = "PI" => 2 * n + i \in 1 .. N
  <2> SUFFICES ASSUME g.gateType = "PI" PROVE 2 * n + i \in 1 .. N
    OBVIOUS
  <2>1. i <= Inputs(net, cur) /\ i \in Nat \ {0}
    BY <1>1
  <2> HIDE DEF c, g, last, N, V, n
  <2> QED
    BY <1>1, <2>1, SMTT(60)
<1>8. g.gateType \in {"aig", "bufInv", "PO"} => g.fanin1 \in Fanins(net, cur[i])
  BY DEF Fanins
<1>9. g.gateType = "aig" => g.fanin2 \in Fanins(net, cur[i])
  BY DEF Fanins
<1> HIDE DEF c, g, last, N, V, n
<1>10. c.gateID \in Nat /\ Var(c.gateID) \in V
  BY <1>4, <1>6
<1>11. c.gateType \in {"bufInv", "constant", "aig"}
  BY <1>2, <1>6 DEF Type
<1>12. c.gateType \in {"bufInv", "aig"} => c.fanin1 \in Nat /\ Var(c.fanin1) \in V
  <2>1. CASE last(3) # 0
    BY <1>3, <1>6, <2>1
  <2>2. CASE last(3) = 0 /\ last(1) # 0
    BY <1>3, <1>6, <2>2
  <2>3. CASE last(3) = 0 /\ last(1) = 0 /\ g.gateType = "PI"
    BY <1>4, <1>6, <1>7, <2>3
  <2>4. CASE last(3) = 0 /\ last(1) = 0 /\ g.gateType \in {"aig", "bufInv", "PO"}
    BY <1>5, <1>6, <1>8, <2>4
  <2>5. CASE last(3) = 0 /\ last(1) = 0 /\ g.gateType = "constant"
    BY <1>6, <2>5
  <2> QED
    BY <1>2, <2>1, <2>2, <2>3, <2>4, <2>5 DEF Type
<1>13. c.gateType = "aig" => c.fanin2 \in Nat /\ Var(c.fanin2) \in V
  BY <1>3, <1>5, <1>6, <1>9
<1> QED
  BY <1>10, <1>11, <1>12, <1>13 DEF Within, c, V

\* The variables of the miter's clauses.
LEMMA CNFVariables ==
  ASSUME NEW net, NEW R, NEW cur, Cut(net, R, cur), NEW s, Len(s) \in Nat,
         NEW M, IsMiter(M, net, cur, s, Len(s))
  PROVE  Vars(CNFOf(M)) = Variables(net, cur, s)
<1> DEFINE n == Len(cur)
           pis == Inputs(net, cur)
           pos == Outputs(net, cur)
           N == Extent(net, cur)
           K == Len(s)
           V == Variables(net, cur, s)
           id(q) == IF q <= N THEN q ELSE q + 1
           Good(q) == Within(M[q], V) /\ Var(M[q].gateID) = id(q)
<1>1. /\ n \in Nat /\ pis \in Nat /\ pos \in Nat /\ N \in Nat /\ N = 2 * n + pis + 2 * pos /\ K \in Nat
      /\ pis + pos <= n
  BY Extents
<1>2. /\ Len(M) = N + K
      /\ \A i \in 1 .. n : M[i] = CopyGate(net, cur, 0, i) /\ M[n + i] = FaultyGate(net, cur, n, s, K, i)
      /\ \A i \in 1 .. pis : M[2 * n + i] = NewInput(net, cur, i)
      /\ \A i \in 1 .. pos : M[2 * n + pis + i] = XORGate(net, cur, i)
                             /\ M[2 * n + pis + pos + i] = NewOutput(net, cur, i)
      /\ \A j \in 1 .. K : M[N + j] = StuckConstant(net, cur, s, j)
  BY DEF IsMiter
<1>3. \A x \in 1 .. N : x - 1 \in Nat /\ Var(x - 1) = x /\ x \in V
  BY <1>1 DEF Var, Variables
<1>4. \A j \in 1 .. K : N + j \in Nat /\ Var(N + j) = N + 1 + j /\ N + 1 + j \in V
  BY SMTT(30), <1>1 DEF Var, Variables
<1>5. ASSUME NEW i \in 1 .. n
      PROVE  Good(i) /\ Good(n + i)
  <2>1. i <= N /\ n + i <= N /\ i \in 1 .. N /\ n + i \in 1 .. N
    BY <1>1
  <2>2. Within(M[n + i], V)
    BY <1>1, <1>2, CopyWithin
  <2>3. Within(FaultyGate(net, cur, 0, << >>, Len(<< >>), i), Variables(net, cur, << >>))
    <3>1. Len(<< >>) \in Nat
      OBVIOUS
    <3> QED
      BY <3>1, CopyWithin
  <2>4. FaultyGate(net, cur, 0, << >>, Len(<< >>), i) = CopyGate(net, cur, 0, i)
    BY NoFaultYet
  <2>5. Variables(net, cur, << >>) \subseteq V
    BY DEF Variables
  <2>6. Within(M[i], V)
    <3>1. Within(M[i], Variables(net, cur, << >>))
      BY <1>2, <2>3, <2>4
    <3> HIDE DEF V
    <3> QED
      BY <2>5, <3>1 DEF Within
  <2>7. M[i].gateID = i - 1 /\ M[n + i].gateID = (n + i) - 1
    <3>1. CopyGate(net, cur, 0, i).gateID = 0 + i - 1 /\ FaultyGate(net, cur, n, s, K, i).gateID = n + i - 1
      BY DEF FaultyGate, CopyGate
    <3>2. M[i] = CopyGate(net, cur, 0, i) /\ M[n + i] = FaultyGate(net, cur, n, s, K, i)
      BY <1>2
    <3>3. 0 + i - 1 = i - 1
      BY <1>1
    <3> QED
      BY <3>1, <3>2, <3>3
  <2>8. Var(M[i].gateID) = i /\ Var(M[n + i].gateID) = n + i
    BY <1>3, <2>1, <2>7
  <2> QED
    BY <2>1, <2>2, <2>6, <2>8
<1>6. ASSUME NEW i \in 1 .. pis
      PROVE  Good(2 * n + i)
  <2>1. 2 * n + i <= N /\ 2 * n + i \in 1 .. N
    BY <1>1
  <2> DEFINE c == NewInput(net, cur, i)
  <2>2. c.gateType = "PI" /\ c.gateID = (2 * n + i) - 1
    BY <1>1 DEF NewInput, MiterGate, PIGate
  <2>3. M[2 * n + i] = c
    BY <1>2
  <2> HIDE DEF c, V, n, N
  <2>4. Within(c, V) /\ Var(c.gateID) = 2 * n + i
    BY <1>3, <2>1, <2>2 DEF Within
  <2> QED
    BY <2>1, <2>3, <2>4
<1>7. ASSUME NEW i \in 1 .. pos
      PROVE  Good(2 * n + pis + i)
  <2> DEFINE c == XORGate(net, cur, i)
  <2>1. 2 * n + pis + i <= N /\ 2 * n + pis + i \in 1 .. N /\ n - pos + i \in 1 .. N /\ 2 * n - pos + i \in 1 .. N
    BY SMTT(30), <1>1
  <2>2. /\ c.gateType = "XOR" /\ c.gateID = (2 * n + pis + i) - 1
        /\ c.fanin1 = (n - pos + i) - 1 /\ c.fanin2 = (2 * n - pos + i) - 1
    BY SMTT(30), <1>1 DEF XORGate
  <2>3. M[2 * n + pis + i] = c
    BY <1>2
  <2> HIDE DEF c, V, n, N, pis, pos
  <2>4. Within(c, V) /\ Var(c.gateID) = 2 * n + pis + i
    BY <1>3, <2>1, <2>2 DEF Within
  <2> QED
    BY <2>1, <2>3, <2>4
<1>8. ASSUME NEW i \in 1 .. pos
      PROVE  Good(2 * n + pis + pos + i)
  <2> DEFINE c == NewOutput(net, cur, i)
  <2>1. 2 * n + pis + pos + i <= N /\ 2 * n + pis + pos + i \in 1 .. N /\ 2 * n + pis + i \in 1 .. N
    BY <1>1
  <2>2. /\ c.gateType = "PO" /\ c.gateID = (2 * n + pis + pos + i) - 1 /\ c.fanin1 = (2 * n + pis + i) - 1
    BY <1>1 DEF NewOutput, MiterGate, POGate, PIGate
  <2>3. M[2 * n + pis + pos + i] = c
    BY <1>2
  <2> HIDE DEF c, V, n, N, pis, pos
  <2>4. Within(c, V) /\ Var(c.gateID) = 2 * n + pis + pos + i
    BY <1>3, <2>1, <2>2 DEF Within
  <2> QED
    BY <2>1, <2>3, <2>4
<1>9. ASSUME NEW j \in 1 .. K
      PROVE  Good(N + j)
  <2> DEFINE c == StuckConstant(net, cur, s, j)
  <2>1. ~ (N + j <= N) /\ N + j + 1 = N + 1 + j
    BY <1>1
  <2>2. c.gateType = "constant" /\ c.gateID = N + j
    BY DEF StuckConstant, MiterGate, ConstantGate, PIGate
  <2>3. M[N + j] = c
    BY <1>2
  <2> HIDE DEF c, V, N, K
  <2>4. Within(c, V) /\ Var(c.gateID) = N + 1 + j
    BY <1>4, <2>2 DEF Within
  <2> QED
    BY <2>1, <2>3, <2>4
<1> HIDE DEF Good, n, pis, pos, N, K, V
<1>10. ASSUME NEW q \in 1 .. N + K
       PROVE  Good(q)
  <2>1. CASE q <= n
    <3>1. q \in 1 .. n
      BY <1>1, <2>1
    <3> QED
      BY <1>5, <3>1
  <2>2. CASE n < q /\ q <= 2 * n
    <3>1. q - n \in 1 .. n /\ n + (q - n) = q
      BY <1>1, <2>2
    <3> QED
      BY <1>5, <3>1
  <2>3. CASE 2 * n < q /\ q <= 2 * n + pis
    <3>1. q - 2 * n \in 1 .. pis /\ 2 * n + (q - 2 * n) = q
      BY <1>1, <2>3
    <3> QED
      BY <1>6, <3>1
  <2>4. CASE 2 * n + pis < q /\ q <= 2 * n + pis + pos
    <3>1. q - (2 * n + pis) \in 1 .. pos /\ 2 * n + pis + (q - (2 * n + pis)) = q
      BY <1>1, <2>4
    <3> QED
      BY <1>7, <3>1
  <2>5. CASE 2 * n + pis + pos < q /\ q <= N
    <3>1. q - (2 * n + pis + pos) \in 1 .. pos /\ 2 * n + pis + pos + (q - (2 * n + pis + pos)) = q
      BY <1>1, <2>5
    <3> QED
      BY <1>8, <3>1
  <2>6. CASE N < q
    <3>1. q - N \in 1 .. K /\ N + (q - N) = q
      BY <1>1, <2>6
    <3> QED
      BY <1>9, <3>1
  <2> QED
    BY <1>1, <2>1, <2>2, <2>3, <2>4, <2>5, <2>6
<1>11. \A q \in 1 .. N + K : Vars(generateClause(M[q])) \subseteq V /\ id(q) \in Vars(generateClause(M[q]))
  BY <1>10, WithinVariables DEF Good
<1>12. \A x : x \in Vars(CNFOf(M)) <=>
         (\E q \in 1 .. N + K : x \in Vars(generateClause(M[q]))) \/ x \in {VarOf(l) : l \in outputClause(M)}
  <2>1. \A x : x \in Vars(CNFOf(M)) <=> \E c \in CNFOf(M) : x \in {VarOf(l) : l \in c}
    BY DEF Vars
  <2>2. \A c : c \in CNFOf(M) <=> (\E q \in 1 .. N + K : c \in generateClause(M[q])) \/ c = outputClause(M)
    BY <1>2 DEF CNFOf
  <2>3. \A q, x : x \in Vars(generateClause(M[q])) <=> \E c \in generateClause(M[q]) : x \in {VarOf(l) : l \in c}
    BY DEF Vars
  <2> QED
    BY <2>1, <2>2, <2>3
<1>13. \A l \in outputClause(M) : VarOf(l) \in V
  <2>1. outputClause(M) = {2 * n + pis + pos + i : i \in 1 .. pos}
    BY OutputAsked DEF n, pis, pos
  <2>2. \A i \in 1 .. pos : VarOf(2 * n + pis + pos + i) = 2 * n + pis + pos + i /\ 2 * n + pis + pos + i \in 1 .. N
    BY <1>1 DEF VarOf
  <2> QED
    BY <1>3, <2>1, <2>2
<1>14. Vars(CNFOf(M)) \subseteq V
  BY <1>11, <1>12, <1>13
<1>15. ASSUME NEW x \in V
       PROVE  \E q \in 1 .. N + K : id(q) = x
  <2>1. x \in 1 .. N \/ \E j \in 1 .. K : x = N + 1 + j
    BY DEF V, Variables, N, K
  <2>2. CASE x \in 1 .. N
    <3>1. x \in 1 .. N + K /\ id(x) = x
      BY <1>1, <2>2
    <3> QED
      BY <3>1
  <2>3. ASSUME NEW j \in 1 .. K, x = N + 1 + j
        PROVE  \E q \in 1 .. N + K : id(q) = x
    <3>1. N + j \in 1 .. N + K /\ id(N + j) = x
      BY <1>1, <2>3
    <3> QED
      BY <3>1
  <2> QED
    BY <2>1, <2>2, <2>3
<1>16. V \subseteq Vars(CNFOf(M))
  BY <1>11, <1>12, <1>15
<1> QED
  BY <1>14, <1>16 DEF V
-----------------------------------------------------------------------------
(***************************************************************************)
(* The models of the clauses of a call.                                    *)
(***************************************************************************)
\* Order lists the variables of the clauses, each once.
LEMMA OrderIsOrder ==
  ASSUME NEW cnf, Vars(cnf) \in SUBSET Nat, IsFiniteSet(Vars(cnf))
  PROVE  IsOrder(cnf, Order(cnf))
<1> DEFINE V == Vars(cnf)
           first == {v \in V : {{v}, {- v}, {v, - v}} \cap cnf # {}}
           before(u, v) == IF u \in first <=> v \in first THEN u < v ELSE u \in first
           R == {p \in V \X V : before(p[1], p[2])}
<1>1. Order(cnf) = Enumerated(V, R)
  BY DEF Order, Vars
<1>2. \A x, y \in V : <<x, y>> \in R <=> before(x, y)
  OBVIOUS
<1> HIDE DEF R, first
<1>3. Orders(R, V)
  <2>1. \A x \in V : ~ before(x, x)
    OBVIOUS
  <2>2. \A x, y \in V : x # y => before(x, y) \/ before(y, x)
    OBVIOUS
  <2>3. \A x, y, z \in V : before(x, y) /\ before(y, z) => before(x, z)
    OBVIOUS
  <2> HIDE DEF before, V
  <2> QED
    BY <1>2, <2>1, <2>2, <2>3 DEF Orders
<1> HIDE DEF before
<1>4. Lists(Order(cnf), V, R)
  <2> HIDE DEF V
  <2>1. IsFiniteSet(V)
    BY DEF V
  <2> QED
    BY <1>1, <1>3, <2>1, EnumeratedLists
<1> DEFINE order == Order(cnf)
<1> HIDE DEF order
<1>5. order \in Seq(V) /\ (\A v \in V : \E k \in 1 .. Len(order) : order[k] = v)
  BY <1>4 DEF Lists, order
<1>6. ASSUME NEW j \in 1 .. Len(order), NEW k \in 1 .. Len(order), order[j] = order[k], j # k
      PROVE  FALSE
  <2>1. order[j] \in V
    BY <1>5
  <2>2. j < k \/ k < j
    BY <1>5, <1>6
  <2>3. <<order[j], order[j]>> \in R
    BY <1>4, <1>6, <2>2 DEF Lists, order
  <2> QED
    BY <1>3, <2>1, <2>3 DEF Orders
<1> QED
  BY <1>5, <1>6 DEF IsOrder, order

\* An output of the miter is 1.
Asked(net, cur, a) ==
  \E i \in 1 .. Outputs(net, cur) : a[2 * Len(cur) + Inputs(net, cur) + Outputs(net, cur) + i] = 1

IsModel(net, cur, s, M, a) ==
  /\ a \in [Variables(net, cur, s) -> Bit]
  /\ \A q \in 1 .. Len(M) : Satisfied(generateClause(M[q]), a)
  /\ Asked(net, cur, a)

\* What the solver may answer for the miter with all faults of a list.
LEMMA MiterModels ==
  ASSUME NEW net, NEW R, NEW cur, Cut(net, R, cur), NEW s, FaultList(net, s),
         NEW M, IsMiter(M, net, cur, s, Len(s)), NEW a
  PROVE  a \in Models(CNFOf(M), Order(CNFOf(M))) <=> IsModel(net, cur, s, M, a)
<1> DEFINE V == Variables(net, cur, s)
           cnf == CNFOf(M)
           first == 2 * Len(cur) + Inputs(net, cur) + Outputs(net, cur)
<1>1. /\ Len(s) \in Nat /\ Extent(net, cur) \in Nat /\ Len(cur) \in Nat
      /\ Inputs(net, cur) \in Nat /\ Outputs(net, cur) \in Nat
  BY Extents DEF FaultList
<1>2. Vars(cnf) = V
  BY <1>1, CNFVariables
<1>3. V \in SUBSET Nat
  BY <1>1 DEF Variables
<1>4. IsFiniteSet(V)
  <2> DEFINE top == Extent(net, cur) + 1 + Len(s)
  <2>1. 1 .. top \in SUBSET Nat /\ IsFiniteSet(1 .. top)
    <3>1. top \in Int
      BY <1>1
    <3> HIDE DEF top
    <3> QED
      BY <3>1, FS_Interval
  <2>2. V \in SUBSET (1 .. top)
    BY <1>1 DEF Variables
  <2> HIDE DEF V, top
  <2> QED
    BY <2>1, <2>2, FS_Subset
<1> HIDE DEF V
<1>5. Models(cnf, Order(cnf)) = {b \in [Vars(cnf) -> Bit] : \A c \in cnf : Holds(c, b)}
  <2> HIDE DEF cnf
  <2> QED
    BY <1>2, <1>3, <1>4, OrderIsOrder, ModelsExact
<1>6. Holds(outputClause(M), a) <=> Asked(net, cur, a)
  <2>1. outputClause(M) = {first + i : i \in 1 .. Outputs(net, cur)}
    BY <1>1, OutputAsked
  <2>2. \A i \in 1 .. Outputs(net, cur) : first + i > 0
    BY <1>1
  <2>3. Asked(net, cur, a) <=> \E i \in 1 .. Outputs(net, cur) : a[first + i] = 1
    BY DEF Asked
  <2> HIDE DEF first
  <2> QED
    BY <2>1, <2>2, <2>3 DEF Holds
<1>7. (\A c \in cnf : Holds(c, a)) <=>
        (\A q \in 1 .. Len(M) : Satisfied(generateClause(M[q]), a)) /\ Holds(outputClause(M), a)
  <2>1. \A c : c \in cnf <=> (\E q \in 1 .. Len(M) : c \in generateClause(M[q])) \/ c = outputClause(M)
    BY DEF CNFOf
  <2> HIDE DEF cnf
  <2> QED
    BY <2>1 DEF Satisfied
<1> HIDE DEF cnf
<1>8. a \in Models(cnf, Order(cnf)) <=> a \in [V -> Bit] /\ \A c \in cnf : Holds(c, a)
  BY <1>2, <1>5
<1> QED
  BY <1>6, <1>7, <1>8 DEF IsModel, cnf, V
-----------------------------------------------------------------------------
\* The copies carry the values of a simulation, and an output tells them apart.
Simulated(net, cur, s, a, p) ==
  \A i \in 1 .. Len(cur) : /\ a[i] = RefValue(net, {}, p)[cur[i]]
                           /\ a[Len(cur) + i] = RefValue(net, Faults(s), p)[cur[i]]

ToldApart(net, cur, s, p) ==
  \E i \in 1 .. Outputs(net, cur) :
    LET g == cur[Len(cur) - Outputs(net, cur) + i]
    IN RefValue(net, {}, p)[g] # RefValue(net, Faults(s), p)[g]

\* A model simulates the circuit without and with the faults.
LEMMA ModelSimulates ==
  ASSUME NEW net, NEW R, NEW cur, Cut(net, R, cur), NEW s, FaultList(net, s),
         NEW M, IsMiter(M, net, cur, s, Len(s)), NEW a, IsModel(net, cur, s, M, a),
         NEW p \in [PIs -> Bit], Feeds(net, cur, a, p)
  PROVE  Simulated(net, cur, s, a, p) /\ ToldApart(net, cur, s, p)
<1> DEFINE n == Len(cur)
           pis == Inputs(net, cur)
           pos == Outputs(net, cur)
           v == [g \in GateID |-> IF g \in R THEN a[oriCirIDToCur(cur, g) + 1] ELSE 0]
           w == [g \in GateID |-> IF g \in R THEN a[n + (oriCirIDToCur(cur, g) + 1)] ELSE 0]
           F == Faults(s)
<1>1. /\ n \in Nat /\ pis \in Nat /\ pos \in Nat /\ pis + pos <= n
      /\ Extent(net, cur) = 2 * n + pis + 2 * pos
  BY Extents
<1>2. R \in SUBSET GateID /\ Ordered(R, cur) /\ Closed(net, R) /\ WellFormed(net)
  BY DEF Cut, Closed
<1>3. /\ \A i \in 1 .. n : cur[i] \in R /\ cur[i] \in GateID /\ oriCirIDToCur(cur, cur[i]) = i - 1
      /\ \A g \in R : \E i \in 1 .. n : g = cur[i]
  BY <1>2, IndexFound
<1>4. \A i \in 1 .. n : v[cur[i]] = a[i] /\ w[cur[i]] = a[n + i]
  <2> SUFFICES ASSUME NEW i \in 1 .. n PROVE v[cur[i]] = a[i] /\ w[cur[i]] = a[n + i]
    OBVIOUS
  <2>1. oriCirIDToCur(cur, cur[i]) + 1 = i
    BY <1>1, <1>3
  <2> QED
    BY <1>3, <2>1
<1>5. Carries(cur, 0, a, v) /\ Carries(cur, n, a, w)
  <2>1. \A h \in 1 .. n : 0 + h = h
    BY <1>1
  <2> HIDE DEF v, w
  <2> QED
    BY <1>4, <2>1 DEF Carries
<1> HIDE DEF v, w
<1>6. Bits(net, cur, s, a)
  BY DEF IsModel, Bits
<1>7. Simulates(net, cur, s, a, p, v, w)
  BY <1>5, <1>6, GatesSatisfied DEF IsModel
<1>8. \A i \in 1 .. n : v[cur[i]] = RefOut(net, {}, p, v, cur[i]) /\ w[cur[i]] = RefOut(net, F, p, w, cur[i])
  BY <1>4, <1>7 DEF Simulates
<1>9. (\A g \in R : v[g] = RefOut(net, {}, p, v, g)) /\ (\A g \in R : w[g] = RefOut(net, F, p, w, g))
  BY <1>3, <1>8
<1>10. (\A g \in R : v[g] = RefValue(net, {}, p)[g]) /\ (\A g \in R : w[g] = RefValue(net, F, p)[g])
  BY <1>2, <1>9, RefDetermined
<1>11. Simulated(net, cur, s, a, p)
  BY <1>3, <1>4, <1>10 DEF Simulated
<1>12. PICK i \in 1 .. pos : a[2 * n + pis + pos + i] = 1
  BY DEF IsModel, Asked
<1>13. a[n - pos + i] # a[2 * n - pos + i]
  BY <1>7, <1>12 DEF Simulates
<1>14. n - pos + i \in 1 .. n /\ n + (n - pos + i) = 2 * n - pos + i
  BY <1>1
<1>15. RefValue(net, {}, p)[cur[n - pos + i]] # RefValue(net, F, p)[cur[n - pos + i]]
  <2> DEFINE k == n - pos + i
  <2>1. a[k] = RefValue(net, {}, p)[cur[k]] /\ a[n + k] = RefValue(net, F, p)[cur[k]]
    BY <1>11, <1>14 DEF Simulated
  <2> QED
    BY <1>13, <1>14, <2>1
<1> QED
  BY <1>11, <1>15 DEF ToldApart

\* A simulation that an output tells apart is a model.
LEMMA SimulationIsModel ==
  ASSUME NEW net, NEW R, NEW cur, Cut(net, R, cur), NEW s, FaultList(net, s),
         NEW M, IsMiter(M, net, cur, s, Len(s)), NEW p \in [PIs -> Bit], ToldApart(net, cur, s, p)
  PROVE  \E a : IsModel(net, cur, s, M, a) /\ Feeds(net, cur, a, p)
<1> DEFINE n == Len(cur)
           pis == Inputs(net, cur)
           pos == Outputs(net, cur)
           N == Extent(net, cur)
           F == Faults(s)
           v == RefValue(net, {}, p)
           w == RefValue(net, F, p)
           x(i) == IF v[cur[n - pos + i]] # w[cur[n - pos + i]] THEN 1 ELSE 0
           A(k) == IF k <= n THEN v[cur[k]]
                   ELSE IF k <= 2 * n THEN w[cur[k - n]]
                   ELSE IF k <= 2 * n + pis THEN p[cur[k - 2 * n]]
                   ELSE IF k <= 2 * n + pis + pos THEN x(k - (2 * n + pis))
                   ELSE IF k <= N THEN x(k - (2 * n + pis + pos))
                   ELSE faultStuckat(s[k - (N + 1)])
           V == Variables(net, cur, s)
           a == [k \in V |-> A(k)]
<1>1. /\ n \in Nat /\ pis \in Nat /\ pos \in Nat /\ N \in Nat /\ pis + pos <= n /\ N = 2 * n + pis + 2 * pos
      /\ Len(s) \in Nat
      /\ \A i \in 1 .. n : i <= pis <=> net[cur[i]].gateType = "PI"
  BY Extents DEF FaultList
<1>2. R \in SUBSET GateID /\ Ordered(R, cur) /\ WellFormed(net)
  BY DEF Cut, Closed
<1>3. \A i \in 1 .. n : cur[i] \in GateID
  BY <1>2, IndexFound
<1>4. v \in [GateID -> Bit] /\ w \in [GateID -> Bit]
      /\ \A g \in GateID : v[g] = RefOut(net, {}, p, v, g) /\ w[g] = RefOut(net, F, p, w, g)
  BY <1>2, RefValueEquation
<1> HIDE DEF v, w, F
<1>5. \A i \in 1 .. pis : p[cur[i]] \in Bit
  <2> SUFFICES ASSUME NEW i \in 1 .. pis PROVE p[cur[i]] \in Bit
    OBVIOUS
  <2>1. i \in 1 .. n /\ i <= pis
    BY <1>1
  <2>2. cur[i] \in PIs
    BY <1>1, <1>2, <1>3, <2>1 DEF WellFormed
  <2> QED
    BY <2>2
<1>6. \A i : x(i) \in Bit /\ (x(i) = 1 <=> v[cur[n - pos + i]] # w[cur[n - pos + i]])
  BY DEF Bit
<1>7. V = (1 .. N) \cup {N + 1 + j : j \in 1 .. Len(s)}
  BY DEF Variables
<1> HIDE DEF x, V, N, n, pis, pos
<1>7a. /\ n \in Nat /\ pis \in Nat /\ pos \in Nat /\ N \in Nat
       /\ N = 2 * n + pis + 2 * pos
  BY <1>1
<1>8. /\ \A i \in 1 .. n : /\ i \in V /\ n + i \in V
                           /\ A(i) = v[cur[i]] /\ A(n + i) = w[cur[i]]
      /\ \A i \in 1 .. pis : 2 * n + i \in V /\ A(2 * n + i) = p[cur[i]]
      /\ \A i \in 1 .. pos : /\ 2 * n + pis + i \in V /\ A(2 * n + pis + i) = x(i)
                             /\ 2 * n + pis + pos + i \in V /\ A(2 * n + pis + pos + i) = x(i)
      /\ \A j \in 1 .. Len(s) : N + 1 + j \in V /\ A(N + 1 + j) = faultStuckat(s[j])
  <2>1. ASSUME NEW i \in 1 .. n
        PROVE  i \in V /\ n + i \in V /\ A(i) = v[cur[i]] /\ A(n + i) = w[cur[i]]
    <3> DEFINE k == n + i
    <3>1. i \in 1 .. N /\ i <= n
      BY <1>7a, SMTT(40)
    <3>2. k \in 1 .. N /\ ~ (k <= n) /\ k <= 2 * n /\ k - n = i
      BY <1>7a, SMTT(40)
    <3>3. i \in V /\ A(i) = v[cur[i]]
      BY <1>7, <3>1
    <3> HIDE DEF k
    <3>4. k \in V /\ A(k) = w[cur[i]]
      BY <1>7, <3>2
    <3> QED
      BY <3>3, <3>4 DEF k
  <2>2. ASSUME NEW i \in 1 .. pis
        PROVE  2 * n + i \in V /\ A(2 * n + i) = p[cur[i]]
    <3> DEFINE k == 2 * n + i
    <3>1. k \in 1 .. N /\ ~ (k <= n) /\ ~ (k <= 2 * n) /\ k <= 2 * n + pis /\ k - 2 * n = i
      BY <1>7a, SMTT(40)
    <3> HIDE DEF k
    <3>2. k \in V /\ A(k) = p[cur[i]]
      BY <1>7, <3>1
    <3> QED
      BY <3>2 DEF k
  <2>3. ASSUME NEW i \in 1 .. pos
        PROVE  2 * n + pis + i \in V /\ A(2 * n + pis + i) = x(i)
    <3> DEFINE k == 2 * n + pis + i
    <3>1. /\ k \in 1 .. N /\ ~ (k <= n) /\ ~ (k <= 2 * n) /\ ~ (k <= 2 * n + pis)
          /\ k <= 2 * n + pis + pos /\ k - (2 * n + pis) = i
      BY <1>7a, SMTT(40)
    <3> HIDE DEF k
    <3>2. k \in V /\ A(k) = x(i)
      BY <1>7, <3>1
    <3> QED
      BY <3>2 DEF k
  <2>4. ASSUME NEW i \in 1 .. pos
        PROVE  2 * n + pis + pos + i \in V /\ A(2 * n + pis + pos + i) = x(i)
    <3> DEFINE k == 2 * n + pis + pos + i
    <3>1. /\ k \in 1 .. N /\ ~ (k <= n) /\ ~ (k <= 2 * n) /\ ~ (k <= 2 * n + pis)
          /\ ~ (k <= 2 * n + pis + pos) /\ k <= N /\ k - (2 * n + pis + pos) = i
      BY <1>7a, SMTT(40)
    <3> HIDE DEF k
    <3>2. k \in V /\ A(k) = x(i)
      BY <1>7, <3>1
    <3> QED
      BY <3>2 DEF k
  <2>5. ASSUME NEW j \in 1 .. Len(s)
        PROVE  N + 1 + j \in V /\ A(N + 1 + j) = faultStuckat(s[j])
    <3> DEFINE k == N + 1 + j
    <3>1. /\ ~ (k <= n) /\ ~ (k <= 2 * n) /\ ~ (k <= 2 * n + pis)
          /\ ~ (k <= 2 * n + pis + pos) /\ ~ (k <= N) /\ k - (N + 1) = j
      BY <1>7a, SMTT(40)
    <3>2. k \in V
      BY <1>7
    <3> HIDE DEF k
    <3>3. A(k) = faultStuckat(s[j])
      BY <3>1
    <3> QED
      BY <3>2, <3>3 DEF k
  <2> HIDE DEF A
  <2> QED
    BY <2>1, <2>2, <2>3, <2>4, <2>5
<1>9. \A k \in V : A(k) \in Bit
  <2> SUFFICES ASSUME NEW k \in V PROVE A(k) \in Bit
    OBVIOUS
  <2>1. \A i \in 1 .. n : v[cur[i]] \in Bit /\ w[cur[i]] \in Bit
    BY <1>3, <1>4
  <2>2. \A j \in 1 .. Len(s) : faultStuckat(s[j]) \in Bit
    BY ListedFault DEF Bit
  <2> HIDE DEF A
  <2>3. CASE k \in 1 .. N
    <3>1. CASE k <= n
      <4>1. k \in 1 .. n
        BY <1>1, <2>3, <3>1
      <4> QED
        BY <1>8, <2>1, <4>1
    <3>2. CASE n < k /\ k <= 2 * n
      <4>1. k - n \in 1 .. n /\ n + (k - n) = k
        BY <1>1, <2>3, <3>2
      <4> QED
        BY <1>8, <2>1, <4>1
    <3>3. CASE 2 * n < k /\ k <= 2 * n + pis
      <4>1. k - 2 * n \in 1 .. pis /\ 2 * n + (k - 2 * n) = k
        BY <1>1, <2>3, <3>3
      <4> QED
        BY <1>5, <1>8, <4>1
    <3>4. CASE 2 * n + pis < k /\ k <= 2 * n + pis + pos
      <4>1. k - (2 * n + pis) \in 1 .. pos /\ 2 * n + pis + (k - (2 * n + pis)) = k
        BY <1>1, <2>3, <3>4
      <4> QED
        BY <1>6, <1>8, <4>1
    <3>5. CASE 2 * n + pis + pos < k
      <4>1. k - (2 * n + pis + pos) \in 1 .. pos /\ 2 * n + pis + pos + (k - (2 * n + pis + pos)) = k
        BY <1>1, <2>3, <3>5
      <4> QED
        BY <1>6, <1>8, <4>1
    <3> QED
      BY <1>1, <2>3, <3>1, <3>2, <3>3, <3>4, <3>5
  <2>4. CASE \E j \in 1 .. Len(s) : k = N + 1 + j
    BY <1>8, <2>2, <2>4
  <2> QED
    BY <1>7, <2>3, <2>4
<1> HIDE DEF A
<1>10. a \in [V -> Bit] /\ \A k \in V : a[k] = A(k)
  BY <1>9
<1> HIDE DEF a
<1>11. /\ \A i \in 1 .. n : a[i] = v[cur[i]] /\ a[n + i] = w[cur[i]]
       /\ \A i \in 1 .. pis : a[2 * n + i] = p[cur[i]]
       /\ \A i \in 1 .. pos : a[2 * n + pis + i] = x(i) /\ a[2 * n + pis + pos + i] = x(i)
       /\ \A j \in 1 .. Len(s) : a[N + 1 + j] = faultStuckat(s[j])
  BY <1>8, <1>10
<1>12. Bits(net, cur, s, a)
  BY <1>10 DEF Bits, V
<1>13. Feeds(net, cur, a, p)
  BY <1>11 DEF Feeds, n, pis
<1>14. Carries(cur, 0, a, v) /\ Carries(cur, n, a, w)
  <2>1. \A h \in 1 .. n : 0 + h = h
    BY <1>1
  <2> QED
    BY <1>11, <2>1 DEF Carries, n
<1>15. Simulates(net, cur, s, a, p, v, w)
  <2>1. Stuck(net, cur, s, a)
    BY <1>11 DEF Stuck, N
  <2>2. \A i \in 1 .. n : a[i] = RefOut(net, {}, p, v, cur[i]) /\ a[n + i] = RefOut(net, F, p, w, cur[i])
    BY <1>3, <1>4, <1>11
  <2>3. \A i \in 1 .. pos : a[2 * n + pis + i] = 1 <=> a[n - pos + i] # a[2 * n - pos + i]
    <3> SUFFICES ASSUME NEW i \in 1 .. pos
                 PROVE  a[2 * n + pis + i] = 1 <=> a[n - pos + i] # a[2 * n - pos + i]
      OBVIOUS
    <3>1. n - pos + i \in 1 .. n /\ n + (n - pos + i) = 2 * n - pos + i
      BY <1>1
    <3>2. a[n - pos + i] = v[cur[n - pos + i]] /\ a[2 * n - pos + i] = w[cur[n - pos + i]]
      BY <1>11, <3>1
    <3> QED
      BY <1>6, <1>11, <3>2
  <2>4. \A i \in 1 .. pos : a[2 * n + pis + pos + i] = a[2 * n + pis + i]
    BY <1>11
  <2> QED
    BY <2>1, <2>2, <2>3, <2>4 DEF Simulates, F, n, pis, pos
<1>16. \A q \in 1 .. Len(M) : Satisfied(generateClause(M[q]), a)
  BY <1>12, <1>13, <1>14, <1>15, GatesSatisfied DEF n
<1>17. Asked(net, cur, a)
  <2>1. PICK i \in 1 .. pos : v[cur[n - pos + i]] # w[cur[n - pos + i]]
    BY DEF ToldApart, n, pos, v, w, F
  <2>2. a[2 * n + pis + pos + i] = 1
    BY <1>6, <1>11, <2>1
  <2> QED
    BY <2>2 DEF Asked, n, pis, pos
<1>18. IsModel(net, cur, s, M, a)
  BY <1>10, <1>16, <1>17 DEF IsModel, V
<1> QED
  BY <1>13, <1>18
-----------------------------------------------------------------------------
(***************************************************************************)
(* The gates of a call.                                                    *)
(***************************************************************************)
RelatedTo(net, s) == UNION {RelatedGates(net, faultGate(s[i])) : i \in 1 .. Len(s)}

Reached(net, s) == \A i \in 1 .. Len(s) : ReachedFromPI(net, faultGate(s[i]))

\* They hold what they read, and the gates of the faults.
LEMMA RelatedCut ==
  ASSUME NEW net, WellFormed(net), NEW s, FaultList(net, s)
  PROVE  /\ Cut(net, RelatedTo(net, s), InOrder(RelatedTo(net, s)))
         /\ \A i \in 1 .. Len(s) : faultGate(s[i]) \in RelatedTo(net, s)
<1> DEFINE R == RelatedTo(net, s)
<1>1. \A i \in 1 .. Len(s) : faultGate(s[i]) \in GateID
  BY ListedFault
<1>2. \A g \in R : g \in GateID /\ Fanins(net, g) \subseteq R
  <2> SUFFICES ASSUME NEW g \in R PROVE g \in GateID /\ Fanins(net, g) \subseteq R
    OBVIOUS
  <2>1. PICK i \in 1 .. Len(s) : g \in RelatedGates(net, faultGate(s[i]))
    BY DEF RelatedTo
  <2>2. g \in GateID /\ Fanins(net, g) \subseteq RelatedGates(net, faultGate(s[i]))
    BY <1>1, <2>1, RelatedGatesClosed
  <2> QED
    BY <2>2 DEF RelatedTo
<1>3. \A i \in 1 .. Len(s) : faultGate(s[i]) \in R
  <2> SUFFICES ASSUME NEW i \in 1 .. Len(s) PROVE faultGate(s[i]) \in R
    OBVIOUS
  <2>1. faultGate(s[i]) \in RelatedGates(net, faultGate(s[i]))
    BY <1>1, RelatedToItself
  <2> QED
    BY <2>1 DEF RelatedTo
<1> HIDE DEF R
<1>4. Closed(net, R)
  BY <1>2 DEF Closed
<1>5. Ordered(R, InOrder(R))
  <2>1. R \in SUBSET GateID
    BY <1>4 DEF Closed
  <2> QED
    BY <2>1, InOrderOrdered
<1> QED
  BY <1>3, <1>4, <1>5 DEF Cut, R

\* The outputs that are not related to the faults carry the same with them and
\* without them.
LEMMA OutputsTold ==
  ASSUME NEW net, NEW s, FaultList(net, s), Reached(net, s),
         NEW cur, Cut(net, RelatedTo(net, s), cur), NEW p \in [PIs -> Bit]
  PROVE  ToldApart(net, cur, s, p) <=> RefDetects(net, Faults(s), p)
<1> DEFINE n == Len(cur)
           pos == Outputs(net, cur)
           R == RelatedTo(net, s)
           F == Faults(s)
           v == RefValue(net, {}, p)
           w == RefValue(net, F, p)
<1>1. /\ n \in Nat /\ pos \in Nat /\ Inputs(net, cur) \in Nat /\ Inputs(net, cur) + pos <= n
      /\ \A i \in 1 .. n : i > n - pos <=> net[cur[i]].gateType = "PO"
  BY Extents
<1>2. R \in SUBSET GateID /\ Ordered(R, cur) /\ WellFormed(net)
  BY DEF Cut, Closed
<1>3. (\A i \in 1 .. n : cur[i] \in GateID) /\ \A g \in R : \E i \in 1 .. n : g = cur[i]
  BY <1>2, IndexFound
<1>4. \A g \in GateID : g \in POs <=> net[g].gateType = "PO"
  BY <1>2 DEF WellFormed
<1>5. POs \subseteq GateID
  BY SizeAssumption DEF POs, GateID, Size
<1> HIDE DEF n, pos, R, v, w
<1>6. \A g \in POs : v[g] # w[g] => g \in R
  <2> SUFFICES ASSUME NEW g \in POs, g \notin R PROVE v[g] = w[g]
    OBVIOUS
  <2>1. \A f \in F : /\ faultGate(f) \in GateID /\ ReachedFromPI(net, faultGate(f))
                     /\ g \notin RelatedGates(net, faultGate(f))
    <3> SUFFICES ASSUME NEW i \in 1 .. Len(s)
                 PROVE  /\ faultGate(s[i]) \in GateID /\ ReachedFromPI(net, faultGate(s[i]))
                        /\ g \notin RelatedGates(net, faultGate(s[i]))
      BY DEF Faults
    <3> QED
      BY ListedFault DEF Reached, RelatedTo, R
  <2> HIDE DEF F
  <2> QED
    BY <1>2, <1>5, <2>1, UnrelatedUnaffected DEF v, w
<1>7. ASSUME NEW g \in POs, v[g] # w[g]
      PROVE  \E i \in 1 .. pos : v[cur[n - pos + i]] # w[cur[n - pos + i]]
  <2>1. PICK k \in 1 .. n : g = cur[k]
    BY <1>3, <1>6, <1>7
  <2>2. k > n - pos
    BY <1>1, <1>4, <1>5, <2>1
  <2>3. k - (n - pos) \in 1 .. pos /\ n - pos + (k - (n - pos)) = k
    BY <1>1, <2>2
  <2> QED
    BY <1>7, <2>1, <2>3
<1>8. ASSUME NEW i \in 1 .. pos, v[cur[n - pos + i]] # w[cur[n - pos + i]]
      PROVE  \E g \in POs : v[g] # w[g]
  <2>1. n - pos + i \in 1 .. n /\ n - pos + i > n - pos
    BY <1>1
  <2>2. cur[n - pos + i] \in POs
    BY <1>1, <1>3, <1>4, <2>1
  <2> QED
    BY <1>8, <2>2
<1>9. ToldApart(net, cur, s, p) <=> \E i \in 1 .. pos : v[cur[n - pos + i]] # w[cur[n - pos + i]]
  BY DEF ToldApart, n, pos, v, w, F
<1>10. RefDetects(net, F, p) <=> \E g \in POs : v[g] # w[g]
  BY DEF RefDetects, v, w
<1> QED
  BY <1>7, <1>8, <1>9, <1>10 DEF F

\* Every model is fed by a pattern.
LEMMA FedBySome ==
  ASSUME NEW net, NEW R, NEW cur, Cut(net, R, cur), NEW s, Len(s) \in Nat, NEW a, Bits(net, cur, s, a)
  PROVE  \E p \in [PIs -> Bit] : Feeds(net, cur, a, p)
<1> DEFINE n == Len(cur)
           pis == Inputs(net, cur)
           place(g) == 2 * n + (oriCirIDToCur(cur, g) + 1)
           p == [g \in PIs |-> IF g \in R THEN a[place(g)] ELSE 0]
<1>1. /\ n \in Nat /\ pis \in Nat /\ Outputs(net, cur) \in Nat /\ pis + Outputs(net, cur) <= n
      /\ Extent(net, cur) = 2 * n + pis + 2 * Outputs(net, cur)
      /\ \A i \in 1 .. n : i <= pis <=> net[cur[i]].gateType = "PI"
  BY Extents
<1>2. R \in SUBSET GateID /\ Ordered(R, cur) /\ WellFormed(net)
  BY DEF Cut, Closed
<1>3. /\ \A i \in 1 .. n : cur[i] \in R /\ cur[i] \in GateID /\ oriCirIDToCur(cur, cur[i]) = i - 1
      /\ \A g \in R : \E i \in 1 .. n : g = cur[i]
  BY <1>2, IndexFound
<1>4. \A g \in GateID : g \in PIs <=> net[g].gateType = "PI"
  BY <1>2 DEF WellFormed
<1>5. \A x \in 1 .. Extent(net, cur) : a[x] \in Bit
  BY CarriedPlaces
<1>6. ASSUME NEW i \in 1 .. pis
      PROVE  i \in 1 .. n /\ cur[i] \in PIs /\ place(cur[i]) = 2 * n + i /\ a[2 * n + i] \in Bit
  <2>1. i \in 1 .. n /\ i <= pis /\ 2 * n + i \in 1 .. Extent(net, cur) /\ (i - 1) + 1 = i
    BY <1>1
  <2> QED
    BY <1>1, <1>3, <1>4, <1>5, <2>1
<1>7. ASSUME NEW g \in PIs, g \in R
      PROVE  a[place(g)] \in Bit
  <2>1. PICK i \in 1 .. n : g = cur[i]
    BY <1>3, <1>7
  <2>2. i <= pis
    BY <1>1, <1>3, <1>4, <2>1
  <2>3. i \in 1 .. pis
    BY <1>1, <2>2
  <2> QED
    BY <1>6, <2>1, <2>3
<1> HIDE DEF place
<1>8. p \in [PIs -> Bit]
  BY <1>7 DEF Bit
<1>9. \A i \in 1 .. pis : p[cur[i]] = a[2 * n + i]
  BY <1>3, <1>6
<1>10. Feeds(net, cur, a, p)
  BY <1>9 DEF Feeds
<1> HIDE DEF p
<1> QED
  BY <1>8, <1>10
-----------------------------------------------------------------------------
\* A call whose faults are all reached: its models are fed by patterns that
\* detect the faults, and every such pattern feeds a model.
LEMMA CallModels ==
  ASSUME NEW net, WellFormed(net), NEW s, FaultList(net, s), Reached(net, s),
         NEW cur, cur = InOrder(RelatedTo(net, s)), NEW M, IsMiter(M, net, cur, s, Len(s))
  PROVE  LET models == Models(CNFOf(M), Order(CNFOf(M)))
         IN /\ \A a \in models : \E p \in Patterns : Feeds(net, cur, a, p)
            /\ \A a \in models : \A p \in Patterns : Feeds(net, cur, a, p) =>
                 Simulated(net, cur, s, a, p) /\ RefDetects(net, Faults(s), p)
            /\ \A p \in Patterns : RefDetects(net, Faults(s), p) => \E a \in models : Feeds(net, cur, a, p)
<1> DEFINE models == Models(CNFOf(M), Order(CNFOf(M)))
           R == RelatedTo(net, s)
<1>1. Cut(net, R, cur)
  BY RelatedCut
<1>2. \A a : a \in models <=> IsModel(net, cur, s, M, a)
  BY <1>1, MiterModels
<1> HIDE DEF models
<1>3. ASSUME NEW a \in models
      PROVE  \E p \in Patterns : Feeds(net, cur, a, p)
  <2>1. Bits(net, cur, s, a)
    BY <1>2 DEF IsModel, Bits
  <2>2. Len(s) \in Nat
    BY DEF FaultList
  <2> QED
    BY <1>1, <2>1, <2>2, FedBySome DEF Patterns
<1>4. ASSUME NEW a \in models, NEW p \in Patterns, Feeds(net, cur, a, p)
      PROVE  Simulated(net, cur, s, a, p) /\ RefDetects(net, Faults(s), p)
  <2>1. Simulated(net, cur, s, a, p) /\ ToldApart(net, cur, s, p)
    BY <1>1, <1>2, <1>4, ModelSimulates DEF Patterns
  <2> QED
    BY <1>1, <2>1, OutputsTold DEF Patterns
<1>5. ASSUME NEW p \in Patterns, RefDetects(net, Faults(s), p)
      PROVE  \E a \in models : Feeds(net, cur, a, p)
  <2>1. ToldApart(net, cur, s, p)
    BY <1>1, <1>5, OutputsTold DEF Patterns
  <2> QED
    BY <1>1, <1>2, <2>1, SimulationIsModel DEF Patterns
<1> QED
  BY <1>3, <1>4, <1>5 DEF models

(***************************************************************************)
(* The calls.                                                              *)
(***************************************************************************)
\* What a call has built when it is at a step.
CallInv ==
  /\ theCircuit \in Netlists
  /\ pc \in {"idle", "related", "miter", "inject", "solve", "complete"}
  /\ pc = "idle" => newFaults = NoFaults
  /\ pc # "idle" => newFaults \in FaultSets(theCircuit)
  /\ pc \in {"miter", "inject", "solve", "complete"} => curCircuit = InOrder(RelatedTo(theCircuit, newFaults))
  /\ pc \in {"inject", "solve", "complete"} =>
       /\ injected \in 0 .. Len(newFaults)
       /\ IsMiter(oriAndFauCir, theCircuit, curCircuit, newFaults, injected)
  /\ pc \in {"solve", "complete"} => injected = Len(newFaults) /\ CNFOriAndFauCir = CNFOf(oriAndFauCir)
  /\ pc = "complete" =>
       \E a \in CNFModels :
         testVectorTmp = [k \in 1 .. CountOf(theCircuit, curCircuit, "PI") |-> a[FirstInput + k]]

\* The faults a call may be asked about.
LEMMA CallFaults ==
  ASSUME NEW net \in Netlists, NEW s \in FaultSets(net)
  PROVE  WellFormed(net) /\ FaultList(net, s) /\ s # NoFaults
BY NetlistsAssumption, FaultSetsAssumption DEF FaultList, NoFaults

\* Every step of a call does its part of the work.
THEOREM Invariant == Spec => []CallInv
<1>1. Init => CallInv
  BY DEF Init, CallInv
<1>2. CallInv /\ [Next]_vars => CallInv'
  <2> SUFFICES ASSUME CallInv, [Next]_vars PROVE CallInv'
    OBVIOUS
  <2>1. CASE generateTestBySAT_1
    BY <2>1 DEF generateTestBySAT_1, CallInv, callVars
  <2>2. CASE getAllRelatedGates
    BY <2>2 DEF getAllRelatedGates, CallInv, RelatedTo
  <2>3. CASE generateOriAndFau_1
    <3>1. /\ pc' = "inject" /\ injected' = 0 /\ UNCHANGED <<theCircuit, newFaults, curCircuit>>
          /\ oriAndFauCir' = generateOriAndFau(theCircuit, curCircuit)
      BY <2>3 DEF generateOriAndFau_1
    <3>2. theCircuit \in Netlists /\ newFaults \in FaultSets(theCircuit)
          /\ curCircuit = InOrder(RelatedTo(theCircuit, newFaults))
      BY <2>3 DEF generateOriAndFau_1, CallInv
    <3>3. WellFormed(theCircuit) /\ FaultList(theCircuit, newFaults)
      BY <3>2, CallFaults
    <3>4. Cut(theCircuit, RelatedTo(theCircuit, newFaults), curCircuit)
      BY <3>2, <3>3, RelatedCut
    <3>5. IsMiter(oriAndFauCir', theCircuit, curCircuit, newFaults, 0)
      BY <3>1, <3>4, MiterBuilt
    <3>6. 0 \in 0 .. Len(newFaults)
      BY <3>3 DEF FaultList
    <3> QED
      BY <3>1, <3>2, <3>5, <3>6 DEF CallInv
  <2>4. CASE injectFaultsInOriAndFau_1
    <3> DEFINE f == newFaults[injected + 1]
               at == Len(curCircuit) + oriCirIDToCur(curCircuit, faultGate(f)) + 1
               cons == MiterGate(ConstantGate(faultStuckat(f)), preSize(theCircuit, curCircuit) + injected)
    <3>1. /\ pc = "inject" /\ injected < Len(newFaults) /\ injected' = injected + 1
          /\ UNCHANGED <<theCircuit, newFaults, pc, curCircuit>>
          /\ oriAndFauCir' = IF Skipped(oriAndFauCir[at], faultPort(f)) THEN oriAndFauCir
                             ELSE Append([oriAndFauCir EXCEPT ![at] = Faulted(@, faultPort(f), cons.gateID)], cons)
      BY <2>4 DEF injectFaultsInOriAndFau_1, stuckatID
    <3>2. /\ theCircuit \in Netlists /\ newFaults \in FaultSets(theCircuit)
          /\ curCircuit = InOrder(RelatedTo(theCircuit, newFaults)) /\ injected \in 0 .. Len(newFaults)
          /\ IsMiter(oriAndFauCir, theCircuit, curCircuit, newFaults, injected)
      BY <3>1 DEF CallInv
    <3>3. WellFormed(theCircuit) /\ FaultList(theCircuit, newFaults)
      BY <3>2, CallFaults
    <3>4. /\ Cut(theCircuit, RelatedTo(theCircuit, newFaults), curCircuit)
          /\ \A i \in 1 .. Len(newFaults) : faultGate(newFaults[i]) \in RelatedTo(theCircuit, newFaults)
      BY <3>2, <3>3, RelatedCut
    <3>5. /\ injected \in 0 .. Len(newFaults) - 1 /\ injected + 1 \in 1 .. Len(newFaults)
          /\ injected + 1 \in 0 .. Len(newFaults)
      <4>1. Len(newFaults) \in Nat
        BY <3>3 DEF FaultList
      <4> QED
        BY <3>1, <3>2, <4>1
    <3>6. IsMiter(oriAndFauCir', theCircuit, curCircuit, newFaults, injected + 1)
      BY <3>1, <3>2, <3>3, <3>4, <3>5, FaultInjected
    <3> HIDE DEF f, at, cons
    <3> QED
      BY <3>1, <3>2, <3>5, <3>6 DEF CallInv
  <2>5. CASE generateCNF_1
    <3>1. CNFOriAndFauCir' = CNFOf(oriAndFauCir)
      BY <2>5 DEF generateCNF_1, CNFOf
    <3>2. /\ pc = "inject" /\ pc' = "solve" /\ injected = Len(newFaults)
          /\ UNCHANGED <<theCircuit, newFaults, curCircuit, oriAndFauCir, injected>>
      BY <2>5 DEF generateCNF_1
    <3> QED
      BY <3>1, <3>2 DEF CallInv
  <2>6. CASE SATCircuit
    <3>1. /\ pc = "solve" /\ pc' = "complete"
          /\ UNCHANGED <<theCircuit, newFaults, curCircuit, oriAndFauCir, injected, CNFOriAndFauCir>>
          /\ \E a \in CNFModels :
               testVectorTmp' = [k \in 1 .. CountOf(theCircuit, curCircuit, "PI") |-> a[FirstInput + k]]
      BY <2>6 DEF SATCircuit
    <3>2. CNFModels' = CNFModels /\ FirstInput' = FirstInput
      BY <3>1 DEF CNFModels, FirstInput
    <3> QED
      BY <3>1, <3>2 DEF CallInv
  <2>7. CASE SATCircuitUnsat
    BY <2>7 DEF SATCircuitUnsat, Return, CallInv
  <2>8. CASE CompleteVector
    BY <2>8 DEF CompleteVector, Return, CallInv
  <2>9. CASE UNCHANGED vars
    <3>1. CNFModels' = CNFModels /\ FirstInput' = FirstInput
      BY <2>9 DEF CNFModels, FirstInput, vars, callVars
    <3> QED
      BY <2>9, <3>1 DEF CallInv, vars, callVars
  <2> QED
    BY <2>1, <2>2, <2>3, <2>4, <2>5, <2>6, <2>7, <2>8, <2>9 DEF Next
<1> QED
  BY <1>1, <1>2, PTL DEF Spec
-----------------------------------------------------------------------------
(***************************************************************************)
(* What the calls answer.  A primary input must reach every fault of a     *)
(* call: for other faults findInPropagationPath leaves the gates between   *)
(* the fault and the outputs out of gateToRelatedGates.                    *)
(***************************************************************************)
FaultsReached == \A net \in Netlists : \A s \in FaultSets(net) : Reached(net, s)

\* What a call knows of its models.
LEMMA SolvedModels ==
  ASSUME FaultsReached, CallInv, pc \in {"solve", "complete"}
  PROVE  /\ \A a \in CNFModels : \E p \in Patterns : Feeds(theCircuit, curCircuit, a, p)
         /\ \A a \in CNFModels : \A p \in Patterns : Feeds(theCircuit, curCircuit, a, p) =>
              /\ Simulated(theCircuit, curCircuit, newFaults, a, p)
              /\ RefDetects(theCircuit, Faults(newFaults), p)
         /\ \A p \in Patterns : RefDetects(theCircuit, Faults(newFaults), p) =>
              \E a \in CNFModels : Feeds(theCircuit, curCircuit, a, p)
<1>1. /\ theCircuit \in Netlists /\ newFaults \in FaultSets(theCircuit)
      /\ curCircuit = InOrder(RelatedTo(theCircuit, newFaults))
      /\ IsMiter(oriAndFauCir, theCircuit, curCircuit, newFaults, Len(newFaults))
      /\ CNFOriAndFauCir = CNFOf(oriAndFauCir)
  BY DEF CallInv
<1>2. WellFormed(theCircuit) /\ FaultList(theCircuit, newFaults) /\ Reached(theCircuit, newFaults)
  BY <1>1, CallFaults DEF FaultsReached
<1>3. CNFModels = Models(CNFOf(oriAndFauCir), Order(CNFOf(oriAndFauCir)))
  BY <1>1 DEF CNFModels
<1> QED
  BY <1>1, <1>2, <1>3, CallModels

\* The models of the clauses are the simulations of the related gates, without
\* and with the faults of the call, under the patterns that detect them.
THEOREM ModelsExactly ==
  ASSUME FaultsReached
  PROVE  Spec => []ModelsAreSimulations
<1>1. CallInv => ModelsAreSimulations
  <2> SUFFICES ASSUME CallInv, pc = "solve" PROVE ModelsAreSimulations
    BY DEF ModelsAreSimulations
  <2> DEFINE n == Len(curCircuit)
             F == Faults(newFaults)
             good(p) == RefValue(theCircuit, {}, p)
             bad(p) == RefValue(theCircuit, F, p)
             values(a) == [i \in 1 .. 2 * n |-> a[i]]
             simulation(p) == [i \in 1 .. 2 * n |-> IF i <= n THEN good(p)[curCircuit[i]]
                                                    ELSE bad(p)[curCircuit[i - n]]]
             Told == {p \in Patterns : RefDetects(theCircuit, F, p)}
             Fed(a, p) == Feeds(theCircuit, curCircuit, a, p)
  <2>1. n \in Nat
    <3>1. theCircuit \in Netlists /\ newFaults \in FaultSets(theCircuit)
          /\ curCircuit = InOrder(RelatedTo(theCircuit, newFaults))
      BY DEF CallInv
    <3>2. WellFormed(theCircuit) /\ FaultList(theCircuit, newFaults)
      BY <3>1, CallFaults
    <3>3. Cut(theCircuit, RelatedTo(theCircuit, newFaults), curCircuit)
      BY <3>1, <3>2, RelatedCut
    <3> QED
      BY <3>3, Extents
  <2>2. ASSUME NEW a \in CNFModels, NEW p \in Patterns, Fed(a, p)
        PROVE  values(a) = simulation(p) /\ p \in Told
    <3>1. Simulated(theCircuit, curCircuit, newFaults, a, p) /\ p \in Told
      BY <2>2, SolvedModels
    <3>2. \A i \in 1 .. n : a[i] = good(p)[curCircuit[i]] /\ a[n + i] = bad(p)[curCircuit[i]]
      BY <3>1 DEF Simulated
    <3> HIDE DEF good, bad, n
    <3>3. ASSUME NEW i \in 1 .. 2 * n
          PROVE  a[i] = IF i <= n THEN good(p)[curCircuit[i]] ELSE bad(p)[curCircuit[i - n]]
      <4>1. CASE i <= n
        <5>1. i \in 1 .. n
          BY <2>1, <4>1
        <5> QED
          BY <3>2, <4>1, <5>1
      <4>2. CASE ~ (i <= n)
        <5>1. i - n \in 1 .. n /\ n + (i - n) = i
          BY <2>1, <4>2
        <5> QED
          BY <3>2, <4>2, <5>1
      <4> QED
        BY <4>1, <4>2
    <3> QED
      BY <3>1, <3>3
  <2>3. \A a \in CNFModels : \E p \in Patterns : Fed(a, p)
    BY SolvedModels
  <2>4. \A p \in Told : \E a \in CNFModels : Fed(a, p)
    BY SolvedModels
  <2>5. ModelsAreSimulations <=> {values(a) : a \in CNFModels} = {simulation(p) : p \in Told}
    BY DEF ModelsAreSimulations
  <2> HIDE DEF values, simulation, Told, Fed
  <2>6. \A a \in CNFModels : \E p \in Told : values(a) = simulation(p)
    BY <2>2, <2>3
  <2>7. \A p \in Told : \E a \in CNFModels : values(a) = simulation(p)
    <3> SUFFICES ASSUME NEW p \in Told PROVE \E a \in CNFModels : values(a) = simulation(p)
      OBVIOUS
    <3>1. p \in Patterns
      BY DEF Told
    <3>2. PICK a \in CNFModels : Fed(a, p)
      BY <2>4
    <3> QED
      BY <2>2, <3>1, <3>2
  <2> QED
    BY <2>5, <2>6, <2>7
<1> QED
  BY <1>1, Invariant, PTL

\* The completed vector feeds the model it comes from.
LEMMA VectorFeeds ==
  ASSUME CallInv, pc = "complete", NEW v \in Patterns, \A pi \in PIs : v[pi] \in getCompletedTestVector(pi)
  PROVE  \E a \in CNFModels : Feeds(theCircuit, curCircuit, a, v)
<1> DEFINE n == Len(curCircuit)
           pis == Inputs(theCircuit, curCircuit)
           R == RelatedTo(theCircuit, newFaults)
<1>1. PICK a \in CNFModels : testVectorTmp = [k \in 1 .. pis |-> a[FirstInput + k]]
  BY DEF CallInv, Inputs
<1>2. theCircuit \in Netlists /\ newFaults \in FaultSets(theCircuit) /\ curCircuit = InOrder(R)
  BY DEF CallInv
<1>3. WellFormed(theCircuit) /\ FaultList(theCircuit, newFaults)
  BY <1>2, CallFaults
<1>4. Cut(theCircuit, R, curCircuit)
  BY <1>2, <1>3, RelatedCut
<1>5. /\ n \in Nat /\ pis \in Nat /\ Outputs(theCircuit, curCircuit) \in Nat
      /\ pis + Outputs(theCircuit, curCircuit) <= n
      /\ \A i \in 1 .. n : i <= pis <=> theCircuit[curCircuit[i]].gateType = "PI"
  BY <1>4, Extents
<1>6. \A i \in 1 .. n : curCircuit[i] \in GateID /\ oriCirIDToCur(curCircuit, curCircuit[i]) = i - 1
  <2>1. R \in SUBSET GateID /\ Ordered(R, curCircuit)
    BY <1>4 DEF Cut, Closed
  <2> QED
    BY <2>1, IndexFound
<1> HIDE DEF pis, n
<1>7. Len(testVectorTmp) = pis /\ \A k \in 1 .. pis : testVectorTmp[k] = a[FirstInput + k]
  BY <1>1, <1>5
<1>8. ASSUME NEW h \in 1 .. pis
      PROVE  v[curCircuit[h]] = a[2 * n + h]
  <2>1. h \in 1 .. n /\ h <= pis /\ (h - 1) + 1 = h
    BY <1>5
  <2>2. curCircuit[h] \in PIs
    BY <1>3, <1>5, <1>6, <2>1 DEF WellFormed
  <2>3. getCompletedTestVector(curCircuit[h]) = {testVectorTmp[oriCirIDToCur(curCircuit, curCircuit[h]) + 1]}
    BY <1>7 DEF getCompletedTestVector
  <2>4. oriCirIDToCur(curCircuit, curCircuit[h]) + 1 = h
    BY <1>6, <2>1
  <2>5. v[curCircuit[h]] = testVectorTmp[h]
    BY <2>2, <2>3, <2>4
  <2>6. FirstInput + h = 2 * n + h
    BY DEF FirstInput, n
  <2> QED
    BY <1>7, <2>5, <2>6
<1>9. Feeds(theCircuit, curCircuit, a, v)
  BY <1>8 DEF Feeds, pis, n
<1> QED
  BY <1>9

\* A call answers as the flow expects: with a test for its faults, or that
\* there is none.
THEOREM AnswersRight ==
  ASSUME FaultsReached
  PROVE  Spec => ImplementsTestGeneration
<1>1. Init => T!Init
  BY DEF Init, T!Init, NoReply, T!NoReply
<1>2. CallInv /\ [Next]_vars => [T!Next]_(T!vars)
  <2> SUFFICES ASSUME CallInv, [Next]_vars PROVE T!Next \/ UNCHANGED T!vars
    OBVIOUS
  <2>1. CASE generateTestBySAT_1
    <3>1. newFaults = NoFaults /\ newFaults' \in FaultSets(theCircuit) /\ reply' = T!NoReply /\ UNCHANGED theCircuit
      BY <2>1 DEF generateTestBySAT_1, CallInv, NoReply, T!NoReply
    <3> QED
      BY <3>1 DEF T!Next, T!Ask
  <2>2. CASE getAllRelatedGates
    BY <2>2 DEF getAllRelatedGates, T!vars
  <2>3. CASE generateOriAndFau_1
    BY <2>3 DEF generateOriAndFau_1, T!vars
  <2>4. CASE injectFaultsInOriAndFau_1
    BY <2>4 DEF injectFaultsInOriAndFau_1, T!vars
  <2>5. CASE generateCNF_1
    BY <2>5 DEF generateCNF_1, T!vars
  <2>6. CASE SATCircuit
    BY <2>6 DEF SATCircuit, T!vars
  <2>7. CASE SATCircuitUnsat
    <3>1. /\ pc = "solve" /\ CNFModels = {} /\ reply' = T!Redundant /\ newFaults' = NoFaults /\ UNCHANGED theCircuit
      BY <2>7 DEF SATCircuitUnsat, Return, Redundant, T!Redundant
    <3>2. newFaults # NoFaults
      BY <3>1, CallFaults DEF CallInv
    <3>3. \A v \in Patterns : ~ RefDetects(theCircuit, Faults(newFaults), v)
      BY <3>1, SolvedModels
    <3> QED
      BY <3>1, <3>2, <3>3 DEF T!Next, T!Answer, DetectsAll
  <2>8. CASE CompleteVector
    <3>1. PICK v \in Patterns : (\A pi \in PIs : v[pi] \in getCompletedTestVector(pi)) /\ Return(Test(v))
      BY <2>8 DEF CompleteVector
    <3>2. pc = "complete"
      BY <2>8 DEF CompleteVector
    <3>3. newFaults # NoFaults
      BY <3>2, CallFaults DEF CallInv
    <3>4. RefDetects(theCircuit, Faults(newFaults), v)
      BY <3>1, <3>2, VectorFeeds, SolvedModels
    <3>5. reply' = T!Test(v) /\ newFaults' = NoFaults /\ UNCHANGED theCircuit
      BY <3>1 DEF Return, Test, T!Test
    <3> QED
      BY <3>3, <3>4, <3>5 DEF T!Next, T!Answer, DetectsAll
  <2>9. CASE UNCHANGED vars
    BY <2>9 DEF vars, T!vars
  <2> QED
    BY <2>1, <2>2, <2>3, <2>4, <2>5, <2>6, <2>7, <2>8, <2>9 DEF Next
<1> QED
  BY <1>1, <1>2, Invariant, PTL DEF Spec, ImplementsTestGeneration, T!Spec
-----------------------------------------------------------------------------
(***************************************************************************)
(* generateTestBySAT, module IncrementalCNF: C!op and op are the same      *)
(* operators.                                                              *)
(***************************************************************************)
\* Gates and faults.
LEMMA SameGates ==
  /\ C!Bit = Bit /\ C!Size = Size /\ C!PIs = PIs /\ C!GateID = GateID /\ C!NoGate = NoGate
  /\ \A f : C!faultGate(f) = faultGate(f) /\ C!faultPort(f) = faultPort(f) /\ C!faultStuckat(f) = faultStuckat(f)
  /\ \A g, id : C!MiterGate(g, id) = MiterGate(g, id)
  /\ \A v : C!ConstantGate(v) = ConstantGate(v)
  /\ \A g, port : C!Skipped(g, port) <=> Skipped(g, port)
  /\ \A g, port, cons : C!Faulted(g, port, cons) = Faulted(g, port, cons)
  BY DEF C!Bit, Bit, C!Size, Size, C!PIs, PIs, C!GateID, GateID, C!NoGate, NoGate,
         C!faultGate, faultGate, C!faultPort, faultPort, C!faultStuckat, faultStuckat,
         C!MiterGate, MiterGate, C!ConstantGate, ConstantGate, C!PIGate, PIGate, C!Skipped, Skipped,
         C!Faulted, Faulted, C!changeOutputStuckat, changeOutputStuckat

\* Clauses.
LEMMA SameClauses ==
  /\ \A g : C!generateClause(g) = generateClause(g)
  /\ \A M : C!outputClause(M) = outputClause(M)
  BY DEF C!generateClause, generateClause, C!outputClause, outputClause, C!Literal, Literal, C!Var, Var

\* generateOriAndFau.
LEMMA SameMiter ==
  /\ \A net, cur : C!generateOriAndFau(net, cur) = generateOriAndFau(net, cur)
  /\ \A net, cur : C!preSize(net, cur) = preSize(net, cur)
  BY DEF C!generateOriAndFau, generateOriAndFau, C!copyCircuit_1, copyCircuit_1,
         C!oriCirIDToCur, oriCirIDToCur, C!CountOf, CountOf, C!MiterGate, MiterGate,
         C!AigGate, AigGate, C!NoGate, NoGate, C!PIGate, PIGate, C!POGate, POGate, C!preSize, preSize,
         C!Cardinality, Cardinality

\* Circuits and fault lists.
LEMMA SameCircuits ==
  /\ \A net : C!WellFormed(net) <=> WellFormed(net)
  /\ \A net : C!allSSAFList(net) = allSSAFList(net)
  BY DEF C!WellFormed, WellFormed, C!GateID, GateID, C!Size, Size, C!PIs, PIs, C!POs, POs,
         C!Gate, Gate, C!Bit, Bit, C!Type, Type, C!NoGate, NoGate, C!Fanins, Fanins,
         C!allSSAFList, allSSAFList, C!FaultID, FaultID, C!BinaryTypes, BinaryTypes

\* Models.
LEMMA SameModels ==
  \A cnf : C!Models(cnf, C!Order(cnf)) = Models(cnf, Order(cnf))
  BY SMTT(60) DEF C!Models, Models, C!Order, Order, C!Enumerated, Enumerated, C!VarOf, VarOf, C!Holds, Holds,
         C!Bit, Bit, C!Cardinality, Cardinality

\* The reference semantics.
LEMMA SameReference ==
  /\ \A net, F, p : C!RefDetects(net, F, p) <=> RefDetects(net, F, p)
  /\ \A s : C!Faults(s) = Faults(s)
  BY DEF C!RefDetects, RefDetects, C!RefValue, RefValue, C!RefOut, RefOut, C!Line, Line,
         C!StuckValues, StuckValues, C!Held, Held, C!getOutValue, getOutValue, C!POs, POs,
         C!GateID, GateID, C!Size, Size, C!faultGate, faultGate, C!faultPort, faultPort,
         C!faultStuckat, faultStuckat, C!Faults, Faults

(***************************************************************************)
(* The miter over the whole circuit.                                       *)
(***************************************************************************)
Whole == [i \in 1 .. Size |-> i - 1]

\* The whole circuit is a cut of it; a gate stands at its position.
LEMMA WholeCut ==
  ASSUME NEW net, WellFormed(net)
  PROVE  /\ Cut(net, GateID, Whole) /\ Len(Whole) = Size
         /\ \A g \in GateID : g + 1 \in 1 .. Size /\ Whole[g + 1] = g /\ oriCirIDToCur(Whole, g) = g
<1>1. Size \in Nat /\ \A g : g \in GateID <=> g \in Nat /\ g <= Size - 1
  BY SizeNat DEF GateID
<1>2. \A i \in 1 .. Size : i - 1 \in GateID
  BY <1>1
<1>3. Whole \in Seq(GateID) /\ Len(Whole) = Size
  <2>1. Whole \in [1 .. Size -> GateID]
    BY <1>2 DEF Whole
  <2> QED
    BY <1>1, <2>1, Listed
<1>4. \A g \in GateID : g + 1 \in 1 .. Size /\ Whole[g + 1] = g
  BY <1>1 DEF Whole
<1>5. Ordered(GateID, Whole)
  <2>1. \A i, j \in 1 .. Size : i < j => Whole[i] < Whole[j]
    BY <1>1 DEF Whole
  <2> QED
    BY <1>3, <1>4, <2>1 DEF Ordered
<1>6. Closed(net, GateID)
  BY DEF Closed, WellFormed
<1>7. ASSUME NEW g \in GateID PROVE oriCirIDToCur(Whole, g) = g
  <2>1. oriCirIDToCur(Whole, Whole[g + 1]) = (g + 1) - 1
    BY <1>3, <1>4, <1>5, IndexFound, SMTT(60)
  <2>2. (g + 1) - 1 = g
    BY <1>1
  <2> QED
    BY <1>4, <2>1, <2>2
<1> QED
  BY <1>3, <1>4, <1>5, <1>6, <1>7 DEF Cut

\* The new inputs feed the inputs, and every output is told apart.
LEMMA WholeEnds ==
  ASSUME NEW net, WellFormed(net)
  PROVE  /\ \A a, p : Feeds(net, Whole, a, p) <=> \A i \in PIs : p[i] = a[2 * Size + i + 1]
         /\ \A s, p : ToldApart(net, Whole, s, p) <=> RefDetects(net, Faults(s), p)
<1> DEFINE pis == Inputs(net, Whole)
           pos == Outputs(net, Whole)
<1>1. /\ Cut(net, GateID, Whole) /\ Len(Whole) = Size
      /\ \A g \in GateID : g + 1 \in 1 .. Size /\ Whole[g + 1] = g
  BY WholeCut
<1>2. /\ Size \in Nat /\ pis \in Nat /\ pos \in Nat /\ pis + pos <= Size
      /\ \A i \in 1 .. Size : /\ i <= pis <=> net[Whole[i]].gateType = "PI"
                              /\ i > Size - pos <=> net[Whole[i]].gateType = "PO"
  <2>1. /\ Len(Whole) \in Nat /\ pis \in Nat /\ pos \in Nat /\ pis + pos <= Len(Whole)
        /\ \A i \in 1 .. Len(Whole) : /\ i <= pis <=> net[Whole[i]].gateType = "PI"
                                      /\ i > Len(Whole) - pos <=> net[Whole[i]].gateType = "PO"
    BY <1>1, Extents
  <2> HIDE DEF pis, pos
  <2> QED
    BY <1>1, <2>1
<1>3. \A g : g \in GateID <=> g \in Nat /\ g <= Size - 1
  BY SizeNat DEF GateID
<1>4. \A i \in 1 .. Size : i - 1 \in GateID /\ Whole[i] = i - 1
  BY <1>2, <1>3 DEF Whole
<1>5. \A g \in GateID : /\ g \in PIs <=> net[g].gateType = "PI"
                        /\ g \in POs <=> net[g].gateType = "PO"
  BY DEF WellFormed
<1>6. PIs \subseteq GateID /\ POs \subseteq GateID
  BY SizeNat, SizeAssumption DEF PIs, POs, GateID, Size
<1> HIDE DEF pis, pos
<1>7. \A i \in 1 .. Size : /\ i <= pis <=> i - 1 \in PIs
                           /\ i > Size - pos <=> i - 1 \in POs
  BY <1>2, <1>4, <1>5
<1>8. ASSUME NEW a, NEW p
      PROVE  Feeds(net, Whole, a, p) <=> \A i \in PIs : p[i] = a[2 * Size + i + 1]
  <2>1. Feeds(net, Whole, a, p) <=> \A h \in 1 .. pis : p[h - 1] = a[2 * Size + h]
    <3>1. Feeds(net, Whole, a, p) <=> \A h \in 1 .. pis : p[Whole[h]] = a[2 * Size + h]
      BY <1>1 DEF Feeds, pis
    <3>2. \A h \in 1 .. pis : Whole[h] = h - 1
      BY <1>2, <1>4
    <3> QED
      BY <3>1, <3>2
  <2>2. ASSUME NEW h \in 1 .. pis, \A i \in PIs : p[i] = a[2 * Size + i + 1]
        PROVE  p[h - 1] = a[2 * Size + h]
    <3>1. h \in 1 .. Size /\ h <= pis /\ h \in Int
      BY <1>2
    <3>2. h - 1 \in PIs
      BY <1>7, <3>1
    <3>3. 2 * Size + (h - 1) + 1 = 2 * Size + h
      BY <1>2, <3>1
    <3> QED
      BY <2>2, <3>2, <3>3
  <2>3. ASSUME NEW i \in PIs, \A h \in 1 .. pis : p[h - 1] = a[2 * Size + h]
        PROVE  p[i] = a[2 * Size + i + 1]
    <3>1. i \in GateID /\ i \in Nat /\ i + 1 \in 1 .. Size /\ (i + 1) - 1 = i
      BY <1>1, <1>3, <1>6
    <3>2. i + 1 \in 1 .. pis
      BY <1>2, <1>7, <3>1
    <3>3. 2 * Size + (i + 1) = 2 * Size + i + 1
      BY <1>2, <3>1
    <3> QED
      BY <2>3, <3>1, <3>2, <3>3
  <2> QED
    BY <2>1, <2>2, <2>3
<1>9. ASSUME NEW s, NEW p
      PROVE  ToldApart(net, Whole, s, p) <=> RefDetects(net, Faults(s), p)
  <2> DEFINE v == RefValue(net, {}, p)
             w == RefValue(net, Faults(s), p)
  <2>1. ToldApart(net, Whole, s, p) <=> \E i \in 1 .. pos : v[Whole[Size - pos + i]] # w[Whole[Size - pos + i]]
    BY <1>1 DEF ToldApart, pos
  <2>2. RefDetects(net, Faults(s), p) <=> \E g \in POs : w[g] # v[g]
    BY DEF RefDetects
  <2> HIDE DEF v, w
  <2>3. ASSUME NEW i \in 1 .. pos, v[Whole[Size - pos + i]] # w[Whole[Size - pos + i]]
        PROVE  \E g \in POs : w[g] # v[g]
    <3>1. Size - pos + i \in 1 .. Size /\ Size - pos + i > Size - pos
      BY <1>2
    <3>2. (Size - pos + i) - 1 \in POs /\ Whole[Size - pos + i] = (Size - pos + i) - 1
      BY <1>4, <1>7, <3>1
    <3> QED
      BY <2>3, <3>2
  <2>4. ASSUME NEW g \in POs, w[g] # v[g]
        PROVE  \E i \in 1 .. pos : v[Whole[Size - pos + i]] # w[Whole[Size - pos + i]]
    <3>1. g \in GateID /\ g \in Nat /\ g + 1 \in 1 .. Size /\ (g + 1) - 1 = g /\ Whole[g + 1] = g
      BY <1>1, <1>3, <1>6
    <3>2. g + 1 > Size - pos
      BY <1>7, <3>1
    <3>3. (g + 1) - (Size - pos) \in 1 .. pos /\ Size - pos + ((g + 1) - (Size - pos)) = g + 1
      BY <1>2, <3>1, <3>2
    <3> QED
      BY <2>4, <3>1, <3>3
  <2> QED
    BY <2>1, <2>2, <2>3, <2>4
<1> QED
  BY <1>8, <1>9

\* Decoded from the new inputs, the models for a list of faults are the tests
\* for it.
LEMMA WholeModels ==
  ASSUME NEW net, WellFormed(net), NEW s, FaultList(net, s),
         NEW M, IsMiter(M, net, Whole, s, Len(s))
  PROVE  {[i \in PIs |-> a[2 * Size + i + 1]] : a \in Models(CNFOf(M), Order(CNFOf(M)))} =
         {p \in [PIs -> Bit] : RefDetects(net, Faults(s), p)}
<1> DEFINE models == Models(CNFOf(M), Order(CNFOf(M)))
           decoded(a) == [i \in PIs |-> a[2 * Size + i + 1]]
           tests == {p \in [PIs -> Bit] : RefDetects(net, Faults(s), p)}
<1>1. Cut(net, GateID, Whole) /\ Len(s) \in Nat
  BY WholeCut DEF FaultList
<1>2. \A a : a \in models <=> IsModel(net, Whole, s, M, a)
  BY <1>1, MiterModels
<1>3. \A a : \A p \in [PIs -> Bit] : Feeds(net, Whole, a, p) => p = decoded(a)
  BY WholeEnds
<1> HIDE DEF models, decoded
<1>4. ASSUME NEW a \in models PROVE decoded(a) \in tests
  <2>1. Bits(net, Whole, s, a)
    BY <1>2 DEF IsModel, Bits
  <2>2. PICK p \in [PIs -> Bit] : Feeds(net, Whole, a, p)
    BY <1>1, <2>1, FedBySome
  <2>3. ToldApart(net, Whole, s, p)
    BY <1>1, <1>2, <2>2, ModelSimulates
  <2> QED
    BY <1>3, <2>2, <2>3, WholeEnds
<1>5. ASSUME NEW p \in tests PROVE \E a \in models : p = decoded(a)
  <2>1. p \in [PIs -> Bit] /\ ToldApart(net, Whole, s, p)
    BY WholeEnds
  <2>2. PICK a : IsModel(net, Whole, s, M, a) /\ Feeds(net, Whole, a, p)
    BY <1>1, <2>1, SimulationIsModel
  <2> QED
    BY <1>2, <1>3, <2>1, <2>2
<1>6. {decoded(a) : a \in models} = tests
  <2> HIDE DEF tests
  <2> QED
    BY <1>4, <1>5
<1> QED
  BY <1>6 DEF models, decoded

(***************************************************************************)
(* Its vectors.                                                            *)
(***************************************************************************)
IsVector(v) == \E S : v \in Seq(S)

\* A place of a vector is overwritten and an element appended, and what the
\* places of the vector are then.
Grown(v, i, x, y) == Append([v EXCEPT ![i] = x], y)

GrownPlaces(w, v, i, x, y) ==
  /\ IsVector(w) /\ Len(v) \in Nat /\ Len(w) = Len(v) + 1 /\ w[Len(v) + 1] = y
  /\ \A j \in 1 .. Len(v) : w[j] = IF j = i THEN x ELSE v[j]

\* A place is overwritten and an element appended.
LEMMA VectorGrown ==
  ASSUME NEW v, IsVector(v), NEW i, i \in 1 .. Len(v), NEW x, NEW y
  PROVE  GrownPlaces(Grown(v, i, x, y), v, i, x, y)
<1>1. PICK S : v \in Seq(S)
  BY DEF IsVector
<1> DEFINE A == S \cup {x, y}
           u == [v EXCEPT ![i] = x]
<1>2. v \in Seq(A) /\ Len(v) \in Nat
  <2>1. S \subseteq A
    OBVIOUS
  <2> HIDE DEF A
  <2> QED
    BY <1>1, <2>1
<1>3. x \in A /\ y \in A
  OBVIOUS
<1> HIDE DEF A
<1>4. u \in Seq(A) /\ Len(u) = Len(v) /\ \A j \in 1 .. Len(v) : u[j] = IF j = i THEN x ELSE v[j]
  BY <1>2, <1>3, ExceptSeq
<1> HIDE DEF u
<1>5. /\ Append(u, y) \in Seq(A) /\ Len(Append(u, y)) = Len(u) + 1 /\ Append(u, y)[Len(u) + 1] = y
      /\ \A j \in 1 .. Len(u) : Append(u, y)[j] = u[j]
  BY <1>3, <1>4, AppendProperties
<1> QED
  BY <1>2, <1>4, <1>5 DEF GrownPlaces, Grown, IsVector, u

\* An element is appended.
LEMMA VectorAppended ==
  ASSUME NEW v, IsVector(v), NEW y, NEW w, w = Append(v, y)
  PROVE  /\ IsVector(w) /\ Len(v) \in Nat /\ Len(w) = Len(v) + 1 /\ w[Len(v) + 1] = y
         /\ \A j \in 1 .. Len(v) : w[j] = v[j]
<1>2. PICK S : v \in Seq(S)
  BY DEF IsVector
<1> DEFINE A == S \cup {y}
<1>1. v \in Seq(A) /\ Len(v) \in Nat /\ y \in A
  <2>1. S \subseteq A /\ y \in A
    OBVIOUS
  <2> HIDE DEF A
  <2> QED
    BY <1>2, <2>1
<1> HIDE DEF A
<1> QED
  BY <1>1, AppendProperties DEF IsVector

\* The last elements are deleted.
LEMMA CutIsVector ==
  ASSUME NEW S, NEW n \in Nat, NEW v \in [1 .. n -> S], NEW m \in 0 .. n, NEW w, w = SubSeq(v, 1, m)
  PROVE  IsVector(w)
<1>1. v \in Seq(S) /\ Len(v) = n
  BY Listed
<1>2. m \in 0 .. Len(v) /\ 1 \in 1 .. Len(v) + 1 /\ m - 1 + 1 = m
  BY <1>1
<1>3. SubSeq(v, 1, m) \in Seq(S)
  <2>1. \A i \in 1 .. m : v[i] \in S
    BY <1>1
  <2>2. m \in Int /\ 1 \in Int /\ m >= 0
    BY <1>2
  <2>3. SubSeq(v, 1, m) \in Seq(S)
    BY <2>1, <2>2, SubSeqProperties
  <2> QED
    BY <2>3
<1> QED
  BY <1>3 DEF IsVector

(***************************************************************************)
(* Between the calls: every gate of the miter is as it was built or has    *)
(* been saved, and the clauses follow the gates.                           *)
(***************************************************************************)
Unsaved(net, ori, cnf, saved) ==
  LET M == generateOriAndFau(net, Whole)
  IN \A p \in 1 .. Extent(net, Whole) :
       IF p \in DOMAIN saved THEN saved[p] = M[p] ELSE ori[p] = M[p] /\ cnf[p] = generateClause(M[p])

Restorable(net, ori, cnf, saved, inserted) ==
  LET N == Extent(net, Whole)
  IN /\ inserted \in Nat
     /\ IsVector(ori) /\ Len(ori) >= N + 1 + inserted
     /\ IsVector(cnf) /\ Len(cnf) = N + 1 + inserted
     /\ cnf[N + 1] = {outputClause(generateOriAndFau(net, Whole))}
     /\ DOMAIN saved \subseteq 1 .. N /\ IsFiniteSet(DOMAIN saved) /\ Cardinality(DOMAIN saved) <= inserted
     /\ Unsaved(net, ori, cnf, saved)

\* The clauses are those of the miter with the first k faults of a list.
Carrying(net, ori, cnf, s, k) ==
  \E M : /\ IsMiter(M, net, Whole, s, k)
         /\ \A p \in 1 .. Extent(net, Whole) : ori[p] = M[p] /\ cnf[p] = generateClause(M[p])
         /\ \A j \in 1 .. k :
              cnf[Extent(net, Whole) + 1 + j] = generateClause(M[Extent(net, Whole) + j])

\* The miter of the whole circuit.
LEMMA WholeMiter ==
  ASSUME NEW net, WellFormed(net)
  PROVE  LET M == generateOriAndFau(net, Whole)
         IN /\ Extent(net, Whole) \in Nat /\ 2 * Size <= Extent(net, Whole)
            /\ \A s : IsMiter(M, net, Whole, s, 0)
            /\ M \in Seq(MiterRecord) /\ Len(M) = Extent(net, Whole)
<1> DEFINE M == generateOriAndFau(net, Whole)
           N == Extent(net, Whole)
<1>1. Cut(net, GateID, Whole) /\ Len(Whole) = Size
  BY WholeCut
<1>2. \A s : IsMiter(M, net, Whole, s, 0)
  BY <1>1, MiterBuilt
<1>3. N \in Nat /\ 2 * Size <= N
  BY <1>1, Extents
<1>4. M \in Seq(MiterRecord) /\ Len(M) = N + 0
  BY <1>2 DEF IsMiter
<1> QED
  BY <1>2, <1>3, <1>4

\* With nothing inserted no gate is saved, and the miter carries no fault.
LEMMA NothingInserted ==
  ASSUME NEW net, WellFormed(net), NEW ori, NEW cnf, NEW saved, Restorable(net, ori, cnf, saved, 0), NEW s
  PROVE  /\ Carrying(net, ori, cnf, s, 0)
         /\ cnf = [p \in 1 .. Len(generateOriAndFau(net, Whole)) |->
                     generateClause(generateOriAndFau(net, Whole)[p])] \o
                  <<{outputClause(generateOriAndFau(net, Whole))}>>
<1> DEFINE M == generateOriAndFau(net, Whole)
           N == Extent(net, Whole)
           clauses == [p \in 1 .. Len(M) |-> generateClause(M[p])]
           last == {outputClause(M)}
<1>1. N \in Nat /\ IsMiter(M, net, Whole, s, 0) /\ Len(M) = N
  BY WholeMiter
<1>2. /\ IsVector(cnf) /\ Len(cnf) = N + 1 /\ cnf[N + 1] = last
      /\ DOMAIN saved = {} /\ Unsaved(net, ori, cnf, saved)
  <2>1. /\ IsVector(cnf) /\ Len(cnf) = N + 1 + 0 /\ cnf[N + 1] = last
        /\ IsFiniteSet(DOMAIN saved) /\ Cardinality(DOMAIN saved) <= 0 /\ Unsaved(net, ori, cnf, saved)
    BY DEF Restorable
  <2>2. Cardinality(DOMAIN saved) \in Nat
    BY <2>1, FS_CardinalityType
  <2>3. Cardinality(DOMAIN saved) = 0
    BY <2>1, <2>2
  <2>4. DOMAIN saved = {}
    BY <2>1, <2>3, FS_EmptySet
  <2> HIDE DEF N, last
  <2> QED
    BY <1>1, <2>1, <2>4
<1>3. \A p \in 1 .. N : ori[p] = M[p] /\ cnf[p] = generateClause(M[p])
  BY <1>2 DEF Unsaved
<1>4. Carrying(net, ori, cnf, s, 0)
  BY <1>1, <1>3 DEF Carrying
<1>5. cnf = clauses \o <<last>>
  <2> HIDE DEF N, M
  <2>1. PICK S : cnf \in Seq(S)
    BY <1>2 DEF IsVector
  <2>2. cnf = [p \in 1 .. N + 1 |-> cnf[p]]
    BY <1>2, <2>1
  <2>3. clauses = [p \in 1 .. N |-> cnf[p]] /\ last = cnf[N + 1]
    BY <1>1, <1>2, <1>3
  <2> HIDE DEF clauses, last
  <2>4. clauses \in Seq(S) /\ Len(clauses) = N /\ <<last>> \in Seq(S) /\ Len(<<last>>) = 1 /\ <<last>>[1] = last
    <3>1. \A p \in 1 .. N + 1 : cnf[p] \in S
      BY <1>1, <1>2, <2>1
    <3>2. clauses \in [1 .. N -> S] /\ last \in S
      BY <1>1, <2>3, <3>1
    <3> QED
      BY <1>1, <3>2, Listed
  <2>5. /\ IsList(S, clauses, N) /\ IsList(S, <<last>>, 1)
    BY <1>1, <2>4 DEF IsList
  <2>6. /\ IsList(S, clauses \o <<last>>, N + 1)
        /\ Joins(clauses \o <<last>>, clauses, N, <<last>>, 1)
    BY <2>5, Joined
  <2> DEFINE joined == clauses \o <<last>>
  <2>7. joined \in Seq(S) /\ Len(joined) = N + 1
    BY <2>6 DEF IsList
  <2>8. (\A p \in 1 .. N : joined[p] = clauses[p]) /\ joined[N + 1] = <<last>>[1]
    <3>1. 1 \in 1 .. 1
      OBVIOUS
    <3> QED
      BY <2>6, <3>1 DEF Joins
  <2> HIDE DEF joined
  <2>9. \A p \in 1 .. N + 1 : joined[p] = cnf[p]
    BY <1>1, <2>3, <2>4, <2>8
  <2>10. joined = [p \in 1 .. N + 1 |-> joined[p]]
    BY <2>7
  <2>11. joined = cnf
    BY <2>2, <2>9, <2>10
  <2> QED
    BY <2>11 DEF joined
<1> QED
  BY <1>4, <1>5

\* The constructor leaves the miter of the circuit, and room for a fault.
LEMMA BuiltRestorable ==
  ASSUME NEW net, WellFormed(net), NEW blank, NEW saved, DOMAIN saved = {}
  PROVE  LET M == generateOriAndFau(net, Whole)
         IN Restorable(net, Append(M, blank),
                       [p \in 1 .. Len(M) |-> generateClause(M[p])] \o <<{outputClause(M)}>>, saved, 0)
<1> DEFINE M == generateOriAndFau(net, Whole)
           N == Extent(net, Whole)
           clauses == [p \in 1 .. N |-> generateClause(M[p])]
           last == {outputClause(M)}
           S == {clauses[p] : p \in 1 .. N} \cup {last}
           ori == Append(M, blank)
           cnf == clauses \o <<last>>
<1>1. N \in Nat /\ M \in Seq(MiterRecord) /\ Len(M) = N
  BY WholeMiter
<1>2. IsVector(M)
  BY <1>1 DEF IsVector
<1> HIDE DEF M, N
<1>3. IsVector(ori) /\ Len(ori) = N + 1 /\ \A p \in 1 .. N : ori[p] = M[p]
  <2>1. ori = Append(M, blank)
    OBVIOUS
  <2> HIDE DEF ori
  <2>2. IsVector(ori)
    BY <1>2, <2>1, VectorAppended
  <2>3. Len(ori) = Len(M) + 1 /\ \A p \in 1 .. Len(M) : ori[p] = M[p]
    BY <1>2, <2>1, VectorAppended
  <2> QED
    BY <1>1, <2>2, <2>3
<1>4. IsList(S, clauses, N) /\ IsList(S, <<last>>, 1) /\ <<last>>[1] = last
  <2>1. clauses \in [1 .. N -> S] /\ last \in S
    OBVIOUS
  <2> HIDE DEF clauses, last, S
  <2> QED
    BY <1>1, <2>1, Listed DEF IsList
<1>5. \A p \in 1 .. N : clauses[p] = generateClause(M[p])
  OBVIOUS
<1> HIDE DEF clauses, S, ori, last
<1>6. IsList(S, cnf, N + 1) /\ Joins(cnf, clauses, N, <<last>>, 1)
  BY <1>4, Joined
<1> HIDE DEF cnf
<1>7. IsVector(cnf) /\ Len(cnf) = N + 1
  BY <1>6 DEF IsList, IsVector
<1>8. (\A p \in 1 .. N : cnf[p] = clauses[p]) /\ cnf[N + 1] = last
  <2>1. 1 \in 1 .. 1
    OBVIOUS
  <2> QED
    BY <1>4, <1>6, <2>1 DEF Joins
<1>9. DOMAIN saved \subseteq 1 .. N /\ IsFiniteSet(DOMAIN saved) /\ Cardinality(DOMAIN saved) <= 0
  BY FS_EmptySet
<1>10. Unsaved(net, ori, cnf, saved)
  BY <1>3, <1>5, <1>8 DEF Unsaved, M, N
<1>11. Len(ori) >= N + 1 + 0 /\ Len(cnf) = N + 1 + 0 /\ 0 \in Nat
  BY <1>1, <1>3, <1>7
<1>12. Restorable(net, ori, cnf, saved, 0)
  BY <1>3, <1>7, <1>8, <1>9, <1>10, <1>11 DEF Restorable, last, M, N
<1>13. [p \in 1 .. Len(M) |-> generateClause(M[p])] = clauses
  BY <1>1 DEF clauses
<1> QED
  BY <1>12, <1>13 DEF ori, cnf, M, last

\* resetFaultsInCNF puts the saved gates back.
LEMMA ResetRestores ==
  ASSUME NEW net, WellFormed(net), NEW ori, NEW cnf, NEW saved, NEW inserted,
         Restorable(net, ori, cnf, saved, inserted), NEW none, DOMAIN none = {}
  PROVE  LET gates == [p \in 1 .. Len(ori) |-> IF p \in DOMAIN saved THEN saved[p] ELSE ori[p]]
             clauses == [p \in 1 .. Len(cnf) |->
                           IF p \in DOMAIN saved THEN generateClause(saved[p]) ELSE cnf[p]]
         IN Restorable(net, SubSeq(gates, 1, Len(gates) - Cardinality(DOMAIN saved)),
                       SubSeq(clauses, 1, Len(clauses) - inserted), none, 0)
<1> DEFINE M == generateOriAndFau(net, Whole)
           N == Extent(net, Whole)
           gates == [p \in 1 .. Len(ori) |-> IF p \in DOMAIN saved THEN saved[p] ELSE ori[p]]
           clauses == [p \in 1 .. Len(cnf) |->
                         IF p \in DOMAIN saved THEN generateClause(saved[p]) ELSE cnf[p]]
           c == Cardinality(DOMAIN saved)
           ori1 == SubSeq(gates, 1, Len(gates) - c)
           cnf1 == SubSeq(clauses, 1, Len(clauses) - inserted)
<1>1. N \in Nat
  BY WholeMiter
<1>2. /\ inserted \in Nat /\ IsVector(ori) /\ Len(ori) >= N + 1 + inserted
      /\ IsVector(cnf) /\ Len(cnf) = N + 1 + inserted /\ cnf[N + 1] = {outputClause(M)}
      /\ DOMAIN saved \subseteq 1 .. N /\ IsFiniteSet(DOMAIN saved) /\ c <= inserted
      /\ Unsaved(net, ori, cnf, saved)
  BY DEF Restorable
<1>3. c \in Nat /\ Len(ori) \in Nat /\ Len(cnf) \in Nat
  <2>1. c \in Nat
    BY <1>2, FS_CardinalityType
  <2>2. \A v : IsVector(v) => Len(v) \in Nat
    BY DEF IsVector
  <2> QED
    BY <1>2, <2>1, <2>2
<1> HIDE DEF N, M, c
<1>4. /\ Len(gates) = Len(ori) /\ IsVector(ori1) /\ Len(ori1) = Len(ori) - c
      /\ \A j \in 1 .. Len(ori) - c : ori1[j] = gates[j]
  <2> DEFINE S == {gates[j] : j \in 1 .. Len(ori)}
  <2>1. gates \in [1 .. Len(ori) -> S]
    OBVIOUS
  <2> HIDE DEF S
  <2>2. Len(ori) - c \in 0 .. Len(ori)
    BY <1>1, <1>2, <1>3
  <2> HIDE DEF gates
  <2>3. Len(gates) = Len(ori)
    BY <1>3, <2>1, <2>2
  <2>4. ori1 = SubSeq(gates, 1, Len(ori) - c)
    BY <2>3
  <2> HIDE DEF ori1
  <2>5. IsVector(ori1)
    <3> DEFINE m == Len(ori) - c
    <3>1. ori1 = SubSeq(gates, 1, m) /\ m \in 0 .. Len(ori)
      BY <2>2, <2>4
    <3> HIDE DEF m
    <3> QED
      BY <1>3, <2>1, <3>1, CutIsVector
  <2>6. Len(ori1) = Len(ori) - c /\ \A j \in 1 .. Len(ori) - c : ori1[j] = gates[j]
    BY <1>3, <2>1, <2>2, <2>4
  <2> QED
    BY <2>3, <2>5, <2>6
<1>5. /\ Len(clauses) = Len(cnf) /\ IsVector(cnf1) /\ Len(cnf1) = N + 1
      /\ \A j \in 1 .. N + 1 : cnf1[j] = clauses[j]
  <2> DEFINE S == {clauses[j] : j \in 1 .. Len(cnf)}
  <2>1. clauses \in [1 .. Len(cnf) -> S]
    OBVIOUS
  <2> HIDE DEF S
  <2>2. Len(cnf) - inserted \in 0 .. Len(cnf) /\ Len(cnf) - inserted = N + 1
    BY <1>1, <1>2, <1>3
  <2> HIDE DEF clauses
  <2>3. Len(clauses) = Len(cnf)
    BY <1>3, <2>1, <2>2
  <2>4. cnf1 = SubSeq(clauses, 1, Len(cnf) - inserted)
    BY <2>3
  <2> HIDE DEF cnf1
  <2>5. IsVector(cnf1)
    <3> DEFINE m == Len(cnf) - inserted
    <3>1. cnf1 = SubSeq(clauses, 1, m) /\ m \in 0 .. Len(cnf)
      BY <2>2, <2>4
    <3> HIDE DEF m
    <3> QED
      BY <1>3, <2>1, <3>1, CutIsVector
  <2>6. Len(cnf1) = Len(cnf) - inserted /\ \A j \in 1 .. Len(cnf) - inserted : cnf1[j] = clauses[j]
    BY <1>3, <2>1, <2>2, <2>4
  <2> QED
    BY <2>2, <2>3, <2>5, <2>6
<1>6. ASSUME NEW p \in 1 .. N
      PROVE  ori1[p] = M[p] /\ cnf1[p] = generateClause(M[p])
  <2>1. /\ p \in 1 .. Len(ori) /\ p \in 1 .. Len(ori) - c
        /\ p \in 1 .. N + 1 /\ p \in 1 .. Len(cnf)
    BY <1>1, <1>2, <1>3
  <2>2. IF p \in DOMAIN saved THEN saved[p] = M[p] ELSE ori[p] = M[p] /\ cnf[p] = generateClause(M[p])
    BY <1>2 DEF Unsaved, N, M
  <2>3. ori1[p] = IF p \in DOMAIN saved THEN saved[p] ELSE ori[p]
    BY <1>4, <2>1
  <2>4. cnf1[p] = IF p \in DOMAIN saved THEN generateClause(saved[p]) ELSE cnf[p]
    BY <1>5, <2>1
  <2>5. CASE p \in DOMAIN saved
    BY <2>2, <2>3, <2>4, <2>5
  <2>6. CASE p \notin DOMAIN saved
    BY <2>2, <2>3, <2>4, <2>6
  <2> QED
    BY <2>5, <2>6
<1>7. cnf1[N + 1] = {outputClause(M)}
  <2>1. N + 1 \in 1 .. N + 1 /\ N + 1 \in 1 .. Len(cnf) /\ N + 1 \notin 1 .. N
    BY <1>1, <1>2, <1>3
  <2> QED
    BY <1>2, <1>5, <2>1
<1> HIDE DEF ori1, cnf1
<1>8. Unsaved(net, ori1, cnf1, none)
  BY <1>6 DEF Unsaved, N, M
<1>9. DOMAIN none \subseteq 1 .. N /\ IsFiniteSet(DOMAIN none) /\ Cardinality(DOMAIN none) <= 0
  BY FS_EmptySet
<1>10. Len(ori1) >= N + 1 + 0 /\ Len(cnf1) = N + 1 + 0 /\ 0 \in Nat
  BY <1>1, <1>2, <1>3, <1>4, <1>5
<1> QED
  <2>1. Restorable(net, ori1, cnf1, none, 0)
    BY <1>4, <1>5, <1>7, <1>8, <1>9, <1>10 DEF Restorable, N, M
  <2> QED
    BY <2>1 DEF ori1, cnf1, c

\* A fault of injectFaultsInCNF: the gate is saved once, its clauses are
\* replaced, and the constant's follow at the end.
LEMMA InsertedFault ==
  ASSUME NEW net, WellFormed(net), NEW s, FaultList(net, s), NEW k \in 0 .. Len(s) - 1,
         NEW ori, NEW cnf, NEW saved, Restorable(net, ori, cnf, saved, k), Carrying(net, ori, cnf, s, k)
  PROVE  LET f == s[k + 1]
             at == Size + faultGate(f) + 1
             cons == MiterGate(ConstantGate(faultStuckat(f)), preSize(net, Whole) + k)
             faulty == Faulted(ori[at], faultPort(f), cons.gateID)
             saved1 == [q \in DOMAIN saved \cup {at} |-> IF q \in DOMAIN saved THEN saved[q] ELSE ori[q]]
             ori1 == Append([ori EXCEPT ![at] = faulty], cons)
             cnf1 == Append([cnf EXCEPT ![at] = generateClause(faulty)], generateClause(cons))
         IN /\ ~ Skipped(ori[at], faultPort(f))
            /\ Restorable(net, ori1, cnf1, saved1, k + 1)
            /\ Carrying(net, ori1, cnf1, s, k + 1)
<1> DEFINE N == Extent(net, Whole)
           M0 == generateOriAndFau(net, Whole)
           f == s[k + 1]
           at == Size + faultGate(f) + 1
           cons == MiterGate(ConstantGate(faultStuckat(f)), preSize(net, Whole) + k)
           faulty == Faulted(ori[at], faultPort(f), cons.gateID)
           saved1 == [q \in DOMAIN saved \cup {at} |-> IF q \in DOMAIN saved THEN saved[q] ELSE ori[q]]
           ori1 == Append([ori EXCEPT ![at] = faulty], cons)
           cnf1 == Append([cnf EXCEPT ![at] = generateClause(faulty)], generateClause(cons))
<1>1. N \in Nat /\ 2 * Size <= N /\ Size \in Nat
  BY WholeMiter, SizeNat
<1>2. k \in Nat /\ k + 1 \in 1 .. Len(s) /\ Len(s) \in Nat
  BY DEF FaultList
<1>3. faultGate(f) \in GateID
  BY <1>2, ListedFault
<1>4. /\ Cut(net, GateID, Whole) /\ Len(Whole) = Size
      /\ oriCirIDToCur(Whole, faultGate(f)) = faultGate(f) /\ faultGate(f) + 1 \in 1 .. Size
  BY <1>3, WholeCut
<1>5. at \in 1 .. N /\ at \in Nat
  <2> DEFINE g == faultGate(f)
  <2>3. \A x \in GateID : x + 1 \in 1 .. Size => x \in Nat /\ x + 1 <= Size
    BY <1>1, SizeNat
  <2>1. g \in Nat /\ g + 1 <= Size
    <3> HIDE DEF f
    <3> QED
      BY <1>3, <1>4, <2>3
  <2> HIDE DEF g
  <2>2. Size + g + 1 \in 1 .. N /\ Size + g + 1 \in Nat
    BY <1>1, <2>1
  <2> QED
    BY <2>2 DEF g
<1>6. PICK M : /\ IsMiter(M, net, Whole, s, k)
               /\ \A p \in 1 .. N : ori[p] = M[p] /\ cnf[p] = generateClause(M[p])
               /\ \A j \in 1 .. k : cnf[N + 1 + j] = generateClause(M[N + j])
  BY DEF Carrying
<1>7. /\ IsVector(ori) /\ Len(ori) >= N + 1 + k /\ IsVector(cnf) /\ Len(cnf) = N + 1 + k
      /\ cnf[N + 1] = {outputClause(M0)}
      /\ DOMAIN saved \subseteq 1 .. N /\ IsFiniteSet(DOMAIN saved) /\ Cardinality(DOMAIN saved) <= k
      /\ Unsaved(net, ori, cnf, saved)
  BY DEF Restorable
<1> DEFINE at0 == Len(Whole) + oriCirIDToCur(Whole, faultGate(f)) + 1
           M1 == IF Skipped(M[at0], faultPort(f)) THEN M
                 ELSE Append([M EXCEPT ![at0] = Faulted(@, faultPort(f), cons.gateID)], cons)
<1>8. IsMiter(M1, net, Whole, s, k + 1)
  <2>1. IsMiter(M, net, Whole, s, k)
    BY <1>6
  <2> HIDE DEF N
  <2> QED
    BY <1>3, <1>4, <2>1, FaultInjected
<1>9. at0 = at
  BY <1>4
<1>10. M \in Seq(MiterRecord) /\ Len(M) = N + k /\ Len(M1) = N + (k + 1)
  <2> HIDE DEF M1
  <2> QED
    BY <1>6, <1>8 DEF IsMiter
<1>11. ~ Skipped(ori[at], faultPort(f)) /\ M1 = Append([M EXCEPT ![at] = faulty], cons)
  <2>1. M[at] = ori[at]
    BY <1>5, <1>6
  <2> HIDE DEF at, at0, f, cons, N
  <2>2. ~ Skipped(M[at], faultPort(f))
    <3>1. SUFFICES ASSUME Skipped(M[at], faultPort(f)) PROVE FALSE
      OBVIOUS
    <3>2. M1 = M
      BY <1>9, <3>1
    <3> HIDE DEF M1
    <3>3. N + k = N + (k + 1)
      BY <1>10, <3>2
    <3> QED
      BY <1>1, <1>2, <3>3
  <2> QED
    BY <1>9, <2>1, <2>2
<1> HIDE DEF M1, at, cons, f, faulty, N, at0
<1>12. /\ \A p \in 1 .. N + k : M1[p] = IF p = at THEN faulty ELSE M[p]
       /\ M1[N + (k + 1)] = cons
  <2>1. IsVector(M) /\ at \in 1 .. Len(M) /\ Len(M) + 1 = N + (k + 1)
    BY <1>1, <1>2, <1>5, <1>10 DEF IsVector
  <2>2. M1 = Grown(M, at, faulty, cons)
    BY <1>11 DEF Grown
  <2>3. GrownPlaces(M1, M, at, faulty, cons)
    BY <2>1, <2>2, VectorGrown
  <2> QED
    BY <1>10, <2>1, <2>3 DEF GrownPlaces
<1>13. /\ IsVector(ori1) /\ Len(ori1) >= N + 1 + (k + 1)
       /\ \A p \in 1 .. N : ori1[p] = IF p = at THEN faulty ELSE ori[p]
  <2>1. Len(ori) \in Nat
    BY <1>7 DEF IsVector
  <2>2. at \in 1 .. Len(ori) /\ 1 .. N \subseteq 1 .. Len(ori)
    BY <1>1, <1>2, <1>5, <1>7, <2>1
  <2>4. ori1 = Grown(ori, at, faulty, cons)
    BY DEF Grown
  <2> HIDE DEF ori1
  <2>5. IsVector(ori)
    BY <1>7
  <2>3. GrownPlaces(ori1, ori, at, faulty, cons)
    BY <2>2, <2>4, <2>5, VectorGrown
  <2> QED
    BY <1>1, <1>2, <1>7, <2>1, <2>2, <2>3 DEF GrownPlaces
<1>14. /\ IsVector(cnf1) /\ Len(cnf1) = N + 1 + (k + 1) /\ cnf1[N + 1 + (k + 1)] = generateClause(cons)
       /\ \A p \in 1 .. N + 1 + k : cnf1[p] = IF p = at THEN generateClause(faulty) ELSE cnf[p]
  <2>2. at \in 1 .. Len(cnf) /\ Len(cnf) + 1 = N + 1 + (k + 1)
    BY <1>1, <1>2, <1>5, <1>7
  <2>4. cnf1 = Grown(cnf, at, generateClause(faulty), generateClause(cons))
    BY DEF Grown
  <2> HIDE DEF cnf1
  <2>5. IsVector(cnf)
    BY <1>7
  <2>3. GrownPlaces(cnf1, cnf, at, generateClause(faulty), generateClause(cons))
    BY <2>2, <2>4, <2>5, VectorGrown
  <2> QED
    BY <1>7, <2>2, <2>3 DEF GrownPlaces
<1> HIDE DEF ori1, cnf1
<1>15. Carrying(net, ori1, cnf1, s, k + 1)
  <2>1. ASSUME NEW p \in 1 .. N PROVE ori1[p] = M1[p] /\ cnf1[p] = generateClause(M1[p])
    <3>1. p \in 1 .. N + k /\ p \in 1 .. N + 1 + k
      BY <1>1, <1>2
    <3>2. CASE p = at
      BY <1>12, <1>13, <1>14, <3>1, <3>2
    <3>3. CASE p # at
      BY <1>6, <1>12, <1>13, <1>14, <3>1, <3>3
    <3> QED
      BY <3>2, <3>3
  <2>2. ASSUME NEW j \in 1 .. k + 1 PROVE cnf1[N + 1 + j] = generateClause(M1[N + j])
    <3>1. CASE j = k + 1
      BY <1>12, <1>14, <3>1
    <3>2. CASE j # k + 1
      <4>1. /\ j \in 1 .. k /\ N + j \in 1 .. N + k /\ N + j # at
            /\ N + 1 + j \in 1 .. N + 1 + k /\ N + 1 + j # at
        BY <1>1, <1>2, <1>5, <3>2
      <4> QED
        BY <1>6, <1>12, <1>14, <4>1
    <3> QED
      BY <3>1, <3>2
  <2> QED
    BY <1>8, <2>1, <2>2 DEF Carrying, N
<1>16. /\ DOMAIN saved1 \subseteq 1 .. N /\ IsFiniteSet(DOMAIN saved1)
       /\ Cardinality(DOMAIN saved1) <= k + 1
  <2>1. DOMAIN saved1 = DOMAIN saved \cup {at}
    OBVIOUS
  <2>2. Cardinality(DOMAIN saved) \in Nat
    BY <1>7, FS_CardinalityType
  <2>3. IsFiniteSet(DOMAIN saved \cup {at})
        /\ Cardinality(DOMAIN saved \cup {at}) =
             IF at \in DOMAIN saved THEN Cardinality(DOMAIN saved) ELSE Cardinality(DOMAIN saved) + 1
    BY <1>7, FS_AddElement
  <2> HIDE DEF saved1
  <2> QED
    BY <1>2, <1>5, <1>7, <2>1, <2>2, <2>3
<1>17. Unsaved(net, ori1, cnf1, saved1)
  <2> SUFFICES ASSUME NEW p \in 1 .. N
               PROVE  IF p \in DOMAIN saved1 THEN saved1[p] = M0[p]
                      ELSE ori1[p] = M0[p] /\ cnf1[p] = generateClause(M0[p])
    BY DEF Unsaved, N
  <2>1. IF p \in DOMAIN saved THEN saved[p] = M0[p] ELSE ori[p] = M0[p] /\ cnf[p] = generateClause(M0[p])
    BY <1>7 DEF Unsaved, N
  <2> HIDE DEF M0
  <2>2. CASE p \in DOMAIN saved
    <3>1. p \in DOMAIN saved1 /\ saved1[p] = saved[p]
      BY <2>2
    <3> QED
      BY <2>1, <2>2, <3>1
  <2>3. CASE p \notin DOMAIN saved /\ p = at
    <3>1. p \in DOMAIN saved1 /\ saved1[p] = ori[p]
      BY <2>3
    <3> QED
      BY <2>1, <2>3, <3>1
  <2>4. CASE p \notin DOMAIN saved /\ p # at
    <3>1. p \notin DOMAIN saved1 /\ p \in 1 .. N + 1 + k
      BY <1>1, <1>2, <2>4
    <3> QED
      BY <1>13, <1>14, <2>1, <2>4, <3>1
  <2> QED
    BY <2>2, <2>3, <2>4
<1>18. cnf1[N + 1] = {outputClause(M0)}
  <2>1. N + 1 \in 1 .. N + 1 + k /\ N + 1 # at
    BY <1>1, <1>2, <1>5
  <2> QED
    BY <1>7, <1>14, <2>1
<1> HIDE DEF saved1, M0
<1>19. Restorable(net, ori1, cnf1, saved1, k + 1)
  <2>1. k + 1 \in Nat
    BY <1>2
  <2> QED
    BY <1>13, <1>14, <1>16, <1>17, <1>18, <2>1 DEF Restorable, N, M0
<1> QED
  BY <1>11, <1>15, <1>19 DEF ori1, cnf1, saved1, faulty, cons, at, f

\* With all faults inserted the clauses are those of the miter for the list.
LEMMA CarriedCNF ==
  ASSUME NEW net, WellFormed(net), NEW s, FaultList(net, s), NEW ori, NEW cnf, NEW saved,
         Restorable(net, ori, cnf, saved, Len(s)), Carrying(net, ori, cnf, s, Len(s))
  PROVE  \E M : IsMiter(M, net, Whole, s, Len(s)) /\ UNION {cnf[p] : p \in 1 .. Len(cnf)} = CNFOf(M)
<1> DEFINE N == Extent(net, Whole)
           M0 == generateOriAndFau(net, Whole)
           k == Len(s)
<1>1. N \in Nat /\ IsMiter(M0, net, Whole, << >>, 0) /\ k \in Nat /\ Cut(net, GateID, Whole)
  BY WholeMiter, WholeCut DEF FaultList
<1>2. PICK M : /\ IsMiter(M, net, Whole, s, k)
               /\ \A p \in 1 .. N : ori[p] = M[p] /\ cnf[p] = generateClause(M[p])
               /\ \A j \in 1 .. k : cnf[N + 1 + j] = generateClause(M[N + j])
  BY DEF Carrying
<1>3. Len(cnf) = N + 1 + k /\ cnf[N + 1] = {outputClause(M0)}
  BY DEF Restorable
<1>4. outputClause(M) = outputClause(M0)
  <2>1. Len(<< >>) = 0
    OBVIOUS
  <2> HIDE DEF M0
  <2>2. IsMiter(M0, net, Whole, << >>, Len(<< >>))
    BY <1>1, <2>1
  <2> QED
    BY <1>1, <1>2, <2>1, <2>2, OutputAsked
<1>5. Len(M) = N + k
  BY <1>2 DEF IsMiter
<1> HIDE DEF N, M0, k
<1> DEFINE U == UNION {cnf[p] : p \in 1 .. Len(cnf)}
<1>6. ASSUME NEW c \in U PROVE c \in CNFOf(M)
  <2>1. PICK p \in 1 .. N + 1 + k : c \in cnf[p]
    BY <1>3
  <2>2. CASE p \in 1 .. N
    <3>1. p \in 1 .. Len(M) /\ c \in generateClause(M[p])
      BY <1>1, <1>2, <1>5, <2>1, <2>2
    <3> QED
      BY <3>1 DEF CNFOf
  <2>3. CASE p = N + 1
    BY <1>3, <1>4, <2>1, <2>3 DEF CNFOf
  <2>4. CASE p > N + 1
    <3>1. p - (N + 1) \in 1 .. k /\ N + 1 + (p - (N + 1)) = p /\ N + (p - (N + 1)) \in 1 .. Len(M)
      BY <1>1, <1>5, <2>1, <2>4, SMTT(60)
    <3>2. c \in generateClause(M[N + (p - (N + 1))])
      BY <1>2, <2>1, <3>1
    <3> QED
      BY <3>1, <3>2 DEF CNFOf
  <2> QED
    BY <1>1, <2>1, <2>2, <2>3, <2>4
<1>7. ASSUME NEW c \in CNFOf(M) PROVE c \in U
  <2>1. (\E q \in 1 .. N + k : c \in generateClause(M[q])) \/ c = outputClause(M)
    BY <1>5 DEF CNFOf
  <2>2. CASE c = outputClause(M)
    <3>1. N + 1 \in 1 .. Len(cnf) /\ c \in cnf[N + 1]
      BY <1>1, <1>3, <1>4, <2>2
    <3> QED
      BY <3>1
  <2>3. ASSUME NEW q \in 1 .. N + k, c \in generateClause(M[q]) PROVE c \in U
    <3>1. CASE q \in 1 .. N
      <4>1. q \in 1 .. Len(cnf) /\ c \in cnf[q]
        BY <1>1, <1>2, <1>3, <2>3, <3>1
      <4> QED
        BY <4>1
    <3>2. CASE q \notin 1 .. N
      <4>1. q - N \in 1 .. k /\ N + (q - N) = q /\ N + 1 + (q - N) \in 1 .. Len(cnf)
        BY <1>1, <1>3, <3>2
      <4>2. c \in cnf[N + 1 + (q - N)]
        BY <1>2, <2>3, <4>1
      <4> QED
        BY <4>1, <4>2
    <3> QED
      BY <3>1, <3>2
  <2> QED
    BY <2>1, <2>2, <2>3
<1>8. U = CNFOf(M)
  <2> HIDE DEF U
  <2> QED
    BY <1>6, <1>7
<1> QED
  BY <1>2, <1>8 DEF U, k

(***************************************************************************)
(* The calls of generateTestBySAT.                                         *)
(***************************************************************************)
\* Between its steps: what was saved can be put back, and outside the reset the
\* clauses carry the faults of this call that were inserted, and no others.
IncInv ==
  /\ incremental \in BOOLEAN
  /\ ~ incremental => incPc = "none"
  /\ incremental =>
       /\ theCircuit \in IncNetlists
       /\ incPc \in {"idle", "reset", "inject"}
       /\ \/ incFaults = << >> /\ incPc = "idle"
          \/ incFaults \in IncFaultSets(theCircuit)
       /\ incInjected \in 0 .. Len(incFaults)
       /\ Restorable(theCircuit, incCircuit, incCNF, incSaved, incInserted)
       /\ incPc \in {"idle", "inject"} =>
            /\ incInserted = incInjected
            /\ Carrying(theCircuit, incCircuit, incCNF, incFaults, incInjected)
       /\ incPc = "reset" => incInjected = 0
       /\ incPc = "idle" => incInjected = Len(incFaults)

\* The faults a call may be asked about.
LEMMA IncCallFaults ==
  ASSUME NEW net \in IncNetlists
  PROVE  WellFormed(net) /\ FaultList(net, << >>) /\ \A s \in IncFaultSets(net) : FaultList(net, s)
<1>1. WellFormed(net) /\ \A s \in IncFaultSets(net) : FaultList(net, s)
  BY IncrementalAssumption, SameCircuits DEF C!NetlistsAssumption, FaultList
<1>2. FaultList(net, << >>)
  BY DEF FaultList
<1> QED
  BY <1>1, <1>2

\* The constructor, in terms of the whole circuit.
LEMMA Constructed ==
  ASSUME C!Init
  PROVE  /\ theCircuit \in IncNetlists /\ incFaults = << >> /\ incPc = "idle" /\ incInjected = 0
         /\ incInserted = 0 /\ DOMAIN incSaved = {}
         /\ LET M == generateOriAndFau(theCircuit, Whole)
            IN /\ incCircuit = Append(M, C!BlankGate)
               /\ incCNF = [p \in 1 .. Len(M) |-> generateClause(M[p])] \o <<{outputClause(M)}>>
<1>1. C!whole = Whole
  BY SameGates DEF C!whole, Whole
<1> QED
  BY <1>1, SameMiter, SameClauses DEF C!Init, C!generateCNF, C!NoCopies

\* resetFaultsInCNF.
LEMMA FaultsReset ==
  ASSUME C!resetFaultsInCNF
  PROVE  /\ incPc = "reset" /\ incPc' = "inject" /\ incInserted' = 0 /\ DOMAIN incSaved' = {}
         /\ UNCHANGED <<theCircuit, incFaults, incInjected>>
         /\ LET gates == [p \in 1 .. Len(incCircuit) |->
                            IF p \in DOMAIN incSaved THEN incSaved[p] ELSE incCircuit[p]]
                clauses == [p \in 1 .. Len(incCNF) |->
                              IF p \in DOMAIN incSaved THEN generateClause(incSaved[p]) ELSE incCNF[p]]
            IN /\ incCircuit' = SubSeq(gates, 1, Len(gates) - Cardinality(DOMAIN incSaved))
               /\ incCNF' = SubSeq(clauses, 1, Len(clauses) - incInserted)
BY SameClauses DEF C!resetFaultsInCNF, C!DeletedClauses, C!NoCopies, C!Cardinality, Cardinality

\* A fault of injectFaultsInCNF that is not skipped.
LEMMA FaultInserted ==
  ASSUME C!injectFaultsInCNF
  PROVE  /\ incPc = "inject" /\ incInjected < Len(incFaults) /\ incInjected' = incInjected + 1
         /\ UNCHANGED <<theCircuit, incFaults, incPc>>
         /\ LET f == incFaults[incInjected + 1]
                at == Size + faultGate(f) + 1
                cons == MiterGate(ConstantGate(faultStuckat(f)), preSize(theCircuit, Whole) + incInjected)
                faulty == Faulted(incCircuit[at], faultPort(f), cons.gateID)
            IN ~ Skipped(incCircuit[at], faultPort(f)) =>
                 /\ incSaved' = [q \in DOMAIN incSaved \cup {at} |->
                                   IF q \in DOMAIN incSaved THEN incSaved[q] ELSE incCircuit[q]]
                 /\ incInserted' = incInserted + 1
                 /\ incCircuit' = Append([incCircuit EXCEPT ![at] = faulty], cons)
                 /\ incCNF' = Append([incCNF EXCEPT ![at] = generateClause(faulty)], generateClause(cons))
<1>1. C!whole = Whole
  BY SameGates DEF C!whole, Whole
<1> QED
  BY <1>1, SameGates, SameMiter, SameClauses DEF C!injectFaultsInCNF, C!Saved

\* Whatever the calls before were about, a call carries its own faults alone.
THEOREM CallsSeparate == BothSpec => []IncInv
<1>1. BothInit => IncInv
  <2> SUFFICES ASSUME BothInit PROVE IncInv
    OBVIOUS
  <2>1. CASE incremental = TRUE /\ C!Init
    <3>1. /\ theCircuit \in IncNetlists /\ incFaults = << >> /\ incPc = "idle" /\ incInjected = 0
          /\ incInserted = 0 /\ DOMAIN incSaved = {}
      BY <2>1, Constructed
    <3>2. WellFormed(theCircuit)
      BY <3>1, IncCallFaults
    <3>3. Restorable(theCircuit, incCircuit, incCNF, incSaved, 0)
      BY <2>1, <3>1, <3>2, Constructed, BuiltRestorable
    <3>4. Carrying(theCircuit, incCircuit, incCNF, incFaults, 0)
      BY <3>2, <3>3, NothingInserted
    <3>5. Len(incFaults) = 0 /\ 0 \in 0 .. 0
      BY <3>1
    <3> QED
      BY <2>1, <3>1, <3>3, <3>4, <3>5 DEF IncInv
  <2>2. CASE incremental = FALSE /\ incPc = "none"
    BY <2>2 DEF IncInv
  <2> QED
    BY <2>1, <2>2 DEF BothInit
<1>2. IncInv /\ [BothNext]_bothVars => IncInv'
  <2> SUFFICES ASSUME IncInv, [BothNext]_bothVars PROVE IncInv'
    OBVIOUS
  <2>1. CASE ~ incremental /\ Next /\ UNCHANGED <<incremental, incVars>>
    BY <2>1 DEF IncInv, incVars
  <2> DEFINE net == theCircuit
             s == incFaults
             k == incInjected
  <2>2. CASE incremental /\ C!Next /\ UNCHANGED <<incremental, newFaults, pc, callVars, reply>>
    <3>1. /\ incremental' = incremental /\ net \in IncNetlists /\ WellFormed(net)
          /\ k \in 0 .. Len(s) /\ FaultList(net, s)
          /\ (s = << >> /\ incPc = "idle") \/ s \in IncFaultSets(net)
          /\ Restorable(net, incCircuit, incCNF, incSaved, incInserted)
      BY <2>2, IncCallFaults DEF IncInv
    <3>2. CASE C!generateTestBySAT
      BY <2>2, <3>1, <3>2, IncCallFaults DEF C!generateTestBySAT, IncInv, FaultList
    <3>3. CASE C!resetFaultsInCNF
      <4> DEFINE gates == [p \in 1 .. Len(incCircuit) |->
                             IF p \in DOMAIN incSaved THEN incSaved[p] ELSE incCircuit[p]]
                 clauses == [p \in 1 .. Len(incCNF) |->
                               IF p \in DOMAIN incSaved THEN generateClause(incSaved[p]) ELSE incCNF[p]]
      <4>1. /\ incPc = "reset" /\ incPc' = "inject" /\ incInserted' = 0 /\ DOMAIN incSaved' = {}
            /\ UNCHANGED <<theCircuit, incFaults, incInjected>>
            /\ incCircuit' = SubSeq(gates, 1, Len(gates) - Cardinality(DOMAIN incSaved))
            /\ incCNF' = SubSeq(clauses, 1, Len(clauses) - incInserted)
        BY <3>3, FaultsReset
      <4>2. Restorable(net, incCircuit', incCNF', incSaved', 0)
        <5>1. \A none : DOMAIN none = {} =>
                Restorable(net, SubSeq(gates, 1, Len(gates) - Cardinality(DOMAIN incSaved)),
                           SubSeq(clauses, 1, Len(clauses) - incInserted), none, 0)
          BY <3>1, ResetRestores
        <5> HIDE DEF gates, clauses
        <5> QED
          BY <4>1, <5>1
      <4> HIDE DEF gates, clauses
      <4>3. Carrying(net, incCircuit', incCNF', s, 0)
        BY <3>1, <4>2, NothingInserted
      <4>4. incInjected = 0 /\ s \in IncFaultSets(net)
        BY <2>2, <4>1 DEF IncInv
      <4>5. /\ incremental' /\ theCircuit' = net /\ incFaults' = s /\ incInjected' = 0 /\ 0 \in 0 .. Len(s)
            /\ incInserted' = 0
        BY <2>2, <3>1, <4>1, <4>4 DEF FaultList
      <4> HIDE DEF net, s
      <4>6. Restorable(theCircuit, incCircuit, incCNF, incSaved, incInserted)'
        BY <4>2, <4>5
      <4>7. Carrying(theCircuit, incCircuit, incCNF, incFaults, incInjected)'
        BY <4>3, <4>5
      <4> QED
        BY <3>1, <4>1, <4>4, <4>5, <4>6, <4>7 DEF IncInv
    <3>4. CASE C!injectFaultsInCNF
      <4> DEFINE f == s[k + 1]
                 at == Size + faultGate(f) + 1
                 cons == MiterGate(ConstantGate(faultStuckat(f)), preSize(net, Whole) + k)
                 faulty == Faulted(incCircuit[at], faultPort(f), cons.gateID)
                 saved1 == [q \in DOMAIN incSaved \cup {at} |->
                              IF q \in DOMAIN incSaved THEN incSaved[q] ELSE incCircuit[q]]
                 ori1 == Append([incCircuit EXCEPT ![at] = faulty], cons)
                 cnf1 == Append([incCNF EXCEPT ![at] = generateClause(faulty)], generateClause(cons))
      <4>1. /\ incPc = "inject" /\ k < Len(s) /\ incInjected' = k + 1
            /\ UNCHANGED <<theCircuit, incFaults, incPc>>
            /\ ~ Skipped(incCircuit[at], faultPort(f)) =>
                 incSaved' = saved1 /\ incInserted' = incInserted + 1 /\ incCircuit' = ori1 /\ incCNF' = cnf1
        BY <3>4, FaultInserted
      <4>2. incInserted = k /\ Carrying(net, incCircuit, incCNF, s, k) /\ s \in IncFaultSets(net)
        BY <2>2, <4>1 DEF IncInv
      <4>3. k \in 0 .. Len(s) - 1 /\ k + 1 \in 0 .. Len(s)
        BY <3>1, <4>1 DEF FaultList
      <4>4. /\ ~ Skipped(incCircuit[at], faultPort(f))
            /\ Restorable(net, ori1, cnf1, saved1, k + 1)
            /\ Carrying(net, ori1, cnf1, s, k + 1)
        BY <3>1, <4>2, <4>3, InsertedFault
      <4> HIDE DEF ori1, cnf1, saved1, at, f
      <4>5. /\ incremental' /\ theCircuit' = net /\ incFaults' = s /\ incInjected' = k + 1 /\ incInserted' = k + 1
            /\ incPc' = "inject" /\ incSaved' = saved1 /\ incCircuit' = ori1 /\ incCNF' = cnf1
        BY <2>2, <4>1, <4>2, <4>4
      <4> HIDE DEF net, s, k
      <4>6. Restorable(theCircuit, incCircuit, incCNF, incSaved, incInserted)'
        BY <4>4, <4>5
      <4>7. Carrying(theCircuit, incCircuit, incCNF, incFaults, incInjected)'
        BY <4>4, <4>5
      <4> QED
        BY <3>1, <4>2, <4>3, <4>5, <4>6, <4>7 DEF IncInv
    <3>5. CASE C!SATCircuit
      BY <2>2, <3>1, <3>5 DEF C!SATCircuit, IncInv
    <3> QED
      BY <2>2, <3>2, <3>3, <3>4, <3>5 DEF C!Next
  <2>3. CASE UNCHANGED bothVars
    BY <2>3 DEF bothVars, vars, incVars, IncInv
  <2> QED
    BY <2>1, <2>2, <2>3 DEF BothNext
<1> QED
  BY <1>1, <1>2, PTL DEF BothSpec

\* resetFaultsInCNF leaves the clauses the constructor made, whatever faults the
\* calls before had.
THEOREM ResetsRestore == BothSpec => []CNFRestored
<1>1. IncInv => CNFRestored
  <2> SUFFICES ASSUME IncInv, incPc = "inject", incInjected = 0
               PROVE  incCNF = C!generateCNF(C!Miter0)
    BY DEF CNFRestored, C!CNFRestored
  <2>1. incremental /\ theCircuit \in IncNetlists
        /\ Restorable(theCircuit, incCircuit, incCNF, incSaved, 0)
    BY DEF IncInv
  <2>2. WellFormed(theCircuit)
    BY <2>1, IncCallFaults
  <2>3. C!whole = Whole
    BY SameGates DEF C!whole, Whole
  <2> QED
    BY <2>1, <2>2, <2>3, NothingInserted, SameMiter, SameClauses DEF C!generateCNF, C!Miter0
<1> QED
  BY <1>1, CallsSeparate, PTL

\* After any sequence of calls of generateTestBySAT the models are the tests for
\* the faults of the latest call.
THEOREM ModelsDetect == BothSpec => []ModelsAreTests
<1>1. IncInv => ModelsAreTests
  <2> SUFFICES ASSUME IncInv, incPc = "idle", incFaults # << >>
               PROVE  {[i \in C!PIs |-> a[2 * C!Size + i + 1]] : a \in C!CNFModels} =
                      {p \in C!Patterns : C!RefDetects(theCircuit, C!Faults(incFaults), p)}
    BY DEF ModelsAreTests, C!ModelsAreTests
  <2>1. /\ theCircuit \in IncNetlists /\ incFaults \in IncFaultSets(theCircuit)
        /\ Restorable(theCircuit, incCircuit, incCNF, incSaved, Len(incFaults))
        /\ Carrying(theCircuit, incCircuit, incCNF, incFaults, Len(incFaults))
    BY DEF IncInv
  <2>2. WellFormed(theCircuit) /\ FaultList(theCircuit, incFaults)
    BY <2>1, IncCallFaults
  <2>3. PICK M : /\ IsMiter(M, theCircuit, Whole, incFaults, Len(incFaults))
                 /\ UNION {incCNF[p] : p \in 1 .. Len(incCNF)} = CNFOf(M)
    BY <2>1, <2>2, CarriedCNF
  <2>4. C!CNFModels = Models(CNFOf(M), Order(CNFOf(M)))
    BY <2>3, SameModels DEF C!CNFModels
  <2>5. {[i \in PIs |-> a[2 * Size + i + 1]] : a \in C!CNFModels} =
        {p \in [PIs -> Bit] : RefDetects(theCircuit, Faults(incFaults), p)}
    BY <2>2, <2>3, <2>4, WholeModels
  <2>6. C!Patterns = [PIs -> Bit]
    BY SameGates DEF C!Patterns
  <2> QED
    BY <2>5, <2>6, SameGates, SameReference
<1> QED
  BY <1>1, CallsSeparate, PTL
=============================================================================
