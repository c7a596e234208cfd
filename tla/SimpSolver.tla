----------------------------- MODULE SimpSolver -----------------------------
(***************************************************************************)
(* The preprocessor of glucose/simp/SimpSolver.cc: clauses that subsume or *)
(* shorten others, elimination of variables by resolution, and the         *)
(* extension of a model to the eliminated variables.  Asymmetric branching *)
(* and the check for implied clauses are off (their options' defaults), and *)
(* no variable is frozen: the program makes no assumptions.                *)
(***************************************************************************)
EXTENDS Solver

CONSTANTS grow,           \* how many clauses an elimination may add
          clause_lim,     \* the longest resolvent, -1 for no limit
          subsumption_lim \* the longest clause tested for subsumption, -1 for no limit

\* occurs and its smudged variables; n_occ per literal; elim_heap is ordered by cost.
NewSimpSolver ==
    [NewSolver EXCEPT !.size = clauseWord32Size(<<lit_Undef>>)] @@
    [occurs |-> <<>>, dirtyOccurs |-> {}, n_occ |-> <<>>, elim_heap |-> <<>>,
     touched |-> {}, subsumption_queue |-> <<>>, bwdsub_assigns |-> 0,
     elimclauses |-> <<>>, eliminated |-> {}]

\* ElimLt::cost
costs(s) == [v \in DOMAIN s.reason |-> s.n_occ[mkLit(v, FALSE)] * s.n_occ[mkLit(v, TRUE)]]

simpNewVar(s, v) ==
    LET s1 == [newVar(s, v) EXCEPT !.n_occ = @ @@ [p \in {mkLit(v, FALSE), mkLit(v, TRUE)} |-> 0],
                                   !.occurs = @ @@ (v :> <<>>)]
    IN [s1 EXCEPT !.elim_heap = insert(@, costs(s1), v)]

updateElimHeap(s, v) ==
    IF \/ inHeap(s.elim_heap, v)
       \/ (v \notin s.eliminated /\ ~assigned(s, v))
    THEN [s EXCEPT !.elim_heap = update(@, costs(s), v)] ELSE s

\* Mutant: the elimination heap is not told that the variable occurs once more.
occurrence_Broken(s, cr, p) ==
    [s EXCEPT !.occurs[var(p)] = Append(@, cr), !.n_occ[p] = @ + 1,
              !.touched = @ \cup {var(p)}]

\* The bookkeeping for one literal of a clause that is new in the database.
occurrence(s, cr, p) ==
    LET s1 == [s EXCEPT !.occurs[var(p)] = Append(@, cr), !.n_occ[p] = @ + 1,
                        !.touched = @ \cup {var(p)}]
    IN IF inHeap(s1.elim_heap, var(p))
       THEN [s1 EXCEPT !.elim_heap = increase(@, costs(s1), var(p))] ELSE s1

\* addClause_ of Solver and of SimpSolver.  s.ok is the answer.
addClause(s, lits) ==
    LET ps == ascending({p \in lits : value(s, p) # l_False})
        cr == Len(s.ca) + 1
        stored == attachClause([alloc(s, ps, FALSE, 0) EXCEPT !.clauses = Append(@, cr)], cr)
    IN IF ~s.ok \/ Tautology(lits) \/ (\E p \in lits : value(s, p) = l_True) THEN s
       ELSE IF ps = <<>> THEN [s EXCEPT !.ok = FALSE]
       ELSE IF Len(ps) = 1 THEN assertAtRoot(s, ps[1])
       ELSE FoldLeft(LAMBDA t, p : occurrence(t, cr, p),
                     [stored EXCEPT !.subsumption_queue = Append(@, cr)], ps)

simpRemoveClause(s, cr) ==
    LET lose(t, p) == updateElimHeap([t EXCEPT !.n_occ[p] = @ - 1,
                                               !.dirtyOccurs = @ \cup {var(p)}], var(p))
    IN removeClause(FoldLeft(lose, s, s.ca[cr].lits), cr)

\* OccLists::lookup: the list is cleaned of removed clauses first.
lookup(s, v) ==
    IF v \notin s.dirtyOccurs THEN s
    ELSE [s EXCEPT !.occurs[v] = SelectSeq(@, LAMBDA cr : s.ca[cr].mark # 1),
                   !.dirtyOccurs = @ \ {v}]

\* The literal p leaves clause cr: it is watched anew ...
shortened(s, cr, p) ==
    LET left == [detachStrict(s, cr) EXCEPT !.ca[cr].lits = strengthen(@, p),
                                            !.occurs[var(p)] = Remove(@, cr), !.n_occ[p] = @ - 1]
    IN updateElimHeap(attachClause(left, cr), var(p))

\* ... but a clause of two literals is removed, and its last literal is asserted.
\* s.ok is the answer.
strengthenClause(s, cr, p) ==
    LET s0 == [s EXCEPT !.subsumption_queue = Append(@, cr)]
        unit == strengthen(s.ca[cr].lits, p)[1]
        asserted(t) == IF value(t, unit) = l_Undef THEN assertAtRoot(t, unit)
                       ELSE [t EXCEPT !.ok = value(t, unit) = l_True]
    IN IF Len(s.ca[cr].lits) > 2 THEN shortened(s0, cr, p)
       ELSE asserted([simpRemoveClause(s0, cr) EXCEPT !.ca[cr].lits = <<unit>>])

\* The clauses of touched variables join the queue, each clause once.
gatherTouchedClauses(s) ==
    LET gather[v \in -1 .. nVars(s) - 1] ==
          IF v = -1 THEN s
          ELSE LET t == gather[v - 1]
                   u == lookup(t, v)
                   join(q, cr) == IF u.ca[cr].mark # 0 \/ cr \in ToSet(q) THEN q
                                  ELSE Append(q, cr)
               IN IF v \notin s.touched THEN t
                  ELSE [u EXCEPT !.subsumption_queue = FoldLeft(join, @, u.occurs[v])]
    IN [gather[nVars(s) - 1] EXCEPT !.touched = {}]

\* Clause c (cr, or a root literal as a clause) against the candidate d: d is
\* removed, shortened or left.
subsumeOne(s, c, cr, d) ==
    LET p == subsumes(c, s.ca[d].lits)
    IN IF \/ ~s.ok \/ s.ca[d].mark # 0 \/ d = cr
          \/ cr # CRef_Undef /\ s.ca[cr].mark # 0
          \/ subsumption_lim # -1 /\ Len(s.ca[d].lits) >= subsumption_lim
          \/ p = lit_Error
       THEN s
       ELSE IF p = lit_Undef THEN simpRemoveClause(s, d) ELSE strengthenClause(s, d, neg(p))

\* All candidates in the occurrence list of the variable that occurs least.
subsumeAll(s, c, cr) ==
    LET size(i) == Len(s.occurs[var(c[i])])
        best == var(c[Min({i \in DOMAIN c : \A j \in DOMAIN c : size(i) <= size(j)})])
        try(t) == FoldLeft(LAMBDA u, d : subsumeOne(u, c, cr, d), t, t.occurs[best])
    IN try(lookup(s, best))

\* One turn of the loop of backwardSubsumptionCheck: the next clause of the queue
\* or, when the queue is empty, the next literal of the trail.
subsumptionLeft(s) == s.subsumption_queue # <<>> \/ s.bwdsub_assigns < Len(s.trail)

subsumeNext(s) ==
    LET cr == Head(s.subsumption_queue)
        popped == [s EXCEPT !.subsumption_queue = Tail(@)]
        assigns == [s EXCEPT !.bwdsub_assigns = @ + 1]
    IN IF s.subsumption_queue # <<>> /\ s.ca[cr].mark # 0 THEN popped
       ELSE IF s.subsumption_queue # <<>> THEN subsumeAll(popped, s.ca[cr].lits, cr)
       ELSE subsumeAll(assigns, <<s.trail[assigns.bwdsub_assigns]>>, CRef_Undef)

(* ------------------------------ eliminateVar() ------------------------- *)

\* The pairs of clauses to resolve on v, in the order of the two loops.
pairsOn(s, v) ==
    LET has(cr) == mkLit(v, FALSE) \in ToSet(s.ca[cr].lits)
        pos == SelectSeq(s.occurs[v], has)
        negs == SelectSeq(s.occurs[v], LAMBDA cr : ~has(cr))
    IN FlattenSeq([i \in DOMAIN pos |-> [j \in DOMAIN negs |-> <<pos[i], negs[j]>>]])

resolventOf(s, pair, v) == Resolvent(ToSet(s.ca[pair[1]].lits), ToSet(s.ca[pair[2]].lits), v)

worthEliminating(s, v) ==
    LET kept == SelectSeq(pairsOn(s, v),
                    LAMBDA pair : merges(s.ca[pair[1]].lits, s.ca[pair[2]].lits, v))
    IN /\ Len(kept) <= Len(s.occurs[v]) + grow
       /\ clause_lim # -1 => \A i \in DOMAIN kept :
                                Cardinality(resolventOf(s, kept[i], v)) <= clause_lim

\* Mutant: the unit has the polarity of the clauses that are stored.
storedClauses_Broken(s, v) ==
    LET containing(p) == SelectSeq(s.occurs[v], LAMBDA cr : p \in ToSet(s.ca[cr].lits))
        p == mkLit(v, Len(containing(mkLit(v, FALSE))) > Len(containing(mkLit(v, TRUE))))
        rarer == containing(p)
    IN [i \in DOMAIN rarer |-> mkElimClause(s.ca[rarer[i]].lits, v)] \o <<<<p>>>>

\* The clauses of the rarer polarity, then the other polarity as a unit.
storedClauses(s, v) ==
    LET containing(p) == SelectSeq(s.occurs[v], LAMBDA cr : p \in ToSet(s.ca[cr].lits))
        p == mkLit(v, Len(containing(mkLit(v, FALSE))) > Len(containing(mkLit(v, TRUE))))
        rarer == containing(p)
    IN [i \in DOMAIN rarer |-> mkElimClause(s.ca[rarer[i]].lits, v)] \o <<<<neg(p)>>>>

\* eliminateVar without the backwardSubsumptionCheck it ends with.
eliminateVar(s, v) ==
    LET out == [s EXCEPT !.eliminated = @ \cup {v}, !.decision = @ \ {v},
                         !.elimclauses = @ \o storedClauses(s, v)]
        resolve1(t, pair) ==
          IF t.ok /\ merges(t.ca[pair[1]].lits, t.ca[pair[2]].lits, v)
          THEN addClause(t, resolventOf(t, pair, v)) ELSE t
        replaced(t) ==
          IF t.ok THEN [FoldLeft(simpRemoveClause, t, s.occurs[v]) EXCEPT !.occurs[v] = <<>>]
          ELSE t
    IN replaced(FoldLeft(resolve1, out, pairsOn(s, v)))

\* extendModel for one stored clause: its first literal is made true unless
\* another of its literals is true already.
extendOver(c, m) ==
    IF \E i \in 2 .. Len(c) : neg(c[i]) \notin m THEN m ELSE (m \ {neg(c[1])}) \cup {c[1]}

\* Mutant: the stored clauses are gone through in the order they were stored.
extendModel_Broken(s, m) == FoldLeft(LAMBDA a, c : extendOver(c, a), m, s.elimclauses)

\* From the last stored clause back to the first.
extendModel(s, m) == FoldRight(extendOver, s.elimclauses, m)
=============================================================================
