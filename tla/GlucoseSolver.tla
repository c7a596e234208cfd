---------------------------- MODULE GlucoseSolver ----------------------------
(***************************************************************************)
(* One run of the solver as the program makes it (inc/glucose.h): a fresh  *)
(* SimpSolver is given the clauses one by one, simplifies them, searches,  *)
(* and answers.  The loops of eliminate() and search() take one action per *)
(* turn; inside a turn nothing else runs.                                  *)
(*                                                                         *)
(* Bounds: the formulas; MaxRestart restarts and MaxReduce reductions of   *)
(* the learnt clauses (the code's intervals between them grow without      *)
(* bound); ConflictsToAdapt for the 100000 conflicts after which the code  *)
(* adapts its strategies.  What decides with floating point numbers and    *)
(* counters (whether a restart, a reduction or a clean-up is due, which    *)
(* undecided variable is the most active) is a choice.                     *)
(***************************************************************************)
EXTENDS SimpSolver

CONSTANTS Formulas,     \* sequences of clauses, each a set of literals
          Unprocessed,  \* the ones that are also solved with do_simp = false
          ConflictsToAdapt,
          MaxRestart, MaxReduce,
          FirstReduceDB,
          MissingReturn \* what eliminate() may return where it has no return statement

ASSUME BoundsAssumption ==
    /\ ConflictsToAdapt \in Nat \ {0} /\ FirstReduceDB \in Nat \ {0}
    /\ MaxRestart \in Nat /\ MaxReduce \in Nat

ASSUME UnprocessedAssumption == Unprocessed \subseteq Formulas

ASSUME MissingReturnAssumption == MissingReturn \subseteq BOOLEAN

VARIABLES formula,
          next,       \* the clause to be added next
          s,          \* the solver
          pc,         \* where in solve_() the run is
          confl,      \* the clause the last propagate() returned
          conflicts,  \* how many there were, up to ConflictsToAdapt
          restarts, reductions, \* how often search() was left, how often reduceDB has run
          collect,    \* eliminateVar is under way, not the loop's first check
          answer,
          model

vars_ == <<formula, next, s, pc, confl, conflicts, restarts, reductions, collect, answer, model>>

Init ==
    /\ formula \in Formulas
    /\ next = 1
    /\ s = NewSimpSolver
    /\ pc = "add"
    /\ confl = CRef_Undef /\ conflicts = 0 /\ restarts = 0 /\ reductions = 0 /\ collect = FALSE
    /\ answer = "None" /\ model = {}

searching == UNCHANGED <<formula, next, collect, answer, model>>

simplifying == UNCHANGED <<formula, next, confl, conflicts, restarts, reductions, model>>

\* readClause: the variables up to the clause's, then the clause.  The answer of
\* addClause_ is not looked at.
ReadClause ==
    /\ pc = "add" /\ next <= Len(formula)
    /\ LET missing == {v \in 0 .. Max(vars(formula[next])) : v \notin DOMAIN s.reason}
       IN s' = addClause(FoldLeft(simpNewVar, s, ascending(missing)), formula[next])
    /\ next' = next + 1
    /\ UNCHANGED <<formula, pc, confl, conflicts, restarts, reductions, collect, answer, model>>

\* eliminate() begins with what the solver's own simplification finds.
eliminate == s' = simplify(s, TRUE) /\ pc' = IF s'.ok THEN "simplify" ELSE "answer"

\* solve_: with the preprocessor, as the program calls it, or without, which lets
\* short formulas reach more of search().
Solve ==
    /\ pc = "add" /\ next > Len(formula)
    /\ \E do_simp \in {TRUE, formula \notin Unprocessed} :
          IF do_simp
          THEN eliminate
          ELSE s' = s /\ pc' = IF s.ok THEN "search" ELSE "answer"
    /\ answer' = IF pc' = "answer" THEN l_False ELSE answer
    /\ UNCHANGED collect /\ simplifying

(* ------------------------------- eliminate() --------------------------- *)

moreToSimplify == s.touched # {} \/ s.bwdsub_assigns < Len(s.trail) \/ s.elim_heap # <<>>

GatherTouched ==
    /\ pc = "simplify" /\ moreToSimplify
    /\ s' = gatherTouchedClauses(s)
    /\ collect' = FALSE /\ pc' = "subsume"
    /\ UNCHANGED answer /\ simplifying

SubsumeNext ==
    /\ pc = "subsume" /\ subsumptionLeft(s)
    /\ s' = subsumeNext(s)
    /\ pc' = IF s'.ok THEN "subsume" ELSE "cleanup"
    /\ UNCHANGED <<collect, answer>> /\ simplifying

\* Between two variables the memory may be collected; the heap is empty in the end.
NextVariable(t) ==
    /\ s' = IF collect THEN checkGarbage(t, SimpGarbageFrac) ELSE t
    /\ pc' = IF t.elim_heap = <<>> THEN "simplify" ELSE "eliminate"

SubsumptionDone ==
    /\ pc = "subsume" /\ ~subsumptionLeft(s)
    /\ NextVariable(s)
    /\ UNCHANGED <<collect, answer>> /\ simplifying

EliminateVar ==
    /\ pc = "eliminate"
    /\ LET v == s.elim_heap[1]
           t == lookup([s EXCEPT !.elim_heap = removeMin(@, costs(s))], v)
       IN IF v \in s.eliminated \/ assigned(s, v)
          THEN /\ s' = [t EXCEPT !.occurs = s.occurs, !.dirtyOccurs = s.dirtyOccurs]
               /\ UNCHANGED collect
               /\ pc' = IF t.elim_heap = <<>> THEN "simplify" ELSE "eliminate"
          ELSE /\ collect' = TRUE
               /\ IF ~worthEliminating(t, v)
                  THEN /\ s' = checkGarbage(t, SimpGarbageFrac)
                       /\ pc' = IF t.elim_heap = <<>> THEN "simplify" ELSE "eliminate"
                  ELSE /\ s' = eliminateVar(t, v)
                       /\ pc' = IF s'.ok THEN "subsume" ELSE "cleanup"
    /\ UNCHANGED answer /\ simplifying

\* The return statement is the body of an if: it is reached only if a variable was
\* eliminated.  Otherwise the value is whatever the build leaves there.
returned(t) == {t.ok} \cup (IF t.elimclauses = <<>> THEN MissingReturn ELSE {})

FinishElimination ==
    /\ pc = "cleanup" \/ (pc = "simplify" /\ ~moreToSimplify)
    /\ s' = checkGarbage(cleanUpClauses(s), GarbageFrac)
    /\ \E result \in returned(s) :
          IF result /\ s.ok THEN pc' = "search" /\ UNCHANGED answer
          ELSE pc' = "answer" /\ answer' = l_False
    /\ UNCHANGED collect /\ simplifying

(* -------------------------------- search() ----------------------------- *)

Propagate ==
    /\ pc = "search"
    /\ \E r \in {propagate(s)} :
          /\ confl' = r.confl
          /\ s' = [r.s EXCEPT !.newDescent = @ /\ r.confl = CRef_Undef]
    /\ pc' = IF confl' = CRef_Undef THEN "consistent" ELSE "conflict"
    /\ UNCHANGED <<conflicts, restarts, reductions>> /\ searching

\* A conflict at the root level.
Unsatisfiable ==
    /\ pc = "conflict" /\ decisionLevel(s) = 0
    /\ answer' = l_False /\ s' = [s EXCEPT !.ok = FALSE] /\ pc' = "answer"
    /\ UNCHANGED <<formula, next, confl, conflicts, restarts, reductions, collect, model>>

\* Before the conflict at which the strategies are adapted, and after it.
Conflict ==
    /\ pc = "conflict" /\ decisionLevel(s) > 0 /\ conflicts # ConflictsToAdapt - 1
    /\ s' = learn(analyze(s, confl))
    /\ conflicts' = Min({conflicts + 1, ConflictsToAdapt})
    /\ confl' = CRef_Undef /\ pc' = "search"
    /\ UNCHANGED <<restarts, reductions>> /\ searching

\* That conflict is dropped: the search starts again from the root level.
Adapt ==
    /\ pc = "conflict" /\ decisionLevel(s) > 0 /\ conflicts = ConflictsToAdapt - 1
    /\ \E low, high \in BOOLEAN : s' = adaptSolver(cancelUntil(s, 0), low, high)
    /\ conflicts' = ConflictsToAdapt /\ confl' = CRef_Undef /\ pc' = "search"
    /\ UNCHANGED <<restarts, reductions>> /\ searching

Restart ==
    /\ pc = "consistent" /\ conflicts > 0 /\ restarts < MaxRestart
    /\ s' = [cancelUntil(s, 0) EXCEPT !.newDescent = TRUE]
    /\ restarts' = restarts + 1 /\ pc' = "search"
    /\ UNCHANGED <<confl, conflicts, reductions>> /\ searching

\* No restart: at the root level the database is simplified, and it may be reduced.
Continue ==
    /\ pc = "consistent"
    /\ \E t \in IF decisionLevel(s) = 0 THEN {simplify(s, due) : due \in BOOLEAN} ELSE {s} :
          \/ s' = t /\ UNCHANGED reductions
          \/ /\ reductions < MaxReduce /\ Len(t.learnts) >= FirstReduceDB
             /\ reductions' = reductions + 1
             /\ \E older \in BOOLEAN : s' = reduceDB(t, sortedLearnts(t, older))
    /\ pc' = "decide"
    /\ UNCHANGED <<confl, conflicts, restarts>> /\ searching

undecided == {v \in s.order_heap \cap s.decision : ~assigned(s, v)}

\* pickBranchLit: the variables it skips leave the heap.
Decide ==
    /\ pc = "decide"
    /\ \E v \in undecided :
          s' = uncheckedEnqueue(newDecisionLevel([s EXCEPT !.order_heap = undecided \ {v}]),
                                pickBranchLit(s, v), CRef_Undef)
    /\ pc' = "search"
    /\ UNCHANGED <<confl, conflicts, restarts, reductions>> /\ searching

\* No variable is left to decide: the trail is the model, extended over the
\* eliminated variables.
ModelFound ==
    /\ pc = "decide" /\ undecided = {}
    /\ model' = extendModel(s, ToSet(s.trail))
    /\ answer' = l_True /\ pc' = "answer"
    /\ s' = cancelUntil([s EXCEPT !.order_heap = {}], 0)
    /\ UNCHANGED <<formula, next, confl, conflicts, restarts, reductions, collect>>

Next ==
    \/ ReadClause \/ Solve
    \/ GatherTouched \/ SubsumeNext \/ SubsumptionDone \/ EliminateVar \/ FinishElimination
    \/ Propagate \/ Unsatisfiable \/ Conflict \/ Adapt \/ Restart \/ Continue
    \/ Decide \/ ModelFound

Done == pc = "answer" /\ UNCHANGED vars_

\* One thread that runs its loops to the end.  This is WF_vars_(Next): Next is
\* enabled until there is an answer, as the check for deadlocks shows, and written
\* so TLC need not evaluate ENABLED Next.
Fairness == []<>(pc = "answer") \/ []<><<TRUE>>_vars_

Spec == Init /\ [][Next \/ Done]_vars_ /\ Fairness

-----------------------------------------------------------------------------

live == {cr \in DOMAIN s.ca : s.ca[cr].mark # 1}

problem == {cr \in ToSet(s.clauses) : s.ca[cr].mark # 1}

litsOf(cr) == ToSet(s.ca[cr].lits)

rootLevel == {s.trail[i] : i \in 1 .. (IF s.trail_lim = <<>> THEN Len(s.trail) ELSE s.trail_lim[1])}

added == {formula[i] : i \in 1 .. next - 1}

V == DOMAIN s.reason

solutions == Models(V, added)

\* Whatever resolution, subsumption, learning and minimisation leave in the
\* database follows from the clauses that were added, and so do the assignments
\* of the root level.
ClausesImplied ==
    pc \notin {"consistent", "conflict", "decide"} => \A a \in solutions :
       /\ \A cr \in live : Satisfies(a, litsOf(cr))
       /\ rootLevel \subseteq a

\* After propagate() no clause is false or has one literal left to assert,
\* although each clause is looked at only when one of two literals becomes false.
PropagationComplete ==
    pc \in {"consistent", "decide"} =>
       \A cr \in live :
          \/ \E p \in litsOf(cr) : value(s, p) = l_True
          \/ Cardinality({p \in litsOf(cr) : value(s, p) = l_Undef}) > 1

\* The clauses that simplification leaves have, extended over the eliminated
\* variables from the stored clauses, exactly solutions of the formula.
EliminationSound ==
    pc \in {"add", "simplify", "eliminate", "answer"} /\ s.ok =>
       \A a \in Assignments(V \ s.eliminated) :
          rootLevel \subseteq a /\ (\A cr \in problem : Satisfies(a, litsOf(cr)))
             => extendModel(s, a) \in solutions

\* Every clause is in one of the lists, and what elimination decides by, the lists
\* of occurrences and their counts, agrees with the clauses of the problem.  The
\* list of permanent clauses may name one twice: adaptSolver moves it there and
\* analyze, which finds it still marked as learnt, moves it again.
ListsExact ==
    s.ok =>
       /\ UNION {problem, ToSet(s.learnts), ToSet(s.permanentLearnts)} = live
       /\ \A i \in DOMAIN s.learnts :
             s.learnts[i] \notin problem \cup ToSet(s.permanentLearnts)
                               \cup ToSet(SubSeq(s.learnts, i + 1, Len(s.learnts)))
       /\ \A v \in V : v \notin s.eliminated =>
             {cr \in ToSet(s.occurs[v]) : s.ca[cr].mark # 1}
                = {cr \in problem : v \in vars(litsOf(cr))}
       /\ \A p \in Lits(s) : s.n_occ[p] = Cardinality({cr \in problem : p \in litsOf(cr)})
       /\ HeapOrdered(s.elim_heap, costs(s))

Promise == INSTANCE SATPromise

ImplementsSATPromise == Promise!Spec
=============================================================================
