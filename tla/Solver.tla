------------------------------- MODULE Solver -------------------------------
(***************************************************************************)
(* The conflict-driven solver of glucose/core/Solver.cc, the part that the *)
(* program's calls reach: one thread, no assumptions, no certificate, not  *)
(* incremental.  The operations take the solver's fields as one record s   *)
(* and return the record they leave, in the order of the code's calls; the *)
(* steps of search() are actions of GlucoseSolver.                         *)
(*                                                                         *)
(* Left out: activities (any undecided variable may be picked),            *)
(* statistics, the exchange with other threads.                            *)
(* value() and level() are read off the trail, and the reason of a         *)
(* variable that is taken off the trail is reset: the code leaves the old  *)
(* one in place but reads it of assigned variables only.                   *)
(***************************************************************************)
EXTENDS Clauses, Heap

CONSTANTS
    lbLBDFrozenClause, lbSizeMinimizingClause, lbLBDMinimizingClause,
    lowLBDBound, highLBDBound

CRef_Undef == 0

l_True == "True"
l_False == "False"
l_Undef == "Undef"

\* The fields of a Solver just constructed; clause k of ca is the one CRef k names.
NewSolver ==
    [ca |-> <<>>, size |-> 0, wasted |-> 0, clauses |-> <<>>, learnts |-> <<>>,
     permanentLearnts |-> <<>>, chanseokStrategy |-> FALSE, coLBDBound |-> 0,
     watches |-> <<>>, watchesBin |-> <<>>, dirty |-> {},
     trail |-> <<>>, trail_lim |-> <<>>, reason |-> <<>>, qhead |-> 0,
     polarity |-> <<>>, forceUNSAT |-> <<>>, newDescent |-> FALSE,
     randomize_on_restarts |-> FALSE, decision |-> {}, order_heap |-> {},
     simpDB_assigns |-> -1, ok |-> TRUE]

nVars(s) == Cardinality(DOMAIN s.reason)

Lits(s) == {mkLit(v, b) : v \in DOMAIN s.reason, b \in BOOLEAN}

value(s, p) ==
    IF p \in ToSet(s.trail) THEN l_True
    ELSE IF neg(p) \in ToSet(s.trail) THEN l_False ELSE l_Undef

assigned(s, v) == value(s, mkLit(v, FALSE)) # l_Undef

trailPosition(s, v) == CHOOSE i \in DOMAIN s.trail : var(s.trail[i]) = v

decisionLevel(s) == Len(s.trail_lim)

level(s, v) == Cardinality({k \in DOMAIN s.trail_lim : s.trail_lim[k] < trailPosition(s, v)})

newVar(s, v) ==
    LET mine == {mkLit(v, FALSE), mkLit(v, TRUE)}
    IN [s EXCEPT !.reason = @ @@ (v :> CRef_Undef), !.polarity = @ @@ (v :> TRUE),
                 !.forceUNSAT = @ @@ (v :> 0),
                 !.watches = @ @@ [p \in mine |-> <<>>],
                 !.watchesBin = @ @@ [p \in mine |-> <<>>],
                 !.decision = @ \cup {v}, !.order_heap = @ \cup {v}]

uncheckedEnqueue(s, p, from) ==
    [s EXCEPT !.trail = Append(@, p), !.reason[var(p)] = from]

newDecisionLevel(s) == [s EXCEPT !.trail_lim = Append(@, Len(s.trail))]

\* The words a clause takes in the allocator: the header, the extra field, its literals.
clauseWord32Size(lits) == 3 + Len(lits)

\* The header and the literals of a new clause; search() sets the LBD at once.
NewClause(ps, isLearnt, nblevels) ==
    [lits |-> ps, learnt |-> isLearnt, lbd |-> nblevels, canBeDel |-> TRUE, mark |-> 0]

\* ClauseAllocator::alloc; the clause gets the CRef Len(ca) + 1.
alloc(s, ps, isLearnt, nblevels) ==
    [s EXCEPT !.ca = Append(@, NewClause(ps, isLearnt, nblevels)),
              !.size = @ + clauseWord32Size(ps)]

\* attachClause: a binary clause is watched in lists of its own.
attachClause(s, cr) ==
    LET c == s.ca[cr].lits
        watch(ws) == [ws EXCEPT ![neg(c[1])] = Append(@, [cref |-> cr, blocker |-> c[2]]),
                                ![neg(c[2])] = Append(@, [cref |-> cr, blocker |-> c[1]])]
    IN IF Len(c) = 2 THEN [s EXCEPT !.watchesBin = watch(@)]
                     ELSE [s EXCEPT !.watches = watch(@)]

\* detachClause with strict: the watchers leave their lists at once ...
detachStrict(s, cr) ==
    LET c == s.ca[cr].lits
        unwatch(ws) == [p \in DOMAIN ws |->
                          IF p \in {neg(c[1]), neg(c[2])}
                          THEN SelectSeq(ws[p], LAMBDA w : w.cref # cr) ELSE ws[p]]
    IN IF Len(c) = 2 THEN [s EXCEPT !.watchesBin = unwatch(@)]
                     ELSE [s EXCEPT !.watches = unwatch(@)]

\* ... and without: the lists are smudged, and cleanAll takes the watchers out later.
detachLazily(s, cr) ==
    LET c == s.ca[cr].lits IN [s EXCEPT !.dirty = @ \cup {neg(c[1]), neg(c[2])}]

cleanAll(s) ==
    LET clean(ws) == [p \in DOMAIN ws |->
                        IF p \in s.dirty
                        THEN SelectSeq(ws[p], LAMBDA w : s.ca[w.cref].mark # 1) ELSE ws[p]]
    IN IF s.dirty = {} THEN s
       ELSE [s EXCEPT !.watches = clean(@), !.watchesBin = clean(@), !.dirty = {}]

\* Either watched literal of a binary clause may be the one it implied.
locked(s, cr) ==
    LET c == s.ca[cr].lits
    IN \E i \in 1 .. (IF Len(c) > 2 THEN 1 ELSE 2) :
          value(s, c[i]) = l_True /\ s.reason[var(c[i])] = cr

removeClause(s, cr) ==
    LET detached == detachLazily(s, cr)
        c == s.ca[cr]
        unlocked == IF locked(s, cr) THEN [detached EXCEPT !.reason[var(c.lits[1])] = CRef_Undef]
                    ELSE detached
    IN [unlocked EXCEPT !.ca[cr].mark = 1, !.wasted = @ + clauseWord32Size(c.lits)]

satisfied(s, cr) == \E i \in DOMAIN s.ca[cr].lits : value(s, s.ca[cr].lits[i]) = l_True

computeLBD(s, lits) == Cardinality({level(s, v) : v \in vars(lits)})

\* The lower levels keep their assignments; the other variables return to the order
\* heap, and what they were is the polarity they are tried with next.
cancelUntil(s, lvl) ==
    LET keep == s.trail_lim[lvl + 1]
        lits == ToSet(SubSeq(s.trail, keep + 1, Len(s.trail)))
        undone == vars(lits)
    IN IF decisionLevel(s) <= lvl THEN s
       ELSE [s EXCEPT !.order_heap = @ \cup (undone \cap s.decision),
                      !.reason = [v \in DOMAIN @ |-> IF v \in undone THEN CRef_Undef ELSE @[v]],
                      !.polarity = [v \in DOMAIN @ |-> IF v \in undone
                                       THEN mkLit(v, TRUE) \in lits ELSE @[v]],
                      !.qhead = keep,
                      !.trail = SubSeq(@, 1, keep),
                      !.trail_lim = SubSeq(@, 1, lvl)]

\* The polarity pickBranchLit gives v.  After a restart it is the one that took no
\* part in conflicts; on every second level it is random, but the random bits
\* are a number below one cast to an integer, and so all zero.
pickBranchLit(s, v) ==
    mkLit(v, IF s.newDescent /\ s.randomize_on_restarts /\ decisionLevel(s) % 2 = 0 THEN FALSE
             ELSE IF s.newDescent /\ s.forceUNSAT[v] # 0 THEN s.forceUNSAT[v] < 0
             ELSE s.polarity[v])

(* ------------------------------ propagate() ---------------------------- *)

\* The binary clauses of the true literal p.  The first false one ends the call.
propagateBinary(s, p) ==
    LET visit(r, w) ==
          IF r.confl # CRef_Undef \/ value(r.s, w.blocker) = l_True THEN r
          ELSE IF value(r.s, w.blocker) = l_False THEN [r EXCEPT !.confl = w.cref]
          ELSE [r EXCEPT !.s = uncheckedEnqueue(@, w.blocker, w.cref)]
    IN FoldLeft(visit, [s |-> s, confl |-> CRef_Undef], s.watchesBin[p])

\* The clause that w watches through p: r is the state so far, r.keep the watchers
\* of p that stay.
visitClause(r, p, w) ==
    LET false_lit == neg(p)
        old == r.s.ca[w.cref].lits
        c == IF old[1] = false_lit THEN [old EXCEPT ![1] = old[2], ![2] = false_lit] ELSE old
        first == c[1]
        w2 == [cref |-> w.cref, blocker |-> first]
        s == [r.s EXCEPT !.ca[w.cref].lits = c]
        stay == [r EXCEPT !.s = s, !.keep = Append(@, w2)]
        free == {k \in 3 .. Len(c) : value(s, c[k]) # l_False}
    IN IF first # w.blocker /\ value(s, first) = l_True THEN stay
       ELSE IF free # {}
       THEN LET k == Min(free)
                moved == [c EXCEPT ![2] = c[k], ![k] = false_lit]
            IN [r EXCEPT !.s = [s EXCEPT !.ca[w.cref].lits = moved,
                                         !.watches[neg(c[k])] = Append(@, w2)]]
       ELSE IF value(s, first) = l_False
       THEN [stay EXCEPT !.confl = w.cref, !.s.qhead = Len(s.trail)]
       ELSE [stay EXCEPT !.s = uncheckedEnqueue(@, first, w.cref)]

\* Mutant: the watchers behind the one of a false clause are lost.
visitWatcher_Broken(r, p, w) ==
    IF r.confl # CRef_Undef THEN r
    ELSE IF value(r.s, w.blocker) = l_True THEN [r EXCEPT !.keep = Append(@, w)]
    ELSE visitClause(r, p, w)

visitWatcher(r, p, w) ==
    IF r.confl # CRef_Undef \/ value(r.s, w.blocker) = l_True
    THEN [r EXCEPT !.keep = Append(@, w)]
    ELSE visitClause(r, p, w)

\* r is what the binary clauses left.
propagateLong(r, p) ==
    LET kept(t) == [s |-> [t.s EXCEPT !.watches[p] = t.keep], confl |-> t.confl]
    IN IF r.confl # CRef_Undef THEN r
       ELSE kept(FoldLeft(LAMBDA t, w : visitWatcher(t, p, w),
                          [s |-> r.s, confl |-> CRef_Undef, keep |-> <<>>], r.s.watches[p]))

propagateNext(s) ==
    LET p == s.trail[s.qhead + 1]
    IN propagateLong(propagateBinary([s EXCEPT !.qhead = @ + 1], p), p)

\* [s, confl]: the state and the clause that became false, if one did.
propagate(s) ==
    LET next(r) == IF r.confl # CRef_Undef \/ r.s.qhead = Len(r.s.trail) THEN r
                   ELSE propagateNext(r.s)
        done[k \in 0 .. nVars(s)] ==
          IF k = 0 THEN [s |-> cleanAll(s), confl |-> CRef_Undef] ELSE next(done[k - 1])
    IN done[nVars(s)]

\* A literal that holds at the root level is asserted and propagated; s.ok is the answer.
assertAtRoot(s, p) ==
    LET settled(r) == [r.s EXCEPT !.ok = r.confl = CRef_Undef]
    IN settled(propagate(uncheckedEnqueue(s, p, CRef_Undef)))

(* ------------------------------ analyze() ------------------------------ *)

\* The first literal of a binary antecedent has to be the true one.
facing(s, cr) ==
    LET c == s.ca[cr].lits
    IN IF Len(c) = 2 /\ value(s, c[1]) = l_False
       THEN [s EXCEPT !.ca[cr].lits = <<c[2], c[1]>>] ELSE s

\* With Chanseok Oh's strategy clauses of a low LBD are kept for good.
permanent(s, nblevels) == s.chanseokStrategy /\ nblevels <= s.coLBDBound

\* vec::remove: the last element takes the place.
removed(list, cr) ==
    LET i == CHOOSE i \in DOMAIN list : list[i] = cr
    IN IF cr \in ToSet(list) THEN Front([list EXCEPT ![i] = Last(list)]) ELSE list

\* A learnt clause whose literals have come to share levels is worth keeping.
improveLBD(s, cr) ==
    LET c == s.ca[cr]
        nblevels == computeLBD(s, ToSet(c.lits))
        frozen == [s EXCEPT !.ca[cr].canBeDel = @ /\ c.lbd > lbLBDFrozenClause]
    IN IF ~c.learnt \/ c.lbd <= 2 \/ nblevels + 1 >= c.lbd THEN s
       ELSE IF permanent(s, nblevels)
       THEN [frozen EXCEPT !.ca[cr].learnt = FALSE, !.learnts = removed(@, cr),
                           !.permanentLearnts = Append(@, cr)]
       ELSE [frozen EXCEPT !.ca[cr].lbd = nblevels]

\* One antecedent is resolved on p: a.out collects the literals of lower levels,
\* a.open are the variables of the current level still to resolve (pathC of them).
explore(a, s) ==
    LET c == s.ca[a.confl].lits
        others == IF a.p = lit_Undef THEN c ELSE Tail(c)
        fresh == SelectSeq(others, LAMBDA q : var(q) \notin a.seen /\ level(s, var(q)) > 0)
        isLower(q) == level(s, var(q)) < decisionLevel(s)
        bumpForceUNSAT(force, q) == [force EXCEPT ![var(q)] = IF q % 2 = 0 THEN -1 ELSE 1]
    IN [s |-> [s EXCEPT !.forceUNSAT = FoldLeft(bumpForceUNSAT, @, fresh)],
        p |-> a.p, confl |-> a.confl, seen |-> a.seen \cup vars(ToSet(fresh)),
        out |-> a.out \o SelectSeq(fresh, isLower),
        open |-> a.open \cup {var(q) : q \in {q \in ToSet(fresh) : ~isLower(q)}}]

\* The last of these on the trail is next.
advance(a) ==
    LET last == Max({trailPosition(a.s, v) : v \in a.open})
    IN [a EXCEPT !.p = a.s.trail[last], !.confl = a.s.reason[var(a.s.trail[last])],
                 !.open = @ \ {var(a.s.trail[last])}]

resolve(a) ==
    LET antecedent == IF a.p = lit_Undef THEN a.s ELSE facing(a.s, a.confl)
    IN advance(explore(a, improveLBD(antecedent, a.confl)))

\* The first unique implication point: the asserting literal, then the lower levels.
firstUIP(s, confl) ==
    LET next(a) == IF a.p # lit_Undef /\ a.open = {} THEN a ELSE resolve(a)
        done[k \in 0 .. nVars(s)] ==
          IF k = 0 THEN [s |-> s, seen |-> {}, out |-> <<>>, open |-> {},
                         p |-> lit_Undef, confl |-> confl]
          ELSE next(done[k - 1])
        learnt(a) == [s |-> a.s, lits |-> <<neg(a.p)>> \o a.out]
    IN learnt(done[nVars(s)])

\* litRedundant: the antecedents of p, the last one found first, back to the
\* literals in seen and to the root level; fails at a decision and outside the
\* levels of the clause, and takes back its marks.
litRedundant(s, p, seen, levels) ==
    LET explored(r, t, cr) ==
          LET fresh == SelectSeq(Tail(t.ca[cr].lits), LAMBDA q : var(q) \notin r.seen /\ level(t, var(q)) > 0)
              goesOn(q) == t.reason[var(q)] # CRef_Undef /\ level(t, var(q)) \in levels
          IN IF \A q \in ToSet(fresh) : goesOn(q)
             THEN [r EXCEPT !.s = t, !.seen = @ \cup vars(ToSet(fresh)), !.stack = Front(@) \o fresh]
             ELSE [s |-> t, seen |-> seen, stack |-> <<>>, redundant |-> FALSE]
        next(r) ==
          IF r.stack = <<>> THEN r
          ELSE LET cr == r.s.reason[var(Last(r.stack))] IN explored(r, facing(r.s, cr), cr)
        done[k \in 0 .. nVars(s)] ==
          IF k = 0 THEN [s |-> s, seen |-> seen, stack |-> <<p>>, redundant |-> TRUE]
          ELSE next(done[k - 1])
    IN done[nVars(s)]

\* The literals of lower levels that the others imply go, one after the other:
\* what was marked for one that goes stays marked for the next.
minimise(s, lits) ==
    LET lower == Tail(lits)
        levels == {level(s, var(q)) : q \in ToSet(lower)}
        result(m, q, r) == [s |-> r.s, seen |-> r.seen,
                            lits |-> IF r.redundant THEN m.lits ELSE Append(m.lits, q)]
        ask(m, q) == IF m.s.reason[var(q)] = CRef_Undef THEN [m EXCEPT !.lits = Append(@, q)]
                     ELSE result(m, q, litRedundant(m.s, q, m.seen, levels))
    IN FoldLeft(ask, [s |-> s, seen |-> vars(ToSet(lower)), lits |-> <<lits[1]>>], lower)

\* A literal is dropped if a binary clause with the asserting literal implies it;
\* the last literals move into the places of the dropped ones.
minimisationWithBinaryResolution(s, lits) ==
    LET bins == {w.blocker : w \in ToSet(s.watchesBin[neg(lits[1])])}
        kept(p) == p = lits[1] \/ ~(neg(p) \in bins /\ value(s, neg(p)) = l_True)
        n == Len(SelectSeq(lits, kept))
        movers == Reverse(SelectSeq(SubSeq(lits, n + 1, Len(lits)), kept))
        place(i) == IF kept(lits[i]) THEN lits[i]
                    ELSE movers[Cardinality({j \in 1 .. i : ~kept(lits[j])})]
    IN IF \/ Len(lits) > lbSizeMinimizingClause
          \/ computeLBD(s, ToSet(lits)) > lbLBDMinimizingClause
       THEN lits ELSE [i \in 1 .. n |-> place(i)]

\* The literal of the highest remaining level becomes the second one.
backjump(s, lits) ==
    LET at(i) == level(s, var(lits[i]))
        max_i == Min({i \in 2 .. Len(lits) : \A j \in 2 .. Len(lits) : at(j) <= at(i)})
    IN IF Len(lits) = 1 THEN [lits |-> lits, btlevel |-> 0]
       ELSE [lits |-> [lits EXCEPT ![2] = lits[max_i], ![max_i] = lits[2]],
             btlevel |-> at(max_i)]

\* The learnt clause, the level to return to and the clause's LBD.
analyze(s, confl) ==
    LET resolved(m) == [s |-> m.s, lits |-> minimisationWithBinaryResolution(m.s, m.lits)]
        minimised(uip) == resolved(minimise(uip.s, uip.lits))
        result(t, back) == [s |-> t, lits |-> back.lits, btlevel |-> back.btlevel,
                            lbd |-> computeLBD(t, ToSet(back.lits))]
        finish(uip) == result(uip.s, backjump(uip.s, uip.lits))
    IN finish(minimised(firstUIP(s, confl)))

\* What search() does after analyze: return to the level, store the clause, assert.
learn(a) ==
    LET listed(s, cr) ==
          IF permanent(s, a.lbd)
          THEN [alloc(s, a.lits, FALSE, 0) EXCEPT !.permanentLearnts = Append(@, cr)]
          ELSE [alloc(s, a.lits, TRUE, a.lbd) EXCEPT !.learnts = Append(@, cr)]
        store(s, cr) == attachClause(listed(s, cr), cr)
        assert(s, cr) ==
          IF Len(a.lits) = 1 THEN uncheckedEnqueue(s, a.lits[1], CRef_Undef)
          ELSE uncheckedEnqueue(store(s, cr), a.lits[1], cr)
    IN assert(cancelUntil(a.s, a.btlevel), Len(a.s.ca) + 1)

-----------------------------------------------------------------------------
(***************************************************************************)
(* How clauses leave the solver: removal of satisfied and of weak learnt   *)
(* clauses, and the garbage collection that moves the others to a new      *)
(* memory and gives every reference to them a new value.  garbageCollect   *)
(* is virtual and the program only makes SimpSolvers, so the record s has  *)
(* the fields of a SimpSolver here (its occurrence lists and its queue     *)
(* refer to clauses too).                                                  *)
(***************************************************************************)
\* SimpSolver::cleanUpClauses
cleanUpClauses(s) ==
    [s EXCEPT !.occurs = [v \in DOMAIN @ |-> IF v \in s.dirtyOccurs
                              THEN SelectSeq(@[v], LAMBDA cr : s.ca[cr].mark # 1) ELSE @[v]],
              !.dirtyOccurs = {},
              !.clauses = SelectSeq(@, LAMBDA cr : s.ca[cr].mark = 0)]

\* Every reference the two relocAll meet, in their order.
references(s) ==
    LET ordered == ascending(Lits(s))
        occurring == FlattenSeq([v \in 1 .. nVars(s) |-> s.occurs[v - 1]])
        crefs(ws) == [k \in DOMAIN ws |-> ws[k].cref]
        watched == FlattenSeq([i \in DOMAIN ordered |->
                      crefs(s.watches[ordered[i]]) \o crefs(s.watchesBin[ordered[i]])])
        reasons == SelectSeq([i \in DOMAIN s.trail |-> s.reason[var(s.trail[i])]],
                             LAMBDA cr : cr # CRef_Undef /\ locked(s, cr))
    IN occurring \o s.subsumption_queue \o watched \o reasons
         \o s.learnts \o s.permanentLearnts \o s.clauses

\* The first time a clause is met it is copied behind the ones met before.
copied(refs) ==
    LET first == {i \in DOMAIN refs : \A j \in 1 .. i - 1 : refs[j] # refs[i]}
        order == ascending(first)
    IN [k \in DOMAIN order |-> refs[order[k]]]

\* order: the clauses in their new places.  A reference to a clause that was not
\* copied keeps its old value.
relocated(s, order) ==
    LET to(cr) == IF cr \notin ToSet(order) THEN cr
                  ELSE CHOOSE k \in DOMAIN order : order[k] = cr
        moved(refs) == [k \in DOMAIN refs |-> to(refs[k])]
        rewatched(ws) == [p \in DOMAIN ws |->
                            [k \in DOMAIN ws[p] |-> [ws[p][k] EXCEPT !.cref = to(@)]]]
    IN [s EXCEPT !.ca = [k \in DOMAIN order |-> @[order[k]]],
                 !.size = FoldLeft(LAMBDA sum, cr : sum + clauseWord32Size(s.ca[cr].lits),
                                   clauseWord32Size(<<lit_Undef>>), order),
                 !.wasted = 0,
                 !.watches = rewatched(@), !.watchesBin = rewatched(@),
                 !.reason = [v \in DOMAIN @ |-> to(@[v])],
                 !.learnts = moved(@), !.permanentLearnts = moved(@), !.clauses = moved(@),
                 !.occurs = [v \in DOMAIN @ |-> moved(@[v])],
                 !.subsumption_queue = moved(@)]

relocAll(s) == relocated(s, copied(references(s)))

garbageCollect(s) == relocAll(cleanAll(cleanUpClauses(s)))

\* The memory is collected when a fifth of it is wasted, half of it during simplification.
checkGarbage(s, fraction) == IF s.wasted * fraction > s.size THEN garbageCollect(s) ELSE s

GarbageFrac == 5
SimpGarbageFrac == 2

removeSatisfied(s) ==
    LET gone(cr) == satisfied(s, cr)
        left(cr) == ~gone(cr)
    IN [FoldLeft(removeClause, s, SelectSeq(s.learnts \o s.permanentLearnts, gone))
          EXCEPT !.learnts = SelectSeq(@, left), !.permanentLearnts = SelectSeq(@, left)]

rebuildOrderHeap(s) ==
    [s EXCEPT !.order_heap = {v \in s.decision : ~assigned(s, v)}]

\* due: enough propagations since the last time.  The clauses of the problem stay:
\* a SimpSolver turns remove_satisfied off.
simplify(s, due) ==
    LET simplified(r) ==
          IF ~s.ok \/ r.confl # CRef_Undef THEN [r.s EXCEPT !.ok = FALSE]
          ELSE IF Len(r.s.trail) = r.s.simpDB_assigns \/ ~due THEN r.s
          ELSE [rebuildOrderHeap(checkGarbage(removeSatisfied(r.s), GarbageFrac))
                  EXCEPT !.simpDB_assigns = Len(r.s.trail)]
    IN simplified(propagate(s))

\* The orders in which sort() may leave the learnt clauses: binary ones last, of
\* the others a higher LBD first, unless the strategy is Chanseok Oh's.  For the
\* rest the activities decide; here they grow or fall with the age of the clause.
reduceDB_lt(s, x, y) ==
    /\ Len(s.ca[x].lits) > 2
    /\ Len(s.ca[y].lits) = 2 \/ (~s.chanseokStrategy /\ s.ca[x].lbd > s.ca[y].lbd)

sortedLearnts(s, older) ==
    LET before(x, y) == reduceDB_lt(s, x, y)
                          \/ (~reduceDB_lt(s, y, x) /\ IF older THEN x < y ELSE y < x)
    IN [k \in DOMAIN s.learnts |->
           CHOOSE x \in ToSet(s.learnts) :
              Cardinality({y \in ToSet(s.learnts) : before(y, x)}) = k - 1]

\* From the first half the clauses go that are neither binary nor locked nor kept
\* for a turn; each of the latter lets the sweep reach one clause further.
reduceDB(s, order) ==
    LET visit(r, k) ==
          LET c == r.s.ca[order[k]]
          IN IF /\ c.lbd > 2 /\ Len(c.lits) > 2 /\ c.canBeDel
                /\ ~locked(r.s, order[k]) /\ k <= r.limit
             THEN [r EXCEPT !.s = removeClause(@, order[k])]
             ELSE [s |-> [r.s EXCEPT !.ca[order[k]].canBeDel = TRUE],
                   limit |-> r.limit + (IF c.canBeDel THEN 0 ELSE 1),
                   kept |-> Append(r.kept, order[k])]
        left(r) == [r.s EXCEPT !.learnts = r.kept]
    IN checkGarbage(left(FoldLeftDomain(visit,
                       [s |-> s, limit |-> Len(order) \div 2, kept |-> <<>>], order)),
                    GarbageFrac)

\* After many conflicts: low, if few decisions were made per conflict, and high, if
\* conflicts often came one after the other.  The other adjustments do not change
\* what is modelled.
adaptSolver(s, low, high) ==
    LET bound == IF high THEN highLBDBound ELSE lowLBDBound
        good(cr) == s.ca[cr].lbd <= bound
        others == SelectSeq(s.learnts, LAMBDA cr : ~good(cr))
        moved == [s EXCEPT !.chanseokStrategy = TRUE, !.coLBDBound = bound,
                           !.randomize_on_restarts = high, !.learnts = others,
                           !.permanentLearnts = @ \o SelectSeq(s.learnts, good)]
        reinit == [FoldLeft(removeClause, moved, others) EXCEPT !.learnts = <<>>]
    IN IF low THEN checkGarbage(reinit, GarbageFrac) ELSE IF high THEN moved ELSE s
=============================================================================
