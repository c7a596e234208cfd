-------------------------- MODULE ParallelSolving ---------------------------
(***************************************************************************)
(* How the threads of the parallel solver come to one answer:              *)
(* MultiSolvers::solve, which starts them, waits to be told that one is    *)
(* done and joins them, ParallelSolver::solve_, which each of them runs,   *)
(* and SharedCompanion, through which they tell each other of literals     *)
(* they have proved and of the end of the job.                             *)
(* The search of a thread enters through what the module GlucoseSolver is  *)
(* about: it may prove literals, and end with a model or with the proof    *)
(* that there is none.  Every operation of SharedCompanion holds its mutex *)
(* and is one step.                                                        *)
(***************************************************************************)
EXTENDS Integers, Sequences

CONSTANTS
    nbsolvers,
    Vars,
    Formulas,     \* each formula as the set of its models
    Eliminations  \* the sets of variables that eliminate() may have removed from it

Threads == 1 .. nbsolvers

\* What the module takes for granted of its constants.
ParallelSolvingAssumption ==
    /\ nbsolvers \in Nat \ {0}
    /\ \A f \in Formulas : f \subseteq [Vars -> BOOLEAN]
    /\ Eliminations \subseteq SUBSET Vars

VARIABLES
    formula,
    eliminated,     \* the variables removed before the threads are made; never changes
    pc,             \* of each thread
    status,         \* what the latest search() of a thread returned
    known,          \* the literals a thread has assigned at level 0
    unitLit, nextUnit,                      \* SharedCompanion
    bjobFinished, jobFinishedBy, jobStatus, \* SharedCompanion
    assigns,        \* the assignment at which the search of a thread ended
    model,          \* of each thread
    main,           \* where MultiSolvers::solve is
    result, solution  \* MultiSolvers: its answer and its model

shared == <<unitLit, nextUnit, bjobFinished, jobFinishedBy, jobStatus>>
vars == <<formula, eliminated, pc, status, known, shared, assigns, model, main, result, solution>>

\* A literal is a variable and the value that makes it true.
Lits == Vars \X BOOLEAN

Implied(l) == \A m \in formula : m[l[1]] = l[2]

\* The threads work on what is left of the formula; what they find are models
\* of it without the eliminated variables.
Kept == Vars \ eliminated
Restricted(m) == [v \in Kept |-> m[v]]

\* extendModel: values for the eliminated variables that make a model of the
\* formula, if there are any.
extendModel(m) ==
    LET same == {n \in [Vars -> BOOLEAN] : Restricted(n) = m}
    IN IF same \cap formula # {} THEN same \cap formula ELSE same

\* What value() says of variables at level 0.
Assigned(t) == {l[1] : l \in known[t]}

NoModel == <<>>

Init ==
    /\ formula \in Formulas
    /\ eliminated \in Eliminations
    /\ pc = [t \in Threads |-> "created"]
    /\ status = [t \in Threads |-> "l_Undef"]
    /\ known = [t \in Threads |-> {}]
    /\ unitLit = <<>> /\ nextUnit = [t \in Threads |-> 1]
    /\ bjobFinished = FALSE /\ jobFinishedBy = 0 /\ jobStatus = "l_Undef"
    /\ assigns = [t \in Threads |-> NoModel]
    /\ model = [t \in Threads |-> NoModel]
    /\ main = "launch" /\ result = "l_Undef" /\ solution = NoModel

goto(t, label) == pc' = [pc EXCEPT ![t] = label]

\* SharedCompanion: a literal is given to the others unless one of them has
\* given this variable already.
addLearnt(l) ==
    unitLit' = IF \E i \in DOMAIN unitLit : unitLit[i][1] = l[1] THEN unitLit
               ELSE Append(unitLit, l)

\* The next literal for thread t, if there is one, and what comes of it: one
\* that has a value already is passed over, whatever the value is.
unitsLeft(t) == nextUnit[t] <= Len(unitLit)

getUnary(t) ==
    LET l == unitLit[nextUnit[t]]
    IN /\ nextUnit' = [nextUnit EXCEPT ![t] = @ + 1]
       /\ known' = IF l[1] \in Assigned(t) THEN known
                   ELSE [known EXCEPT ![t] = @ \cup {l}]

jobFinished == bjobFinished

-----------------------------------------------------------------------------
\* The thread: ParallelSolver::solve_ and the search it calls.

\* Mutant: nobody asks whether the job is finished.
While_Alone(t) ==
    /\ pc[t] = "while"
    /\ goto(t, IF status[t] = "l_Undef" THEN "import" ELSE "finish")
    /\ UNCHANGED <<formula, eliminated, status, known, shared, assigns, model, main, result, solution>>

\* while (status == l_Undef && !jobFinished()) status = search(...)
While(t) ==
    /\ pc[t] = "while"
    /\ goto(t, IF status[t] = "l_Undef" /\ ~jobFinished THEN "import" ELSE "finish")
    /\ UNCHANGED <<formula, eliminated, status, known, shared, assigns, model, main, result, solution>>

\* Mutant: one literal is imported, not all.
ImportUnary_One(t) ==
    /\ pc[t] = "import" /\ goto(t, "search")
    /\ IF unitsLeft(t) THEN getUnary(t) ELSE UNCHANGED <<nextUnit, known>>
    /\ UNCHANGED <<formula, eliminated, status, unitLit, bjobFinished, jobFinishedBy, jobStatus, assigns, model, main, result, solution>>

\* parallelImportUnaryClauses, one literal after the other.
ImportUnary(t) ==
    /\ pc[t] = "import"
    /\ IF unitsLeft(t) THEN getUnary(t) /\ UNCHANGED pc
       ELSE goto(t, "search") /\ UNCHANGED <<nextUnit, known>>
    /\ UNCHANGED <<formula, eliminated, status, unitLit, bjobFinished, jobFinishedBy, jobStatus, assigns, model, main, result, solution>>

\* A literal is learnt, enqueued at level 0 and exported. The next round of the
\* search is at level 0 again.
LearnUnary(t, l) ==
    /\ pc[t] = "search" /\ l[1] \in Kept \ Assigned(t) /\ Implied(l)
    /\ known' = [known EXCEPT ![t] = @ \cup {l}]
    /\ addLearnt(l)
    /\ goto(t, "import")
    /\ UNCHANGED <<formula, eliminated, status, nextUnit, bjobFinished, jobFinishedBy, jobStatus, assigns, model, main, result, solution>>

\* search() returns: a model, a conflict at level 0, or nothing, at a restart or
\* at a conflict after the job is finished.
SearchReturns(t, s) ==
    /\ pc[t] = "search"
    /\ s = "l_False" => formula = {}
    /\ IF s = "l_True"
       THEN \E m \in formula :
               /\ \A l \in known[t] : m[l[1]] = l[2]
               /\ assigns' = [assigns EXCEPT ![t] = Restricted(m)]
       ELSE UNCHANGED assigns
    /\ status' = [status EXCEPT ![t] = s]
    /\ goto(t, "while")
    /\ UNCHANGED <<formula, eliminated, known, shared, model, main, result, solution>>

\* IFinished: the first thread that has an answer is the winner.
IFinished(t) ==
    /\ pc[t] = "finish" /\ status[t] # "l_Undef"
    /\ IF bjobFinished THEN goto(t, "signal") /\ UNCHANGED <<bjobFinished, jobFinishedBy>>
       ELSE goto(t, "tell") /\ bjobFinished' = TRUE /\ jobFinishedBy' = t
    /\ UNCHANGED <<formula, eliminated, status, known, unitLit, nextUnit, jobStatus, assigns, model, main, result, solution>>

\* Mutant: every thread writes the status it ends with.
NotFinished_Tells(t) ==
    /\ pc[t] = "finish" /\ status[t] = "l_Undef"
    /\ goto(t, "signal") /\ jobStatus' = status[t]
    /\ UNCHANGED <<formula, eliminated, status, known, unitLit, nextUnit, bjobFinished, jobFinishedBy, assigns, model, main, result, solution>>

NotFinished(t) ==
    /\ pc[t] = "finish" /\ status[t] = "l_Undef"
    /\ goto(t, "signal")
    /\ UNCHANGED <<formula, eliminated, status, known, shared, assigns, model, main, result, solution>>

\* The winner writes its answer, and then its model, outside of any mutex.
TellStatus(t) ==
    /\ pc[t] = "tell"
    /\ jobStatus' = status[t]
    /\ goto(t, IF status[t] = "l_True" THEN "model" ELSE "signal")
    /\ UNCHANGED <<formula, eliminated, status, known, unitLit, nextUnit, bjobFinished, jobFinishedBy, assigns, model, main, result, solution>>

\* The values of the search; what extendModel made of the empty model just
\* before is overwritten.
CopyModel(t) ==
    /\ pc[t] = "model"
    /\ model' = [model EXCEPT ![t] = assigns[t]]
    /\ goto(t, "signal")
    /\ UNCHANGED <<formula, eliminated, status, known, shared, assigns, main, result, solution>>

\* pthread_cond_signal(pcfinished) wakes the main thread if it is waiting, and
\* is lost if it is not. Then the thread ends.
Signal(t) ==
    /\ pc[t] = "signal"
    /\ goto(t, "ended")
    /\ main' = IF main = "waiting" THEN "join" ELSE main
    /\ UNCHANGED <<formula, eliminated, status, known, shared, assigns, model, result, solution>>

-----------------------------------------------------------------------------
\* The main thread: MultiSolvers::solve.

Launch(t) ==
    /\ main = "launch" /\ pc[t] = "created" /\ \A u \in 1 .. t - 1 : pc[u] # "created"
    /\ goto(t, "while")
    /\ main' = IF t = nbsolvers THEN "wait" ELSE main
    /\ UNCHANGED <<formula, eliminated, status, known, shared, assigns, model, result, solution>>

\* pthread_cond_timedwait is entered, and left after five seconds if no signal
\* comes; then the statistics are printed and it is entered again.
Wait ==
    /\ main = "wait" /\ main' = "waiting"
    /\ UNCHANGED <<formula, eliminated, pc, status, known, shared, assigns, model, result, solution>>

TimedOut ==
    /\ main = "waiting" /\ main' = "wait"
    /\ UNCHANGED <<formula, eliminated, pc, status, known, shared, assigns, model, result, solution>>

\* It may also return with no signal: POSIX allows that, and mfinished, which
\* should be locked, is not.
WakesUp ==
    /\ main = "waiting" /\ main' = "join"
    /\ UNCHANGED <<formula, eliminated, pc, status, known, shared, assigns, model, result, solution>>

\* All threads are joined, and the answer is read; of the model of the winner
\* the eliminated variables are missing until here.
Join ==
    /\ main = "join" /\ \A t \in Threads : pc[t] = "ended"
    /\ main' = "returned" /\ result' = jobStatus
    /\ IF jobStatus = "l_True"
       THEN /\ solution' \in extendModel(model[jobFinishedBy])
            /\ model' = [model EXCEPT ![jobFinishedBy] = solution']
       ELSE UNCHANGED <<model, solution>>
    /\ UNCHANGED <<formula, eliminated, pc, status, known, shared, assigns>>

Thread(t) ==
    \/ While(t) \/ ImportUnary(t)
    \/ \E l \in Lits : LearnUnary(t, l)
    \/ \E s \in {"l_True", "l_False", "l_Undef"} : SearchReturns(t, s)
    \/ IFinished(t) \/ NotFinished(t) \/ TellStatus(t) \/ CopyModel(t) \/ Signal(t)

Main == (\E t \in Threads : Launch(t)) \/ Wait \/ TimedOut \/ WakesUp \/ Join

Next == Main \/ \E t \in Threads : Thread(t)

Spec == Init /\ [][Next]_vars

-----------------------------------------------------------------------------

\* solve() answers with what holds of the formula, and with a model of it, that
\* of the thread that was first, although every thread may have an answer by
\* then, and although the threads never saw the eliminated variables.
ResultRight ==
    main = "returned" =>
        IF formula = {} THEN result = "l_False"
        ELSE result = "l_True" /\ solution \in formula

\* What a thread takes for proved holds in every model, and nothing is given to
\* the others twice; an unsatisfiable formula may have both literals of a
\* variable proved, by two threads, of which one is passed on.
UnitsSound ==
    /\ \A t \in Threads : \A l \in known[t] : Implied(l)
    /\ \A i, j \in DOMAIN unitLit : unitLit[i][1] = unitLit[j][1] => i = j

\* A thread that goes on searching from level 0 has every literal that was given
\* to it by then.
UnitsImported ==
    [][\A t \in Threads :
         pc[t] = "import" /\ pc'[t] = "search" =>
            \A i \in DOMAIN unitLit : unitLit[i][1] \in Assigned(t)]_vars

\* Once one thread has an answer, all of them end.
ThreadsEnd == bjobFinished ~> \A t \in Threads : pc[t] = "ended"
=============================================================================
