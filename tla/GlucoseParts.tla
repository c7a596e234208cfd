---------------------------- MODULE GlucoseParts ----------------------------
(***************************************************************************)
(* Five parts of Glucose that share no state: the ring behind the          *)
(* restarts, the queue behind backward subsumption, the size of a vector,  *)
(* and, of the parallel solver, the buffer of clauses and the threads.     *)
(* A behaviour is one of one of them; the other four stay as they were     *)
(* made.                                                                   *)
(***************************************************************************)
EXTENDS Integers, Sequences

CONSTANTS
    Values, Sizes, MaxPushes,                      \* BoundedQueue
    Elems, NoElem, MaxSize,                        \* Queue
    INT_MAX,                                       \* Vec
    nbThreads, bufferSize, SharedClauses, MaxPushed, \* ClausesBuffer
    nbsolvers, Vars, Formulas, Eliminations        \* ParallelSolving

VARIABLES
    part,   \* the one that runs
    elems, first, last, sumofqueue, maxsize, queuesize, pushed, total,
    buf, front, end,
    sz, cap, thrown,
    whenFullRemoveOlder, words, head, tail, wordsUsed, lastOfThread, removedClauses,
    op, threadId, clause, thislast, pushedClauses, starts, passed, reply,
    formula, eliminated, pc, status, known, unitLit, nextUnit, bjobFinished, jobFinishedBy, jobStatus,
    assigns, model, main, result, solution

ringVars == <<elems, first, last, sumofqueue, maxsize, queuesize, pushed, total>>
queueVars == <<buf, front, end>>
vecVars == <<sz, cap, thrown>>
bufferVars == <<whenFullRemoveOlder, words, head, tail, wordsUsed, lastOfThread,
                removedClauses, op, threadId, clause, thislast, pushedClauses, starts, passed, reply>>
threadVars == <<formula, eliminated, pc, status, known, unitLit, nextUnit, bjobFinished,
                jobFinishedBy, jobStatus, assigns, model, main, result, solution>>
vars == <<part, ringVars, queueVars, vecVars, bufferVars, threadVars>>

R == INSTANCE BoundedQueue
Q == INSTANCE Queue WITH first <- front
V == INSTANCE Vec
B == INSTANCE ClausesBuffer WITH
       maxsize <- bufferSize, elems <- words, first <- head, last <- tail,
       queuesize <- wordsUsed, pushed <- pushedClauses
P == INSTANCE ParallelSolving

ASSUME RingConstants == R!BoundedQueueAssumption
ASSUME QueueConstants == Q!QueueAssumption
ASSUME VecConstants == V!IntMaxAssumption
ASSUME BufferConstants == B!ClausesBufferAssumption
ASSUME ThreadsConstants == P!ParallelSolvingAssumption

Init ==
    /\ part \in {"ring", "queue", "vec", "buffer", "threads"}
    /\ R!Init /\ (part # "ring" => maxsize = CHOOSE size \in Sizes : TRUE)
    /\ Q!Init
    /\ V!Init
    /\ B!Init /\ (part # "buffer" => ~whenFullRemoveOlder)
    /\ P!Init
    /\ part # "threads" => /\ formula = CHOOSE f \in Formulas : TRUE
                           /\ eliminated = CHOOSE E \in Eliminations : TRUE

Ring == part = "ring" /\ R!Next /\ UNCHANGED <<part, queueVars, vecVars, bufferVars, threadVars>>
Subsumption == part = "queue" /\ Q!Next /\ UNCHANGED <<part, ringVars, vecVars, bufferVars, threadVars>>
Vector == part = "vec" /\ V!Next /\ UNCHANGED <<part, ringVars, queueVars, bufferVars, threadVars>>
Buffer == part = "buffer" /\ B!Next /\ UNCHANGED <<part, ringVars, queueVars, vecVars, threadVars>>

OnlyThreads == part = "threads" /\ UNCHANGED <<part, ringVars, queueVars, vecVars, bufferVars>>
MainThread == P!Main /\ OnlyThreads
SolverThread(t) == P!Thread(t) /\ OnlyThreads

Next ==
    \/ Ring \/ Subsumption \/ Vector \/ Buffer
    \/ MainThread \/ \E t \in P!Threads : SolverThread(t)

\* The operating system runs every thread that can run.
Fairness == WF_vars(MainThread) /\ \A t \in P!Threads : WF_vars(SolverThread(t))

Spec == Init /\ [][Next]_vars /\ Fairness

-----------------------------------------------------------------------------

\* bqueue: the averages that decide on restarts are those of the latest values,
\* and what a full ring gives up is the oldest one.
RingExact == R!LatestKept /\ R!SumExact /\ R!FullAtOldest

\* Queue: clauses leave the subsumption queue in the order they came in, also
\* when the buffer wraps around or is moved to a larger one.
KeepsOrder == Q!KeepsOrder

\* vec: no size overflows an int, and the elements are inside the memory that
\* was reserved, also when the growth that was computed has overflowed.
VecSafe == V!PushCannotOverflow /\ V!ElementsFit

\* ClausesBuffer: every thread gets the clauses of the others that are in the
\* buffer, whole, once and in order; none leaves it unread without -removeolder;
\* the words of the buffer are exactly those of its clauses.
BufferExact == B!DeliveredInOrder /\ B!NothingLost /\ B!WordsExact

\* MultiSolvers::solve returns the right answer, whichever threads had one; what
\* they exchange on the way is implied by the formula.
ResultRight == P!ResultRight /\ P!UnitsSound

\* parallelImportUnaryClauses: nobody goes on from level 0 without a literal
\* that was given to it.
UnitsImported == P!UnitsImported

\* ParallelSolver::solve_: once one thread has an answer, all of them end.
ThreadsEnd == P!ThreadsEnd
=============================================================================
