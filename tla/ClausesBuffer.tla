--------------------------- MODULE ClausesBuffer ----------------------------
(***************************************************************************)
(* ClausesBuffer of glucose/parallel: the circular buffer of words through *)
(* which the threads of the parallel solver exchange learnt clauses.       *)
(* A clause takes its size, the number of threads that have still to read  *)
(* it, the thread it comes from, and its literals.                         *)
(*                                                                         *)
(* SharedCompanion locks one mutex around each operation.  A step is a     *)
(* round of one of the operation's loops, or what it does outside of them; *)
(* op tells how far the thread that holds the mutex has come.              *)
(***************************************************************************)
EXTENDS Integers, Sequences, FiniteSets

CONSTANTS
    nbThreads,
    maxsize,        \* words in the buffer
    SharedClauses,  \* the clauses that are learnt, as sequences of words
    MaxPushed       \* bound on the clauses pushed

headerSize == 3
Threads == 0 .. nbThreads - 1

\* What the module takes for granted of its constants.
ClausesBufferAssumption ==
    /\ nbThreads \in Nat \ {0, 1}
    /\ maxsize \in Nat \ {0} /\ MaxPushed \in Nat
    /\ \A c \in SharedClauses : c \in Seq(Nat) /\ Len(c) + headerSize < maxsize

VARIABLES
    whenFullRemoveOlder,  \* the option -removeolder
    elems,          \* the words, indexed from 0
    first,          \* where the next word goes
    last,           \* before the oldest word
    queuesize,
    lastOfThread,   \* before the next clause of each thread
    removedClauses,
    op,             \* the loop the mutex is held in, "free" if it is not held
    threadId,       \* who holds it
    clause,         \* local to pushClause
    thislast,       \* local to getClause
    pushed,         \* history: all clauses pushed, with their threads
    starts,         \* history: the words pushed before each clause, and in all
    passed,         \* history: the clauses each thread is through with
    reply           \* history: what the latest getClause gave, and should have given

ends == <<last, queuesize, lastOfThread, removedClauses>>
code == <<whenFullRemoveOlder, elems, first, ends>>
locals == <<op, threadId, clause, thislast>>
history == <<pushed, starts, passed, reply>>
vars == <<code, locals, history>>

NoThread == -1
NoClause == [origin |-> NoThread, lits |-> <<>>]
NoReply == [got |-> NoClause, due |-> NoClause]

nextIndex(i) == IF i + 1 = maxsize THEN 0 ELSE i + 1
addIndex(i, a) == IF i + a >= maxsize THEN i + a - maxsize ELSE i + a

Init ==
    /\ whenFullRemoveOlder \in BOOLEAN
    /\ elems = [i \in 0 .. maxsize - 1 |-> 0]
    /\ first = 0 /\ last = maxsize - 1 /\ queuesize = 0
    /\ lastOfThread = [t \in Threads |-> maxsize - 1]
    /\ removedClauses = 0
    /\ op = "free" /\ threadId = NoThread /\ clause = <<>> /\ thislast = 0
    /\ pushed = <<>> /\ starts = <<0>> /\ passed = [t \in Threads |-> 0]
    /\ reply = NoReply

Lock(loop, t, c, place) == op' = loop /\ threadId' = t /\ clause' = c /\ thislast' = place
Unlock == Lock("free", NoThread, <<>>, 0)

(***************************************************************************)
(* removeLastClause                                                        *)
(***************************************************************************)
\* Mutant: the threads keep their places.
removeOne_KeepPlaces ==
    LET size == elems[nextIndex(last)] + headerSize
    IN /\ last' = addIndex(last, size) /\ queuesize' = queuesize - size
       /\ removedClauses' = removedClauses + 1
       /\ UNCHANGED <<whenFullRemoveOlder, elems, first, lastOfThread, history>>

\* One round: the oldest clause goes, and the threads before it are behind it.
removeOne ==
    LET size == elems[nextIndex(last)] + headerSize
        nextlast == addIndex(last, size)
    IN /\ lastOfThread' = [t \in Threads |-> IF lastOfThread[t] = last THEN nextlast ELSE lastOfThread[t]]
       /\ last' = nextlast /\ queuesize' = queuesize - size
       /\ removedClauses' = removedClauses + 1
       /\ UNCHANGED <<whenFullRemoveOlder, elems, first, history>>

\* The rounds end at a clause that somebody has still to read.
OldestRead == queuesize > 0 /\ elems[addIndex(last, 2)] = 0

removeNext ==
    /\ op \in {"pushRemoves", "getRemoves"}
    /\ OldestRead
    /\ removeOne
    /\ UNCHANGED locals

(***************************************************************************)
(* pushClause                                                              *)
(***************************************************************************)
Full(c) == queuesize + Len(c) + headerSize >= maxsize

\* Nothing is pushed on a full buffer, unless older clauses may go for it.
pushClause(t, c) ==
    /\ op = "free"
    /\ Len(pushed) < MaxPushed
    /\ IF ~whenFullRemoveOlder /\ Full(c) THEN UNCHANGED locals ELSE Lock("push", t, c, 0)
    /\ reply' = NoReply
    /\ UNCHANGED <<code, pushed, starts, passed>>

\* The first round of removeLastClause goes without a test.
makeRoom ==
    /\ op = "push" /\ Full(clause)
    /\ removeOne
    /\ Lock("pushRemoves", threadId, clause, 0)

roomMade ==
    /\ op = "pushRemoves" /\ ~OldestRead
    /\ Lock("push", threadId, clause, 0)
    /\ UNCHANGED <<code, history>>

\* Writing the words behind each other, from index i.
noCheckPush(e, i, words) ==
    [j \in DOMAIN e |->
        LET k == IF j >= i THEN j - i + 1 ELSE j - i + maxsize + 1
        IN IF k <= Len(words) THEN words[k] ELSE e[j]]

pushWords ==
    /\ op = "push" /\ ~Full(clause)
    /\ LET n == Len(clause) + headerSize
       IN /\ elems' = noCheckPush(elems, first, <<Len(clause), nbThreads - 1, threadId>> \o clause)
          /\ first' = addIndex(first, n)
          /\ queuesize' = queuesize + n
          /\ starts' = Append(starts, starts[Len(starts)] + n)
    /\ pushed' = Append(pushed, [origin |-> threadId, lits |-> clause])
    /\ Unlock
    /\ UNCHANGED <<whenFullRemoveOlder, last, lastOfThread, removedClauses, passed, reply>>

(***************************************************************************)
(* getClause                                                               *)
(***************************************************************************)
\* The clauses of other threads that are still to come for thread t.
Pending(t) ==
    {i \in removedClauses + 1 .. Len(pushed) : i > passed[t] /\ pushed[i].origin # t}
Earliest(S) == CHOOSE i \in S : \A j \in S : i <= j

Return(t, got) ==
    LET due == Pending(t)
    IN /\ passed' = [passed EXCEPT ![t] = IF due = {} THEN Len(pushed) ELSE Earliest(due)]
       /\ reply' = [got |-> got, due |-> IF due = {} THEN NoClause ELSE pushed[Earliest(due)]]
       /\ UNCHANGED <<pushed, starts>>

\* Early exit: the thread's place is at the end.
getClauseNone(t) ==
    /\ op = "free"
    /\ nextIndex(lastOfThread[t]) = first
    /\ UNCHANGED <<code, locals>>
    /\ Return(t, NoClause)

\* "Special case where last has moved": the place of a thread that is outside
\* of the words in use.
FromLast(place) ==
    IF \/ place < last /\ last < first
       \/ first < place /\ place < last
       \/ last < first /\ first < place
    THEN last ELSE place

getClause(t) ==
    /\ op = "free"
    /\ nextIndex(lastOfThread[t]) # first
    /\ Lock("get", t, <<>>, FromLast(lastOfThread[t]))
    /\ reply' = NoReply
    /\ UNCHANGED <<code, pushed, starts, passed>>

Clauses == op = "get" /\ nextIndex(thislast) # first
OfOthers == elems[addIndex(thislast, 3)] # threadId

\* Past a clause of its own.
skipOwn ==
    /\ Clauses /\ ~OfOthers
    /\ Lock("get", threadId, <<>>, addIndex(thislast, elems[nextIndex(thislast)] + headerSize))
    /\ UNCHANGED <<code, history>>

\* Nothing but clauses of its own.
getClauseOwn ==
    /\ op = "get" /\ ~Clauses
    /\ lastOfThread' = [lastOfThread EXCEPT ![threadId] = thislast]
    /\ Unlock
    /\ Return(threadId, NoClause)
    /\ UNCHANGED <<whenFullRemoveOlder, elems, first, last, queuesize, removedClauses>>

\* The literals of a clause, popped one word after the other behind its header.
Popped(place, size) == [k \in 1 .. size |-> elems[addIndex(place, k + headerSize)]]

\* The next clause of another thread.  If it is the oldest one and was read by
\* everyone, removeLastClause begins: the test of its rounds holds.
getClauseFound ==
    LET csize == elems[nextIndex(thislast)]
        seen == addIndex(thislast, 2)
    IN /\ Clauses /\ OfOthers
       /\ elems' = [elems EXCEPT ![seen] = @ - 1]
       /\ IF elems'[seen] = 0 /\ last = thislast
          THEN /\ Lock("getRemoves", threadId, <<>>, 0)
               /\ UNCHANGED lastOfThread
          ELSE /\ lastOfThread' = [lastOfThread EXCEPT ![threadId] = addIndex(thislast, csize + headerSize)]
               /\ Unlock
       /\ Return(threadId, [origin |-> elems[addIndex(thislast, 3)], lits |-> Popped(thislast, csize)])
       /\ UNCHANGED <<whenFullRemoveOlder, first, last, queuesize, removedClauses>>

removedAfter ==
    /\ op = "getRemoves" /\ ~OldestRead
    /\ lastOfThread' = [lastOfThread EXCEPT ![threadId] = last]
    /\ Unlock
    /\ UNCHANGED <<whenFullRemoveOlder, elems, first, last, queuesize, removedClauses, history>>

PushClause ==
    \/ \E t \in Threads, c \in SharedClauses : pushClause(t, c)
    \/ makeRoom \/ roomMade \/ pushWords
GetClause ==
    \/ \E t \in Threads : getClauseNone(t) \/ getClause(t)
    \/ skipOwn \/ getClauseOwn \/ getClauseFound \/ removedAfter

Next == PushClause \/ GetClause \/ removeNext

Spec == Init /\ [][Next]_vars

-----------------------------------------------------------------------------

\* Each thread gets the clauses of the others that are in the buffer, each one
\* once, whole, in the order they were pushed, and with the thread it is from.
DeliveredInOrder == reply.got = reply.due

\* Unless older clauses may be removed, none leaves the buffer before every
\* other thread has read it.
NothingLost ==
    ~whenFullRemoveOlder =>
        \A i \in 1 .. removedClauses, t \in Threads :
            passed[t] >= i \/ pushed[i].origin = t

\* Where the buffer has a word, of those between last and first.
Place(word) == addIndex(nextIndex(last), word - starts[removedClauses + 1])

Unread(i) == {t \in Threads \ {pushed[i].origin} : passed[t] < i}
Words(i) == <<Len(pushed[i].lits), Cardinality(Unread(i)), pushed[i].origin>> \o pushed[i].lits

\* The words between last and first are the clauses not yet removed; the second
\* word of each is the number of other threads that are not yet through with it.
WordsExact ==
    /\ queuesize = starts[Len(pushed) + 1] - starts[removedClauses + 1]
    /\ queuesize < maxsize
    /\ first = Place(starts[Len(pushed) + 1])
    /\ \A i \in removedClauses + 1 .. Len(pushed) :
          \A k \in 1 .. Len(Words(i)) : elems[Place(starts[i] + k - 1)] = Words(i)[k]
=============================================================================
