# ATPG: models and proofs

This directory is the verification project of the ATPG program: a test pattern
generator for single, double and triple stuck-at faults (SSA, DSA, TSA) in
combinational and-inverter graphs. TLA+ modules model the program as it is
written in `src/inc/*.h`, and the SAT solver it links, `src/glucose/`. TLC
checks them on small instances; TLAPS proves the most important properties for
every circuit, fault set, pattern list, buffer size and number of threads.

## 1. Inventory

The program (`src/src/main.cpp`) is sequential: it builds its objects one after
the other, and one of them runs the whole flow in its constructor.

| Component | Code | State | Operations |
|---|---|---|---|
| Gate | `inc/Gate.h` | type, fanins, inversion flags, `outValue`, `outValue_64`, `different` | evaluation on bits and words, `changeOutputStuckat`, `copyGate` |
| Circuit | `inc/Circuit.h` | vector of gates, `gateToRelatedGates` | BLIF reader, `connectGates`, levels, cones, reconvergent gates |
| Simulation | `inc/CircuitSimulation.h` | its own vector of pointers to the *shared* gates, `preGateInTheCircuit`, `faultsInsertedtheCircuit` | inject, reset, assign, propagate, `check64Patterns`, `checkallPatterns` |
| SAT test generation | `inc/Testgenebysat.h`, `CNFGeneration.h`, `glucose.h` | one miter and its clauses for all calls, and one per query | `generateTestBySAT`, `generateTestBySAT_1` |
| ATPG flow | `inc/ATPG.h` | fault lists, pattern lists, fault-to-pattern maps, redundancy lists | `ATPGInit` and its phases |
| Blocking search | `inc/ATPG.h` 407-610, 875-1097 | the simulated circuit | recursive path walks |
| Redundant pairs | `inc/ATPG.h` 667-734 | list of deleted pairs | `deleteDSARedundantPairs`, `checkPath`, pairing |
| TetraMAX interface | `inc/tmaxInterface.h` | a transformed circuit | Verilog and fault files, `transMSATOSSA` |
| Glucose | `glucose/core`, `glucose/simp` | clause database, trail, watch lists, elimination heap, stored clauses | adding clauses, `eliminate`, `search`, `extendModel` |
| Containers | `glucose/mtl`, `core/BoundedQueue.h` | ring, circular buffer, length and capacity | `push`, `fastclear`, `insert`, `pop`, `growTo`, ... |
| Parallel Glucose | `glucose/parallel` | the buffer of shared clauses, unary clauses, who has finished | `pushClause`, `getClause`, `solve` |

Interaction is by calls and by **shared gates**. The simulator makes the circuit
faulty *in place*: it overwrites the gates that the SAT side and the path
searches read through pointers of their own, and has to put them back. A call
visits only the gates related to its faults, so values and marks of earlier
calls stay in the rest of the circuit. The flow hands lists from phase to phase
and uses the simulator and the solver through what they promise. The parallel
solver is the only concurrent part: threads share a buffer and a few flags. It
is in the repository but not linked into the program.

What is hard here:

* long sequences of calls on one mutable circuit (residue of earlier calls,
  several faults on one gate, restoration);
* two passes whose difference is the answer (order of reset, assignment,
  comparison);
* words of 64 patterns with a partial last block;
* lists that pass through many phases, where a fault can fall between two
  loops, be counted redundant without being so, or be tested in vain;
* pruning rules that declare faults redundant without asking the solver;
* clauses that are changed in place for one query and changed back for the next;
* in the solver: lists and counts that are cleaned lazily while clauses are
  deleted, shortened, eliminated and moved; circular buffers and ints at their
  limits; threads that finish together.

The hazards, each at its line and with the properties that watch it, are in
`PROJECT.json`.

## 2. Modules

### The program

| Module | Models | State and actions |
|---|---|---|
| `Gate` | `Gate.h` | a record per gate, `getOutValue`, fault numbers (`8*gate + 2*port + stuckat`) |
| `Netlist` | `Circuit.h` after reading; fault lists | cones, `RelatedGates`, `allSSAFList`; `RefValue` and `RefDetects` are the reference semantics and not in the code |
| `CircuitBuild` | constructor of `Circuit` | one action per line of the file, per gate connected, per level and cone; ends `done` or in one of the ways the code gives up |
| `FaultInjection` | inject and reset | `theCircuit`, `stuckatCons` (the constants pushed behind the circuit), `preGateInTheCircuit`, the counter; `InjectFault`, `ResetFaults` |
| `CircuitSimulation` | `findSSAFsBlocked`, `findSSAFsBlocked2` up to their answer | one action per step of a call: `Call`, `InjectNext` (one fault), `AssignFaulty`, `PropagateNext` (one gate), `ResetToGood`, `Answer`; calls follow one another for ever |
| `FaultDetection` | abstract: what `checkallPatterns` promises | `Ask`, `ReplyWith` |
| `PackedSimulation` | `checkallPatterns`, `check64Patterns` | a word is the set of its 1 bits; `StartBlock`, `InjectNext`, `FaultyPass`, `GoodPass`, `Detected`, `NextBlock`, `ReturnUndetected` |
| `ATPG` | `ATPGInit` | one action per round of each loop of each phase and one per end of a loop |
| `FaultSearch` | the searches of phases two and three, and the phases that call them | the recursive walks are functions of the simulated circuit; one action per fault searched, pair tested, list merged |
| `DSARedundancy` | second half of `pairUndetectedDSAF` | the two loops over the redundant faults |
| `MCPreprocessing` | composition | `Constructor` (a step of `CircuitBuild`), `enterPairing`, `Pairing` (a step of `DSARedundancy`) |
| `Miter` | the circuit for the solver and its clauses | operators shared by the next two |
| `TestGeneration` | abstract: what the flow expects of a query | `Ask`, `Reply` |
| `TestGeneBySAT` | `generateTestBySAT_1` | related gates, miter, faults one by one, clauses, solver, decoding of the model |
| `IncrementalCNF` | `generateTestBySAT` (called at `ATPG.h:1516`) | one set of clauses for all calls: reset, inject one fault, solve |
| `TmaxInterface` | `transMSATOSSA`, reset; Verilog and fault files, reader of the fault file | one action per multiple fault, reset; the files are operators |

`CircuitSimulation` and `PackedSimulation` extend `FaultInjection`, which extends
`Netlist`, which extends `Gate`: the same injection code runs under both
simulators, as in the program. `ATPG` sees a circuit only as a table of which
patterns detect which sets of faults; that is the interface `FaultDetection`
states and `PackedSimulation` implements. The other interface, a test exactly
when there is one, is `TestGeneration`, which `TestGeneBySAT` implements; it
needs of the solver what `SATPromise` states and `GlucoseSolver` implements.
`FaultSearch` instantiates `DSARedundancy` for the pairs of redundant faults, and
`MCFaultSearch` instantiates it over the circuit and the faults of `DSARedundancy`;
`Preprocessing_proof` extends both compositions.
`MCPreprocessing` composes `CircuitBuild` and `DSARedundancy`: the elimination of
redundant pairs runs on the circuit that the constructor has built and on the same
`gateToRelatedGates`, and not on one that is given. It goes on from where the
constructor ends `done` with a circuit that is sorted and has no dangling gates
(`enterPairing`), which is what the other modules assume of their netlists.

### Glucose

| Module | Models | State and actions |
|---|---|---|
| `Clauses`, `Heap` | literals, `subsumes`, resolution; `Heap.h` | operators |
| `Solver` | `core/Solver.cc` | one record holds the solver's fields; operations return the record they leave: attach, detach, propagate, analyze, minimise, reduce, garbage collection, adaptation |
| `SimpSolver` | `simp/SimpSolver.cc` | subsumption, strengthening, elimination, `extendModel` |
| `GlucoseSolver` | a run as `inc/glucose.h` makes it | one action per turn of the loops of `eliminate` and `search` |
| `SATPromise` | abstract: the answer of a solver | one step |
| `BoundedQueue` | `bqueue` behind the restarts | `push`, `fastclear`, `growTo` |
| `Queue`, `Fifo` | the subsumption queue; abstract: a queue | `insert`, `pop`, `write`, `clear` |
| `Vec` | length and capacity of `vec` with ints that wrap | `push`, `growTo`, `capacity`, `shrink`, `clear` |
| `ClausesBuffer` | the buffer through which threads exchange clauses | `PushClause`, `GetClause`, `removeNext`: a step is a round of a loop of an operation, under the mutex that `op` stands for |
| `ParallelSolving` | `MultiSolvers::solve`, `ParallelSolver::solve_` | one action per thread and critical section; the main thread launches, waits, times out, wakes up, joins, extends the model of the thread that was first and copies it |
| `GlucoseParts` | the last five side by side | they share no state, so a behaviour is one of one of them |

`*_proof` modules hold theorems and proofs; `MC*` modules and `.cfg` files the
instances for TLC. Operators with a suffix such as `_OncePerGate` or `_AsItLies`,
introduced as a broken variant or mutant, are plausible bugs in the operator that
follows them; each shows that a property notices the bug it names.

### Abstractions worth knowing

* Names, text and printing are left out. A fanin pointer is a position; a wire
  of a file is a number; a line of a file is a record.
* The simulator's vector is kept in two parts, the circuit and the constants
  behind it; a constant is its value.
* Several faults are injected in increasing order, as the program's callers pass
  sorted sets; of two faults on one line the later one holds.
* `PackedSimulation` and its promise are asked about the sets of `FaultSets`, a
  parameter: any sets of faults on gates that an input reaches. The flow asks about
  single faults (`ATPG.h:316`, 336), pairs (752, 797) and triples (1287, 1300), on
  one gate and on different ones.
* `WellFormed` assumes that the `.names` lines of a file are sorted and
  `NoDangling` that every gate reaches an output. The program checks neither;
  `CircuitBuild` shows what it makes of files that are not.
* Files with a cycle that no input reaches and that reaches no output are left
  out of `CircuitBuild`: the search for reconvergent gates need not end on them.
* In `ATPG`, the blocking searches return any set of faults of the lists they
  are given, and the choice of related redundant pairs is free. The accounts
  therefore hold whatever the searches find. What they do find is `FaultSearch`.
* `FaultSearch` is given pattern lists that detect every testable single fault
  (`PatternListsAssumption`), as the comment at `ATPG.h:613` says.
* The search for triple faults is a heuristic: the code does not claim to find
  every undetected one, and `FaultSearch` states only that what is listed is
  settled.
* `TmaxInterface`: an out-of-bounds write for pairs is a crash or has no effect.
  Faults on the output pin of a primary output and on a gate that reads one gate
  twice are outside the exactness statement. `transMSATOSSA` is called with any
  sets; the program's constructor calls `test()` with three fixed ones.
* `ParallelSolving`: variables may have been eliminated before the threads were
  made (`MultiSolvers::eliminate`). The threads then work on the others, and
  `extendModel` gives some values to the eliminated ones that make a model; that it
  can is `EliminationSound` of `GlucoseSolver`. The call of `extendModel` in a
  thread (`ParallelSolver.cc:494`) is left out, as line 499 overwrites what it
  leaves; the one that counts is the main thread's, in `Join`.
* Glucose: activities are a choice (any undecided variable may be picked);
  whether a restart, reduction or clean-up is due is a choice with bounds; the
  bits of the random descent are always 0, as `(uint32_t)drand()` gives; options
  that are off by default and assumptions are left out. `src/glucoseRevisedFile`
  holds near-identical copies of two of its files.

## 3. Runs

| Run | Question | Bounds |
|---|---|---|
| `simulation` | Is a scalar call right whatever earlier calls left behind? | 2 inputs, 2 gates, 2 outputs; reconvergence with inverted pins, disjoint and overlapping cones, a constant; single and double faults, any number of calls |
| `packed` | Does `checkallPatterns` keep its promise? | words of 2 bits, lists of up to 3 patterns: empty, partial, full, full with a partial one behind; no fault, single faults, pairs on one gate and on two, triples on three |
| `flow` | Do the accounts of the flow balance, and does it end? | 3 single faults; every detection table over 2 collapsed faults and 2 patterns, and tables in which masking and redundancy of each size occur; every pattern file of up to 2 patterns; results of the searches of each kind |
| `redundant_pairs` | Are the right pairs of redundant faults discarded? | 192 netlists of 3 AIGs: three shapes with every choice of six inversions |
| `fault_search` | Do the searches find what they should? | 4 inputs, 6 gates, 2 outputs: five circuits that need additional tests (one shared by two pairs, two, pairs that are one fault, a triple, a pair only behind a side input) and four without fanout |
| `sat_test` | Do the two ways of generating a test give tests? | 2 inputs, 3 gates, 2 outputs: reconvergence, separate halves, every gate type, a masked constant; `generateTestBySAT_1` with up to three faults and all faults of a gate; `generateTestBySAT` in sequences of calls on two of the circuits, one undefined variable at most |
| `circuit_build` | What does the reader make of a file, and can the elimination of pairs go on from there? | 1176 files of two gates: sorted or not, wires nobody drives, cycles, continued lines, errors |
| `tmax` | Is what TetraMAX gets what the program means? | circuits of two gates and four outputs, two of them inputs; all triples of faults on their lines, sets of two and four; all pairs of different triples of six independent lines stuck at 1, disjoint and overlapping |
| `glucose` | Does the solver keep its promise? | five formulas of 3-5 variables, each chosen for code it reaches; one restart, one reduction, `FirstReduceDB` 2, adaptation after 3 conflicts (100000 in the code), LBD bounds 3 and 2 (4 and 3) |
| `glucose_parts` | Are the containers, the exchange of clauses and the end of the threads right? | rings of 1-3 places and 7 pushes; a queue of 4 elements whose buffer has 1, 2, 3 and 5 places; ints of six bits; 3 threads, a buffer of 13 words that two clauses fill, 3 clauses; 2 threads on formulas of 2 variables with no, one, two and three models, none or one variable eliminated |
| `one_path`, `constant_tests` | Findings, below | one chain of AIGs; a constant that an AIG masks |

The bounds are small because the hazards are: stale residue needs two calls and
a gate outside the second call's cone; a saved gate is overwritten by a second
fault on the same gate; a partial block needs one spare bit; a fault lost
between loops needs one other fault to hide behind; a buffer shows its wrap at
its second round. Runs of calls are not bounded in number: a state between calls
carries all the residue there is. What TLC cannot vary, sizes and circuits, the
theorems of section 5 do.

Checked properties:

* `simulation`: `CircuitRestored`, `DetectionCorrect`, `GoodValuesLeft`, `MarksExact`.
* `packed`: `CircuitRestored`, `ImplementsFaultDetection`.
* `flow`: `SSAAccounted`, `VerdictsSound` (tests in the maps detect, redundant
  faults have no test), `DSAAccounted`, `TSAAccounted`, `AdditionalTestsNeeded`,
  `Terminates`.
* `redundant_pairs`: `OnePathPairsExact`, `DetectablePairsKept`.
* `fault_search`: `PairsSettled` (every testable pair of collapsed faults ends
  with a test, only pairs are tested as pairs), `TriplesSettled`,
  `SingleMasksExact`, `DoubleMasksFound` (for faults of the collapsed list: two
  redundant faults at constants may hide a fault jointly without being searched).
* `sat_test`: `ModelsAreSimulations`, `ImplementsTestGeneration`, `CNFRestored`,
  `ModelsAreTests`.
* `circuit_build`: `ConnectionsExact`, `ConesExact`, `ReconvergenceSound`, `GoodFileIsRead`.
* `tmax`: `StuckAt1TriplesExact` (also for two different sets of one circuit),
  `FilesExact` (in each of the three Verilog files that `test()` writes, the open
  lists are exactly those of section 4, ports are the inputs and outputs, every wire
  has one cell, and read with these lists closed the file computes what the circuit
  computes, without a fault and with each single fault, unless the transformation
  has made a loop; a fault written to the fault
  file reads back as an equivalent one).
* `glucose`: `ClausesImplied`, `PropagationComplete`, `EliminationSound`,
  `ListsExact`, `ImplementsSATPromise`.
* `glucose_parts`: `RingExact`, `KeepsOrder`, `VecSafe`, `BufferExact`,
  `ResultRight`, `UnitsImported`, `ThreadsEnd`.

**Deadlock.** The configurations of `flow`, `redundant_pairs`, `one_path`,
`fault_search`, `circuit_build` and `tmax` switch the deadlock check off because
these end. So do those of `sat_test` (the sequences of calls of
`generateTestBySAT` stop when `MaxLeft` is reached) and `glucose_parts` (pushes
are bounded and threads end). The simulators and the solver are checked for
deadlock.

**Fairness.** `ATPG`, `CircuitBuild` and `GlucoseSolver` assume that the next
step of a program in progress is taken: a sequential program runs on. In
`GlucoseSolver` this is written as "infinitely often answered or infinitely
often a step", which is weak fairness of a next-state relation that is always
enabled before the answer. `GlucoseParts` assumes weak fairness of every thread
and of the main thread: the operating system runs what can run. No fairness is
assumed of a caller (a call need not come) nor of the signal that wakes the main
thread.

## 4. Findings

Two statements of the repository that a run refutes:

* `one_path`: pairs of redundant faults on one path "must be redundant DSAF"
  (`ATPG.h:670`) and are never tested. In a chain of three AIGs a pattern detects
  such a pair.
* `constant_tests`: for a fault on a constant the miter is built over the
  constant alone and has no output; UNSAT "means redundant"
  (`Testgenebysat.h:411`), but a test exists. The quoted line stands above
  `generateTestBySAT`; the run is about `generateTestBySAT_1`, which returns the
  same values and whose 0 the flow records as a redundant fault (`ATPG.h:340`).
  `TestGeneBySAT` is therefore proved for faults on gates that an input reaches
  (`FaultsReached`).

Observed while modelling, without a run of their own:

* When the given patterns miss a fault, `SSAFPatterns` is *replaced* by the new
  patterns (`ATPG.h:345`), although `ATPG.h:613` assumes complete coverage.
  `SSAAccounted` states what does hold.
* A gate that no primary input reaches gets no cones (`Circuit.h:284`), so a
  fault on a constant is simulated on the constant alone. `DetectionCorrect` is
  stated for faults that an input reaches.
* A wire nobody drives is printed (`Circuit.h:200`), and the program goes on with
  a half-built circuit; a gate without a path to an output gets no entry in
  `gateToRelatedGates`; `twoFanoutGateToReconvGate` misses branches that meet in
  the first gate of the first branch (`Circuit.h:409`).
* A pair that an additional pattern detects gets no entry in `DSAFToPatterns`
  (`ATPG.h:801`); the searches do not list every double fault that escapes the
  given patterns.
* The reset of the incremental miter deletes one constant gate per saved gate but
  one clause entry per inserted constant (`Testgenebysat.h:399`), so that with
  two faults on one gate the two vectors differ in size.
* Of two faults on one line "only the front one will go into effect"
  (`Testgenebysat.h:307`). In the code the later one overwrites the front one
  (`Testgenebysat.h:329-361`), in the simulator too; model and `ModelsAreTests`
  follow the code. The simulator's comment that a second fault in the same gate
  "will be skipped in here as well" (`CircuitSimulation.h:124`) is stale: only faults
  on pins that a gate does not have are skipped, two faults of one gate are both
  injected, and half of the restoration is about them.
* The lists of the Verilog files: whether a comma or the end follows a name is
  decided by the position of its gate in the circuit. The ports end in ", )"
  when gates follow the outputs, as they do after a transformation
  (`tmaxInterface.h:109-110`); the wires end in a comma without ";" when none does,
  as in every file without a transformation (`tmaxInterface.h:177`). So each of the
  files has one open list. When the last output is an input, and so left
  out, the ports and the outputs stay open as well. `FilesExact` states exactly
  which lists are open. The repository's files show it: in `tmaxTest/dataFile`
  the wires of `test_noFault.v` and `test_reset.v` end in "n22, G17, " and the ports of
  `test_InsertFault.v` in "n22, );". `test.v`, closed in both, is not what the
  constructor writes as it stands.
* `TmaxInterface`: pairs are not transformed (an entry beyond the fault's faults
  is written), sets with a fault stuck at 0 are not transformed exactly. An output
  shows in the Verilog file the wire it read before the transformation, so a
  fault on the line into an output is not in the file. In the repository's
  `test_InsertFault.v` an AND gate and an inserted gate form a loop.
  `SSAFTestGeneration` and the writers of fault files have no caller.
* `eliminate` (`SimpSolver.cc` 789-794) has lost a `return`: the statement after
  a commented `printf` is the body of an `if`. The run takes the value the -O3
  library gives (`MissingReturn = {}`: the flag `ok`); with
  `MissingReturn = {FALSE}` it fails.
* `removeClause` says "Don't leave pointers to free'd memory!"
  (`core/Solver.cc`), but a reason that is a binary clause implied through its
  second literal is not recognised; nothing reads it afterwards. The header of
  `propagate` says that the queue is empty even after a conflict; a binary
  conflict returns at once. `permanentLearnts` may name a clause twice.
* `bqueue`: the cached value of `getAvgExp` is not reset by `fastclear` or
  `growTo`, and `pop` would break the assertion in `push`; neither is called.
* `ClausesBuffer`: "If the FIFO is full, then old clauses are removed (even if it was
  not yet sent to all threads)" (`ClausesBuffer.cc:54`) holds only with
  `-removeolder`; by default a full buffer refuses the new clause. With it
  (off by default, `MultiSolvers.cc:70`) making room can empty the buffer and
  `assert(queuesize > 0)` (`ClausesBuffer.cc:172`) fails; the "special case" of a thread whose place has been passed never
  happens (proved: `LastNeverMoved`).
* `MultiSolvers::solve`: each thread signals once (`ParallelSolver.cc:504`), and
  the main thread tests no condition before it waits (`MultiSolvers.cc:645`). If
  the signals come first it waits again and again and never joins
  (`MultiSolvers.cc:675`). `ThreadsEnd` is about the solver threads. The early
  return in `solve_` (`ParallelSolver.cc:460`) would skip the signal, but cannot
  be reached from `MultiSolvers::solve`.

## 5. What is proved

All proofs are checked by TLAPS; every theorem is for every value of the
constants that satisfies the named assumptions, which TLC evaluates in the runs.
They ask for sorted netlists without dangling gates, increasing sequences of
faults of the fault list, positive sizes, and for the searches that the given
patterns detect every testable single fault (`ATPG.h:613` states this of the
list that `findPotentialUndetectedDSAF` gets). The inductive invariants of the
state machines were checked by TLC before they were proved.

* `Netlist_proof`. The reference semantics and the cones are recursive functions.
  In a sorted netlist every fanin precedes its gate; a nonempty set of naturals
  has a least element; with this the recursion equations of `RefValue`, of the
  fanin cone and of the cones are proved, and then what they mean: every gate
  carries a bit (`RefValueEquation`), and only the faults in its fanin cone
  decide which (`SameFaultsSameValue`). This is induction in set form, which
  needs no library theorem with an operator parameter. On circuits without fanout
  (`Tree`) every gate is a cut (`GateCut`), and the values under a test and those
  without the fault differ exactly on one path; the searches rest on this.
* `FaultInjection_proof`. `Recoverable`: every gate is the netlist's or has the
  netlist's gate saved, and the counter equals the number of constants. Injection
  keeps it (`InjectKeepsRecoverable`); from it the reset restores the netlist
  (`ResetRestores`). Without the first part a gate hit twice would be restored
  faulty; without the second, constants would be left.
* `CircuitSimulation_proof`. `IInv`: the circuit is recoverable at all times, a
  constant keeps its value or has it saved, outputs stay connected, nothing is
  left to delete while the circuit is fault-free; hence `TypeCorrect` and
  `Restoration`. `CInv` adds what a pass has computed: every gate treated so far
  carries what the reference semantics says, faulty in the first pass and
  fault-free in the second, and marks where they differ (`PassesExact`); hence
  `DetectionExact`, `GoodValuesExact`, `MarksCorrect`.
* `PackedSimulation_proof`. The same through all blocks of a call
  (`Restoration`, `BlocksExact`: bit i of every word is what the circuit carries
  under pattern i of the block), and from it the **refinement**:
  `checkallPatterns` implements `FaultDetection` (`Refinement`), for every word size
  and every family of fault sets on gates that an input reaches, of any size and
  on one gate or several: what the flow asks is among them.
* `ATPG_proof`. `IInv` is a ledger for each phase: a fault that is no longer
  `todo` has been accounted for; a pair that is still `todo` in `testDSA` is
  missed by `SSAFPatterns` (what compression establishes and what makes a
  generated test needed); lists of later phases are still empty. It implies
  `SSABalance`, `VerdictSoundness`, `DSABalance`, `TSABalance`; with it
  `TestsNeeded` is inductive.
* `Preprocessing_proof`, the whole preparation, from the file to the verdicts.
  - Elimination of redundant pairs: the walk of `checkPath` collects exactly the
    faults on one path (`OnePathsExact`). Of two faults whose gates are not
    mutually related no output sees both, so that every output shows what one of
    them alone would show, which is nothing: `DetectableKept`.
  - Connections: `ReadInv` says how many inputs, gates and outputs the lines read
    so far have given, and that the map leads from each wire to the gate that put
    it in first; `BuiltInv` that the gates before `cur` read exactly the gates
    their wires lead to and that the fanouts list them once for each input. Hence
    `ConnectionsAlwaysExact`. What a line lists depends on the lines before it (a
    list goes on behind a backslash), which `InputsGoOn` and `OutputsGoOn` follow.
    The assumption on files (`FileOK`): inputs are named before gates, a `.names`
    line has three wires, and the sizes are what the constructor counts.
  - Cones: a cone is recursive along the fanins, a search goes breadth first from
    one gate. Both are fixed points, every gate of one is reached in the other by
    induction on its id (`SearchesFind`), and the levels rise along every
    connection (`LevelsRise`). `ConesInv`: the gates of the levels taken out of the
    tables so far have their exact entries, and those of the lowest level left
    (`LowestLeft`) need only what has been taken before. Hence `ConesAlwaysExact`.
  - Reconvergent gates: what `checkInPath1` returns is determined by what it
    returns for the fanouts, in the order of their list, and a gate is returned if
    and only if the search stops somewhere behind (`MeetsAreRight`, by induction
    against the order of the gates). Hence `ReconvergenceAlwaysSound`.
  - The safety half of `GoodFileIsRead`: no gate lies behind itself (`NoCycle`), and
    when `findInPropagationPath` merges entries every gate has one; so a good
    circuit ends neither in endless recursion nor in a crash: `CircuitsGoThrough`.
  - Together: the pairs are settled on the very circuit the constructor has built
    (`BuiltPairsKept`), so that the promise of `checkRedundantDSAF` does not rest on
    assuming that its input is well formed.
  - Searches for blocking faults. Without fanout there is one path from a gate to
    an output, and a fault's effect runs along it and nowhere else: a test inverts
    every gate of the path and no other. So what hides the fault lies on the path
    or sets a side input of it to the value that closes the gate, and
    `sameFaultCurToPIDFS` walks back along exactly the faults that set it, or every
    pair that does so together. `SearchInv` ties each record to the walk under the
    fault's own test; this gives `MaskingSinglesRecorded` and
    `MaskingPairsRecorded`.
  - The two phases. `PairsInv` adds what `pairUndetectedDSAF` and the compression
    have done: each pair already treated has a test among the patterns or has none
    at all, and the counters of the loops run over what is listed. This holds on
    every circuit (`ListedPairsDecided`, `OnlyPairsReachSolver`). Without fanout
    two faults of different lines that no given pattern finds hide each other, so
    they are in each other's records and listed; of two faults of one line the
    patterns find one. Hence `PairsCovered`. `TriplesInv` does the same for the
    third phase (`ListedTriplesDecided`); two faults that hide a third only together
    lie behind its side inputs, so they differ from it and a triple has three
    faults (`TriplesCovered`).
* `TestGeneBySAT_proof`. The models computed variable by variable are those of
  the clauses (`ModelsExact`); the miter with the faults treated so far is built
  gate by gate, and its clauses say that the assignment simulates both circuits
  (`GatesSatisfied`); outputs are told apart exactly by the XORs; a simulation
  is determined by the inputs and is the reference semantics. Together:
  `ModelsExactly` (the models are the simulations under the tests) and
  `AnswersRight`, the **refinement** of `TestGeneration`. The hypothesis
  `FaultsReached` is needed: `constant_tests` is the counterexample without it.
  `generateTestBySAT` has an invariant of its own, `IncInv` (`CallsSeparate`):
  what was saved can be put back (`Restorable`: a gate is that of the miter and
  its clauses are that gate's, or the gate is saved), and between the calls the
  clauses are those of a miter carrying exactly the faults of this call
  (`Carrying`). Without the first part a gate hit twice would be restored faulty;
  the second speaks of the clauses, and leaves open which constants an uneven
  reset leaves in the gates, as the answers must not depend on them. Hence
  `ResetsRestore` (`CNFRestored`) and, with the lemmas above, `ModelsDetect`
  (`ModelsAreTests`): after any sequence of calls the models are exactly the
  tests for the faults of the latest one.
* `GlucoseParts_proof`. Each part is proved from its own module and lifted by a
  lemma that a step of the sum is a step of the part or leaves it alone.
  - Ring: where the values lie (`RingShape`: a ring that is not full has never
    come round) and totals, from which the latest values, their sum and the
    oldest one follow (`RingAlwaysExact`).
  - Queue: the **refinement** of `Fifo`. Places are apart, an insertion appends,
    and moving the buffer to a larger one keeps the list (`QueueKeepsOrder`).
  - Vector: wrap-around arithmetic of ints (`WrapIs`, `GrowthIs`) and an
    invariant on capacities (`VecAlwaysSafe`).
  - Threads: `ThreadsInv` says what each thread knows, that every literal
    exchanged is implied, who is the first to finish and what he leaves; hence
    `ResultAlwaysRight` and, as an action property, `UnitsAlwaysImported`: for
    any number of threads, any formula and whichever variables were eliminated:
    what the winner found extends to a model of the formula (`ModelExtended`).
  - Buffer of clauses: `BufferInv` ties the words to the history of all clauses
    pushed. The clauses not yet removed lie behind each other (`ClausesApart`,
    `WordsExact`), and before the place of each thread is no clause it has still to
    get (`PlacesRight`); words of different clauses are at different places
    (`WordsApart`), so a counter that goes down or a clause that is written
    disturbs no other. `PlacesRight` is what makes it inductive: it says why
    neither a removal nor a wrap-around takes a thread's place out of the words in
    use. A removal in `getClause` starts with a counter of 0, and the thread that
    holds the mutex has no place of its own until it ends. Hence
    `BufferAlwaysExact`, for any number of threads and clauses of any length that
    fit; and `LastNeverMoved`: a branch of `getClause` is dead.

**Only model-checked.** Liveness (`Terminates`, `GoodFileIsRead`, `ThreadsEnd`,
that the solver answers): out of TLAPS' reach. `FaultSearch` on circuits with
fanout: that every testable pair is listed (`PairsSettled`) and that a triple has
three faults (`TriplesSettled`) do not follow for every such circuit from what the
walks record, which stop where paths meet again; TLC checks both on the chosen
circuits. `TmaxInterface`: no theorem; what it claims compares a circuit
that was rewritten in place, and a file read back, with the reference semantics,
for each of the cases of the rewriting. `GlucoseSolver` and the modules under it:
its operations are folds over a record of lists, and its invariants speak of all
models of a formula; `SATPromise` is left to TLC on chosen formulas.
The invariant of the threads says nothing of the main thread's waiting.

## 6. Not modelled

* The former program `store.cpp`, pattern conversion scripts, `ATPGTSA.h` (empty),
  text formats and printing.
* The evaluation `testTSA_pattern` (`ATPG.h:267`, 1426), which only counts what
  an existing pattern set detects.
* Of Glucose: command line and DIMACS parsing, certificates, assumptions,
  asymmetric branching, allocation of memory.
* Of parallel Glucose: how clones are generated and parameterised, the import of
  clauses into the watch lists (purgatory), statistics.

## 7. Plan

What is left to prove: `FilesExact` and `StuckAt1TriplesExact` of
`TmaxInterface`, the invariants of `GlucoseSolver`, and what the searches of
`FaultSearch` find on circuits with fanout, where it first has to be found out
for which circuits it is true.
