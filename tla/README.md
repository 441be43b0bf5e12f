# cobisolv in TLA+

cobisolv maximises a QUBO: it decomposes the problem into sub-problems, solves
those with a tabu search or on a COBI Ising chip, and polishes the result with a
tabu search of the whole problem, over and over. Beside it the repository has a
library (`isd/`) with which Python programs use a COBI card, and a k-SAT script
built on that. This directory holds TLA+ modules of these programs, the TLC
configurations that check them, and proofs for TLAPS. Paths below are relative to
the repository's `src/`; `solver.cc`, `util.cc` and `cobi.cc` are in `src/src/`.

## The system

| part | state | operations | what makes it correct | hard because |
|---|---|---|---|---|
| solution list, `util.cc` | `solution_list`, `energy_list`, `solution_counts`, `Qindex` (`list_order`), `num_nq_solutions` | `manage_solutions` | it keeps the best solutions offered, each once | rows are found through an index that every call re-sorts, with ties in arbitrary order |
| index quicksort, `util.cc` | the index, a stack in memory of the caller | `val_index_sort`, `val_index_sort_ns` | a permutation in falling order, within the stack's n + 1 integers | no recursion, no check of the stack, the larger side may be left on it |
| objective and local search, `solver.cc` | `solution`, `flip_cost`, `energy` | `evaluate`, `evaluate_1bit`, `local_search(_1bit)` | the incremental values stay exact; it ends at a local optimum | nothing is recomputed, one wrong sign shows many flips later |
| tabu search, `solver.cc` | `TabuK`, `best`, budget, cycle detection | `tabu_search` | it returns the best solution it remembered, and ends | it walks away from its best, the budget grows, five ways out of the loop |
| backbone and population, `util.cc` | - | `mul_index_solution_diff`, `solution_population` | the backbone is what the listed solutions differ in | counts are mirrored at half of an odd or even number |
| decompositions, `solver.cc`, `util.cc` | `index`, `Pcompress`, `Icompress`, `l` | windows of a pass, `bfs_get_new_sub_qubo` | sub-problems are distinct variables inside the arrays | index arithmetic without a check at the read |
| reduction and projection, `solver.cc` | `sub_qubo`, `sub_solution` | `reduce`, `reduce_solve_projection` | a gain on the sub-problem is a gain on the problem | two walks with a skip pointer that need sorted input |
| main loop, `solver.cc` | `RepeatPass`, `NoProgress`, `best_energy`, `solution`, `batch_solutions` | `solve` | it reports the best found, stops when asked to, and stops | three ways to stop, counters of 16 bits, restarts and randomisation |
| COBI card, `cobi.cc` | file descriptor; chips and FIFO outside | `cobi_init`, `cobi_reset`, `cobi_solver`, `cobi_read`, `cobi_write_program` | a call reads the results of its own programs | concurrency with the chips, results out of order, death between write and read |
| ISD client, `isd/cobi.c`, `isd/wrapper.pyx` | results owed to the caller; chip and FIFO outside | `init_device`, `submit_problem`, `read_result`, `solveQ` | results come back in the order of the submissions | results are told apart by order only, and a process that dies leaves some behind |
| COBI conversion, `cobi.cc` | `ising`, `norm_ising`, `programming_bits` | `ising_from_qubo`, `cobi_norm_*`, `cobi_prepare_weights`, serialisation, `cobi_read_result` | the chip solves the problem meant, and its answer is understood | rounding, clamping, C's `%`, layout with four offsets, words in reverse |
| file reader, `cmd/readqubo.c` | node and coupler arrays, `maxNodes_`, the matrix | `read_qubo`, `fill_qubo` | the problem solved is the problem written; nothing outside the arrays | entries are stored before they are checked |
| command line, `cmd/main.c` | globals, `param`, sub-sampler, card | the option switch, `cobi_init` | sampler, size, card and sign fit the options given | decided in three places, dependent on order |
| k-SAT driver, `isd/ksat_optimized.py` | formula, frozen variables, QUBO | its main loop | the program sent encodes the formula | freezing, splitting and numbering of new variables interact |

How they interact. `main` reads the options and the QUBO, claims a card if it is to
use one, and calls `solve`. `solve` owns all state of a run and passes pointers to
it: the solution list to `manage_solutions`, the current solution and its flip costs
to the searches, and for each sub-problem an index of variables to
`reduce_solve_projection`, which calls the sub-sampler through a function pointer
(`tabu_sub_sample`, `cobi_sub_sample`, `rand_sub_sample` or `null_sub_sample`). The
program has one thread (the OpenMP sections are commented out); what is concurrent
is the card, which anneals on four chips while the process writes further programs
and polls a status register. The ISD library is another driver, for a card with
another firmware. Nothing is persisted but what a card itself holds when a process
dies.

## Modules

| module | models | composes |
|---|---|---|
| `BestPool` | what the solution list promises: the `nMax` best pairs offered | |
| `SolutionTable` | `manage_solutions`; refines `BestPool` | `BestPool` |
| `OuterLoop` | `solve` | extends `SolutionTable` |
| `Qubo` | objective, full and incremental evaluation | |
| `LocalSearch` | `local_search`, `local_search_1bit` | `Qubo` |
| `TabuSearch` | `tabu_search` | `LocalSearch`, step by step |
| `IndexSort` | the index sort and its stack | |
| `Population` | backbone and population of several solutions | `Qubo` |
| `SubmatrixPass` | the windows of one pass in `solve` | |
| `ReduceProject` | `reduce`, `reduce_solve_projection` | `Qubo`, twice |
| `SubmatrixSearch` | a whole pass of `solve` over its sub-problems | `IndexSort`, `Population`, `SubmatrixPass`, `ReduceProject` |
| `BfsDecomposer` | `bfs_get_new_sub_qubo` | |
| `CobiCard` | the card behind its registers | |
| `CobiDevice` | cobisolv as a user of the card | `CobiCard` |
| `IsdClient` | the ISD library as a user of the card | `CobiCard` |
| `CobiCards` | a card and both drivers | `CobiDevice`, `IsdClient` |
| `CobiProblem` | from QUBO to chip program and back, for both drivers | `Qubo` |
| `QuboReader` | `read_qubo`, `fill_qubo` | |
| `FrontEnd` | the command line up to `solve` | `QuboReader` |
| `KsatEncoding` | the first iteration of the k-SAT driver | |

The theorems about a module `M` are in `MProofs` (there are eight: for
`OuterLoop`, with the list it extends, `Qubo`, `TabuSearch`, `SubmatrixPass`,
`SubmatrixSearch`, with the `IndexSort` it runs, `BfsDecomposer` and `FrontEnd`, and
`CobiProofs` for `CobiCards`, `CobiProblem` and `KsatEncoding`). The `MC` modules give the constants of
an instance. An operator with a suffix, such as `Store_Uncounted` before `Store`, is
no part of the model: it is the same definition with a slip a programmer could make,
and each property is known to fail when the slip takes the definition's place.
PROJECT.json pairs them, and maps every definition to the lines it models.

`SolutionTable`. One step is one call. The five actions are the code's five
ways out; the scan for equal energies (652-683) becomes the set `Matches`, and
the code's early return its least member. `Orders` is what the two sorts may
return: any permutation sorted by energy (that the quicksort returns one is
`SortCorrect` below). `list_order` starts with any content, as nobody initialises
it. `offered` is a history variable. `NewBetween` returns the hits of the wrong row,
as 733 does.

`LocalSearch`, `TabuSearch`, `Qubo`. Matrices are functions on pairs `i <= j`; the
objective by definition (`Objective`, a sum of `Terms`) is kept apart from the code's row-wise
`Evaluate` and the incremental `UpdatedFlipCost`. `LocalSearch` takes a step per
variable tried. `TabuSearch` extends it: a step is one turn of the outer `while`, and
when a turn finds an improvement the steps that follow are those of the local search
on the same solution, costs and counter, with every shuffle `index_sort` may give.
Energies are integers: doubles drift by rounding, which is not modelled.

`IndexSort`. A step is one turn of the loop in `partition` or of the loop around it,
one exchange at most. The stack is a sequence of stretches; each takes two of the
integers the caller has allocated. `val_index_sort` shuffles first and
`val_index_sort_ns` starts from the identity: the model starts from any permutation.

`SubmatrixPass`. `qubo_size`, `subMatrix` and the backbone's length are chosen at
the start, every combination up to a bound; a step is one sub-problem. A call with
`-S` below 10 is counted as an error in main.c:212, but the count is overwritten
at main.c:348 and the run goes on, so sizes start at 1. (A size of 0 has windows of no
variables that never advance; that is for `OuterLoop`.)

`ReduceProject`. The two walks of `reduce` with their pointers (`SkipDown` and
`SkipUp` say which extracted variable each waits for when it comes to `j`), then any answer
of the sub-sampler, then the projection. An `Icompress` with an entry that is no
variable is an `Overrun`: the matrix is read outside, and the model stops there. The sub-problem is a second instance of
`Qubo`, so that its objective is the same operator on a smaller matrix.

`SubmatrixSearch`. From the order of the variables to the batch that becomes the
solution. With `-a o` the steps of `IndexSort` sort the flip costs. With `-a d` the list
is any list: the priming that filled it asks for `MIN(subMatrix, qubo_size / 2)`
differing variables only and gives up after 41 tries (795, 802). `Population` primes
the solution from it, a tabu search makes any solution of that, which `Offered` puts at
some rank of the list or not at all (809), and then the backbone is taken (867).
`SubmatrixPass` is instantiated for the bounds of the pass and its windows, and each
window runs through `ReduceProject` on the batch. Each part starts from what the one
before left. A backbone shorter than a window gives a negative start: the window is
then read from before `Pcompress`, where the constant `Memory` says what may stand.

`BfsDecomposer`. A step reads one matrix entry.

`OuterLoop`. Priming (`-a d`), first search, restart, the beginning of a pass, each of
its windows and their end, flips, batch copy and full search are an action each, in the
code's order. `l` advances by `subMatrix`, which `-S 0` makes 0; how many variables a
pass covers is any number up to `MaxLength`. It extends `SolutionTable`,
so that its calls of `manage_solutions` are that module's action on its variables. What a search finds is any solution with any energy
a search may return for it. The short counters wrap at `ShortMax`. `unimproved` is a
history variable, the passes since the best energy last rose.

`CobiCard`, `CobiDevice`, `IsdClient`, `CobiCards`. The card is external: `Finish` is
a chip that delivers its result when the FIFO has room; `Stop` assumes that writing
the control register stops the chips, which is what "Initialize cobi chips
interface controller" (cobi.cc:466) is taken to mean. It may hold a program or a
result of an earlier user. Programs and results carry the call or submission they
belong to, which the code does not. `Crash` and `Die` are a signal, any `exit()` of
an error path, or the end of the Python process. Writing a program is one `write()`
and one step; a program written while no chip is ready is lost. The firmware decides
which driver goes on: the other one refuses the card. The library opens and closes
the card within each of its functions, and what the caller calls next is free.

`CobiProblem`. A value v is held as 4v and a scale s as 10s, so that the code's
constants (/ 4, 0.5, 1.5, 0.1) are whole. Rounding, truncating `/`, signed `%` and
the clamps are as in C; the doubles' own rounding is left out. The five programs of a
call share one `norm_ising`, as in the code. The strategy parser is modelled with its
double comparison (1312-1314). `ToInt` is the conversion at 833, before the clamp,
which looks at one side only: a double beyond `INT_MAX` becomes `INT_MIN`, as on x86-64
(in C++ it is undefined). `hex_mapping` ends the program for a weight or a SHIL value
the chip does not have; `--shilVal` is any of `ShilVals`. The sizes of the chip are functions of `SHIL_INDEX`
(22), `PAD` (4) and `CHIP_WORD` (32). Serialisation packs the matrix into words of 16
nibbles, last first, and a result is decoded from the bits of three words.
`WriteProgram`, `ReadAnswer` and `decode` are `cobi_write_program`, `cobi_read` and
`cobi_read_result`: the first two names are taken in `CobiCards`, and the theorems about
both are in one module.

`QuboReader`, `FrontEnd`. A line is its three numbers; a step reads one line, or
one option. An entry is stored first and checked after that, as in the code, against the
upper bound only: node numbers are any integers. An accepted entry with a negative node
is written outside the matrix; the model goes to "outside" and no further.
`stated` and `given` record what the file and the command line said. Options that
set a number are represented by `--card` and `num_samples`, which decide something.
`OpenCard` finds at each path nothing, a card of another firmware, or one of its own;
reading the firmware and resetting the card may fail, which ends the program with 1 or 3.

`KsatEncoding`. Variables are frozen one by one until the estimate of spins fits;
each freezing rewrites the formula, and what it leaves of a clause goes through
`list(set(...))` (830): `Listed` gives the literals of a set in any of `Orders`. (A set
would also drop a repeated literal; clauses have none.) Then the long clauses are split, the QUBO and the
matrix of the chip are made, and the script ends, because `w_submit_problem` is not
imported (see below). The options are those the script sets itself.

## Runs and bounds

| run | instance | what it shows |
|---|---|---|
| `solution_table` | 5 vectors, 3 energies with ties, 3 rows, 2 hits | every branch with a full and a not full list, ties at the top and at the row that drops out; the list refines `BestPool` |
| `search` | 3 variables, 113 matrices, tenure 2, budget 30, 2 extensions, target or none | local searches inside tabu searches, 277 thousand states: turns in which all variables are tabu, late extensions of the budget, the target |
| `submatrix_pass` | all sizes 20..30, sub-problems 1..size, backbones 0..size | the guard, the last window, exactly fitting windows |
| `submatrix_search` | 5 variables, windows of 2, all three decompositions, 4 lists that differ in nothing, one variable and more, a list of 3 rows, 3 numbers in memory | passes of two and three windows, the last overlapping; sorts with ties from every starting order; any answer of the search after the priming, kept at any rank; backbones shorter than a window; 1.4 million states |
| `bfs_decomposer` | all 64 graphs on 4 vertices, all sub-problem sizes | empty, split and full components |
| `outer_loop` | 4 solutions, 2 rows, 2 or 3 repeats, target or none, time 4, restart every 2 passes, shorts up to 2, sub-problems of 0 and 2 variables, passes over up to 3 | all codes, restarts, counters that wrap before they reach 3 repeats, target in and out of reach, passes of no, one and two windows; 1.6 million states |
| `cobi_cards` | 2 chips, FIFO of 2, 1 or 4 programs a call, 2 calls, 3 submissions, 1 death of each | 4 programs fill chips and FIFO exactly; a death in every state; 613 thousand states |
| `cobi_problem` | 3 variables (4 spins), every strategy name, 4 weight matrices of the library, an int of 7 bits, SHIL values 0, 7 and 8 | values that no longer fit the int; clamped, odd and zero weights of both signs; `SHIL_INDEX` 1 is the smallest layout with SHIL rows between spins, `PAD` 6 fills whole words as 4 does on the chip, 11 bits a word make results cross words; 296 thousand states |
| `front_end` | two program lines, up to two nodes, coordinates -1..2, 3 options, sizes 5 and 12 | files with lines missing, repeated, too many or out of bounds at either end; every order of three options; two cards; 9 million states |
| `ksat` | 7 variables, 10 spins, 109 formulas with clauses of 1 to 6 literals | all amounts of freezing, clauses split once and more, weights cut off, sets listed upwards and downwards; 23 thousand states |
| `submatrix_cover` | sizes 20..24, sub-problems from 10 | finding, below |
| `cobi_ising` | as `cobi_problem` | finding, below |

What the bounds leave out. The exits of `tabu_search` on `bit_cycle > 4` need five
variables that are flipped in a cycle and are not reached with three. A card has
four chips and a call five programs; two chips and four programs have the same
shape, and the proof below covers every number. Chains of deaths longer than one of
each process are covered by the proof as well. INT_MAX and SHRT_MAX are small so that
they are passed; the proofs take any. Windows of `-S 0` have no variables; that a
sampler returns from such a problem is assumed for them as for all others.

Fairness. `solve` and what it calls are loops of one thread that wait for nothing:
weak fairness of the next-state relation says that the thread keeps running.
`BfsDecomposer` draws variables with `rand()`; weak fairness of each value drawn
says that no value is kept back for ever. `CobiCards` assumes that a process in a
call goes on polling (`HostStep`, `IsdStep`) and that a chip that can deliver does
(`Anneal`); neither a death nor another call of the Python program is assumed.

## Findings

1. `submatrix_cover`. The last window over the backbone starts at
   `len_index - subMatrix - 1` (solver.cc:924), one too early: the comment on that
   line says that the backbone is covered, but its last variable is in no
   sub-problem.
2. `cobi_ising`. `ising_from_qubo` gives the linear part of a quadratic term to
   its first variable only (cobi.cc:1049-1058): energies of the chip's problem do
   not differ as those of the QUBO do.

Faults that a property is guarded against. The models run into each of them; the guard
says where the property still holds, and TLC gives the counterexample when it is
taken away.

- `WindowsAscend`, `ProjectionExact` (`BackboneHoldsWindow`). The start
  at solver.cc:924 is negative when the backbone is shorter than a sub-problem.
  `Pcompress` is then read before its first entry, and `reduce` gets an `Icompress` that
  is not "ordered lowest to highest" (516), nor perhaps of variables. With the default
  size that can happen to any problem of less than 90 variables under `-a d`. `ChangeCounts`
  has the same guard for its proof; in the run it holds without.
- `Terminates` (`subMatrix > 0`). `-S 0` is "the default value" by main.c:520-522 and
  README.rst:100, but is taken as a size of 0. For more than 20 variables
  `l += subMatrix` (907) stays where it is: the first pass never ends, and no limit, not even
  the time that "stops execution" (README.rst:90), is looked at.
- `TypeOK`, `OrderKept` (`FitsInt`). With `-e scaled` or `mixed` a positive value beyond
  `INT_MAX` is converted before it is clamped (cobi.cc:833): it is then no weight "in
  range -7 to 7" (512), and `hex_mapping` ends the program. `shil_val <= 7`: a larger
  `--shilVal` ends it as well (520).
- `OrderKept` (`LinearNorm`). "Linear scaling" (cobi.cc:921) maps the middle of the span
  of values to 0 and leaves zero values at 0: with a largest value of 5 and a least of
  0, a value of 1 gets a negative weight, below that of zero.
- `AcceptedInside` (`e.n1 < 0`). "The node number must be in {0 , (maxNodes-1)}"
  (main.c:589, README.rst:173); readqubo.c:108 looks at the upper end only, and
  `fill_qubo` writes an accepted negative node outside the matrix.

Where the code does not do what the documents say, and the properties state what it does.

- "A duplicate node number is an error", and so is a duplicate coupler (main.c:579-585,
  README.rst:165, 169). The reader compares counts only; of several lines the last counts,
  which `MatrixIsFile` states.
- "If present, this optional argument causes subproblems to be solved on the COBI chip"
  (main.c:465-466, README.rst:69). A `-S` behind `-C` takes it back, and a `-C` behind
  `-S` takes back that one, of which README.rst:103 says "solved with the tabu solver".
  `SamplerFits` states that the later of the two decides.
- "SubMatrix must be 0 or greater than 10" (main.c:211) is printed and counted as an
  error, and the count is overwritten at 348. `SamplerFits` claims nothing of such sizes,
  nor of `-S 0`.

Also seen, without a run.

- `util.cc`. The hits at 733 are those of another row (no caller reads them). With no
  variables the sort's first push needs two integers of a stack of one; a file
  without a program line is accepted and has none. `solution_population` with an odd
  number of solutions takes a bit set in the smaller half, rounded down, as one, and
  gives all ones for a single solution, against its comments (495, 514). The BFS reads
  rows to the right of the diagonal only, so "exhausted the current connected
  components" (814) is not so; `ForwardExhausted` states what is true.
- `solver.cc`. Bits flipped after a pass that moved at most two ("randomize those
  bits", 980) are lost when the batch is copied over the solution (1013-1015). 687
  says 8 passes before a restart, 743 says 12; `NoProgress` is not reset by an
  improvement. Results with the two `UNIQUE_SOL` codes do not count in `RepeatPass`,
  so that more than `-n` passes without an improvement are possible (689). With a
  target the repeats no longer end the run, unlike main.c:510-511 says. `tabu_search`
  does not take an improving flip of the variable it flipped last (322), so it may
  pass by the best solution it visits, and with a single variable, or a tenure that
  keeps all variables tabu, it counts no flips and does not end (239).
- `main.c`. The help (520-522) names a default size of 47 (it is 45); `-s` and `-D` are not in the letters getopt is given and end in the help; `--card` is cast
  to 16 bits; cards of another firmware stay open.
- `readqubo.c`. The arrays are overrun by at most one entry of a file that is then
  refused (84, 109); further program lines are ignored.
- `cobi.cc`. The strategy parser compares with the same string twice (1312-1314), so
  that "naive" is the single evaluation and "indep" the naive one. `cobi_solver`
  returns its first result when none has a negative energy (1183). `ising_solution_from_qubo_solution` and
  `qubo_solution_from_ising_solution` map spins to bits in opposite ways; the first
  one's result is not used.
- `isd/`. `w_close_device` closes the descriptor with the device's number, and
  `w_open_device` leaks one. A blocking read with nothing submitted waits for ever; a
  submission does when FIFO and chip are full. No lock keeps two processes apart.
  The new variables of `sat_kN_to_k3` start at `maxvar`, the number of the last
  variable: the encoding is wrong when that one is not frozen and a long clause
  remains, which `EncodingExact` leaves out. The script imports `w_solveQ` only and
  ends with a NameError at its first `w_submit_problem`.

## Proofs

Eight modules hold theorems, for every value of the constants under the assumptions
the modules name (`TableAssumption`, `LoopAssumption`, `PassAssumption`,
`BfsAssumption`, `DeviceAssumption`, `ReaderAssumption`, `FrontEndAssumption`,
`ProblemAssumption`, `QuboSizeAssumption`, `SubmatrixSearchAssumption`,
`KsatAssumption`, `ClauseAssumption`, `OrderAssumption`: sizes are natural numbers,
matrices, readings, options and files have their types, every node of a file can be
named, the literals of a clause are of different variables, a set is listed with each
of its members once). TLC
evaluates each assumption on the instance of a run.

`OuterLoopProofs`, the list. `BestNeverLost` (`BestKept`) is not inductive: a call
finds rows through `list_order`, and decides by the first and the last of it, so what
the call may conclude depends on the order it left the last time. `IInv`
(`InductiveInvariant`) adds that the order sorts the rows (`OrderSorted`), that
occupied rows hold pairs really offered (`RowsOffered`), and that no offer beats the
whole list (`OffersBeaten`, `OffersRead`). It is preserved by each of the five ways
out of the call; `OrderFacts` says what a sorted order gives, whatever the quicksort
does with ties. `NoDuplicateRows` (`RowsUnique`) assumes that every search returns
one energy for one solution (`ExactEnergies`): the duplicate test compares the bits
only of rows with an equal energy, and with rounded energies the theorem would not
hold. `RanksInUse` (`OccupiedFirst`) adds `RowsCounted`, that `num_nq_solutions` is
the number of occupied rows: a row is overwritten only if it is the last of the
order, so that a free one is taken as long as there is one. `FirstRanks` counts the
ranks above and below a row to get from the number to the order.
`ListImplementsBestPool` is the refinement: `PoolInv` says that no pair is in two
rows, that a list with free rows has lost nothing, and that what was lost is no
better than any row; `StoreKeepsBest` shows this of a replaced row and `PoolIsBest`
that it makes the list a choice of the best. It needs no exact energies.

`OuterLoopProofs`, the loop. Every step of `solve` is a call of `manage_solutions` or
leaves the list alone (`LoopOnlyOffers`), so that all of the above holds inside it;
`LoopKeepsBestPool` says so of the refinement. `AnswerIsBest` (`BestTracked`) and
`GivesUpInTime` (`NeverGivesUpEarly`) rest on `LoopInv`, which relates the wrapping
counter to the passes that went by: `RepeatPass <= unimproved` or enough of them have.
It is kept because the best energy of the list rises only with the code that resets
the counter (`BestRises`).

`QuboProofs`. Facts about sums over finite sets, and three theorems on top of them:
the row-wise evaluation is the objective (`EvaluateExact`), the flip costs are its
differences (`FlipCostExact`), and the incremental update gives what a new evaluation
would (`UpdatedExact`). The sums are the community modules' `SumFunctionOnSet`,
defined by a choice of what satisfies its recursive equations. Where an induction over
sets is needed the proof takes a smallest counterexample instead (`SmallestSet`): the
strict subsets of a finite set are a well-founded order, and the prover takes the
result for a set of counterexamples, which needs no operator as a parameter.

`TabuSearchProofs`. `UpdatesStayExact` (`AuxiliaryExact`), `BestIsPolished`
(`BestEnergyOfBest`) and `SearchReturnsPolished` (`ReturnsPolished`). The invariant
says that energy and flip costs are those of a full evaluation wherever they are
defined (`AuxInv`, kept by `UpdatedExact`); that a sweep which has flipped nothing so
far has shown the variables it has passed to be unprofitable, so that the end of an
idle sweep is a local optimum; and that `best`, once remembered, is one, at least as
good as the start (`BestInv`).

`SubmatrixSearchProofs`, the sort. `StackAlwaysFits`: stretches on the stack are in
ascending order without touching, and the k-th starts at 3(k - 1) or later, because
the one below it has two values or more and a pivot lies between them (`Stacked`).
Hence there are at most (n + 1) / 2, wherever the pivots fall. `SortCorrect`: two
ranks that are in no common open stretch (`Open`) are in order; partitioning keeps
that, since it only exchanges ranks of one stretch, and an empty stack leaves no ranks
open.

`SubmatrixSearchProofs`, the pass. Its invariant has a part for each stage: the sort's
own one as long as it runs (`SortInv`), what is in the list and the backbone
(`BackboneInv`), that the index holds distinct variables and the windows stay inside
it (`PassInv`), the window in hand (`WindowInv`), and what the counted changes account
for (`ChangeInv`). Each part is the precondition of the next. That chain breaks in one
place, a backbone shorter than a window, which no assumption excludes: the invariant is
`PassIInv` or, from the moment such a backbone is taken, `ShortInv`, in which only the
backbone itself is known. The properties about windows carry the guard
`BackboneHoldsWindow`: `PassSortsDown` (`SortsDown`), `StackFitsInPass`
(`StackFits`), `PassBackboneExact` (`BackboneExact`), `PassWindowsAscend`
(`WindowsAscend`), `PassProjectionExact` (`ProjectionExact`), `PassChangeCounts`
(`ChangeCounts`). `ProjectionExact` goes through the arithmetic of `reduce`: in an
ascending sub-problem the pointer of each walk stands at the next extracted variable
(`SkipDown`, `SkipUp`), so that the two sums take each variable outside once
(`ClampExact`). Splitting a row and a column of the matrix into inside and outside
(`RowSplit`, `ColSplit`) shows that the small problem has the flip costs of the large
one (`WindowFlipCost`). Hence flipping one bit changes both objectives alike
(`GapFlip`), and flips lead from one answer to any other (`WindowExact`).

`SubmatrixPassProofs`. `PassTypeCorrect`, `WindowsInsideIndex` (`ReadsInsideIndex`)
and `WindowsInsideBackbone` (`ReadsInsideBackbone`). What is missing from the
invariants is `LengthKept`: `l_max` is still the value computed at the start.
`PassLengthBound` then bounds it by 1 or by `qubo_size - subMatrix`, so that a window
that begins below it ends inside the index.

`BfsDecomposerProofs`. `BfsTypeCorrect` (`TypeOK`), `CompleteAndDistinct`
(`SubProblemComplete`), `TraversalConnected` (`Connected`) and
`DrawsWhenExhausted` (`ForwardExhausted`). The invariant adds that `seen` marks
exactly the queue (without which an append could repeat a variable), what each
place in the loops relies on (`Control`), and `RowsRead`: the row of a vertex taken
from the queue has been read, or is being read up to column `j`, or the
sub-problem is full. `PushKeeps` and `PushConnected` say once what the three places
that append do to the queue.

`CobiProofs`, the card. The firmware never changes and lets one driver in, so the
invariant is one for each. `QuadInv`, for cobisolv: during a call every program
written is in a chip, in the FIFO or among the results read (`AllWritten`), in one of
them only (`Distinct`), and they are as many as were written (`Counted`: the busy
chips, the FIFO and the results read add up); between calls no chip is busy and the
FIFO is empty. `CallsReadTheirOwn` (`OwnResults`) and `ReturnsLowest`
(`LowestReturned`) follow from it. `SingleInv`, for the library: in a process that has
reset the card the FIFO and then the chip hold the programs owed, in order
(`ResultsInOrder`, `AnswersInOrder`).

`CobiProofs`, the problem. `ProblemTypeCorrect` (`TypeOK`), `CouplersInOrder`
(`OrderKept`) and `ProgramsArriveWhole` (`ProgramWhole`), for every sub-problem, every
strategy and every size of the chip whose padding fills the words
(`ProblemAssumption`). Rounding halves away from zero and clamping keep the order of
two fractions (`RoundKeepsOrder`, `ClampKeeps`); so does each of the three
normalisations (`LinearOrdered`, `ScaledOrdered`, `NonlinearOrdered`), whatever its
scale, the linear one among the values that are not zero and the scaled one among those
that fit an int (`FitsInt`), which `TypeOK` and `OrderKept` say. The two halves of a weight add up to it and are weights of the chip
(`HalvesAdd`). The programs of a call share a buffer, so the invariant says that what
a program does not write is zero in it (`Buffer`). A cell of the matrix is found in
the words where division with remainder puts it, and swapping bytes twice changes
nothing (`CellSent`); weights, SHIL values and control nibbles have cells of their own
(`WeightCells`).

`CobiProofs`, the answer. `AnswersUnderstood` (`AnswerDecoded`), for every size of the
chip, every width of its words and every answer that fits three of them. The provers
know nothing of powers of two beyond the library's theorem that a set of n elements
has 2^n subsets: from it comes that they double (`Powers`), and from that, by
induction over the number of bits, that the bits of a value spell it and that a value
has the bits that spell it (`BitsOfValue`, `ValueOfBits`). What the chip shifts out is a
chain of parts, each found again at its offset, whatever words it is cut into
(`Joined`, `MessageReceived`); the energy is read back with its sign by two's
complement of fifteen bits (`EnergyOfBits`).

`FrontEndProofs`. `AcceptedFilesInside` (`AcceptedInside`): as long as a file is not
refused every entry stored is on or above the diagonal and inside the matrix or of a
negative node (`ReaderInv`). The line that stores
one that does not refuses the file in the same step. `SamplerAsAsked` (`SamplerFits`)
and `CardAsAsked` (`CardFits`): `OptionsRead` relates the globals to the options read
so far (what the last option of a group is after one more is read is a fact of its
own), and `FrontInv` carries it over the reader and the choice of a card.
`MatrixAsStated` (`MatrixIsFile`): `StatedInv` says that of each pair the last entry
stored is the one stated, as nodes and couplers are kept in the order of their lines,
and `MatrixInv` takes it to the matrix. `fill_qubo` is a fold over the entries: it is
shown to have a solution, a single one, and to leave each pair its last entry
(`FillExists`, `FillUnique`, `FilledWithLast`).

`CobiProofs`, the formulas. `FreezingExact` (`SurrogateExact`), for every formula and
whatever is frozen: the clauses that went were satisfied, the same number for every
assignment with the frozen values (`KsatKept`). One freezing keeps that, because a
clause that loses its false literal is satisfied by the same assignments, in whatever
order its literals come back (`WithoutLiteral`), an empty one
by none, and the entries kept of a sequence are those that were at their places
(`Propagated`, `KeptCounted`). `EstimateSuffices` (`FitsSpins`), for every number of
spins and clauses of any length: the new variables of a clause and the ancillas of its
parts are as many as `ancillary_counter` estimates (`ClauseSplit`), summed over the
formula by induction over its clauses (`SplitTo`, `SplitCount`); a clause of three of
the split formula is estimated at its one ancilla, and the numbers of the program are
those of the variables and of the ancillas (`KsatFits`).

`ProgramEncodesFormula` (`EncodingExact`), for every formula, every order and every
value of freezing and every number of spins: over all new variables and ancillas, the
least energy an assignment can be extended to falls by four with each clause it
satisfies. The argument goes from the matrix back to the clauses.
  1. A matrix of weights that were not cut off gives spins the energy of the Ising
     problem (`ProgramEnergy`), and that is four times the objective of the QUBO for
     the bits the spins stand for, less a constant (`IsingExact`, from `SpinsToBits`
     and `QuboParts`; `Ascending` numbers the variables without a gap, so that spins
     and bits correspond).
  2. The terms of the QUBO, summed clause by clause (`QuboTotal`, `ClauseByClause`):
     up to a constant of its own (`Surplus`), a clause of at most three literals is worth
     at most 1 if it is met and 0 if not, and just that when its ancilla is set exactly
     when all its literals are true (`ThreeWorth`, `TwoWorth`, `OneWorth`, over every
     combination of signs). Ancillas are numbered apart (`RanksApart`), so all of them
     can be set so at once (`AncillasExist`).
  3. The pieces of a split clause that are met are at most its new variables, and one
     more if the clause is met (`SplitMet`, from `PiecesSound` and `PiecesComplete`:
     pieces are chained by the new variables, and a chain of pieces all of which are
     met has a true literal of the clause). The new variables can be chosen one after
     the other so that they are as many (`SettleNext`, `ChosenExists`). The choice
     touches the new variables of this clause only, so it can be made clause after
     clause (`MeetNext`, `MeetFormula`, `SplitExact`). Here it matters that no split
     takes the number of a variable in use.
  4. The invariant `KsatEncoded`: clauses keep distinct variables and are never empty
     through freezing (`PropagatedFormed`), and the program is that of the split
     formula. With `KsatFits` it gives the property (`LeastEnergy`, `EncodedShows`).

Assumed of formulas: the literals of a clause are of different variables
(`ClauseAssumption`; `import_cnf` does not check it). `EstimateSuffices` and
`FreezingExact` do not need that. `~Collides` and `clamped = 0` are hypotheses of the
property itself, and the run has states with and without them.

Only model-checked: everything with liveness (`Terminates` of three modules,
`CallsReturn`, `ReadsReturn`), which the prover has no rules for under fairness. Every
invariant and every refinement that a passing run checks is proved.

## Not modelled

Output and verbose printing; `linalg.c` and `debugs.c`, which the program does not
use; the vendored getopt; the kernel driver, external in `CobiCard`; two processes of
one driver on one card, which the code does not guard against and whose outcome is up
to the kernel driver; rounding of doubles; options that only set a number; the
iterations of the k-SAT script after its first submission, which are never reached.
Two faults of the code listed above (the flips that are lost and the hits of the
wrong row) are in the models as the code has them, without a property.

## What could follow

The quicksort inside `SolutionTable` in place of `Orders`; five variables in
`TabuSearch`, for its cycle detection.
