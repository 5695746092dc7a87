# TLA+ models of the SimpleScalar simulators

The repository is SimpleScalar 3.0 (`src/simulator/ss3`) with a changed two-level branch
predictor (the second-level index may be gshare's, gselect's or that of release 2.0) and a
script that runs the experiments with it (`src/run.py`).  This directory models the parts whose
behaviour is hard to see by running them: the branch predictor and its use by the in-order and
the out-of-order simulator, the execution core with its speculative state and its caches, the
simulated memory with the loaders, the system call proxies and the external event traces built on
it, and the way of a simulator from its command line to its final report.  TLC checks the models
on small instances; TLAPS proves theorems about some of them for all sizes.

## Inventory of the system

| Part | State | Operations | What is hard about it | Where modelled |
|---|---|---|---|---|
| branch predictor (`bpred.c`) | counters, history registers, BTB with LRU links, return-address stack, statistics | `bpred_lookup`, `bpred_recover`, `bpred_update` | indexes, LRU splice, stack wrap, records used long after the lookup | `BPred` |
| in-order predictor simulator (`sim-bpred.c`) | the program, the predictor | lookup and update of each control instruction | none of its own | `SimBPred` |
| branches in the pipeline (`sim-outorder.c`) | fetch queue, RUU, `spec_mode` | `ruu_fetch`, `ruu_dispatch`, `ruu_writeback`, `ruu_commit` for branches | wrong paths, out-of-order completion, three places to train, squashes | `BPredFlight` |
| execution core (`sim-outorder.c`) | RUU, LSQ, create vectors, links, ready and event queue, units | the stages of a cycle | stale links after squashes, wakeups, two queues in step, memory order, stalls | `Ruu` |
| functional units (`resource.c`) | busy counters, units of each class | `res_create_pool`, `res_get` | shared masters | `Ruu`, `Configure` |
| fetch unit | fetch queue, fetch delay | `ruu_fetch`, misfetch redirection | redirects from two stages | branches only |
| speculative state of the trace generator | copy-on-write registers, store hash table | register accessors, `spec_mem_access`, `tracer_recover` | stale speculative values, chains reordered by loads, entries lost | `SpecState` |
| caches and TLBs (`cache.c`) | tags, dirty bits, way lists, hash chains, last block hit, bus | `cache_access`, `cache_flush`, `cache_flush_addr` | fast-hit path, write-backs, replacement order, chains of changed tags | `Cache`, `DataCaches` (without the bus) |
| memory hierarchy (`sim-cache.c`, `sim-outorder.c`) | the caches and who is below whom | the miss handlers, flushes at system calls | write-backs through two levels with different blocks | `DataCaches` (data side) |
| simulated memory (`memory.c`) | inverted page table | translate, allocate, read, write, block copies | entries moved by reads, pages counted | `Memory`, `Proxy` |
| system call proxies (`target-*/syscall.c`) | registers, memory, break point, signal tables | one for each system call | arguments, results and failures of a hundred calls, replayed or made | `PisaSyscall`, `AlphaSyscall` |
| loaders (`target-*/loader.c`) | segments, initial registers | executables, traces, checkpoints | stack tables and strings, predecoding, restoring over what is there | `Loader` |
| event traces, checkpoints (`eio.c`, `sim-eio.c`, `range.c`) | trace files, position in a trace, dump triggers | record, replay, dump, restore, fast forward | the same state in every run, blobs, positions after a restore | `Eio`, `SimEio`, `Range` |
| option package (`options.c`) | option database | register, parse, read and dump configuration files | given twice, short lists, files in files, round trip | `Options` |
| statistics (`stats.c`, `eval.c`) | registered statistics, sparse distributions | register, evaluate, print | formulas over formulas, three kinds of arithmetic, division by zero | `Stats`, `SimStats` |
| configuration and start-up (`main.c`, `sim_check_options`) | option values, the machine built from them | checks, creation, report, exits | checks far from the code that relies on them, shared caches | `Configure`, `StartUp` |
| event queue library (`eventq.c`) | pending events | queue, remove, service | callbacks that queue | not used by any simulator |
| experiment harness (`run.py`) | work list, process pool, result files | simulate, parse, tabulate | worker processes, partial results | planned |
| the rest | | functional simulators, ISA definition, DLite debugger, pipe traces, libexo | instruction arithmetic, interactive input and output | not modelled |

The parts interact by direct calls inside one thread.  Concurrency is that of the simulated
machine: instructions in flight are the actors, a cycle gives each handler a turn, and fetch,
mispredictions and memory latencies are the environment.  What is persistent are event traces,
checkpoints and configuration files: a run may stop at any instruction and another one resume from
what it left.  The host operating system answers system calls as it likes, failure included.

## Modules

### Prediction and pipeline

* `LruSets` - what a set-associative store with LRU replacement promises: per set, the tags in
  the order of their last use; with flushes, it may be told to forget.  A request, which tag of which set,
  is a variable (`asked`), and every change of the store is the answer to it.  Who implements the store
  derives the request from what its program does, so a hit that reorders nothing, or reorders
  another way, is refused.
* `Window` - what an out-of-order pipeline promises: instructions enter in order, complete in any
  order, leave in order, and a mispredicted one takes the younger ones with it.
* `BPred` - the predictor.  `ctr`, `shiftregs`, `btb`, `ras`, `tos` and `stats` are the fields of
  `struct bpred_t`; `DirUpdate`, `Predicted`, `PopPush` are what `bpred_lookup` returns and does,
  `Train` and `UpdateStats` what `bpred_update` does.  An index is a function from bit positions
  to 0 and 1, so that masking and shifting need no arithmetic.  The lookups of the five classes,
  the three second-level indexes, hits, misses and evictions are all there; an address is a number,
  its instruction size `2^BrShift`.
* `SimBPred` - the loop of `sim_main` in `sim-bpred.c` restricted to control instructions:
  lookup and update in one action.  `frames`, `intact` and `streak` are history; `Asked` reads from
  `streak` what the last instruction asked of the BTB.
* `BPredFlight` - branches in the pipeline.  Fetch looks up and pushes on `ifq`; dispatch learns the
  outcome, may find a misfetch or start speculation; writeback in any order may squash; commit is
  in order.  `bpred_spec_update` chooses where training happens.  Which branch comes next on a path
  is left open, so every path of every program through `Branches` is there.
* `Ruu` - the execution core.  `stage` says which handler of the cycle has its turn, and each turn
  of a handler's loop is an action.  The stations of RUU and LSQ are `st`, with tags, operand flags
  and output chains of links as in `struct RUU_station`; links are records with the station and tag
  they were made for.  Fetch offers any instruction of the program, any branch may be mispredicted,
  and a load's latency is any of `LoadLats`.  The field `seq` of links and `deps` of stations are
  history variables for the properties.  A failed sanity check sets `panic`.
* `RuuProps` - the properties of `Ruu`; it also shows that `Ruu` implements `Window`.
* `Speculation` - what a wrong path promises: it starts from the right state, sees its own
  assignments, and leaves nothing behind.  The values and places of an assignment are a variable
  (`assigned`), so a write that is lost or changed on its way is refused, unless the path is `lossy`.
* `SpecState` - the trace generator's state: `regs` under `spec_regs` and its bitmap, `mem` under the
  chains of `store_htable`.  Dispatch executes in fetch order, so the accesses of instructions come
  one after the other, with a misprediction or a recovery at any point between.  The accesses of the
  model have aligned, valid addresses and do not overlap (a `FIXME` at `sim-outorder.c:3055` says that
  overlaps are not handled).  `written` is history, and so is `assigned`, what the last write of the current
  path was to write.  Bug-compatible mode never links an entry for a wrong-path store: it is `lossy`.

### Caches

* `Cache` - `cache.c` as operators on a cache record: each maps the record to the new one and the
  list of requests that `blk_access_fn` gets.  `line`, `order`, `hash`, `last` and `last_blk` are the
  tags and status bits, way lists, hash chains and the short cut for the last block hit.  `hsize` is a
  parameter: the code derives it from the associativity (`assoc >> 2` above 4 ways), which needs
  eight ways for two chains; the model has two chains with two ways.  An address is its block number.
* `DataCaches` - a level-1 data cache, a level-2 cache or none, and memory.  One action is one access
  with everything the miss handlers do below it.  `behind` is history: the blocks each level still
  owes the one below; `asked`, for LRU replacement, is the request the program last made of level 1.

### Memory, system calls and event traces

These modules are stacked by EXTENDS; the lower ones are operators on a record, `SimEio` has the
variables.

* `Memory` - the inverted page table of `memory.c`: a bucket is a sequence of entries, a page found
  behind the head is moved in front, by reads as well.  A cell stands for a unit the program reads
  and writes whole; a page has `PageSize` of them.  The counts of look-ups and misses are left out.
* `Proxy` - the record of a running simulator, its two memory accessors (the plain one, and
  `my_mem_fn` of `eio.c`, which records what it passes on), and the block and string copies.
* `PisaSyscall`, `AlphaSyscall` - one operator for each system call of the two proxies as Linux
  builds them: which registers and memory it reads and writes, in the order of the code and on each
  path, for an answer of the host that succeeds or fails.  Contents of structures are uniform.
* `Eio` - transactions and checkpoints, `eio_read_trace`, `eio_write_trace`, `eio_fast_forward`.
  A file is a value; the text format of libexo is not modelled.
* `Loader` - `ld_load_prog` of both targets: sections, stack with arguments and environment,
  segments, predecoding, or a trace and perhaps a checkpoint.
* `Range` - positions and ranges of `range.c`, without symbols.
* `SimEio` - `sim-eio.c`.  `runs` holds the options of the runs so far; `Start` is everything up to
  the main loop, `Insn` one instruction with the system call it may make, `Dump` the one-shot
  checkpoint (periodic ones are part of `Insn`), `End` the exit.  `golden` and `since` are history:
  the state the recording run had at each instruction.

### From the command line to the report

* `Options` - `options.c`.  Registered options are static, `opts`; the parser `p` holds the database,
  the stack of `__opt_process_options` invocations with the lines they have still to visit, and the
  files.  One call of `process_options` is one option, one line of a file or one end of either.
* `Configure` - the option tables of the three simulators, the checks of `sim_check_options`,
  `bpred_create`, `bpred_dir_create` and `cache_create` in their order, and the machine they build.
* `Stats` - registration, the evaluator of `eval.c` with its integers, unsigned integers and doubles
  (a double is a quotient of integers), sparse distributions, printing.
* `SimStats` - what `sim_reg_stats` of the three simulators registers.  `owner` and `name` of a cache's
  counter are kept apart: a shared cache has one set of counters, equal names clash.
* `StartUp` - `main`.  One action for each phase; `Execute` lets the program move any of several sets
  of counters; every fatal error after the start prints the report, as `fatal_hook` does.  `Exits` is the
  system call by which the program ends: it has been counted, with its accesses, when it jumps out of
  the main loop, so nobody looks at the counters tracked by address after it; `Finish` is the end at
  the limit of instructions, which comes after that look.  When a
  command line has dumped its configuration, `Again` starts a second process with that file.

`MCSimBPred`, `MCBPredFlight`, `MCRuu`, `MCDataCaches`, `MCSpecState`, `MCEio` and `MCStartUp` hold
programs, instruction mixes, unit pools, cache geometries, system calls and command lines for TLC.
Where several mixes share one run, a constant variable (`program`) says which one a behaviour has.
`BPredProofs` (the predictor's handlers and `SimBPred`), `WindowProofs`, `FlightProofs`, `RuuProofs` (the
invariant and the window of the execution core), `RuuFlowProofs` (what its instructions wait for),
`SpecStateProofs` and `CacheProofs` hold theorems with TLAPS proofs, `ListLemmas` the facts about lists,
circular queues and counting they share.

Definitions preceded by a comment `Fault: ...` are deliberately wrong variants of the definition
after them.  No specification uses them; putting one in the place of the original must break the
property `PROJECT.json` names, which shows that the property depends on that piece of code.

## What is checked

| Run | Instance | Shows |
|---|---|---|
| `MCSimBPred` | combining predictor with gshare index; three programs: 5 taken branches, one with two targets, in one set of 4 ways; 2 conditional branches; 2 calls and a return, stack of 2, depth 3 | no branch has two entries and the links of a set are one chain (`BtbWellFormed`) in the order of last use (`BtbImplementsLru`, refinement of `LruSets`); a taken branch leaves its target, and nothing but its own next taken update or its eviction changes the entry (`BtbRemembersTarget`); a constant branch is learnt (`LearnsBias`); the stack holds the innermost return addresses although deeper calls wrapped (`RasHoldsFrames`) |
| `MCFlight` | RUU and fetch queue of 2 branches, all three training policies, 2-way BTB, up to 5 lookups; two programs | no wrong-path commit (`CommitsRightPath`), refinement of `Window` (`ImplementsWindow`), each lookup trained once, squashed or in flight (`LookupsAccounted`), classes of counts add up (`StatsConsistent`) |
| `MCFlightTos` | one indirect call | violated: the top of stack after recovery is not the non-speculative one |
| `MCRuu` | RUU of 3, LSQ of 3, up to 6 operations; register mix with two outputs, memory mix with late addresses and data, both with branches | the create vectors stay precise through speculation and recovery (`CreateVectorPrecise`), an operand waits exactly while its producer is incomplete and is woken by one link (`OperandsAwaitProducers`), an instruction is scheduled once (`ScheduledOnce`), no sanity check fails and the queues are squashed and committed in step (`QueuesSound`), a valid link leads to the instruction it was made for and none is lost (`LinksSound`), a load never passes a store it may depend on (`LoadsSeeStores`), refinement of `Window` |
| `MCRuuLive` | all kinds with a trap, one memory port, both settings of `-issue:inorder` | every right-path instruction commits, hence every speculation ends, and every in-order stall ends |
| `MCRuuInOrderIssue` | in-order option | violated: instructions issue out of order |
| `MCDataCaches` | 2-way level 1: LRU hashed and by list, random hashed, a counting FIFO by list; without level 2 and above a hashed 2-way LRU one with blocks twice as large | the short cut, the hash chains and a plain search find the same block and no block is cached twice (`SearchesAgree`), every write not yet passed down is held dirty (`NoLostWrite`), a flush brings all of them to memory (`SyscallSeesWrites`), counts balance (`MissesBalance`), under LRU level 1 holds what was asked for last, in order (`Dl1ImplementsLru`, refinement of `LruSets`) |
| `MCSpecState` | a double, a one-word and a two-word access in one hash chain, with and without bug compatibility | no table entry is lost, doubled or in a wrong chain (`SpecTypeOK`, `EntriesConserved`), every write is seen until the place is written again or the path is left (`ImplementsSpeculation`, refinement of `Speculation`) |
| `MCSpecHalves` | the same double written by halves | violated: half a double written on a wrong path makes the other half stale |
| `MCEio` | one program for each system call, or case of one, of both targets; two answers of the host; series of up to 4 runs that record, replay, dump, restore and record anew | every run has at each instruction the registers, memory and segments of the recording one (`ReplaysExactly`) and shows the same output (`OutputReplayed`); no replay, restore or recording stops on an inconsistency (`NoInconsistency`); a trace recorded from a trace is that trace (`Retraced`); the page table is sound (`EioTypeOK`); arguments and environment are where the program looks for them (`EnvironmentInPlace`) |
| `MCEioRestore` | the same with checkpoints before the first system call | violated: such a checkpoint cannot be restored |
| `MCStartUp` | some 600 command lines: each use of an option alone for each simulator, pairs of uses, three configuration files, dumps read back | the last use of an option decides, wherever it is (`LastUseWins`); a dumped configuration restores what was dumped (`DumpRestores`); a machine that is accepted has the shapes the index arithmetic relies on (`AcceptedRuns`); the report has one line for each counter of each cache and predictor, and rates that are the quotients of their counters; what a counter moved up to the last look at it is charged to addresses, each movement once (`ReportsMean`) |

### Bounds

Four ways and five branches give hits on the head, the tail and both places in the middle
of a chain, and evictions; the two ways of `MCFlight` and the caches give head, tail and evictions.
In `MCDataCaches` two level-1 blocks share one of level 2 and two share a hash chain; instructions
compete for level 2; `MaxAccesses` bounds the accesses of the counting cache alone.
Two entries in a chain of `SpecState` give a hit at its head and behind it; two chains, one of them
empty.  The RAS bounds make calls nest deeper than the stack.  `StreakMax` is one more than the
history and the two steps a counter needs.  Two branches in flight give a mispredicted one and one
squashed by it or completing before it.  In `Ruu` every run lets more instructions through than the
queues hold, so that entries are squashed and reused with old links about; `MaxInsts` bounds the
sequence numbers, `MaxLookups` the counted lookups, `MaxDepth` the nested calls.  `NumLinks` is large
enough for the instances, so that a leak shows up in `LinksSound` rather than as a panic.

In `MCEio` a program makes the call it is about, loads a cell the call may have written, writes two
cells to its standard output, stores, and exits.  Pages of 8 cells in 2 buckets make several pages
share a bucket; `TailSize` 3 makes blobs both grow and overflow; a structure has 2 cells; the host
fails, or returns 2 and fills buffers.  The series of runs are those of `Plans`: a plain replay, a
one-shot checkpoint by count and by address and its restore, a checkpoint taken in a restored run,
periodic checkpoints after a recording that skipped instructions, a recording cut short, a recording
of a replay with its own replay, a checkpoint of an executable (refused), and a trace of the other target
(refused).  Restrictions: in `MCEio` checkpoints come after the first system call (the other
case is `MCEioRestore`); programs that return from a signal are not recorded anew, and their
context holds its own address as `A0`; no fast forward on a replay; no periodic checkpoints after a
restore; `writev` not to the standard output; `exit` only as itself, not through `indirect`.

In `MCStartUp` numerals and cache strings are tables of those in use, an option is used at most three
times, strings contain no blanks and do not start with `#`, cache names are identifiers.  An
input executes one instruction, or two when counters are tracked by address, and then exits or meets its
limit of instructions (1 or 2); the four sets of counters, and two for the exiting call,
make accesses hit and miss and leave denominators at 0.  `UINT_MAX` is 65535.  About forty different exits
occur.  Signals, `-nice`, redirection, the debugger, the effect of `-fastfwd`, the help page, options of
float, double and enumerated type (no simulator registers any), and averages and
deviations of distributions are left out.

Deadlock is checked except where the count of lookups stops the program (`MCFlight`), where a
plan of runs is over (`MCEio`, `MCEioRestore`) and where a process has exited (`MCStartUp`).

### Fairness

`FairSpec` of `Ruu` assumes weak fairness of `Next` alone: the simulator's loop runs, some
handler always takes its turn.  No handler's choice is assumed fair: liveness follows from
the order of the stages, the age order of the ready queue, and commit's claim on ports before issue.

### Where code and comments disagree

* In-order issue (`sim-outorder.c:3742`, option text at 710) waits until the *operands* of the last
  operation are ready, not until it issues; a load that memory holds back, or an operation without a
  free unit, is overtaken.  (`MCRuuInOrderIssue`)
* `bpred_recover` restores the top of stack from before the mispredicted branch.  If that branch is
  an indirect call or a return of the right path, its own push or pop is undone. (`MCFlightTos`)
* A misfetch (`sim-outorder.c:3884`) discards fetched branches and never calls `bpred_recover`; the
  calls and returns among them keep their effect on the stack.  The comment at `bpred.c:649` promises
  to restore it for a squashed branch.  (The same property fails with a misfetch alone.)
* The halves of a double share one copy-on-write bit (`sim-outorder.c:3433`, `3441`), and writing one half
  on a wrong path does not copy the other, which then reads what an earlier wrong path left.  Only
  wrong paths see it, so results of the program stay right while their timing may change.
  (`MCSpecHalves`)
* A checkpoint taken before the first system call stores the transaction count -1, which
  `eio_fast_forward` then looks for in vain, although `sim-eio.c:129` speaks of arbitrary points.
  (`MCEioRestore`)
* The option note at `sim-outorder.c:791` shows a fully unified hierarchy, `-cache:il1 dl1` with a level 2
  for data.  The default of `-cache:il2` is `dl2`, and line 1057 accepts only `none` there, so this
  command line ends with an error.  (A command line of `MCStartUp`; no property says what must be accepted.)
* `none` is compared by `mystricmp` for the level a cache belongs to and by `strcmp` for the level
  below a missing one (`sim-outorder.c:1012`, `1046`), so `NONE` is not always `none`.
* The counts by address (`-pcstat`) of `sim-cache` lack the instruction that ends the program: its exit
  leaves the main loop before the counters are looked at (`sim-cache.c:803`).  In `sim-outorder` they lack
  what the stages moved after the last dispatch.  `ReportsMean` says what is charged.
* `stats.c:603` says that all terms of a formula are converted to double.  `eval.c` keeps integers apart
  and divides them as integers, and its operators associate to the right.  None of the registered
  formulas shows the difference, but `mem.page_mem` comes close: it multiplies by the integer 4096/1024.

## What is proved

For all values of the constants that satisfy the assumptions of the modules.  They are as weak as the
code makes them: table sizes are powers of two, associativity and queues non-empty, addresses positive
(`SizeAssumption`, `BranchAssumption`, `FlightAssumption`); an address holds one branch
(`TextAssumption`); instructions have the operands, classes and unit latencies the machine definition
and the pool give them, a store among them a memory port (`ProgramsAssumption`, `UnitsAssumption`);
block numbers are not 0, which means "no block", and caches have the parameters
`cache_create` accepts (`BlocksAssumption`, `ParamsAssumption`, `Dl1Assumption`); there are finitely many
accesses, of one or two words, and a store hash table with a bucket (`AccessesAssumption`).

**Branch prediction.**

* `SimTyping`, `SimWellFormed` - type correctness of the predictor under `SimSpec`, no
  duplicate entries, LRU links one chain.  `BpredInv` of `BPredProofs` joins the types with the chain
  and the absence of duplicates: the victim of an eviction exists only because the chain has a tail,
  and a new entry is unique only because the search of the set failed, so the three are proved
  together.  `MoveKeepsChain` ranks the ways by their place in the chain and gives the ranks after a
  splice explicitly.
* `SimRas` - `RasHoldsFrames`, by the same step for every size of the stack and depth of calls.
* `SimRemembersTarget` - a taken update leaves its target, and each entry of every set keeps address and
  target in a step, unless the step is a taken update of its own branch, or it is the least recently used
  of the set and a taken branch without an entry replaces it.  So what a branch left stays until
  one of the two happens.  `StepSpares` is the second half: the entry a branch finds, or the one
  evicted for it, is the only one its update writes.
* `SimImplementsLru` - `BtbImplementsLru`: the chain of each set, read along its links, is the order of
  `LruSets`, where a taken branch (but no return that uses the stack) asks for its address and
  everything else for nothing.  `BtbPacked` says that empty ways are the last of the chain; `ChainIs`
  that walking the links gives the list of the valid addresses, each once; `RefilledUses` that the
  four-link splice and the write of the entry make of it what `Touched` makes, in each case: at the
  head, behind it, a free way, an eviction.
* `SimLearnsBias` - `LearnsBias` speaks of a branch that went one way `StreakMax` times, which is not
  inductive.  `BiasInv` says how far each shorter streak has come: after k outcomes the last k bits of
  the history agree, and once the whole history does, the counter it leads to moves one step with each
  outcome.  Only the branch itself touches the counters and the history in question.
* `FlightTyping`, `FlightWellFormed` - the same for the pipeline, where the records
  of lookups must stay typed while they wait (`FlightInv`).
* `FlightImplementsWindow` - each step of `BPredFlight` is a step of `Window` or leaves it unchanged.
* `FlightRecovery`, `FlightCommitsRightPath` - carried over from `WindowRecovery` and
  `WindowLeavesRightPath`, which are proved about `Window` once.
* `FlightLookupsAccounted` - the number of lookups is the number trained, squashed and in flight,
  where a recovery squashes a whole suffix.  Untrained branches of a list are counted by its positions
  (`OpenAt`), and `CountParts` counts the two parts of a list that is cut.
* `FlightStatsConsistent` - the classes of lookups and of predictions add up, whenever training happens.
  `AccountInv` proves both with `StackOnReturns`: only a return waits with a prediction from the stack,
  so that the count of stack hits stays below that of returns.

**Execution core.**  For queues, widths, link pools, units and programs of any size.  The code trusts its
state as long as none of its sanity checks has failed, and one of them fails in good machines: the pool
of links may be too small (`out of rs links`).  So the theorems say that everything holds until a check
stops the simulator (`NoPanic => ...`; a stopped simulator takes no more steps), and `RuuChecksHold`,
without that hypothesis, says that no other check but those of two arrays of fixed size ever does.

* `RuuInvariant` - `RuuInv`, the inductive invariant, is `RuuCore` as long as `NoPanic`.  Its parts need
  each other.  `Rings`: heads, tails and counts of the two circular queues agree.  `Paired`: the nth
  address computation in the RUU belongs to the nth access in the LSQ; `ruu_commit` and `ruu_recover` take
  the partner by position alone.  `OnePath`: on a wrong path there is one incomplete mispredicted
  instruction and exactly what follows it in either queue is speculative, which is what makes the two
  loops of `ruu_recover` stop at the same place and keeps `Paired` through a squash.  `LinksGood`: a link is
  older than what its station holds now, or leads to the live instruction it was made for.  `ChainsSound`:
  only live incomplete instructions have links on their outputs, so that commit finds none and a new entry
  starts with none.  `VectorsSound`: a create vector entry names a live incomplete instruction that
  creates the register, and one of the right path if the entry is not speculative; otherwise a link would
  be hung on a chain that is never walked, or lost in a squash.  `LinksConserved`: the links in the pool and
  on lists are `NumLinks`.  `EventsInOrder`, `Scanned`: the event queue is in the order events are due and
  `ruu_issue` leaves no remainder.  `KindsSound`: a store has a unit to commit through and creates
  nothing, and no address computation or access is mispredicted.
* `RuuTyping`, `RuuLinksSound`, `RuuQueuesSound` - what `MCRuu` checks, from it.
* `RuuQueuesTrusted` - the simulator never stops in a check of the circular queues, of the pairing of address
  computations with accesses, or of the bounds of a speculation (`QueueChecks` lists the six messages).
  A step that would fail such a check starts in a state that contradicts `Rings`, `Paired` or `OnePath`.
* `RuuImplementsWindow` - each step of `Ruu` is a step of `Window` or leaves it unchanged, until a check
  stops the simulator.  The nth entry of the window is the nth of the RUU, and a load or store is one
  entry: it is done when its access in the LSQ is.  So a writeback of an address computation is a stutter,
  that of its access (or the issue of a store, which completes at once) is `Complete`, and a commit takes
  the entry from both queues in one `Leave`.  `WritebackCompletes` finds the entry a writeback completes, through
  `Paired` when it is an access; `SquashIs` says that what it takes is the rest of the window.
* `RuuRecovery`, `RuuCommitsRightPath` - carried over from the theorems about `Window`.
* `RuuLoadsSeeStores` - a load that waits to issue, or has issued, keeps what `lsq_refresh` found when it let
  it go (`Known`): operands once there stay, entries before it leave at the head alone, and a squash takes
  the tail, so that what stood before the load stands before it still or was committed (`ShiftedLoads`
  compares the LSQ before and after a step, shifted by what left).
* `RuuScheduledOnce` - `AllInPlace` counts the valid links to each live station on the ready queue with
  the part `ruu_issue` still has to look at (`Waiting`), and on the event queue (`Running`), and ties
  them to the flags (`FlagsSound`).  The writeback is the hard step: one instruction may need both
  results, the same result twice, or be squashed by the branch that completes.  `WokenOnce` says that
  `ruu_writeback` queues each station the chain gives its last operand once, `WokenWaited` that such a
  station was waiting before; for that the links of chains must name operands (`LinksToOps`).  `NoneTo`:
  a station comes into use with no valid link to it on any list, whatever stale ones are left.
* `RuuVectorsPrecise` - `Ordered` is inductive beside `RuuInv`.  `Aged`: the numbers of instructions
  grow along the RUU, an access has the one after its address computation (`SeqEnd`), so "youngest" is a
  place in the queue.  `VectorsPrecise`: in either view an entry names the youngest writer of its
  register, or, if it is empty, that writer has completed.  A commit takes the oldest instruction
  (`HeadOldest`), which is completed and so in no entry; a completion empties the entries that name it
  and no others (`CompletesIs`); a squash goes back to the view the wrong path left alone, and the right
  path is then all there is (`WritebackPrecise`).
* `RuuOperandsAwait` - `Wired` adds for each operand what its two sides say: not ready, and the
  instruction numbered `deps` is live and incomplete and has the one valid link to the operand on its
  chains, or ready, no such instruction and no link anywhere.  Links are counted by target, tag and
  operand (`Wire`), over both chains of every station, stale stations included (`Wires`).  At dispatch
  the producer is the entry in use, which is the youngest writer by `VectorsPrecise` (`ProducerNames`,
  `CreatorSupplies`), and linking up to three operands of two stations adds one link each
  (`LinkIdepWires`, `LinkedWires`).  A writeback wakes what its chains hold and leaves no such link
  behind (`WakesIs`, `AwaitedChain`); a squash takes younger instructions only, never the producer of
  one that stays, since `deps` is less than `seq`.  `PlacesCounted` turns counts of links into the sets
  of places the property speaks of.
* `RuuChecksHold` - without the hypothesis `NoPanic`: of all checks in `ruu_commit`, `ruu_recover`,
  `ruu_writeback`, `readyq_enqueue`, `lsq_refresh`, `ruu_issue` and `ruu_dispatch` the only ones that
  can ever stop the simulator are that of the link pool and, if the LSQ is longer than
  `MAX_STD_UNKNOWNS`, that of the array of stores without data (`Shortages`).  The event or ready link
  of an instruction is the one its flags count (`FinishedRan`, `AtScanWaits`), a link on the chain of an
  instruction that completes leads to an operand still outstanding (`ChainAwaited`, by `Wired`), and a
  squash stays within the queues (`RuuQueuesTrusted`).  That a store creates no result (`KindsSound`) is
  an assumption on programs: in `alpha.def` and `pisa.def` all stores have `DNA, DNA` for outputs.
* The step that is hardest to see is the squash: `ruu_recover` walks both queues from their tails, and
  `SquashIs` shows that the entries it takes are those behind the mispredicted one and no others
  (`CutLive`), whatever the positions wrap to (`RingCut`, `RingBehind`).  Dispatch hangs up to four links
  in one step on chains that may be each other's; `LinkIdepPlaces` counts them one by one as places on
  chains, because the links themselves may be equal.

**Wrong-path state.**

* `SpecTyping`, `SpecConserves` - a chain of `store_htable` keeps its entries, each once and in its own
  bucket, although a load moves the entry it finds to the front; entries in use and on the free list
  together are those allocated.
* `SpecImplements` - `SpecState` implements `Speculation`: a write, to registers or memory, on either
  path, is what the path sees at its places until they are written again, and moving entries by loads
  changes nothing that is seen.  `SpecInv` joins the shape
  of the chains with what recovery relies on: on the right path the table and the copy-on-write bits
  are empty.  Two hypotheses are stated in the theorem.  `NoOverlap`: two accesses share no
  word unless they have the same address and size (the code looks an entry up by address alone).
  `WholeWrites`: an instruction writes both halves of a pair that shares a copy-on-write bit.
  `MCSpecState` satisfies both; without the second the statement is false, as `MCSpecHalves` shows.

**Caches.**

* `CachesInvariant` - `CachesInv`, the inductive invariant: for each level `CacheOK`, and `NoLostWrite`.
  `CacheOK` says of each set that the way list holds every way once, that each block is in the
  bucket of its tag once (also an invalid one, which is why unlinking before the tag changes
  matters), that valid tags differ and that valid ways come first; of the short cut that it points to
  the valid block it names, at the head under LRU; and that the counts balance.  None of these is
  inductive alone: the miss is right about a block being absent only if the buckets are exact, and
  buckets stay exact only if the victim's old tag says where it is linked.
* `CachesTyping`, `CachesAgree`, `CachesBalance`, `CachesKeepWrites` - what a run checks, from it.
  A miss or flush of level 1 makes a list of requests that level 2 serves one after the other;
  `PassedKeeps` is an induction over that list, written as one over the set of the numbers for which
  the statement holds (`NatSetInduction`), since the induction theorems of the library cannot be applied.
  `FlushOrderIs` shows with `Ranks` that a flush visits each dirty block once.
* `SyscallFindsWrites` - an action property: a flush brings all writes to memory.
* `Dl1Refines` - with LRU replacement level 1 implements the flushable store of `LruSets`.  The tags of
  the valid ways in the order of the way list (`TagOrder`) are a list without repetition of the ways in
  use (`TagOrderIs`); a hit moves a tag to its front, a miss fills a free way or drops the last tag
  (`UsedIs`), a flush of one block unlinks one tag (`ForgotIs`), and the short cut may skip the move because
  its block is at the head (`HeadStays`).  The tag is that of the block the program asked for.

Only model-checked: event traces, start-up, and all liveness, which is out of the proof
system's reach.  `Stats` declares a RECURSIVE operator (the evaluator), so no theorem can be stated in
`SimStats` or `StartUp`; the event traces rest on system calls that work on bit masks (`Bitwise`).

## Not modelled, and the plan

1. Cache timing: `ready`, `bus_free` and the latencies that `cache_access` and the handlers of
   `sim-outorder.c` add up; a miss into a free block neither waits for the bus nor occupies it.
2. Composition of `SpecState` with `Window`, so that the registers at commit are those of a machine
   without speculation; overlapping accesses.
3. `FrontEnd`: the whole of `ruu_fetch` with the fetch delay, the ring of the fetch queue and
   redirection by misfetch and recovery.
4. Proofs: for `Ruu` a bound of the links in use, so that the pool is known to be large enough; for `Options` that a dump restores the values.
5. `Harness`: the process pool of `run.py` and the tables made from its results.

Left out for good: the instruction set and functional simulators (arithmetic of single
instructions), the DLite debugger and pipe traces (interactive input and output that change no
simulated state the properties are about), the text format of libexo, and the benchmarks.  Cycle
counts and occupancy statistics of `sim-outorder.c` are counters the report of `StartUp` reads; how
the pipeline moves them is not in the models.  The event queue library is not called by any simulator.
