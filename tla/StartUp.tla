------------------------------ MODULE StartUp ------------------------------
(***************************************************************************)
(* A simulator from its command line to its exit, main.c: options, checks, *)
(* the machine that is built, the statistics that are registered, the      *)
(* program as far as it moves statistics, and the final report.  When the  *)
(* command line dumped its configuration, a second process is started with *)
(* that file as its configuration.                                         *)
(*                                                                         *)
(* Which counters an instruction moves is left open.  Signals, the         *)
(* debugger, redirected output and the banner are left out.                *)
(***************************************************************************)
EXTENDS SimStats

CONSTANTS
  Inputs,        \* the command lines: [sim, argv, files, uses, budget], where uses
                 \* tells the options apart and budget bounds the instructions
  Increments,    \* sets of counters, those one instruction adds to
  Endings,       \* the same for the system call that exits
  Texts,         \* text addresses
  Durations      \* seconds between two calls of time

ASSUME StartUpAssumption ==
  /\ Durations \subseteq Nat /\ Texts \subseteq Nat
  /\ \A in \in Inputs : in.sim \in Sims /\ in.budget \in Nat

VARIABLES
  input,      \* the command line of this process
  p,          \* the parser of the options
  phase,      \* "parse", "check", "create", "register", "run", "exit"
  exit,       \* why the process ended
  machine,    \* the hardware that was built
  counters,   \* the variables the statistics read
  pcstat,     \* the ones counted by address: [key, last, dist]
  icount,     \* the instructions executed
  report,     \* the statistics printed
  earlier     \* the database of the process before, if this one was configured by it

processVars == <<input, p, phase, exit, machine, counters, pcstat, icount, report>>
vars == <<processVars, earlier>>

NoMachine == [pred |-> NoPred]
Nothing == << >>
NoDb == [var |-> << >>, nelt |-> << >>]
opts == OptionsOf[input.sim]
db == p.db
At0(name) == Value(db, name)
PcstatNames == IF input.sim = "sim-bpred" THEN << >> ELSE Values(db, "-pcstat")
sdb == sim_reg_stats(input.sim, machine, PcstatNames)

Begun(in) == opt_process_options(OptionsOf[in.sim], in.argv, in.files)
Init ==
  /\ input \in Inputs /\ p = Begun(input) /\ phase = "parse" /\ exit = "" /\ machine = NoMachine
  /\ counters = Nothing /\ pcstat = Nothing /\ icount = 0 /\ report = Nothing /\ earlier = NoDb

-----------------------------------------------------------------------------
(* The report is printed only when the program was running; a fatal error   *)
(* prints it as well.                                                       *)
Dists == [t \in {Tracker(k) : k \in DOMAIN pcstat} |->
            pcstat[CHOOSE k \in DOMAIN pcstat : Tracker(k) = t].dist]
Report(now, duration) ==
  stat_print_stats(sdb, [now EXCEPT !["sim_elapsed_time"] = Max({duration, 1})], Dists)
ExitNow(why) ==
  /\ phase' = "exit" /\ exit' = why
  /\ IF phase = "run" THEN \E d \in Durations : report' = Report(counters', d)
                      ELSE UNCHANGED report

Parse ==
  /\ phase = "parse" /\ Parsing(p)
  /\ p' = process_options(opts, p)
  /\ UNCHANGED <<input, phase, exit, machine, counters, pcstat, icount, report, earlier>>

(* What main looks at before the simulator's own checks.                    *)
BadCommandLine ==
  IF p.err # "" THEN p.err
  ELSE IF input.argv = << >> \/ At0("-h") = 1 THEN "usage"
  ELSE IF p.exec = 0 THEN "no executable specified"
  ELSE ""
Parsed ==
  /\ phase = "parse" /\ ~Parsing(p)
  /\ IF BadCommandLine # "" THEN ExitNow(BadCommandLine)
     ELSE phase' = "check" /\ UNCHANGED <<exit, report>>
  /\ UNCHANGED <<input, p, machine, counters, pcstat, icount, earlier>>

CheckOptions ==
  /\ phase = "check"
  /\ LET msg == FirstFailure(sim_check_options(input.sim, db))
     IN  IF msg # "" THEN ExitNow(msg) ELSE phase' = "create" /\ UNCHANGED <<exit, report>>
  /\ UNCHANGED <<input, p, machine, counters, pcstat, icount, earlier>>

BadPtrace == input.sim = "sim-outorder" /\ db.nelt["-ptrace"] = 1
LoadProg ==
  /\ phase = "create"
  /\ IF BadPtrace THEN ExitNow("bad pipetrace args") /\ UNCHANGED machine
     ELSE /\ machine' = Machine(input.sim, db)
          /\ phase' = "register" /\ UNCHANGED <<exit, report>>
  /\ UNCHANGED <<input, p, counters, pcstat, icount, earlier>>

-----------------------------------------------------------------------------
(* Some counters of the loader and the memory have moved by then.           *)
Loaded == {"mem.page_count", "ld_text_size", "ld_data_size", "ld_stack_size"}
Keys(stats) == {s.key : s \in {s \in Range(stats) : s.sc \notin {"formula", "sdist"}}}
Zeroed == [k \in Keys(sdb) |-> IF k \in Loaded THEN 1 ELSE 0]
Watched(stats, now) ==
  [k \in DOMAIN PcstatNames |->
     [key |-> PcstatKey(stats, PcstatNames[k]), last |-> now[PcstatKey(stats, PcstatNames[k])],
      dist |-> << >>]]

RegStats ==
  /\ phase = "register"
  /\ LET msg == PcstatFailure(BaseStats(input.sim, machine), PcstatNames)
     IN  IF msg # "" THEN ExitNow(msg) /\ UNCHANGED <<counters, pcstat>>
         ELSE /\ counters' = Zeroed /\ pcstat' = Watched(sdb, Zeroed)
              /\ IF At0("-q") = 1 THEN ExitNow("quit")
                 ELSE phase' = "run" /\ UNCHANGED <<exit, report>>
  /\ UNCHANGED <<input, p, machine, icount, earlier>>

-----------------------------------------------------------------------------
(* A miss of a level 1 cache reads a block of its own size from the level 2 *)
(* it stands over; the first access of each cache misses.                   *)
Below(slot) ==
  CASE machine.caches[slot].slot = "il1" -> machine.caches["il2"]
    [] machine.caches[slot].slot = "dl1" -> machine.caches["dl2"]
    [] OTHER -> NoCache
SpansBlock(slot) ==
  /\ machine.caches[slot] # NoCache /\ Below(slot) # NoCache
  /\ machine.caches[slot].bsize > Below(slot).bsize
Accessed(inc) == {"il1"} \cup (IF "sim_num_refs" \in inc THEN {"dl1"} ELSE {})

(* Fault: what was charged is not remembered. *)
SampledAgain(t, now, pc) ==
  IF now = t.last THEN t ELSE [t EXCEPT !.dist = stat_add_samples(@, pc, now - t.last)]

(* A tracked counter that has moved is charged to the instruction.          *)
Sampled(t, now, pc) ==
  IF now = t.last THEN t
  ELSE [t EXCEPT !.last = now, !.dist = stat_add_samples(@, pc, now - t.last)]
Tracked(now, pc) == [k \in DOMAIN pcstat |-> Sampled(pcstat[k], now[pcstat[k].key], pc)]

Moved(inc) == [k \in DOMAIN counters |-> counters[k] + (IF k \in inc THEN 1 ELSE 0)]

Spanning(inc) == input.sim # "sim-bpred" /\ \E slot \in Accessed(inc) : SpansBlock(slot)
LimitMet == At0("-max:inst") # 0 /\ counters["sim_num_insn"] >= At0("-max:inst")

(* sim-outorder moves counters in every stage and looks at the tracked ones *)
(* when it dispatches an instruction; it looks at the limit of instructions *)
(* once a cycle only, the other two after every instruction.                *)
Execute(inc, pc, looks) ==
  /\ phase = "run" /\ icount < input.budget
  /\ input.sim = "sim-outorder" \/ (looks /\ ~LimitMet)
  /\ counters' = Moved(inc)
  /\ IF Spanning(inc)
       THEN ExitNow("access spans block") /\ UNCHANGED pcstat
       ELSE /\ pcstat' = IF looks THEN Tracked(Moved(inc), pc) ELSE pcstat
            /\ UNCHANGED <<phase, exit, report>>
  /\ icount' = icount + 1
  /\ UNCHANGED <<input, p, machine, earlier>>

(* The system call by which the program exits never returns: it is counted, *)
(* and nobody looks at the tracked counters after it.                       *)
Exits(inc) ==
  /\ phase = "run"
  /\ input.sim = "sim-outorder" \/ ~LimitMet
  /\ counters' = Moved(inc)
  /\ ExitNow(IF Spanning(inc) THEN "access spans block" ELSE "exit")
  /\ icount' = icount + 1
  /\ UNCHANGED <<input, p, machine, pcstat, earlier>>

Finish ==
  /\ phase = "run" /\ LimitMet
  /\ UNCHANGED counters
  /\ ExitNow("max:inst")
  /\ UNCHANGED <<input, p, machine, pcstat, icount, earlier>>

(* A process configured by the file the last one dumped.                    *)
Dumped == "dump" \in DOMAIN p.files
Again ==
  /\ phase = "exit" /\ earlier = NoDb /\ Dumped
  /\ input' = [input EXCEPT !.argv = <<"-config", "dump", "prog">>, !.files = p.files]
  /\ p' = Begun(input') /\ phase' = "parse" /\ exit' = "" /\ machine' = NoMachine
  /\ counters' = Nothing /\ pcstat' = Nothing /\ icount' = 0 /\ report' = Nothing /\ earlier' = db

Next ==
  \/ Parse \/ Parsed \/ CheckOptions \/ LoadProg \/ RegStats \/ Finish \/ Again
  \/ \E inc \in Increments, pc \in Texts, looks \in BOOLEAN : Execute(inc, pc, looks)
  \/ \E inc \in Endings : Exits(inc)
Spec == Init /\ [][Next]_vars

-----------------------------------------------------------------------------
(* What the options of a command line say, without the parser.              *)
UsesOf(o) == SelectSeq(input.uses, LAMBDA u : u[1] = o.name)
ArgumentsOf(o) ==
  IF UsesOf(o) = << >> THEN << >>
  ELSE IF o.accrue THEN FlattenSeq([k \in DOMAIN UsesOf(o) |-> Tail(UsesOf(o)[k])])
  ELSE Tail(Last(UsesOf(o)))
ValuesOf(o) ==
  IF UsesOf(o) = << >> THEN o.def
  ELSE IF o.oc = "flag" /\ ArgumentsOf(o) = << >> THEN <<1>>
  ELSE [k \in DOMAIN ArgumentsOf(o) |-> Converted(o.oc, ArgumentsOf(o)[k])]

(* A use that names a registered option and gives it arguments it takes;    *)
(* a list before the program is given in full.                              *)
WellUsed(u) ==
  \/ u[1] = "-dumpconfig" /\ Len(u) = 2
  \/ /\ u[1] \in Names(opts)
     /\ LET o == OptionNamed(opts, u[1])
        IN  /\ \A k \in 2 .. Len(u) : Readable(o.oc, u[k]) /\ ~EndsArguments(o.oc, u[k])
            /\ Len(u) - 1 \in (IF o.oc = "flag" THEN 0 ELSE 1) .. Room(o)
            /\ Len(ArgumentsOf(o)) <= o.nvars
WellGiven ==
  /\ \A k \in DOMAIN input.uses : WellUsed(input.uses[k])
  /\ input.uses # << >> =>
       LET u == Last(input.uses)
       IN  u[1] \in Names(opts) => Len(u) - 1 \in {0, Room(OptionNamed(opts, u[1]))}

(* Of several uses of an option the last decides, and a list that accrues   *)
(* has the arguments of all of them; configuration files count where they   *)
(* are named, and the program is the first word that no option takes.       *)
LastUseWins ==
  earlier = NoDb /\ ~Parsing(p) /\ WellGiven =>
    /\ p.err = ""
    /\ \A k \in DOMAIN opts : Values(db, opts[k].name) = ValuesOf(opts[k])
    /\ p.exec = SelectInSeq(input.argv, LAMBDA w : w = "prog")

(* A process that reads the configuration another one dumped has its values *)
(* for every option that is printed, and the defaults of the others.        *)
DumpRestores ==
  earlier # NoDb /\ ~Parsing(p) =>
    /\ p.err = "" /\ p.exec = 3
    /\ \A k \in DOMAIN opts :
         Values(db, opts[k].name) = IF opts[k].print THEN Values(earlier, opts[k].name) ELSE opts[k].def

-----------------------------------------------------------------------------
(* A machine the checks accept has the shapes that the index arithmetic of  *)
(* cache.c and bpred.c relies on, no level 2 without a level 1, and a unit  *)
(* for every class of operation.                                            *)
SoundCache(c) ==
  c # NoCache => /\ {c.nsets, c.bsize, c.assoc} \subseteq Powers /\ c.bsize >= 8
                 /\ c.policy \in {"LRU", "Random", "FIFO"}
SoundPred(pr) ==
  /\ "bimod" \in DOMAIN pr => pr.bimod.size \in Powers
  /\ "meta" \in DOMAIN pr => pr.meta.size \in Powers
  /\ "twolev" \in DOMAIN pr => {pr.twolev.l1size, pr.twolev.l2size} \subseteq Powers /\ pr.twolev.width > 0
  /\ "sets" \in DOMAIN pr => {pr.sets, pr.assoc} \subseteq Powers /\ pr.ras \in Powers \cup {0}
AcceptedRuns ==
  phase = "run" =>
    /\ \A slot \in CacheSlots : SoundCache(machine.caches[slot])
    /\ \A l \in {"i", "d"} : machine.caches[l \o "l2"] # NoCache => machine.caches[l \o "l1"] # NoCache
    /\ SoundPred(machine.pred)
    /\ input.sim = "sim-outorder" => \A c \in FUClasses : machine.pool[c] # {}

-----------------------------------------------------------------------------
(* The printed lines.                                                       *)
Lines(name) == {k \in DOMAIN report : report[k].name = name}
Says(name, n, d) ==
  \E k \in Lines(name) :
    /\ Lines(name) = {k}
    /\ IF d = 0 THEN report[k].val.err = "divide by zero"
       ELSE report[k].val.err = "" /\ report[k].val.n * d = n * report[k].val.d
Count(owner, field) == counters[Dot(owner, field)]

CacheSays(c) ==
  LET accesses == Count(c.slot, "hits") + Count(c.slot, "misses")
  IN  /\ Says(Dot(c.name, "accesses"), accesses, 1)
      /\ Says(Dot(c.name, "miss_rate"), Count(c.slot, "misses"), accesses)
      /\ Says(Dot(c.name, "wb_rate"), Count(c.slot, "writebacks"), accesses)
CachesThere == Range(machine.caches) \ {NoCache}
NamesDiffer == \A c, e \in CachesThere : c.name = e.name => c = e

PredSays(name) ==
  LET updates == Count("bpred", "dir_hits") + Count("bpred", "misses")
  IN  /\ Says(Dot(name, "updates"), updates, 1)
      /\ Says(Dot(name, "bpred_dir_rate"), Count("bpred", "dir_hits"), updates)
PipelineSays ==
  /\ Says("sim_num_stores", counters["sim_num_refs"] - counters["sim_num_loads"], 1)
  /\ Says("sim_IPC", counters["sim_num_insn"], counters["sim_cycle"])
  /\ counters["sim_cycle"] # 0 => Says("ifq_latency", counters["IFQ_count"], counters["sim_total_insn"])
  /\ Says("mem.page_mem", 4 * counters["mem.page_count"], 1)

(* What is charged by address to the instructions is what a tracked counter *)
(* moved up to the last look at it, each movement once.  In sim-cache only  *)
(* the instruction that ends the program is not charged, and nothing is     *)
(* missing at the limit of instructions.                                    *)
Uncharged(t) == counters[t.key] - t.last
Charged(t) ==
  /\ SumFunction(t.dist) = t.last - Zeroed[t.key]
  /\ Uncharged(t) >= 0
  /\ input.sim = "sim-cache" => Uncharged(t) <= IF exit = "max:inst" THEN 0 ELSE 1

(* Every cache of the machine is reported once, shared or not, a printed    *)
(* rate is the quotient of the counters it is about, whatever the formulas  *)
(* it goes through, and a count by address is of its counter.               *)
ReportsMean ==
  report # Nothing =>
    /\ NamesDiffer => \A c \in CachesThere : CacheSays(c)
    /\ machine.pred # NoPred => PredSays("bpred_" \o machine.pred.class)
    /\ input.sim = "sim-outorder" => PipelineSays
    /\ \A k \in DOMAIN pcstat : Charged(pcstat[k])
=============================================================================
