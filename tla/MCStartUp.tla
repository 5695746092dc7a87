----------------------------- MODULE MCStartUp -----------------------------
(***************************************************************************)
(* Command lines for StartUp: short sequences of uses of options for the   *)
(* three simulators, some through a configuration file, some dumped and    *)
(* read back by a second process.                                          *)
(***************************************************************************)
EXTENDS StartUp

MCNumerals == {-1, 0, 1, 2, 3, 4, 5, 6, 7, 8, 9, 18, 16, 30, 512, 1024, 2048}

(* The strings that name a cache, and what sscanf makes of them.            *)
Shape(name, nsets, bsize, assoc, c) ==
  [name |-> name, nsets |-> nsets, bsize |-> bsize, assoc |-> assoc, c |-> c]
MCCacheConfigs ==
  ("dl1:128:32:4:l" :> Shape("dl1", 128, 32, 4, "l")) @@
  ("dl1:256:32:1:l" :> Shape("dl1", 256, 32, 1, "l")) @@
  ("ul2:1024:64:4:l" :> Shape("ul2", 1024, 64, 4, "l")) @@
  ("il1:512:32:1:l" :> Shape("il1", 512, 32, 1, "l")) @@
  ("il1:256:32:1:l" :> Shape("il1", 256, 32, 1, "l")) @@
  ("itlb:16:4096:4:l" :> Shape("itlb", 16, 4096, 4, "l")) @@
  ("dtlb:32:4096:4:l" :> Shape("dtlb", 32, 4096, 4, "l")) @@
  ("big:1:128:1:r" :> Shape("big", 1, 128, 1, "r")) @@
  ("odd:3:32:1:f" :> Shape("odd", 3, 32, 1, "f")) @@
  ("ul2:2:4:1:f" :> Shape("ul2", 2, 4, 1, "f")) @@
  ("il1:2:8:1:x" :> Shape("il1", 2, 8, 1, "x"))
MCLowerForm == ("NONE" :> "none") @@ ("DL1" :> "dl1")

-----------------------------------------------------------------------------
(* The uses, the ones of every simulator and those of each.                 *)
Everywhere == { <<"-q">>, <<"-seed", "-1">>, <<"-h">>, <<"-nice", "x">>, <<"-undefined", "1">>,
                <<"-max:inst", "1">>, <<"-chkpt">> }
Predictors ==
  { <<"-bpred", "comb">>, <<"-bpred", "2lev">>, <<"-bpred", "nottaken">>, <<"-bpred", "perfect">>,
    <<"-bpred:btb", "512">>, <<"-bpred:btb", "4", "2">>, <<"-bpred:btb", "3", "2">>,
    <<"-bpred:bimod", "3">>, <<"-bpred:2lev", "2", "4", "2", "1">>, <<"-bpred:2lev", "2", "3", "2", "1">>,
    <<"-bpred:ras", "0">>, <<"-bpred:ras", "6">> }
Hierarchies ==
  { <<"-cache:il1", "dl1">>, <<"-cache:il1", "dl2">>, <<"-cache:il1", "none">>, <<"-cache:il1", "il1:2:8:1:x">>,
    <<"-cache:il2", "none">>, <<"-cache:il2", "NONE">>, <<"-cache:il2", "ul2:1024:64:4:l">>,
    <<"-cache:dl1", "none">>, <<"-cache:dl1", "big:1:128:1:r">>, <<"-cache:dl1", "odd:3:32:1:f">>,
    <<"-cache:dl2", "none">>, <<"-cache:dl2", "ul2:2:4:1:f">>, <<"-tlb:itlb", "none">>,
    <<"-pcstat", "sim_num_refs">>, <<"-pcstat", "dl1.misses">>, <<"-pcstat", "sim_inst_rate">>,
    <<"-pcstat", "sim_num_insn">> }
Pipeline ==
  { <<"-ptrace", "f">>, <<"-ptrace", "f", "r">>, <<"-fetch:ifqsize", "3">>, <<"-fetch:mplat", "0">>,
    <<"-bpred:spec_update", "wb">>, <<"-bpred:spec_update", "ID">>, <<"-decode:width", "0">>,
    <<"-issue:inorder", "false">>, <<"-issue:inorder">>, <<"-ruu:size", "1">>, <<"-lsq:size", "6">>,
    <<"-mem:lat", "2">>, <<"-mem:lat", "0", "2">>, <<"-mem:width", "6">>, <<"-tlb:lat", "0">>,
    <<"-res:ialu", "0">>, <<"-res:fpmult", "9">>, <<"-res:memport", "1">>, <<"-fastfwd", "-1">>,
    <<"-cache:dl1lat", "0">>, <<"-commit:width", "0">> }
UsesFor(sim) ==
  Everywhere \cup
  CASE sim = "sim-outorder" -> Predictors \cup Hierarchies \cup Pipeline
    [] sim = "sim-cache"    -> Hierarchies
    [] sim = "sim-bpred"    -> Predictors

-----------------------------------------------------------------------------
(* A command line.  The configuration files have one line for each use, and *)
(* comments; "top" names "base".                                            *)
Conf == [base |-> << <<"#", "a note">>, <<"-max:inst", "7">>, <<"-seed", "2", "#", "a seed">> >>,
         top  |-> << <<"-seed", "3">>, <<"-config", "base">>, <<"-q", "false", "-seed", "4">> >>,
         orphan |-> << <<"-seed", "3">>, <<"prog">> >>]
ConfUses == [base |-> << <<"-max:inst", "7">>, <<"-seed", "2">> >>,
             top  |-> << <<"-seed", "3">>, <<"-max:inst", "7">>, <<"-seed", "2">>, <<"-q", "false">>, <<"-seed", "4">> >>,
             orphan |-> << <<"-seed", "3">>, <<"prog">> >>]
Spliced(uses) ==
  FlattenSeq([k \in DOMAIN uses |-> IF uses[k][1] = "-config" /\ Len(uses[k]) = 2
                                      THEN ConfUses[uses[k][2]] ELSE <<uses[k]>>])
CommandLine(sim, uses, prog) ==
  [sim |-> sim, argv |-> FlattenSeq(uses) \o prog, files |-> Conf, uses |-> Spliced(uses),
   budget |-> IF \E k \in DOMAIN uses : uses[k][1] = "-pcstat" THEN 2 ELSE 1]

Files == { <<"-config", "base">>, <<"-config", "top">>, <<"-config", "orphan">> }
Dump == <<"-dumpconfig", "dump">>

Single(sim) == {CommandLine(sim, <<u>>, <<"prog">>) : u \in UsesFor(sim)}
Caches == {u \in Hierarchies : u[1] # "-pcstat"}
Pairs ==
  {CommandLine("sim-cache", <<u, v>>, <<"prog">>) : u, v \in Hierarchies} \cup
  {CommandLine("sim-bpred", <<u, v>>, <<"prog">>) : u, v \in Predictors} \cup
  {CommandLine("sim-bpred", <<f, u>>, <<"prog">>) : f \in Files, u \in Everywhere} \cup
  {CommandLine("sim-bpred", <<u, f>>, <<"prog">>) : f \in Files, u \in Everywhere}
Others ==
  {CommandLine(sim, << >>, prog) : sim \in Sims, prog \in {<< >>, <<"prog">>, <<"prog", "-q">>}} \cup
  {CommandLine("sim-bpred", <<Dump, <<"-dumpconfig", "-">> >>, <<"prog">>),
   CommandLine("sim-bpred", <<Dump, <<"-dumpconfig">> >>, << >>),
   CommandLine("sim-bpred", << <<"-seed", "2">> >>, << >>),
   CommandLine("sim-cache", [k \in 1 .. 3 |-> <<"-pcstat", "sim_num_insn">>], <<"prog">>)} \cup
  {CommandLine("sim-bpred", <<u, Dump, v>>, <<"prog">>) : u, v \in {<<"-bpred:btb", "512">>, <<"-bpred:btb", "4", "2">>}} \cup
  {CommandLine("sim-outorder", <<Dump, u>>, <<"prog">>) :
     u \in { <<"-seed", "-1">>, <<"-mem:lat", "2">>, <<"-pcstat", "sim_num_insn">>, <<"-ptrace", "f", "r">>,
             <<"-issue:inorder">>, <<"-bpred:spec_update", "ID">>, <<"-cache:il1", "none">> }} \cup
  {CommandLine("sim-outorder", <<u, Dump>>, <<"prog">>) :
     u \in { <<"-mem:lat", "2">>, <<"-bpred:btb", "512">>, <<"-pcstat", "sim_num_insn">> }} \cup
  {CommandLine(sim, << <<"-max:inst", n>>, <<"-pcstat", "sim_num_insn">> >>, <<"prog">>) :
     sim \in {"sim-cache", "sim-outorder"}, n \in {"1", "2"}} \cup
  {CommandLine("sim-cache", <<Dump, u>>, <<"prog">>) : u \in { <<"-cache:dl2", "none">>, <<"-config", "top">> }}

MCInputs == UNION {Single(sim) : sim \in Sims} \cup Pairs \cup Others

-----------------------------------------------------------------------------
Hit(slot) == {slot \o ".hits"}
Miss(slot) == {slot \o ".misses"}
Alu == {"sim_num_insn", "sim_total_insn", "sim_cycle", "IFQ_count"} \cup Hit("il1") \cup Hit("itlb")
Load == Alu \cup {"sim_num_refs", "sim_num_loads", "mem.page_count", "dl1.writebacks", "ul2.hits"} \cup Miss("dl1") \cup Hit("dtlb")
Branch == {"sim_num_insn", "sim_num_branches", "bpred.lookups", "bpred.dir_hits", "sim_cycle"} \cup Miss("il1") \cup Hit("dl2")
Store == {"sim_num_insn", "sim_num_refs", "bpred.misses"} \cup Hit("dl1") \cup Hit("dl2")
MCIncrements == {Alu, Load, Branch, Store}
MCEndings == {{"sim_num_insn"} \cup Hit("il1") \cup Hit("itlb"), {"sim_num_insn"} \cup Miss("il1") \cup Hit("dl2")}
=============================================================================
