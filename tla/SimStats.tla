------------------------------ MODULE SimStats ------------------------------
(***************************************************************************)
(* The statistics that sim-outorder, sim-cache and sim-bpred register, in  *)
(* the order of sim_reg_stats, and the counts by text address that         *)
(* -pcstat asks for.  A counter of a cache is known by the slot the cache  *)
(* was created for, so two slots that share a cache share its counters;    *)
(* the statistics have the name its configuration gives.                   *)
(***************************************************************************)
EXTENDS Configure, Stats

(* name.field and the formulas over fields of one name.                     *)
Dot(name, field) == name \o "." \o field
Counted(name, owner, field) == stat_reg_counter(Dot(name, field), Dot(owner, field))
Binary(name, new, a, op, b) == stat_reg_formula(Dot(name, new), <<Dot(name, a), op, Dot(name, b)>>)
Ratio(new, a, b) == stat_reg_formula(new, <<a, "/", b>>)
Simple(name) == stat_reg_counter(name, name)

cache_reg_stats(cp) ==
  LET c(field) == Counted(cp.name, cp.slot, field)
      rate(new, a) == Binary(cp.name, new, a, "/", "accesses")
  IN  Binary(cp.name, "accesses", "hits", "+", "misses") \o
      c("hits") \o c("misses") \o c("replacements") \o c("writebacks") \o c("invalidations") \o
      rate("miss_rate", "misses") \o rate("repl_rate", "replacements") \o
      rate("wb_rate", "writebacks") \o rate("inv_rate", "invalidations")

bpred_reg_stats(pred) ==
  LET name == "bpred_" \o pred.class
      c(field) == Counted(name, "bpred", field)
      rate(new, a, b) == Binary(name, new, a, "/", b)
  IN  c("lookups") \o Binary(name, "updates", "dir_hits", "+", "misses") \o
      c("addr_hits") \o c("dir_hits") \o
      (IF pred.class = "comb" THEN c("used_bimod") \o c("used_2lev") ELSE << >>) \o
      c("misses") \o c("jr_hits") \o c("jr_seen") \o
      c("jr_non_ras_hits.PP") \o c("jr_non_ras_seen.PP") \o
      rate("bpred_addr_rate", "addr_hits", "updates") \o
      rate("bpred_dir_rate", "dir_hits", "updates") \o
      rate("bpred_jr_rate", "jr_hits", "jr_seen") \o
      rate("bpred_jr_non_ras_rate.PP", "jr_non_ras_hits.PP", "jr_non_ras_seen.PP") \o
      c("retstack_pushes") \o c("retstack_pops") \o c("used_ras.PP") \o c("ras_hits.PP") \o
      rate("ras_rate.PP", "ras_hits.PP", "used_ras.PP")

(* page_count * MD_PAGE_SIZE / 1024 multiplies by an integer quotient.      *)
mem_reg_stats ==
  Counted("mem", "mem", "page_count") \o
  stat_reg_formula("mem.page_mem", <<"mem.page_count", "*", "4096", "/", "1024">>) \o
  Counted("mem", "mem", "ptab_misses") \o Counted("mem", "mem", "ptab_accesses") \o
  Binary("mem", "ptab_miss_rate", "ptab_misses", "/", "ptab_accesses")

ld_reg_stats ==
  stat_reg_uint("ld_text_base") \o stat_reg_uint("ld_text_size") \o
  stat_reg_uint("ld_data_base") \o stat_reg_uint("ld_data_size") \o
  stat_reg_uint("ld_stack_base") \o stat_reg_uint("ld_stack_size") \o
  stat_reg_uint("ld_prog_entry") \o stat_reg_uint("ld_environ_base") \o
  stat_reg_int("ld_target_big_endian")

-----------------------------------------------------------------------------
(* The counters of sim-outorder.                                            *)
Queue(upper, lower) ==
  Simple(upper \o "_count") \o Simple(upper \o "_fcount") \o
  Ratio(lower \o "_occupancy", upper \o "_count", "sim_cycle") \o
  Ratio(lower \o "_rate", "sim_total_insn", "sim_cycle") \o
  Ratio(lower \o "_latency", lower \o "_occupancy", lower \o "_rate") \o
  Ratio(lower \o "_full", upper \o "_fcount", "sim_cycle")

InsnRate == stat_reg_int("sim_elapsed_time") \o Ratio("sim_inst_rate", "sim_num_insn", "sim_elapsed_time")
PipelineStats ==
  Simple("sim_num_insn") \o Simple("sim_num_refs") \o Simple("sim_num_loads") \o
  stat_reg_formula("sim_num_stores", <<"sim_num_refs", "-", "sim_num_loads">>) \o
  Simple("sim_num_branches") \o InsnRate \o
  Simple("sim_total_insn") \o Simple("sim_total_refs") \o Simple("sim_total_loads") \o
  stat_reg_formula("sim_total_stores", <<"sim_total_refs", "-", "sim_total_loads">>) \o
  Simple("sim_total_branches") \o Simple("sim_cycle") \o
  Ratio("sim_IPC", "sim_num_insn", "sim_cycle") \o Ratio("sim_CPI", "sim_cycle", "sim_num_insn") \o
  Ratio("sim_exec_BW", "sim_total_insn", "sim_cycle") \o
  Ratio("sim_IPB", "sim_num_insn", "sim_num_branches") \o
  Queue("IFQ", "ifq") \o Queue("RUU", "ruu") \o Queue("LSQ", "lsq") \o
  Simple("sim_slip") \o Ratio("avg_sim_slip", "sim_slip", "sim_num_insn")

PredStats(m) == IF m.pred = NoPred THEN << >> ELSE bpred_reg_stats(m.pred)

(* A level 1 or 2 instruction cache that is one of the data caches is not   *)
(* registered again.                                                        *)
SharedWithData(m, slot) ==
  slot \in {"il1", "il2"} /\ m.caches[slot] \in {m.caches["dl1"], m.caches["dl2"]}
RegOrder == <<"il1", "il2", "dl1", "dl2", "itlb", "dtlb">>
(* Fault: a shared cache is registered for every slot that points at it. *)
CacheStatsTwice(m) ==
  FlattenSeq([k \in DOMAIN RegOrder |->
    IF m.caches[RegOrder[k]] = NoCache THEN << >> ELSE cache_reg_stats(m.caches[RegOrder[k]])])
CacheStats(m) ==
  FlattenSeq([k \in DOMAIN RegOrder |->
    IF m.caches[RegOrder[k]] = NoCache \/ SharedWithData(m, RegOrder[k]) THEN << >>
    ELSE cache_reg_stats(m.caches[RegOrder[k]])])

BaseStats(sim, m) ==
  CASE sim = "sim-outorder" -> PipelineStats \o PredStats(m) \o CacheStats(m) \o Simple("sim_invalid_addrs")
    [] sim = "sim-cache"    -> Simple("sim_num_insn") \o Simple("sim_num_refs") \o InsnRate \o CacheStats(m)
    [] sim = "sim-bpred"    -> Simple("sim_num_insn") \o Simple("sim_num_refs") \o InsnRate \o
                               Simple("sim_num_branches") \o
                               Ratio("sim_IPB", "sim_num_insn", "sim_num_branches") \o PredStats(m)

-----------------------------------------------------------------------------
(* The statistics that -pcstat tracks by text address.  Each must be        *)
(* registered already and be of an integral type.                           *)
ByPc(name) == name \o "_by_pc"
PcstatFailure(sdb, names) ==
  FirstFailure(FlattenSeq([k \in DOMAIN names |->
    LET at == stat_find_stat(sdb, names[k])
    IN  Check(at = 0, "cannot locate any statistic") \o
        Check(at # 0 /\ sdb[at].sc \notin {"int", "uint", "counter"},
              "statistical variable is not an integral type")]))
PcstatKey(sdb, name) == sdb[stat_find_stat(sdb, name)].key
Tracker(k) == "pcstat " \o ToString(k)
PcstatStats(names) == FlattenSeq([k \in DOMAIN names |-> stat_reg_sdist(ByPc(names[k]), Tracker(k))])

sim_reg_stats(sim, m, names) ==
  BaseStats(sim, m) \o PcstatStats(names) \o
  (IF sim = "sim-bpred" THEN << >> ELSE ld_reg_stats \o mem_reg_stats)
=============================================================================
