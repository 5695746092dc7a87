----------------------------- MODULE Configure -----------------------------
(***************************************************************************)
(* The options of sim-outorder, sim-cache and sim-bpred, the checks of     *)
(* sim_check_options, and the predictor, caches, TLBs and functional units *)
(* that are created from the values.                                       *)
(***************************************************************************)
EXTENDS Options

CONSTANTS
  CacheConfigs,    \* sscanf of "%[^:]:%d:%d:%d:%c": string -> [name, nsets, bsize, assoc, c]
  LowerForm,       \* tolower of the strings that are not in lower case
  MAX_PCSTAT_VARS, MAX_INSTS_PER_CLASS

ASSUME ConfigureAssumption ==
  /\ MAX_PCSTAT_VARS \in Nat \ {0} /\ MAX_INSTS_PER_CLASS \in Nat \ {0}
  /\ \A w \in DOMAIN CacheConfigs :
       /\ CacheConfigs[w].name \in STRING /\ CacheConfigs[w].c \in STRING
       /\ {CacheConfigs[w].nsets, CacheConfigs[w].bsize, CacheConfigs[w].assoc} \subseteq Int

Lower(w) == IF w \in DOMAIN LowerForm THEN LowerForm[w] ELSE w
Same(v, w) == Lower(v) = Lower(w)        \* mystricmp(v, w) == 0
Powers == {2^k : k \in 0 .. 30}
PowerOfTwo(n) == n \in Powers

Sims == {"sim-outorder", "sim-cache", "sim-bpred"}

-----------------------------------------------------------------------------
(* The options, in the order they are registered.                           *)
GlobalOptions ==
  opt_reg_flag("-h", 0, FALSE) \o
  opt_reg_flag("-v", 0, FALSE) \o
  opt_reg_flag("-i", 0, FALSE) \o
  opt_reg_int("-seed", 1, TRUE) \o
  opt_reg_flag("-q", 0, FALSE) \o
  opt_reg_string("-chkpt", Null, FALSE) \o
  opt_reg_string("-redir:sim", Null, FALSE) \o
  opt_reg_string("-redir:prog", Null, FALSE) \o
  opt_reg_int("-nice", 0, TRUE)

BpredOptions ==
  opt_reg_string("-bpred", "bimod", TRUE) \o
  opt_reg_int_list("-bpred:bimod", 1, <<2048>>, TRUE, FALSE) \o
  opt_reg_int_list("-bpred:2lev", 4, <<1, 1024, 8, 0>>, TRUE, FALSE) \o
  opt_reg_int_list("-bpred:comb", 1, <<1024>>, TRUE, FALSE) \o
  opt_reg_int("-bpred:ras", 8, TRUE) \o
  opt_reg_int_list("-bpred:btb", 2, <<512, 4>>, TRUE, FALSE)

PcstatOption ==
  opt_reg_string_list("-pcstat", MAX_PCSTAT_VARS, << >>, FALSE, TRUE)

RunOptions ==
  opt_reg_uint("-max:inst", 0, TRUE) \o
  opt_reg_int("-fastfwd", 0, TRUE) \o
  opt_reg_string_list("-ptrace", 2, << >>, FALSE, FALSE)
FetchOptions ==
  opt_reg_int("-fetch:ifqsize", 4, TRUE) \o
  opt_reg_int("-fetch:mplat", 3, TRUE) \o
  opt_reg_int("-fetch:speed", 1, TRUE)
CoreOptions ==
  opt_reg_string("-bpred:spec_update", Null, TRUE) \o
  opt_reg_int("-decode:width", 4, TRUE) \o
  opt_reg_int("-issue:width", 4, TRUE) \o
  opt_reg_flag("-issue:inorder", 0, TRUE) \o
  opt_reg_flag("-issue:wrongpath", 1, TRUE) \o
  opt_reg_int("-commit:width", 4, TRUE) \o
  opt_reg_int("-ruu:size", 16, TRUE) \o
  opt_reg_int("-lsq:size", 8, TRUE)
HierarchyOptions ==
  opt_reg_string("-cache:dl1", "dl1:128:32:4:l", TRUE) \o
  opt_reg_int("-cache:dl1lat", 1, TRUE) \o
  opt_reg_string("-cache:dl2", "ul2:1024:64:4:l", TRUE) \o
  opt_reg_int("-cache:dl2lat", 6, TRUE) \o
  opt_reg_string("-cache:il1", "il1:512:32:1:l", TRUE) \o
  opt_reg_int("-cache:il1lat", 1, TRUE) \o
  opt_reg_string("-cache:il2", "dl2", TRUE) \o
  opt_reg_int("-cache:il2lat", 6, TRUE) \o
  opt_reg_flag("-cache:flush", 0, TRUE) \o
  opt_reg_flag("-cache:icompress", 0, TRUE) \o
  opt_reg_int_list("-mem:lat", 2, <<18, 2>>, TRUE, FALSE) \o
  opt_reg_int("-mem:width", 8, TRUE)
ResourceOptions ==
  opt_reg_string("-tlb:itlb", "itlb:16:4096:4:l", TRUE) \o
  opt_reg_string("-tlb:dtlb", "dtlb:32:4096:4:l", TRUE) \o
  opt_reg_int("-tlb:lat", 30, TRUE) \o
  opt_reg_int("-res:ialu", 4, TRUE) \o
  opt_reg_int("-res:imult", 1, TRUE) \o
  opt_reg_int("-res:memport", 2, TRUE) \o
  opt_reg_int("-res:fpalu", 4, TRUE) \o
  opt_reg_int("-res:fpmult", 1, TRUE)
SimOutorderOptions ==
  RunOptions \o FetchOptions \o BpredOptions \o CoreOptions \o HierarchyOptions \o ResourceOptions \o
  PcstatOption \o opt_reg_flag("-bugcompat", 0, TRUE)

SimCacheOptions ==
  opt_reg_uint("-max:inst", 0, TRUE) \o
  opt_reg_string("-cache:dl1", "dl1:256:32:1:l", TRUE) \o
  opt_reg_string("-cache:dl2", "ul2:1024:64:4:l", TRUE) \o
  opt_reg_string("-cache:il1", "il1:256:32:1:l", TRUE) \o
  opt_reg_string("-cache:il2", "dl2", TRUE) \o
  opt_reg_string("-tlb:itlb", "itlb:16:4096:4:l", TRUE) \o
  opt_reg_string("-tlb:dtlb", "dtlb:32:4096:4:l", TRUE) \o
  opt_reg_flag("-flush", 0, TRUE) \o
  opt_reg_flag("-cache:icompress", 0, TRUE) \o
  PcstatOption

SimBpredOptions == opt_reg_uint("-max:inst", 0, TRUE) \o BpredOptions

sim_reg_options(sim) ==
  GlobalOptions \o
  CASE sim = "sim-outorder" -> SimOutorderOptions
    [] sim = "sim-cache"    -> SimCacheOptions
    [] sim = "sim-bpred"    -> SimBpredOptions

OptionsOf == [sim \in Sims |-> sim_reg_options(sim)]
ASSUME OptionsAssumption == \A sim \in Sims : Registrable(OptionsOf[sim])

-----------------------------------------------------------------------------
(* A check fails with its message; the first that fails ends the simulator. *)
Check(bad, msg) == << [bad |-> bad, msg |-> msg] >>
FirstFailure(checks) ==
  LET failed == SelectSeq(checks, LAMBDA c : c.bad)
  IN  IF failed = << >> THEN "" ELSE failed[1].msg

(* The branch predictor.  sim-bpred knows no perfect prediction.            *)
PredKinds(sim) ==
  {"taken", "nottaken", "bimod", "2lev", "comb"} \cup (IF sim = "sim-outorder" THEN {"perfect"} ELSE {})
Kind(db) == Lower(Value(db, "-bpred"))

Bpred2bitChecks(size) == Check(~PowerOfTwo(size), "2bit table size must be a power of two")
(* Fault: the second level is not checked. *)
Bpred2LevelChecksOne(cfg) == Check(~PowerOfTwo(cfg[1]), "level-1 size must be a power of two")
Bpred2LevelChecks(cfg) ==
  Check(~PowerOfTwo(cfg[1]), "level-1 size must be a power of two") \o
  Check(~PowerOfTwo(cfg[2]), "level-2 size must be a power of two") \o
  Check(cfg[3] \notin 1 .. 30, "shift register width must be non-zero and positive")

bpred_dir_checks(db) ==
  CASE Kind(db) = "bimod" -> Bpred2bitChecks(Value(db, "-bpred:bimod"))
    [] Kind(db) = "2lev"  -> Bpred2LevelChecks(db.var["-bpred:2lev"])
    [] Kind(db) = "comb"  -> Bpred2bitChecks(Value(db, "-bpred:bimod"))
                               \o Bpred2LevelChecks(db.var["-bpred:2lev"])
                               \o Bpred2bitChecks(Value(db, "-bpred:comb"))
    [] OTHER -> << >>

BtbChecks(db) ==
  Check(~PowerOfTwo(db.var["-bpred:btb"][1]), "number of BTB sets must be a power of two") \o
  Check(~PowerOfTwo(db.var["-bpred:btb"][2]), "BTB associativity must be a power of two") \o
  Check(Value(db, "-bpred:ras") # 0 /\ ~PowerOfTwo(Value(db, "-bpred:ras")),
        "Return-address-stack size must be zero or a power of two")

PredChecks(sim, db) ==
  LET dynamic == Kind(db) \in {"bimod", "2lev", "comb"}
      short(name, n) == Check(db.nelt[name] # n, "bad predictor config")
  IN  Check(Kind(db) \notin PredKinds(sim), "cannot parse predictor type")
      \o (IF Kind(db) \in {"2lev", "comb"} THEN short("-bpred:2lev", 4) ELSE << >>)
      \o (IF Kind(db) \in {"bimod", "comb"} THEN short("-bpred:bimod", 1) ELSE << >>)
      \o (IF Kind(db) = "comb" THEN short("-bpred:comb", 1) ELSE << >>)
      \o (IF dynamic THEN short("-bpred:btb", 2) \o bpred_dir_checks(db) \o BtbChecks(db) ELSE << >>)

(* bpred_create.  A predictor holds the tables its class has.               *)
bpred_create(db) ==
  LET two == db.var["-bpred:2lev"]
      dir(name) == [size |-> Value(db, name)]
      twolev == [l1size |-> two[1], l2size |-> two[2], width |-> two[3], xor |-> two[4]]
      btb == [sets |-> db.var["-bpred:btb"][1], assoc |-> db.var["-bpred:btb"][2],
              ras |-> Value(db, "-bpred:ras")]
      of == [class |-> Kind(db)]
  IN  CASE Kind(db) = "bimod" -> of @@ btb @@ [bimod |-> dir("-bpred:bimod")]
        [] Kind(db) = "2lev"  -> of @@ btb @@ [twolev |-> twolev]
        [] Kind(db) = "comb"  -> of @@ btb @@ [bimod |-> dir("-bpred:bimod"), twolev |-> twolev,
                                               meta |-> dir("-bpred:comb")]
        [] OTHER -> of

-----------------------------------------------------------------------------
(* The caches.  A slot that is pointed at another one holds that one's      *)
(* cache, known by the slot it was created for.                             *)
NoCache == [slot |-> "none"]
Policy == ("l" :> "LRU") @@ ("r" :> "Random") @@ ("f" :> "FIFO")
AnyCache == [name |-> "", nsets |-> 1, bsize |-> 8, assoc |-> 1, c |-> "l"]

CreateChecks(opt) ==
  LET parsed == opt \in DOMAIN CacheConfigs
      k == IF parsed THEN CacheConfigs[opt] ELSE AnyCache
  IN  Check(~parsed, "bad cache or TLB parms") \o
      Check(k.c \notin DOMAIN Policy, "bogus replacement policy") \o
      Check(~PowerOfTwo(k.nsets), "cache size (in sets) is not a power of two") \o
      Check(k.bsize < 8 \/ ~PowerOfTwo(k.bsize), "cache block size must be a power of two, 8 or greater") \o
      Check(~PowerOfTwo(k.assoc), "cache associativity must be a power of two")

cache_create(slot, opt) ==
  LET k == CacheConfigs[opt]
  IN  [slot |-> slot, name |-> k.name, nsets |-> k.nsets, bsize |-> k.bsize,
       assoc |-> k.assoc, policy |-> Policy[k.c]]

CacheSlots == {"il1", "il2", "dl1", "dl2", "itlb", "dtlb"}
Opt(db, slot) == Value(db, IF slot \in {"itlb", "dtlb"} THEN "-tlb:" \o slot ELSE "-cache:" \o slot)
Is(db, slot, w) == Same(Opt(db, slot), w)

(* Is a cache created for this slot?  Otherwise: which slot is it pointed at?*)
Created(db, slot) ==
  /\ ~Is(db, slot, "none")
  /\ slot = "dl2" => ~Is(db, "dl1", "none")
  /\ slot = "il1" => ~Is(db, "il1", "dl1") /\ ~Is(db, "il1", "dl2")
  /\ slot = "il2" => /\ ~Is(db, "il1", "none") /\ ~Is(db, "il1", "dl1") /\ ~Is(db, "il1", "dl2")
                     /\ ~Is(db, "il2", "dl2")
PointedAt(db, slot) ==
  IF slot \in {"il1", "il2"} /\ ~Created(db, slot)
    THEN LET own == ~Is(db, "il1", "none") /\ ~Is(db, "il1", "dl1") /\ ~Is(db, "il1", "dl2")
         IN  IF slot = "il1" THEN {d \in {"dl1", "dl2"} : Is(db, "il1", d)}
             ELSE {d \in {"dl2"} : own /\ Is(db, "il2", d)}
    ELSE {}

Cache(db, slot) ==
  IF Created(db, slot) THEN cache_create(slot, Opt(db, slot))
  ELSE IF PointedAt(db, slot) # {}
    THEN LET d == CHOOSE d \in PointedAt(db, slot) : TRUE
         IN  IF Created(db, d) THEN cache_create(d, Opt(db, d)) ELSE NoCache
  ELSE NoCache

(* The level 2 must be "none", in these letters, where the level 1 is none  *)
(* of its own; elsewhere any case will do.                                  *)
CacheChecks(db) ==
  LET create(slot) == IF Created(db, slot) THEN CreateChecks(Opt(db, slot)) ELSE << >>
      alone(l1, l2) == Check(Opt(db, l2) # "none", "the l1 cache must be defined if the l2 cache is defined")
      points(slot) == Check(PointedAt(db, slot) # {} /\ Cache(db, slot) = NoCache,
                            "I-cache cannot access D-cache as it's undefined")
  IN  (IF Is(db, "dl1", "none") THEN alone("dl1", "dl2") ELSE create("dl1") \o create("dl2"))
      \o points("il1")
      \o (IF Created(db, "il1") THEN create("il1") \o points("il2") \o create("il2")
          ELSE alone("il1", "il2"))
      \o create("itlb") \o create("dtlb")

-----------------------------------------------------------------------------
(* The pipeline of sim-outorder.                                            *)
SpecUpdate(db) ==
  LET w == Value(db, "-bpred:spec_update")
  IN  IF w = Null THEN "spec_CT" ELSE IF Same(w, "ID") THEN "spec_ID"
      ELSE IF Same(w, "WB") THEN "spec_WB" ELSE "bad"

FrontChecks(db) ==
  LET at(name) == Value(db, name)
  IN  Check(at("-fastfwd") \notin 0 .. 2147483646, "bad fast forward count") \o
      Check(~PowerOfTwo(at("-fetch:ifqsize")), "inst fetch queue size must be a power of two") \o
      Check(at("-fetch:mplat") < 1, "mis-prediction penalty must be at least 1 cycle") \o
      Check(at("-fetch:speed") < 1, "front-end speed must be positive and non-zero")

CoreChecks(db) ==
  LET at(name) == Value(db, name)
  IN  Check(SpecUpdate(db) = "bad", "bad speculative update stage specifier") \o
      Check(~PowerOfTwo(at("-decode:width")), "issue width must be a power of two") \o
      Check(~PowerOfTwo(at("-issue:width")), "issue width must be a power of two") \o
      Check(at("-commit:width") < 1, "commit width must be positive non-zero") \o
      Check(at("-ruu:size") < 2 \/ ~PowerOfTwo(at("-ruu:size")), "RUU size must be a power of two") \o
      Check(at("-lsq:size") < 2 \/ ~PowerOfTwo(at("-lsq:size")), "LSQ size must be a power of two")

Units == <<"-res:ialu", "-res:imult", "-res:memport", "-res:fpalu", "-res:fpmult">>
Latencies == <<"-cache:dl1lat", "-cache:dl2lat", "-cache:il1lat", "-cache:il2lat">>
MemoryChecks(db) ==
  FlattenSeq([k \in DOMAIN Latencies |->
                Check(Value(db, Latencies[k]) < 1, "cache latency must be greater than zero")]) \o
  Check(db.nelt["-mem:lat"] # 2, "bad memory access latency") \o
  Check(\E k \in 1 .. 2 : db.var["-mem:lat"][k] < 1, "all memory access latencies must be greater than zero") \o
  Check(~PowerOfTwo(Value(db, "-mem:width")), "memory bus width must be a power of two") \o
  Check(Value(db, "-tlb:lat") < 1, "TLB miss latency must be greater than zero") \o
  FlattenSeq([k \in DOMAIN Units |->
                Check(Value(db, Units[k]) \notin 1 .. MAX_INSTS_PER_CLASS,
                      "number of functional units must be in range")])

(* res_create_pool: the units that may serve each class of operation.       *)
fu_config == <<{"IntALU"}, {"IntMULT", "IntDIV"}, {"RdPort", "WrPort"},
               {"FloatADD", "FloatCMP", "FloatCVT"}, {"FloatMULT", "FloatDIV", "FloatSQRT"}>>
FUClasses == UNION {fu_config[k] : k \in DOMAIN fu_config}
res_create_pool(db) ==
  LET units == FlattenSeq([k \in DOMAIN Units |-> [j \in 1 .. Value(db, Units[k]) |-> k]])
  IN  [c \in FUClasses |-> {u \in DOMAIN units : c \in fu_config[units[u]]}]

-----------------------------------------------------------------------------
sim_check_options(sim, db) ==
  CASE sim = "sim-outorder" -> FrontChecks(db) \o PredChecks(sim, db) \o CoreChecks(db)
                                 \o CacheChecks(db) \o MemoryChecks(db)
    [] sim = "sim-cache"    -> CacheChecks(db)
    [] sim = "sim-bpred"    -> PredChecks(sim, db)

NoPred == [class |-> "none"]
Machine(sim, db) ==
  [pool |-> IF sim = "sim-outorder" THEN res_create_pool(db) ELSE << >>,
   pred |-> IF sim = "sim-cache" \/ Kind(db) = "perfect" THEN NoPred ELSE bpred_create(db),
   caches |-> [s \in CacheSlots |-> IF sim = "sim-bpred" THEN NoCache ELSE Cache(db, s)]]
=============================================================================
