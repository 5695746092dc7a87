-------------------------------- MODULE BPred --------------------------------
(***************************************************************************)
(* The branch predictor of sim-bpred and sim-outorder (bpred.c): bimodal,  *)
(* two-level (with the default, gshare and gselect second-level indexes),  *)
(* combining and static direction predictors, the branch target buffer     *)
(* with its LRU chains and the return-address stack.                       *)
(*                                                                         *)
(* The tables are sized by powers of two (bpred_create rejects any other   *)
(* size), so an index into a table of 2^n entries is its n bits and the    *)
(* masking, shifting and or-ing of the C code select and move bits.        *)
(*                                                                         *)
(* bpred_lookup, bpred_recover and bpred_update are actions on the         *)
(* predictor's state; the modules SimBPred and BPredFlight drive them as   *)
(* the in-order simulator and the out-of-order pipeline do.                *)
(***************************************************************************)
EXTENDS Integers, Sequences, FiniteSets, Functions

CONSTANTS
    Class,        \* "comb", "2lev", "2bit", "taken" or "nottaken"
    IndexType,    \* second-level index: 1 gshare, 2 gselect, 0 as 2.0 did
    BimodBits,    \* log2 of the bimodal table's size
    MetaBits,     \* log2 of the meta table's size
    L1Bits,       \* log2 of the number of history registers
    L2Bits,       \* log2 of the number of second-level counters
    HistBits,     \* width of a history register
    SetBits,      \* log2 of the number of BTB sets
    Ways,         \* BTB associativity
    RasSize,      \* entries of the return-address stack, 0 for none
    BrShift,      \* MD_BR_SHIFT: log2 of the instruction size
    Branches,     \* the static control instructions: [pc, kind, targets]
    Counting,     \* whether the statistics counters are kept
    MaxLookups    \* bound on the control instructions looked up while Counting

InstSize == 2 ^ BrShift

Kinds == {"cond", "jump", "call", "icall", "ijump", "return"}
Uncond(b) == b.kind # "cond"
IsCall(b) == b.kind \in {"call", "icall"}
IsReturn(b) == b.kind = "return"
IsIndir(b) == b.kind \in {"ijump", "return"}       \* MD_IS_INDIR: JR only

ASSUME ClassAssumption == Class \in {"comb", "2lev", "2bit", "taken", "nottaken"}
ASSUME SizeAssumption ==
    /\ {BimodBits, MetaBits, L1Bits, L2Bits, SetBits, RasSize, BrShift} \subseteq Nat
    /\ {HistBits, Ways} \subseteq Nat \ {0}
    /\ IndexType \in Nat
    /\ \E n \in 0..30 : Ways = 2 ^ n /\ (RasSize > 0 => \E m \in 0..30 : RasSize = 2 ^ m)
    /\ Counting \in BOOLEAN /\ MaxLookups \in Nat
    /\ InstSize \in Nat \ {0}
ASSUME BranchAssumption ==
    \A b \in Branches : b.pc \in Nat \ {0} /\ b.kind \in Kinds /\ b.targets \subseteq Nat
\* An address of the text holds one instruction.
ASSUME TextAssumption == \A b, c \in Branches : b.pc = c.pc => b = c

VARIABLES
    ctr,        \* the two-bit counters of the tables "bimod", "twolev", "meta"
    shiftregs,  \* the history registers, newest outcome in bit 0
    btb,        \* btb[set][way]: address, target and LRU chain links
    ras,        \* the entries of the return-address stack
    tos,        \* index of its top
    stats       \* the predictor's statistics

bpredVars == <<ctr, shiftregs, btb, ras, tos, stats>>

Stateful == Class \in {"comb", "2lev", "2bit"}
Counters == 0..3
WayIds == 0..Ways - 1
Nil == -1                        \* the NULL link of an LRU chain
RasIds == 0..RasSize - 1
Bits(n) == [0..n - 1 -> {0, 1}]

CtrType == [bimod : [Bits(BimodBits) -> Counters],
            twolev : [Bits(L2Bits) -> Counters],
            meta : [Bits(MetaBits) -> Counters]]
BtbEntry == [addr : Nat, target : Nat, prev : WayIds \cup {Nil}, next : WayIds \cup {Nil}]
StatNames == {"lookups", "addr_hits", "dir_hits", "misses", "used_ras",
              "ras_hits", "used_bimod", "used_2lev", "jr_seen", "jr_hits",
              "jr_non_ras_seen", "jr_non_ras_hits", "pops", "pushes"}

NoPtr == <<"none", << >> >>
Pointers == {NoPtr} \cup ({"bimod"} \X Bits(BimodBits))
                    \cup ({"twolev"} \X Bits(L2Bits)) \cup ({"meta"} \X Bits(MetaBits))
DirUpdates == [pdir1 : Pointers, pdir2 : Pointers, pmeta : Pointers,
               ras : BOOLEAN, bimod : BOOLEAN, twolev : BOOLEAN, meta : BOOLEAN]

-----------------------------------------------------------------------------
(* Indexes.  AddrBit is the bit of an address, BrShift bits up, as 0 or 1. *)

AddrBit(a, k) == IF (a \div 2 ^ (BrShift + k)) % 2 = 1 THEN 1 ELSE 0
Xor(x, y) == IF x = y THEN 0 ELSE 1
LowBits(a, n) == [k \in 0..n - 1 |-> AddrBit(a, k)]

BIMOD_HASH(a, n) == [k \in 0..n - 1 |-> Xor(AddrBit(a, k), AddrBit(a, k + 19 - BrShift))]

\* The second-level index for history register h and branch address a.
L2Index(h, a) ==
    [k \in 0..L2Bits - 1 |->
        IF k >= HistBits THEN AddrBit(a, k - HistBits)
        ELSE IF IndexType = 1 THEN Xor(h[k], AddrBit(a, k)) ELSE h[k]]

BpredInit ==
    LET weakly(n) == [i \in Bits(n) |-> IF n > 0 /\ i[0] = 1 THEN 2 ELSE 1]
    IN /\ ctr = [bimod |-> weakly(BimodBits), twolev |-> weakly(L2Bits), meta |-> weakly(MetaBits)]
       /\ shiftregs = [r \in Bits(L1Bits) |-> [k \in 0..HistBits - 1 |-> 0]]
       /\ btb = [s \in Bits(SetBits) |-> [w \in WayIds |->
                    [addr |-> 0, target |-> 0, prev |-> w - 1,
                     next |-> IF w = Ways - 1 THEN Nil ELSE w + 1]]]
       /\ ras = [i \in RasIds |-> 0]
       /\ tos = IF Stateful THEN RasSize - 1 ELSE 0
       /\ stats = [n \in StatNames |-> 0]

\* Statistics are written and never read by the predictor.
Count(names) ==
    stats' = IF Counting THEN [n \in StatNames |-> stats[n] + IF n \in names THEN 1 ELSE 0]
             ELSE stats

-----------------------------------------------------------------------------
(* bpred_lookup                                                            *)

bpred_dir_lookup(table, a) ==
    <<table, CASE table = "bimod"  -> BIMOD_HASH(a, BimodBits)
               [] table = "meta"   -> BIMOD_HASH(a, MetaBits)
               [] table = "twolev" -> L2Index(shiftregs[LowBits(a, L1Bits)], a)>>

At(p) == ctr[p[1]][p[2]]
PredictsTaken(p) == At(p) >= 2

\* What a lookup leaves in the update record of a branch.
DirUpdate(b) ==
    LET none == [pdir1 |-> NoPtr, pdir2 |-> NoPtr, pmeta |-> NoPtr,
                 ras |-> Stateful /\ IsReturn(b) /\ RasSize > 0,
                 bimod |-> FALSE, twolev |-> FALSE, meta |-> FALSE]
        two == bpred_dir_lookup("twolev", b.pc)
        bim == bpred_dir_lookup("bimod", b.pc)
        met == bpred_dir_lookup("meta", b.pc)
    IN IF Uncond(b) \/ ~Stateful THEN none
       ELSE CASE Class = "2lev" -> [none EXCEPT !.pdir1 = two]
              [] Class = "2bit" -> [none EXCEPT !.pdir1 = bim]
              [] OTHER ->
                   [none EXCEPT !.pmeta = met,
                                !.pdir1 = IF PredictsTaken(met) THEN two ELSE bim,
                                !.pdir2 = IF PredictsTaken(met) THEN bim ELSE two,
                                !.meta = PredictsTaken(met),
                                !.bimod = PredictsTaken(bim),
                                !.twolev = PredictsTaken(two)]

SetOf(a) == LowBits(a, SetBits)
Matches(a) == {w \in WayIds : btb[SetOf(a)][w].addr = a}
FirstMatch(a) == CHOOSE w \in Matches(a) : \A v \in Matches(a) : w <= v

\* The address predicted for b; 0 stands for "not taken", 1 for "taken, target unknown".
Predicted(b, btarget, upd) ==
    LET hit == Matches(b.pc) # {}
        target == IF hit THEN btb[SetOf(b.pc)][FirstMatch(b.pc)].target ELSE 1
    IN CASE Class = "taken"    -> btarget
         [] Class = "nottaken" -> IF Uncond(b) THEN btarget ELSE b.pc + InstSize
         [] upd.ras            -> ras[tos]
         [] ~upd.ras /\ Stateful ->
              IF Uncond(b) \/ PredictsTaken(upd.pdir1) THEN target ELSE 0

\* The top of stack before this lookup, kept for bpred_recover.
RecoverIdx == IF Stateful /\ RasSize > 0 THEN tos ELSE 0

\* The lookup's effect: a return pops the stack, a call pushes its return address.
Pops(b) == Stateful /\ IsReturn(b) /\ RasSize > 0
Pushes(b) == Stateful /\ IsCall(b) /\ RasSize > 0
\* (Fault: the index does not wrap on a push.)
PopPushUnwrapped(b) ==
    LET up == tos + 1
    IN /\ tos' = IF Pops(b) THEN (tos + RasSize - 1) % RasSize ELSE IF Pushes(b) THEN up ELSE tos
       /\ ras' = ras
\* (Fault: a push writes the entry it should leave below.)
PopPushBelow(b) ==
    /\ tos' = IF Pops(b) THEN (tos + RasSize - 1) % RasSize
              ELSE IF Pushes(b) THEN (tos + 1) % RasSize ELSE tos
    /\ ras' = IF Pushes(b) THEN [ras EXCEPT ![tos] = b.pc + InstSize] ELSE ras

PopPush(b) ==
    LET up == IF RasSize > 0 THEN (tos + 1) % RasSize ELSE tos
    IN /\ tos' = IF Pops(b) THEN (tos + RasSize - 1) % RasSize ELSE IF Pushes(b) THEN up ELSE tos
       /\ ras' = IF Pushes(b) THEN [ras EXCEPT ![up] = b.pc + InstSize] ELSE ras
LookupStats(b) == {"lookups"} \cup (IF Pops(b) THEN {"pops"} ELSE {})
                              \cup (IF Pushes(b) THEN {"pushes"} ELSE {})

bpred_lookup(b) == PopPush(b) /\ Count(LookupStats(b)) /\ UNCHANGED <<ctr, shiftregs, btb>>

-----------------------------------------------------------------------------
(* bpred_recover                                                           *)

bpred_recover(idx) == tos' = idx /\ UNCHANGED <<ctr, shiftregs, btb, ras, stats>>

-----------------------------------------------------------------------------
(* bpred_update                                                            *)

\* (Fault: counters that do not saturate; counters that wrap.)
StepUnbounded(c, up) == IF up THEN c + 1 ELSE c - 1
StepWraps(c, up) == IF up THEN (c + 1) % 4 ELSE (c + 3) % 4
Step(c, up) == IF up THEN IF c < 3 THEN c + 1 ELSE c ELSE IF c > 0 THEN c - 1 ELSE c

\* The counters after training those upd points to.
TrainedCtr(upd, taken) ==
    [t \in {"bimod", "twolev", "meta"} |-> [i \in DOMAIN ctr[t] |->
        IF <<t, i>> \in {upd.pdir1, upd.pdir2} THEN Step(ctr[t][i], taken)
        ELSE IF <<t, i>> = upd.pmeta /\ upd.bimod # upd.twolev
             THEN Step(ctr[t][i], upd.twolev = taken)
             ELSE ctr[t][i]]]

ShiftIn(h, taken) == [k \in 0..HistBits - 1 |-> IF k > 0 THEN h[k - 1] ELSE IF taken THEN 1 ELSE 0]

ShiftedRegs(b, taken) ==
    IF ~Uncond(b) /\ Class \in {"2lev", "comb"}
    THEN [shiftregs EXCEPT ![LowBits(b.pc, L1Bits)] = ShiftIn(@, taken)]
    ELSE shiftregs

LruHead(s) == CHOOSE w \in WayIds : s[w].prev = Nil
LruItem(s) == CHOOSE w \in WayIds : s[w].next = Nil

\* (Fault: the old head gets no back link to the new one.)
MoveToHeadOneWay(s, p) ==
    LET h == LruHead(s)
    IN IF p = h THEN s
       ELSE [w \in WayIds |-> [s[w] EXCEPT
                !.prev = IF w = p THEN Nil ELSE IF w = s[p].next THEN s[p].prev ELSE @,
                !.next = IF w = p THEN h ELSE IF w = s[p].prev THEN s[p].next ELSE @]]
\* Set s with way p spliced out of the LRU chain and put at its head.
MoveToHead(s, p) ==
    LET h == LruHead(s)
        prevOf(w) == CASE w = p         -> Nil
                       [] w = h         -> p
                       [] w = s[p].next -> s[p].prev
                       [] OTHER         -> s[w].prev
        nextOf(w) == CASE w = p         -> h
                       [] w = s[p].prev -> s[p].next
                       [] OTHER         -> s[w].next
    IN IF p = h THEN s
       ELSE [w \in WayIds |-> [s[w] EXCEPT !.prev = prevOf(w), !.next = nextOf(w)]]

Victim(a) == IF Matches(a) # {} THEN FirstMatch(a) ELSE LruItem(btb[SetOf(a)])

\* (Fault: the target of an entry is written once and for all.)
UpdatedSetOnce(a, target, correct) ==
    LET p == Victim(a)
        s == MoveToHead(btb[SetOf(a)], p)
    IN IF s[p].addr # a THEN [s EXCEPT ![p].addr = a, ![p].target = target] ELSE s

\* (Fault: entries are replaced first in, first out: a hit leaves the order as it is.)
UpdatedSetFifo(a, target, correct) ==
    LET p == Victim(a)
        s == btb[SetOf(a)]
        m == MoveToHead(s, p)
    IN IF Matches(a) = {} THEN [m EXCEPT ![p].addr = a, ![p].target = target]
       ELSE IF correct THEN s
       ELSE [s EXCEPT ![p].target = target]

UpdatedSet(a, target, correct) ==
    LET p == Victim(a)
        s == MoveToHead(btb[SetOf(a)], p)
    IN IF s[p].addr # a THEN [s EXCEPT ![p].addr = a, ![p].target = target]
       ELSE IF correct THEN s
       ELSE [s EXCEPT ![p].target = target]

\* (Fault: returns predicted by the stack counted among the other JR's.)
UpdateStatsAnyJr(b, upd, taken, predTaken, correct) ==
    (IF correct THEN {"addr_hits"} ELSE {})
    \cup {IF predTaken = taken THEN "dir_hits" ELSE "misses"}
    \cup (IF upd.ras THEN {"used_ras"} ELSE {}) \cup (IF upd.ras /\ correct THEN {"ras_hits"} ELSE {})
    \cup (IF IsIndir(b) THEN {"jr_seen", "jr_non_ras_seen"} ELSE {})
    \cup (IF IsIndir(b) /\ correct THEN {"jr_hits", "jr_non_ras_hits"} ELSE {})

\* used_2lev and used_bimod are reported for the combining predictor, which alone sets dir.meta.
UpdateStats(b, upd, taken, predTaken, correct) ==
    LET if(c, n) == IF c THEN {n} ELSE {}
    IN if(correct, "addr_hits")
       \cup {IF predTaken = taken THEN "dir_hits" ELSE "misses"}
       \cup if(upd.ras, "used_ras") \cup if(upd.ras /\ correct, "ras_hits")
       \cup if(~upd.ras /\ ~Uncond(b), IF upd.meta THEN "used_2lev" ELSE "used_bimod")
       \cup if(IsIndir(b), "jr_seen") \cup if(IsIndir(b) /\ correct, "jr_hits")
       \cup if(IsIndir(b) /\ ~upd.ras, "jr_non_ras_seen")
       \cup if(IsIndir(b) /\ ~upd.ras /\ correct, "jr_non_ras_hits")

\* The tables after training with an outcome.  A return that used the stack trains nothing.
Train(b, btarget, taken, correct, upd) ==
    IF ~Stateful \/ (IsIndir(b) /\ upd.ras) THEN UNCHANGED <<ctr, shiftregs, btb>>
    ELSE /\ ctr' = TrainedCtr(upd, taken)
         /\ shiftregs' = ShiftedRegs(b, taken)
         /\ btb' = IF taken THEN [btb EXCEPT ![SetOf(b.pc)] = UpdatedSet(b.pc, btarget, correct)]
                   ELSE btb

bpred_update(b, btarget, taken, predTaken, correct, upd) ==
    /\ Train(b, btarget, taken, correct, upd)
    /\ Count(UpdateStats(b, upd, taken, predTaken, correct))
    /\ UNCHANGED <<ras, tos>>

\* bpred_after_priming: all the statistics but those of non-RAS JR's.
bpred_after_priming ==
    /\ stats' = [n \in StatNames |-> IF n \in {"jr_non_ras_seen", "jr_non_ras_hits"} THEN stats[n] ELSE 0]
    /\ UNCHANGED <<ctr, shiftregs, btb, ras, tos>>

-----------------------------------------------------------------------------
BpredTypeOK ==
    /\ ctr \in CtrType
    /\ shiftregs \in [Bits(L1Bits) -> Bits(HistBits)]
    /\ btb \in [Bits(SetBits) -> [WayIds -> BtbEntry]]
    /\ ras \in [RasIds -> Nat]
    /\ tos \in Int
    /\ Stateful /\ RasSize > 0 => tos \in RasIds
    /\ stats \in [StatNames -> Nat]

\* No branch has two entries in the BTB, whatever the order of hits, evictions and refills
\* (bpred_update asserts it while it searches the set, bpred.c:874).
BtbNoDuplicate ==
    \A s \in Bits(SetBits) : \A v, w \in WayIds :
        v # w /\ btb[s][v].addr = btb[s][w].addr => btb[s][v].addr = 0

\* The LRU links of a set spell out one order of all its ways, the same in both directions, from
\* one head to one tail: no splice loses a way or closes a loop (the dasserts of bpred.c:879-894).
ChainOf(set, rank) ==
    /\ rank \in Bijection(WayIds, WayIds)
    /\ \A v, w \in WayIds : /\ (set[v].next = w) <=> (rank[w] = rank[v] + 1)
                            /\ (set[w].prev = v) <=> (rank[w] = rank[v] + 1)
    /\ \A w \in WayIds : /\ (set[w].prev = Nil) <=> (rank[w] = 0)
                         /\ (set[w].next = Nil) <=> (rank[w] = Ways - 1)

LruChainOK == \A s \in Bits(SetBits) : \E rank \in Bijection(WayIds, WayIds) : ChainOf(btb[s], rank)

\* What every search and replacement in the BTB counts on.
BtbWellFormed == LruChainOK /\ BtbNoDuplicate

\* The ways of a set in the order of its LRU chain, as addresses, without the unused ones.
Chain(set) ==
    LET after[hops \in 0..Ways] ==
            [w \in WayIds \cup {Nil} |->
                IF w = Nil \/ hops = 0 THEN << >>
                ELSE (IF set[w].addr = 0 THEN << >> ELSE <<set[w].addr>>)
                     \o after[hops - 1][set[w].next]]
    IN after[Ways][LruHead(set)]
=============================================================================
