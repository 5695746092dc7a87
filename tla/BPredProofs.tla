----------------------------- MODULE BPredProofs -----------------------------
(***************************************************************************)
(* Facts about the predictor's handlers, for tables of any size, that hold *)
(* whoever calls them: they keep the state well typed, and training keeps  *)
(* the LRU chains of the BTB whole and its entries distinct.  Then the     *)
(* predictor under sim-bpred, for stacks and programs of any size: the     *)
(* return-address stack and the BTB hold what they should, and the         *)
(* counters learn.                                                         *)
(***************************************************************************)
EXTENDS SimBPred, ListLemmas

\* What every caller's invariant contains of the predictor.
BpredInv == BpredTypeOK /\ LruChainOK /\ BtbNoDuplicate

LEMMA Sizes ==
    /\ {BimodBits, MetaBits, L1Bits, L2Bits, SetBits, RasSize, BrShift} \subseteq Nat
    /\ HistBits \in Nat \ {0} /\ Ways \in Nat \ {0} /\ InstSize \in Nat \ {0}
BY SizeAssumption

LEMMA BranchFields ==
    ASSUME NEW b \in Branches
    PROVE  b.pc \in Nat \ {0} /\ b.kind \in Kinds /\ b.targets \subseteq Nat
BY BranchAssumption

\* A sum or difference of two stack indexes wraps at most once.
LEMMA WrapOnce ==
    ASSUME NEW n \in Nat \ {0}, NEW a \in Nat, a < n + n
    PROVE  /\ a < n => a % n = a
           /\ a >= n => a % n = a - n
           /\ a % n \in 0..n - 1
BY SMT

-----------------------------------------------------------------------------
(* Lookups.                                                                *)

LEMMA IndexTyped ==
    ASSUME NEW a, BpredTypeOK
    PROVE  /\ LowBits(a, L1Bits) \in Bits(L1Bits)
           /\ LowBits(a, SetBits) \in Bits(SetBits)
           /\ BIMOD_HASH(a, BimodBits) \in Bits(BimodBits)
           /\ BIMOD_HASH(a, MetaBits) \in Bits(MetaBits)
           /\ L2Index(shiftregs[LowBits(a, L1Bits)], a) \in Bits(L2Bits)
<1>1. \A k : AddrBit(a, k) \in {0, 1}
  BY DEF AddrBit
<1>2. \A x, y : Xor(x, y) \in {0, 1}
  BY DEF Xor
<1>3. \A n : LowBits(a, n) \in Bits(n) /\ BIMOD_HASH(a, n) \in Bits(n)
  BY <1>1, <1>2 DEF LowBits, BIMOD_HASH, Bits
<1>4. shiftregs[LowBits(a, L1Bits)] \in [0..HistBits - 1 -> {0, 1}]
  BY <1>3 DEF BpredTypeOK, Bits
<1>5. L2Index(shiftregs[LowBits(a, L1Bits)], a) \in Bits(L2Bits)
  BY <1>1, <1>2, <1>4, Sizes DEF L2Index, Bits
<1> QED BY <1>3, <1>5

LEMMA PointersTyped ==
    ASSUME NEW a, BpredTypeOK
    PROVE  \A t \in {"bimod", "twolev", "meta"} :
              bpred_dir_lookup(t, a) \in Pointers /\ PredictsTaken(bpred_dir_lookup(t, a)) \in BOOLEAN
BY IndexTyped DEF bpred_dir_lookup, Pointers, PredictsTaken

LEMMA DirUpdateTyped ==
    ASSUME NEW b \in Branches, BpredTypeOK
    PROVE  /\ DirUpdate(b) \in DirUpdates
           /\ DirUpdate(b).ras <=> Pops(b)
<1> DEFINE none == [pdir1 |-> NoPtr, pdir2 |-> NoPtr, pmeta |-> NoPtr,
                    ras |-> Pops(b), bimod |-> FALSE, twolev |-> FALSE, meta |-> FALSE]
           two == bpred_dir_lookup("twolev", b.pc)
           bim == bpred_dir_lookup("bimod", b.pc)
           met == bpred_dir_lookup("meta", b.pc)
<1>1. NoPtr \in Pointers /\ two \in Pointers /\ bim \in Pointers /\ met \in Pointers
  BY PointersTyped DEF Pointers
<1>2. \A p : PredictsTaken(p) \in BOOLEAN
  BY DEF PredictsTaken
<1>3. Pops(b) \in BOOLEAN
  BY DEF Pops, Stateful, IsReturn
<1>4. CASE Uncond(b) \/ ~Stateful
  <2>1. DirUpdate(b) = none
    BY <1>4 DEF DirUpdate, Pops
  <2> QED BY <1>1, <1>3, <2>1 DEF DirUpdates
<1>5. CASE ~(Uncond(b) \/ ~Stateful) /\ Class = "2lev"
  <2>1. DirUpdate(b) = [none EXCEPT !.pdir1 = two]
    BY <1>5 DEF DirUpdate, Pops
  <2> HIDE DEF two
  <2> QED BY <1>1, <1>3, <2>1 DEF DirUpdates
<1>6. CASE ~(Uncond(b) \/ ~Stateful) /\ Class = "2bit"
  <2>1. DirUpdate(b) = [none EXCEPT !.pdir1 = bim]
    BY <1>6 DEF DirUpdate, Pops
  <2> HIDE DEF bim
  <2> QED BY <1>1, <1>3, <2>1 DEF DirUpdates
<1>7. CASE ~(Uncond(b) \/ ~Stateful) /\ Class \notin {"2lev", "2bit"}
  <2>1. DirUpdate(b) =
          [none EXCEPT !.pmeta = met,
                       !.pdir1 = IF PredictsTaken(met) THEN two ELSE bim,
                       !.pdir2 = IF PredictsTaken(met) THEN bim ELSE two,
                       !.meta = PredictsTaken(met),
                       !.bimod = PredictsTaken(bim),
                       !.twolev = PredictsTaken(two)]
    BY <1>7 DEF DirUpdate, Pops
  <2> HIDE DEF two, bim, met
  <2> QED BY <1>1, <1>2, <1>3, <2>1 DEF DirUpdates
<1> QED BY <1>4, <1>5, <1>6, <1>7

\* The entry a lookup or an update finds for an address in use is the only one.
LEMMA OneMatch ==
    ASSUME NEW a \in Nat \ {0}, BpredTypeOK, BtbNoDuplicate, Matches(a) # {}
    PROVE  FirstMatch(a) \in Matches(a) /\ Matches(a) = {FirstMatch(a)} /\ FirstMatch(a) \in WayIds
<1>1. PICK w : w \in Matches(a)
  OBVIOUS
<1>2. \A v \in Matches(a) : v = w
  BY <1>1, IndexTyped DEF Matches, BtbNoDuplicate, SetOf
<1>3. w \in Nat /\ w \in WayIds
  BY <1>1, Sizes DEF Matches, WayIds
<1>4. Matches(a) = {w}
  BY <1>1, <1>2
<1> QED BY <1>3, <1>4 DEF FirstMatch

\* A prediction is an address; the 0 and 1 of bpred_lookup count as addresses here.
LEMMA PredictedTyped ==
    ASSUME NEW b \in Branches, NEW btarget \in Nat, BpredTypeOK, BtbNoDuplicate
    PROVE  Predicted(b, btarget, DirUpdate(b)) \in Nat
<1> DEFINE upd == DirUpdate(b)
           hit == Matches(b.pc) # {}
           target == IF hit THEN btb[SetOf(b.pc)][FirstMatch(b.pc)].target ELSE 1
<1>1. target \in Nat
  BY OneMatch, IndexTyped, BranchFields DEF BpredTypeOK, BtbEntry, SetOf
<1>2. upd.ras => tos \in RasIds /\ Stateful
  BY DirUpdateTyped DEF BpredTypeOK, Pops
<1>3. b.pc + InstSize \in Nat
  BY BranchFields, Sizes
<1>4. upd.ras => ras[tos] \in Nat
  BY <1>2 DEF BpredTypeOK
<1> HIDE DEF upd, target
<1>5. Class = "taken" \/ Class = "nottaken" \/ Stateful
  BY ClassAssumption DEF Stateful
<1> QED BY <1>1, <1>2, <1>3, <1>4, <1>5 DEF Predicted, upd, target

\* A lookup keeps the stack and its top in range, over the wrap at either end.
LEMMA PopPushTyped ==
    ASSUME NEW b \in Branches, BpredTypeOK, PopPush(b)
    PROVE  /\ ras' \in [RasIds -> Nat] /\ tos' \in Int
           /\ Stateful /\ RasSize > 0 => tos' \in RasIds
<1>1. b.pc + InstSize \in Nat
  BY BranchFields, Sizes
<1>2. CASE Stateful /\ RasSize > 0
  <2>1. /\ (tos + 1) % RasSize \in RasIds
        /\ (tos + RasSize - 1) % RasSize \in RasIds
    <3>1. tos \in 0..RasSize - 1 /\ RasSize \in Nat \ {0}
      BY <1>2, Sizes DEF BpredTypeOK, RasIds
    <3>2. /\ tos + 1 \in Nat /\ tos + 1 < RasSize + RasSize
          /\ tos + RasSize - 1 \in Nat /\ tos + RasSize - 1 < RasSize + RasSize
      BY <3>1
    <3> QED BY <3>1, <3>2, WrapOnce DEF RasIds
  <2>2. RasIds \subseteq Int
    BY DEF RasIds
  <2> QED BY <1>1, <1>2, <2>1, <2>2 DEF PopPush, BpredTypeOK
<1>3. CASE ~(Stateful /\ RasSize > 0)
  BY <1>3 DEF PopPush, Pops, Pushes, BpredTypeOK
<1> QED BY <1>2, <1>3

LEMMA CountTyped ==
    ASSUME NEW names, BpredTypeOK, Count(names)
    PROVE  stats' \in [StatNames -> Nat]
<1>1. \A n \in StatNames : stats[n] + (IF n \in names THEN 1 ELSE 0) \in Nat
  BY DEF BpredTypeOK
<1> QED BY <1>1 DEF Count, BpredTypeOK

-----------------------------------------------------------------------------
(* Training.                                                               *)

\* Counters saturate and histories keep their width.
LEMMA TablesTyped ==
    ASSUME NEW b \in Branches, NEW taken \in BOOLEAN, NEW upd, BpredTypeOK
    PROVE  /\ TrainedCtr(upd, taken) \in CtrType
           /\ ShiftedRegs(b, taken) \in [Bits(L1Bits) -> Bits(HistBits)]
<1>1. \A c \in Counters : \A up : Step(c, up) \in Counters
  BY DEF Counters, Step
<1>2. TrainedCtr(upd, taken) \in CtrType
  <2> DEFINE new(t) == [i \in DOMAIN ctr[t] |->
                          IF <<t, i>> \in {upd.pdir1, upd.pdir2} THEN Step(ctr[t][i], taken)
                          ELSE IF <<t, i>> = upd.pmeta /\ upd.bimod # upd.twolev
                               THEN Step(ctr[t][i], upd.twolev = taken)
                               ELSE ctr[t][i]]
  <2>1. /\ ctr["bimod"] \in [Bits(BimodBits) -> Counters]
        /\ ctr["twolev"] \in [Bits(L2Bits) -> Counters]
        /\ ctr["meta"] \in [Bits(MetaBits) -> Counters]
    BY DEF BpredTypeOK, CtrType
  <2>2. new("bimod") \in [Bits(BimodBits) -> Counters]
    BY <1>1, <2>1
  <2>3. new("twolev") \in [Bits(L2Bits) -> Counters]
    BY <1>1, <2>1
  <2>4. new("meta") \in [Bits(MetaBits) -> Counters]
    BY <1>1, <2>1
  <2>5. TrainedCtr(upd, taken) = [t \in {"bimod", "twolev", "meta"} |-> new(t)]
    BY DEF TrainedCtr
  <2> HIDE DEF new
  <2> QED BY <2>2, <2>3, <2>4, <2>5 DEF CtrType
<1>3. ShiftedRegs(b, taken) \in [Bits(L1Bits) -> Bits(HistBits)]
  <2>1. ASSUME NEW h \in Bits(HistBits) PROVE ShiftIn(h, taken) \in Bits(HistBits)
    BY Sizes DEF ShiftIn, Bits
  <2> QED BY <2>1, IndexTyped DEF ShiftedRegs, BpredTypeOK
<1> QED BY <1>2, <1>3

BtbSet == [WayIds -> BtbEntry]

\* The chain has a head, and it is the way LruHead finds; so for the tail.
LEMMA ChainEnds ==
    ASSUME NEW s \in BtbSet, NEW rank, ChainOf(s, rank)
    PROVE  /\ LruHead(s) \in WayIds /\ rank[LruHead(s)] = 0
           /\ LruItem(s) \in WayIds /\ rank[LruItem(s)] = Ways - 1
<1>1. 0 \in WayIds /\ Ways - 1 \in WayIds
  BY Sizes DEF WayIds
<1>2. PICK h \in WayIds : rank[h] = 0
  BY <1>1 DEF ChainOf, Bijection, Surjection
<1>3. PICK t \in WayIds : rank[t] = Ways - 1
  BY <1>1 DEF ChainOf, Bijection, Surjection
<1>4. s[h].prev = Nil /\ s[t].next = Nil
  BY <1>2, <1>3 DEF ChainOf
<1> QED BY <1>2, <1>3, <1>4 DEF LruHead, LruItem, ChainOf

\* What a chain's ranking is, as arithmetic.
LEMMA RankFacts ==
    ASSUME NEW rank \in Bijection(WayIds, WayIds)
    PROVE  /\ \A w \in WayIds : rank[w] \in WayIds /\ rank[w] \in Nat /\ rank[w] <= Ways - 1
           /\ \A v, w \in WayIds : rank[v] = rank[w] => v = w
           /\ \A k \in WayIds : \E w \in WayIds : rank[w] = k
<1>1. rank \in [WayIds -> WayIds]
  BY DEF Bijection, Injection
<1>2. \A w \in WayIds : rank[w] \in WayIds
  BY <1>1
<1>3. \A v, w \in WayIds : rank[v] = rank[w] => v = w
  BY <1>1 DEF Bijection, Injection, IsInjective
<1>4. \A k \in WayIds : \E w \in WayIds : rank[w] = k
  BY DEF Bijection, Surjection
<1>5. \A k \in WayIds : k \in Nat /\ k <= Ways - 1
  BY Sizes DEF WayIds
<1> QED BY <1>2, <1>3, <1>4, <1>5

\* Way p ahead of all others, the order of those unchanged.
Fronted(rank, p) ==
    [w \in WayIds |-> IF w = p THEN 0 ELSE IF rank[w] < rank[p] THEN rank[w] + 1 ELSE rank[w]]

LEMMA FrontedRanks ==
    ASSUME NEW rank \in Bijection(WayIds, WayIds), NEW p \in WayIds
    PROVE  Fronted(rank, p) \in Bijection(WayIds, WayIds)
<1> DEFINE new == Fronted(rank, p)
<1>1. \A k : k \in WayIds <=> k \in Nat /\ k <= Ways - 1
  BY Sizes DEF WayIds
<1>2. \A w \in WayIds : new[w] = IF w = p THEN 0 ELSE IF rank[w] < rank[p] THEN rank[w] + 1 ELSE rank[w]
  BY DEF Fronted
<1>3. \A w \in WayIds : new[w] \in WayIds
  <2> SUFFICES ASSUME NEW w \in WayIds PROVE new[w] \in WayIds
    OBVIOUS
  <2>1. rank[w] \in Nat /\ rank[w] <= Ways - 1 /\ rank[p] \in Nat /\ rank[p] <= Ways - 1 /\ Ways \in Nat \ {0}
    BY RankFacts, Sizes
  <2>2. new[w] \in Nat /\ new[w] <= Ways - 1
    BY <1>2, <2>1
  <2> QED BY <1>1, <2>2
<1>4. \A v, w \in WayIds : new[v] = new[w] => v = w
  <2> SUFFICES ASSUME NEW v \in WayIds, NEW w \in WayIds, new[v] = new[w] PROVE v = w
    OBVIOUS
  <2>1. /\ rank[v] \in Nat /\ rank[w] \in Nat /\ rank[p] \in Nat
        /\ rank[v] = rank[w] => v = w
        /\ rank[v] = rank[p] => v = p
        /\ rank[w] = rank[p] => w = p
    BY RankFacts
  <2> QED BY <1>2, <2>1
<1>5. ASSUME NEW k \in WayIds PROVE \E w \in WayIds : new[w] = k
  <2>1. k \in Nat /\ k <= Ways - 1 /\ rank[p] \in Nat /\ \A w \in WayIds : rank[w] \in Nat
    BY <1>1, RankFacts
  <2>2. CASE k = 0
    BY <1>2, <2>2
  <2>3. CASE k > 0 /\ k <= rank[p]
    <3>1. k - 1 \in Nat /\ k - 1 <= Ways - 1
      BY <2>1, <2>3, Sizes
    <3>2. PICK w \in WayIds : rank[w] = k - 1
      BY <1>1, <3>1, RankFacts
    <3>3. w # p /\ rank[w] < rank[p] /\ rank[w] + 1 = k
      BY <2>1, <2>3, <3>2
    <3> QED BY <1>2, <3>3
  <2>4. CASE k > rank[p]
    <3>1. PICK w \in WayIds : rank[w] = k
      BY RankFacts
    <3>2. w # p /\ ~(rank[w] < rank[p])
      BY <2>1, <2>4, <3>1
    <3> QED BY <1>2, <3>1, <3>2
  <2> QED BY <2>1, <2>2, <2>3, <2>4
<1>6. new \in [WayIds -> WayIds]
  BY <1>3 DEF Fronted
<1> HIDE DEF new
<1>7. new \in Bijection(WayIds, WayIds)
  BY <1>4, <1>5, <1>6 DEF Bijection, Injection, Surjection, IsInjective
<1> QED BY <1>7 DEF new

\* Moving any way to the head leaves one chain, headed by that way.
LEMMA MoveKeepsChain ==
    ASSUME NEW s \in BtbSet, NEW p \in WayIds,
           NEW rank \in Bijection(WayIds, WayIds), ChainOf(s, rank)
    PROVE  /\ MoveToHead(s, p) \in BtbSet
           /\ ChainOf(MoveToHead(s, p), Fronted(rank, p))
           /\ \A w \in WayIds : /\ MoveToHead(s, p)[w].addr = s[w].addr
                                /\ MoveToHead(s, p)[w].target = s[w].target
<1> DEFINE h == LruHead(s)
           a == s[p].prev
           b == s[p].next
<1>1. h \in WayIds /\ rank[h] = 0
  BY ChainEnds
<1>2. CASE p = h
  <2>1. rank \in [WayIds -> WayIds] /\ \A w \in WayIds : rank[w] \in Nat /\ (rank[w] = 0 => w = h)
    <3>1. rank \in [WayIds -> WayIds]
      BY DEF Bijection, Injection
    <3> QED BY <1>1, <3>1, RankFacts
  <2>2. ASSUME NEW w \in WayIds
        PROVE  rank[w] = IF w = p THEN 0 ELSE IF rank[w] < rank[p] THEN rank[w] + 1 ELSE rank[w]
    BY <1>1, <1>2, <2>1
  <2>3. Fronted(rank, p) = rank
    BY <2>1, <2>2 DEF Fronted
  <2> QED BY <1>2, <2>3 DEF MoveToHead
<1>3. CASE p # h
  <2> DEFINE prevOf(w) == CASE w = p      -> Nil
                            [] w = h      -> p
                            [] w = b      -> a
                            [] OTHER      -> s[w].prev
             nextOf(w) == CASE w = p      -> h
                            [] w = a      -> b
                            [] OTHER      -> s[w].next
             m == [w \in WayIds |-> [s[w] EXCEPT !.prev = prevOf(w), !.next = nextOf(w)]]
             new == Fronted(rank, p)
  <2>1. MoveToHead(s, p) = m
    BY <1>3 DEF MoveToHead
  <2>2. /\ \A w \in WayIds : s[w] \in BtbEntry
        /\ \A v, w \in WayIds : /\ (s[v].next = w) <=> (rank[w] = rank[v] + 1)
                                /\ (s[w].prev = v) <=> (rank[w] = rank[v] + 1)
        /\ \A w \in WayIds : /\ (s[w].prev = Nil) <=> (rank[w] = 0)
                             /\ (s[w].next = Nil) <=> (rank[w] = Ways - 1)
    BY DEF ChainOf, BtbSet
  <2>3. /\ \A w \in WayIds : /\ s[w].prev \in WayIds \cup {Nil} /\ s[w].next \in WayIds \cup {Nil}
                             /\ rank[w] \in Nat /\ rank[w] <= Ways - 1
        /\ \A v, w \in WayIds : rank[v] = rank[w] => v = w
        /\ Nil \notin WayIds /\ Ways \in Nat
    <3>1. \A w \in WayIds : s[w].prev \in WayIds \cup {Nil} /\ s[w].next \in WayIds \cup {Nil}
      BY <2>2 DEF BtbEntry
    <3>2. Nil \notin WayIds /\ Ways \in Nat
      BY Sizes DEF WayIds, Nil
    <3> QED BY <3>1, <3>2, RankFacts
  <2>4. a \in WayIds /\ rank[p] = rank[a] + 1 /\ rank[p] > 0
    BY <1>1, <1>3, <2>2, <2>3
  <2>5. \/ b \in WayIds /\ rank[b] = rank[p] + 1
        \/ b = Nil /\ rank[p] = Ways - 1
    BY <2>2, <2>3
  <2>6. a # p /\ b # p /\ b # h
    BY <1>1, <2>3, <2>4, <2>5
  <2> HIDE DEF a, b, h
  <2>7. \A w \in WayIds : prevOf(w) = IF w = p THEN Nil ELSE IF w = h THEN p
                                      ELSE IF w = b THEN a ELSE s[w].prev
    BY <1>3, <2>6
  <2>8. \A w \in WayIds : nextOf(w) = IF w = p THEN h ELSE IF w = a THEN b ELSE s[w].next
    BY <2>6
  <2> HIDE DEF prevOf, nextOf
  <2>9. \A w \in WayIds : prevOf(w) \in WayIds \cup {Nil} /\ nextOf(w) \in WayIds \cup {Nil}
    BY <1>1, <2>3, <2>4, <2>5, <2>7, <2>8
  <2>10. \A w \in WayIds : /\ m[w] \in BtbEntry
                           /\ m[w].prev = prevOf(w) /\ m[w].next = nextOf(w)
                           /\ m[w].addr = s[w].addr /\ m[w].target = s[w].target
    <3> SUFFICES ASSUME NEW w \in WayIds
                 PROVE  /\ m[w] \in BtbEntry
                        /\ m[w].prev = prevOf(w) /\ m[w].next = nextOf(w)
                        /\ m[w].addr = s[w].addr /\ m[w].target = s[w].target
      OBVIOUS
    <3>1. m[w] = [s[w] EXCEPT !.prev = prevOf(w), !.next = nextOf(w)]
      OBVIOUS
    <3>2. s[w] \in BtbEntry /\ prevOf(w) \in WayIds \cup {Nil} /\ nextOf(w) \in WayIds \cup {Nil}
      BY <2>2, <2>9
    <3> HIDE DEF m
    <3> QED BY <3>1, <3>2 DEF BtbEntry
  <2>11. m \in BtbSet
    BY <2>10 DEF BtbSet
  <2>12. \A w \in WayIds : new[w] = IF w = p THEN 0 ELSE IF rank[w] < rank[p] THEN rank[w] + 1 ELSE rank[w]
    BY DEF Fronted
  <2>13. new \in Bijection(WayIds, WayIds)
    BY FrontedRanks
  <2> HIDE DEF m, new
  <2>14. ASSUME NEW v \in WayIds, NEW w \in WayIds
         PROVE  (nextOf(v) = w) <=> (new[w] = new[v] + 1)
    <3>1. CASE v = p
      BY <1>1, <2>3, <2>4, <2>8, <2>12, <3>1
    <3>2. CASE v = a
      BY <1>1, <2>3, <2>4, <2>5, <2>6, <2>8, <2>12, <3>2
    <3>3. CASE v # p /\ v # a
      BY <1>1, <2>2, <2>3, <2>4, <2>8, <2>12, <3>3
    <3> QED BY <3>1, <3>2, <3>3
  <2>15. ASSUME NEW v \in WayIds, NEW w \in WayIds
         PROVE  (prevOf(w) = v) <=> (new[w] = new[v] + 1)
    <3>1. CASE w = p
      BY <1>1, <2>3, <2>4, <2>7, <2>12, <3>1
    <3>2. CASE w = h
      BY <1>1, <1>3, <2>3, <2>4, <2>5, <2>6, <2>7, <2>12, <3>2
    <3>3. CASE w = b
      BY <1>1, <2>3, <2>4, <2>5, <2>6, <2>7, <2>12, <3>3
    <3>4. CASE w # p /\ w # h /\ w # b
      BY <1>1, <2>2, <2>3, <2>4, <2>5, <2>7, <2>12, <3>4
    <3> QED BY <3>1, <3>2, <3>3, <3>4
  <2>16. \A w \in WayIds : (prevOf(w) = Nil) <=> (new[w] = 0)
    BY <1>1, <1>3, <2>2, <2>3, <2>4, <2>5, <2>7, <2>12
  <2>17. \A w \in WayIds : (nextOf(w) = Nil) <=> (new[w] = Ways - 1)
    BY <1>1, <1>3, <2>2, <2>3, <2>4, <2>5, <2>8, <2>12
  <2>18. ChainOf(m, new)
    BY <2>10, <2>13, <2>14, <2>15, <2>16, <2>17 DEF ChainOf
  <2> QED BY <2>1, <2>10, <2>11, <2>18 DEF new
<1> QED BY <1>2, <1>3

\* The way an update writes: the address's own, or the last in the chain.
LEMMA VictimFound ==
    ASSUME NEW a \in Nat \ {0}, BpredInv
    PROVE  /\ Victim(a) \in WayIds
           /\ \A w \in WayIds : btb[SetOf(a)][w].addr = a => w = Victim(a)
<1>1. SetOf(a) \in Bits(SetBits) /\ btb[SetOf(a)] \in BtbSet
  BY IndexTyped DEF BpredInv, BpredTypeOK, SetOf, BtbSet
<1>2. LruItem(btb[SetOf(a)]) \in WayIds
  BY <1>1, ChainEnds DEF BpredInv, LruChainOK
<1>3. CASE Matches(a) # {}
  <2>1. Matches(a) = {FirstMatch(a)} /\ FirstMatch(a) \in WayIds
    BY <1>3, OneMatch DEF BpredInv
  <2> QED BY <1>3, <2>1 DEF Victim, Matches
<1>4. CASE Matches(a) = {}
  BY <1>2, <1>4 DEF Victim, Matches
<1> QED BY <1>3, <1>4

\* One update of a set moves the victim to the front of its chain, and gives it the address.
LEMMA UpdatedSetIs ==
    ASSUME NEW a \in Nat \ {0}, NEW target \in Nat, NEW correct \in BOOLEAN, BpredInv,
           NEW rank \in Bijection(WayIds, WayIds), ChainOf(btb[SetOf(a)], rank)
    PROVE  LET s == UpdatedSet(a, target, correct)
           IN /\ s \in BtbSet
              /\ ChainOf(s, Fronted(rank, Victim(a)))
              /\ \A w \in WayIds : s[w].addr = IF w = Victim(a) THEN a ELSE btb[SetOf(a)][w].addr
              /\ \A w \in WayIds \ {Victim(a)} : s[w].target = btb[SetOf(a)][w].target
<1> DEFINE old == btb[SetOf(a)]
           p == Victim(a)
           m == MoveToHead(old, p)
           s == UpdatedSet(a, target, correct)
<1>1. SetOf(a) \in Bits(SetBits) /\ old \in BtbSet /\ p \in WayIds
  BY VictimFound, IndexTyped DEF BpredInv, BpredTypeOK, SetOf, BtbSet
<1>2. ChainOf(old, rank)
  OBVIOUS
<1>3. /\ m \in BtbSet
      /\ ChainOf(m, Fronted(rank, p))
      /\ \A w \in WayIds : m[w].addr = old[w].addr /\ m[w].target = old[w].target
  BY <1>1, <1>2, MoveKeepsChain
<1>5. s = IF m[p].addr # a THEN [m EXCEPT ![p].addr = a, ![p].target = target]
          ELSE IF correct THEN m ELSE [m EXCEPT ![p].target = target]
  BY DEF UpdatedSet
<1> HIDE DEF old, p, m, s
<1>6. /\ s \in BtbSet
      /\ \A w \in WayIds : /\ s[w].prev = m[w].prev /\ s[w].next = m[w].next
                           /\ s[w].addr = IF w = p THEN a ELSE m[w].addr
                           /\ w # p => s[w].target = m[w].target
  <2>1. \A w \in WayIds : m[w] \in BtbEntry
    BY <1>3 DEF BtbSet
  <2>2. CASE m[p].addr # a
    <3>1. s = [m EXCEPT ![p] = [@ EXCEPT !.addr = a, !.target = target]]
      BY <1>1, <1>3, <1>5, <2>2 DEF BtbSet
    <3>2. [m[p] EXCEPT !.addr = a, !.target = target] \in BtbEntry
      BY <1>1, <2>1 DEF BtbEntry
    <3> QED BY <1>1, <1>3, <2>1, <3>1, <3>2 DEF BtbSet, BtbEntry
  <2>3. CASE m[p].addr = a /\ correct
    BY <1>3, <1>5, <2>3
  <2>4. CASE m[p].addr = a /\ ~correct
    <3>1. s = [m EXCEPT ![p] = [@ EXCEPT !.target = target]]
      BY <1>5, <2>4
    <3>2. [m[p] EXCEPT !.target = target] \in BtbEntry
      BY <1>1, <2>1 DEF BtbEntry
    <3> QED BY <1>1, <1>3, <2>1, <2>4, <3>1, <3>2 DEF BtbSet, BtbEntry
  <2> QED BY <2>2, <2>3, <2>4
<1>7. ChainOf(s, Fronted(rank, p))
  BY <1>3, <1>6 DEF ChainOf
<1> QED BY <1>3, <1>6, <1>7 DEF s, p, old

\* One update of a set keeps it typed, its chain whole and its entries distinct.
LEMMA UpdateKeepsSet ==
    ASSUME NEW a \in Nat \ {0}, NEW target \in Nat, NEW correct \in BOOLEAN, BpredInv
    PROVE  LET s == UpdatedSet(a, target, correct)
           IN /\ s \in BtbSet
              /\ \E rank \in Bijection(WayIds, WayIds) : ChainOf(s, rank)
              /\ \A v, w \in WayIds : v # w /\ s[v].addr = s[w].addr => s[v].addr = 0
<1> DEFINE old == btb[SetOf(a)]
           p == Victim(a)
           s == UpdatedSet(a, target, correct)
<1>1. SetOf(a) \in Bits(SetBits) /\ old \in BtbSet /\ p \in WayIds
  BY VictimFound, IndexTyped DEF BpredInv, BpredTypeOK, SetOf, BtbSet
<1>2. PICK rank \in Bijection(WayIds, WayIds) : ChainOf(old, rank)
  BY <1>1 DEF BpredInv, LruChainOK
<1>3. /\ s \in BtbSet
      /\ ChainOf(s, Fronted(rank, p))
      /\ \A w \in WayIds : s[w].addr = IF w = p THEN a ELSE old[w].addr
  BY <1>2, UpdatedSetIs
<1>4. /\ \A v, w \in WayIds : v # w /\ old[v].addr = old[w].addr => old[v].addr = 0
      /\ \A w \in WayIds : old[w].addr = a => w = p
  BY <1>1, VictimFound DEF BpredInv, BtbNoDuplicate
<1> HIDE DEF old, p, s
<1>5. Fronted(rank, p) \in Bijection(WayIds, WayIds)
  BY <1>1, FrontedRanks
<1>6. \A v, w \in WayIds : v # w /\ s[v].addr = s[w].addr => s[v].addr = 0
  BY <1>1, <1>3, <1>4
<1> QED BY <1>3, <1>5, <1>6 DEF s

\* The predictor's invariant holds at reset and survives each of its handlers' table changes.
LEMMA InitInv == BpredInit => BpredInv
<1> SUFFICES ASSUME BpredInit PROVE BpredInv
  OBVIOUS
<1> DEFINE weakly(n) == [i \in Bits(n) |-> IF n > 0 /\ i[0] = 1 THEN 2 ELSE 1]
           fresh == [w \in WayIds |-> [addr |-> 0, target |-> 0, prev |-> w - 1,
                                       next |-> IF w = Ways - 1 THEN Nil ELSE w + 1]]
           ident == [w \in WayIds |-> w]
<1>1. ctr \in CtrType
  <2>1. \A n : weakly(n) \in [Bits(n) -> Counters]
    BY DEF Counters
  <2>2. ctr = [bimod |-> weakly(BimodBits), twolev |-> weakly(L2Bits), meta |-> weakly(MetaBits)]
    BY DEF BpredInit
  <2> HIDE DEF weakly
  <2> QED BY <2>1, <2>2 DEF CtrType
<1>2. shiftregs \in [Bits(L1Bits) -> Bits(HistBits)]
  BY DEF BpredInit, Bits
<1>3. btb = [s \in Bits(SetBits) |-> fresh]
  BY DEF BpredInit
<1>4. \A w \in WayIds : w \in Nat /\ w <= Ways - 1 /\ (w - 1 \in WayIds \cup {Nil})
                        /\ (w = Ways - 1 \/ w + 1 \in WayIds)
  BY Sizes DEF WayIds, Nil
<1>5. fresh \in BtbSet
  BY <1>4 DEF BtbSet, BtbEntry
<1>6. ident \in Bijection(WayIds, WayIds)
  BY DEF Bijection, Injection, Surjection, IsInjective
<1>7. ChainOf(fresh, ident)
  <2>1. \A w \in WayIds : /\ ident[w] = w /\ fresh[w].prev = w - 1
                          /\ fresh[w].next = IF w = Ways - 1 THEN Nil ELSE w + 1
    OBVIOUS
  <2>2. \A w \in WayIds : w \in 0..Ways - 1
    BY DEF WayIds
  <2> HIDE DEF fresh, ident
  <2>3. ASSUME NEW v \in WayIds, NEW w \in WayIds
        PROVE  /\ (fresh[v].next = w) <=> (ident[w] = ident[v] + 1)
               /\ (fresh[w].prev = v) <=> (ident[w] = ident[v] + 1)
    BY <2>1, <2>2, Sizes DEF Nil
  <2>4. ASSUME NEW w \in WayIds
        PROVE  /\ (fresh[w].prev = Nil) <=> (ident[w] = 0)
               /\ (fresh[w].next = Nil) <=> (ident[w] = Ways - 1)
    BY <2>1, <2>2, Sizes DEF Nil
  <2> QED BY <1>6, <2>3, <2>4 DEF ChainOf
<1>8. \A w \in WayIds : fresh[w].addr = 0
  OBVIOUS
<1> HIDE DEF fresh, ident
<1>9. btb \in [Bits(SetBits) -> BtbSet] /\ LruChainOK
  BY <1>3, <1>5, <1>6, <1>7 DEF LruChainOK
<1>10. BtbNoDuplicate
  BY <1>3, <1>8 DEF BtbNoDuplicate
<1>11. ras \in [RasIds -> Nat] /\ tos \in Int /\ (Stateful /\ RasSize > 0 => tos \in RasIds)
  BY Sizes DEF BpredInit, RasIds
<1>12. stats \in [StatNames -> Nat]
  BY DEF BpredInit
<1> QED BY <1>1, <1>2, <1>9, <1>10, <1>11, <1>12 DEF BpredInv, BpredTypeOK, BtbSet

LEMMA TrainInv ==
    ASSUME NEW b \in Branches, NEW btarget \in Nat, NEW taken \in BOOLEAN,
           NEW correct \in BOOLEAN, NEW upd, BpredInv, Train(b, btarget, taken, correct, upd)
    PROVE  /\ ctr' \in CtrType
           /\ shiftregs' \in [Bits(L1Bits) -> Bits(HistBits)]
           /\ btb' \in [Bits(SetBits) -> BtbSet]
           /\ LruChainOK' /\ BtbNoDuplicate'
<1> DEFINE S == SetOf(b.pc)
           new == UpdatedSet(b.pc, btarget, correct)
<1>1. /\ ctr' \in CtrType
      /\ shiftregs' \in [Bits(L1Bits) -> Bits(HistBits)]
  BY TablesTyped DEF Train, BpredInv, BpredTypeOK
<1>2. b.pc \in Nat \ {0} /\ S \in Bits(SetBits)
  BY BranchFields, IndexTyped DEF BpredInv, SetOf
<1>3. /\ new \in BtbSet
      /\ \E rank \in Bijection(WayIds, WayIds) : ChainOf(new, rank)
      /\ \A v, w \in WayIds : v # w /\ new[v].addr = new[w].addr => new[v].addr = 0
  BY <1>2, UpdateKeepsSet
<1>4. btb' = btb \/ btb' = [btb EXCEPT ![S] = new]
  BY DEF Train
<1> HIDE DEF new, S
<1>5. btb \in [Bits(SetBits) -> BtbSet] /\ LruChainOK /\ BtbNoDuplicate
  BY DEF BpredInv, BpredTypeOK, BtbSet
<1>6. /\ btb' \in [Bits(SetBits) -> BtbSet]
      /\ \A s \in Bits(SetBits) : btb'[s] = btb[s] \/ btb'[s] = new
  BY <1>2, <1>3, <1>4, <1>5
<1>7. LruChainOK'
  BY <1>3, <1>5, <1>6 DEF LruChainOK
<1>8. BtbNoDuplicate'
  BY <1>3, <1>5, <1>6 DEF BtbNoDuplicate
<1> QED BY <1>1, <1>6, <1>7, <1>8

-----------------------------------------------------------------------------
(* Under sim-bpred.                                                        *)

SimInv == SimTypeOK /\ LruChainOK /\ BtbNoDuplicate

LEMMA OutcomeTyped ==
    ASSUME NEW b \in Branches, NEW next \in Outcomes(b), SimTypeOK
    PROVE  next \in Nat /\ (IsReturn(b) => frames # << >>)
<1>1. b.targets \subseteq Nat /\ b.pc + InstSize \in Nat
  BY BranchFields, Sizes
<1>2. CASE IsReturn(b)
  <2>1. frames # << >> /\ next = Last(frames)
    BY <1>2 DEF Outcomes, IsReturn
  <2>2. frames[Len(frames)] \in Nat
    BY <2>1, EmptySeq, ElementOfSeq DEF SimTypeOK
  <2> QED BY <2>1, <2>2 DEF Last
<1>3. CASE ~IsReturn(b)
  <2>1. next \in b.targets \cup {b.pc + InstSize}
    BY <1>3 DEF Outcomes, IsReturn
  <2> QED BY <1>1, <1>3, <2>1
<1> QED BY <1>2, <1>3

LEMMA FrontOfFrames ==
    ASSUME NEW s \in Seq(Nat), Len(s) \in Nat \ {0}
    PROVE  /\ Front(s) \in Seq(Nat) /\ Len(Front(s)) = Len(s) - 1
           /\ \A i \in 1..Len(s) - 1 : Front(s)[i] = s[i]
<1> DEFINE n == Len(s) - 1
<1>1. n \in Nat /\ \A i \in 1..n : s[i] \in Nat
  BY ElementOfSeq
<1> HIDE DEF n
<1>2. /\ SubSeq(s, 1, n) \in Seq(Nat)
      /\ Len(SubSeq(s, 1, n)) = IF 1 <= n THEN n - 1 + 1 ELSE 0
      /\ \A i \in 1..n - 1 + 1 : SubSeq(s, 1, n)[i] = s[1 + i - 1]
  BY <1>1, SubSeqProperties
<1>3. Len(SubSeq(s, 1, n)) = n /\ \A i \in 1..n : SubSeq(s, 1, n)[i] = s[i]
  BY <1>1, <1>2
<1> QED BY <1>2, <1>3 DEF Front, n

\* The call stack of the program: what a call and a return do to frames.
LEMMA ProgramTyped ==
    ASSUME NEW b \in Branches, NEW next \in Outcomes(b), SimTypeOK, Program(b, next)
    PROVE  /\ frames' \in Seq(Nat) /\ Len(frames') <= MaxDepth
           /\ intact' \in 0..RasSize
           /\ streak' \in [pc : Nat, taken : BOOLEAN, len : 0..StreakMax]
<1>1. b.pc \in Nat /\ b.pc + InstSize \in Nat
  BY BranchFields, Sizes
<1>2. frames' \in Seq(Nat) /\ Len(frames') <= MaxDepth
  <2>1. CASE IsCall(b)
    BY <1>1, <2>1, AppendProperties, LenProperties, DepthAssumption DEF Program, SimTypeOK
  <2>2. CASE ~IsCall(b) /\ IsReturn(b)
    <3>1. Len(frames) \in Nat \ {0}
      BY <2>2, OutcomeTyped, EmptySeq DEF SimTypeOK
    <3>2. /\ Front(frames) \in Seq(Nat) /\ Len(Front(frames)) = Len(frames) - 1
          /\ \A i \in 1..Len(frames) - 1 : Front(frames)[i] = frames[i]
      BY <3>1, FrontOfFrames DEF SimTypeOK
    <3> QED BY <2>2, <3>1, <3>2, DepthAssumption DEF Program, SimTypeOK
  <2>3. CASE ~IsCall(b) /\ ~IsReturn(b)
    BY <2>3 DEF Program, SimTypeOK
  <2> QED BY <2>1, <2>2, <2>3
<1>3. intact' \in 0..RasSize
  BY Sizes DEF Program, SimTypeOK
<1>4. streak' \in [pc : Nat, taken : BOOLEAN, len : 0..StreakMax]
  <2>1. StreakMax \in Nat /\ StreakMax > 1 /\ streak.len \in 0..StreakMax
    BY Sizes DEF StreakMax, SimTypeOK
  <2> QED BY <1>1, <2>1 DEF Program
<1> QED BY <1>2, <1>3, <1>4

LEMMA StepInv ==
    ASSUME NEW b \in Branches, NEW next \in Outcomes(b), SimInv, ControlInst(b, next)
    PROVE  SimInv'
<1> DEFINE upd == DirUpdate(b)
           correct == PredictedPC(b, next, upd) = next
           taken == next # b.pc + InstSize
<1>1. BpredInv /\ SimTypeOK
  BY DEF SimInv, SimTypeOK, BpredInv
<1>2. next \in Nat
  BY <1>1, OutcomeTyped
<1>3. /\ Program(b, next) /\ PopPush(b) /\ Train(b, next, taken, correct, upd)
      /\ \E names : Count(names)
  BY DEF ControlInst
<1>4. /\ ctr' \in CtrType
      /\ shiftregs' \in [Bits(L1Bits) -> Bits(HistBits)]
      /\ btb' \in [Bits(SetBits) -> BtbSet]
      /\ LruChainOK' /\ BtbNoDuplicate'
  <2>1. taken \in BOOLEAN /\ correct \in BOOLEAN
    OBVIOUS
  <2> HIDE DEF taken, correct, upd
  <2> QED BY <1>1, <1>2, <1>3, <2>1, TrainInv
<1>5. /\ ras' \in [RasIds -> Nat] /\ tos' \in Int
      /\ Stateful /\ RasSize > 0 => tos' \in RasIds
  BY <1>1, <1>3, PopPushTyped DEF BpredInv
<1>6. stats' \in [StatNames -> Nat]
  BY <1>1, <1>3, CountTyped DEF BpredInv
<1>7. /\ frames' \in Seq(Nat) /\ Len(frames') <= MaxDepth
      /\ intact' \in 0..RasSize
      /\ streak' \in [pc : Nat, taken : BOOLEAN, len : 0..StreakMax]
  BY <1>1, <1>3, ProgramTyped
<1> QED BY <1>4, <1>5, <1>6, <1>7 DEF SimInv, SimTypeOK, BpredTypeOK, BtbSet

\* Every table keeps its type, every BTB set one LRU chain, and no branch has two entries.
THEOREM SimInvariant == SimSpec => []SimInv
<1>1. SimInit => SimInv
  <2> SUFFICES ASSUME SimInit PROVE SimInv
    OBVIOUS
  <2>1. BpredInv
    BY InitInv DEF SimInit
  <2>2. frames \in Seq(Nat) /\ Len(frames) <= MaxDepth /\ intact \in 0..RasSize
    BY EmptySeq, DepthAssumption, Sizes DEF SimInit
  <2>3. streak \in [pc : Nat, taken : BOOLEAN, len : 0..StreakMax]
    BY Sizes DEF SimInit, NoBranch, StreakMax
  <2> QED BY <2>1, <2>2, <2>3 DEF SimInv, SimTypeOK, BpredInv
<1>2. SimInv /\ [SimNext]_simVars => SimInv'
  <2> SUFFICES ASSUME SimInv, [SimNext]_simVars PROVE SimInv'
    OBVIOUS
  <2>1. CASE SimNext
    BY <2>1, StepInv DEF SimNext
  <2>2. CASE UNCHANGED simVars
    BY <2>2 DEF simVars, bpredVars, programVars, SimInv, SimTypeOK, BpredTypeOK, LruChainOK,
                ChainOf, BtbNoDuplicate
  <2> QED BY <2>1, <2>2
<1> QED BY <1>1, <1>2, PTL DEF SimSpec

\* The predictor's tables, the program's stack and the histories keep their types.
THEOREM SimTyping == SimSpec => []SimTypeOK
BY SimInvariant, PTL DEF SimInv

\* No branch ever has two BTB entries, and the LRU links of every set stay one chain of all its
\* ways.
THEOREM SimWellFormed == SimSpec => []BtbWellFormed
BY SimInvariant, PTL DEF SimInv, BtbWellFormed

-----------------------------------------------------------------------------
(* The return-address stack.                                               *)

\* The stack index k below top t.
Back(t, k) == (t + RasSize - k) % RasSize

LEMMA BackIs ==
    ASSUME NEW t \in RasIds, NEW k \in RasIds
    PROVE  Back(t, k) = (IF t >= k THEN t - k ELSE t + RasSize - k) /\ Back(t, k) \in RasIds
<1> DEFINE a == t + RasSize - k
<1>1. RasSize \in Nat \ {0} /\ t \in Nat /\ k \in Nat /\ t < RasSize /\ k < RasSize
  BY Sizes DEF RasIds
<1>2. a \in Nat /\ a < RasSize + RasSize /\ (a >= RasSize <=> t >= k)
  BY <1>1
<1> HIDE DEF a
<1>3. /\ a < RasSize => a % RasSize = a
      /\ a >= RasSize => a % RasSize = a - RasSize
      /\ a % RasSize \in 0..RasSize - 1
  BY <1>1, <1>2, WrapOnce
<1>4. Back(t, k) = a % RasSize
  BY DEF Back, a
<1>5. a % RasSize = IF t >= k THEN a - RasSize ELSE a
  BY <1>1, <1>2, <1>3
<1>6. a - RasSize = t - k
  BY <1>1 DEF a
<1> QED BY <1>3, <1>4, <1>5, <1>6 DEF RasIds, a

\* Moving the top up by a push or down by a pop shifts the distances by one.
LEMMA TopMoves ==
    ASSUME NEW t \in RasIds
    PROVE  LET up == (t + 1) % RasSize
               down == (t + RasSize - 1) % RasSize
           IN /\ up \in RasIds /\ down \in RasIds
              /\ Back(up, 0) = up
              /\ \A k \in RasIds : k > 0 => Back(up, k) = Back(t, k - 1) /\ Back(up, k) # up
              /\ \A k \in RasIds : k + 1 \in RasIds => Back(down, k) = Back(t, k + 1)
<1> DEFINE up == (t + 1) % RasSize
           down == (t + RasSize - 1) % RasSize
<1>1. RasSize \in Nat \ {0} /\ t \in Nat /\ t < RasSize
  BY Sizes DEF RasIds
<1>2. /\ up = IF t + 1 < RasSize THEN t + 1 ELSE 0
      /\ down = IF t > 0 THEN t - 1 ELSE RasSize - 1
      /\ up \in RasIds /\ down \in RasIds
  <2>1. up = (IF t + 1 < RasSize THEN t + 1 ELSE 0) /\ up \in RasIds
    <3> DEFINE a == t + 1
    <3>1. a \in Nat /\ a < RasSize + RasSize /\ a = t + 1
      BY <1>1
    <3>2. up = a % RasSize
      OBVIOUS
    <3> HIDE DEF a, up
    <3>3. /\ a < RasSize => a % RasSize = a
          /\ a >= RasSize => a % RasSize = a - RasSize
          /\ a % RasSize \in 0..RasSize - 1
      BY <1>1, <3>1, WrapOnce
    <3> QED BY <1>1, <3>1, <3>2, <3>3 DEF RasIds
  <2>2. down = (IF t > 0 THEN t - 1 ELSE RasSize - 1) /\ down \in RasIds
    <3> DEFINE a == t + RasSize - 1
    <3>1. a \in Nat /\ a < RasSize + RasSize /\ a = t + RasSize - 1
      BY <1>1
    <3>2. down = a % RasSize
      OBVIOUS
    <3> HIDE DEF a, down
    <3>3. /\ a < RasSize => a % RasSize = a
          /\ a >= RasSize => a % RasSize = a - RasSize
          /\ a % RasSize \in 0..RasSize - 1
      BY <1>1, <3>1, WrapOnce
    <3> QED BY <1>1, <3>1, <3>2, <3>3 DEF RasIds
  <2> QED BY <2>1, <2>2
<1> HIDE DEF up, down
<1>3. Back(up, 0) = up
  <2>1. 0 \in RasIds /\ up \in Nat
    BY <1>1, <1>2 DEF RasIds
  <2>2. Back(up, 0) = IF up >= 0 THEN up - 0 ELSE up + RasSize - 0
    BY <1>2, <2>1, BackIs
  <2> QED BY <2>1, <2>2
<1>4. ASSUME NEW k \in RasIds, k > 0 PROVE Back(up, k) = Back(t, k - 1) /\ Back(up, k) # up
  <2>1. k \in Nat /\ k < RasSize /\ k - 1 \in RasIds
    BY <1>1, <1>4 DEF RasIds
  <2>2. /\ Back(up, k) = IF up >= k THEN up - k ELSE up + RasSize - k
        /\ Back(t, k - 1) = IF t >= k - 1 THEN t - (k - 1) ELSE t + RasSize - (k - 1)
    BY <1>2, <2>1, BackIs
  <2> QED BY <1>1, <1>2, <1>4, <2>1, <2>2
<1>5. ASSUME NEW k \in RasIds, k + 1 \in RasIds PROVE Back(down, k) = Back(t, k + 1)
  <2>1. k \in Nat /\ k + 1 < RasSize
    BY <1>1, <1>5 DEF RasIds
  <2>2. /\ Back(down, k) = IF down >= k THEN down - k ELSE down + RasSize - k
        /\ Back(t, k + 1) = IF t >= k + 1 THEN t - (k + 1) ELSE t + RasSize - (k + 1)
    BY <1>2, <1>5, BackIs
  <2> QED BY <1>1, <1>2, <2>1, <2>2
<1> QED BY <1>2, <1>3, <1>4, <1>5 DEF up, down

\* However deep the calls go and however often the stack wraps, the entries counted as intact
\* are the return addresses of the innermost calls.
THEOREM SimRas == SimSpec => []RasHoldsFrames
<1>1. SimInit => RasHoldsFrames
  BY EmptySeq DEF SimInit, RasHoldsFrames
<1>2. SimInv /\ RasHoldsFrames /\ [SimNext]_simVars => RasHoldsFrames'
  <2> SUFFICES ASSUME SimInv, RasHoldsFrames, Stateful, [SimNext]_simVars
               PROVE  /\ intact' <= Len(frames')
                      /\ \A k \in 0..intact' - 1 :
                           ras'[(tos' + RasSize - k) % RasSize] = frames'[Len(frames') - k]
    BY DEF RasHoldsFrames, Stateful
  <2>0. /\ frames \in Seq(Nat) /\ Len(frames) \in Nat
        /\ intact \in 0..RasSize /\ intact <= Len(frames) /\ RasSize \in Nat
        /\ ras \in [RasIds -> Nat]
        /\ RasSize > 0 => tos \in RasIds
        /\ \A k \in 0..intact - 1 : ras[Back(tos, k)] = frames[Len(frames) - k]
    BY LenProperties, Sizes DEF SimInv, SimTypeOK, BpredTypeOK, RasHoldsFrames, Back
  <2>1. CASE UNCHANGED simVars
    BY <2>1 DEF simVars, bpredVars, programVars, RasHoldsFrames
  <2>2. ASSUME NEW b \in Branches, NEW next \in Outcomes(b), ControlInst(b, next)
        PROVE  /\ intact' <= Len(frames')
               /\ \A k \in 0..intact' - 1 :
                    ras'[(tos' + RasSize - k) % RasSize] = frames'[Len(frames') - k]
    <3>0. Program(b, next) /\ PopPush(b) /\ (IsReturn(b) => frames # << >>)
      BY <2>2, OutcomeTyped DEF ControlInst, SimInv
    <3> DEFINE ret == b.pc + InstSize
    <3>1. ret \in Nat
      BY BranchFields, Sizes
    <3>2. CASE IsCall(b) /\ RasSize > 0
      <4> DEFINE up == (tos + 1) % RasSize
      <4>1. /\ ~IsReturn(b)
            /\ tos' = up /\ ras' = [ras EXCEPT ![up] = ret]
            /\ frames' = Append(frames, ret)
            /\ intact' = IF intact < RasSize THEN intact + 1 ELSE RasSize
        BY <3>0, <3>2 DEF Program, PopPush, Pops, Pushes, IsCall, IsReturn
      <4>2. /\ tos \in RasIds /\ up \in RasIds /\ Back(up, 0) = up
            /\ \A k \in RasIds : k > 0 => Back(up, k) = Back(tos, k - 1) /\ Back(up, k) # up
        BY <2>0, <3>2, TopMoves
      <4>3. /\ Len(frames') = Len(frames) + 1 /\ frames'[Len(frames) + 1] = ret
            /\ \A i \in 1..Len(frames) : frames'[i] = frames[i]
        BY <2>0, <3>1, <4>1, AppendProperties
      <4> HIDE DEF up, ret
      <4>4. ASSUME NEW k \in 0..intact' - 1 PROVE ras'[Back(tos', k)] = frames'[Len(frames') - k]
        <5>1. k \in RasIds /\ k \in Nat /\ k <= intact
          BY <2>0, <4>1 DEF RasIds
        <5>2. CASE k = 0
          BY <2>0, <4>1, <4>2, <4>3, <5>2
        <5>3. CASE k > 0
          <6>1. Back(tos', k) = Back(tos, k - 1) /\ Back(tos', k) # up
            BY <4>1, <4>2, <5>1, <5>3
          <6>2. k - 1 \in 0..intact - 1 /\ k - 1 \in RasIds
            BY <2>0, <5>1, <5>3 DEF RasIds
          <6>3. ras'[Back(tos', k)] = ras[Back(tos, k - 1)]
            BY <2>0, <4>1, <4>2, <6>1, <6>2, BackIs
          <6>4. frames'[Len(frames') - k] = frames[Len(frames) - (k - 1)]
            <7>1. /\ Len(frames') - k = Len(frames) - (k - 1)
                  /\ Len(frames) - (k - 1) \in 1..Len(frames)
              BY <2>0, <4>3, <5>1, <5>3
            <7> QED BY <4>3, <7>1
          <6> QED BY <2>0, <6>2, <6>3, <6>4
        <5> QED BY <5>1, <5>2, <5>3
      <4>5. intact' <= Len(frames')
        BY <2>0, <4>1, <4>3
      <4> QED BY <4>4, <4>5 DEF Back
    <3>3. CASE IsReturn(b) /\ RasSize > 0
      <4> DEFINE down == (tos + RasSize - 1) % RasSize
      <4>1. /\ tos' = down /\ ras' = ras /\ frames' = Front(frames)
            /\ intact' = IF intact > 0 THEN intact - 1 ELSE intact
        BY <3>0, <3>3 DEF Program, PopPush, Pops, Pushes, IsCall, IsReturn
      <4>2. /\ tos \in RasIds
            /\ \A k \in RasIds : k + 1 \in RasIds => Back(down, k) = Back(tos, k + 1)
        BY <2>0, <3>3, TopMoves
      <4>3. /\ Len(frames) > 0 /\ Len(frames') = Len(frames) - 1
            /\ \A i \in 1..Len(frames) - 1 : frames'[i] = frames[i]
        <5>1. Len(frames) \in Nat \ {0}
          BY <2>0, <3>0, <3>3, EmptySeq
        <5>2. frames \in Seq(Nat) /\ frames' = Front(frames)
          BY <2>0, <4>1
        <5> QED BY <5>1, <5>2, FrontOfFrames
      <4> HIDE DEF down
      <4>4. ASSUME NEW k \in 0..intact' - 1 PROVE ras'[Back(tos', k)] = frames'[Len(frames') - k]
        <5>1. k \in RasIds /\ k + 1 \in RasIds /\ k \in Nat /\ k + 1 \in 0..intact - 1
          BY <2>0, <4>1 DEF RasIds
        <5>2. ras'[Back(tos', k)] = ras[Back(tos, k + 1)]
          BY <4>1, <4>2, <5>1
        <5>3. frames'[Len(frames') - k] = frames[Len(frames) - (k + 1)]
          <6>1. /\ Len(frames') - k = Len(frames) - (k + 1)
                /\ Len(frames) - (k + 1) \in 1..Len(frames) - 1
            BY <2>0, <4>3, <5>1
          <6> QED BY <4>3, <6>1
        <5> QED BY <2>0, <5>1, <5>2, <5>3
      <4>5. intact' <= Len(frames')
        BY <2>0, <4>1, <4>3
      <4> QED BY <4>4, <4>5 DEF Back
    <3>4. CASE ~IsCall(b) /\ ~IsReturn(b)
      BY <3>0, <3>4 DEF Program, PopPush, Pops, Pushes, RasHoldsFrames
    <3>5. CASE RasSize = 0
      <4>1. intact' = 0
        BY <2>0, <3>0, <3>5 DEF Program
      <4>2. Len(frames') \in Nat
        BY <3>0, ProgramTyped, LenProperties DEF SimInv
      <4> QED BY <4>1, <4>2
    <3> QED BY <2>0, <3>2, <3>3, <3>4, <3>5
  <2> QED BY <2>1, <2>2 DEF SimNext
<1> QED BY <1>1, <1>2, SimInvariant, PTL DEF SimSpec

-----------------------------------------------------------------------------
(* The targets the BTB remembers.                                          *)

\* After an update that takes a branch to a target, the entry of its address holds that
\* target, unless the prediction called correct was not the entry's.
LEMMA UpdatedSetHolds ==
    ASSUME NEW a \in Nat \ {0}, NEW target \in Nat, NEW correct \in BOOLEAN, BpredInv,
           correct /\ Matches(a) # {} => btb[SetOf(a)][FirstMatch(a)].target = target
    PROVE  \E w \in WayIds : /\ UpdatedSet(a, target, correct)[w].addr = a
                             /\ UpdatedSet(a, target, correct)[w].target = target
<1> DEFINE old == btb[SetOf(a)]
           p == Victim(a)
           m == MoveToHead(old, p)
           s == UpdatedSet(a, target, correct)
<1>1. SetOf(a) \in Bits(SetBits) /\ old \in BtbSet /\ p \in WayIds
  BY VictimFound, IndexTyped DEF BpredInv, BpredTypeOK, SetOf, BtbSet
<1>2. PICK rank0 \in Bijection(WayIds, WayIds) : ChainOf(old, rank0)
  BY <1>1 DEF BpredInv, LruChainOK
<1>3. /\ m \in BtbSet
      /\ \A w \in WayIds : m[w].addr = old[w].addr /\ m[w].target = old[w].target
  BY <1>1, <1>2, MoveKeepsChain
<1>4. s = IF m[p].addr # a THEN [m EXCEPT ![p].addr = a, ![p].target = target]
          ELSE IF correct THEN m ELSE [m EXCEPT ![p].target = target]
  BY DEF UpdatedSet
<1>5. old[p].addr = a /\ correct => old[p].target = target
  <2> SUFFICES ASSUME old[p].addr = a, correct PROVE old[p].target = target
    OBVIOUS
  <2>1. p \in Matches(a)
    BY <1>1 DEF Matches
  <2>2. p = FirstMatch(a)
    BY <2>1 DEF Victim
  <2> QED BY <2>1, <2>2
<1> HIDE DEF old, p, m, s
<1>6. m[p] \in BtbEntry
  BY <1>1, <1>3 DEF BtbSet
<1>7. s[p].addr = a /\ s[p].target = target
  <2>1. CASE m[p].addr # a
    <3>1. s = [m EXCEPT ![p] = [@ EXCEPT !.addr = a, !.target = target]]
      BY <1>1, <1>3, <1>4, <2>1 DEF BtbSet
    <3> QED BY <1>1, <1>3, <1>6, <3>1 DEF BtbSet, BtbEntry
  <2>2. CASE m[p].addr = a /\ correct
    BY <1>1, <1>3, <1>4, <1>5, <2>2
  <2>3. CASE m[p].addr = a /\ ~correct
    <3>1. s = [m EXCEPT ![p] = [@ EXCEPT !.target = target]]
      BY <1>4, <2>3
    <3> QED BY <1>1, <1>3, <1>6, <2>3, <3>1 DEF BtbSet, BtbEntry
  <2> QED BY <2>1, <2>2, <2>3
<1> QED BY <1>1, <1>7 DEF s

\* What a step leaves of the targets remembered before it: only the entry of the branch taken is
\* changed, or the least recently used one when that branch had none.
Spared(s, w) ==
    \/ btb'[s][w].addr = btb[s][w].addr /\ btb'[s][w].target = btb[s][w].target
    \/ streak'.taken /\ btb[s][w].addr = streak'.pc
    \/ /\ streak'.taken /\ s = SetOf(streak'.pc) /\ Matches(streak'.pc) = {}
       /\ w = LruItem(btb[s]) /\ btb'[s][w].addr = streak'.pc

LEMMA StepSpares ==
    ASSUME SimInv, NEW b \in Branches, NEW next \in Outcomes(b), ControlInst(b, next)
    PROVE  \A s \in Bits(SetBits) : \A w \in WayIds : Spared(s, w)
<1> DEFINE upd == DirUpdate(b)
           correct == PredictedPC(b, next, upd) = next
           taken == next # b.pc + InstSize
           S == SetOf(b.pc)
           a == b.pc
           p == Victim(a)
           d == UpdatedSet(a, next, correct)
<1>1. BpredInv /\ SimTypeOK /\ next \in Nat /\ a \in Nat \ {0} /\ correct \in BOOLEAN
  BY OutcomeTyped, BranchFields DEF SimInv, SimTypeOK, BpredInv
<1>2. streak'.pc = a /\ streak'.taken = taken
  BY DEF ControlInst, Program
<1>3. S \in Bits(SetBits) /\ btb \in [Bits(SetBits) -> BtbSet] /\ p \in WayIds
  BY <1>1, IndexTyped, VictimFound DEF SetOf, BpredInv, BpredTypeOK, BtbSet
<1>4. btb' = btb \/ (taken /\ btb' = [btb EXCEPT ![S] = d])
  BY DEF ControlInst, Train
<1>5. PICK rank \in Bijection(WayIds, WayIds) : ChainOf(btb[S], rank)
  BY <1>1, <1>3 DEF BpredInv, LruChainOK
<1> HIDE DEF correct
<1>6. \A w \in WayIds : /\ d[w].addr = IF w = p THEN a ELSE btb[S][w].addr
                        /\ w # p => d[w].target = btb[S][w].target
  BY <1>1, <1>5, UpdatedSetIs
<1>7. \/ Matches(a) # {} /\ btb[S][p].addr = a
      \/ Matches(a) = {} /\ p = LruItem(btb[S])
  <2>1. CASE Matches(a) # {}
    <3>1. p \in Matches(a)
      BY <1>1, <2>1, OneMatch DEF Victim, BpredInv
    <3> QED BY <2>1, <3>1 DEF Matches
  <2>2. CASE Matches(a) = {}
    BY <2>2 DEF Victim
  <2> QED BY <2>1, <2>2
<1> HIDE DEF d, p, S, a, taken
<1> SUFFICES ASSUME NEW s \in Bits(SetBits), NEW w \in WayIds PROVE Spared(s, w)
  OBVIOUS
<1>8. CASE btb' = btb \/ s # S \/ w # p
  <2>1. btb'[s][w].addr = btb[s][w].addr /\ btb'[s][w].target = btb[s][w].target
    BY <1>3, <1>4, <1>6, <1>8
  <2> QED BY <2>1 DEF Spared
<1>9. CASE taken /\ btb' = [btb EXCEPT ![S] = d] /\ s = S /\ w = p
  <2>1. btb'[s][w].addr = a /\ streak'.taken /\ streak'.pc = a /\ S = SetOf(a)
    BY <1>2, <1>3, <1>6, <1>9 DEF S, a
  <2> QED BY <1>7, <1>9, <2>1 DEF Spared
<1> QED BY <1>4, <1>8, <1>9

\* After a branch was taken its next lookup finds the address it went to, whatever its entry held
\* before or when it had none; and other branches change that entry only by taking its place, as
\* the one least recently used.
THEOREM SimRemembersTarget == SimSpec => BtbRemembersTarget
<1>1. ASSUME SimInv, NEW b \in Branches, NEW next \in Outcomes(b), ControlInst(b, next),
             Stateful, next # b.pc + InstSize, ~DirUpdate(b).ras
      PROVE  \E w \in WayIds : /\ btb'[SetOf(b.pc)][w].addr = b.pc
                               /\ btb'[SetOf(b.pc)][w].target = next
  <2> DEFINE upd == DirUpdate(b)
             correct == PredictedPC(b, next, upd) = next
             S == SetOf(b.pc)
  <2>1. BpredInv /\ SimTypeOK /\ next \in Nat /\ b.pc \in Nat \ {0}
    BY <1>1, OutcomeTyped, BranchFields DEF SimInv, SimTypeOK, BpredInv
  <2>2. btb' = [btb EXCEPT ![S] = UpdatedSet(b.pc, next, correct)]
    BY <1>1 DEF ControlInst, Train
  <2>3. correct /\ Matches(b.pc) # {} => btb[S][FirstMatch(b.pc)].target = next
    <3> SUFFICES ASSUME correct, Matches(b.pc) # {}
                 PROVE  btb[S][FirstMatch(b.pc)].target = next
      OBVIOUS
    <3> DEFINE p == Predicted(b, DecodedTarget(b, next), upd)
    <3>1. p = next
      BY <1>1 DEF PredictedPC
    <3>2. p = IF Uncond(b) \/ PredictsTaken(upd.pdir1) THEN btb[S][FirstMatch(b.pc)].target ELSE 0
      <4>1. Class # "taken" /\ Class # "nottaken"
        BY <1>1 DEF Stateful
      <4> HIDE DEF upd
      <4> QED BY <1>1, <4>1 DEF Predicted, upd
    <3>3. CASE Uncond(b) \/ PredictsTaken(upd.pdir1)
      BY <3>1, <3>2, <3>3
    <3>4. CASE ~(Uncond(b) \/ PredictsTaken(upd.pdir1))
      <4>1. p = 0
        BY <3>2, <3>4
      <4>2. PredictedPC(b, next, upd) = b.pc + InstSize
        BY <4>1 DEF PredictedPC
      <4> QED BY <1>1, <4>2
    <3> QED BY <3>3, <3>4
  <2>4. correct \in BOOLEAN /\ S \in Bits(SetBits) /\ btb \in [Bits(SetBits) -> BtbSet]
    BY <2>1, IndexTyped DEF SetOf, BpredInv, BpredTypeOK, BtbSet
  <2>5. \E w \in WayIds : /\ UpdatedSet(b.pc, next, correct)[w].addr = b.pc
                          /\ UpdatedSet(b.pc, next, correct)[w].target = next
    <3> HIDE DEF correct
    <3> QED BY <2>1, <2>3, <2>4, UpdatedSetHolds
  <2>6. btb'[S] = UpdatedSet(b.pc, next, correct)
    BY <2>2, <2>4
  <2> QED BY <2>5, <2>6
<1>2. SimInv /\ [SimNext]_simVars =>
        [/\ \A b \in {c \in Branches : c.pc = streak'.pc} : \A next \in Outcomes(b) :
              ControlInst(b, next) /\ Stateful /\ next # b.pc + InstSize /\ ~DirUpdate(b).ras =>
                 \E w \in WayIds : /\ btb'[SetOf(b.pc)][w].addr = b.pc
                                   /\ btb'[SetOf(b.pc)][w].target = next
         /\ \A s \in Bits(SetBits) : \A w \in WayIds : Spared(s, w)]_simVars
  BY <1>1, StepSpares DEF SimNext
<1> QED BY <1>2, SimInvariant, PTL DEF SimSpec, BtbRemembersTarget, Spared

-----------------------------------------------------------------------------
(* What a branch that keeps its way teaches the tables.                    *)

OutcomeBit(t) == IF t THEN 1 ELSE 0
FullHistory(t) == [k \in 0..HistBits - 1 |-> OutcomeBit(t)]

\* A counter at least d steps from the far end for outcome t.
Leans(c, t, d) == IF t THEN c >= d ELSE c <= 3 - d

TwolevPtr(b) == bpred_dir_lookup("twolev", b.pc)
BimodPtr(b) == bpred_dir_lookup("bimod", b.pc)
BimodAt(b) == ctr.bimod[BIMOD_HASH(b.pc, BimodBits)]
HistoryOf(b) == shiftregs[LowBits(b.pc, L1Bits)]
TwolevAt(b, t) == ctr.twolev[L2Index(FullHistory(t), b.pc)]

\* After n updates running with outcome t: the history holds as many of them as it has bits,
\* and the counter each table has for b has moved once for every update that reached it.
Taught(b, t, n) ==
    /\ Class # "2bit" =>
        /\ \A k \in 0..HistBits - 1 : k < n => HistoryOf(b)[k] = OutcomeBit(t)
        /\ n = HistBits + 1 => Leans(TwolevAt(b, t), t, 1)
        /\ n = HistBits + 2 => Leans(TwolevAt(b, t), t, 2)
    /\ Class # "2lev" =>
        /\ n = 1 => Leans(BimodAt(b), t, 1)
        /\ n >= 2 => Leans(BimodAt(b), t, 2)

BiasInv ==
    \A b \in Branches : b.kind = "cond" /\ Stateful /\ streak.pc = b.pc =>
        Taught(b, streak.taken, streak.len)

\* One update moves the counter by one, until it cannot move further.
LEMMA StepLeans ==
    ASSUME NEW c \in Counters, NEW t \in BOOLEAN
    PROVE  /\ Leans(c, t, 0) /\ Leans(Step(c, t), t, 1)
           /\ Leans(c, t, 1) => Leans(Step(c, t), t, 2)
           /\ Leans(c, t, 2) => Leans(Step(c, t), t, 2)
BY DEF Leans, Step, Counters

\* The counters a lookup of a conditional branch names, by class.
LEMMA CondUpdate ==
    ASSUME NEW b \in Branches, b.kind = "cond", Stateful
    PROVE  /\ ~DirUpdate(b).ras
           /\ Class = "2lev" => DirUpdate(b).pdir1 = TwolevPtr(b)
           /\ Class = "2bit" => DirUpdate(b).pdir1 = BimodPtr(b)
           /\ Class = "comb" => \/ /\ DirUpdate(b).pdir1 = TwolevPtr(b)
                                  /\ DirUpdate(b).pdir2 = BimodPtr(b)
                               \/ /\ DirUpdate(b).pdir1 = BimodPtr(b)
                                  /\ DirUpdate(b).pdir2 = TwolevPtr(b)
<1> DEFINE none == [pdir1 |-> NoPtr, pdir2 |-> NoPtr, pmeta |-> NoPtr,
                    ras |-> Stateful /\ IsReturn(b) /\ RasSize > 0,
                    bimod |-> FALSE, twolev |-> FALSE, meta |-> FALSE]
           two == TwolevPtr(b)
           bim == BimodPtr(b)
           met == bpred_dir_lookup("meta", b.pc)
<1>1. ~Uncond(b) /\ ~IsReturn(b)
  BY DEF Uncond, IsReturn
<1>2. CASE Class = "2lev"
  <2>1. DirUpdate(b) = [none EXCEPT !.pdir1 = two]
    BY <1>1, <1>2 DEF DirUpdate, TwolevPtr
  <2> QED BY <1>1, <1>2, <2>1
<1>3. CASE Class = "2bit"
  <2>1. DirUpdate(b) = [none EXCEPT !.pdir1 = bim]
    BY <1>1, <1>3 DEF DirUpdate, BimodPtr
  <2> QED BY <1>1, <1>3, <2>1
<1>4. CASE Class = "comb"
  <2>1. DirUpdate(b) =
          [none EXCEPT !.pmeta = met,
                       !.pdir1 = IF PredictsTaken(met) THEN two ELSE bim,
                       !.pdir2 = IF PredictsTaken(met) THEN bim ELSE two,
                       !.meta = PredictsTaken(met),
                       !.bimod = PredictsTaken(bim),
                       !.twolev = PredictsTaken(two)]
    BY <1>1, <1>4 DEF DirUpdate, TwolevPtr, BimodPtr
  <2> HIDE DEF met
  <2> QED BY <1>1, <1>4, <2>1
<1> QED BY <1>2, <1>3, <1>4 DEF Stateful

\* The history before an update is full once as many outcomes as it has bits came in.
LEMMA FullWhenLong ==
    ASSUME NEW b \in Branches, NEW t \in BOOLEAN, NEW n \in Nat, n >= HistBits, BpredTypeOK,
           \A k \in 0..HistBits - 1 : k < n => HistoryOf(b)[k] = OutcomeBit(t)
    PROVE  HistoryOf(b) = FullHistory(t)
<1>1. HistoryOf(b) \in [0..HistBits - 1 -> {0, 1}]
  BY IndexTyped DEF HistoryOf, BpredTypeOK, Bits
<1>2. \A k \in 0..HistBits - 1 : k < n /\ FullHistory(t)[k] = OutcomeBit(t)
  BY Sizes DEF FullHistory
<1>3. \A k \in 0..HistBits - 1 : HistoryOf(b)[k] = FullHistory(t)[k]
  BY <1>2
<1> QED BY <1>1, <1>3 DEF FullHistory

\* One more update with outcome t.
LEMMA UpdateTeaches ==
    ASSUME NEW b \in Branches, NEW next \in Outcomes(b), NEW t \in BOOLEAN, NEW m \in 0..StreakMax,
           b.kind = "cond", Stateful, SimTypeOK, ControlInst(b, next),
           t = (next # b.pc + InstSize),
           m > 0 => Taught(b, t, m)
    PROVE  Taught(b, t, IF m < StreakMax THEN m + 1 ELSE StreakMax)'
<1> DEFINE upd == DirUpdate(b)
           n == IF m < StreakMax THEN m + 1 ELSE StreakMax
           two == TwolevPtr(b)
           bim == BimodPtr(b)
<1>1. /\ BpredTypeOK /\ HistBits \in Nat \ {0} /\ StreakMax = HistBits + 2 /\ m \in Nat
      /\ n \in Nat /\ n >= 1 /\ n <= m + 1 /\ n <= StreakMax /\ (m <= HistBits + 1 => n = m + 1)
      /\ (m = StreakMax => n = StreakMax)
  <2>1. BpredTypeOK /\ HistBits \in Nat \ {0} /\ StreakMax = HistBits + 2
    BY Sizes DEF SimTypeOK, StreakMax
  <2>2. m \in Nat /\ m <= StreakMax /\ StreakMax \in Nat
    BY <2>1
  <2> HIDE DEF upd
  <2> QED BY <2>1, <2>2
<1>2. ctr' = TrainedCtr(upd, t) /\ shiftregs' = ShiftedRegs(b, t)
  BY CondUpdate DEF ControlInst, Train
<1>3. Class \in {"2lev", "2bit", "comb"}
  BY DEF Stateful
<1> HIDE DEF upd, n
<1>4. ASSUME Class # "2bit"
      PROVE  /\ \A k \in 0..HistBits - 1 : k < n => HistoryOf(b)'[k] = OutcomeBit(t)
             /\ n = HistBits + 1 => Leans(TwolevAt(b, t)', t, 1)
             /\ n = HistBits + 2 => Leans(TwolevAt(b, t)', t, 2)
  <2>1. HistoryOf(b)' = ShiftIn(HistoryOf(b), t)
    BY <1>1, <1>2, <1>3, <1>4, IndexTyped DEF HistoryOf, ShiftedRegs, Uncond, BpredTypeOK
  <2>2. ASSUME NEW k \in 0..HistBits - 1, k < m PROVE HistoryOf(b)[k] = OutcomeBit(t)
    BY <1>1, <1>4, <2>2 DEF Taught
  <2>3. ASSUME NEW k \in 0..HistBits - 1, k < n PROVE HistoryOf(b)'[k] = OutcomeBit(t)
    <3>1. HistoryOf(b)'[k] = IF k > 0 THEN HistoryOf(b)[k - 1] ELSE IF t THEN 1 ELSE 0
      BY <2>1 DEF ShiftIn
    <3>2. CASE k = 0
      BY <3>1, <3>2 DEF OutcomeBit
    <3>3. CASE k > 0
      <4>1. k - 1 \in 0..HistBits - 1 /\ k - 1 < m
        BY <1>1, <2>3, <3>3
      <4> QED BY <2>2, <3>1, <3>3, <4>1
    <3> QED BY <1>1, <3>2, <3>3
  <2>4. ASSUME n >= HistBits + 1
        PROVE  TwolevAt(b, t)' = Step(TwolevAt(b, t), t) /\ TwolevAt(b, t) \in Counters
    <3> DEFINE i == L2Index(FullHistory(t), b.pc)
    <3>1. HistoryOf(b) = FullHistory(t)
      <4>1. m >= HistBits
        BY <1>1, <2>4
      <4> QED BY <1>1, <2>2, <4>1, FullWhenLong
    <3>2. two = <<"twolev", i>> /\ i \in Bits(L2Bits)
      BY <1>1, <3>1, IndexTyped DEF bpred_dir_lookup, HistoryOf, TwolevPtr
    <3>3. two \in {upd.pdir1, upd.pdir2}
      BY <1>3, <1>4, CondUpdate DEF upd
    <3>4. ctr.twolev \in [Bits(L2Bits) -> Counters]
      BY <1>1 DEF BpredTypeOK, CtrType
    <3> HIDE DEF i, two
    <3>5. ctr'.twolev[i] = Step(ctr.twolev[i], t)
      BY <1>2, <3>2, <3>3, <3>4 DEF TrainedCtr
    <3>6. TwolevAt(b, t) = ctr.twolev[i] /\ TwolevAt(b, t)' = ctr'.twolev[i]
      BY DEF TwolevAt, i
    <3> QED BY <3>2, <3>4, <3>5, <3>6
  <2>5. ASSUME n = HistBits + 1 PROVE Leans(TwolevAt(b, t)', t, 1)
    <3>1. TwolevAt(b, t)' = Step(TwolevAt(b, t), t) /\ TwolevAt(b, t) \in Counters
      BY <1>1, <2>4, <2>5
    <3> HIDE DEF two, bim
    <3> QED BY <3>1, StepLeans
  <2>6. ASSUME n = HistBits + 2 PROVE Leans(TwolevAt(b, t)', t, 2)
    <3>1. m > 0 /\ (m = HistBits + 1 \/ m = HistBits + 2)
      BY <1>1, <2>6
    <3>2. Leans(TwolevAt(b, t), t, 1) \/ Leans(TwolevAt(b, t), t, 2)
      BY <1>4, <3>1 DEF Taught
    <3>3. TwolevAt(b, t)' = Step(TwolevAt(b, t), t) /\ TwolevAt(b, t) \in Counters
      BY <1>1, <2>4, <2>6
    <3> QED BY <3>2, <3>3, StepLeans
  <2> QED BY <2>3, <2>5, <2>6
<1>5. ASSUME Class # "2lev"
      PROVE  /\ n = 1 => Leans(BimodAt(b)', t, 1)
             /\ n >= 2 => Leans(BimodAt(b)', t, 2)
  <2> DEFINE i == BIMOD_HASH(b.pc, BimodBits)
  <2>1. bim = <<"bimod", i>> /\ i \in Bits(BimodBits)
    BY <1>1, IndexTyped DEF bpred_dir_lookup, BimodPtr
  <2>2. bim \in {upd.pdir1, upd.pdir2}
    BY <1>3, <1>5, CondUpdate DEF upd
  <2>3. ctr.bimod \in [Bits(BimodBits) -> Counters]
    BY <1>1 DEF BpredTypeOK, CtrType
  <2> HIDE DEF i, bim
  <2>4. ctr'.bimod[i] = Step(ctr.bimod[i], t)
    BY <1>2, <2>1, <2>2, <2>3 DEF TrainedCtr
  <2>5. BimodAt(b) = ctr.bimod[i] /\ BimodAt(b)' = ctr'.bimod[i] /\ BimodAt(b) \in Counters
    BY <2>1, <2>3 DEF BimodAt, i
  <2>6. ASSUME n >= 2 PROVE Leans(BimodAt(b), t, 1) \/ Leans(BimodAt(b), t, 2)
    <3>1. m > 0 /\ (m = 1 \/ m >= 2)
      BY <1>1, <2>6
    <3> QED BY <1>5, <3>1 DEF Taught
  <2> QED BY <2>4, <2>5, <2>6, StepLeans
<1>6. Taught(b, t, n)'
  BY <1>4, <1>5 DEF Taught
<1> QED BY <1>6 DEF n

\* A branch that has gone one way HistBits + 2 times running is predicted that way, under every
\* class, every second-level index and every size of the tables.
THEOREM SimLearnsBias == SimSpec => []LearnsBias
<1>1. SimInit => BiasInv
  BY BranchFields DEF SimInit, NoBranch, BiasInv
<1>2. SimInv /\ BiasInv /\ [SimNext]_simVars => BiasInv'
  <2> SUFFICES ASSUME SimInv, BiasInv, [SimNext]_simVars PROVE BiasInv'
    OBVIOUS
  <2>1. CASE UNCHANGED simVars
    BY <2>1 DEF simVars, bpredVars, programVars, BiasInv, Taught, HistoryOf, TwolevAt, BimodAt
  <2>2. ASSUME NEW b \in Branches, NEW next \in Outcomes(b), ControlInst(b, next)
        PROVE  BiasInv'
    <3> DEFINE t == next # b.pc + InstSize
    <3>0. PICK m \in 0..StreakMax : m = IF streak.pc # b.pc \/ streak.taken # t THEN 0 ELSE streak.len
      BY Sizes DEF SimInv, SimTypeOK, StreakMax
    <3> DEFINE n == IF m < StreakMax THEN m + 1 ELSE StreakMax
    <3>1. streak' = [pc |-> b.pc, taken |-> t, len |-> n]
      <4>1. StreakMax \in Nat /\ StreakMax > 1
        BY Sizes DEF StreakMax
      <4> QED BY <2>2, <3>0, <4>1 DEF ControlInst, Program
    <3>2. m \in 0..StreakMax /\ t \in BOOLEAN
      OBVIOUS
    <3>3. ASSUME b.kind = "cond", Stateful PROVE Taught(b, t, n)'
      <4>1. m > 0 => Taught(b, t, m)
        BY <3>0, <3>3 DEF BiasInv
      <4>2. t = (next # b.pc + InstSize) /\ SimTypeOK
        BY DEF SimInv
      <4> HIDE DEF t
      <4> QED BY <2>2, <3>2, <3>3, <4>1, <4>2, UpdateTeaches
    <3>4. ASSUME NEW c \in Branches, c.kind = "cond", Stateful, streak'.pc = c.pc
          PROVE  Taught(c, streak.taken, streak.len)'
      <4>1. c = b
        BY <3>1, <3>4, TextAssumption
      <4>2. Taught(b, t, n)'
        BY <3>3, <3>4, <4>1
      <4> QED BY <3>1, <4>1, <4>2 DEF Taught
    <3> QED BY <3>4 DEF BiasInv, Stateful
  <2> QED BY <2>1, <2>2 DEF SimNext
<1>3. SimInv /\ BiasInv => LearnsBias
  <2> SUFFICES ASSUME SimInv, BiasInv, NEW b \in Branches, b.kind = "cond", Stateful,
                      streak.pc = b.pc, streak.len = StreakMax
               PROVE  PredictsTaken(DirUpdate(b).pdir1) = streak.taken
    BY DEF LearnsBias
  <2> DEFINE t == streak.taken
             two == TwolevPtr(b)
             bim == BimodPtr(b)
  <2>1. /\ BpredTypeOK /\ t \in BOOLEAN /\ Taught(b, t, StreakMax)
        /\ StreakMax = HistBits + 2 /\ HistBits \in Nat \ {0}
    BY Sizes DEF SimInv, SimTypeOK, BiasInv, StreakMax
  <2>2. ASSUME NEW c \in Counters, Leans(c, t, 2) PROVE (c >= 2) = t
    BY <2>1, <2>2 DEF Leans, Counters
  <2>3. Class # "2bit" => PredictsTaken(two) = t
    <3> SUFFICES ASSUME Class # "2bit" PROVE PredictsTaken(two) = t
      OBVIOUS
    <3>1. HistoryOf(b) = FullHistory(t)
      BY <2>1, FullWhenLong DEF Taught
    <3>2. L2Index(FullHistory(t), b.pc) \in Bits(L2Bits)
      BY <2>1, <3>1, IndexTyped DEF HistoryOf
    <3>3. At(two) = TwolevAt(b, t) /\ TwolevAt(b, t) \in Counters
      BY <2>1, <3>1, <3>2 DEF At, bpred_dir_lookup, TwolevPtr, TwolevAt, HistoryOf, BpredTypeOK, CtrType
    <3>4. Leans(TwolevAt(b, t), t, 2)
      BY <2>1 DEF Taught
    <3> HIDE DEF two, t
    <3> QED BY <2>2, <3>3, <3>4 DEF PredictsTaken
  <2>4. Class # "2lev" => PredictsTaken(bim) = t
    <3> SUFFICES ASSUME Class # "2lev" PROVE PredictsTaken(bim) = t
      OBVIOUS
    <3>1. At(bim) = BimodAt(b) /\ BimodAt(b) \in Counters
      BY <2>1, IndexTyped DEF At, bpred_dir_lookup, BimodPtr, BimodAt, BpredTypeOK, CtrType
    <3>2. Leans(BimodAt(b), t, 2)
      BY <2>1 DEF Taught
    <3> HIDE DEF bim, t
    <3> QED BY <2>2, <3>1, <3>2 DEF PredictsTaken
  <2>5. \/ DirUpdate(b).pdir1 = two /\ Class # "2bit"
        \/ DirUpdate(b).pdir1 = bim /\ Class # "2lev"
    BY CondUpdate DEF Stateful
  <2> HIDE DEF two, bim, t
  <2> QED BY <2>3, <2>4, <2>5 DEF t
<1> QED BY <1>1, <1>2, <1>3, SimInvariant, PTL DEF SimSpec

-----------------------------------------------------------------------------
(* The BTB as the store LruSets promises: the walk along the links of a    *)
(* set lists its branches, and an update moves one of them to the front.   *)

\* The ways of a set behind its first n, in the order of its chain, are unused.
Packed(set, rank, n) ==
    /\ rank \in Bijection(WayIds, WayIds) /\ ChainOf(set, rank)
    /\ n \in 0..Ways
    /\ \A w \in WayIds : set[w].addr # 0 <=> rank[w] < n

\* The way at place k of the chain.
WayAt(rank, k) == CHOOSE w \in WayIds : rank[w] = k

\* The addresses at the places behind place k, up to place m.
Listed(set, rank, k, m) == [i \in 1..m - k |-> set[WayAt(rank, k + i - 1)].addr]

LEMMA WayAtIs ==
    ASSUME NEW rank \in Bijection(WayIds, WayIds)
    PROVE  /\ \A w \in WayIds : WayAt(rank, rank[w]) = w
           /\ \A k \in WayIds : WayAt(rank, k) \in WayIds /\ rank[WayAt(rank, k)] = k
<1>1. \A v, w \in WayIds : rank[v] = rank[w] => v = w
  BY RankFacts
<1>2. \A k \in WayIds : \E w \in WayIds : rank[w] = k
  BY RankFacts
<1> QED BY <1>1, <1>2 DEF WayAt

LEMMA ListedTyped ==
    ASSUME NEW s \in BtbSet, NEW rank \in Bijection(WayIds, WayIds), NEW k \in Nat, NEW m \in 0..Ways
    PROVE  /\ Listed(s, rank, k, m) \in Seq(Nat)
           /\ Len(Listed(s, rank, k, m)) = IF m <= k THEN 0 ELSE m - k
           /\ \A i \in 1..m - k : Listed(s, rank, k, m)[i] = s[WayAt(rank, k + i - 1)].addr
<1> DEFINE q == Listed(s, rank, k, m)
           len == IF m <= k THEN 0 ELSE m - k
<1>1. Ways \in Nat \ {0} /\ m \in Nat /\ len \in Nat /\ 1..m - k = 1..len
  BY Sizes
<1>2. ASSUME NEW i \in 1..m - k PROVE s[WayAt(rank, k + i - 1)].addr \in Nat
  <2>1. k + i - 1 \in WayIds
    BY <1>1 DEF WayIds
  <2>2. WayAt(rank, k + i - 1) \in WayIds
    BY <2>1, WayAtIs
  <2> QED BY <2>2 DEF BtbSet, BtbEntry
<1>3. q = [i \in 1..len |-> s[WayAt(rank, k + i - 1)].addr]
  BY <1>1 DEF Listed
<1>4. \A i \in 1..len : s[WayAt(rank, k + i - 1)].addr \in Nat
  BY <1>1, <1>2
<1> HIDE DEF len
<1>5. q \in [1..len -> Nat]
  BY <1>3, <1>4
<1>6. q \in Seq(Nat) /\ Len(q) = len
  <2> HIDE DEF q
  <2> QED BY <1>1, <1>5, LenProperties, SeqDef
<1> QED BY <1>1, <1>3, <1>6 DEF len

LEMMA ListedWhole ==
    ASSUME NEW s \in BtbSet, NEW rank \in Bijection(WayIds, WayIds), NEW n \in 0..Ways
    PROVE  /\ Listed(s, rank, 0, n) \in Seq(Nat) /\ Len(Listed(s, rank, 0, n)) = n
           /\ \A i \in 1..n : Listed(s, rank, 0, n)[i] = s[WayAt(rank, i - 1)].addr
<1>1. PICK k \in Nat : k = 0
  OBVIOUS
<1> DEFINE q == Listed(s, rank, k, n)
<1>2. /\ q \in Seq(Nat) /\ Len(q) = IF n <= k THEN 0 ELSE n - k
      /\ \A i \in 1..n - k : q[i] = s[WayAt(rank, k + i - 1)].addr
  BY ListedTyped
<1> HIDE DEF q
<1>3. n \in Nat
  BY Sizes
<1>4. Len(q) = n /\ n - k = n
  BY <1>1, <1>2, <1>3
<1>5. ASSUME NEW i \in 1..n PROVE q[i] = s[WayAt(rank, i - 1)].addr
  <2>1. k + i - 1 = i - 1 /\ i \in 1..n - k
    BY <1>1, <1>3
  <2>2. q[i] = s[WayAt(rank, k + i - 1)].addr
    BY <1>2, <2>1
  <2> QED BY <2>1, <2>2
<1> QED BY <1>1, <1>2, <1>4, <1>5 DEF q

\* The list from place k on is the address at place k and the list from the next one.
LEMMA ListedFrom ==
    ASSUME NEW s \in BtbSet, NEW rank \in Bijection(WayIds, WayIds), NEW k \in Nat, NEW m \in 0..Ways
    PROVE  /\ m <= k => Listed(s, rank, k, m) = << >>
           /\ k < m => Listed(s, rank, k, m) = <<s[WayAt(rank, k)].addr>> \o Listed(s, rank, k + 1, m)
<1> DEFINE q == Listed(s, rank, k, m)
           t == Listed(s, rank, k + 1, m)
           a == s[WayAt(rank, k)].addr
<1>0. m \in Nat /\ Ways \in Nat /\ k + 1 \in Nat
  BY Sizes
<1>1. /\ q \in Seq(Nat) /\ Len(q) = IF m <= k THEN 0 ELSE m - k
      /\ \A i \in 1..m - k : q[i] = s[WayAt(rank, k + i - 1)].addr
  BY ListedTyped
<1>2. /\ t \in Seq(Nat) /\ Len(t) = IF m <= k + 1 THEN 0 ELSE m - (k + 1)
      /\ \A i \in 1..m - (k + 1) : t[i] = s[WayAt(rank, k + 1 + i - 1)].addr
  BY <1>0, ListedTyped
<1>3. CASE m <= k
  <2>1. q = << >>
    <3> HIDE DEF q
    <3> QED BY <1>1, <1>3, EmptySeq
  <2> QED BY <1>0, <1>3, <2>1
<1>4. CASE k < m
  <2>1. a \in Nat
    <3>1. k \in WayIds
      BY <1>0, <1>4 DEF WayIds
    <3>2. WayAt(rank, k) \in WayIds
      BY <3>1, WayAtIs
    <3> QED BY <3>2 DEF BtbSet, BtbEntry
  <2>5. \A i \in 1..m - k : q[i] = IF i = 1 THEN a ELSE t[i - 1]
    <3> SUFFICES ASSUME NEW i \in 1..m - k PROVE q[i] = IF i = 1 THEN a ELSE t[i - 1]
      OBVIOUS
    <3>1. CASE i = 1
      <4>1. k + i - 1 = k
        BY <3>1
      <4>2. q[i] = s[WayAt(rank, k + i - 1)].addr
        BY <1>1
      <4> QED BY <3>1, <4>1, <4>2
    <3>2. CASE i # 1
      <4>1. i - 1 \in 1..m - (k + 1) /\ k + 1 + (i - 1) - 1 = k + i - 1
        BY <1>0, <3>2
      <4>2. q[i] = s[WayAt(rank, k + i - 1)].addr /\ t[i - 1] = s[WayAt(rank, k + 1 + (i - 1) - 1)].addr
        BY <1>1, <1>2, <4>1
      <4> QED BY <3>2, <4>1, <4>2
    <3> QED BY <3>1, <3>2
  <2> HIDE DEF a, t, q
  <2>2. Len(q) = m - k /\ Len(t) = m - k - 1
    BY <1>0, <1>1, <1>2, <1>4
  <2>3. Headed(t, q, a)
    <3>1. Len(q) = Len(t) + 1 /\ q[1] = a
      BY <1>0, <1>4, <2>2, <2>5
    <3>2. ASSUME NEW i \in 1..Len(t) PROVE q[i + 1] = t[i]
      BY <1>0, <1>4, <2>2, <2>5
    <3> QED BY <3>1, <3>2 DEF Headed
  <2>4. q = <<a>> \o t
    BY <1>1, <1>2, <2>1, <2>3, HeadThen
  <2> QED BY <1>0, <1>4, <2>4 DEF q, a, t
<1> QED BY <1>0, <1>3, <1>4

\* The walk along the links of a set's chain: what a step makes of the walks with a hop less, and
\* where it ends.
Walk(s, f) ==
    [hops \in 0..Ways |-> [w \in WayIds \cup {Nil} |->
        IF w = Nil \/ hops = 0 THEN << >>
        ELSE (IF s[w].addr = 0 THEN << >> ELSE <<s[w].addr>>) \o f[hops - 1][s[w].next]]]
LastSeen(n, k, hops) == IF n <= k + hops THEN n ELSE k + hops
From(s, rank, n, w, hops) ==
    IF w = Nil THEN << >> ELSE Listed(s, rank, rank[w], LastSeen(n, rank[w], hops))
Walked(s, rank, n) == [hops \in 0..Ways |-> [w \in WayIds \cup {Nil} |-> From(s, rank, n, w, hops)]]

LEMMA WalkStep ==
    ASSUME NEW s \in BtbSet, NEW rank, NEW n, Packed(s, rank, n), NEW w \in WayIds, NEW hops \in 1..Ways
    PROVE  /\ s[w].next \in WayIds \cup {Nil} /\ hops - 1 \in 0..Ways
           /\ From(s, rank, n, w, hops) =
                (IF s[w].addr = 0 THEN << >> ELSE <<s[w].addr>>) \o From(s, rank, n, s[w].next, hops - 1)
<1> DEFINE v == s[w].next
           k == rank[w]
           m == LastSeen(n, k, hops)
           rest == From(s, rank, n, v, hops - 1)
<1>1. /\ rank \in Bijection(WayIds, WayIds) /\ n \in 0..Ways
      /\ \A u \in WayIds : s[u].addr # 0 <=> rank[u] < n
      /\ \A u \in WayIds : v = u <=> rank[u] = k + 1
      /\ v = Nil <=> k = Ways - 1
  BY DEF Packed, ChainOf
<1>2. v \in WayIds \cup {Nil}
  BY DEF BtbSet, BtbEntry
<1>3. /\ Ways \in Nat \ {0} /\ n \in Nat /\ n <= Ways /\ hops \in Nat /\ hops >= 1 /\ hops <= Ways
      /\ Nil \notin WayIds
  BY <1>1, Sizes DEF WayIds, Nil
<1>4. k \in Nat /\ k <= Ways - 1 /\ WayAt(rank, k) = w
  BY <1>1, RankFacts, WayAtIs
<1>10. k + 1 \in Nat
  BY <1>4
<1>0. From(s, rank, n, w, hops) = Listed(s, rank, k, m)
  BY <1>3 DEF From
<1>5. s[w].addr # 0 <=> k < n
  BY <1>1
<1> HIDE DEF v, k
<1>6. m \in 0..Ways /\ (k < n => k < m) /\ (n <= k => m <= k)
  BY <1>3, <1>4 DEF LastSeen
<1> HIDE DEF rest
<1>7. rest = Listed(s, rank, k + 1, m)
  <2>1. CASE v = Nil
    <3>1. m <= k + 1
      BY <1>1, <1>3, <1>4, <1>6, <2>1
    <3>2. Listed(s, rank, k + 1, m) = << >>
      BY <1>1, <1>10, <1>6, <3>1, ListedFrom
    <3> QED BY <2>1, <3>2 DEF rest, From
  <2>2. CASE v # Nil
    <3>1. v \in WayIds /\ rank[v] = k + 1
      BY <1>1, <1>2, <2>2
    <3>2. LastSeen(n, k + 1, hops - 1) = m
      BY <1>3, <1>4 DEF LastSeen
    <3> QED BY <2>2, <3>1, <3>2 DEF rest, From
  <2> QED BY <2>1, <2>2
<1> HIDE DEF m
<1>8. Listed(s, rank, k, m) = (IF s[w].addr = 0 THEN << >> ELSE <<s[w].addr>>) \o rest
  <2>1. CASE s[w].addr = 0
    <3>1. m <= k /\ m <= k + 1
      BY <1>3, <1>4, <1>5, <1>6, <2>1
    <3>2. Listed(s, rank, k, m) = << >>
      BY <1>1, <1>4, <1>6, <3>1, ListedFrom
    <3>3. Listed(s, rank, k + 1, m) = << >>
      BY <1>1, <1>10, <1>6, <3>1, ListedFrom
    <3>4. << >> \o << >> = << >>
      OBVIOUS
    <3> QED BY <1>7, <2>1, <3>2, <3>3, <3>4
  <2>2. CASE s[w].addr # 0
    <3>2. Listed(s, rank, k, m) = <<s[WayAt(rank, k)].addr>> \o Listed(s, rank, k + 1, m)
      BY <1>1, <1>4, <1>5, <1>6, <2>2, ListedFrom
    <3> QED BY <1>4, <1>7, <2>2, <3>2
  <2> QED BY <2>1, <2>2
<1>9. hops - 1 \in 0..Ways
  BY <1>3
<1> QED BY <1>0, <1>2, <1>8, <1>9 DEF v, k, rest

\* The walk of a packed set is what its step makes of it.
LEMMA WalkedStep ==
    ASSUME NEW s \in BtbSet, NEW rank, NEW n, Packed(s, rank, n)
    PROVE  Walked(s, rank, n) = Walk(s, Walked(s, rank, n))
<1> DEFINE F == Walked(s, rank, n)
           W == WayIds \cup {Nil}
           step(w, hops) == IF w = Nil \/ hops = 0 THEN << >>
                            ELSE (IF s[w].addr = 0 THEN << >> ELSE <<s[w].addr>>)
                                 \o F[hops - 1][s[w].next]
<1>1. ASSUME NEW hops \in 0..Ways, NEW w \in W PROVE From(s, rank, n, w, hops) = step(w, hops)
  <2>1. CASE w = Nil
    BY <2>1 DEF From
  <2>2. CASE w # Nil /\ hops = 0
    <3>1. w \in WayIds /\ rank \in Bijection(WayIds, WayIds) /\ n \in 0..Ways
      BY <2>2 DEF Packed
    <3>2. /\ rank[w] \in Nat /\ LastSeen(n, rank[w], 0) \in 0..Ways
          /\ LastSeen(n, rank[w], 0) <= rank[w]
      <4>1. rank[w] \in Nat /\ rank[w] <= Ways - 1 /\ Ways \in Nat
        BY <3>1, RankFacts, Sizes
      <4> QED BY <3>1, <4>1 DEF LastSeen
    <3>3. Listed(s, rank, rank[w], LastSeen(n, rank[w], 0)) = << >>
      BY <3>1, <3>2, ListedFrom
    <3> QED BY <2>2, <3>3 DEF From
  <2>3. CASE w # Nil /\ hops # 0
    <3>1. w \in WayIds /\ hops \in 1..Ways
      BY <2>3, Sizes
    <3>2. s[w].next \in W /\ hops - 1 \in 0..Ways
      BY <3>1, WalkStep
    <3>3. F[hops - 1][s[w].next] = From(s, rank, n, s[w].next, hops - 1)
      BY <3>2 DEF Walked
    <3>4. From(s, rank, n, w, hops) =
            (IF s[w].addr = 0 THEN << >> ELSE <<s[w].addr>>) \o From(s, rank, n, s[w].next, hops - 1)
      BY <3>1, WalkStep
    <3> HIDE DEF F
    <3> QED BY <2>3, <3>3, <3>4
  <2> QED BY <2>1, <2>2, <2>3
<1>2. Walk(s, F) = [hops \in 0..Ways |-> [w \in W |-> step(w, hops)]]
  BY DEF Walk
<1>3. F = [hops \in 0..Ways |-> [w \in W |-> From(s, rank, n, w, hops)]]
  BY DEF Walked
<1> HIDE DEF F, W, step
<1>4. \A hops \in 0..Ways : [w \in W |-> From(s, rank, n, w, hops)] = [w \in W |-> step(w, hops)]
  BY <1>1
<1>5. [hops \in 0..Ways |-> [w \in W |-> From(s, rank, n, w, hops)]]
      = [hops \in 0..Ways |-> [w \in W |-> step(w, hops)]]
  BY <1>4
<1> QED BY <1>2, <1>3, <1>5 DEF F

\* The chain of a packed set lists the addresses in use, in the order of the ranks.
LEMMA ChainIs ==
    ASSUME NEW s \in BtbSet, NEW rank, NEW n, Packed(s, rank, n)
    PROVE  Chain(s) = Listed(s, rank, 0, n)
<1> DEFINE F == Walked(s, rank, n)
           after == CHOOSE f : f = Walk(s, f)
           W == WayIds \cup {Nil}
           S == {j \in Nat : j <= Ways => \A w \in W : after[j][w] = F[j][w]}
<1>1. Chain(s) = after[Ways][LruHead(s)]
  BY DEF Chain, Walk
<1>2. after = Walk(s, after)
  BY WalkedStep
<1>3. F = Walk(s, F)
  BY WalkedStep
<1>4. Ways \in Nat \ {0}
  BY Sizes
<1> HIDE DEF after, F
<1> DEFINE Steps(f) ==
             \A hops \in 0..Ways : \A w \in W :
               f[hops][w] = IF w = Nil \/ hops = 0 THEN << >>
                            ELSE (IF s[w].addr = 0 THEN << >> ELSE <<s[w].addr>>)
                                 \o f[hops - 1][s[w].next]
<1>5. ASSUME NEW f, f = Walk(s, f) PROVE Steps(f)
  <2> SUFFICES ASSUME NEW hops \in 0..Ways, NEW w \in W
               PROVE  f[hops][w] = IF w = Nil \/ hops = 0 THEN << >>
                                   ELSE (IF s[w].addr = 0 THEN << >> ELSE <<s[w].addr>>)
                                        \o f[hops - 1][s[w].next]
    OBVIOUS
  <2>1. f[hops][w] = Walk(s, f)[hops][w]
    BY <1>5
  <2> QED BY <2>1 DEF Walk
<1> HIDE DEF Steps
<1>6. Steps(after) /\ Steps(F)
  BY <1>2, <1>3, <1>5
<1> USE DEF Steps
<1>7. 0 \in S
  <2>1. 0 \in 0..Ways
    BY <1>4
  <2> QED BY <1>6, <2>1
<1>8. ASSUME NEW j \in Nat, j \in S PROVE j + 1 \in S
  <2>1. SUFFICES ASSUME j + 1 <= Ways, NEW w \in W PROVE after[j + 1][w] = F[j + 1][w]
    OBVIOUS
  <2> DEFINE hops == j + 1
  <2>2. hops \in 0..Ways /\ hops # 0 /\ hops - 1 = j /\ j <= Ways
    BY <1>4, <2>1
  <2> HIDE DEF hops
  <2>3. CASE w = Nil
    <3>1. after[hops][w] = F[hops][w]
      BY <1>6, <2>2, <2>3
    <3> QED BY <3>1 DEF hops
  <2>4. CASE w # Nil
    <3>1. s[w].next \in W
      BY <2>4 DEF BtbSet, BtbEntry
    <3>2. after[j][s[w].next] = F[j][s[w].next]
      BY <1>8, <2>2, <3>1
    <3>3. /\ after[hops][w] = (IF s[w].addr = 0 THEN << >> ELSE <<s[w].addr>>) \o after[hops - 1][s[w].next]
          /\ F[hops][w] = (IF s[w].addr = 0 THEN << >> ELSE <<s[w].addr>>) \o F[hops - 1][s[w].next]
      BY <1>6, <2>2, <2>4
    <3>4. after[hops][w] = F[hops][w]
      BY <2>2, <3>2, <3>3
    <3> QED BY <3>4 DEF hops
  <2> QED BY <2>3, <2>4
<1>9. Ways \in S
  <2> HIDE DEF S
  <2> QED BY <1>4, <1>7, <1>8, NatSetInduction
<1>10. LruHead(s) \in WayIds /\ rank[LruHead(s)] = 0
  BY ChainEnds DEF Packed
<1>11. Chain(s) = F[Ways][LruHead(s)]
  BY <1>1, <1>4, <1>9, <1>10
<1>12. LastSeen(n, 0, Ways) = n
  BY <1>4 DEF LastSeen, Packed
<1>13. F[Ways][LruHead(s)] = Listed(s, rank, 0, n)
  <2>1. LruHead(s) \in W /\ Ways \in 0..Ways /\ LruHead(s) # Nil
    BY <1>4, <1>10 DEF WayIds, Nil
  <2>2. F[Ways][LruHead(s)] = From(s, rank, n, LruHead(s), Ways)
    BY <2>1 DEF F, Walked
  <2> QED BY <1>10, <1>12, <2>1, <2>2 DEF From
<1> QED BY <1>11, <1>13

-----------------------------------------------------------------------------
\* The way at each place once way p has moved to the front.
LEMMA FrontedAt ==
    ASSUME NEW rank \in Bijection(WayIds, WayIds), NEW p \in WayIds
    PROVE  /\ WayAt(Fronted(rank, p), 0) = p
           /\ \A k \in 1..Ways - 1 :
                /\ WayAt(Fronted(rank, p), k) = WayAt(rank, IF k <= rank[p] THEN k - 1 ELSE k)
                /\ WayAt(Fronted(rank, p), k) \in WayIds \ {p}
<1> DEFINE new == Fronted(rank, p)
<1>1. new \in Bijection(WayIds, WayIds)
  BY FrontedRanks
<1>2. \A w \in WayIds : new[w] = IF w = p THEN 0 ELSE IF rank[w] < rank[p] THEN rank[w] + 1 ELSE rank[w]
  BY DEF Fronted
<1>3. Ways \in Nat \ {0} /\ rank[p] \in Nat /\ rank[p] <= Ways - 1
  BY Sizes, RankFacts
<1> HIDE DEF new
<1>4. \A w \in WayIds : WayAt(new, new[w]) = w
  BY <1>1, WayAtIs
<1>5. WayAt(new, 0) = p
  BY <1>2, <1>4
<1>6. ASSUME NEW k \in 1..Ways - 1
      PROVE  /\ WayAt(new, k) = WayAt(rank, IF k <= rank[p] THEN k - 1 ELSE k)
             /\ WayAt(new, k) \in WayIds \ {p}
  <2> DEFINE j == IF k <= rank[p] THEN k - 1 ELSE k
             w == WayAt(rank, j)
  <2>1. j \in WayIds /\ j # rank[p] /\ (j < rank[p] <=> k <= rank[p])
    BY <1>3 DEF WayIds
  <2>2. w \in WayIds /\ rank[w] = j
    BY <2>1, WayAtIs
  <2>3. w # p
    BY <2>1, <2>2
  <2> HIDE DEF w
  <2>4. new[w] = k
    BY <1>2, <1>3, <2>1, <2>2, <2>3
  <2>5. WayAt(new, k) = w
    BY <1>4, <2>2, <2>4
  <2> QED BY <2>2, <2>3, <2>5 DEF w
<1> QED BY <1>5, <1>6 DEF new

\* Of the n ways in use, way p is one, or the last of the chain comes into use.
Grows(rank, p, n, m) ==
    /\ m \in 0..Ways
    /\ \/ rank[p] < n /\ m = n
       \/ rank[p] = Ways - 1 /\ n < Ways /\ m = n + 1

\* Set d is set s after way p has moved to the front of the chain and got address a.
Refilled(s, d, rank, p, a) ==
    /\ ChainOf(d, Fronted(rank, p))
    /\ \A w \in WayIds : d[w].addr = IF w = p THEN a ELSE s[w].addr

LEMMA RefilledPacked ==
    ASSUME NEW s \in BtbSet, NEW d \in BtbSet, NEW rank, NEW n, Packed(s, rank, n),
           NEW p \in WayIds, NEW a \in Nat \ {0}, Refilled(s, d, rank, p, a), NEW m, Grows(rank, p, n, m)
    PROVE  Packed(d, Fronted(rank, p), m)
<1> DEFINE new == Fronted(rank, p)
<1>1. rank \in Bijection(WayIds, WayIds) /\ new \in Bijection(WayIds, WayIds)
  BY FrontedRanks DEF Packed
<1>2. \A w \in WayIds : new[w] = IF w = p THEN 0 ELSE IF rank[w] < rank[p] THEN rank[w] + 1 ELSE rank[w]
  BY DEF Fronted
<1>3. ChainOf(d, new)
  BY DEF Refilled
<1> HIDE DEF new
<1>4. Ways \in Nat \ {0} /\ n \in Nat /\ n <= Ways /\ m \in 0..Ways
  BY Sizes DEF Packed, Grows
<1>5. ASSUME NEW w \in WayIds PROVE d[w].addr # 0 <=> new[w] < m
  <2>1. /\ rank[w] \in Nat /\ rank[w] <= Ways - 1 /\ rank[p] \in Nat /\ rank[p] <= Ways - 1
        /\ rank[w] = rank[p] => w = p
    BY <1>1, RankFacts
  <2>2. s[w].addr # 0 <=> rank[w] < n
    BY DEF Packed
  <2>3. d[w].addr = IF w = p THEN a ELSE s[w].addr
    BY DEF Refilled
  <2>4. CASE w = p
    BY <1>2, <1>4, <2>1, <2>3, <2>4 DEF Grows
  <2>5. CASE w # p
    BY <1>2, <1>4, <2>1, <2>2, <2>3, <2>5 DEF Grows
  <2> QED BY <2>4, <2>5
<1> QED BY <1>1, <1>3, <1>4, <1>5 DEF Packed, new

\* Its list is that of s with a in front: from the place p left on as before, the rest one further.
LEMMA RefilledList ==
    ASSUME NEW s \in BtbSet, NEW d \in BtbSet, NEW rank, NEW n, Packed(s, rank, n),
           NEW p \in WayIds, NEW a \in Nat \ {0}, Refilled(s, d, rank, p, a), NEW m, Grows(rank, p, n, m)
    PROVE  LET T == Listed(s, rank, 0, n)
               U == Listed(d, Fronted(rank, p), 0, m)
           IN  /\ T \in Seq(Nat) /\ Len(T) = n /\ U \in Seq(Nat) /\ Len(U) = m /\ m \in Nat \ {0}
               /\ n \in 0..Ways /\ rank[p] \in Nat /\ rank[p] <= Ways - 1
               /\ U[1] = a
               /\ \A k \in 1..m - 1 : U[k + 1] = IF k <= rank[p] THEN T[k] ELSE T[k + 1]
               /\ \A k \in 1..n : T[k] = s[WayAt(rank, k - 1)].addr /\ WayAt(rank, k - 1) \in WayIds
<1> DEFINE new == Fronted(rank, p)
           T == Listed(s, rank, 0, n)
           U == Listed(d, new, 0, m)
<1>1. rank \in Bijection(WayIds, WayIds) /\ new \in Bijection(WayIds, WayIds)
  BY FrontedRanks DEF Packed
<1>2. /\ Ways \in Nat \ {0} /\ n \in Nat /\ n <= Ways /\ m \in Nat /\ n \in 0..Ways /\ m \in 0..Ways
      /\ rank[p] \in Nat /\ rank[p] <= Ways - 1
  BY <1>1, RankFacts, Sizes DEF Packed, Grows
<1>3. m # 0 /\ (\A k \in 1..m - 1 : k > rank[p] => k + 1 <= n) /\ (\A k \in 1..m - 1 : k <= n)
  BY <1>2 DEF Grows
<1>4. T \in Seq(Nat) /\ Len(T) = n /\ \A i \in 1..n : T[i] = s[WayAt(rank, i - 1)].addr
  BY <1>1, <1>2, ListedWhole
<1>5. U \in Seq(Nat) /\ Len(U) = m /\ \A i \in 1..m : U[i] = d[WayAt(new, i - 1)].addr
  BY <1>1, <1>2, ListedWhole
<1>6. U[1] = a
  <2>1. 1 \in 1..m /\ 1 - 1 = 0
    BY <1>2, <1>3
  <2>2. WayAt(new, 0) = p
    BY <1>1, FrontedAt
  <2>3. U[1] = d[p].addr
    BY <1>5, <2>1, <2>2
  <2> QED BY <2>3 DEF Refilled
<1>7. ASSUME NEW k \in 1..m - 1 PROVE U[k + 1] = IF k <= rank[p] THEN T[k] ELSE T[k + 1]
  <2> DEFINE w == WayAt(new, k)
             j == IF k <= rank[p] THEN k - 1 ELSE k
  <2>1. k \in 1..Ways - 1 /\ k + 1 \in 1..m /\ k + 1 - 1 = k /\ j + 1 \in 1..n /\ j + 1 - 1 = j
    BY <1>2, <1>3
  <2>2. w = WayAt(rank, j) /\ w \in WayIds \ {p}
    BY <1>1, <2>1, FrontedAt
  <2>3. U[k + 1] = d[w].addr
    BY <1>5, <2>1
  <2>4. T[j + 1] = s[WayAt(rank, j)].addr
    BY <1>4, <2>1
  <2> HIDE DEF w
  <2>5. U[k + 1] = T[j + 1]
    BY <2>2, <2>3, <2>4 DEF Refilled
  <2> QED BY <2>1, <2>5
<1>8. ASSUME NEW k \in 1..n PROVE WayAt(rank, k - 1) \in WayIds
  <2>1. k - 1 \in WayIds
    BY <1>2 DEF WayIds
  <2> QED BY <1>1, <2>1, WayAtIs
<1> QED BY <1>2, <1>3, <1>4, <1>5, <1>6, <1>7, <1>8

\* What LruSets says of the use of tag t in a set of that many ways.
LruUsed(q, t, ways) ==
    <<t>> \o (IF Contains(q, t) THEN RemoveFirst(q, t) ELSE IF Len(q) < ways THEN q ELSE Front(q))

LEMMA LruTouchedIs == ASSUME NEW q, NEW t PROVE Lru!Touched(q, t) = LruUsed(q, t, Ways)
<1>1. Lru!Contains(q, t) = Contains(q, t) /\ Lru!Front(q) = Front(q)
  BY DEF Lru!Contains, Contains, Lru!Front, Front
<1>2. Lru!SelectInSeq(q, LAMBDA v : v = t) = SelectInSeq(q, LAMBDA v : v = t)
  BY DEF Lru!SelectInSeq, SelectInSeq, Lru!Min, Min
<1>3. \A i : Lru!RemoveAt(q, i) = RemoveAt(q, i)
  BY DEF Lru!RemoveAt, RemoveAt
<1>4. Lru!RemoveFirst(q, t) = RemoveFirst(q, t)
  BY <1>2, <1>3 DEF Lru!RemoveFirst, RemoveFirst
<1> QED BY <1>1, <1>4 DEF Lru!Touched, LruUsed

\* Some way of the set holds the address asked for, and it is the one that moves to the front; or
\* none does, and the last one moves.
Picks(s, rank, p, a) ==
    \/ p \in WayIds /\ s[p].addr = a
    \/ /\ \A w \in WayIds : s[w].addr # a
       /\ p \in WayIds /\ rank[p] = Ways - 1
LEMMA RefilledUses ==
    ASSUME NEW s \in BtbSet, NEW d \in BtbSet, NEW rank, NEW n, Packed(s, rank, n),
           \A v, w \in WayIds : v # w /\ s[v].addr = s[w].addr => s[v].addr = 0,
           NEW p \in WayIds, NEW a \in Nat \ {0}, Refilled(s, d, rank, p, a), Picks(s, rank, p, a)
    PROVE  \E m : /\ Packed(d, Fronted(rank, p), m)
                  /\ Chain(d) = LruUsed(Chain(s), a, Ways)
<1>0. /\ rank \in Bijection(WayIds, WayIds) /\ n \in 0..Ways /\ Ways \in Nat \ {0}
      /\ \A w \in WayIds : s[w].addr # 0 <=> rank[w] < n
      /\ n \in Nat /\ n <= Ways /\ rank[p] \in Nat /\ rank[p] <= Ways - 1
  <2>1. /\ rank \in Bijection(WayIds, WayIds) /\ n \in 0..Ways /\ Ways \in Nat \ {0}
        /\ \A w \in WayIds : s[w].addr # 0 <=> rank[w] < n
    BY Sizes DEF Packed
  <2>2. rank[p] \in Nat /\ rank[p] <= Ways - 1
    BY <2>1, RankFacts
  <2> QED BY <2>1, <2>2
<1>1. PICK m : Grows(rank, p, n, m)
  <2>1. rank[p] < n => Grows(rank, p, n, n)
    BY <1>0 DEF Grows
  <2>2. rank[p] >= n => rank[p] = Ways - 1
    BY <1>0 DEF Picks
  <2>3. rank[p] >= n => Grows(rank, p, n, n + 1)
    BY <1>0, <2>2 DEF Grows
  <2> QED BY <1>0, <2>1, <2>3
<1> DEFINE new == Fronted(rank, p)
           T == Listed(s, rank, 0, n)
           U == Listed(d, new, 0, m)
<1>2. Packed(d, new, m)
  BY <1>1, RefilledPacked
<1>3. Chain(s) = T /\ Chain(d) = U
  BY <1>2, ChainIs
<1>4. /\ T \in Seq(Nat) /\ Len(T) = n /\ U \in Seq(Nat) /\ Len(U) = m /\ m \in Nat \ {0}
      /\ U[1] = a
      /\ \A k \in 1..m - 1 : U[k + 1] = IF k <= rank[p] THEN T[k] ELSE T[k + 1]
      /\ \A k \in 1..n : T[k] = s[WayAt(rank, k - 1)].addr /\ WayAt(rank, k - 1) \in WayIds
  BY <1>1, RefilledList
<1> HIDE DEF new, T, U
<1>5. \A j, k \in 1..n : T[j] = T[k] => j = k
  <2> SUFFICES ASSUME NEW j \in 1..n, NEW k \in 1..n, T[j] = T[k] PROVE j = k
    OBVIOUS
  <2> DEFINE v == WayAt(rank, j - 1)
             w == WayAt(rank, k - 1)
  <2>1. j - 1 \in WayIds /\ k - 1 \in WayIds
    BY <1>0 DEF WayIds
  <2>2. v \in WayIds /\ rank[v] = j - 1 /\ w \in WayIds /\ rank[w] = k - 1
    BY <1>0, <2>1, WayAtIs
  <2>3. s[v].addr = T[j] /\ s[w].addr = T[k]
    BY <1>4
  <2> HIDE DEF v, w
  <2>4. s[v].addr # 0
    BY <1>0, <2>2
  <2>5. v = w
    BY <2>2, <2>3, <2>4
  <2> QED BY <1>0, <2>2, <2>5
<1>6. U = LruUsed(T, a, Ways)
  <2>1. CASE s[p].addr = a
    <3> DEFINE o == rank[p] + 1
               x == RemoveFirst(T, a)
    <3>1. rank[p] < n /\ m = n
      BY <1>0, <1>1, <2>1 DEF Grows
    <3>2. o \in 1..n /\ o - 1 = rank[p]
      BY <1>0, <3>1
    <3>3. WayAt(rank, rank[p]) = p
      BY <1>0, WayAtIs
    <3>4. T[o] = a
      BY <1>4, <2>1, <3>2, <3>3
    <3> DEFINE A == {T[k] : k \in 1..n}
    <3>5. Holds(T, A)
      <4>1. T \in Seq(A)
        <5>1. T = [k \in 1..n |-> T[k]] /\ \A k \in 1..n : T[k] \in A
          BY <1>4
        <5> HIDE DEF A
        <5> QED BY <1>0, <5>1
      <4> QED BY <1>4, <1>5, <4>1 DEF Holds
    <3>6. a \in A
      BY <3>2, <3>4
    <3>7. A \subseteq Nat
      BY <1>4
    <3> HIDE DEF A, x, o
    <3>8. /\ Holds(x, A \ {a}) /\ Len(x) = Len(T) - 1
          /\ \E k \in 1..Len(T) : T[k] = a /\ Without(x, T, k)
      BY <3>5, <3>6, Unlinked DEF x
    <3>9. Without(x, T, o)
      BY <1>4, <1>5, <3>2, <3>4, <3>8
    <3>10. x \in Seq(Nat)
      <4>1. x \in Seq(A \ {a})
        BY <3>8 DEF Holds
      <4>2. /\ x = [j \in 1..Len(x) |-> x[j]] /\ Len(x) \in Nat
            /\ \A j \in 1..Len(x) : x[j] \in A
        BY <4>1
      <4> QED BY <3>7, <4>2
    <3>11. Headed(x, U, a)
      <4>1. Len(U) = Len(x) + 1
        BY <1>0, <1>4, <3>1, <3>8
      <4>2. ASSUME NEW k \in 1..Len(x) PROVE U[k + 1] = x[k]
        <5>1. k \in 1..m - 1 /\ k \in 1..Len(T) - 1 /\ (k < o <=> k <= rank[p])
          <6>1. Len(x) = n - 1 /\ Len(T) = n /\ m = n /\ n \in Nat
            BY <1>0, <1>4, <3>1, <3>8
          <6>2. o = rank[p] + 1 /\ rank[p] \in Nat
            BY <1>0 DEF o
          <6>3. k \in 1..n - 1
            BY <6>1
          <6> QED BY <6>1, <6>2, <6>3
        <5>2. x[k] = IF k < o THEN T[k] ELSE T[k + 1]
          BY <3>9, <5>1 DEF Without
        <5>3. U[k + 1] = IF k <= rank[p] THEN T[k] ELSE T[k + 1]
          BY <1>4, <5>1
        <5> QED BY <5>1, <5>2, <5>3
      <4> QED BY <1>4, <4>1, <4>2 DEF Headed
    <3>12. U = <<a>> \o x
      BY <1>4, <3>10, <3>11, HeadThen
    <3>13. Contains(T, a)
      BY <1>4, <3>2, <3>4 DEF Contains
    <3> QED BY <3>12, <3>13 DEF LruUsed, x
  <2>2. CASE s[p].addr # a
    <3>1. rank[p] = Ways - 1 /\ \A w \in WayIds : s[w].addr # a
      BY <2>2 DEF Picks
    <3>2. ~Contains(T, a)
      <4>1. \A k \in 1..n : T[k] # a
        BY <1>4, <3>1
      <4> QED BY <1>4, <4>1 DEF Contains
    <3>3. CASE n < Ways
      <4>1. m = n + 1
        BY <1>0, <1>1, <3>1, <3>3 DEF Grows
      <4>2. Headed(T, U, a)
        <5>1. Len(U) = Len(T) + 1
          BY <1>4, <4>1
        <5>2. ASSUME NEW k \in 1..Len(T) PROVE U[k + 1] = T[k]
          <6>1. k \in 1..m - 1 /\ k <= rank[p]
            BY <1>0, <1>4, <3>1, <3>3, <4>1
          <6> QED BY <1>4, <6>1
        <5> QED BY <1>4, <5>1, <5>2 DEF Headed
      <4>3. U = <<a>> \o T
        BY <1>4, <4>2, HeadThen
      <4> QED BY <1>4, <3>2, <3>3, <4>3 DEF LruUsed
    <3>4. CASE n = Ways
      <4> DEFINE x == SubSeq(T, 1, n - 1)
      <4>1. m = n
        BY <1>0, <1>1, <3>1, <3>4 DEF Grows
      <4>2. x \in Seq(Nat) /\ Len(x) = n - 1 /\ \A k \in 1..n - 1 : x[k] = T[k]
        BY <1>0, <1>4, <3>4
      <4>3. Headed(x, U, a)
        <5>1. Len(U) = Len(x) + 1
          BY <1>0, <1>4, <4>1, <4>2
        <5>2. ASSUME NEW k \in 1..Len(x) PROVE U[k + 1] = x[k]
          <6>1. k \in 1..m - 1 /\ k <= rank[p] /\ k \in 1..n - 1
            BY <1>0, <1>4, <3>1, <3>4, <4>1, <4>2
          <6> QED BY <1>4, <4>2, <6>1
        <5> QED BY <1>4, <5>1, <5>2 DEF Headed
      <4> HIDE DEF x
      <4>4. U = <<a>> \o x
        BY <1>4, <4>2, <4>3, HeadThen
      <4>5. Front(T) = x /\ ~(Len(T) < Ways)
        BY <1>0, <1>4, <3>4 DEF Front, x
      <4> QED BY <3>2, <4>4, <4>5 DEF LruUsed
    <3> QED BY <1>0, <3>3, <3>4
  <2> QED BY <2>1, <2>2
<1> QED BY <1>2, <1>3, <1>6 DEF new

-----------------------------------------------------------------------------
\* The ways in use come first in the chain of every set.
BtbPacked == \A s \in Bits(SetBits) : \E rank, n : Packed(btb[s], rank, n)

LEMMA UpdateUses ==
    ASSUME NEW a \in Nat \ {0}, NEW target \in Nat, NEW correct \in BOOLEAN, BpredInv,
           NEW rank, NEW n, Packed(btb[SetOf(a)], rank, n)
    PROVE  /\ \E new, m : Packed(UpdatedSet(a, target, correct), new, m)
           /\ Chain(UpdatedSet(a, target, correct)) = LruUsed(Chain(btb[SetOf(a)]), a, Ways)
<1> DEFINE s == btb[SetOf(a)]
           d == UpdatedSet(a, target, correct)
           p == Victim(a)
<1>1. SetOf(a) \in Bits(SetBits) /\ s \in BtbSet /\ p \in WayIds
  BY VictimFound, IndexTyped DEF BpredInv, BpredTypeOK, SetOf, BtbSet
<1>2. rank \in Bijection(WayIds, WayIds) /\ ChainOf(s, rank)
  BY DEF Packed
<1>3. d \in BtbSet /\ Refilled(s, d, rank, p, a)
  BY <1>2, UpdatedSetIs DEF Refilled
<1>4. \A v, w \in WayIds : v # w /\ s[v].addr = s[w].addr => s[v].addr = 0
  BY <1>1 DEF BpredInv, BtbNoDuplicate
<1>5. Picks(s, rank, p, a)
  <2>1. CASE Matches(a) # {}
    <3>1. p \in Matches(a)
      BY <2>1, OneMatch DEF Victim, BpredInv
    <3> QED BY <1>1, <3>1 DEF Picks, Matches
  <2>2. CASE Matches(a) = {}
    <3>1. p = LruItem(s)
      BY <2>2 DEF Victim
    <3>2. rank[p] = Ways - 1
      BY <1>1, <1>2, <3>1, ChainEnds
    <3> QED BY <1>1, <2>2, <3>2 DEF Picks, Matches
  <2> QED BY <2>1, <2>2
<1> HIDE DEF s, d, p
<1>6. \E m : Packed(d, Fronted(rank, p), m) /\ Chain(d) = LruUsed(Chain(s), a, Ways)
  <2>1. Packed(s, rank, n)
    BY DEF s
  <2> QED BY <1>1, <1>3, <1>4, <1>5, <2>1, RefilledUses
<1> QED BY <1>6 DEF s, d

\* The tags of the BTB as LruSets remembers them.
Chains == [s \in Bits(SetBits) |-> Chain(btb[s])]

LEMMA InitPacked == BpredInit => BtbPacked /\ Chains = [s \in Bits(SetBits) |-> << >>]
<1> SUFFICES ASSUME BpredInit, NEW s \in Bits(SetBits)
             PROVE  (\E rank, n : Packed(btb[s], rank, n)) /\ Chain(btb[s]) = << >>
  BY DEF BtbPacked, Chains
<1> DEFINE id == [w \in WayIds |-> w]
<1>1. /\ btb[s] = [w \in WayIds |-> [addr |-> 0, target |-> 0, prev |-> w - 1,
                                    next |-> IF w = Ways - 1 THEN Nil ELSE w + 1]]
  BY DEF BpredInit
<1>2. Ways \in Nat \ {0}
  BY Sizes
<1>3. btb[s] \in BtbSet
  BY <1>1, <1>2 DEF BtbSet, BtbEntry, WayIds, Nil
<1>4. id \in Bijection(WayIds, WayIds)
  BY <1>2 DEF Bijection, Injection, Surjection, IsInjective, WayIds
<1>5. ChainOf(btb[s], id)
  BY <1>1, <1>2, <1>4 DEF ChainOf, WayIds, Nil
<1>6. Packed(btb[s], id, 0)
  BY <1>1, <1>2, <1>4, <1>5 DEF Packed, WayIds
<1> HIDE DEF id
<1>7. Chain(btb[s]) = Listed(btb[s], id, 0, 0)
  BY <1>3, <1>6, ChainIs
<1>8. Listed(btb[s], id, 0, 0) = << >>
  <2>1. 0 \in Nat /\ 0 \in 0..Ways /\ 0 <= 0
    BY <1>2
  <2> QED BY <1>3, <1>4, <2>1, ListedFrom
<1> QED BY <1>6, <1>7, <1>8

\* One instruction: a branch that is taken and trained is used, and nothing else concerns the BTB.
LEMMA ControlStep ==
    ASSUME SimInv, BtbPacked, NEW b \in Branches, NEW next \in Outcomes(b), ControlInst(b, next)
    PROVE  BtbPacked' /\ Lru!LruNext
<1> DEFINE upd == DirUpdate(b)
           correct == PredictedPC(b, next, upd) = next
           taken == next # b.pc + InstSize
           S == SetOf(b.pc)
           d == UpdatedSet(b.pc, next, correct)
           used == Stateful /\ taken /\ ~Pops(b)
<1>1. BpredInv /\ SimTypeOK /\ next \in Nat /\ b.pc \in Nat \ {0} /\ correct \in BOOLEAN
  BY OutcomeTyped, BranchFields DEF SimInv, SimTypeOK, BpredInv
<1>2. streak'.pc = b.pc /\ streak'.taken = taken
  BY DEF ControlInst, Program
<1>3. S \in Bits(SetBits) /\ btb \in [Bits(SetBits) -> BtbSet]
  BY <1>1, IndexTyped DEF SetOf, BpredInv, BpredTypeOK, BtbSet
<1>4. Asked' = IF used THEN <<"use", S, b.pc>> ELSE << >>
  <2>1. \A c \in Branches : c.pc = b.pc => c = b
    BY TextAssumption
  <2>2. (\A c \in Branches : c.pc = streak'.pc => ~Pops(c)) <=> ~Pops(b)
    BY <1>2, <2>1
  <2>3. Stateful' = Stateful /\ \A c \in Branches : Pops(c)' = Pops(c)
    BY DEF Stateful, Pops
  <2>4. SetOf(streak'.pc) = S
    BY <1>2
  <2> QED BY <1>2, <2>2, <2>3, <2>4 DEF Asked, SetOf, LowBits, AddrBit
<1>5. btb' = IF used THEN [btb EXCEPT ![S] = d] ELSE btb
  <2>1. upd.ras <=> Pops(b)
    BY <1>1, DirUpdateTyped DEF BpredInv
  <2>2. Pops(b) => IsIndir(b)
    BY DEF Pops, IsReturn, IsIndir
  <2>3. Train(b, next, taken, correct, upd)
    BY DEF ControlInst
  <2> HIDE DEF upd, taken, correct
  <2> QED BY <2>1, <2>2, <2>3 DEF Train
<1> HIDE DEF used, correct
<1>6. CASE used
  <2>1. PICK rank, n : Packed(btb[S], rank, n)
    BY <1>3 DEF BtbPacked
  <2>2. (\E new, m : Packed(d, new, m)) /\ Chain(d) = LruUsed(Chain(btb[S]), b.pc, Ways)
    BY <1>1, <2>1, UpdateUses
  <2> HIDE DEF d, S
  <2>3. \A s \in Bits(SetBits) : btb'[s] = IF s = S THEN d ELSE btb[s]
    BY <1>3, <1>5, <1>6
  <2>4. BtbPacked'
    BY <2>2, <2>3 DEF BtbPacked
  <2>5. Chains' = [Chains EXCEPT ![S] = Lru!Touched(Chains[S], b.pc)]
    <3>1. Chains[S] = Chain(btb[S]) /\ DOMAIN Chains = Bits(SetBits)
      BY <1>3 DEF Chains
    <3>2. Chain(d) = Lru!Touched(Chains[S], b.pc)
      BY <2>2, <3>1, LruTouchedIs
    <3>3. \A s \in Bits(SetBits) : Chain(btb'[s]) = IF s = S THEN Chain(d) ELSE Chain(btb[s])
      BY <2>3
    <3>4. Chains' = [s \in Bits(SetBits) |-> Chain(btb'[s])]
      BY DEF Chains, Chain
    <3> QED BY <1>3, <3>2, <3>3, <3>4 DEF Chains
  <2>6. Lru!Use(S, b.pc)
    BY <1>4, <1>6, <2>5 DEF Lru!Use, Lru!ToUse, Chains
  <2> QED BY <1>3, <2>4, <2>6 DEF Lru!LruNext
<1>7. CASE ~used
  <2>1. BtbPacked' /\ Chains' = Chains
    BY <1>5, <1>7 DEF BtbPacked, Chains
  <2>2. Lru!Rest
    BY <1>4, <1>7, <2>1 DEF Lru!Rest, Lru!Nothing, Chains
  <2> QED BY <2>1, <2>2 DEF Lru!LruNext
<1> QED BY <1>6, <1>7

\* The BTB is the store LruSets promises: each set holds the branches taken last, in the order in
\* which they last came, and a branch entered replaces the one taken longest ago.
THEOREM SimImplementsLru == SimSpec => BtbImplementsLru
<1>1. SimInit => BtbPacked /\ Lru!LruInit
  <2> SUFFICES ASSUME SimInit PROVE BtbPacked /\ Lru!LruInit
    OBVIOUS
  <2>1. BtbPacked /\ Chains = [s \in Bits(SetBits) |-> << >>]
    BY InitPacked DEF SimInit
  <2>2. Asked = << >>
    BY DEF SimInit, NoBranch, Asked
  <2> QED BY <2>1, <2>2 DEF Lru!LruInit, Lru!Nothing, Chains
<1>2. SimInv /\ BtbPacked /\ [SimNext]_simVars => BtbPacked' /\ [Lru!LruNext]_(<<Chains, Asked>>)
  <2> SUFFICES ASSUME SimInv, BtbPacked, [SimNext]_simVars
               PROVE  BtbPacked' /\ [Lru!LruNext]_(<<Chains, Asked>>)
    OBVIOUS
  <2>1. CASE SimNext
    BY <2>1, ControlStep DEF SimNext
  <2>2. CASE UNCHANGED simVars
    BY <2>2 DEF simVars, bpredVars, programVars, BtbPacked, Chains, Asked
  <2> QED BY <2>1, <2>2
<1> QED BY <1>1, <1>2, SimInvariant, PTL
     DEF SimSpec, BtbImplementsLru, Lru!LruSpec, Lru!storeVars, Chains
=============================================================================
