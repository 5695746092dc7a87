------------------------------ MODULE RuuProofs ------------------------------
(***************************************************************************)
(* The execution core of sim-outorder, proved for queues of any size,      *)
(* units, latencies and programs of any kind, as long as no sanity check   *)
(* of the simulator has stopped it (NoPanic: the pool of links may always  *)
(* be too small).                                                          *)
(***************************************************************************)
EXTENDS RuuProps, ListLemmas

-----------------------------------------------------------------------------
(* The inductive invariant.                                                *)

\* TypeOK, but for the bound of the free links, which LinksConserved gives.
Typed ==
    /\ ruu_inorder_issue \in InOrders /\ bugcompat_mode \in BugCompats /\ program \in Programs
    /\ st \in [Stations -> StationType]
    /\ create_vector \in [Regs \cup {DTMP} -> CvType]
    /\ spec_create_vector \in [Regs \cup {DTMP} -> CvType]
    /\ use_spec_cv \subseteq Regs \cup {DTMP}
    /\ ready_queue \in Seq(LinkType) /\ event_queue \in Seq(LinkType) /\ scan \in Seq(LinkType)
    /\ rslinks \in Nat
    /\ busy \in [Units -> Nat]
    /\ last_op \in LinkType
    /\ spec_mode \in BOOLEAN
    /\ inst_seq \in 0..MaxInsts /\ count \in Nat
    /\ stage \in {"commit", "writeback", "lsq_refresh", "issue", "dispatch", "fetch"}

Rings == Ring(RUU_head, RUU_tail, RUU_num, RUU_size) /\ Ring(LSQ_head, LSQ_tail, LSQ_num, LSQ_size)

\* The events are in the order they are due, and none is overdue once writeback is over.
EventsInOrder ==
    /\ \A i, j \in 1..Len(event_queue) : i < j => event_queue[i].x <= event_queue[j].x
    /\ stage \notin {"commit", "writeback"} => \A i \in 1..Len(event_queue) : event_queue[i].x >= 1

\* The list ruu_issue works through is used up when it is done.
Scanned == stage # "issue" => scan = << >>

\* A link is to a station, older than what the station holds now, or to a live instruction.
GoodLink(l) == /\ l.rs \in Stations /\ l.tag <= st[l.rs].tag
               /\ Valid(l) => l.rs \in Live /\ st[l.rs].seq = l.seq
LinksGood == \A l \in AllLinks : GoodLink(l)

\* Accesses are in the LSQ, each paired with its address computation in the RUU.
Paired ==
    /\ \A n \in 1..RUU_num : ~InLSQ(st[RuuLive[n]])
    /\ \A n \in 1..LSQ_num : InLSQ(st[LsqLive[n]])
    /\ Agens(RUU_num) = LSQ_num
    /\ \A n \in 1..RUU_num : EaComp(st[RuuLive[n]]) =>
           /\ Agens(n) \in 1..LSQ_num
           /\ st[LsqLive[Agens(n)]].seq = st[RuuLive[n]].seq + 1
           /\ st[LsqLive[Agens(n)]].spec = st[RuuLive[n]].spec

Pends(r) == r.recover /\ ~r.completed

\* Where a mispredicted path begins, if the machine is on one.
OnePath ==
    IF spec_mode
    THEN \E o \in 1..RUU_num :
            /\ \A n \in 1..RUU_num : /\ Pends(st[RuuLive[n]]) <=> n = o
                                     /\ st[RuuLive[n]].spec <=> n > o
            /\ \A n \in 1..LSQ_num : st[LsqLive[n]].spec <=> n > Agens(o)
    ELSE /\ \A n \in 1..RUU_num : ~Pends(st[RuuLive[n]]) /\ ~st[RuuLive[n]].spec
         /\ \A n \in 1..LSQ_num : ~st[LsqLive[n]].spec

\* Stores need a unit to commit and create nothing; no address computation or access is mispredicted.
KindsSound ==
    \A id \in Stations : /\ st[id].kind = "store" => /\ st[id].class \in DOMAIN FuClass
                                                     /\ \A k \in Outs : st[id].onames[k] = NA
                         /\ EaComp(st[id]) \/ InLSQ(st[id]) => ~st[id].recover

\* What entry e for register r names: a live incomplete instruction that creates r.
Names(e, r) == e.rs # Null => /\ e.rs \in Live /\ ~st[e.rs].completed
                              /\ st[e.rs].onames[e.odep] = r
VectorsSound ==
    /\ \A r \in Regs \cup {DTMP} :
           Names(create_vector[r], r) /\ (create_vector[r].rs # Null => ~st[create_vector[r].rs].spec)
    /\ \A r \in use_spec_cv :
           Names(spec_create_vector[r], r)
           /\ (spec_create_vector[r].rs # Null => st[spec_create_vector[r].rs].spec)

\* Only live incomplete instructions have links on their outputs.
ChainsSound ==
    \A id \in Stations : \A k \in Outs :
        st[id].odeps[k] # << >> => id \in Live /\ ~st[id].completed /\ st[id].onames[k] # NA

RuuCore ==
    /\ Typed /\ Rings /\ EventsInOrder /\ Scanned /\ LinksGood /\ Paired /\ OnePath
    /\ KindsSound /\ VectorsSound /\ ChainsSound /\ LinksConserved

\* The invariant holds of a machine that runs.
RuuInv == NoPanic => RuuCore

-----------------------------------------------------------------------------
(* Lists.                                                                  *)

\* readyq_enqueue finds a place for every link.
LEMMA InsertReadyPuts ==
    ASSUME NEW q \in Seq(LinkType), NEW l \in LinkType, NEW first
    PROVE  \E n \in 0..Len(q) : InsertReady(q, l, first) = Put(q, l, n)
<1> DEFINE fits(k) == /\ \A i \in 1..k : q[i].seq < l.seq
                      /\ k < Len(q) => q[k + 1].seq >= l.seq
           n == IF first THEN 0 ELSE CHOOSE k \in 0..Len(q) : fits(k)
<1>1. \E k \in 0..Len(q) : fits(k)
  <2> DEFINE S == {k \in 0..Len(q) : k < Len(q) => q[k + 1].seq >= l.seq}
  <2>1. Len(q) \in S /\ S \subseteq Nat
    OBVIOUS
  <2>2. PICK k \in S : \A m \in S : k <= m
    BY <2>1, LeastOf
  <2>3. ASSUME NEW i \in 1..k PROVE q[i].seq < l.seq
    <3>1. i - 1 \in 0..Len(q) /\ i - 1 < Len(q) /\ i - 1 < k /\ i - 1 + 1 = i
      BY <2>2
    <3>2. i - 1 \notin S
      BY <2>2, <3>1
    <3>3. ~(q[i].seq >= l.seq)
      BY <3>1, <3>2
    <3>4. q[i] \in LinkType
      BY <3>1
    <3>5. q[i].seq \in Nat /\ l.seq \in Nat
      BY <3>4 DEF LinkType
    <3> QED BY <3>3, <3>5
  <2> QED BY <2>2, <2>3
<1>2. (CHOOSE k \in 0..Len(q) : fits(k)) \in 0..Len(q)
  BY <1>1
<1>3. 0 \in 0..Len(q)
  OBVIOUS
<1>4. n \in 0..Len(q)
  BY <1>2, <1>3
<1>5. InsertReady(q, l, first) = Put(q, l, n)
  BY DEF InsertReady, Put
<1> QED BY <1>4, <1>5

LEMMA InsertReadyIs ==
    ASSUME NEW q \in Seq(LinkType), NEW l \in LinkType, NEW first
    PROVE  /\ InsertReady(q, l, first) \in Seq(LinkType)
           /\ Len(InsertReady(q, l, first)) = Len(q) + 1
           /\ ToSet(InsertReady(q, l, first)) = ToSet(q) \cup {l}
<1>1. PICK n \in 0..Len(q) : InsertReady(q, l, first) = Put(q, l, n)
  BY InsertReadyPuts
<1>2. Put(q, l, n) \in Seq(LinkType) /\ PutIn(Put(q, l, n), q, l, n)
  BY Putting
<1>3. ToSet(Put(q, l, n)) = ToSet(q) \cup {l}
  BY PutSet
<1>4. Len(Put(q, l, n)) = Len(q) + 1
  BY <1>2 DEF PutIn
<1> QED BY <1>1, <1>2, <1>3, <1>4

\* The queue after each of the stations ids is entered.
Enqueuing(after, s, q, ids) ==
    /\ after[0] = q
    /\ \A n \in 1..Len(ids) : after[n] = InsertReady(after[n - 1], LinkTo(s, ids[n], 0), s[ids[n]].first)

LEMMA EnqueueSteps ==
    ASSUME NEW s, NEW q, NEW ids, Len(ids) \in Nat
    PROVE  \E after : Enqueuing(after, s, q, ids) /\ EnqueueAll(s, q, ids) = after[Len(ids)]
<1> DEFINE next(x, n) == InsertReady(x, LinkTo(s, ids[n], 0), s[ids[n]].first)
           Steps(f, m) == f = [n \in 0..m |-> IF n = 0 THEN q ELSE next(f[n - 1], n)]
           after[n \in 0..Len(ids)] ==
               IF n = 0 THEN q ELSE InsertReady(after[n - 1], LinkTo(s, ids[n], 0), s[ids[n]].first)
<1>1. \A m \in Nat : \E f : Steps(f, m)
  <2> DEFINE S == {m \in Nat : \E f : Steps(f, m)}
  <2> HIDE DEF next
  <2>1. 0 \in S
    <3>1. Steps([n \in 0..0 |-> q], 0)
      OBVIOUS
    <3> QED BY <3>1
  <2>2. ASSUME NEW m \in Nat, m \in S PROVE m + 1 \in S
    <3>1. PICK f : Steps(f, m)
      BY <2>2
    <3> DEFINE g == [n \in 0..m + 1 |-> IF n = m + 1 THEN next(f[m], m + 1) ELSE f[n]]
    <3>2. ASSUME NEW n \in 0..m + 1 PROVE g[n] = IF n = 0 THEN q ELSE next(g[n - 1], n)
      <4>1. CASE n = m + 1
        BY <4>1
      <4>2. CASE n # m + 1
        <5>1. n \in 0..m /\ (n # 0 => n - 1 \in 0..m + 1 /\ n - 1 # m + 1)
          BY <4>2
        <5>2. f[n] = IF n = 0 THEN q ELSE next(f[n - 1], n)
          BY <3>1, <5>1
        <5> QED BY <5>1, <5>2
      <4> QED BY <4>1, <4>2
    <3> HIDE DEF next
    <3>3. Steps(g, m + 1)
      BY <3>2
    <3> HIDE DEF Steps, g
    <3>4. \E h : Steps(h, m + 1)
      BY <3>3
    <3>5. m + 1 \in Nat
      OBVIOUS
    <3> QED BY <3>4, <3>5
  <2> HIDE DEF S
  <2>3. Nat \subseteq S
    BY <2>1, <2>2, NatSetInduction
  <2> QED BY <2>3 DEF S
<1>2. Steps(after, Len(ids))
  <2>1. \E f : Steps(f, Len(ids))
    BY <1>1
  <2> QED BY <2>1
<1>3. EnqueueAll(s, q, ids) = after[Len(ids)]
  BY DEF EnqueueAll
<1> HIDE DEF after
<1>4. after[0] = q
  BY <1>2
<1>5. ASSUME NEW n \in 1..Len(ids) PROVE after[n] = next(after[n - 1], n)
  <2>1. n \in 0..Len(ids) /\ n # 0
    OBVIOUS
  <2> HIDE DEF next
  <2> QED BY <1>2, <2>1
<1>6. Enqueuing(after, s, q, ids)
  BY <1>4, <1>5 DEF Enqueuing
<1> QED BY <1>3, <1>6

LEMMA EnqueueAllIs ==
    ASSUME NEW s, NEW q \in Seq(LinkType), NEW ids, Len(ids) \in Nat,
           \A n \in 1..Len(ids) : LinkTo(s, ids[n], 0) \in LinkType
    PROVE  /\ EnqueueAll(s, q, ids) \in Seq(LinkType)
           /\ Len(EnqueueAll(s, q, ids)) = Len(q) + Len(ids)
           /\ ToSet(EnqueueAll(s, q, ids)) = ToSet(q) \cup {LinkTo(s, ids[n], 0) : n \in 1..Len(ids)}
<1>1. PICK after : Enqueuing(after, s, q, ids) /\ EnqueueAll(s, q, ids) = after[Len(ids)]
  BY EnqueueSteps
<1> DEFINE links(n) == {LinkTo(s, ids[i], 0) : i \in 1..n}
           Right(x, n) == x \in Seq(LinkType) /\ Len(x) = Len(q) + n /\ ToSet(x) = ToSet(q) \cup links(n)
           R == {n \in Nat : n <= Len(ids) => Right(after[n], n)}
<1>4. 0 \in R
  <2>1. after[0] = q
    BY <1>1 DEF Enqueuing
  <2>2. links(0) = {}
    OBVIOUS
  <2> HIDE DEF links
  <2> QED BY <2>1, <2>2
<1>5. ASSUME NEW n \in Nat, n \in R PROVE n + 1 \in R
  <2> SUFFICES ASSUME n + 1 <= Len(ids) PROVE Right(after[n + 1], n + 1)
    OBVIOUS
  <2>1. n + 1 \in 1..Len(ids) /\ n + 1 \in 0..Len(ids) /\ n + 1 # 0 /\ (n + 1) - 1 = n /\ n <= Len(ids)
    OBVIOUS
  <2> DEFINE l == LinkTo(s, ids[n + 1], 0)
             x == after[n]
             y == after[n + 1]
  <2>2. y = InsertReady(x, l, s[ids[n + 1]].first)
    BY <1>1, <2>1 DEF Enqueuing
  <2>3. Right(x, n)
    BY <1>5, <2>1
  <2>4. l \in LinkType
    BY <2>1
  <2>5. links(n + 1) = links(n) \cup {l}
    <3>1. 1..n + 1 = (1..n) \cup {n + 1}
      BY <2>1
    <3> QED BY <3>1
  <2> HIDE DEF links, l, x, y
  <2>6. y \in Seq(LinkType) /\ Len(y) = Len(x) + 1 /\ ToSet(y) = ToSet(x) \cup {l}
    BY <2>2, <2>3, <2>4, InsertReadyIs
  <2>7. Right(y, n + 1)
    BY <2>3, <2>5, <2>6
  <2> QED BY <2>7 DEF y
<1> HIDE DEF R
<1>6. Nat \subseteq R
  BY <1>4, <1>5, NatSetInduction
<1>7. Right(after[Len(ids)], Len(ids))
  <2>1. Len(ids) \in R /\ Len(ids) <= Len(ids)
    BY <1>6
  <2> HIDE DEF Right
  <2> QED BY <2>1 DEF R
<1> QED BY <1>1, <1>7

\* eventq_queue_event keeps the events in the order they are due.
InOrderOfTime(q) == \A i, j \in 1..Len(q) : i < j => q[i].x <= q[j].x

LEMMA InsertEventIs ==
    ASSUME NEW q \in Seq(LinkType), InOrderOfTime(q), NEW l \in LinkType
    PROVE  /\ InsertEvent(q, l) \in Seq(LinkType) /\ Len(InsertEvent(q, l)) = Len(q) + 1
           /\ ToSet(InsertEvent(q, l)) = ToSet(q) \cup {l}
           /\ InOrderOfTime(InsertEvent(q, l))
<1> DEFINE S == {i \in DOMAIN q : q[i].x < l.x}
           n == Cardinality(S)
           r == InsertEvent(q, l)
<1>1. Len(q) \in Nat /\ DOMAIN q = 1..Len(q) /\ l.x \in Nat /\ \A i \in 1..Len(q) : q[i] \in LinkType /\ q[i].x \in Nat
  <2>1. Len(q) \in Nat /\ DOMAIN q = 1..Len(q) /\ \A i \in 1..Len(q) : q[i] \in LinkType
    OBVIOUS
  <2>2. \A m \in LinkType : m.x \in Nat
    BY DEF LinkType
  <2> QED BY <2>1, <2>2
<1>2. PICK k \in 0..Len(q) : S = 1..k
  <2> DEFINE G == {k \in 0..Len(q) : k < Len(q) => ~(q[k + 1].x < l.x)}
  <2>1. Len(q) \in G /\ G \subseteq Nat
    BY <1>1
  <2>2. PICK k \in G : \A m \in G : k <= m
    BY <2>1, LeastOf
  <2>3. ASSUME NEW i \in 1..k PROVE i \in S
    <3>1. i - 1 \in 0..Len(q) /\ i - 1 < Len(q) /\ i - 1 < k /\ i - 1 + 1 = i
      BY <1>1, <2>2
    <3>2. i - 1 \notin G
      BY <2>2, <3>1
    <3> QED BY <1>1, <3>1, <3>2
  <2>4. ASSUME NEW i \in S PROVE i \in 1..k
    <3>1. i \in 1..Len(q) /\ q[i].x < l.x
      BY <1>1
    <3> SUFFICES ASSUME i > k PROVE FALSE
      BY <1>1, <3>1
    <3>2. k + 1 \in 1..Len(q) /\ ~(q[k + 1].x < l.x)
      BY <1>1, <3>1
    <3>3. q[k + 1].x <= q[i].x
      BY <1>1, <3>1, <3>2 DEF InOrderOfTime
    <3> QED BY <1>1, <3>1, <3>2, <3>3
  <2>5. S = 1..k
    BY <2>3, <2>4
  <2> QED BY <2>5
<1>3. n = k
  <2>1. Cardinality(1..k) = IF 1 > k THEN 0 ELSE k - 1 + 1
    BY FS_Interval
  <2>2. Cardinality(1..k) = k
    BY <2>1
  <2> HIDE DEF S
  <2>3. Cardinality(S) = k
    BY <1>2, <2>2
  <2> QED BY <2>3
<1>4. r = Put(q, l, n)
  BY DEF InsertEvent, Put
<1>5. \A i \in 1..Len(q) : q[i].x < l.x <=> i <= k
  BY <1>1, <1>2
<1> HIDE DEF n, r, S
<1>6. r \in Seq(LinkType) /\ PutIn(r, q, l, k) /\ ToSet(r) = ToSet(q) \cup {l}
  BY <1>3, <1>4, Putting, PutSet
<1>7. ASSUME NEW i \in 1..Len(r), NEW j \in 1..Len(r), i < j PROVE r[i].x <= r[j].x
  <2>1. \A m \in 1..k : m \in 1..Len(q) /\ r[m] = q[m] /\ q[m].x < l.x /\ q[m].x \in Nat
    BY <1>1, <1>5, <1>6 DEF PutIn
  <2>2. \A m \in k + 2..Len(r) : m - 1 \in 1..Len(q) /\ r[m] = q[m - 1] /\ ~(q[m - 1].x < l.x) /\ q[m - 1].x \in Nat
    <3> TAKE m \in k + 2..Len(r)
    <3>1. m - 1 \in k + 1..Len(q) /\ m - 1 \in 1..Len(q) /\ m - 1 + 1 = m /\ ~(m - 1 <= k)
      BY <1>1, <1>6 DEF PutIn
    <3> QED BY <1>1, <1>5, <1>6, <3>1 DEF PutIn
  <2>3. r[k + 1] = l
    BY <1>6 DEF PutIn
  <2>4. CASE j <= k
    <3>1. r[i] = q[i] /\ r[j] = q[j] /\ i \in 1..Len(q) /\ j \in 1..Len(q)
      BY <1>7, <2>1, <2>4
    <3> QED BY <1>7, <3>1 DEF InOrderOfTime
  <2>5. CASE i >= k + 2
    <3>1. r[i] = q[i - 1] /\ r[j] = q[j - 1] /\ i - 1 \in 1..Len(q) /\ j - 1 \in 1..Len(q) /\ i - 1 < j - 1
      BY <1>7, <2>2, <2>5
    <3> QED BY <3>1 DEF InOrderOfTime
  <2>6. CASE i <= k /\ j = k + 1
    <3>1. r[i].x < l.x /\ r[i].x \in Nat /\ r[j] = l
      BY <2>1, <2>3, <2>6
    <3> QED BY <1>1, <3>1
  <2>7. CASE i = k + 1 /\ j >= k + 2
    <3>1. r[i] = l /\ ~(r[j].x < l.x) /\ r[j].x \in Nat
      BY <2>2, <2>3, <2>7
    <3> QED BY <1>1, <3>1
  <2>8. CASE i <= k /\ j >= k + 2
    <3>1. r[i].x < l.x /\ r[i].x \in Nat /\ ~(r[j].x < l.x) /\ r[j].x \in Nat
      BY <2>1, <2>2, <2>8
    <3> QED BY <1>1, <3>1
  <2> QED BY <1>7, <2>4, <2>5, <2>6, <2>7, <2>8
<1>8. InOrderOfTime(r)
  BY <1>7 DEF InOrderOfTime
<1> QED BY <1>6, <1>8 DEF r, PutIn

\* InOrder lists a finite set of numbers, each once.
LEMMA InOrderIs ==
    ASSUME NEW S, S \subseteq Nat, IsFiniteSet(S)
    PROVE  /\ Cardinality(S) \in Nat /\ Len(InOrder(S)) = Cardinality(S)
           /\ DOMAIN InOrder(S) = 1..Cardinality(S)
           /\ \A n \in 1..Cardinality(S) : InOrder(S)[n] \in S
           /\ \A m, n \in 1..Cardinality(S) : InOrder(S)[m] = InOrder(S)[n] => m = n
           /\ \A i \in S : \E n \in 1..Cardinality(S) : InOrder(S)[n] = i
<1> DEFINE R == {p \in S \X S : p[1] < p[2]}
           N == Cardinality(S)
           O == InOrder(S)
           rank == Rank(S, R)
<1>1. \A i, j \in S : <<i, j>> \in R <=> i < j
  OBVIOUS
<1>2. \A i \in S : {j \in S : <<j, i>> \in R} = {j \in S : j < i}
  BY <1>1
<1> HIDE DEF R
<1>3. /\ N \in Nat
      /\ \A p \in S : rank[p] \in 0..N - 1
      /\ \A p, q \in S : rank[p] = rank[q] => p = q
      /\ \A n \in 0..N - 1 : \E p \in S : rank[p] = n
  <2>1. \A p \in S : <<p, p>> \notin R
    BY <1>1
  <2>2. \A p, q, r \in S : <<p, q>> \in R /\ <<q, r>> \in R => <<p, r>> \in R
    BY <1>1
  <2>3. \A p, q \in S : p # q => <<p, q>> \in R \/ <<q, p>> \in R
    BY <1>1
  <2> QED BY <2>1, <2>2, <2>3, Ranks
<1>4. \A i \in S : rank[i] = Cardinality({j \in S : j < i})
  BY <1>2 DEF Rank
<1> HIDE DEF rank, N
<1>5. O = [n \in 1..N |-> CHOOSE i \in S : Cardinality({j \in S : j < i}) = n - 1]
  BY DEF InOrder, N
<1> HIDE DEF O
<1>6. ASSUME NEW n \in 1..N PROVE O[n] \in S /\ rank[O[n]] = n - 1
  <2>1. n - 1 \in 0..N - 1
    BY <1>3
  <2>2. \E i \in S : Cardinality({j \in S : j < i}) = n - 1
    BY <1>3, <1>4, <2>1
  <2>3. O[n] \in S /\ Cardinality({j \in S : j < O[n]}) = n - 1
    BY <1>5, <2>2
  <2> QED BY <1>4, <2>3
<1>7. ASSUME NEW m \in 1..N, NEW n \in 1..N, O[m] = O[n] PROVE m = n
  <2>1. m - 1 = n - 1
    BY <1>6, <1>7
  <2> QED BY <1>3, <2>1
<1>8. ASSUME NEW i \in S PROVE \E n \in 1..N : O[n] = i
  <2>1. rank[i] \in Nat /\ rank[i] + 1 \in 1..N /\ rank[i] + 1 - 1 = rank[i]
    <3>1. rank[i] \in 0..N - 1
      BY <1>3
    <3> QED BY <1>3, <3>1
  <2>2. O[rank[i] + 1] \in S /\ rank[O[rank[i] + 1]] = rank[i]
    <3> DEFINE n == rank[i] + 1
    <3>1. n \in 1..N /\ n - 1 = rank[i]
      BY <2>1
    <3> HIDE DEF n
    <3>2. O[n] \in S /\ rank[O[n]] = rank[i]
      BY <1>6, <3>1
    <3> QED BY <3>2 DEF n
  <2> QED BY <1>3, <2>1, <2>2
<1>9. Len(O) = N /\ DOMAIN O = 1..N
  BY <1>3, <1>5
<1> QED BY <1>3, <1>6, <1>7, <1>8, <1>9 DEF O, N

-----------------------------------------------------------------------------
(* The stations in use.                                                    *)

LEMMA LiveIs ==
    /\ RuuLive = RingLine("RUU", RUU_head, RUU_num, RUU_size)
    /\ LsqLive = RingLine("LSQ", LSQ_head, LSQ_num, LSQ_size)
    /\ RuuIds = {"RUU"} \X (0..RUU_size - 1) /\ LsqIds = {"LSQ"} \X (0..LSQ_size - 1)
    /\ RuuIds \cap LsqIds = {} /\ Stations = RuuIds \cup LsqIds /\ Null \notin Stations
<1>1. RuuLive = RingLine("RUU", RUU_head, RUU_num, RUU_size) /\ LsqLive = RingLine("LSQ", LSQ_head, LSQ_num, LSQ_size)
  BY DEF RuuLive, LsqLive, RingLine, RuuAt, LsqAt, Slot0
<1>2. RuuIds \cap LsqIds = {} /\ Null \notin RuuIds /\ Null \notin LsqIds
  BY DEF RuuIds, LsqIds, Null
<1> QED BY <1>1, <1>2 DEF RuuIds, LsqIds, Stations

LEMMA StationsFinite ==
    IsFiniteSet(Stations) /\ IsFiniteSet(RuuIds) /\ IsFiniteSet(LsqIds)
<1>1. IsFiniteSet(0..RUU_size - 1) /\ IsFiniteSet(0..LSQ_size - 1)
  <2>1. RUU_size - 1 \in Int /\ LSQ_size - 1 \in Int /\ 0 \in Int
    BY SizeAssumption
  <2> QED BY <2>1, FS_Interval
<1>2. IsFiniteSet({"RUU"}) /\ IsFiniteSet({"LSQ"})
  BY FS_Singleton
<1>3. IsFiniteSet(RuuIds) /\ IsFiniteSet(LsqIds)
  BY <1>1, <1>2, FS_Product DEF RuuIds, LsqIds
<1> QED BY <1>3, FS_Union DEF Stations

\* The queues list stations, and a station is live when one of them lists it.
LEMMA LiveLists ==
    ASSUME Rings
    PROVE  /\ Lists(RuuLive, RUU_num, RuuIds) /\ Lists(LsqLive, LSQ_num, LsqIds)
           /\ Live \subseteq Stations
           /\ \A id : id \in Live <=> \/ \E k \in 1..RUU_num : id = RuuLive[k]
                                      \/ \E k \in 1..LSQ_num : id = LsqLive[k]
           /\ \A id \in Live : id \in RuuIds => \E k \in 1..RUU_num : id = RuuLive[k]
           /\ \A id \in Live : id \in LsqIds => \E k \in 1..LSQ_num : id = LsqLive[k]
<1>1. Lists(RuuLive, RUU_num, RuuIds) /\ Lists(LsqLive, LSQ_num, LsqIds)
  BY LineLists, LiveIs DEF Rings
<1>2. \A id : id \in Live <=> \/ \E k \in 1..RUU_num : id = RuuLive[k]
                              \/ \E k \in 1..LSQ_num : id = LsqLive[k]
  BY <1>1 DEF Live, ToSet, Lists
<1>3. /\ \A k \in 1..RUU_num : RuuLive[k] \in RuuIds
      /\ \A k \in 1..LSQ_num : LsqLive[k] \in LsqIds
  BY <1>1 DEF Lists
<1>4. Live \subseteq Stations
  BY <1>2, <1>3, LiveIs
<1>5. ASSUME NEW id \in Live
      PROVE  /\ id \in RuuIds => \E k \in 1..RUU_num : id = RuuLive[k]
             /\ id \in LsqIds => \E k \in 1..LSQ_num : id = LsqLive[k]
  BY <1>2, <1>3, LiveIs
<1> QED BY <1>1, <1>2, <1>4, <1>5

LEMMA LiveListsNext ==
    ASSUME Rings'
    PROVE  /\ Lists(RuuLive', RUU_num', RuuIds) /\ Lists(LsqLive', LSQ_num', LsqIds)
           /\ Live' \subseteq Stations
           /\ \A id : id \in Live' <=> \/ \E k \in 1..RUU_num' : id = RuuLive'[k]
                                       \/ \E k \in 1..LSQ_num' : id = LsqLive'[k]
<1>1. RuuLive' = RingLine("RUU", RUU_head', RUU_num', RUU_size) /\ LsqLive' = RingLine("LSQ", LSQ_head', LSQ_num', LSQ_size)
  BY DEF RuuLive, LsqLive, RingLine, RuuAt, LsqAt, Slot0
<1>2. Lists(RuuLive', RUU_num', RuuIds) /\ Lists(LsqLive', LSQ_num', LsqIds)
  BY <1>1, LineLists, LiveIs DEF Rings
<1>3. \A id : id \in Live' <=> \/ \E k \in 1..RUU_num' : id = RuuLive'[k]
                               \/ \E k \in 1..LSQ_num' : id = LsqLive'[k]
  BY <1>2 DEF Live, ToSet, Lists
<1>4. \A id \in Live' : id \in RuuIds \/ id \in LsqIds
  BY <1>2, <1>3 DEF Lists
<1>5. Live' \subseteq Stations
  BY <1>4, LiveIs
<1> QED BY <1>2, <1>3, <1>5

-----------------------------------------------------------------------------
(* Steps that leave the stations' part in the invariant alone.             *)

\* An instruction without results that is not mispredicted may complete unnoticed.
Silent(r) == ~r.recover /\ \A k \in Outs : r.onames[k] = NA

SameCore(a, b) ==
    /\ a.tag = b.tag /\ a.seq = b.seq /\ a.kind = b.kind /\ a.class = b.class /\ a.recover = b.recover /\ a.spec = b.spec
    /\ a.onames = b.onames /\ a.odeps = b.odeps
    /\ a.completed = b.completed \/ Silent(b)

AgenPlaces == {k \in 1..RUU_num : EaComp(st[RuuLive[k]])}

LEMMA AgensIs ==
    ASSUME RUU_num \in Nat
    PROVE  \A n \in 0..RUU_num : Agens(n) = NumUpto(AgenPlaces, n)
<1> SUFFICES ASSUME NEW n \in 0..RUU_num PROVE Agens(n) = NumUpto(AgenPlaces, n)
  OBVIOUS
<1>1. \A k \in 1..n : k \in 1..RUU_num
  OBVIOUS
<1>2. {k \in 1..n : EaComp(st[RuuLive[k]])} = Upto(AgenPlaces, n)
  BY <1>1 DEF Upto, AgenPlaces
<1> QED BY <1>2 DEF Agens, NumUpto

LEMMA AgensIsNext ==
    ASSUME RUU_num' \in Nat
    PROVE  \A n \in 0..RUU_num' : Agens(n)' = NumUpto(AgenPlaces', n)
<1> SUFFICES ASSUME NEW n \in 0..RUU_num' PROVE Agens(n)' = NumUpto(AgenPlaces', n)
  OBVIOUS
<1>1. \A k \in 1..n : k \in 1..RUU_num'
  OBVIOUS
<1>2. {k \in 1..n : EaComp(st'[RuuLive'[k]])} = Upto(AgenPlaces', n)
  BY <1>1 DEF Upto, AgenPlaces, EaComp
<1> QED BY <1>2 DEF Agens, NumUpto, EaComp

SameQueues == UNCHANGED queueVars /\ \A id \in Stations : SameCore(st'[id], st[id])

LEMMA QuietQueues ==
    ASSUME Rings, Paired, OnePath, SameQueues, UNCHANGED spec_mode
    PROVE  Rings' /\ Paired' /\ OnePath' /\ Live' = Live
<1>1. /\ RuuLive' = RuuLive /\ LsqLive' = LsqLive /\ RUU_num' = RUU_num /\ LSQ_num' = LSQ_num
      /\ Rings' /\ Live' = Live
  BY DEF SameQueues, queueVars, RuuLive, LsqLive, Rings, Live
<1>2. /\ \A k \in 1..RUU_num : RuuLive[k] \in Stations
      /\ \A k \in 1..LSQ_num : LsqLive[k] \in Stations
      /\ RUU_num \in Nat
  BY LiveLists, LiveIs DEF Lists
<1>3. \A id \in Stations : SameCore(st'[id], st[id])
  BY DEF SameQueues
<1>4. ASSUME NEW n \in 0..RUU_num PROVE Agens(n)' = Agens(n)
  <2>1. \A k \in 1..n : RuuLive[k] \in Stations
    BY <1>2
  <2>2. {k \in 1..n : EaComp(st'[RuuLive[k]])} = {k \in 1..n : EaComp(st[RuuLive[k]])}
    BY <1>3, <2>1 DEF EaComp, SameCore
  <2> QED BY <1>1, <2>2 DEF Agens, EaComp
<1>5. Paired'
  <2>1. \A n \in 1..RUU_num : ~InLSQ(st'[RuuLive[n]])
    BY <1>2, <1>3 DEF Paired, InLSQ, SameCore
  <2>2. \A n \in 1..LSQ_num : InLSQ(st'[LsqLive[n]])
    BY <1>2, <1>3 DEF Paired, InLSQ, SameCore
  <2>3. Agens(RUU_num)' = LSQ_num
    BY <1>1, <1>2, <1>4 DEF Paired
  <2>4. ASSUME NEW n \in 1..RUU_num, EaComp(st'[RuuLive[n]])
        PROVE  /\ Agens(n)' \in 1..LSQ_num
               /\ st'[LsqLive[Agens(n)']].seq = st'[RuuLive[n]].seq + 1
               /\ st'[LsqLive[Agens(n)']].spec = st'[RuuLive[n]].spec
    <3>1. n \in 0..RUU_num /\ EaComp(st[RuuLive[n]])
      BY <1>2, <1>3, <2>4 DEF EaComp, SameCore
    <3>2. Agens(n)' = Agens(n) /\ Agens(n) \in 1..LSQ_num
      BY <1>4, <3>1 DEF Paired
    <3>3. LsqLive[Agens(n)] \in Stations /\ RuuLive[n] \in Stations
      BY <1>2, <3>2
    <3> QED BY <1>3, <3>1, <3>2, <3>3 DEF Paired, SameCore
  <2> QED BY <1>1, <2>1, <2>2, <2>3, <2>4 DEF Paired, InLSQ, EaComp
<1>6. OnePath'
  <2>1. \A n \in 1..RUU_num : /\ Pends(st'[RuuLive[n]]) <=> Pends(st[RuuLive[n]])
                              /\ st'[RuuLive[n]].spec = st[RuuLive[n]].spec
    BY <1>2, <1>3 DEF Pends, SameCore, Silent
  <2>2. \A n \in 1..LSQ_num : st'[LsqLive[n]].spec = st[LsqLive[n]].spec
    BY <1>2, <1>3 DEF SameCore
  <2>3. CASE spec_mode
    <3>1. PICK o \in 1..RUU_num :
            /\ \A n \in 1..RUU_num : /\ Pends(st[RuuLive[n]]) <=> n = o
                                     /\ st[RuuLive[n]].spec <=> n > o
            /\ \A n \in 1..LSQ_num : st[LsqLive[n]].spec <=> n > Agens(o)
      BY <2>3 DEF OnePath
    <3>2. Agens(o)' = Agens(o)
      BY <1>4, <1>2
    <3> QED BY <1>1, <2>1, <2>2, <2>3, <3>1, <3>2 DEF OnePath, Pends
  <2>4. CASE ~spec_mode
    BY <1>1, <2>1, <2>2, <2>4 DEF OnePath, Pends
  <2> QED BY <2>3, <2>4
<1> QED BY <1>1, <1>5, <1>6

LEMMA QuietVectors ==
    ASSUME Typed, Rings, VectorsSound, SameQueues, UNCHANGED cvVars
    PROVE  VectorsSound'
<1>1. Live' = Live /\ Live \subseteq Stations
  BY LiveLists DEF SameQueues, queueVars, Live, RuuLive, LsqLive
<1>2. \A id \in Stations : SameCore(st'[id], st[id])
  BY DEF SameQueues
<1>3. ASSUME NEW e \in CvType, NEW r \in Regs \cup {DTMP}, Names(e, r)
      PROVE  /\ Names(e, r)' /\ (e.rs # Null => st'[e.rs].spec = st[e.rs].spec)
  <2>1. e.odep \in Outs /\ r # NA
    BY SizeAssumption DEF CvType
  <2>2. CASE e.rs = Null
    BY <2>2 DEF Names
  <2>3. CASE e.rs # Null
    <3>1. e.rs \in Live /\ e.rs \in Stations /\ ~st[e.rs].completed /\ st[e.rs].onames[e.odep] = r
      BY <1>1, <1>3, <2>3 DEF Names
    <3>2. ~Silent(st[e.rs])
      BY <2>1, <3>1 DEF Silent
    <3> QED BY <1>1, <1>2, <3>1, <3>2 DEF Names, SameCore
  <2> QED BY <2>2, <2>3
<1>4. ASSUME NEW r \in Regs \cup {DTMP}
      PROVE  /\ Names(create_vector[r], r)'
             /\ create_vector'[r].rs # Null => ~st'[create_vector'[r].rs].spec
  <2>1. /\ Names(create_vector[r], r)
        /\ create_vector[r].rs # Null => ~st[create_vector[r].rs].spec
    BY DEF VectorsSound
  <2>2. create_vector' = create_vector
    BY DEF cvVars
  <2> DEFINE e == create_vector[r]
  <2> HIDE DEF e
  <2>3. e \in CvType /\ Names(e, r) /\ (e.rs # Null => ~st[e.rs].spec)
    BY <2>1 DEF e, Typed
  <2>4. Names(e, r)' /\ (e.rs # Null => st'[e.rs].spec = st[e.rs].spec) /\ create_vector'[r] = e
    BY <1>3, <2>2, <2>3 DEF e
  <2> QED BY <2>2, <2>3, <2>4 DEF e, Names
<1>5. ASSUME NEW r \in use_spec_cv
      PROVE  /\ Names(spec_create_vector[r], r)'
             /\ spec_create_vector'[r].rs # Null => st'[spec_create_vector'[r].rs].spec
  <2>1. spec_create_vector[r] \in CvType /\ r \in Regs \cup {DTMP}
    BY DEF Typed
  <2> QED BY <1>3, <2>1 DEF VectorsSound, cvVars
<1> QED BY <1>4, <1>5 DEF VectorsSound, cvVars

LEMMA QuietChains ==
    ASSUME ChainsSound, SameQueues, Live' = Live
    PROVE  ChainsSound' /\ LinkPlaces(st', Stations) = LinkPlaces(st, Stations)
<1>1. \A id \in Stations : SameCore(st'[id], st[id])
  BY DEF SameQueues
<1>2. ChainsSound'
  BY <1>1 DEF ChainsSound, SameCore, Silent
<1>3. \A id \in Stations : \A k \in Outs : {id} \X {k} \X DOMAIN st'[id].odeps[k] = {id} \X {k} \X DOMAIN st[id].odeps[k]
  BY <1>1 DEF SameCore
<1>4. LinkPlaces(st', Stations) = LinkPlaces(st, Stations)
  BY <1>3 DEF LinkPlaces
<1> QED BY <1>2, <1>4

-----------------------------------------------------------------------------
(* Links.                                                                  *)

\* The lists that links are on.
LEMMA OnChains ==
    ASSUME NEW s
    PROVE  \A l : l \in UNION {ToSet(s[id].odeps[k]) : id \in Stations, k \in Outs}
                  <=> \E id \in Stations : \E k \in Outs : l \in ToSet(s[id].odeps[k])
<1> DEFINE F(id, k) == ToSet(s[id].odeps[k])
<1> HIDE DEF F
<1>1. \A l : l \in UNION {F(id, k) : id \in Stations, k \in Outs}
             <=> \E id \in Stations : \E k \in Outs : l \in F(id, k)
  OBVIOUS
<1> QED BY <1>1 DEF F

LEMMA AllLinksAre ==
    \A l : l \in AllLinks <=>
             \/ l \in ToSet(ready_queue) \/ l \in ToSet(event_queue) \/ l \in ToSet(scan)
             \/ \E id \in Stations : \E k \in Outs : l \in ToSet(st[id].odeps[k])
             \/ l = last_op /\ l # NullLink
<1> TAKE l
<1> DEFINE U == UNION {ToSet(st[id].odeps[k]) : id \in Stations, k \in Outs}
           G == \E id \in Stations : \E k \in Outs : l \in ToSet(st[id].odeps[k])
<1>1. l \in U <=> G
  BY OnChains
<1>2. l \in AllLinks <=> \/ l \in ToSet(ready_queue) \/ l \in ToSet(event_queue) \/ l \in ToSet(scan)
                         \/ l \in U \/ l \in {last_op} \ {NullLink}
  <2> HIDE DEF G
  <2>1. AllLinks = ToSet(ready_queue) \cup ToSet(event_queue) \cup ToSet(scan) \cup U \cup ({last_op} \ {NullLink})
    BY DEF AllLinks
  <2> HIDE DEF U
  <2> QED BY <2>1
<1> HIDE DEF U, G
<1>3. l \in {last_op} \ {NullLink} <=> l = last_op /\ l # NullLink
  OBVIOUS
<1>4. l \in AllLinks <=> \/ l \in ToSet(ready_queue) \/ l \in ToSet(event_queue) \/ l \in ToSet(scan)
                         \/ G \/ (l = last_op /\ l # NullLink)
  BY <1>1, <1>2, <1>3
<1> QED BY <1>4 DEF G

LEMMA AllLinksAreNext ==
    \A l : l \in AllLinks' <=>
             \/ l \in ToSet(ready_queue') \/ l \in ToSet(event_queue') \/ l \in ToSet(scan')
             \/ \E id \in Stations : \E k \in Outs : l \in ToSet(st'[id].odeps[k])
             \/ l = last_op' /\ l # NullLink
<1> TAKE l
<1> DEFINE U == UNION {ToSet(st'[id].odeps[k]) : id \in Stations, k \in Outs}
           G == \E id \in Stations : \E k \in Outs : l \in ToSet(st'[id].odeps[k])
<1>1. l \in U <=> G
  BY OnChains
<1>2. l \in AllLinks' <=> \/ l \in ToSet(ready_queue') \/ l \in ToSet(event_queue') \/ l \in ToSet(scan')
                          \/ l \in U \/ l \in {last_op'} \ {NullLink}
  <2> HIDE DEF G
  <2>1. AllLinks' = ToSet(ready_queue') \cup ToSet(event_queue') \cup ToSet(scan') \cup U \cup ({last_op'} \ {NullLink})
    BY DEF AllLinks
  <2> HIDE DEF U
  <2> QED BY <2>1
<1> HIDE DEF U, G
<1>3. l \in {last_op'} \ {NullLink} <=> l = last_op' /\ l # NullLink
  OBVIOUS
<1>4. l \in AllLinks' <=> \/ l \in ToSet(ready_queue') \/ l \in ToSet(event_queue') \/ l \in ToSet(scan')
                          \/ G \/ (l = last_op' /\ l # NullLink)
  BY <1>1, <1>2, <1>3
<1> QED BY <1>4 DEF G

\* Each station holds what it held, or its tag has moved on.
KeepsLinks ==
    \A id \in Stations :
        \/ st'[id].tag = st[id].tag + 1
        \/ st'[id].tag = st[id].tag /\ (id \in Live => id \in Live' /\ st'[id].seq = st[id].seq)

SameLink(l, m) == l.rs = m.rs /\ l.tag = m.tag /\ l.seq = m.seq

LEMMA LinksTyped ==
    ASSUME Typed
    PROVE  AllLinks \subseteq LinkType
<1>1. ToSet(ready_queue) \subseteq LinkType /\ ToSet(event_queue) \subseteq LinkType /\ ToSet(scan) \subseteq LinkType
  BY SeqMembers DEF Typed
<1>2. ASSUME NEW id \in Stations, NEW k \in Outs PROVE ToSet(st[id].odeps[k]) \subseteq LinkType
  <2>1. st[id].odeps[k] \in Seq(LinkType)
    BY DEF Typed, StationType
  <2> QED BY <2>1, SeqMembers
<1> QED BY <1>1, <1>2, AllLinksAre DEF Typed

LEMMA LinkKept ==
    ASSUME Typed, KeepsLinks, NEW l \in LinkType, GoodLink(l), NEW m, SameLink(m, l)
    PROVE  GoodLink(m)'
<1>1. l.rs \in Stations /\ l.tag <= st[l.rs].tag /\ l.tag \in Nat /\ st[l.rs].tag \in Nat
      /\ (l.tag = st[l.rs].tag => l.rs \in Live /\ st[l.rs].seq = l.seq)
  BY DEF GoodLink, Valid, ValidIn, LinkType, Typed, StationType
<1>2. CASE st'[l.rs].tag = st[l.rs].tag + 1
  BY <1>1, <1>2 DEF GoodLink, Valid, ValidIn, SameLink
<1>3. CASE st'[l.rs].tag = st[l.rs].tag /\ (l.rs \in Live => l.rs \in Live' /\ st'[l.rs].seq = st[l.rs].seq)
  BY <1>1, <1>3 DEF GoodLink, Valid, ValidIn, SameLink
<1> QED BY <1>1, <1>2, <1>3 DEF KeepsLinks

LEMMA LinkFresh ==
    ASSUME NEW id \in Stations, id \in Live', NEW l, l.rs = id, l.tag = st'[id].tag, l.seq = st'[id].seq,
           st'[id].tag \in Nat
    PROVE  GoodLink(l)'
BY DEF GoodLink, Valid, ValidIn

\* Links are old or to an instruction that is live now.
LEMMA LinksStep ==
    ASSUME Typed, LinksGood, KeepsLinks, Live' \subseteq Stations,
           \A id \in Stations : st'[id].tag \in Nat,
           \A l \in AllLinks' : \/ \E m \in AllLinks : SameLink(l, m)
                                \/ l.rs \in Live' /\ l.tag = st'[l.rs].tag /\ l.seq = st'[l.rs].seq
    PROVE  LinksGood'
<1> SUFFICES ASSUME NEW l \in AllLinks' PROVE GoodLink(l)'
  BY DEF LinksGood
<1>1. CASE \E m \in AllLinks : SameLink(l, m)
  <2>1. PICK m \in AllLinks : SameLink(l, m)
    BY <1>1
  <2>2. GoodLink(m) /\ m \in LinkType
    BY <2>1, LinksTyped DEF LinksGood
  <2> QED BY <2>1, <2>2, LinkKept
<1>2. CASE l.rs \in Live' /\ l.tag = st'[l.rs].tag /\ l.seq = st'[l.rs].seq
  BY <1>2, LinkFresh
<1> QED BY <1>1, <1>2

LEMMA QuietLinks ==
    ASSUME SameQueues, Live' = Live
    PROVE  /\ KeepsLinks
           /\ \A id \in Stations : \A k \in Outs : st'[id].odeps[k] = st[id].odeps[k]
           /\ \A id \in Stations : st'[id].tag = st[id].tag /\ st'[id].seq = st[id].seq
BY DEF SameQueues, SameCore, KeepsLinks

\* The places of links are finitely many.
LEMMA PlacesFinite ==
    ASSUME NEW s, NEW ids, ids \subseteq Stations,
           \A id \in ids : \A k \in Outs : s[id].odeps[k] \in Seq(LinkType)
    PROVE  /\ IsFiniteSet(LinkPlaces(s, ids)) /\ Cardinality(LinkPlaces(s, ids)) \in Nat
           /\ \A p : p \in LinkPlaces(s, ids) <=>
                       \E id \in ids : \E k \in Outs : \E n \in DOMAIN s[id].odeps[k] : p = <<id, k, n>>
<1> DEFINE P(id, k) == {id} \X {k} \X DOMAIN s[id].odeps[k]
           f == [x \in ids \X Outs |-> P(x[1], x[2])]
           T == {P(id, k) : id \in ids, k \in Outs}
<1>1. IsFiniteSet(ids \X Outs)
  <2>1. IsFiniteSet(ids)
    BY StationsFinite, FS_Subset
  <2>2. IsFiniteSet(Outs)
    <3>1. 0 \in Int /\ 1 \in Int
      OBVIOUS
    <3> QED BY <3>1, FS_Interval DEF Outs
  <2> QED BY <2>1, <2>2, FS_Product
<1>2. ASSUME NEW id \in ids, NEW k \in Outs PROVE IsFiniteSet(P(id, k))
  <2>1. Len(s[id].odeps[k]) \in Nat /\ DOMAIN s[id].odeps[k] = 1..Len(s[id].odeps[k])
    BY LenProperties
  <2>2. 1 \in Int /\ Len(s[id].odeps[k]) \in Int
    BY <2>1
  <2>3. IsFiniteSet(DOMAIN s[id].odeps[k])
    BY <2>1, <2>2, FS_Interval
  <2>4. IsFiniteSet({id}) /\ IsFiniteSet({k})
    BY FS_Singleton
  <2> DEFINE D == DOMAIN s[id].odeps[k]
             G == {id} \X {k} \X D
             H == ({id} \X {k}) \X D
             h == [x \in H |-> <<x[1][1], x[1][2], x[2]>>]
  <2>5. IsFiniteSet(H)
    BY <2>3, <2>4, FS_Product
  <2>6. h \in Surjection(H, G)
    <3>1. h \in [H -> G]
      OBVIOUS
    <3>2. ASSUME NEW y \in G PROVE \E x \in H : h[x] = y
      <4>1. PICK n \in D : y = <<id, k, n>>
        OBVIOUS
      <4>2. <<<<id, k>>, n>> \in H
        BY <4>1
      <4>3. h[<<<<id, k>>, n>>] = <<id, k, n>>
        BY <4>2
      <4> QED BY <4>1, <4>2, <4>3
    <3> QED BY <3>1, <3>2, Fun_IsSurj
  <2> HIDE DEF D, G, H, h
  <2>7. IsFiniteSet(G)
    BY <2>5, <2>6, FS_Surjection
  <2> QED BY <2>7 DEF G, D
<1>3. f \in Surjection(ids \X Outs, T)
  <2> HIDE DEF P
  <2>1. f \in [ids \X Outs -> T]
    OBVIOUS
  <2>2. ASSUME NEW y \in T PROVE \E x \in ids \X Outs : f[x] = y
    <3>1. PICK id \in ids, k \in Outs : y = P(id, k)
      OBVIOUS
    <3>2. <<id, k>> \in ids \X Outs /\ f[<<id, k>>] = y
      BY <3>1
    <3> QED BY <3>2
  <2> HIDE DEF f, T
  <2> QED BY <2>1, <2>2, Fun_IsSurj
<1>4. IsFiniteSet(T)
  <2> HIDE DEF f, T
  <2> QED BY <1>1, <1>3, FS_Surjection
<1>5. \A S \in T : IsFiniteSet(S)
  <2> HIDE DEF P
  <2> QED BY <1>2
<1>6. LinkPlaces(s, ids) = UNION T
  BY DEF LinkPlaces
<1>7. IsFiniteSet(UNION T)
  <2> HIDE DEF T
  <2> QED BY <1>4, <1>5, FS_UNION
<1>8. \A p : p \in UNION T <=> \E id \in ids : \E k \in Outs : p \in P(id, k)
  <2> HIDE DEF P
  <2> QED OBVIOUS
<1>9. \A p : \A id \in ids : \A k \in Outs : p \in P(id, k) <=> \E n \in DOMAIN s[id].odeps[k] : p = <<id, k, n>>
  OBVIOUS
<1> HIDE DEF T, P
<1> QED BY <1>6, <1>7, <1>8, <1>9, FS_CardinalityType

\* How many links are on the lists.
Listed == Len(ready_queue) + Len(event_queue) + Len(scan)

LEMMA CountsTyped ==
    ASSUME Typed
    PROVE  /\ Len(ready_queue) \in Nat /\ Len(event_queue) \in Nat /\ Len(scan) \in Nat
           /\ rslinks \in Nat /\ LinksOf(Stations) \in Nat
<1>1. \A id \in Stations : \A k \in Outs : st[id].odeps[k] \in Seq(LinkType)
  BY DEF Typed, StationType
<1>2. LinksOf(Stations) \in Nat
  BY <1>1, PlacesFinite DEF LinksOf
<1>3. Len(ready_queue) \in Nat /\ Len(event_queue) \in Nat /\ Len(scan) \in Nat
  BY LenProperties DEF Typed
<1> QED BY <1>2, <1>3 DEF Typed

\* What is enough of a step that leaves the stations' part in the invariant alone.
NewLink(l) == l.rs \in Live /\ l.tag = st[l.rs].tag /\ l.seq = st[l.rs].seq
OldLink(l) == \E m \in AllLinks : SameLink(l, m)

LEMMA QuietStep ==
    ASSUME RuuCore, SameQueues, UNCHANGED cvVars, UNCHANGED spec_mode, UNCHANGED last_op,
           Typed', EventsInOrder', Scanned',
           \A l \in ToSet(ready_queue') \cup ToSet(event_queue') \cup ToSet(scan') : OldLink(l) \/ NewLink(l),
           rslinks' + Listed' = rslinks + Listed
    PROVE  RuuCore'
<1>1. Rings' /\ Paired' /\ OnePath' /\ Live' = Live
  BY QuietQueues DEF RuuCore
<1>2. VectorsSound'
  BY QuietVectors DEF RuuCore
<1>3. ChainsSound' /\ LinkPlaces(st', Stations) = LinkPlaces(st, Stations)
  BY <1>1, QuietChains DEF RuuCore
<1>4. /\ KeepsLinks
      /\ \A id \in Stations : \A k \in Outs : st'[id].odeps[k] = st[id].odeps[k]
      /\ \A id \in Stations : st'[id].tag = st[id].tag /\ st'[id].seq = st[id].seq
  BY <1>1, QuietLinks
<1>5. Live \subseteq Stations
  BY LiveLists DEF RuuCore
<1>6. ASSUME NEW l \in AllLinks'
      PROVE  OldLink(l) \/ (l.rs \in Live' /\ l.tag = st'[l.rs].tag /\ l.seq = st'[l.rs].seq)
  <2>1. CASE l \in ToSet(ready_queue') \cup ToSet(event_queue') \cup ToSet(scan')
    BY <1>1, <1>4, <1>5, <2>1 DEF NewLink
  <2>2. CASE \E id \in Stations : \E k \in Outs : l \in ToSet(st'[id].odeps[k])
    <3>1. l \in AllLinks
      BY <1>4, <2>2, AllLinksAre
    <3> QED BY <3>1 DEF OldLink, SameLink
  <2>3. CASE l = last_op' /\ l # NullLink
    <3>1. l \in AllLinks
      BY <2>3, AllLinksAre
    <3> QED BY <3>1 DEF OldLink, SameLink
  <2> QED BY <1>6, <2>1, <2>2, <2>3, AllLinksAreNext
<1>7. \A id \in Stations : st'[id].tag \in Nat
  BY DEF Typed, StationType
<1>8. LinksGood'
  BY <1>1, <1>4, <1>5, <1>6, <1>7, LinksStep DEF RuuCore, OldLink
<1>9. LinksConserved'
  <2>1. LinksOf(Stations)' = LinksOf(Stations)
    BY <1>3 DEF LinksOf
  <2>2. /\ Len(ready_queue) \in Nat /\ Len(event_queue) \in Nat /\ Len(scan) \in Nat
        /\ rslinks \in Nat /\ LinksOf(Stations) \in Nat
    BY CountsTyped DEF RuuCore
  <2>3. /\ Len(ready_queue') \in Nat /\ Len(event_queue') \in Nat /\ Len(scan') \in Nat /\ rslinks' \in Nat
    BY LenProperties DEF Typed
  <2>4. rslinks + Len(ready_queue) + Len(event_queue) + Len(scan) + LinksOf(Stations) = NumLinks
    BY DEF RuuCore, LinksConserved
  <2>5. rslinks' + Len(ready_queue') + Len(event_queue') + Len(scan') = rslinks + Len(ready_queue) + Len(event_queue) + Len(scan)
    BY <2>2, <2>3 DEF Listed
  <2> QED BY <2>1, <2>2, <2>3, <2>4, <2>5 DEF LinksConserved
<1>10. KindsSound'
  BY DEF RuuCore, KindsSound, SameQueues, SameCore, EaComp, InLSQ
<1> QED BY <1>1, <1>2, <1>3, <1>8, <1>9, <1>10 DEF RuuCore, Scanned

-----------------------------------------------------------------------------
(* The actions that leave the stations' part in the invariant alone.       *)

LEMMA SameStations ==
    ASSUME UNCHANGED st, UNCHANGED queueVars
    PROVE  SameQueues
BY DEF SameQueues, SameCore

\* Nothing is put on a list.
LEMMA ListsKept ==
    ASSUME ToSet(ready_queue') \subseteq AllLinks, ToSet(event_queue') \subseteq AllLinks,
           ToSet(scan') \subseteq AllLinks
    PROVE  \A l \in ToSet(ready_queue') \cup ToSet(event_queue') \cup ToSet(scan') : OldLink(l)
BY DEF OldLink, SameLink

LEMMA ListsInAll ==
    /\ ToSet(ready_queue) \subseteq AllLinks /\ ToSet(event_queue) \subseteq AllLinks
    /\ ToSet(scan) \subseteq AllLinks
BY AllLinksAre

LEMMA ListOfLinks ==
    ASSUME NEW q \in Seq(LinkType)
    PROVE  /\ Len(q) \in Nat /\ DOMAIN q = 1..Len(q)
           /\ \A i \in 1..Len(q) : q[i] \in LinkType /\ q[i].x \in Nat
<1>1. Len(q) \in Nat /\ DOMAIN q = 1..Len(q) /\ \A i \in 1..Len(q) : q[i] \in LinkType
  OBVIOUS
<1> QED BY <1>1 DEF LinkType

LEMMA CoreLists ==
    ASSUME RuuCore
    PROVE  /\ ready_queue \in Seq(LinkType) /\ event_queue \in Seq(LinkType) /\ scan \in Seq(LinkType)
           /\ InOrderOfTime(event_queue)
           /\ Len(ready_queue) \in Nat /\ Len(event_queue) \in Nat /\ Len(scan) \in Nat /\ rslinks \in Nat
<1>1. ready_queue \in Seq(LinkType) /\ event_queue \in Seq(LinkType) /\ scan \in Seq(LinkType)
  BY DEF RuuCore, Typed
<1>2. InOrderOfTime(event_queue)
  BY DEF RuuCore, EventsInOrder, InOrderOfTime
<1>3. rslinks \in Nat
  BY DEF RuuCore, Typed
<1> QED BY <1>1, <1>2, <1>3, ListOfLinks

LEMMA CommitDoneStep ==
    ASSUME RuuCore, CommitDone, UNCHANGED options
    PROVE  RuuCore'
<1>1. /\ busy' = [u \in Units |-> IF busy[u] > 0 THEN busy[u] - 1 ELSE 0]
      /\ stage = "commit" /\ stage' = "writeback" /\ count' = 0
      /\ UNCHANGED <<st, queueVars, cvVars, ready_queue, event_queue, rslinks, last_op, spec_mode,
                     inst_seq, scan>>
  BY DEF CommitDone, GoTo
<1>2. Typed'
  <2>1. busy \in [Units -> Nat]
    BY DEF RuuCore, Typed
  <2>2. \A b \in Nat : (IF b > 0 THEN b - 1 ELSE 0) \in Nat
    OBVIOUS
  <2>3. busy' \in [Units -> Nat]
    BY <1>1, <2>1, <2>2
  <2> QED BY <1>1, <2>3 DEF RuuCore, Typed, options, cvVars
<1>3. EventsInOrder'
  BY <1>1 DEF RuuCore, EventsInOrder
<1>4. \A l \in ToSet(ready_queue') \cup ToSet(event_queue') \cup ToSet(scan') : OldLink(l)
  BY <1>1, ListsKept, ListsInAll
<1>5. rslinks' + Listed' = rslinks + Listed
  BY <1>1 DEF Listed
<1>6. SameQueues
  BY <1>1, SameStations
<1>s. Scanned'
  BY <1>1 DEF RuuCore, Scanned
<1> QED BY <1>1, <1>2, <1>3, <1>4, <1>5, <1>6, <1>s, QuietStep

LEMMA DropStaleEventStep ==
    ASSUME RuuCore, DropStaleEvent, UNCHANGED options
    PROVE  RuuCore'
<1>1. /\ event_queue # << >> /\ event_queue' = Tail(event_queue) /\ rslinks' = rslinks + 1
      /\ UNCHANGED <<st, queueVars, cvVars, ready_queue, busy, last_op, spec_mode, inst_seq, stage, count, scan>>
      /\ stage = "writeback"
  BY DEF DropStaleEvent, Due
<1>2. /\ event_queue \in Seq(LinkType) /\ Len(event_queue) \in Nat /\ InOrderOfTime(event_queue)
      /\ rslinks \in Nat /\ Len(ready_queue) \in Nat /\ Len(scan) \in Nat
  BY CoreLists
<1>3. /\ event_queue' \in Seq(LinkType) /\ Len(event_queue') = Len(event_queue) - 1
      /\ Len(event_queue) >= 1 /\ ToSet(event_queue') \subseteq ToSet(event_queue)
      /\ \A i \in 1..Len(event_queue) - 1 : event_queue'[i] = event_queue[i + 1]
  BY <1>1, <1>2, TailSet
<1>4. Typed'
  <2>1. rslinks' \in Nat
    BY <1>1, <1>2
  <2> QED BY <1>1, <1>3, <2>1 DEF RuuCore, Typed, options, cvVars
<1>5. EventsInOrder'
  <2>1. ASSUME NEW i \in 1..Len(event_queue'), NEW j \in 1..Len(event_queue'), i < j
        PROVE  event_queue'[i].x <= event_queue'[j].x
    <3>1. i + 1 \in 1..Len(event_queue) /\ j + 1 \in 1..Len(event_queue) /\ i + 1 < j + 1
      BY <1>2, <1>3, <2>1
    <3>2. event_queue'[i] = event_queue[i + 1] /\ event_queue'[j] = event_queue[j + 1]
      BY <1>2, <1>3
    <3> QED BY <1>2, <3>1, <3>2 DEF InOrderOfTime
  <2> QED BY <1>1, <2>1 DEF EventsInOrder
<1>6. \A l \in ToSet(ready_queue') \cup ToSet(event_queue') \cup ToSet(scan') : OldLink(l)
  BY <1>1, <1>3, ListsKept, ListsInAll
<1>7. rslinks' + Listed' = rslinks + Listed
  BY <1>1, <1>2, <1>3 DEF Listed
<1>8. SameQueues
  BY <1>1, SameStations
<1>s. Scanned'
  BY <1>1 DEF RuuCore, Scanned
<1> QED BY <1>1, <1>4, <1>5, <1>6, <1>7, <1>8, <1>s, QuietStep

LEMMA WritebackDoneStep ==
    ASSUME RuuCore, WritebackDone, UNCHANGED options
    PROVE  RuuCore'
<1>1. /\ ~Due /\ stage = "writeback" /\ stage' = AfterWriteback /\ count' = 0
      /\ UNCHANGED <<st, queueVars, cvVars, ready_queue, event_queue, rslinks, busy, last_op, spec_mode,
                     inst_seq, scan>>
  BY DEF WritebackDone, GoTo
<1>2. event_queue \in Seq(LinkType) /\ Len(event_queue) \in Nat /\ InOrderOfTime(event_queue)
  BY CoreLists
<1>3. Typed'
  BY <1>1 DEF RuuCore, Typed, options, cvVars, AfterWriteback
<1>4. ASSUME NEW i \in 1..Len(event_queue) PROVE event_queue[i].x >= 1
  <2>1. event_queue # << >> /\ 1 \in 1..Len(event_queue)
    BY <1>2
  <2>2. Head(event_queue) = event_queue[1] /\ event_queue[1].x \in Nat /\ event_queue[i].x \in Nat
    BY <1>2, <2>1, TailSet, ListOfLinks
  <2>3. ~(event_queue[1].x <= 0)
    BY <1>1, <2>1, <2>2 DEF Due
  <2>4. i = 1 \/ event_queue[1].x <= event_queue[i].x
    <3>1. i = 1 \/ 1 < i
      BY <1>2
    <3> QED BY <1>2, <2>1, <3>1 DEF InOrderOfTime
  <2> QED BY <2>2, <2>3, <2>4
<1>5. EventsInOrder'
  BY <1>1, <1>4 DEF RuuCore, EventsInOrder
<1>6. \A l \in ToSet(ready_queue') \cup ToSet(event_queue') \cup ToSet(scan') : OldLink(l)
  BY <1>1, ListsKept, ListsInAll
<1>7. rslinks' + Listed' = rslinks + Listed
  BY <1>1 DEF Listed
<1>8. SameQueues
  BY <1>1, SameStations
<1>s. Scanned'
  BY <1>1 DEF RuuCore, Scanned, AfterWriteback
<1> QED BY <1>1, <1>3, <1>5, <1>6, <1>7, <1>8, <1>s, QuietStep

LEMMA IssueDoneStep ==
    ASSUME RuuCore, IssueDone, UNCHANGED options
    PROVE  RuuCore'
<1> USE DEF IssueDone, GoTo
<1>1. SameQueues
  BY SameStations
<1>2. Typed'
  BY DEF RuuCore, Typed, options, cvVars
<1>3. EventsInOrder'
  BY DEF RuuCore, EventsInOrder
<1>4. \A l \in ToSet(ready_queue') \cup ToSet(event_queue') \cup ToSet(scan') : OldLink(l)
  BY ListsKept, ListsInAll
<1>5. rslinks' + Listed' = rslinks + Listed
  BY DEF Listed
<1>s. Scanned'
  BY DEF RuuCore, Scanned
<1> QED BY <1>1, <1>2, <1>3, <1>4, <1>5, <1>s, QuietStep

LEMMA DispatchDoneStep ==
    ASSUME RuuCore, DispatchDone, UNCHANGED options
    PROVE  RuuCore'
<1> USE DEF DispatchDone, GoTo
<1>1. SameQueues
  BY SameStations
<1>2. Typed'
  BY DEF RuuCore, Typed, options, cvVars
<1>3. EventsInOrder'
  BY DEF RuuCore, EventsInOrder
<1>4. \A l \in ToSet(ready_queue') \cup ToSet(event_queue') \cup ToSet(scan') : OldLink(l)
  BY ListsKept, ListsInAll
<1>5. rslinks' + Listed' = rslinks + Listed
  BY DEF Listed
<1>s. Scanned'
  BY DEF RuuCore, Scanned
<1> QED BY <1>1, <1>2, <1>3, <1>4, <1>5, <1>s, QuietStep

\* A cycle passes for every event.
LEMMA TickStep ==
    ASSUME RuuCore, Tick, UNCHANGED options
    PROVE  RuuCore'
<1>1. /\ event_queue' = [n \in DOMAIN event_queue |-> [event_queue[n] EXCEPT !.x = @ - 1]]
      /\ stage = "fetch" /\ stage' = "commit" /\ count' = 0
      /\ UNCHANGED <<st, queueVars, cvVars, ready_queue, rslinks, busy, last_op, spec_mode, inst_seq, scan>>
  BY DEF Tick, GoTo
<1>2. /\ event_queue \in Seq(LinkType) /\ Len(event_queue) \in Nat /\ DOMAIN event_queue = 1..Len(event_queue)
      /\ \A i \in 1..Len(event_queue) : event_queue[i] \in LinkType /\ event_queue[i].x \in Nat
      /\ \A i, j \in 1..Len(event_queue) : i < j => event_queue[i].x <= event_queue[j].x
  BY CoreLists, ListOfLinks DEF InOrderOfTime
<1>3. ASSUME NEW i \in 1..Len(event_queue)
      PROVE  /\ event_queue'[i] \in LinkType /\ event_queue'[i].x = event_queue[i].x - 1
             /\ SameLink(event_queue'[i], event_queue[i])
  <2>1. event_queue[i] \in LinkType /\ event_queue[i].x \in Nat
    BY <1>2
  <2>2. event_queue[i].x >= 1
    BY <1>1 DEF RuuCore, EventsInOrder
  <2>3. event_queue'[i] = [event_queue[i] EXCEPT !.x = event_queue[i].x - 1]
    BY <1>1, <1>2
  <2>4. event_queue[i].x - 1 \in Nat
    BY <2>1, <2>2
  <2> QED BY <2>1, <2>3, <2>4 DEF LinkType, SameLink
<1>4. event_queue' \in Seq(LinkType) /\ Len(event_queue') = Len(event_queue)
  <2>1. event_queue' \in [1..Len(event_queue) -> LinkType]
    BY <1>1, <1>2, <1>3
  <2>2. DOMAIN event_queue' = 1..Len(event_queue)
    BY <2>1
  <2>3. event_queue' \in Seq(LinkType)
    BY <1>2, <2>1, SeqDef
  <2> QED BY <1>2, <2>2, <2>3, LenProperties
<1>5. Typed'
  BY <1>1, <1>4 DEF RuuCore, Typed, options, cvVars
<1>6. EventsInOrder'
  <2>1. ASSUME NEW i \in 1..Len(event_queue), NEW j \in 1..Len(event_queue), i < j
        PROVE  event_queue'[i].x <= event_queue'[j].x
    <3>1. /\ event_queue[i].x <= event_queue[j].x /\ event_queue[i].x \in Nat /\ event_queue[j].x \in Nat
          /\ event_queue'[i].x = event_queue[i].x - 1 /\ event_queue'[j].x = event_queue[j].x - 1
      BY <1>2, <1>3, <2>1
    <3> QED BY <3>1
  <2> QED BY <1>1, <1>4, <2>1 DEF EventsInOrder
<1>7. ASSUME NEW l \in ToSet(ready_queue') \cup ToSet(event_queue') \cup ToSet(scan') PROVE OldLink(l)
  <2>1. CASE l \in ToSet(event_queue')
    <3>1. PICK i \in 1..Len(event_queue) : l = event_queue'[i]
      <4>1. DOMAIN event_queue' = 1..Len(event_queue)
        BY <1>1, <1>2
      <4> QED BY <2>1, <4>1 DEF ToSet
    <3>2. event_queue[i] \in AllLinks
      BY <1>2, ListsInAll DEF ToSet
    <3>3. SameLink(l, event_queue[i])
      BY <1>3, <3>1
    <3> QED BY <3>2, <3>3 DEF OldLink
  <2>2. CASE l \in ToSet(ready_queue') \cup ToSet(scan')
    BY <1>1, <2>2, ListsInAll DEF OldLink, SameLink
  <2> QED BY <1>7, <2>1, <2>2
<1>8. rslinks' + Listed' = rslinks + Listed
  BY <1>1, <1>4 DEF Listed
<1>9. SameQueues
  BY <1>1, SameStations
<1>s. Scanned'
  BY <1>1 DEF RuuCore, Scanned
<1> QED BY <1>1, <1>5, <1>6, <1>7, <1>8, <1>9, <1>s, QuietStep

\* The first of the old ready queue is taken.
LEMMA ScanHead ==
    ASSUME RuuCore, scan # << >>
    PROVE  /\ Head(scan) \in AllLinks /\ Head(scan).rs \in Stations
           /\ (Valid(Head(scan)) => AtScan \in Live /\ st[AtScan].seq = Head(scan).seq)
           /\ Tail(scan) \in Seq(LinkType) /\ Len(Tail(scan)) = Len(scan) - 1 /\ Len(scan) >= 1
           /\ ToSet(Tail(scan)) \subseteq AllLinks
<1>1. scan \in Seq(LinkType)
  BY CoreLists
<1>2. /\ Head(scan) \in ToSet(scan) /\ Tail(scan) \in Seq(LinkType) /\ Len(Tail(scan)) = Len(scan) - 1
      /\ Len(scan) >= 1 /\ ToSet(Tail(scan)) \subseteq ToSet(scan)
  BY <1>1, TailSet
<1>3. Head(scan) \in AllLinks /\ ToSet(Tail(scan)) \subseteq AllLinks
  BY <1>2, ListsInAll
<1>4. GoodLink(Head(scan))
  BY <1>3 DEF RuuCore, LinksGood
<1> QED BY <1>2, <1>3, <1>4 DEF GoodLink, AtScan

LEMMA DropStaleReadyStep ==
    ASSUME RuuCore, DropStaleReady, UNCHANGED options
    PROVE  RuuCore'
<1>1. /\ scan # << >> /\ scan' = Tail(scan) /\ rslinks' = rslinks + 1 /\ stage = "issue"
      /\ UNCHANGED <<st, queueVars, cvVars, ready_queue, event_queue, busy, last_op, spec_mode, inst_seq,
                     stage, count>>
  BY DEF DropStaleReady, Issuing, issueFrame
<1>2. rslinks \in Nat /\ Len(ready_queue) \in Nat /\ Len(event_queue) \in Nat /\ Len(scan) \in Nat
  BY CoreLists
<1>3. /\ scan' \in Seq(LinkType) /\ Len(scan') = Len(scan) - 1 /\ Len(scan) >= 1
      /\ ToSet(scan') \subseteq AllLinks
  BY <1>1, ScanHead
<1>4. Typed'
  <2>1. rslinks' \in Nat
    BY <1>1, <1>2
  <2> QED BY <1>1, <1>3, <2>1 DEF RuuCore, Typed, options, cvVars
<1>5. EventsInOrder' /\ Scanned'
  BY <1>1 DEF RuuCore, EventsInOrder, Scanned
<1>6. \A l \in ToSet(ready_queue') \cup ToSet(event_queue') \cup ToSet(scan') : OldLink(l)
  BY <1>1, <1>3, ListsKept, ListsInAll
<1>7. rslinks' + Listed' = rslinks + Listed
  BY <1>1, <1>2, <1>3 DEF Listed
<1>8. SameQueues
  BY <1>1, SameStations
<1> QED BY <1>1, <1>4, <1>5, <1>6, <1>7, <1>8, QuietStep

LEMMA IssueStoreStep ==
    ASSUME RuuCore, IssueStore, UNCHANGED options, NoPanic'
    PROVE  RuuCore'
<1>1. /\ scan # << >> /\ scan' = Tail(scan) /\ rslinks' = rslinks + 1 /\ stage = "issue" /\ count' = count + 1
      /\ Valid(Head(scan))
      /\ st' = [st EXCEPT ![AtScan].queued = FALSE, ![AtScan].issued = TRUE, ![AtScan].completed = TRUE]
      /\ UNCHANGED <<queueVars, cvVars, ready_queue, event_queue, busy, last_op, spec_mode, inst_seq,
                     stage>>
  BY DEF IssueStore, MayIssue, Issuing, issueFrame
<1>2. Silent(st[AtScan])
  BY DEF IssueStore, NoPanic, Silent
<1>3. /\ scan' \in Seq(LinkType) /\ Len(scan') = Len(scan) - 1 /\ Len(scan) >= 1
      /\ ToSet(scan') \subseteq AllLinks /\ AtScan \in Stations
  BY <1>1, ScanHead DEF AtScan
<1>4. /\ rslinks \in Nat /\ Len(ready_queue) \in Nat /\ Len(event_queue) \in Nat /\ Len(scan) \in Nat
      /\ st \in [Stations -> StationType] /\ count \in Nat
  BY CoreLists DEF RuuCore, Typed
<1>5. \A id \in Stations : st'[id] \in StationType /\ SameCore(st'[id], st[id])
  <2> TAKE id \in Stations
  <2>1. CASE id = AtScan
    <3>1. st'[id] = [st[id] EXCEPT !.queued = FALSE, !.issued = TRUE, !.completed = TRUE]
      BY <1>1, <1>4, <2>1
    <3>2. st[id] \in StationType
      BY <1>4
    <3>3. st'[id] \in StationType
      BY <3>1, <3>2 DEF StationType
    <3>4. Silent(st[id])
      BY <1>2, <2>1
    <3> QED BY <3>1, <3>2, <3>3, <3>4 DEF StationType, SameCore
  <2>2. CASE id # AtScan
    <3>1. st'[id] = st[id] /\ st[id] \in StationType
      BY <1>1, <1>4, <2>2
    <3> QED BY <3>1 DEF SameCore
  <2> QED BY <2>1, <2>2
<1>6. Typed'
  <2>1. rslinks' \in Nat /\ count' \in Nat
    BY <1>1, <1>4
  <2>2. st' \in [Stations -> StationType]
    BY <1>1, <1>4, <1>5
  <2> QED BY <1>1, <1>3, <2>1, <2>2 DEF RuuCore, Typed, options, cvVars
<1>7. EventsInOrder' /\ Scanned'
  BY <1>1 DEF RuuCore, EventsInOrder, Scanned
<1>8. \A l \in ToSet(ready_queue') \cup ToSet(event_queue') \cup ToSet(scan') : OldLink(l)
  BY <1>1, <1>3, ListsKept, ListsInAll
<1>9. rslinks' + Listed' = rslinks + Listed
  BY <1>1, <1>3, <1>4 DEF Listed
<1>10. SameQueues
  BY <1>1, <1>5 DEF SameQueues
<1> QED BY <1>1, <1>6, <1>7, <1>8, <1>9, <1>10, QuietStep

LEMMA LinkToIs ==
    ASSUME NEW s, NEW id \in Stations, s[id].tag \in Nat, s[id].seq \in Nat, NEW x \in Nat
    PROVE  /\ LinkTo(s, id, x) \in LinkType /\ LinkTo(s, id, x).rs = id
           /\ LinkTo(s, id, x).tag = s[id].tag /\ LinkTo(s, id, x).seq = s[id].seq
           /\ LinkTo(s, id, x).x = x
BY DEF LinkTo, LinkType

LEMMA IssueToUnitStep ==
    ASSUME RuuCore, NEW lat, IssueToUnit(lat), UNCHANGED options, NoPanic'
    PROVE  RuuCore'
<1>1. /\ scan # << >> /\ scan' = Tail(scan) /\ stage = "issue" /\ count' = count + 1
      /\ Valid(Head(scan)) /\ lat \in Latencies(AtScan)
      /\ st' = [st EXCEPT ![AtScan].queued = FALSE, ![AtScan].issued = TRUE]
      /\ busy' = IF st[AtScan].class = NA THEN busy ELSE Reserve(st[AtScan].class)
      /\ event_queue' = InsertEvent(event_queue, LinkTo(st, AtScan, lat))
      /\ UNCHANGED <<queueVars, cvVars, ready_queue, rslinks, last_op, spec_mode, inst_seq, stage>>
  BY DEF IssueToUnit, MayIssue, Issuing, issueFrame
<1>3. /\ scan' \in Seq(LinkType) /\ Len(scan') = Len(scan) - 1 /\ Len(scan) >= 1
      /\ ToSet(scan') \subseteq AllLinks /\ AtScan \in Stations /\ AtScan \in Live
  BY <1>1, ScanHead DEF AtScan
<1>4. /\ rslinks \in Nat /\ Len(ready_queue) \in Nat /\ Len(event_queue) \in Nat /\ Len(scan) \in Nat
      /\ event_queue \in Seq(LinkType) /\ InOrderOfTime(event_queue)
      /\ st \in [Stations -> StationType] /\ count \in Nat /\ busy \in [Units -> Nat]
  BY CoreLists DEF RuuCore, Typed
<1>5. \A id \in Stations : st'[id] \in StationType /\ SameCore(st'[id], st[id])
  <2> TAKE id \in Stations
  <2>1. CASE id = AtScan
    <3>1. st'[id] = [st[id] EXCEPT !.queued = FALSE, !.issued = TRUE]
      BY <1>1, <1>4, <2>1
    <3>2. st[id] \in StationType
      BY <1>4
    <3>3. st'[id] \in StationType
      BY <3>1, <3>2 DEF StationType
    <3> QED BY <3>1, <3>2, <3>3 DEF StationType, SameCore
  <2>2. CASE id # AtScan
    <3>1. st'[id] = st[id] /\ st[id] \in StationType
      BY <1>1, <1>4, <2>2
    <3> QED BY <3>1 DEF SameCore
  <2> QED BY <2>1, <2>2
<1>6. st[AtScan].class # NA => /\ FuClass[st[AtScan].class].oplat \in Nat \ {0}
                               /\ FuClass[st[AtScan].class].issuelat \in Nat
  <2>1. st[AtScan].class \in DOMAIN FuClass \cup {NA}
    BY <1>3, <1>4 DEF StationType
  <2> QED BY <2>1, UnitsAssumption
<1>7. lat \in Nat \ {0}
  BY <1>1, <1>6, SizeAssumption DEF Latencies
<1>8. busy' \in [Units -> Nat]
  <2>1. CASE st[AtScan].class = NA
    BY <1>1, <1>4, <2>1
  <2>2. CASE st[AtScan].class # NA
    BY <1>1, <1>4, <1>6, <2>2 DEF Reserve
  <2> QED BY <2>1, <2>2
<1> DEFINE l == LinkTo(st, AtScan, lat)
<1>9. /\ l \in LinkType /\ l.rs = AtScan /\ l.tag = st[AtScan].tag /\ l.seq = st[AtScan].seq /\ l.x = lat
  <2>1. st[AtScan].tag \in Nat /\ st[AtScan].seq \in Nat
    BY <1>3, <1>4 DEF StationType
  <2> QED BY <1>3, <1>7, <2>1, LinkToIs
<1> HIDE DEF l
<1>10. /\ event_queue' \in Seq(LinkType) /\ Len(event_queue') = Len(event_queue) + 1
       /\ ToSet(event_queue') = ToSet(event_queue) \cup {l}
       /\ InOrderOfTime(event_queue')
  BY <1>1, <1>4, <1>9, InsertEventIs DEF l
<1>11. Typed'
  <2>1. st' \in [Stations -> StationType]
    BY <1>1, <1>4, <1>5
  <2>2. count' \in Nat
    BY <1>1, <1>4
  <2> QED BY <1>1, <1>3, <1>8, <1>10, <2>1, <2>2 DEF RuuCore, Typed, options, cvVars
<1>12. EventsInOrder' /\ Scanned'
  <2>1. ASSUME NEW i \in 1..Len(event_queue') PROVE event_queue'[i].x >= 1
    <3>1. event_queue'[i] \in ToSet(event_queue) \/ event_queue'[i] = l
      BY <1>10, SeqMembers
    <3>2. \A m \in ToSet(event_queue) : m.x >= 1
      BY <1>1, <1>4, ListOfLinks DEF RuuCore, EventsInOrder, ToSet
    <3> QED BY <1>7, <1>9, <3>1, <3>2
  <2>2. EventsInOrder'
    BY <1>10, <2>1 DEF EventsInOrder, InOrderOfTime
  <2>3. Scanned'
    BY <1>1 DEF Scanned
  <2> QED BY <2>2, <2>3
<1>13. \A m \in ToSet(ready_queue') \cup ToSet(event_queue') \cup ToSet(scan') : OldLink(m) \/ NewLink(m)
  <2>1. NewLink(l)
    BY <1>3, <1>9 DEF NewLink
  <2>2. \A m \in AllLinks : OldLink(m)
    BY DEF OldLink, SameLink
  <2>3. ASSUME NEW m \in ToSet(ready_queue') \cup ToSet(event_queue') \cup ToSet(scan')
        PROVE  m \in AllLinks \/ m = l
    BY <1>1, <1>3, <1>10, ListsInAll
  <2> QED BY <2>1, <2>2, <2>3
<1>14. rslinks' + Listed' = rslinks + Listed
  BY <1>1, <1>3, <1>4, <1>10 DEF Listed
<1>15. SameQueues
  BY <1>1, <1>5 DEF SameQueues
<1> QED BY <1>1, <1>11, <1>12, <1>13, <1>14, <1>15, QuietStep

\* Links to stations in use are put on the ready queue.
LEMMA EnqueuedLinks ==
    ASSUME RuuCore, NEW ids, Len(ids) \in Nat, \A n \in 1..Len(ids) : ids[n] \in Live
    PROVE  /\ EnqueueAll(st, ready_queue, ids) \in Seq(LinkType)
           /\ Len(EnqueueAll(st, ready_queue, ids)) = Len(ready_queue) + Len(ids)
           /\ \A l \in ToSet(EnqueueAll(st, ready_queue, ids)) : OldLink(l) \/ NewLink(l)
<1>1. Live \subseteq Stations /\ ready_queue \in Seq(LinkType)
  BY LiveLists, CoreLists DEF RuuCore
<1>2. ASSUME NEW n \in 1..Len(ids)
      PROVE  LinkTo(st, ids[n], 0) \in LinkType /\ NewLink(LinkTo(st, ids[n], 0))
  <2>1. ids[n] \in Stations /\ ids[n] \in Live
    BY <1>1
  <2>2. st[ids[n]].tag \in Nat /\ st[ids[n]].seq \in Nat
    BY <2>1 DEF RuuCore, Typed, StationType
  <2> DEFINE id == ids[n]
  <2> HIDE DEF id
  <2>3. id \in Stations /\ id \in Live /\ st[id].tag \in Nat /\ st[id].seq \in Nat /\ 0 \in Nat
    BY <2>1, <2>2 DEF id
  <2>4. LinkTo(st, id, 0) \in LinkType /\ NewLink(LinkTo(st, id, 0))
    BY <2>3, LinkToIs DEF NewLink
  <2> QED BY <2>4 DEF id
<1>3. /\ EnqueueAll(st, ready_queue, ids) \in Seq(LinkType)
      /\ Len(EnqueueAll(st, ready_queue, ids)) = Len(ready_queue) + Len(ids)
      /\ ToSet(EnqueueAll(st, ready_queue, ids)) = ToSet(ready_queue) \cup {LinkTo(st, ids[n], 0) : n \in 1..Len(ids)}
  <2>1. \A n \in 1..Len(ids) : LinkTo(st, ids[n], 0) \in LinkType
    BY <1>2
  <2>2. PICK s : s = st
    OBVIOUS
  <2>3. \A n \in 1..Len(ids) : LinkTo(s, ids[n], 0) \in LinkType
    BY <2>1, <2>2
  <2>4. /\ EnqueueAll(s, ready_queue, ids) \in Seq(LinkType)
        /\ Len(EnqueueAll(s, ready_queue, ids)) = Len(ready_queue) + Len(ids)
        /\ ToSet(EnqueueAll(s, ready_queue, ids)) = ToSet(ready_queue) \cup {LinkTo(s, ids[n], 0) : n \in 1..Len(ids)}
    BY <1>1, <2>3, EnqueueAllIs
  <2> QED BY <2>2, <2>4
<1>4. \A l \in ToSet(ready_queue) : OldLink(l)
  BY ListsInAll DEF OldLink, SameLink
<1> QED BY <1>2, <1>3, <1>4

LEMMA RequeueStep ==
    ASSUME RuuCore, Requeue, UNCHANGED options
    PROVE  RuuCore'
<1>1. /\ scan # << >> /\ scan' = Tail(scan) /\ stage = "issue"
      /\ Valid(Head(scan)) /\ ready_queue' = EnqueueAll(st, ready_queue, <<AtScan>>)
      /\ UNCHANGED <<st, queueVars, cvVars, event_queue, rslinks, busy, last_op, spec_mode, inst_seq,
                     stage, count>>
  BY DEF Requeue, Issuing, issueFrame
<1>2. rslinks \in Nat /\ Len(ready_queue) \in Nat /\ Len(event_queue) \in Nat /\ Len(scan) \in Nat
  BY CoreLists
<1>3. /\ scan' \in Seq(LinkType) /\ Len(scan') = Len(scan) - 1 /\ Len(scan) >= 1
      /\ ToSet(scan') \subseteq AllLinks /\ AtScan \in Live
  BY <1>1, ScanHead
<1>4. /\ ready_queue' \in Seq(LinkType) /\ Len(ready_queue') = Len(ready_queue) + 1
      /\ \A l \in ToSet(ready_queue') : OldLink(l) \/ NewLink(l)
  <2> DEFINE ids == <<AtScan>>
  <2>1. Len(ids) = 1 /\ ids[1] = AtScan
    OBVIOUS
  <2> HIDE DEF ids
  <2>2. Len(ids) \in Nat /\ \A n \in 1..Len(ids) : ids[n] \in Live
    BY <1>3, <2>1
  <2>3. /\ EnqueueAll(st, ready_queue, ids) \in Seq(LinkType)
        /\ Len(EnqueueAll(st, ready_queue, ids)) = Len(ready_queue) + Len(ids)
        /\ \A l \in ToSet(EnqueueAll(st, ready_queue, ids)) : OldLink(l) \/ NewLink(l)
    BY <2>2, EnqueuedLinks
  <2>4. ready_queue' = EnqueueAll(st, ready_queue, ids)
    BY <1>1 DEF ids
  <2> QED BY <2>1, <2>3, <2>4
<1>5. Typed'
  BY <1>1, <1>3, <1>4 DEF RuuCore, Typed, options, cvVars
<1>6. EventsInOrder' /\ Scanned'
  BY <1>1 DEF RuuCore, EventsInOrder, Scanned
<1>7. \A l \in ToSet(ready_queue') \cup ToSet(event_queue') \cup ToSet(scan') : OldLink(l) \/ NewLink(l)
  <2>1. \A l \in ToSet(event_queue') \cup ToSet(scan') : OldLink(l)
    BY <1>1, <1>3, ListsInAll DEF OldLink, SameLink
  <2> QED BY <1>4, <2>1
<1>8. rslinks' + Listed' = rslinks + Listed
  <2>1. Len(ready_queue') = Len(ready_queue) + 1 /\ Len(scan') = Len(scan) - 1
    BY <1>3, <1>4
  <2>2. event_queue' = event_queue /\ rslinks' = rslinks
    BY <1>1
  <2> QED BY <1>2, <2>1, <2>2 DEF Listed
<1>9. SameQueues
  BY <1>1, SameStations
<1> QED BY <1>1, <1>5, <1>6, <1>7, <1>8, <1>9, QuietStep

LEMMA Marked ==
    ASSUME NEW s \in [Stations -> StationType], NEW ids
    PROVE  /\ MarkQueued(s, ids) \in [Stations -> StationType]
           /\ \A id \in Stations : SameCore(MarkQueued(s, ids)[id], s[id])
<1>1. ASSUME NEW id \in Stations
      PROVE  MarkQueued(s, ids)[id] \in StationType /\ SameCore(MarkQueued(s, ids)[id], s[id])
  <2>1. s[id] \in StationType
    OBVIOUS
  <2>2. MarkQueued(s, ids)[id] = [s[id] EXCEPT !.queued = TRUE] \/ MarkQueued(s, ids)[id] = s[id]
    BY DEF MarkQueued
  <2>3. CASE MarkQueued(s, ids)[id] = [s[id] EXCEPT !.queued = TRUE]
    BY <2>1, <2>3 DEF StationType, SameCore
  <2>4. CASE MarkQueued(s, ids)[id] = s[id]
    BY <2>1, <2>4 DEF SameCore
  <2> QED BY <2>2, <2>3, <2>4
<1>2. MarkQueued(s, ids) = [id \in Stations |-> MarkQueued(s, ids)[id]]
  BY DEF MarkQueued
<1> QED BY <1>1, <1>2

LEMMA LsqRefreshStep ==
    ASSUME RuuCore, LsqRefresh, UNCHANGED options, NoPanic'
    PROVE  RuuCore'
<1> DEFINE S == {p \in Searched : MayRead(p)}
           order == InOrder(S)
           loads == [n \in DOMAIN order |-> LsqLive[order[n]]]
<1>2. S \subseteq 1..LSQ_num /\ S \subseteq Nat /\ IsFiniteSet(S)
  <2>1. S \in SUBSET (1..LSQ_num)
    BY DEF Searched
  <2>2. LSQ_num \in Nat /\ LSQ_num \in Int /\ 1 \in Int
    BY DEF RuuCore, Rings, Ring
  <2> HIDE DEF S
  <2>3. IsFiniteSet(1..LSQ_num)
    BY <2>2, FS_Interval
  <2>4. \A p \in 1..LSQ_num : p \in Nat
    BY <2>2
  <2>5. IsFiniteSet(S)
    BY <2>1, <2>3, FS_Subset
  <2> QED BY <2>1, <2>4, <2>5
<1>1. /\ stage = "lsq_refresh" /\ stage' = "issue" /\ count' = 0
      /\ st' = MarkQueued(st, loads) /\ scan' = EnqueueAll(st, ready_queue, loads) /\ ready_queue' = << >>
      /\ rslinks' = rslinks - Len(loads) /\ rslinks >= Len(loads)
      /\ UNCHANGED <<queueVars, cvVars, event_queue, busy, last_op, spec_mode, inst_seq>>
  <2>1. /\ stage = "lsq_refresh" /\ stage' = "issue" /\ count' = 0
        /\ st' = MarkQueued(st, loads) /\ scan' = EnqueueAll(st, ready_queue, loads) /\ ready_queue' = << >>
        /\ rslinks' = rslinks - Len(loads) /\ ~(rslinks < Len(loads))
        /\ UNCHANGED <<queueVars, cvVars, event_queue, busy, last_op, spec_mode, inst_seq>>
    BY DEF LsqRefresh, GoTo, NoPanic
  <2>2. Len(loads) \in Nat
    <3> HIDE DEF S
    <3>2. Cardinality(S) \in Nat /\ DOMAIN order = 1..Cardinality(S)
      BY <1>2, InOrderIs
    <3> HIDE DEF order
    <3> QED BY <3>2
  <2>3. rslinks \in Nat
    BY CoreLists
  <2> HIDE DEF loads
  <2> QED BY <2>1, <2>2, <2>3
<1> HIDE DEF S
<1>3. Len(loads) \in Nat /\ \A n \in 1..Len(loads) : loads[n] \in Live
  <2>1. /\ Cardinality(S) \in Nat /\ DOMAIN order = 1..Cardinality(S)
        /\ \A n \in 1..Cardinality(S) : order[n] \in S
    BY <1>2, InOrderIs
  <2> HIDE DEF order
  <2>2. \A p \in 1..LSQ_num : LsqLive[p] \in Live
    BY LiveLists DEF RuuCore
  <2>3. DOMAIN loads = 1..Cardinality(S) /\ Len(loads) = Cardinality(S)
    BY <2>1
  <2>4. \A n \in 1..Cardinality(S) : loads[n] = LsqLive[order[n]] /\ order[n] \in 1..LSQ_num
    BY <1>2, <2>1
  <2> HIDE DEF loads
  <2> QED BY <2>1, <2>2, <2>3, <2>4
<1> HIDE DEF loads
<1>4. /\ rslinks \in Nat /\ Len(ready_queue) \in Nat /\ Len(event_queue) \in Nat /\ scan = << >>
      /\ st \in [Stations -> StationType]
  BY <1>1, CoreLists DEF RuuCore, Typed, Scanned
<1>5. /\ scan' \in Seq(LinkType) /\ Len(scan') = Len(ready_queue) + Len(loads)
      /\ \A l \in ToSet(scan') : OldLink(l) \/ NewLink(l)
  BY <1>1, <1>3, EnqueuedLinks
<1>6. st' \in [Stations -> StationType] /\ \A id \in Stations : SameCore(st'[id], st[id])
  BY <1>1, <1>4, Marked
<1>7. Typed'
  <2>1. ready_queue' \in Seq(LinkType)
    BY <1>1
  <2>2. rslinks' \in Nat /\ count' \in Nat
    BY <1>1, <1>3, <1>4
  <2> QED BY <1>1, <1>5, <1>6, <2>1, <2>2 DEF RuuCore, Typed, options, cvVars
<1>8. EventsInOrder' /\ Scanned'
  BY <1>1 DEF RuuCore, EventsInOrder, Scanned
<1>9. \A l \in ToSet(ready_queue') \cup ToSet(event_queue') \cup ToSet(scan') : OldLink(l) \/ NewLink(l)
  <2>1. \A l \in ToSet(event_queue') : OldLink(l)
    BY <1>1, ListsInAll DEF OldLink, SameLink
  <2>2. ToSet(ready_queue') = {}
    BY <1>1 DEF ToSet
  <2> QED BY <1>5, <2>1, <2>2
<1>10. rslinks' + Listed' = rslinks + Listed
  <2>1. Len(ready_queue') = 0 /\ Len(scan) = 0
    BY <1>1, <1>4
  <2> QED BY <1>1, <1>3, <1>4, <1>5, <2>1 DEF Listed
<1>11. SameQueues
  BY <1>1, <1>6 DEF SameQueues
<1> QED BY <1>1, <1>7, <1>8, <1>9, <1>10, <1>11, QuietStep

-----------------------------------------------------------------------------
(* ruu_commit takes the head of the RUU, with the head of the LSQ.         *)

HeadLeaves(mem, gone) ==
    /\ RUU_num > 0 /\ st[HeadRs].completed
    /\ mem <=> EaComp(st[HeadRs])
    /\ mem => LSQ_num > 0 /\ st[HeadLsq].completed
    /\ gone = {HeadRs} \cup (IF mem THEN {HeadLsq} ELSE {})
    /\ \A k \in Outs : st[HeadRs].odeps[k] = << >>
    /\ st' = [id \in Stations |-> IF id \in gone THEN [st[id] EXCEPT !.tag = @ + 1] ELSE st[id]]
    /\ RUU_head' = (RUU_head + 1) % RUU_size /\ RUU_num' = RUU_num - 1 /\ RUU_tail' = RUU_tail
    /\ LSQ_head' = (IF mem THEN (LSQ_head + 1) % LSQ_size ELSE LSQ_head)
    /\ LSQ_num' = (IF mem THEN LSQ_num - 1 ELSE LSQ_num) /\ LSQ_tail' = LSQ_tail
    /\ UNCHANGED <<cvVars, ready_queue, event_queue, rslinks, last_op, spec_mode, inst_seq, stage, scan>>

LEMMA CommitLeaves ==
    ASSUME RuuCore, CommitHead, NoPanic'
    PROVE  \E gone : HeadLeaves(EaComp(st[HeadRs]), gone)
<1> DEFINE mem == EaComp(st[HeadRs])
           gone == {HeadRs} \cup (IF mem THEN {HeadLsq} ELSE {})
<1>1. ~(mem /\ ~LsqInStep) /\ \A k \in Outs : ~(st[HeadRs].odeps[k] # << >>)
  BY DEF CommitHead, NoPanic
<1>2. RUU_num > 0 /\ st[HeadRs].completed /\ (mem /\ LsqInStep => st[HeadLsq].completed)
  BY DEF CommitHead, MayCommit
<1>3. mem => LSQ_num > 0 /\ st[HeadLsq].completed
  BY <1>1, <1>2 DEF LsqInStep
<1>4. /\ st' = [id \in Stations |-> IF id \in gone THEN [st[id] EXCEPT !.tag = @ + 1] ELSE st[id]]
      /\ RUU_head' = (RUU_head + 1) % RUU_size /\ RUU_num' = RUU_num - 1
      /\ LSQ_head' = (IF mem THEN (LSQ_head + 1) % LSQ_size ELSE LSQ_head)
      /\ LSQ_num' = (IF mem THEN LSQ_num - 1 ELSE LSQ_num)
      /\ UNCHANGED <<RUU_tail, LSQ_tail, cvVars, ready_queue, event_queue, rslinks, last_op, spec_mode, inst_seq,
                     stage, scan>>
  BY DEF CommitHead
<1> HIDE DEF mem
<1>5. HeadLeaves(mem, gone)
  BY <1>1, <1>2, <1>3, <1>4 DEF HeadLeaves, mem
<1> HIDE DEF gone
<1> QED BY <1>5 DEF mem

\* The first of a line.
LEMMA LineHead ==
    ASSUME NEW q, NEW h, NEW t, NEW n, NEW N, Ring(h, t, n, N), n > 0, NEW b, b = h % N
    PROVE  RingLine(q, h, n, N)[1] = <<q, b>>
<1>1. h + 1 - 1 = h /\ 1 \in 1..n
  BY DEF Ring
<1> QED BY <1>1 DEF RingLine, Slot0

\* What the queues list then.
LEMMA HeadLines ==
    ASSUME RuuCore, NEW gone, HeadLeaves(EaComp(st[HeadRs]), gone)
    PROVE  /\ Rings' /\ gone \subseteq Live /\ HeadRs = RuuLive[1] /\ HeadRs \in RuuIds
           /\ EaComp(st[HeadRs]) => HeadLsq = LsqLive[1] /\ HeadLsq \in LsqIds
           /\ \A k \in 1..RUU_num - 1 : RuuLive'[k] = RuuLive[k + 1]
           /\ IF EaComp(st[HeadRs]) THEN \A k \in 1..LSQ_num - 1 : LsqLive'[k] = LsqLive[k + 1]
              ELSE \A k \in 1..LSQ_num : LsqLive'[k] = LsqLive[k]
           /\ Live' = Live \ gone
<1>1. /\ RUU_num > 0 /\ gone = {HeadRs} \cup (IF EaComp(st[HeadRs]) THEN {HeadLsq} ELSE {})
      /\ RUU_head' = (RUU_head + 1) % RUU_size /\ RUU_num' = RUU_num - 1 /\ RUU_tail' = RUU_tail
      /\ EaComp(st[HeadRs]) => LSQ_num > 0 /\ LSQ_head' = (LSQ_head + 1) % LSQ_size /\ LSQ_num' = LSQ_num - 1
      /\ ~EaComp(st[HeadRs]) => LSQ_head' = LSQ_head /\ LSQ_num' = LSQ_num
      /\ LSQ_tail' = LSQ_tail
  BY DEF HeadLeaves
<1>2. Ring(RUU_head, RUU_tail, RUU_num, RUU_size) /\ Ring(LSQ_head, LSQ_tail, LSQ_num, LSQ_size)
  BY DEF RuuCore, Rings
<1>3. Lists(RuuLive, RUU_num, RuuIds) /\ Lists(LsqLive, LSQ_num, LsqIds)
  BY LiveLists DEF RuuCore
<1>4. /\ RuuLive = RingLine("RUU", RUU_head, RUU_num, RUU_size) /\ LsqLive = RingLine("LSQ", LSQ_head, LSQ_num, LSQ_size)
      /\ RuuLive' = RingLine("RUU", RUU_head', RUU_num', RUU_size) /\ LsqLive' = RingLine("LSQ", LSQ_head', LSQ_num', LSQ_size)
  BY DEF RuuLive, LsqLive, RingLine, RuuAt, LsqAt, Slot0
<1>5. /\ Ring(RUU_head', RUU_tail', RUU_num', RUU_size)
      /\ \A k \in 1..RUU_num - 1 : RuuLive'[k] = RuuLive[k + 1]
  BY <1>1, <1>2, <1>4, LineBehead
<1>6. HeadRs = RuuLive[1]
  <2>1. RingLine("RUU", RUU_head, RUU_num, RUU_size)[1] = <<"RUU", RUU_head % RUU_size>>
    BY <1>1, <1>2, LineHead
  <2> QED BY <1>4, <2>1 DEF HeadRs, RuuAt
<1>7. CASE EaComp(st[HeadRs])
  <2>1. /\ Ring(LSQ_head', LSQ_tail', LSQ_num', LSQ_size)
        /\ \A k \in 1..LSQ_num - 1 : LsqLive'[k] = LsqLive[k + 1]
    BY <1>1, <1>2, <1>4, <1>7, LineBehead
  <2>2. HeadLsq = LsqLive[1]
    <3>1. RingLine("LSQ", LSQ_head, LSQ_num, LSQ_size)[1] = <<"LSQ", LSQ_head % LSQ_size>>
      BY <1>1, <1>2, <1>7, LineHead
    <3> QED BY <1>4, <3>1 DEF HeadLsq, LsqAt
  <2>3. Rings'
    BY <1>5, <2>1 DEF Rings
  <2>4. gone = {RuuLive[1], LsqLive[1]}
    BY <1>1, <1>6, <1>7, <2>2
  <2>5. ASSUME NEW id \in Live' PROVE id \in Live \ gone
    <3>1. CASE \E k \in 1..RUU_num' : id = RuuLive'[k]
      <4>1. PICK k \in 1..RUU_num' : id = RuuLive'[k]
        BY <3>1
      <4>2. k + 1 \in 1..RUU_num /\ 1 \in 1..RUU_num /\ k + 1 # 1 /\ k \in 1..RUU_num - 1
        BY <1>1, <1>3 DEF Lists
      <4>3. id = RuuLive[k + 1] /\ id # RuuLive[1] /\ id \in RuuIds
        BY <1>3, <1>5, <4>1, <4>2 DEF Lists
      <4>4. id # LsqLive[1]
        BY <1>1, <1>3, <1>7, <4>3, LiveIs DEF Lists
      <4> QED BY <2>4, <4>2, <4>3, <4>4, LiveLists DEF RuuCore
    <3>2. CASE \E k \in 1..LSQ_num' : id = LsqLive'[k]
      <4>1. PICK k \in 1..LSQ_num' : id = LsqLive'[k]
        BY <3>2
      <4>2. k + 1 \in 1..LSQ_num /\ 1 \in 1..LSQ_num /\ k + 1 # 1 /\ k \in 1..LSQ_num - 1
        BY <1>1, <1>3, <1>7 DEF Lists
      <4>3. id = LsqLive[k + 1] /\ id # LsqLive[1] /\ id \in LsqIds
        BY <1>3, <2>1, <4>1, <4>2 DEF Lists
      <4>4. id # RuuLive[1]
        BY <1>1, <1>3, <4>3, LiveIs DEF Lists
      <4> QED BY <2>4, <4>2, <4>3, <4>4, LiveLists DEF RuuCore
    <3> QED BY <2>3, <2>5, <3>1, <3>2, LiveListsNext
  <2>6. ASSUME NEW id \in Live, id \notin gone PROVE id \in Live'
    <3>1. CASE \E k \in 1..RUU_num : id = RuuLive[k]
      <4>1. PICK k \in 1..RUU_num : id = RuuLive[k]
        BY <3>1
      <4>2. k # 1
        BY <2>4, <2>6, <4>1
      <4>3. k - 1 \in 1..RUU_num' /\ k - 1 \in 1..RUU_num - 1 /\ (k - 1) + 1 = k
        BY <1>1, <1>3, <4>2 DEF Lists
      <4>4. id = RuuLive'[k - 1]
        BY <1>5, <4>1, <4>3
      <4> QED BY <2>3, <4>3, <4>4, LiveListsNext
    <3>2. CASE \E k \in 1..LSQ_num : id = LsqLive[k]
      <4>1. PICK k \in 1..LSQ_num : id = LsqLive[k]
        BY <3>2
      <4>2. k # 1
        BY <2>4, <2>6, <4>1
      <4>3. k - 1 \in 1..LSQ_num' /\ k - 1 \in 1..LSQ_num - 1 /\ (k - 1) + 1 = k
        BY <1>1, <1>3, <1>7, <4>2 DEF Lists
      <4>4. id = LsqLive'[k - 1]
        BY <2>1, <4>1, <4>3
      <4> QED BY <2>3, <4>3, <4>4, LiveListsNext
    <3> QED BY <2>6, <3>1, <3>2, LiveLists DEF RuuCore
  <2>7. 1 \in 1..RUU_num /\ 1 \in 1..LSQ_num
    BY <1>1, <1>3, <1>7 DEF Lists
  <2>8. HeadRs \in RuuIds /\ HeadLsq \in LsqIds /\ gone \subseteq Live
    BY <1>3, <1>6, <2>2, <2>4, <2>7, LiveLists DEF RuuCore, Lists
  <2>9. Live' = Live \ gone
    BY <2>5, <2>6
  <2> QED BY <1>5, <1>6, <1>7, <2>1, <2>2, <2>3, <2>8, <2>9
<1>8. CASE ~EaComp(st[HeadRs])
  <2>1. LsqLive' = LsqLive /\ LSQ_num' = LSQ_num /\ Ring(LSQ_head', LSQ_tail', LSQ_num', LSQ_size)
    BY <1>1, <1>2, <1>4, <1>8
  <2>3. Rings'
    BY <1>5, <2>1 DEF Rings
  <2>4. gone = {RuuLive[1]}
    BY <1>1, <1>6, <1>8
  <2>5. ASSUME NEW id \in Live' PROVE id \in Live \ gone
    <3>1. CASE \E k \in 1..RUU_num' : id = RuuLive'[k]
      <4>1. PICK k \in 1..RUU_num' : id = RuuLive'[k]
        BY <3>1
      <4>2. k + 1 \in 1..RUU_num /\ 1 \in 1..RUU_num /\ k + 1 # 1 /\ k \in 1..RUU_num - 1
        BY <1>1, <1>3 DEF Lists
      <4>3. id = RuuLive[k + 1] /\ id # RuuLive[1]
        BY <1>3, <1>5, <4>1, <4>2 DEF Lists
      <4> QED BY <2>4, <4>2, <4>3, LiveLists DEF RuuCore
    <3>2. CASE \E k \in 1..LSQ_num' : id = LsqLive'[k]
      <4>1. PICK k \in 1..LSQ_num : id = LsqLive[k]
        BY <2>1, <3>2
      <4>2. 1 \in 1..RUU_num
        BY <1>1, <1>3 DEF Lists
      <4>3. id # RuuLive[1]
        BY <1>3, <4>1, <4>2, LiveIs DEF Lists
      <4> QED BY <2>4, <4>1, <4>3, LiveLists DEF RuuCore
    <3> QED BY <2>3, <2>5, <3>1, <3>2, LiveListsNext
  <2>6. ASSUME NEW id \in Live, id \notin gone PROVE id \in Live'
    <3>1. CASE \E k \in 1..RUU_num : id = RuuLive[k]
      <4>1. PICK k \in 1..RUU_num : id = RuuLive[k]
        BY <3>1
      <4>2. k # 1
        BY <2>4, <2>6, <4>1
      <4>3. k - 1 \in 1..RUU_num' /\ k - 1 \in 1..RUU_num - 1 /\ (k - 1) + 1 = k
        BY <1>1, <1>3, <4>2 DEF Lists
      <4>4. id = RuuLive'[k - 1]
        BY <1>5, <4>1, <4>3
      <4> QED BY <2>3, <4>3, <4>4, LiveListsNext
    <3>2. CASE \E k \in 1..LSQ_num : id = LsqLive[k]
      BY <2>1, <2>3, <3>2, LiveListsNext
    <3> QED BY <2>6, <3>1, <3>2, LiveLists DEF RuuCore
  <2>7. 1 \in 1..RUU_num
    BY <1>1, <1>3 DEF Lists
  <2>8. HeadRs \in RuuIds /\ gone \subseteq Live
    BY <1>3, <1>6, <2>4, <2>7, LiveLists DEF RuuCore, Lists
  <2>9. Live' = Live \ gone
    BY <2>5, <2>6
  <2> QED BY <1>5, <1>6, <1>8, <2>1, <2>3, <2>8, <2>9
<1> QED BY <1>7, <1>8

\* All but the tag, what is queued and issued and the operands is the same.
Kept(a, b) ==
    /\ a.seq = b.seq /\ a.kind = b.kind /\ a.class = b.class /\ a.recover = b.recover /\ a.spec = b.spec
    /\ a.onames = b.onames /\ a.odeps = b.odeps /\ a.completed = b.completed

LEMMA HeadKept ==
    ASSUME RuuCore, NEW gone, HeadLeaves(EaComp(st[HeadRs]), gone)
    PROVE  /\ st' \in [Stations -> StationType]
           /\ \A id \in Stations : /\ Kept(st'[id], st[id])
                                   /\ st'[id].tag = IF id \in gone THEN st[id].tag + 1 ELSE st[id].tag
<1>1. st' = [id \in Stations |-> IF id \in gone THEN [st[id] EXCEPT !.tag = @ + 1] ELSE st[id]]
  BY DEF HeadLeaves
<1>2. ASSUME NEW id \in Stations
      PROVE  /\ st'[id] \in StationType /\ Kept(st'[id], st[id])
             /\ st'[id].tag = IF id \in gone THEN st[id].tag + 1 ELSE st[id].tag
  <2>1. st[id] \in StationType
    BY DEF RuuCore, Typed
  <2>2. CASE id \in gone
    <3>1. st'[id] = [st[id] EXCEPT !.tag = st[id].tag + 1]
      BY <1>1, <2>2
    <3>2. st[id].tag \in Nat /\ st[id].tag + 1 \in Nat
      BY <2>1 DEF StationType
    <3>3. st'[id] \in StationType /\ st'[id].tag = st[id].tag + 1
      BY <2>1, <3>1, <3>2 DEF StationType
    <3>4. Kept(st'[id], st[id])
      BY <2>1, <3>1 DEF StationType, Kept
    <3> QED BY <2>2, <3>3, <3>4
  <2>3. CASE id \notin gone
    <3>1. st'[id] = st[id]
      BY <1>1, <2>3
    <3> QED BY <2>1, <2>3, <3>1 DEF Kept
  <2> QED BY <2>2, <2>3
<1>3. st' \in [Stations -> StationType]
  BY <1>1, <1>2
<1> QED BY <1>2, <1>3

\* The address computations are numbered anew.
LEMMA HeadAgens ==
    ASSUME RuuCore, NEW gone, HeadLeaves(EaComp(st[HeadRs]), gone)
    PROVE  /\ RUU_num \in Nat /\ RUU_num > 0 /\ RUU_num' = RUU_num - 1
           /\ \A n \in 0..RUU_num - 1 :
                  Agens(n)' = IF EaComp(st[HeadRs]) THEN Agens(n + 1) - 1 ELSE Agens(n + 1)
           /\ \A n \in 1..RUU_num - 1 : Kept(st'[RuuLive'[n]], st[RuuLive[n + 1]])
<1>1. RUU_num \in Nat /\ RUU_num > 0 /\ RUU_num' = RUU_num - 1 /\ RUU_num' \in Nat
  <2>1. RUU_num > 0 /\ RUU_num' = RUU_num - 1
    BY DEF HeadLeaves
  <2>2. RUU_num \in Nat
    BY DEF RuuCore, Rings, Ring
  <2> QED BY <2>1, <2>2
<1>2. HeadRs = RuuLive[1] /\ \A k \in 1..RUU_num - 1 : RuuLive'[k] = RuuLive[k + 1]
  BY HeadLines
<1>3. \A k \in 1..RUU_num : RuuLive[k] \in Stations
  BY LiveLists, LiveIs DEF RuuCore, Lists
<1>4. ASSUME NEW k \in 1..RUU_num - 1 PROVE Kept(st'[RuuLive'[k]], st[RuuLive[k + 1]])
  <2>1. k + 1 \in 1..RUU_num
    BY <1>1
  <2>2. RuuLive[k + 1] \in Stations /\ RuuLive'[k] = RuuLive[k + 1]
    BY <1>2, <1>3, <2>1
  <2> QED BY <2>2, HeadKept
<1>5. ASSUME NEW n \in 0..RUU_num - 1
      PROVE  Agens(n)' = IF EaComp(st[HeadRs]) THEN Agens(n + 1) - 1 ELSE Agens(n + 1)
  <2>1. \A k \in 1..n : k \in AgenPlaces' <=> k + 1 \in AgenPlaces
    <3> TAKE k \in 1..n
    <3>1. k \in 1..RUU_num - 1 /\ k \in 1..RUU_num' /\ k + 1 \in 1..RUU_num
      BY <1>1
    <3>2. Kept(st'[RuuLive'[k]], st[RuuLive[k + 1]])
      BY <1>4, <3>1
    <3> QED BY <3>1, <3>2 DEF AgenPlaces, EaComp, Kept
  <2>2. 1 \in AgenPlaces <=> EaComp(st[HeadRs])
    BY <1>1, <1>2 DEF AgenPlaces
  <2>3. n \in Nat /\ n \in 0..RUU_num' /\ n + 1 \in 0..RUU_num
    BY <1>1
  <2>4. Agens(n)' = NumUpto(AgenPlaces', n) /\ Agens(n + 1) = NumUpto(AgenPlaces, n + 1)
    BY <1>1, <2>3, AgensIs, AgensIsNext
  <2>5. NumUpto(AgenPlaces', n) = IF 1 \in AgenPlaces THEN NumUpto(AgenPlaces, n + 1) - 1 ELSE NumUpto(AgenPlaces, n + 1)
    BY <2>1, <2>3, CountBehead
  <2> QED BY <2>2, <2>4, <2>5
<1> QED BY <1>1, <1>4, <1>5

LEMMA HeadPaired ==
    ASSUME RuuCore, NEW gone, HeadLeaves(EaComp(st[HeadRs]), gone)
    PROVE  /\ Paired'
           /\ \A n \in 1..LSQ_num' :
                 LET m == IF EaComp(st[HeadRs]) THEN n + 1 ELSE n
                 IN m \in 1..LSQ_num /\ Kept(st'[LsqLive'[n]], st[LsqLive[m]])
<1>1. /\ RUU_num \in Nat /\ RUU_num > 0 /\ RUU_num' = RUU_num - 1
      /\ \A n \in 0..RUU_num - 1 : Agens(n)' = IF EaComp(st[HeadRs]) THEN Agens(n + 1) - 1 ELSE Agens(n + 1)
      /\ \A n \in 1..RUU_num - 1 : Kept(st'[RuuLive'[n]], st[RuuLive[n + 1]])
  BY HeadAgens
<1>2. /\ \A n \in 1..RUU_num : ~InLSQ(st[RuuLive[n]])
      /\ \A n \in 1..LSQ_num : InLSQ(st[LsqLive[n]])
      /\ Agens(RUU_num) = LSQ_num
      /\ \A n \in 1..RUU_num : EaComp(st[RuuLive[n]]) =>
             /\ Agens(n) \in 1..LSQ_num
             /\ st[LsqLive[Agens(n)]].seq = st[RuuLive[n]].seq + 1
             /\ st[LsqLive[Agens(n)]].spec = st[RuuLive[n]].spec
  BY DEF RuuCore, Paired
<1>3. /\ EaComp(st[HeadRs]) => LSQ_num > 0 /\ LSQ_num' = LSQ_num - 1
      /\ ~EaComp(st[HeadRs]) => LSQ_num' = LSQ_num
      /\ LSQ_num \in Nat
  BY DEF HeadLeaves, RuuCore, Rings, Ring
<1>4. \A k \in 1..LSQ_num : LsqLive[k] \in Stations
  BY LiveLists, LiveIs DEF RuuCore, Lists
<1>5. ASSUME NEW n \in 1..LSQ_num', NEW m, m = (IF EaComp(st[HeadRs]) THEN n + 1 ELSE n)
      PROVE  m \in 1..LSQ_num /\ LsqLive'[n] = LsqLive[m] /\ Kept(st'[LsqLive'[n]], st[LsqLive[m]])
  <2>1. m \in 1..LSQ_num
    BY <1>3, <1>5
  <2>2. LsqLive'[n] = LsqLive[m]
    <3>1. CASE EaComp(st[HeadRs])
      <4>1. n \in 1..LSQ_num - 1 /\ m = n + 1
        BY <1>3, <1>5, <3>1
      <4> QED BY <3>1, <4>1, HeadLines
    <3>2. CASE ~EaComp(st[HeadRs])
      <4>1. n \in 1..LSQ_num /\ m = n
        BY <1>3, <1>5, <3>2
      <4> QED BY <3>2, <4>1, HeadLines
    <3> QED BY <3>1, <3>2
  <2> QED BY <1>4, <2>1, <2>2, HeadKept
<1>6. \A n \in 1..RUU_num' : ~InLSQ(st'[RuuLive'[n]])
  <2> TAKE n \in 1..RUU_num'
  <2>1. n \in 1..RUU_num - 1 /\ n + 1 \in 1..RUU_num
    BY <1>1
  <2> QED BY <1>1, <1>2, <2>1 DEF InLSQ, Kept
<1>7. \A n \in 1..LSQ_num' : InLSQ(st'[LsqLive'[n]])
  <2> TAKE n \in 1..LSQ_num'
  <2> DEFINE m == IF EaComp(st[HeadRs]) THEN n + 1 ELSE n
  <2> HIDE DEF m
  <2>1. m \in 1..LSQ_num /\ Kept(st'[LsqLive'[n]], st[LsqLive[m]])
    BY <1>5 DEF m
  <2> QED BY <1>2, <2>1 DEF InLSQ, Kept
<1>8. Agens(RUU_num)' = LSQ_num'
  <2>1. PICK n \in 0..RUU_num - 1 : n + 1 = RUU_num /\ n = RUU_num'
    <3>1. RUU_num - 1 \in 0..RUU_num - 1 /\ (RUU_num - 1) + 1 = RUU_num /\ RUU_num - 1 = RUU_num'
      BY <1>1
    <3> QED BY <3>1
  <2>2. Agens(n)' = Cardinality({k \in 1..n : EaComp(st'[RuuLive'[k]])})
    BY DEF Agens, EaComp
  <2>3. Agens(RUU_num)' = Cardinality({k \in 1..RUU_num' : EaComp(st'[RuuLive'[k]])})
    BY DEF Agens, EaComp
  <2>4. Agens(RUU_num)' = Agens(n)'
    BY <2>1, <2>2, <2>3
  <2>5. Agens(n)' = IF EaComp(st[HeadRs]) THEN LSQ_num - 1 ELSE LSQ_num
    BY <1>1, <1>2, <2>1
  <2> QED BY <1>3, <2>4, <2>5
<1>9. ASSUME NEW n \in 1..RUU_num', EaComp(st'[RuuLive'[n]])
      PROVE  /\ Agens(n)' \in 1..LSQ_num'
             /\ st'[LsqLive'[Agens(n)']].seq = st'[RuuLive'[n]].seq + 1
             /\ st'[LsqLive'[Agens(n)']].spec = st'[RuuLive'[n]].spec
  <2>1. n \in 1..RUU_num - 1 /\ n \in 0..RUU_num - 1 /\ n + 1 \in 1..RUU_num
    BY <1>1
  <2>2. Kept(st'[RuuLive'[n]], st[RuuLive[n + 1]]) /\ EaComp(st[RuuLive[n + 1]])
    BY <1>1, <1>9, <2>1 DEF EaComp, Kept
  <2>3. /\ Agens(n + 1) \in 1..LSQ_num
        /\ st[LsqLive[Agens(n + 1)]].seq = st[RuuLive[n + 1]].seq + 1
        /\ st[LsqLive[Agens(n + 1)]].spec = st[RuuLive[n + 1]].spec
    BY <1>2, <2>1, <2>2
  <2>4. Agens(n)' = IF EaComp(st[HeadRs]) THEN Agens(n + 1) - 1 ELSE Agens(n + 1)
    BY <1>1, <2>1
  <2>5. Agens(n)' \in Nat \ {0}
    <3>1. RUU_num' \in Nat /\ n \in 0..RUU_num' /\ n - 1 \in Nat /\ n - 1 + 1 = n
      BY <1>1
    <3>2. Agens(n)' = NumUpto(AgenPlaces', n)
      BY <3>1, AgensIsNext
    <3>3. n \in AgenPlaces'
      BY <1>9, <2>1 DEF AgenPlaces, EaComp
    <3>4. NumUpto(AgenPlaces', n) = NumUpto(AgenPlaces', n - 1) + 1 /\ NumUpto(AgenPlaces', n - 1) \in Nat
      BY <3>1, <3>3, CountNext, UptoFinite
    <3> QED BY <3>2, <3>4
  <2>6. Agens(n)' \in 1..LSQ_num'
    BY <1>3, <2>3, <2>4, <2>5
  <2> DEFINE a == Agens(n)'
             m == IF EaComp(st[HeadRs]) THEN a + 1 ELSE a
  <2>7. a \in 1..LSQ_num'
    BY <2>6
  <2>8. m = Agens(n + 1)
    BY <2>3, <2>4
  <2> HIDE DEF a
  <2>9. Kept(st'[LsqLive'[a]], st[LsqLive[m]])
    BY <1>5, <2>7
  <2> HIDE DEF m
  <2>10. /\ st'[LsqLive'[a]].seq = st'[RuuLive'[n]].seq + 1
         /\ st'[LsqLive'[a]].spec = st'[RuuLive'[n]].spec
    BY <2>2, <2>3, <2>8, <2>9 DEF Kept
  <2> QED BY <2>6, <2>10 DEF a
<1>10. Paired'
  BY <1>6, <1>7, <1>8, <1>9 DEF Paired, InLSQ, EaComp
<1> QED BY <1>5, <1>10

LEMMA HeadPath ==
    ASSUME RuuCore, NEW gone, HeadLeaves(EaComp(st[HeadRs]), gone)
    PROVE  OnePath'
<1>1. /\ RUU_num \in Nat /\ RUU_num > 0 /\ RUU_num' = RUU_num - 1
      /\ \A n \in 0..RUU_num - 1 : Agens(n)' = IF EaComp(st[HeadRs]) THEN Agens(n + 1) - 1 ELSE Agens(n + 1)
      /\ \A n \in 1..RUU_num - 1 : Kept(st'[RuuLive'[n]], st[RuuLive[n + 1]])
  BY HeadAgens
<1>2. \A n \in 1..LSQ_num' :
          /\ EaComp(st[HeadRs]) => n + 1 \in 1..LSQ_num /\ Kept(st'[LsqLive'[n]], st[LsqLive[n + 1]])
          /\ ~EaComp(st[HeadRs]) => n \in 1..LSQ_num /\ Kept(st'[LsqLive'[n]], st[LsqLive[n]])
  BY HeadPaired
<1>3. \A n \in 1..RUU_num' : n \in 1..RUU_num - 1 /\ n + 1 \in 1..RUU_num
  BY <1>1
<1>4. spec_mode' = spec_mode
  BY DEF HeadLeaves
<1>5. \A n \in 1..RUU_num' : /\ Pends(st'[RuuLive'[n]]) <=> Pends(st[RuuLive[n + 1]])
                             /\ st'[RuuLive'[n]].spec = st[RuuLive[n + 1]].spec
  BY <1>1, <1>3 DEF Pends, Kept
<1>6. CASE spec_mode
  <2>1. PICK o \in 1..RUU_num :
          /\ \A n \in 1..RUU_num : /\ Pends(st[RuuLive[n]]) <=> n = o
                                   /\ st[RuuLive[n]].spec <=> n > o
          /\ \A n \in 1..LSQ_num : st[LsqLive[n]].spec <=> n > Agens(o)
    BY <1>6 DEF RuuCore, OnePath
  <2>2. o # 1
    <3>1. st[RuuLive[1]].completed /\ 1 \in 1..RUU_num
      <4>1. HeadRs = RuuLive[1]
        BY HeadLines
      <4> QED BY <1>1, <4>1 DEF HeadLeaves
    <3> QED BY <2>1, <3>1 DEF Pends
  <2>3. PICK b \in 1..RUU_num' : b + 1 = o /\ b \in 0..RUU_num - 1
    <3>1. o - 1 \in 1..RUU_num' /\ (o - 1) + 1 = o /\ o - 1 \in 0..RUU_num - 1
      BY <1>1, <2>2
    <3> QED BY <3>1
  <2>4. \A n \in 1..RUU_num' : /\ Pends(st'[RuuLive'[n]]) <=> n = b
                               /\ st'[RuuLive'[n]].spec <=> n > b
    <3> TAKE n \in 1..RUU_num'
    <3>1. n + 1 \in 1..RUU_num /\ (n + 1 = o <=> n = b) /\ (n + 1 > o <=> n > b)
      BY <1>1, <2>3
    <3> QED BY <1>5, <2>1, <3>1
  <2>5. Agens(b)' = IF EaComp(st[HeadRs]) THEN Agens(o) - 1 ELSE Agens(o)
    BY <1>1, <2>3
  <2>6. Agens(o) \in Nat
    <3>1. RUU_num \in Nat /\ o \in 0..RUU_num /\ o \in Nat
      BY <1>1
    <3> QED BY <3>1, AgensIs, UptoFinite
  <2>7. \A n \in 1..LSQ_num' : st'[LsqLive'[n]].spec <=> n > Agens(b)'
    <3> TAKE n \in 1..LSQ_num'
    <3>1. CASE EaComp(st[HeadRs])
      <4>1. n + 1 \in 1..LSQ_num /\ Kept(st'[LsqLive'[n]], st[LsqLive[n + 1]]) /\ n \in Nat
        BY <1>2, <3>1
      <4>2. n + 1 > Agens(o) <=> n > Agens(b)'
        BY <2>5, <2>6, <3>1, <4>1
      <4>3. st[LsqLive[n + 1]].spec <=> n + 1 > Agens(o)
        BY <2>1, <4>1
      <4> QED BY <4>1, <4>2, <4>3 DEF Kept
    <3>2. CASE ~EaComp(st[HeadRs])
      <4>1. n \in 1..LSQ_num /\ Kept(st'[LsqLive'[n]], st[LsqLive[n]])
        BY <1>2, <3>2
      <4> QED BY <2>1, <2>5, <3>2, <4>1 DEF Kept
    <3> QED BY <3>1, <3>2
  <2> QED BY <1>4, <1>6, <2>3, <2>4, <2>7 DEF OnePath, Pends
<1>7. CASE ~spec_mode
  <2>1. /\ \A n \in 1..RUU_num : ~Pends(st[RuuLive[n]]) /\ ~st[RuuLive[n]].spec
        /\ \A n \in 1..LSQ_num : ~st[LsqLive[n]].spec
    BY <1>7 DEF RuuCore, OnePath
  <2>2. \A n \in 1..RUU_num' : ~Pends(st'[RuuLive'[n]]) /\ ~st'[RuuLive'[n]].spec
    BY <1>3, <1>5, <2>1
  <2>3. \A n \in 1..LSQ_num' : ~st'[LsqLive'[n]].spec
    BY <1>2, <2>1 DEF Kept
  <2> QED BY <1>4, <1>7, <2>2, <2>3 DEF OnePath, Pends
<1> QED BY <1>6, <1>7

LEMMA HeadVectors ==
    ASSUME RuuCore, NEW gone, HeadLeaves(EaComp(st[HeadRs]), gone)
    PROVE  VectorsSound' /\ ChainsSound' /\ KindsSound'
<1>1. Live' = Live \ gone /\ gone \subseteq Live
  BY HeadLines
<1>2. \A id \in Stations : Kept(st'[id], st[id])
  BY HeadKept
<1>3. \A id \in gone : st[id].completed
  BY DEF HeadLeaves
<1>4. Live \subseteq Stations
  BY LiveLists DEF RuuCore
<1>5. ASSUME NEW e, NEW r, Names(e, r)
      PROVE  Names(e, r)' /\ (e.rs # Null => st'[e.rs].spec = st[e.rs].spec)
  BY <1>1, <1>2, <1>3, <1>4, <1>5 DEF Names, Kept
<1>6. create_vector' = create_vector /\ spec_create_vector' = spec_create_vector /\ use_spec_cv' = use_spec_cv
  BY DEF HeadLeaves, cvVars
<1>7. ASSUME NEW r \in Regs \cup {DTMP}, NEW e, e = create_vector[r]
      PROVE  Names(e, r)' /\ (e.rs # Null => ~st'[e.rs].spec)
  <2>1. Names(e, r) /\ (e.rs # Null => ~st[e.rs].spec)
    BY <1>7 DEF RuuCore, VectorsSound
  <2> QED BY <1>5, <2>1
<1>8. ASSUME NEW r \in use_spec_cv, NEW e, e = spec_create_vector[r]
      PROVE  Names(e, r)' /\ (e.rs # Null => st'[e.rs].spec)
  <2>1. Names(e, r) /\ (e.rs # Null => st[e.rs].spec)
    BY <1>8 DEF RuuCore, VectorsSound
  <2> QED BY <1>5, <2>1
<1>9. VectorsSound'
  BY <1>6, <1>7, <1>8 DEF VectorsSound, Names
<1>10. ChainsSound'
  BY <1>1, <1>2, <1>3, <1>4 DEF RuuCore, ChainsSound, Kept
<1>11. KindsSound'
  BY <1>2 DEF RuuCore, KindsSound, Kept, EaComp, InLSQ
<1> QED BY <1>9, <1>10, <1>11

LEMMA HeadLinks ==
    ASSUME RuuCore, NEW gone, HeadLeaves(EaComp(st[HeadRs]), gone)
    PROVE  LinksGood' /\ LinksConserved'
<1>1. Live' = Live \ gone /\ gone \subseteq Live /\ Rings'
  BY HeadLines
<1>2. /\ st' \in [Stations -> StationType]
      /\ \A id \in Stations : /\ Kept(st'[id], st[id])
                              /\ st'[id].tag = IF id \in gone THEN st[id].tag + 1 ELSE st[id].tag
  BY HeadKept
<1>3. UNCHANGED <<ready_queue, event_queue, rslinks, last_op, scan>>
  BY DEF HeadLeaves
<1>4. \A id \in Stations : \A k \in Outs : st'[id].odeps[k] = st[id].odeps[k]
  BY <1>2 DEF Kept
<1>5. KeepsLinks
  BY <1>1, <1>2 DEF KeepsLinks, Kept
<1>6. ASSUME NEW l \in AllLinks' PROVE OldLink(l)
  <2>1. l \in AllLinks
    BY <1>3, <1>4, <1>6, AllLinksAre, AllLinksAreNext
  <2> QED BY <2>1 DEF OldLink, SameLink
<1>7. Live' \subseteq Stations /\ \A id \in Stations : st'[id].tag \in Nat
  BY <1>1, <1>2, LiveListsNext DEF StationType
<1>8. LinksGood'
  BY <1>5, <1>6, <1>7, LinksStep DEF RuuCore, OldLink
<1>9. LinksConserved'
  <2>1. \A id \in Stations : \A k \in Outs : {id} \X {k} \X DOMAIN st'[id].odeps[k] = {id} \X {k} \X DOMAIN st[id].odeps[k]
    BY <1>4
  <2>2. LinkPlaces(st', Stations) = LinkPlaces(st, Stations)
    BY <2>1 DEF LinkPlaces
  <2>3. LinksOf(Stations)' = LinksOf(Stations)
    BY <2>2 DEF LinksOf
  <2> QED BY <1>3, <2>3 DEF RuuCore, LinksConserved
<1> QED BY <1>8, <1>9

LEMMA CommitHeadStep ==
    ASSUME RuuCore, CommitHead, UNCHANGED options, NoPanic'
    PROVE  RuuCore'
<1>1. PICK gone : HeadLeaves(EaComp(st[HeadRs]), gone)
  BY CommitLeaves
<1>2. Rings' /\ Paired' /\ OnePath' /\ VectorsSound' /\ ChainsSound' /\ KindsSound' /\ LinksGood' /\ LinksConserved'
  BY <1>1, HeadLines, HeadPaired, HeadPath, HeadVectors, HeadLinks
<1>3. EventsInOrder' /\ Scanned'
  BY <1>1 DEF HeadLeaves, RuuCore, EventsInOrder, Scanned
<1>4. busy' \in [Units -> Nat]
  <2>1. busy \in [Units -> Nat]
    BY DEF RuuCore, Typed
  <2>2. CASE busy' = busy
    BY <2>1, <2>2
  <2>3. CASE busy' = Reserve(st[HeadLsq].class) /\ st[HeadLsq].kind = "store" /\ EaComp(st[HeadRs])
    <3>1. HeadLsq \in Stations
      BY <1>1, <2>3, HeadLines, LiveIs
    <3>2. FuClass[st[HeadLsq].class].issuelat \in Nat
      BY <2>3, <3>1, UnitsAssumption DEF RuuCore, KindsSound
    <3> QED BY <2>1, <2>3, <3>2 DEF Reserve
  <2> QED BY <2>2, <2>3 DEF CommitHead
<1>5. count' \in Nat /\ st' \in [Stations -> StationType]
  <2>1. count \in Nat /\ count' = count + 1
    BY DEF RuuCore, Typed, CommitHead
  <2> QED BY <1>1, <2>1, HeadKept
<1>6. Typed'
  BY <1>1, <1>4, <1>5 DEF HeadLeaves, RuuCore, Typed, options, cvVars
<1> QED BY <1>2, <1>3, <1>6 DEF RuuCore

-----------------------------------------------------------------------------
(* ruu_writeback completes an instruction, wakes those that wait for it    *)
(* and, if it was mispredicted, squashes all behind it.                    *)

Finished == Head(event_queue).rs
Squashed == IF st[Finished].recover THEN SquashedRuu(Finished) \cup SquashedLsq(Finished) ELSE {}
AfterSquash == Squash(st, Squashed)
Produced == {k \in Outs : st[Finished].onames[k] # NA}
Chain == (IF 0 \in Produced THEN AfterSquash[Finished].odeps[0] ELSE << >>)
         \o (IF 1 \in Produced THEN AfterSquash[Finished].odeps[1] ELSE << >>)
Wakes(t, k) == \E i \in DOMAIN Chain :
                   Chain[i].rs = t /\ Chain[i].x = k /\ ValidIn(AfterSquash, Chain[i])
AfterWake ==
    [t \in Stations |->
        [AfterSquash[t] EXCEPT !.ready = [k \in Ops |-> @[k] \/ Wakes(t, k)],
                               !.completed = @ \/ t = Finished,
                               !.odeps = [k \in Outs |-> IF t = Finished /\ k \in Produced
                                                         THEN << >> ELSE @[k]]]]
LastLinks ==
    {i \in DOMAIN Chain :
        /\ ValidIn(AfterSquash, Chain[i])
        /\ OperandsReady(AfterWake[Chain[i].rs])
        /\ AfterWake[Chain[i].rs].kind # "load"
        /\ \A j \in i + 1..Len(Chain) : ~(Chain[j].rs = Chain[i].rs /\ ValidIn(AfterSquash, Chain[j]))}
Woken == [n \in DOMAIN InOrder(LastLinks) |-> Chain[InOrder(LastLinks)[n]].rs]

LEMMA WritebackIs ==
    ASSUME Writeback
    PROVE  /\ stage = "writeback" /\ event_queue # << >> /\ Valid(Head(event_queue))
           /\ st' = MarkQueued(AfterWake, Woken)
           /\ ready_queue' = EnqueueAll(AfterWake, ready_queue, Woken)
           /\ event_queue' = Tail(event_queue)
           /\ rslinks' = rslinks + 1 + LinksOf(Squashed) + Len(Chain) - Len(Woken)
           /\ RUU_num' = RUU_num - Cardinality(Squashed \cap RuuIds)
           /\ LSQ_num' = LSQ_num - Cardinality(Squashed \cap LsqIds)
           /\ RUU_tail' = (RUU_tail + RUU_size - Cardinality(Squashed \cap RuuIds)) % RUU_size
           /\ LSQ_tail' = (LSQ_tail + LSQ_size - Cardinality(Squashed \cap LsqIds)) % LSQ_size
           /\ spec_create_vector' = (IF st[Finished].spec THEN Completes(spec_create_vector, Finished) ELSE spec_create_vector)
           /\ create_vector' = (IF st[Finished].spec THEN create_vector ELSE Completes(create_vector, Finished))
           /\ use_spec_cv' = (IF st[Finished].recover THEN {} ELSE use_spec_cv)
           /\ spec_mode' = (spec_mode /\ ~st[Finished].recover)
           /\ UNCHANGED <<RUU_head, LSQ_head, busy, last_op, inst_seq, stage, count, scan>>
BY DEF Writeback, Due, Finished, Squashed, AfterSquash, Produced, Chain, Wakes, AfterWake, LastLinks, Woken

LEMMA WritebackChecked ==
    ASSUME Writeback, NoPanic'
    PROVE  /\ ~st[Finished].completed
           /\ st[Finished].recover => ~InLSQ(st[Finished]) /\ spec_mode
<1> DEFINE rs == st[Finished]
<1>1. ~(~OperandsReady(rs) \/ rs.queued \/ ~rs.issued \/ rs.completed)
  BY DEF Writeback, Finished, NoPanic
<1>2. ~(rs.recover /\ InLSQ(rs)) /\ ~(rs.recover /\ ~spec_mode)
  BY DEF Writeback, Finished, NoPanic
<1> QED BY <1>1, <1>2

\* What a squash leaves: the first o entries of the RUU with their accesses.
CutAt(o) ==
    /\ o \in 0..RUU_num /\ Agens(o) \in 0..LSQ_num
    /\ \A id : id \in Squashed <=> \/ \E k \in o + 1..RUU_num : id = RuuLive[k]
                                   \/ \E k \in Agens(o) + 1..LSQ_num : id = LsqLive[k]
    /\ Cardinality(Squashed \cap RuuIds) = RUU_num - o
    /\ Cardinality(Squashed \cap LsqIds) = LSQ_num - Agens(o)
    /\ IF st[Finished].recover
       THEN /\ spec_mode /\ Finished = RuuLive[o] /\ o # 0
            /\ \A n \in 1..RUU_num : /\ Pends(st[RuuLive[n]]) <=> n = o
                                     /\ st[RuuLive[n]].spec <=> n > o
            /\ \A n \in 1..LSQ_num : st[LsqLive[n]].spec <=> n > Agens(o)
       ELSE o = RUU_num /\ Agens(o) = LSQ_num

LEMMA FinishedIs ==
    ASSUME RuuCore, event_queue # << >>, Valid(Head(event_queue))
    PROVE  Finished \in Live /\ Finished \in Stations
<1>1. event_queue \in Seq(LinkType)
  BY CoreLists
<1>2. Head(event_queue) \in AllLinks
  BY <1>1, TailSet, ListsInAll
<1> QED BY <1>2 DEF RuuCore, LinksGood, GoodLink, Finished

\* S are the members of list Q behind place m.
Behind(S, Q, m, n) == \A id : id \in S <=> \E k \in m + 1..n : id = Q[k]

LEMMA MembersAt ==
    ASSUME NEW Q, NEW n, NEW A, Lists(Q, n, A), NEW m \in 0..n, NEW S, Behind(S, Q, m, n)
    PROVE  /\ S \subseteq A /\ IsFiniteSet(S) /\ Cardinality(S) = n - m
<1>1. n \in Nat /\ m \in Int /\ m + 1 \in Int /\ n \in Int
  BY DEF Lists
<1> DEFINE P == m + 1..n
           T == {Q[k] : k \in P}
<1>2. P \subseteq 1..n
  BY <1>1
<1>3. Cardinality(P) = n - m
  <2>1. Cardinality(P) = IF m + 1 > n THEN 0 ELSE n - (m + 1) + 1
    BY <1>1, FS_Interval
  <2> QED BY <1>1, <2>1
<1> HIDE DEF P
<1>4. S = T
  BY DEF P, Behind
<1>7. IsFiniteSet(T) /\ Cardinality(T) = Cardinality(P)
  BY <1>2, CountListed
<1>8. \A x \in T : x \in A
  BY <1>2 DEF Lists
<1> HIDE DEF T
<1>5. IsFiniteSet(S) /\ Cardinality(S) = Cardinality(P)
  BY <1>4, <1>7
<1>6. S \subseteq A
  BY <1>4, <1>8
<1> QED BY <1>3, <1>5, <1>6

LEMMA SquashIs ==
    ASSUME RuuCore, Finished \in Live, ~st[Finished].completed,
           st[Finished].recover => ~InLSQ(st[Finished]) /\ spec_mode
    PROVE  \E o : CutAt(o)
<1>1. /\ Lists(RuuLive, RUU_num, RuuIds) /\ Lists(LsqLive, LSQ_num, LsqIds)
      /\ RUU_num \in Nat /\ LSQ_num \in Nat
  BY LiveLists DEF RuuCore, Lists
<1>2. Agens(RUU_num) = LSQ_num
  BY DEF RuuCore, Paired
<1>3. CASE ~st[Finished].recover
  <2>1. Squashed = {}
    BY <1>3 DEF Squashed
  <2>2. Squashed \cap RuuIds = {} /\ Squashed \cap LsqIds = {}
    BY <2>1
  <2>3. Cardinality(Squashed \cap RuuIds) = 0 /\ Cardinality(Squashed \cap LsqIds) = 0
    BY <2>2, FS_EmptySet
  <2>4. RUU_num \in 0..RUU_num /\ RUU_num + 1..RUU_num = {} /\ LSQ_num + 1..LSQ_num = {} /\ LSQ_num \in 0..LSQ_num
    BY <1>1
  <2>5. CutAt(RUU_num)
    BY <1>1, <1>2, <1>3, <2>1, <2>3, <2>4 DEF CutAt
  <2> QED BY <2>5
<1>4. CASE st[Finished].recover
  <2>1. PICK o \in 1..RUU_num : Finished = RuuLive[o]
    <3>1. \A k \in 1..LSQ_num : InLSQ(st[LsqLive[k]])
      BY DEF RuuCore, Paired
    <3> QED BY <1>4, <3>1, LiveLists DEF RuuCore
  <2>2. /\ \A n \in 1..RUU_num : /\ Pends(st[RuuLive[n]]) <=> n = o
                                 /\ st[RuuLive[n]].spec <=> n > o
        /\ \A n \in 1..LSQ_num : st[LsqLive[n]].spec <=> n > Agens(o)
    <3>1. PICK p \in 1..RUU_num :
            /\ \A n \in 1..RUU_num : /\ Pends(st[RuuLive[n]]) <=> n = p
                                     /\ st[RuuLive[n]].spec <=> n > p
            /\ \A n \in 1..LSQ_num : st[LsqLive[n]].spec <=> n > Agens(p)
      BY <1>4 DEF RuuCore, OnePath
    <3>2. Pends(st[RuuLive[o]])
      BY <1>4, <2>1 DEF Pends
    <3>3. o = p
      BY <3>1, <3>2
    <3> QED BY <3>1, <3>3
  <2>3. PICK b \in 0..RUU_size - 1 : Finished = <<"RUU", b>>
    <3>1. Finished \in RuuIds
      BY <1>1, <2>1 DEF Lists
    <3> QED BY <3>1 DEF RuuIds
  <2>4. Finished[2] = b
    BY <2>3
  <2>5. Ring(RUU_head, RUU_tail, RUU_num, RUU_size) /\ Ring(LSQ_head, LSQ_tail, LSQ_num, LSQ_size)
    BY DEF RuuCore, Rings
  <2>6. /\ (RUU_tail + RUU_size - 1 - b) % RUU_size = RUU_num - o
        /\ {<<"RUU", (b + k) % RUU_size>> : k \in 1..RUU_num - o} = {RuuLive[k] : k \in o + 1..RUU_num}
    <3> DEFINE Q == RingLine("RUU", RUU_head, RUU_num, RUU_size)
    <3>1. Q = RuuLive
      BY LiveIs
    <3>2. Q[o] = <<"RUU", b>>
      BY <2>1, <2>3, <3>1
    <3>3. /\ (RUU_tail + RUU_size - 1 - b) % RUU_size = RUU_num - o
          /\ {<<"RUU", (b + k) % RUU_size>> : k \in 1..RUU_num - o} = {Q[k] : k \in o + 1..RUU_num}
      BY <2>5, <3>2, LineBehind
    <3> HIDE DEF Q
    <3> QED BY <3>1, <3>3
  <2>7. SquashedRuu(Finished) = {RuuLive[k] : k \in o + 1..RUU_num}
    <3>1. Younger(Finished) = RUU_num - o
      BY <2>4, <2>6 DEF Younger
    <3> QED BY <2>4, <2>6, <3>1 DEF SquashedRuu, RuuAt
  <2>8. Agens(o) \in 0..LSQ_num
    <3>1. o \in 0..RUU_num /\ RUU_num \in 0..RUU_num
      BY <1>1
    <3>2. Agens(o) = NumUpto(AgenPlaces, o) /\ Agens(RUU_num) = NumUpto(AgenPlaces, RUU_num)
      BY <1>1, <3>1, AgensIs
    <3>3. NumUpto(AgenPlaces, o) \in 0..o /\ NumUpto(AgenPlaces, o) <= NumUpto(AgenPlaces, RUU_num)
      <4>1. o \in Nat
        BY <1>1
      <4> QED BY <1>1, <3>1, <4>1, CountBehind, UptoFinite
    <3> QED BY <1>1, <1>2, <3>2, <3>3
  <2>9. Cardinality({id \in SquashedRuu(Finished) : EaComp(st[id])}) = LSQ_num - Agens(o)
    <3> DEFINE P == {k \in o + 1..RUU_num : k \in AgenPlaces}
    <3>1. P \subseteq 1..RUU_num
      BY <1>1
    <3>2. {id \in SquashedRuu(Finished) : EaComp(st[id])} = {RuuLive[k] : k \in P}
      <4>1. \A k \in o + 1..RUU_num : k \in AgenPlaces <=> EaComp(st[RuuLive[k]])
        BY <1>1 DEF AgenPlaces
      <4> QED BY <2>7, <4>1
    <3>3. o \in 0..RUU_num /\ RUU_num \in 0..RUU_num
      BY <1>1
    <3>4. Agens(o) = NumUpto(AgenPlaces, o) /\ Agens(RUU_num) = NumUpto(AgenPlaces, RUU_num)
      BY <1>1, <3>3, AgensIs
    <3>5. Cardinality(P) = LSQ_num - Agens(o)
      BY <1>1, <1>2, <3>3, <3>4, CountBehind
    <3> HIDE DEF P
    <3> DEFINE T == {RuuLive[k] : k \in P}
    <3>6. Cardinality(T) = Cardinality(P)
      BY <1>1, <3>1, CountListed
    <3> HIDE DEF T
    <3>7. {id \in SquashedRuu(Finished) : EaComp(st[id])} = T
      BY <3>2 DEF T
    <3> QED BY <3>5, <3>6, <3>7
  <2>10. SquashedLsq(Finished) = {LsqLive[k] : k \in Agens(o) + 1..LSQ_num}
    <3> DEFINE c == LSQ_num - Agens(o)
    <3>1. c \in 0..LSQ_num /\ LSQ_num - c + 1 = Agens(o) + 1
      BY <1>1, <2>8
    <3>2. SquashedLsq(Finished) = {LsqAt(LSQ_tail + LSQ_size - k) : k \in 1..c}
      BY <2>9 DEF SquashedLsq
    <3> HIDE DEF c
    <3>3. {<<"LSQ", (LSQ_tail + LSQ_size - k) % LSQ_size>> : k \in 1..c}
             = {RingLine("LSQ", LSQ_head, LSQ_num, LSQ_size)[k] : k \in LSQ_num - c + 1..LSQ_num}
      BY <2>5, <3>1, LineCut
    <3> QED BY <3>1, <3>2, <3>3, LiveIs DEF LsqAt
  <2>11. Squashed = SquashedRuu(Finished) \cup SquashedLsq(Finished)
    BY <1>4 DEF Squashed
  <2> DEFINE R == SquashedRuu(Finished)
             L == SquashedLsq(Finished)
  <2>12. Behind(R, RuuLive, o, RUU_num) /\ Behind(L, LsqLive, Agens(o), LSQ_num)
    BY <2>7, <2>10 DEF Behind
  <2> HIDE DEF R, L
  <2>13. R \subseteq RuuIds /\ Cardinality(R) = RUU_num - o
    <3>1. o \in 0..RUU_num
      OBVIOUS
    <3> QED BY <1>1, <2>12, <3>1, MembersAt
  <2>14. L \subseteq LsqIds /\ Cardinality(L) = LSQ_num - Agens(o)
    BY <1>1, <2>8, <2>12, MembersAt
  <2>15. Squashed = R \cup L /\ Squashed \cap RuuIds = R /\ Squashed \cap LsqIds = L
    BY <2>11, <2>13, <2>14, LiveIs DEF R, L
  <2>16. o \in 0..RUU_num /\ o # 0
    OBVIOUS
  <2>17. CutAt(o)
    BY <1>4, <2>1, <2>2, <2>8, <2>12, <2>13, <2>14, <2>15, <2>16 DEF CutAt, Behind
  <2> QED BY <2>17
<1> QED BY <1>3, <1>4

\* What a squash leaves is what is live and not squashed.
LEMMA CutLive ==
    ASSUME RuuCore, NEW o, CutAt(o), Finished \in Live
    PROVE  /\ Squashed \subseteq Live /\ Finished \notin Squashed
           /\ \A k \in 1..o : k \in 1..RUU_num /\ RuuLive[k] \notin Squashed
           /\ \A k \in 1..Agens(o) : k \in 1..LSQ_num /\ LsqLive[k] \notin Squashed
           /\ \A id \in Live : id \notin Squashed =>
                  (\E k \in 1..o : id = RuuLive[k]) \/ (\E k \in 1..Agens(o) : id = LsqLive[k])
<1>1. /\ Lists(RuuLive, RUU_num, RuuIds) /\ Lists(LsqLive, LSQ_num, LsqIds)
      /\ RUU_num \in Nat /\ LSQ_num \in Nat
  BY LiveLists DEF RuuCore, Lists
<1>2. o \in 0..RUU_num /\ Agens(o) \in 0..LSQ_num
  BY DEF CutAt
<1>3. \A id : id \in Squashed <=> \/ \E k \in o + 1..RUU_num : id = RuuLive[k]
                                  \/ \E k \in Agens(o) + 1..LSQ_num : id = LsqLive[k]
  BY DEF CutAt
<1> DEFINE a == Agens(o)
<1> HIDE DEF a
<1>4. /\ \A k \in o + 1..RUU_num : k \in 1..RUU_num
      /\ \A k \in a + 1..LSQ_num : k \in 1..LSQ_num
      /\ \A k \in 1..o : k \in 1..RUU_num /\ k \notin o + 1..RUU_num
      /\ \A k \in 1..a : k \in 1..LSQ_num /\ k \notin a + 1..LSQ_num
      /\ \A k \in 1..RUU_num : k \in 1..o \/ k \in o + 1..RUU_num
      /\ \A k \in 1..LSQ_num : k \in 1..a \/ k \in a + 1..LSQ_num
  BY <1>1, <1>2 DEF a
<1>5. Squashed \subseteq Live
  BY <1>3, <1>4, LiveLists DEF RuuCore, a
<1>6. \A k \in 1..o : RuuLive[k] \notin Squashed
  <2> TAKE k \in 1..o
  <2>1. \A j \in o + 1..RUU_num : RuuLive[k] # RuuLive[j]
    BY <1>1, <1>4 DEF Lists
  <2>2. \A j \in a + 1..LSQ_num : RuuLive[k] # LsqLive[j]
    BY <1>1, <1>4, LiveIs DEF Lists
  <2> QED BY <1>3, <2>1, <2>2 DEF a
<1>7. \A k \in 1..a : LsqLive[k] \notin Squashed
  <2> TAKE k \in 1..a
  <2>1. \A j \in a + 1..LSQ_num : LsqLive[k] # LsqLive[j]
    BY <1>1, <1>4 DEF Lists
  <2>2. \A j \in o + 1..RUU_num : LsqLive[k] # RuuLive[j]
    BY <1>1, <1>4, LiveIs DEF Lists
  <2> QED BY <1>3, <2>1, <2>2 DEF a
<1>8. \A id \in Live : id \notin Squashed => (\E k \in 1..o : id = RuuLive[k]) \/ (\E k \in 1..a : id = LsqLive[k])
  BY <1>3, <1>4, LiveLists DEF RuuCore, a
<1>9. Finished \notin Squashed
  <2>1. CASE st[Finished].recover
    <3>1. Finished = RuuLive[o] /\ o \in 1..o
      BY <1>1, <1>2, <2>1 DEF CutAt
    <3> QED BY <1>6, <3>1
  <2>2. CASE ~st[Finished].recover
    BY <2>2 DEF Squashed
  <2> QED BY <2>1, <2>2
<1> QED BY <1>4, <1>5, <1>6, <1>7, <1>8, <1>9 DEF a

\* What becomes of station t: a is what it holds then.
Becomes(t, a) ==
    /\ a \in StationType
    /\ a.seq = st[t].seq /\ a.kind = st[t].kind /\ a.class = st[t].class /\ a.recover = st[t].recover
    /\ a.spec = st[t].spec /\ a.onames = st[t].onames
    /\ a.tag = (IF t \in Squashed THEN st[t].tag + 1 ELSE st[t].tag)
    /\ a.completed <=> st[t].completed \/ t = Finished
    /\ \A k \in Outs : a.odeps[k] = (IF t \in Squashed \/ t = Finished THEN << >> ELSE st[t].odeps[k])

LEMMA SquashedStations ==
    ASSUME RuuCore, NEW t \in Stations
    PROVE  /\ AfterSquash[t] \in StationType
           /\ AfterSquash[t] = [st[t] EXCEPT !.tag = AfterSquash[t].tag, !.odeps = AfterSquash[t].odeps]
           /\ AfterSquash[t].tag = (IF t \in Squashed THEN st[t].tag + 1 ELSE st[t].tag)
           /\ \A k \in Outs : AfterSquash[t].odeps[k] = (IF t \in Squashed THEN << >> ELSE st[t].odeps[k])
           /\ t \notin Squashed => AfterSquash[t] = st[t]
<1>1. st[t] \in StationType
  BY DEF RuuCore, Typed
<1>2. st[t].tag \in Nat /\ st[t].tag + 1 \in Nat /\ st[t].odeps \in [Outs -> Seq(LinkType)]
  BY <1>1 DEF StationType
<1>3. CASE t \in Squashed
  <2> DEFINE none == [k \in Outs |-> << >>]
  <2>1. AfterSquash[t] = [st[t] EXCEPT !.tag = st[t].tag + 1, !.odeps = none]
    BY <1>3 DEF AfterSquash, Squash
  <2>2. none \in [Outs -> Seq(LinkType)] /\ \A k \in Outs : none[k] = << >>
    OBVIOUS
  <2> HIDE DEF none
  <2> QED BY <1>1, <1>2, <1>3, <2>1, <2>2 DEF StationType
<1>4. CASE t \notin Squashed
  <2>1. AfterSquash[t] = st[t]
    BY <1>4 DEF AfterSquash, Squash
  <2> QED BY <1>1, <1>4, <2>1 DEF StationType
<1> QED BY <1>3, <1>4

LEMMA WokenStations ==
    ASSUME RuuCore, NEW t \in Stations, Finished \notin Squashed
    PROVE  /\ Becomes(t, AfterWake[t]) /\ Becomes(t, MarkQueued(AfterWake, Woken)[t])
           /\ MarkQueued(AfterWake, Woken) = [u \in Stations |-> MarkQueued(AfterWake, Woken)[u]]
<1> DEFINE b == AfterSquash[t]
           ready == [k \in Ops |-> b.ready[k] \/ Wakes(t, k)]
           odeps == [k \in Outs |-> IF t = Finished /\ k \in Produced THEN << >> ELSE b.odeps[k]]
           completed == b.completed \/ t = Finished
<1>1. AfterWake[t] = [b EXCEPT !.ready = ready, !.completed = completed, !.odeps = odeps]
  BY DEF AfterWake
<1>2. /\ b \in StationType
      /\ b = [st[t] EXCEPT !.tag = b.tag, !.odeps = b.odeps]
      /\ b.tag = (IF t \in Squashed THEN st[t].tag + 1 ELSE st[t].tag)
      /\ \A k \in Outs : b.odeps[k] = (IF t \in Squashed THEN << >> ELSE st[t].odeps[k])
  BY SquashedStations
<1>3. ready \in [Ops -> BOOLEAN]
  BY Zenon
<1>4. completed \in BOOLEAN
  BY Zenon
<1>5. st[t] \in StationType
  BY DEF RuuCore, Typed
<1> HIDE DEF b
<1>6. /\ b.seq = st[t].seq /\ b.kind = st[t].kind /\ b.class = st[t].class /\ b.recover = st[t].recover
      /\ b.spec = st[t].spec /\ b.onames = st[t].onames /\ b.completed = st[t].completed
  BY <1>2, <1>5 DEF StationType
<1>7. \A k \in Outs : odeps[k] = (IF t \in Squashed \/ t = Finished THEN << >> ELSE st[t].odeps[k])
  <2> TAKE k \in Outs
  <2>1. CASE t = Finished /\ k \notin Produced
    <3>1. st[t].onames[k] = NA
      BY <2>1 DEF Produced
    <3>2. st[t].odeps[k] = << >>
      BY <3>1 DEF RuuCore, ChainsSound
    <3> QED BY <1>2, <2>1, <3>2
  <2>2. CASE ~(t = Finished /\ k \notin Produced)
    BY <1>2, <2>2
  <2> QED BY <2>1, <2>2
<1>8. odeps \in [Outs -> Seq(LinkType)]
  <2>1. \A k \in Outs : b.odeps[k] \in Seq(LinkType) /\ << >> \in Seq(LinkType)
    BY <1>2 DEF StationType
  <2> QED BY <2>1
<1> HIDE DEF ready, odeps
<1>9. /\ AfterWake[t] \in StationType
      /\ AfterWake[t].odeps = odeps /\ AfterWake[t].tag = b.tag /\ AfterWake[t].completed = completed
      /\ AfterWake[t].seq = b.seq /\ AfterWake[t].kind = b.kind /\ AfterWake[t].class = b.class
      /\ AfterWake[t].recover = b.recover /\ AfterWake[t].spec = b.spec /\ AfterWake[t].onames = b.onames
  <2> HIDE DEF completed
  <2> QED BY <1>1, <1>2, <1>3, <1>4, <1>8, ZenonT(60) DEF StationType
<1>10. Becomes(t, AfterWake[t])
  BY <1>2, <1>6, <1>7, <1>9 DEF Becomes
<1> DEFINE m == MarkQueued(AfterWake, Woken)[t]
<1>11. m = [AfterWake[t] EXCEPT !.queued = TRUE] \/ m = AfterWake[t]
  BY DEF MarkQueued
<1> HIDE DEF m
<1>12. /\ m \in StationType
       /\ m.odeps = AfterWake[t].odeps /\ m.tag = AfterWake[t].tag /\ m.completed = AfterWake[t].completed
       /\ m.seq = AfterWake[t].seq /\ m.kind = AfterWake[t].kind /\ m.class = AfterWake[t].class
       /\ m.recover = AfterWake[t].recover /\ m.spec = AfterWake[t].spec /\ m.onames = AfterWake[t].onames
  <2>1. PICK x \in StationType : x = AfterWake[t]
    BY <1>9
  <2>2. m = [x EXCEPT !.queued = TRUE] \/ m = x
    BY <1>11, <2>1
  <2>3. /\ m \in StationType
        /\ m.odeps = x.odeps /\ m.tag = x.tag /\ m.completed = x.completed /\ m.seq = x.seq /\ m.kind = x.kind
        /\ m.class = x.class /\ m.recover = x.recover /\ m.spec = x.spec /\ m.onames = x.onames
    BY <2>2 DEF StationType
  <2> QED BY <2>1, <2>3
<1>13. Becomes(t, m)
  BY <1>10, <1>12 DEF Becomes
<1>14. MarkQueued(AfterWake, Woken) = [u \in Stations |-> MarkQueued(AfterWake, Woken)[u]]
  BY DEF MarkQueued
<1> QED BY <1>10, <1>13, <1>14 DEF m

LEMMA ChainIs ==
    ASSUME RuuCore, Finished \in Stations, Finished \notin Squashed
    PROVE  /\ Chain \in Seq(LinkType) /\ DOMAIN Chain = 1..Len(Chain) /\ Len(Chain) \in Nat
           /\ Len(st[Finished].odeps[0]) \in Nat /\ Len(st[Finished].odeps[1]) \in Nat
           /\ Len(Chain) = Len(st[Finished].odeps[0]) + Len(st[Finished].odeps[1])
           /\ \A i \in 1..Len(Chain) : Chain[i] \in AllLinks
<1> DEFINE a == st[Finished].odeps[0]
           b == st[Finished].odeps[1]
<1>1. AfterSquash[Finished] = st[Finished]
  BY SquashedStations
<1>2. \A k \in Outs : k \notin Produced => st[Finished].odeps[k] = << >>
  BY DEF Produced, RuuCore, ChainsSound
<1>3. 0 \in Outs /\ 1 \in Outs
  BY DEF Outs
<1>4. Chain = a \o b
  BY <1>1, <1>2, <1>3 DEF Chain
<1>5. a \in Seq(LinkType) /\ b \in Seq(LinkType)
  BY <1>3 DEF RuuCore, Typed, StationType
<1>6. /\ \A l \in ToSet(a) : l \in AllLinks
      /\ \A l \in ToSet(b) : l \in AllLinks
  BY <1>3, AllLinksAre
<1> HIDE DEF a, b
<1>7. /\ Chain \in Seq(LinkType) /\ Len(Chain) = Len(a) + Len(b)
      /\ \A i \in 1..Len(a) + Len(b) : Chain[i] = IF i <= Len(a) THEN a[i] ELSE b[i - Len(a)]
  BY <1>4, <1>5, ConcatProperties
<1>8. Len(a) \in Nat /\ Len(b) \in Nat
  BY <1>5, LenProperties
<1>9. ASSUME NEW i \in 1..Len(Chain) PROVE Chain[i] \in AllLinks
  <2>1. CASE i <= Len(a)
    <3>1. i \in 1..Len(a) /\ Chain[i] = a[i]
      BY <1>7, <1>8, <2>1
    <3> QED BY <1>5, <1>6, <3>1, SeqMembers
  <2>2. CASE ~(i <= Len(a))
    <3>1. i - Len(a) \in 1..Len(b) /\ Chain[i] = b[i - Len(a)]
      BY <1>7, <1>8, <2>2
    <3> QED BY <1>5, <1>6, <3>1, SeqMembers
  <2> QED BY <2>1, <2>2
<1>10. DOMAIN Chain = 1..Len(Chain) /\ Len(Chain) \in Nat
  BY <1>7, LenProperties
<1> QED BY <1>7, <1>8, <1>9, <1>10 DEF a, b

\* A link the squash leaves valid is to a live instruction that stays.
LEMMA ChainLive ==
    ASSUME RuuCore, NEW l \in AllLinks, ValidIn(AfterSquash, l)
    PROVE  l.rs \in Live /\ l.rs \notin Squashed
<1>1. l.rs \in Stations /\ l.tag <= st[l.rs].tag /\ l.tag \in Nat
  BY LinksTyped DEF RuuCore, LinksGood, GoodLink, LinkType
<1>2. /\ AfterSquash[l.rs].tag = (IF l.rs \in Squashed THEN st[l.rs].tag + 1 ELSE st[l.rs].tag)
      /\ l.tag = AfterSquash[l.rs].tag
  BY <1>1, SquashedStations DEF ValidIn
<1>3. st[l.rs].tag \in Nat
  BY <1>1 DEF RuuCore, Typed, StationType
<1>4. l.rs \notin Squashed
  BY <1>1, <1>2, <1>3
<1> QED BY <1>2, <1>4 DEF RuuCore, LinksGood, GoodLink, Valid, ValidIn

LEMMA WokenIs ==
    ASSUME RuuCore, Finished \in Stations, Finished \notin Squashed
    PROVE  /\ Len(Woken) \in 0..Len(Chain)
           /\ \A n \in 1..Len(Woken) : Woken[n] \in Live /\ Woken[n] \notin Squashed
<1>1. /\ DOMAIN Chain = 1..Len(Chain) /\ Len(Chain) \in Nat
      /\ \A i \in 1..Len(Chain) : Chain[i] \in AllLinks
  BY ChainIs
<1>2. LastLinks \in SUBSET (1..Len(Chain)) /\ \A i \in LastLinks : ValidIn(AfterSquash, Chain[i])
  BY <1>1 DEF LastLinks
<1>3. IsFiniteSet(1..Len(Chain)) /\ Cardinality(1..Len(Chain)) = Len(Chain)
  <2>1. 1 \in Int /\ Len(Chain) \in Int
    BY <1>1
  <2>2. IsFiniteSet(1..Len(Chain)) /\ Cardinality(1..Len(Chain)) = IF 1 > Len(Chain) THEN 0 ELSE Len(Chain) - 1 + 1
    BY <2>1, FS_Interval
  <2> QED BY <1>1, <2>2
<1>4. IsFiniteSet(LastLinks) /\ Cardinality(LastLinks) <= Len(Chain)
  BY <1>2, <1>3, FS_Subset
<1>5. LastLinks \subseteq Nat
  <2>1. \A i \in 1..Len(Chain) : i \in Nat
    BY <1>1
  <2> QED BY <1>2, <2>1
<1> DEFINE order == InOrder(LastLinks)
           c == Cardinality(LastLinks)
<1>6. c \in Nat /\ DOMAIN order = 1..c /\ \A n \in 1..c : order[n] \in LastLinks
  BY <1>4, <1>5, InOrderIs
<1>7. Woken = [n \in DOMAIN order |-> Chain[order[n]].rs]
  BY DEF Woken
<1> HIDE DEF order, c
<1>8. Len(Woken) = c /\ \A n \in 1..c : Woken[n] = Chain[order[n]].rs
  BY <1>6, <1>7
<1>9. c <= Len(Chain)
  BY <1>4 DEF c
<1>10. ASSUME NEW n \in 1..c PROVE Woken[n] \in Live /\ Woken[n] \notin Squashed
  <2>1. order[n] \in LastLinks
    BY <1>6
  <2>2. Chain[order[n]] \in AllLinks /\ ValidIn(AfterSquash, Chain[order[n]])
    BY <1>1, <1>2, <2>1
  <2> QED BY <1>8, <2>2, ChainLive
<1> QED BY <1>1, <1>6, <1>8, <1>9, <1>10

\* The ready queue then.
LEMMA WokenQueue ==
    ASSUME RuuCore, Finished \in Stations, Finished \notin Squashed,
           st' = MarkQueued(AfterWake, Woken), ready_queue' = EnqueueAll(AfterWake, ready_queue, Woken)
    PROVE  /\ ready_queue' \in Seq(LinkType) /\ Len(ready_queue') = Len(ready_queue) + Len(Woken)
           /\ \A l \in ToSet(ready_queue') :
                 \/ l \in ToSet(ready_queue)
                 \/ l.rs \in Live /\ l.rs \notin Squashed /\ l.tag = st'[l.rs].tag /\ l.seq = st'[l.rs].seq
<1>1. Live \subseteq Stations /\ ready_queue \in Seq(LinkType)
  BY LiveLists, CoreLists DEF RuuCore
<1>2. Len(Woken) \in Nat /\ \A n \in 1..Len(Woken) : Woken[n] \in Live /\ Woken[n] \notin Squashed
  <2>1. Len(Chain) \in Nat
    BY ChainIs
  <2> QED BY <2>1, WokenIs
<1>3. ASSUME NEW t \in Stations
      PROVE  /\ LinkTo(AfterWake, t, 0) \in LinkType /\ LinkTo(AfterWake, t, 0).rs = t
             /\ LinkTo(AfterWake, t, 0).tag = st'[t].tag /\ LinkTo(AfterWake, t, 0).seq = st'[t].seq
  <2>1. Becomes(t, AfterWake[t]) /\ Becomes(t, st'[t])
    BY WokenStations
  <2>2. AfterWake[t].tag \in Nat /\ AfterWake[t].seq \in Nat /\ 0 \in Nat
    BY <2>1 DEF Becomes, StationType
  <2>3. AfterWake[t].tag = st'[t].tag /\ AfterWake[t].seq = st'[t].seq
    BY <2>1 DEF Becomes
  <2> QED BY <2>2, <2>3, LinkToIs
<1>4. \A n \in 1..Len(Woken) : LinkTo(AfterWake, Woken[n], 0) \in LinkType
  BY <1>1, <1>2, <1>3
<1>5. /\ ready_queue' \in Seq(LinkType) /\ Len(ready_queue') = Len(ready_queue) + Len(Woken)
      /\ ToSet(ready_queue') = ToSet(ready_queue) \cup {LinkTo(AfterWake, Woken[n], 0) : n \in 1..Len(Woken)}
  BY <1>1, <1>2, <1>4, EnqueueAllIs
<1>6. ASSUME NEW n \in 1..Len(Woken), NEW l, l = LinkTo(AfterWake, Woken[n], 0)
      PROVE  l.rs \in Live /\ l.rs \notin Squashed /\ l.tag = st'[l.rs].tag /\ l.seq = st'[l.rs].seq
  BY <1>1, <1>2, <1>3, <1>6
<1> QED BY <1>5, <1>6

\* The stations and queues after a writeback that leaves the first o entries of the RUU.
WrittenBack(o) ==
    /\ CutAt(o) /\ Finished \in Live /\ Finished \notin Squashed /\ ~st[Finished].completed
    /\ st' \in [Stations -> StationType] /\ \A t \in Stations : Becomes(t, st'[t])
    /\ RUU_num' = o /\ LSQ_num' = Agens(o) /\ Rings'
    /\ \A k \in 1..o : RuuLive'[k] = RuuLive[k]
    /\ \A k \in 1..Agens(o) : LsqLive'[k] = LsqLive[k]
    /\ Live' = Live \ Squashed

LEMMA WritebackLines ==
    ASSUME RuuCore, Writeback, NoPanic'
    PROVE  \E o : WrittenBack(o)
<1>1. /\ event_queue # << >> /\ Valid(Head(event_queue)) /\ st' = MarkQueued(AfterWake, Woken)
      /\ RUU_num' = RUU_num - Cardinality(Squashed \cap RuuIds)
      /\ LSQ_num' = LSQ_num - Cardinality(Squashed \cap LsqIds)
      /\ RUU_tail' = (RUU_tail + RUU_size - Cardinality(Squashed \cap RuuIds)) % RUU_size
      /\ LSQ_tail' = (LSQ_tail + LSQ_size - Cardinality(Squashed \cap LsqIds)) % LSQ_size
      /\ RUU_head' = RUU_head /\ LSQ_head' = LSQ_head
  BY WritebackIs
<1>2. Finished \in Live /\ Finished \in Stations
  BY <1>1, FinishedIs
<1>3. ~st[Finished].completed /\ (st[Finished].recover => ~InLSQ(st[Finished]) /\ spec_mode)
  BY WritebackChecked
<1>4. PICK o : CutAt(o)
  BY <1>2, <1>3, SquashIs
<1>5. Finished \notin Squashed
  BY <1>2, <1>4, CutLive
<1>6. st' \in [Stations -> StationType] /\ \A t \in Stations : Becomes(t, st'[t])
  <2>1. \A t \in Stations : Becomes(t, st'[t]) /\ st' = [u \in Stations |-> st'[u]]
    BY <1>1, <1>5, WokenStations
  <2>2. \A t \in Stations : st'[t] \in StationType
    BY <2>1 DEF Becomes
  <2>3. st' = [u \in Stations |-> st'[u]]
    BY <1>2, <2>1
  <2> QED BY <2>1, <2>2, <2>3
<1> DEFINE c == RUU_num - o
           d == LSQ_num - Agens(o)
<1>7. /\ o \in 0..RUU_num /\ Agens(o) \in 0..LSQ_num /\ RUU_num \in Nat /\ LSQ_num \in Nat
      /\ Cardinality(Squashed \cap RuuIds) = c /\ Cardinality(Squashed \cap LsqIds) = d
  BY <1>4 DEF CutAt, RuuCore, Rings, Ring
<1>8. c \in 0..RUU_num /\ d \in 0..LSQ_num /\ RUU_num - c = o /\ LSQ_num - d = Agens(o)
  BY <1>7
<1> HIDE DEF c, d
<1>9. /\ RUU_num' = o /\ LSQ_num' = Agens(o)
      /\ RUU_tail' = (RUU_tail + RUU_size - c) % RUU_size
      /\ LSQ_tail' = (LSQ_tail + LSQ_size - d) % LSQ_size
  BY <1>1, <1>7, <1>8
<1>10. Ring(RUU_head, RUU_tail, RUU_num, RUU_size) /\ Ring(LSQ_head, LSQ_tail, LSQ_num, LSQ_size)
  BY DEF RuuCore, Rings
<1>11. /\ RuuLive = RingLine("RUU", RUU_head, RUU_num, RUU_size) /\ LsqLive = RingLine("LSQ", LSQ_head, LSQ_num, LSQ_size)
       /\ RuuLive' = RingLine("RUU", RUU_head, RUU_num - c, RUU_size) /\ LsqLive' = RingLine("LSQ", LSQ_head, LSQ_num - d, LSQ_size)
  BY <1>1, <1>8, <1>9 DEF RuuLive, LsqLive, RingLine, RuuAt, LsqAt, Slot0
<1>12. /\ Ring(RUU_head, (RUU_tail + RUU_size - c) % RUU_size, RUU_num - c, RUU_size)
       /\ \A k \in 1..RUU_num - c : RingLine("RUU", RUU_head, RUU_num - c, RUU_size)[k] = RingLine("RUU", RUU_head, RUU_num, RUU_size)[k]
  BY <1>8, <1>10, LineCut
<1>13. /\ Ring(LSQ_head, (LSQ_tail + LSQ_size - d) % LSQ_size, LSQ_num - d, LSQ_size)
       /\ \A k \in 1..LSQ_num - d : RingLine("LSQ", LSQ_head, LSQ_num - d, LSQ_size)[k] = RingLine("LSQ", LSQ_head, LSQ_num, LSQ_size)[k]
  BY <1>8, <1>10, LineCut
<1>14. Rings'
  <2>1. Ring(RUU_head', RUU_tail', RUU_num', RUU_size)
    BY <1>1, <1>8, <1>9, <1>12
  <2>2. Ring(LSQ_head', LSQ_tail', LSQ_num', LSQ_size)
    BY <1>1, <1>8, <1>9, <1>13
  <2> QED BY <2>1, <2>2 DEF Rings
<1>15. /\ \A k \in 1..o : RuuLive'[k] = RuuLive[k]
       /\ \A k \in 1..Agens(o) : LsqLive'[k] = LsqLive[k]
  <2> DEFINE Q1 == RingLine("RUU", RUU_head, RUU_num, RUU_size)
             Q2 == RingLine("RUU", RUU_head, RUU_num - c, RUU_size)
             R1 == RingLine("LSQ", LSQ_head, LSQ_num, LSQ_size)
             R2 == RingLine("LSQ", LSQ_head, LSQ_num - d, LSQ_size)
  <2>1. RuuLive = Q1 /\ RuuLive' = Q2 /\ LsqLive = R1 /\ LsqLive' = R2
    BY <1>11
  <2>2. /\ \A k \in 1..RUU_num - c : Q2[k] = Q1[k]
        /\ \A k \in 1..LSQ_num - d : R2[k] = R1[k]
    BY <1>12, <1>13
  <2> HIDE DEF Q1, Q2, R1, R2
  <2> QED BY <1>8, <2>1, <2>2
<1>16. Live' = Live \ Squashed
  <2>1. ASSUME NEW id \in Live' PROVE id \in Live \ Squashed
    <3>1. CASE \E k \in 1..o : id = RuuLive[k]
      BY <1>2, <1>4, <3>1, CutLive, LiveLists DEF RuuCore
    <3>2. CASE \E k \in 1..Agens(o) : id = LsqLive[k]
      BY <1>2, <1>4, <3>2, CutLive, LiveLists DEF RuuCore
    <3>3. \/ \E k \in 1..o : id = RuuLive'[k]
          \/ \E k \in 1..Agens(o) : id = LsqLive'[k]
      BY <1>9, <1>14, <2>1, LiveListsNext
    <3> QED BY <1>15, <3>1, <3>2, <3>3
  <2>2. ASSUME NEW id \in Live, id \notin Squashed PROVE id \in Live'
    <3>1. (\E k \in 1..o : id = RuuLive[k]) \/ (\E k \in 1..Agens(o) : id = LsqLive[k])
      BY <1>2, <1>4, <2>2, CutLive
    <3>2. (\E k \in 1..RUU_num' : id = RuuLive'[k]) \/ (\E k \in 1..LSQ_num' : id = LsqLive'[k])
      BY <1>9, <1>15, <3>1
    <3> QED BY <1>14, <3>2, LiveListsNext
  <2> QED BY <2>1, <2>2
<1>17. WrittenBack(o)
  BY <1>2, <1>3, <1>4, <1>5, <1>6, <1>9, <1>14, <1>15, <1>16 DEF WrittenBack
<1> QED BY <1>17

LEMMA WritebackPaired ==
    ASSUME RuuCore, NEW o, WrittenBack(o)
    PROVE  /\ Paired' /\ \A n \in 0..o : Agens(n)' = Agens(n)
           /\ \A n \in 1..o : n \in 1..RUU_num /\ RuuLive[n] \in Stations /\ RuuLive'[n] = RuuLive[n]
           /\ \A n \in 1..Agens(o) : n \in 1..LSQ_num /\ LsqLive[n] \in Stations /\ LsqLive'[n] = LsqLive[n]
<1>1. /\ o \in 0..RUU_num /\ Agens(o) \in 0..LSQ_num /\ RUU_num \in Nat /\ LSQ_num \in Nat /\ o \in Nat
  <2>1. o \in 0..RUU_num /\ Agens(o) \in 0..LSQ_num
    BY DEF WrittenBack, CutAt
  <2>2. RUU_num \in Nat /\ LSQ_num \in Nat
    BY DEF RuuCore, Rings, Ring
  <2> QED BY <2>1, <2>2
<1>2. /\ RUU_num' = o /\ LSQ_num' = Agens(o)
      /\ \A n \in 1..o : RuuLive'[n] = RuuLive[n]
      /\ \A n \in 1..Agens(o) : LsqLive'[n] = LsqLive[n]
      /\ \A t \in Stations : Becomes(t, st'[t])
  BY DEF WrittenBack
<1>3. /\ \A n \in 1..o : n \in 1..RUU_num /\ RuuLive[n] \in Stations
      /\ \A n \in 1..Agens(o) : n \in 1..LSQ_num /\ LsqLive[n] \in Stations
  BY <1>1, LiveLists, LiveIs DEF RuuCore, Lists
<1>4. ASSUME NEW n \in 0..o PROVE Agens(n)' = Agens(n)
  <2>1. \A k \in 1..n : k \in 1..o
    BY <1>1
  <2>2. {k \in 1..n : EaComp(st'[RuuLive'[k]])} = {k \in 1..n : EaComp(st[RuuLive[k]])}
    BY <1>2, <1>3, <2>1 DEF EaComp, Becomes
  <2> QED BY <2>2 DEF Agens, EaComp
<1>5. Agens(RUU_num)' = LSQ_num'
  <2>1. Agens(RUU_num)' = Cardinality({k \in 1..RUU_num' : EaComp(st'[RuuLive'[k]])})
    BY DEF Agens, EaComp
  <2>2. Agens(o)' = Cardinality({k \in 1..o : EaComp(st'[RuuLive'[k]])})
    BY DEF Agens, EaComp
  <2>3. o \in 0..o
    BY <1>1
  <2> QED BY <1>2, <1>4, <2>1, <2>2, <2>3
<1>6. \A n \in 1..o : ~InLSQ(st'[RuuLive'[n]])
  BY <1>2, <1>3 DEF RuuCore, Paired, InLSQ, Becomes
<1>7. \A n \in 1..Agens(o) : InLSQ(st'[LsqLive'[n]])
  BY <1>2, <1>3 DEF RuuCore, Paired, InLSQ, Becomes
<1>8. ASSUME NEW n \in 1..o, EaComp(st'[RuuLive'[n]])
      PROVE  /\ Agens(n)' \in 1..Agens(o)
             /\ st'[LsqLive'[Agens(n)']].seq = st'[RuuLive'[n]].seq + 1
             /\ st'[LsqLive'[Agens(n)']].spec = st'[RuuLive'[n]].spec
  <2>1. n \in 0..o /\ n \in 1..RUU_num /\ RuuLive[n] \in Stations /\ EaComp(st[RuuLive[n]])
    BY <1>1, <1>2, <1>3, <1>8 DEF EaComp, Becomes
  <2>2. /\ Agens(n) \in 1..LSQ_num
        /\ st[LsqLive[Agens(n)]].seq = st[RuuLive[n]].seq + 1
        /\ st[LsqLive[Agens(n)]].spec = st[RuuLive[n]].spec
    BY <2>1 DEF RuuCore, Paired
  <2>3. Agens(n) <= Agens(o)
    <3>1. n \in 0..RUU_num /\ o \in 0..RUU_num
      BY <1>1, <2>1
    <3>2. Agens(n) = NumUpto(AgenPlaces, n) /\ Agens(o) = NumUpto(AgenPlaces, o)
      BY <1>1, <3>1, AgensIs
    <3> QED BY <1>1, <2>1, <3>2, CountBehind
  <2>4. Agens(n) \in 1..Agens(o)
    BY <1>1, <2>2, <2>3
  <2>5. LsqLive[Agens(n)] \in Stations /\ LsqLive'[Agens(n)] = LsqLive[Agens(n)]
    BY <1>2, <1>3, <2>4
  <2>6. /\ st'[LsqLive'[Agens(n)]].seq = st'[RuuLive'[n]].seq + 1
        /\ st'[LsqLive'[Agens(n)]].spec = st'[RuuLive'[n]].spec
    BY <1>2, <2>1, <2>2, <2>5 DEF Becomes
  <2> QED BY <1>4, <2>1, <2>4, <2>6
<1>9. Paired'
  BY <1>2, <1>5, <1>6, <1>7, <1>8 DEF Paired, InLSQ, EaComp
<1> QED BY <1>2, <1>3, <1>4, <1>9

LEMMA WritebackPath ==
    ASSUME RuuCore, NEW o, WrittenBack(o), spec_mode' = (spec_mode /\ ~st[Finished].recover)
    PROVE  OnePath'
<1>1. /\ \A n \in 0..o : Agens(n)' = Agens(n)
      /\ \A n \in 1..o : n \in 1..RUU_num /\ RuuLive[n] \in Stations /\ RuuLive'[n] = RuuLive[n]
      /\ \A n \in 1..Agens(o) : n \in 1..LSQ_num /\ LsqLive[n] \in Stations /\ LsqLive'[n] = LsqLive[n]
  BY WritebackPaired
<1>2. /\ RUU_num' = o /\ LSQ_num' = Agens(o) /\ CutAt(o) /\ RUU_num \in Nat /\ LSQ_num \in Nat
      /\ \A t \in Stations : Becomes(t, st'[t])
      /\ o \in 0..RUU_num /\ Agens(o) \in 0..LSQ_num
  BY DEF WrittenBack, CutAt, RuuCore, Rings, Ring
<1>3. \A n \in 1..o : st'[RuuLive'[n]].spec = st[RuuLive[n]].spec
  BY <1>1, <1>2 DEF Becomes
<1>4. \A n \in 1..Agens(o) : st'[LsqLive'[n]].spec = st[LsqLive[n]].spec
  BY <1>1, <1>2 DEF Becomes
<1>5. CASE st[Finished].recover
  <2>1. /\ spec_mode /\ Finished = RuuLive[o] /\ o # 0
        /\ \A n \in 1..RUU_num : /\ Pends(st[RuuLive[n]]) <=> n = o
                                 /\ st[RuuLive[n]].spec <=> n > o
        /\ \A n \in 1..LSQ_num : st[LsqLive[n]].spec <=> n > Agens(o)
    BY <1>2, <1>5 DEF CutAt
  <2>2. ~spec_mode'
    BY <1>5
  <2>3. \A n \in 1..o : ~Pends(st'[RuuLive'[n]]) /\ ~st'[RuuLive'[n]].spec
    <3> TAKE n \in 1..o
    <3>1. ~st'[RuuLive'[n]].spec
      BY <1>1, <1>2, <1>3, <2>1
    <3>2. CASE n = o
      BY <1>1, <1>2, <2>1, <3>2 DEF Pends, Becomes
    <3>3. CASE n # o
      BY <1>1, <1>2, <2>1, <3>3 DEF Pends, Becomes
    <3> QED BY <3>1, <3>2, <3>3
  <2>4. \A n \in 1..Agens(o) : ~st'[LsqLive'[n]].spec
    <3> TAKE n \in 1..Agens(o)
    <3>1. n \in 1..LSQ_num /\ ~(n > Agens(o))
      BY <1>1, <1>2
    <3> QED BY <1>4, <2>1, <3>1
  <2> QED BY <1>2, <2>2, <2>3, <2>4 DEF OnePath, Pends
<1>6. CASE ~st[Finished].recover
  <2>1. o = RUU_num /\ Agens(o) = LSQ_num /\ spec_mode' = spec_mode
    BY <1>2, <1>6 DEF CutAt, RuuCore, Typed
  <2>2. \A n \in 1..o : Pends(st'[RuuLive'[n]]) <=> Pends(st[RuuLive[n]])
    BY <1>1, <1>2, <1>6 DEF Pends, Becomes
  <2>3. CASE spec_mode
    <3>1. PICK p \in 1..RUU_num :
            /\ \A n \in 1..RUU_num : /\ Pends(st[RuuLive[n]]) <=> n = p
                                     /\ st[RuuLive[n]].spec <=> n > p
            /\ \A n \in 1..LSQ_num : st[LsqLive[n]].spec <=> n > Agens(p)
      BY <2>3 DEF RuuCore, OnePath
    <3>2. Agens(p)' = Agens(p)
      <4>1. p \in 0..o
        BY <1>2, <2>1
      <4> QED BY <1>1, <4>1
    <3>3. \A n \in 1..RUU_num' : /\ Pends(st'[RuuLive'[n]]) <=> n = p
                                 /\ st'[RuuLive'[n]].spec <=> n > p
      BY <1>2, <1>3, <2>1, <2>2, <3>1
    <3>4. \A n \in 1..LSQ_num' : st'[LsqLive'[n]].spec <=> n > Agens(p)'
      BY <1>2, <1>4, <2>1, <3>1, <3>2
    <3>5. p \in 1..RUU_num'
      BY <1>2, <2>1
    <3> QED BY <2>1, <2>3, <3>3, <3>4, <3>5 DEF OnePath, Pends
  <2>4. CASE ~spec_mode
    <3>1. /\ \A n \in 1..RUU_num : ~Pends(st[RuuLive[n]]) /\ ~st[RuuLive[n]].spec
          /\ \A n \in 1..LSQ_num : ~st[LsqLive[n]].spec
      BY <2>4 DEF RuuCore, OnePath
    <3>2. \A n \in 1..RUU_num' : ~Pends(st'[RuuLive'[n]]) /\ ~st'[RuuLive'[n]].spec
      BY <1>2, <1>3, <2>1, <2>2, <3>1
    <3>3. \A n \in 1..LSQ_num' : ~st'[LsqLive'[n]].spec
      BY <1>2, <1>4, <2>1, <3>1
    <3> QED BY <2>1, <2>4, <3>2, <3>3 DEF OnePath, Pends
  <2> QED BY <2>3, <2>4
<1> QED BY <1>5, <1>6

\* The squashed are those on the mispredicted path.
LEMMA SquashedSpec ==
    ASSUME RuuCore, NEW o, CutAt(o)
    PROVE  /\ \A id \in Squashed : st[id].spec
           /\ ~st[Finished].recover => Squashed = {}
<1>1. /\ o \in 0..RUU_num /\ Agens(o) \in 0..LSQ_num /\ RUU_num \in Nat /\ LSQ_num \in Nat
      /\ \A id : id \in Squashed <=> \/ \E k \in o + 1..RUU_num : id = RuuLive[k]
                                     \/ \E k \in Agens(o) + 1..LSQ_num : id = LsqLive[k]
  BY DEF CutAt, RuuCore, Rings, Ring
<1>2. CASE st[Finished].recover
  <2>1. /\ \A n \in 1..RUU_num : st[RuuLive[n]].spec <=> n > o
        /\ \A n \in 1..LSQ_num : st[LsqLive[n]].spec <=> n > Agens(o)
    BY <1>2 DEF CutAt
  <2>2. \A k \in o + 1..RUU_num : st[RuuLive[k]].spec
    BY <1>1, <2>1
  <2>3. \A k \in Agens(o) + 1..LSQ_num : st[LsqLive[k]].spec
    <3> TAKE k \in Agens(o) + 1..LSQ_num
    <3>1. k \in 1..LSQ_num /\ k > Agens(o)
      BY <1>1
    <3> QED BY <2>1, <3>1
  <2> QED BY <1>1, <1>2, <2>2, <2>3
<1>3. CASE ~st[Finished].recover
  BY <1>3 DEF Squashed
<1> QED BY <1>2, <1>3

LEMMA WritebackVectors ==
    ASSUME RuuCore, NEW o, WrittenBack(o),
           spec_create_vector' = (IF st[Finished].spec THEN Completes(spec_create_vector, Finished) ELSE spec_create_vector),
           create_vector' = (IF st[Finished].spec THEN create_vector ELSE Completes(create_vector, Finished)),
           use_spec_cv' = (IF st[Finished].recover THEN {} ELSE use_spec_cv)
    PROVE  /\ VectorsSound'
           /\ create_vector' \in [Regs \cup {DTMP} -> CvType]
           /\ spec_create_vector' \in [Regs \cup {DTMP} -> CvType]
           /\ use_spec_cv' \subseteq Regs \cup {DTMP}
<1>1. /\ Live' = Live \ Squashed /\ \A t \in Stations : Becomes(t, st'[t])
      /\ CutAt(o) /\ Finished \in Live
  BY DEF WrittenBack
<1>2. Live \subseteq Stations
  BY LiveLists DEF RuuCore
<1>3. /\ create_vector \in [Regs \cup {DTMP} -> CvType] /\ spec_create_vector \in [Regs \cup {DTMP} -> CvType]
      /\ use_spec_cv \subseteq Regs \cup {DTMP}
  BY DEF RuuCore, Typed
<1>4. CvNull \in CvType /\ CvNull.rs = Null
  BY DEF CvNull, CvType, Outs
<1>5. ASSUME NEW cv \in [Regs \cup {DTMP} -> CvType]
      PROVE  /\ Completes(cv, Finished) \in [Regs \cup {DTMP} -> CvType]
             /\ \A r \in Regs \cup {DTMP} :
                   Names(cv[r], r) => \/ Completes(cv, Finished)[r].rs = Null
                                      \/ Completes(cv, Finished)[r] = cv[r] /\ cv[r].rs # Finished
  <2> DEFINE gone(r) == \E k \in Outs : st[Finished].onames[k] = r /\ cv[r] = [rs |-> Finished, odep |-> k]
             C == Completes(cv, Finished)
  <2>1. C = [r \in Regs \cup {DTMP} |-> IF gone(r) THEN CvNull ELSE cv[r]]
    BY DEF Completes
  <2> HIDE DEF C, gone
  <2>2. C \in [Regs \cup {DTMP} -> CvType]
    BY <1>4, <2>1
  <2>3. ASSUME NEW r \in Regs \cup {DTMP}, Names(cv[r], r), cv[r].rs = Finished PROVE gone(r)
    <3>1. cv[r] \in CvType
      OBVIOUS
    <3>2. cv[r].odep \in Outs /\ cv[r] = [rs |-> Finished, odep |-> cv[r].odep]
      BY <2>3, <3>1 DEF CvType
    <3>3. Finished # Null
      BY <1>1, <1>2, LiveIs
    <3>4. st[Finished].onames[cv[r].odep] = r
      BY <2>3, <3>3 DEF Names
    <3> QED BY <3>2, <3>4 DEF gone
  <2>4. \A r \in Regs \cup {DTMP} : Names(cv[r], r) => C[r].rs = Null \/ (C[r] = cv[r] /\ cv[r].rs # Finished)
    BY <1>4, <2>1, <2>3
  <2> QED BY <2>2, <2>4 DEF C
<1>6. ASSUME NEW e, NEW r, Names(e, r), e.rs # Null, e.rs \notin Squashed, e.rs # Finished
      PROVE  Names(e, r)' /\ st'[e.rs].spec = st[e.rs].spec
  <2>1. e.rs \in Live /\ e.rs \in Stations /\ ~st[e.rs].completed /\ st[e.rs].onames[e.odep] = r
    BY <1>2, <1>6 DEF Names
  <2> QED BY <1>1, <1>6, <2>1 DEF Names, Becomes
<1>7. /\ \A id \in Squashed : st[id].spec
      /\ ~st[Finished].recover => Squashed = {}
  BY <1>1, SquashedSpec
<1>8. ASSUME NEW r \in Regs \cup {DTMP}, NEW e, e = create_vector'[r]
      PROVE  Names(e, r)' /\ (e.rs # Null => ~st'[e.rs].spec)
  <2>1. Names(create_vector[r], r) /\ (create_vector[r].rs # Null => ~st[create_vector[r].rs].spec)
    BY DEF RuuCore, VectorsSound
  <2>2. CASE e.rs = Null
    BY <2>2 DEF Names
  <2>3. CASE e.rs # Null
    <3>1. e = create_vector[r] /\ e.rs # Finished
      <4>1. CASE st[Finished].spec
        BY <1>8, <2>1, <2>3, <4>1
      <4>2. CASE ~st[Finished].spec
        BY <1>3, <1>5, <1>8, <2>1, <2>3, <4>2
      <4> QED BY <4>1, <4>2
    <3>2. e.rs \notin Squashed
      BY <1>7, <2>1, <2>3, <3>1
    <3>3. Names(e, r) /\ ~st[e.rs].spec
      BY <2>1, <2>3, <3>1
    <3> QED BY <1>6, <2>3, <3>1, <3>2, <3>3
  <2> QED BY <2>2, <2>3
<1>9. ASSUME NEW r \in use_spec_cv', NEW e, e = spec_create_vector'[r]
      PROVE  Names(e, r)' /\ (e.rs # Null => st'[e.rs].spec)
  <2>1. ~st[Finished].recover /\ r \in use_spec_cv /\ Squashed = {} /\ r \in Regs \cup {DTMP}
    BY <1>3, <1>7, <1>9
  <2>2. Names(spec_create_vector[r], r) /\ (spec_create_vector[r].rs # Null => st[spec_create_vector[r].rs].spec)
    BY <2>1 DEF RuuCore, VectorsSound
  <2>3. CASE e.rs = Null
    BY <2>3 DEF Names
  <2>4. CASE e.rs # Null
    <3>1. e = spec_create_vector[r] /\ e.rs # Finished
      <4>1. CASE st[Finished].spec
        BY <1>3, <1>5, <1>9, <2>1, <2>2, <2>4, <4>1
      <4>2. CASE ~st[Finished].spec
        BY <1>9, <2>2, <2>4, <4>2
      <4> QED BY <4>1, <4>2
    <3>3. Names(e, r) /\ st[e.rs].spec
      BY <2>2, <2>4, <3>1
    <3> QED BY <1>6, <2>1, <2>4, <3>1, <3>3
  <2> QED BY <2>3, <2>4
<1>10. VectorsSound'
  BY <1>8, <1>9 DEF VectorsSound, Names
<1>11. /\ create_vector' \in [Regs \cup {DTMP} -> CvType]
       /\ spec_create_vector' \in [Regs \cup {DTMP} -> CvType]
  BY <1>3, <1>5
<1>12. use_spec_cv' \subseteq Regs \cup {DTMP}
  BY <1>3
<1> QED BY <1>10, <1>11, <1>12

LEMMA WritebackChains ==
    ASSUME RuuCore, NEW o, WrittenBack(o)
    PROVE  ChainsSound' /\ KindsSound'
<1>1. Live' = Live \ Squashed /\ \A t \in Stations : Becomes(t, st'[t])
  BY DEF WrittenBack
<1>2. ASSUME NEW t \in Stations, NEW k \in Outs, st'[t].odeps[k] # << >>
      PROVE  t \in Live' /\ ~st'[t].completed /\ st'[t].onames[k] # NA
  <2>1. Becomes(t, st'[t])
    BY <1>1
  <2>2. t \notin Squashed /\ t # Finished /\ st[t].odeps[k] # << >>
    BY <1>2, <2>1 DEF Becomes
  <2>3. t \in Live /\ ~st[t].completed /\ st[t].onames[k] # NA
    BY <2>2 DEF RuuCore, ChainsSound
  <2> QED BY <1>1, <2>1, <2>2, <2>3 DEF Becomes
<1>3. ChainsSound'
  BY <1>2 DEF ChainsSound
<1>4. KindsSound'
  BY <1>1 DEF RuuCore, KindsSound, Becomes, EaComp, InLSQ
<1> QED BY <1>3, <1>4

LEMMA WritebackLinks ==
    ASSUME RuuCore, Writeback, NEW o, WrittenBack(o)
    PROVE  LinksGood'
<1>1. /\ Live' = Live \ Squashed /\ \A t \in Stations : Becomes(t, st'[t])
      /\ Finished \in Live /\ Finished \notin Squashed /\ Rings'
      /\ st' \in [Stations -> StationType]
  BY DEF WrittenBack
<1>2. Live \subseteq Stations /\ Live' \subseteq Stations
  BY <1>1, LiveLists, LiveListsNext DEF RuuCore
<1>3. /\ st' = MarkQueued(AfterWake, Woken) /\ ready_queue' = EnqueueAll(AfterWake, ready_queue, Woken)
      /\ event_queue' = Tail(event_queue) /\ event_queue # << >> /\ UNCHANGED <<last_op, scan>>
  BY WritebackIs
<1>4. \A l \in ToSet(ready_queue') :
          \/ l \in ToSet(ready_queue)
          \/ l.rs \in Live /\ l.rs \notin Squashed /\ l.tag = st'[l.rs].tag /\ l.seq = st'[l.rs].seq
  BY <1>1, <1>2, <1>3, WokenQueue
<1>5. ToSet(event_queue') \subseteq ToSet(event_queue)
  <2>1. event_queue \in Seq(LinkType)
    BY CoreLists
  <2> QED BY <1>3, <2>1, TailSet
<1>6. KeepsLinks
  <2>1. ASSUME NEW id \in Stations
        PROVE  \/ st'[id].tag = st[id].tag + 1
               \/ st'[id].tag = st[id].tag /\ (id \in Live => id \in Live' /\ st'[id].seq = st[id].seq)
    BY <1>1 DEF Becomes
  <2> QED BY <2>1 DEF KeepsLinks
<1>7. ASSUME NEW l \in AllLinks'
      PROVE  OldLink(l) \/ (l.rs \in Live' /\ l.tag = st'[l.rs].tag /\ l.seq = st'[l.rs].seq)
  <2>1. ASSUME l \in AllLinks PROVE OldLink(l)
    BY <2>1 DEF OldLink, SameLink
  <2>2. CASE l \in ToSet(ready_queue')
    BY <1>1, <1>4, <2>1, <2>2, AllLinksAre
  <2>3. CASE l \in ToSet(event_queue')
    BY <1>5, <2>1, <2>3, AllLinksAre
  <2>4. CASE l \in ToSet(scan') \/ (l = last_op' /\ l # NullLink)
    BY <1>3, <2>1, <2>4, AllLinksAre
  <2>5. CASE \E id \in Stations : \E k \in Outs : l \in ToSet(st'[id].odeps[k])
    <3>1. PICK id \in Stations, k \in Outs : l \in ToSet(st'[id].odeps[k])
      BY <2>5
    <3>2. Becomes(id, st'[id])
      BY <1>1
    <3>3. st'[id].odeps[k] = << >> \/ st'[id].odeps[k] = st[id].odeps[k]
      BY <3>2 DEF Becomes
    <3>4. l \in ToSet(st[id].odeps[k])
      BY <3>1, <3>3 DEF ToSet
    <3> QED BY <2>1, <3>4, AllLinksAre
  <2> QED BY <1>7, <2>2, <2>3, <2>4, <2>5, AllLinksAreNext
<1>8. \A id \in Stations : st'[id].tag \in Nat
  BY <1>1 DEF StationType
<1> QED BY <1>2, <1>6, <1>7, <1>8, LinksStep DEF RuuCore, OldLink

\* The links on the outputs of one station.
LEMMA StationLinks ==
    ASSUME NEW s, NEW id, \A k \in Outs : s[id].odeps[k] \in Seq(LinkType)
    PROVE  Cardinality(LinkPlaces(s, {id})) = Len(s[id].odeps[0]) + Len(s[id].odeps[1])
<1> DEFINE a == s[id].odeps[0]
           b == s[id].odeps[1]
           m == Len(a)
           n == Len(b)
           P == LinkPlaces(s, {id})
           f == [i \in 1..m + n |-> IF i <= m THEN <<id, 0, i>> ELSE <<id, 1, i - m>>]
<1>0. a \in Seq(LinkType) /\ b \in Seq(LinkType)
  BY DEF Outs
<1>1. m \in Nat /\ n \in Nat /\ DOMAIN a = 1..m /\ DOMAIN b = 1..n
  <2> HIDE DEF a, b
  <2> QED BY <1>0, LenProperties
<1>2. \A p : p \in P <=> (\E i \in 1..m : p = <<id, 0, i>>) \/ (\E i \in 1..n : p = <<id, 1, i>>)
  <2>1. P = ({id} \X {0} \X DOMAIN a) \cup ({id} \X {1} \X DOMAIN b)
    <3> DEFINE Q(x, k) == {x} \X {k} \X DOMAIN s[x].odeps[k]
    <3>1. P = UNION {Q(x, k) : x \in {id}, k \in Outs}
      BY DEF LinkPlaces
    <3>2. Q(id, 0) = {id} \X {0} \X DOMAIN a /\ Q(id, 1) = {id} \X {1} \X DOMAIN b
      OBVIOUS
    <3>3. \A k : k \in Outs <=> k = 0 \/ k = 1
      BY DEF Outs
    <3> HIDE DEF Q, P
    <3>4. P = Q(id, 0) \cup Q(id, 1)
      BY <3>1, <3>3
    <3> QED BY <3>2, <3>4
  <2> HIDE DEF P, m, n
  <2> QED BY <1>1, <2>1
<1> HIDE DEF P, m, n
<1>3. f \in Bijection(1..m + n, P)
  <2>1. ASSUME NEW i \in 1..m + n PROVE f[i] \in P
    <3>1. i <= m => i \in 1..m
      BY <1>1
    <3>2. ~(i <= m) => i - m \in 1..n
      BY <1>1
    <3> QED BY <1>2, <3>1, <3>2
  <2>2. f \in [1..m + n -> P]
    BY <2>1
  <2>3. ASSUME NEW p \in P PROVE \E i \in 1..m + n : f[i] = p
    <3>1. CASE \E i \in 1..m : p = <<id, 0, i>>
      <4>1. PICK i \in 1..m : p = <<id, 0, i>>
        BY <3>1
      <4>2. i \in 1..m + n /\ i <= m
        BY <1>1
      <4> QED BY <4>1, <4>2
    <3>2. CASE \E i \in 1..n : p = <<id, 1, i>>
      <4>1. PICK i \in 1..n : p = <<id, 1, i>>
        BY <3>2
      <4>2. i + m \in 1..m + n /\ ~(i + m <= m) /\ i + m - m = i
        BY <1>1
      <4>3. PICK j \in 1..m + n : ~(j <= m) /\ j - m = i
        BY <1>1, <4>2
      <4>4. f[j] = <<id, 1, j - m>>
        BY <4>3
      <4>5. f[j] = p
        BY <4>1, <4>3, <4>4
      <4> QED BY <4>5
    <3> QED BY <1>2, <3>1, <3>2
  <2>4. ASSUME NEW i \in 1..m + n, NEW j \in 1..m + n, f[i] = f[j] PROVE i = j
    BY <1>1, <2>4
  <2> HIDE DEF f
  <2> QED BY <2>2, <2>3, <2>4, Fun_IsBij
<1>4. Cardinality(1..m + n) = m + n /\ IsFiniteSet(1..m + n)
  <2> DEFINE c == m + n
  <2>1. 1 \in Int /\ c \in Int /\ c \in Nat
    BY <1>1
  <2> HIDE DEF c
  <2>2. IsFiniteSet(1..c) /\ Cardinality(1..c) = IF 1 > c THEN 0 ELSE c - 1 + 1
    BY <2>1, FS_Interval
  <2>3. IsFiniteSet(1..c) /\ Cardinality(1..c) = c
    BY <2>1, <2>2
  <2> QED BY <2>3 DEF c
<1> HIDE DEF f
<1>5. Cardinality(P) = m + n
  BY <1>3, <1>4, FS_Bijection DEF ExistsBijection
<1> QED BY <1>5 DEF P, m, n

\* The places the squashed entries and the finished instruction leave.
LEMMA WritebackPlaces ==
    ASSUME RuuCore, NEW o, WrittenBack(o)
    PROVE  /\ LinksOf(Stations)' \in Nat /\ LinksOf(Squashed) \in Nat /\ LinksOf({Finished}) \in Nat
           /\ LinksOf(Stations) = LinksOf(Stations)' + LinksOf(Squashed) + LinksOf({Finished})
<1>1. /\ \A t \in Stations : Becomes(t, st'[t]) /\ st[t] \in StationType
      /\ Finished \in Stations /\ Finished \notin Squashed /\ Squashed \subseteq Stations
      /\ {Finished} \subseteq Stations
  <2>1. CutAt(o) /\ Finished \in Live /\ Finished \notin Squashed /\ \A t \in Stations : Becomes(t, st'[t])
    BY DEF WrittenBack
  <2>2. Live \subseteq Stations /\ Squashed \subseteq Live
    BY <2>1, CutLive, LiveLists DEF RuuCore
  <2> QED BY <2>1, <2>2 DEF RuuCore, Typed
<1> DEFINE P == LinkPlaces(st, Stations)
           N == LinkPlaces(st', Stations)
           S == LinkPlaces(st, Squashed)
           F == LinkPlaces(st, {Finished})
<1>2. \A id \in Stations : \A k \in Outs : st[id].odeps[k] \in Seq(LinkType) /\ st'[id].odeps[k] \in Seq(LinkType)
  BY <1>1 DEF Becomes, StationType
<1>3. /\ IsFiniteSet(P) /\ Cardinality(P) \in Nat
      /\ \A p : p \in P <=> \E id \in Stations : \E k \in Outs : \E n \in DOMAIN st[id].odeps[k] : p = <<id, k, n>>
  BY <1>2, PlacesFinite
<1>4. /\ IsFiniteSet(N) /\ Cardinality(N) \in Nat
      /\ \A p : p \in N <=> \E id \in Stations : \E k \in Outs : \E n \in DOMAIN st'[id].odeps[k] : p = <<id, k, n>>
  BY <1>2, PlacesFinite
<1>5. /\ IsFiniteSet(S) /\ Cardinality(S) \in Nat
      /\ \A p : p \in S <=> \E id \in Squashed : \E k \in Outs : \E n \in DOMAIN st[id].odeps[k] : p = <<id, k, n>>
  <2>1. \A id \in Squashed : \A k \in Outs : st[id].odeps[k] \in Seq(LinkType)
    BY <1>1, <1>2
  <2> QED BY <1>1, <2>1, PlacesFinite
<1>6. /\ IsFiniteSet(F) /\ Cardinality(F) \in Nat
      /\ \A p : p \in F <=> \E id \in {Finished} : \E k \in Outs : \E n \in DOMAIN st[id].odeps[k] : p = <<id, k, n>>
  <2>1. \A id \in {Finished} : \A k \in Outs : st[id].odeps[k] \in Seq(LinkType)
    BY <1>1, <1>2
  <2> QED BY <1>1, <2>1, PlacesFinite
<1> HIDE DEF P, N, S, F
<1>7. ASSUME NEW id \in Stations, NEW k \in Outs, NEW n
      PROVE  n \in DOMAIN st'[id].odeps[k] <=> n \in DOMAIN st[id].odeps[k] /\ id \notin Squashed /\ id # Finished
  <2>1. st'[id].odeps[k] = (IF id \in Squashed \/ id = Finished THEN << >> ELSE st[id].odeps[k])
    BY <1>1 DEF Becomes
  <2>2. DOMAIN << >> = {}
    OBVIOUS
  <2> QED BY <2>1, <2>2
<1>8. S \cap F = {} /\ N \cap (S \cup F) = {}
  <2>1. ASSUME NEW p \in S, p \in F PROVE FALSE
    <3>1. PICK id \in Squashed : \E k, n : p = <<id, k, n>>
      BY <1>5
    <3>2. \E k, n : p = <<Finished, k, n>>
      BY <1>6, <2>1
    <3> QED BY <1>1, <3>1, <3>2
  <2>2. ASSUME NEW p \in N PROVE p \notin S /\ p \notin F
    <3>1. PICK id \in Stations, k \in Outs : \E n \in DOMAIN st'[id].odeps[k] : p = <<id, k, n>>
      BY <1>4
    <3>2. id \notin Squashed /\ id # Finished
      BY <1>7, <3>1
    <3>3. p \in S => \E i \in Squashed : \E j, n : p = <<i, j, n>>
      BY <1>5
    <3>4. p \in F => \E j, n : p = <<Finished, j, n>>
      BY <1>6
    <3> QED BY <3>1, <3>2, <3>3, <3>4
  <2> QED BY <2>1, <2>2
<1>9. P = N \cup (S \cup F)
  <2>1. ASSUME NEW p \in P PROVE p \in N \cup (S \cup F)
    <3>1. PICK id \in Stations, k \in Outs : \E n \in DOMAIN st[id].odeps[k] : p = <<id, k, n>>
      BY <1>3
    <3>2. CASE id \in Squashed
      BY <1>5, <3>1, <3>2
    <3>3. CASE id = Finished
      BY <1>6, <3>1, <3>3
    <3>4. CASE id \notin Squashed /\ id # Finished
      BY <1>4, <1>7, <3>1, <3>4
    <3> QED BY <3>2, <3>3, <3>4
  <2>2. ASSUME NEW p \in N PROVE p \in P
    BY <1>3, <1>4, <1>7
  <2>3. ASSUME NEW p \in S \cup F PROVE p \in P
    BY <1>1, <1>3, <1>5, <1>6
  <2> QED BY <2>1, <2>2, <2>3
<1>10. /\ IsFiniteSet(S \cup F)
       /\ Cardinality(S \cup F) = Cardinality(S) + Cardinality(F) - Cardinality(S \cap F)
  BY <1>5, <1>6, FS_Union
<1> DEFINE G == S \cup F
<1>11. Cardinality(N \cup G) = Cardinality(N) + Cardinality(G) - Cardinality(N \cap G)
  <2>1. IsFiniteSet(G)
    BY <1>10
  <2> HIDE DEF G
  <2> QED BY <1>4, <2>1, FS_Union
<1>12. Cardinality({}) = 0
  BY FS_EmptySet
<1>13. Cardinality(S \cup F) = Cardinality(S) + Cardinality(F)
  <2>1. Cardinality(S \cap F) = 0
    BY <1>8, <1>12
  <2> QED BY <1>5, <1>6, <1>10, <2>1
<1>14. Cardinality(P) = Cardinality(N) + (Cardinality(S) + Cardinality(F))
  <2>1. Cardinality(N \cap G) = 0
    BY <1>8, <1>12
  <2>2. Cardinality(N \cup G) = Cardinality(N) + (Cardinality(S) + Cardinality(F))
    BY <1>4, <1>5, <1>6, <1>11, <1>13, <2>1
  <2> QED BY <1>9, <2>2
<1>15. /\ LinksOf(Stations) = Cardinality(P) /\ LinksOf(Stations)' = Cardinality(N)
       /\ LinksOf(Squashed) = Cardinality(S) /\ LinksOf({Finished}) = Cardinality(F)
  BY DEF LinksOf, P, N, S, F
<1> QED BY <1>4, <1>5, <1>6, <1>14, <1>15

LEMMA WritebackConserves ==
    ASSUME RuuCore, Writeback, NEW o, WrittenBack(o)
    PROVE  LinksConserved' /\ rslinks' \in Nat
<1>1. Finished \in Stations /\ Finished \notin Squashed
  <2>1. Finished \in Live /\ Finished \notin Squashed
    BY DEF WrittenBack
  <2> QED BY <2>1, LiveLists DEF RuuCore
<1>2. /\ st' = MarkQueued(AfterWake, Woken) /\ ready_queue' = EnqueueAll(AfterWake, ready_queue, Woken)
      /\ event_queue' = Tail(event_queue) /\ event_queue # << >> /\ UNCHANGED scan
      /\ rslinks' = rslinks + 1 + LinksOf(Squashed) + Len(Chain) - Len(Woken)
  BY WritebackIs
<1>3. Len(ready_queue') = Len(ready_queue) + Len(Woken)
  BY <1>1, <1>2, WokenQueue
<1>4. Len(event_queue') = Len(event_queue) - 1 /\ Len(event_queue) >= 1
  <2>1. event_queue \in Seq(LinkType)
    BY CoreLists
  <2> QED BY <1>2, <2>1, TailSet
<1>5. /\ Len(ready_queue) \in Nat /\ Len(event_queue) \in Nat /\ Len(scan) \in Nat
      /\ rslinks \in Nat /\ LinksOf(Stations) \in Nat
  BY CountsTyped DEF RuuCore
<1>6. rslinks + Len(ready_queue) + Len(event_queue) + Len(scan) + LinksOf(Stations) = NumLinks
  BY DEF RuuCore, LinksConserved
<1>7. /\ LinksOf(Stations)' \in Nat /\ LinksOf(Squashed) \in Nat
      /\ LinksOf(Stations) = LinksOf(Stations)' + LinksOf(Squashed) + LinksOf({Finished})
  BY WritebackPlaces
<1>8. Len(Chain) \in Nat /\ Len(Woken) \in 0..Len(Chain)
      /\ Len(Chain) = Len(st[Finished].odeps[0]) + Len(st[Finished].odeps[1])
  BY <1>1, ChainIs, WokenIs
<1>9. LinksOf({Finished}) = Len(Chain)
  <2>1. \A k \in Outs : st[Finished].odeps[k] \in Seq(LinkType)
    BY <1>1 DEF RuuCore, Typed, StationType
  <2>2. Cardinality(LinkPlaces(st, {Finished})) = Len(st[Finished].odeps[0]) + Len(st[Finished].odeps[1])
    BY <2>1, StationLinks
  <2> QED BY <1>8, <2>2 DEF LinksOf
<1>10. PICK sq, ch, wo, old, new : /\ sq = LinksOf(Squashed) /\ ch = Len(Chain) /\ wo = Len(Woken)
                                     /\ old = LinksOf(Stations) /\ new = LinksOf(Stations)'
  OBVIOUS
<1>11. rslinks' = rslinks + 1 + sq + ch - wo /\ Len(scan') = Len(scan)
  BY <1>2, <1>10
<1>12. Len(ready_queue') = Len(ready_queue) + wo /\ old = new + sq + ch
  BY <1>3, <1>7, <1>9, <1>10
<1>13. sq \in Nat /\ ch \in Nat /\ wo \in Nat /\ wo <= ch
  <2>1. ch \in Nat /\ wo \in 0..ch
    BY <1>8, <1>10
  <2>2. wo \in Nat /\ wo <= ch
    BY <2>1
  <2> QED BY <1>7, <1>10, <2>1, <2>2
<1>14. new \in Nat /\ rslinks + Len(ready_queue) + Len(event_queue) + Len(scan) + old = NumLinks
  BY <1>6, <1>7, <1>10
<1>15. rslinks' + Len(ready_queue') + Len(event_queue') + Len(scan') + new = NumLinks
  BY <1>4, <1>5, <1>11, <1>12, <1>13, <1>14
<1>16. rslinks' \in Nat
  BY <1>5, <1>11, <1>13
<1> QED BY <1>10, <1>15, <1>16 DEF LinksConserved

LEMMA WritebackStep ==
    ASSUME RuuCore, Writeback, UNCHANGED options, NoPanic'
    PROVE  RuuCore'
<1>1. PICK o : WrittenBack(o)
  BY WritebackLines
<1>2. /\ event_queue # << >> /\ event_queue' = Tail(event_queue) /\ stage = "writeback"
      /\ spec_create_vector' = (IF st[Finished].spec THEN Completes(spec_create_vector, Finished) ELSE spec_create_vector)
      /\ create_vector' = (IF st[Finished].spec THEN create_vector ELSE Completes(create_vector, Finished))
      /\ use_spec_cv' = (IF st[Finished].recover THEN {} ELSE use_spec_cv)
      /\ spec_mode' = (spec_mode /\ ~st[Finished].recover)
      /\ UNCHANGED <<busy, last_op, inst_seq, stage, count, scan>>
      /\ st' = MarkQueued(AfterWake, Woken) /\ ready_queue' = EnqueueAll(AfterWake, ready_queue, Woken)
  BY WritebackIs
<1>3. Rings' /\ st' \in [Stations -> StationType] /\ Finished \in Live /\ Finished \notin Squashed
  BY <1>1 DEF WrittenBack
<1>4. Paired' /\ OnePath' /\ ChainsSound' /\ KindsSound' /\ LinksGood' /\ LinksConserved' /\ rslinks' \in Nat
  BY <1>1, <1>2, WritebackPaired, WritebackPath, WritebackChains, WritebackLinks, WritebackConserves
<1>5. /\ VectorsSound'
      /\ create_vector' \in [Regs \cup {DTMP} -> CvType]
      /\ spec_create_vector' \in [Regs \cup {DTMP} -> CvType]
      /\ use_spec_cv' \subseteq Regs \cup {DTMP}
  BY <1>1, <1>2, WritebackVectors
<1>6. event_queue \in Seq(LinkType) /\ InOrderOfTime(event_queue)
  BY CoreLists
<1>7. /\ event_queue' \in Seq(LinkType) /\ Len(event_queue') = Len(event_queue) - 1 /\ Len(event_queue) \in Nat
      /\ \A i \in 1..Len(event_queue) - 1 : event_queue'[i] = event_queue[i + 1]
  BY <1>2, <1>6, TailSet, LenProperties
<1>8. EventsInOrder'
  <2>1. ASSUME NEW i \in 1..Len(event_queue'), NEW j \in 1..Len(event_queue'), i < j
        PROVE  event_queue'[i].x <= event_queue'[j].x
    <3>1. i + 1 \in 1..Len(event_queue) /\ j + 1 \in 1..Len(event_queue) /\ i + 1 < j + 1
      BY <1>7, <2>1
    <3>2. event_queue[i + 1].x <= event_queue[j + 1].x
      BY <1>6, <3>1 DEF InOrderOfTime
    <3> QED BY <1>7, <3>2
  <2> QED BY <1>2, <2>1 DEF EventsInOrder
<1>9. Scanned'
  BY <1>2 DEF RuuCore, Scanned
<1>10. ready_queue' \in Seq(LinkType)
  <2>1. Finished \in Stations
    BY <1>3, LiveLists DEF RuuCore
  <2> QED BY <1>2, <1>3, <2>1, WokenQueue
<1>11. spec_mode' \in BOOLEAN
  <2>1. Finished \in Stations
    BY <1>3, LiveLists DEF RuuCore
  <2>2. spec_mode \in BOOLEAN
    BY DEF RuuCore, Typed
  <2> QED BY <1>2, <2>2
<1>12. Typed'
  BY <1>2, <1>3, <1>4, <1>5, <1>7, <1>10, <1>11 DEF RuuCore, Typed, options
<1> QED BY <1>3, <1>4, <1>5, <1>8, <1>9, <1>12 DEF RuuCore

-----------------------------------------------------------------------------
(* ruu_dispatch adds an entry to the RUU, or one to each queue.            *)

\* The number of the instruction that is to produce register r.
LEMMA ProducerIs ==
    ASSUME RuuCore, NEW r
    PROVE  Producer(r) \in Nat
<1> DEFINE W == Writers(r)
<1>1. W \subseteq Stations /\ IsFiniteSet(W)
  <2>1. W \subseteq Live /\ Live \subseteq Stations
    BY LiveLists DEF RuuCore, Writers, Live
  <2> HIDE DEF W
  <2>2. W \in SUBSET Stations
    BY <2>1
  <2> QED BY <2>2, StationsFinite, FS_Subset
<1>2. \A id \in Stations : st[id].seq \in Nat
  BY DEF RuuCore, Typed, StationType
<1> DEFINE w == CHOOSE id \in W : \A o \in W : st[o].seq <= st[id].seq
<1>3. ASSUME W # {} PROVE st[w].seq \in Nat
  <2> DEFINE f == [id \in W |-> st[id].seq]
  <2>1. \A x \in W : f[x] \in Nat
    BY <1>1, <1>2
  <2>2. \E u \in W : \A x \in W : f[x] <= f[u]
    <3> HIDE DEF W, f
    <3> QED BY <1>1, <1>3, <2>1, Largest
  <2>3. \E id \in W : \A o \in W : st[o].seq <= st[id].seq
    BY <2>2
  <2>4. w \in W
    BY <2>3
  <2> QED BY <1>1, <1>2, <2>4
<1> QED BY <1>3 DEF Producer

\* What the create vectors say of an operand.
LEMMA CreatorIs ==
    ASSUME RuuCore, NEW r \in Regs \cup {NA}
    PROVE  /\ Creator(r) \in CvType
           /\ Creator(r).rs # Null => /\ Creator(r).rs \in Live /\ ~st[Creator(r).rs].completed
                                      /\ st[Creator(r).rs].onames[Creator(r).odep] # NA
<1>1. CASE r = NA
  <2>1. CvNull \in CvType /\ CvNull.rs = Null
    BY DEF CvNull, CvType, Outs
  <2> QED BY <1>1, <2>1 DEF Creator
<1>2. CASE r # NA
  <2>1. r \in Regs \cup {DTMP}
    BY <1>2
  <2> DEFINE c == Creator(r)
  <2>2. c = (IF r \in use_spec_cv THEN spec_create_vector[r] ELSE create_vector[r])
    BY <1>2 DEF Creator, CREATE_VECTOR
  <2>3. create_vector[r] \in CvType /\ spec_create_vector[r] \in CvType
    BY <2>1 DEF RuuCore, Typed
  <2>4. Names(create_vector[r], r) /\ (r \in use_spec_cv => Names(spec_create_vector[r], r))
    BY <2>1 DEF RuuCore, VectorsSound
  <2> HIDE DEF c
  <2>5. c \in CvType /\ Names(c, r)
    BY <2>2, <2>3, <2>4
  <2> QED BY <1>2, <2>5 DEF Names, c
<1> QED BY <1>1, <1>2

\* All but the links on the outputs is the same.
SameButLinks(a, b) ==
    /\ a.tag = b.tag /\ a.seq = b.seq /\ a.kind = b.kind /\ a.class = b.class /\ a.first = b.first
    /\ a.recover = b.recover /\ a.spec = b.spec /\ a.onames = b.onames /\ a.completed = b.completed
    /\ a.ready = b.ready

\* Stations t are s with d more links, all to id, on outputs of the creators C.
Linking(t, s, id, C, d) ==
    /\ t \in [Stations -> StationType] /\ \A x \in Stations : SameButLinks(t[x], s[x])
    /\ \A x \in Stations : \A j \in Outs : \A l \in ToSet(t[x].odeps[j]) :
          l \in ToSet(s[x].odeps[j]) \/ (l.rs = id /\ l.tag = s[id].tag /\ l.seq = s[id].seq)
    /\ \A x \in Stations : \A j \in Outs :
          t[x].odeps[j] # << >> => s[x].odeps[j] # << >> \/ \E k \in Ops : C[k] = [rs |-> x, odep |-> j]
    /\ d \in Nat
    /\ Cardinality(LinkPlaces(t, Stations)) = Cardinality(LinkPlaces(s, Stations)) + d

LEMMA LinkIdepPlaces ==
    ASSUME NEW s, NEW t, s \in [Stations -> StationType], t \in [Stations -> StationType],
           NEW y \in Stations, NEW j \in Outs, Len(t[y].odeps[j]) = Len(s[y].odeps[j]) + 1,
           \A x \in Stations : \A k \in Outs : x # y \/ k # j => t[x].odeps[k] = s[x].odeps[k]
    PROVE  Cardinality(LinkPlaces(t, Stations)) = Cardinality(LinkPlaces(s, Stations)) + 1
<1> DEFINE P == LinkPlaces(s, Stations)
           N == LinkPlaces(t, Stations)
           n == Len(s[y].odeps[j])
           new == <<y, j, n + 1>>
<1>1. \A x \in Stations : \A k \in Outs : s[x].odeps[k] \in Seq(LinkType) /\ t[x].odeps[k] \in Seq(LinkType)
  BY DEF StationType
<1>2. /\ IsFiniteSet(P) /\ Cardinality(P) \in Nat
      /\ \A p : p \in P <=> \E id \in Stations : \E k \in Outs : \E m \in DOMAIN s[id].odeps[k] : p = <<id, k, m>>
  BY <1>1, PlacesFinite
<1>3. \A p : p \in N <=> \E id \in Stations : \E k \in Outs : \E m \in DOMAIN t[id].odeps[k] : p = <<id, k, m>>
  BY <1>1, PlacesFinite
<1>4. n \in Nat /\ DOMAIN s[y].odeps[j] = 1..n /\ DOMAIN t[y].odeps[j] = 1..n + 1
  <2>1. s[y].odeps[j] \in Seq(LinkType) /\ t[y].odeps[j] \in Seq(LinkType)
    BY <1>1
  <2> QED BY <2>1, LenProperties
<1> HIDE DEF P, N, n
<1>5. N = P \cup {new}
  <2>1. ASSUME NEW p \in N PROVE p \in P \cup {new}
    <3>1. PICK id \in Stations, k \in Outs : \E m \in DOMAIN t[id].odeps[k] : p = <<id, k, m>>
      BY <1>3
    <3>2. CASE id = y /\ k = j
      <4>1. PICK m \in 1..n + 1 : p = <<y, j, m>>
        BY <1>4, <3>1, <3>2
      <4>2. m \in 1..n \/ m = n + 1
        BY <1>4
      <4> QED BY <1>2, <1>4, <4>1, <4>2
    <3>3. CASE id # y \/ k # j
      BY <1>2, <3>1, <3>3
    <3> QED BY <3>2, <3>3
  <2>2. ASSUME NEW p \in P PROVE p \in N
    <3>1. PICK id \in Stations, k \in Outs : \E m \in DOMAIN s[id].odeps[k] : p = <<id, k, m>>
      BY <1>2
    <3>2. CASE id = y /\ k = j
      <4>1. PICK m \in 1..n : p = <<y, j, m>>
        BY <1>4, <3>1, <3>2
      <4>2. m \in 1..n + 1
        BY <1>4
      <4> QED BY <1>3, <1>4, <4>1, <4>2
    <3>3. CASE id # y \/ k # j
      BY <1>3, <3>1, <3>3
    <3> QED BY <3>2, <3>3
  <2>3. new \in N
    <3>1. n + 1 \in 1..n + 1
      BY <1>4
    <3> QED BY <1>3, <1>4, <3>1
  <2> QED BY <2>1, <2>2, <2>3
<1>6. new \notin P
  <2>1. ASSUME new \in P PROVE FALSE
    <3>1. n + 1 \in 1..n
      BY <1>2, <1>4, <2>1
    <3> QED BY <1>4, <3>1
  <2> QED BY <2>1
<1> HIDE DEF new
<1>7. Cardinality(P \cup {new}) = Cardinality(P) + 1
  BY <1>2, <1>6, FS_AddElement
<1> QED BY <1>5, <1>7 DEF P, N

LEMMA LinkIdepIs ==
    ASSUME NEW s, s \in [Stations -> StationType], NEW id \in Stations, NEW c \in CvType, NEW k \in Ops,
           NEW C, C[k] = c
    PROVE  Linking(LinkIdep(s, id, c, k), s, id, C, IF c.rs = Null THEN 0 ELSE 1)
<1> DEFINE t == LinkIdep(s, id, c, k)
<1>1. CASE c.rs = Null
  <2>1. t = s
    BY <1>1 DEF LinkIdep
  <2>2. \A x \in Stations : \A j \in Outs : s[x].odeps[j] \in Seq(LinkType)
    BY DEF StationType
  <2>3. Cardinality(LinkPlaces(s, Stations)) \in Nat
    BY <2>2, PlacesFinite
  <2> HIDE DEF t
  <2>4. Linking(t, s, id, C, 0)
    BY <2>1, <2>3 DEF Linking, SameButLinks
  <2> QED BY <1>1, <2>4 DEF t
<1>2. CASE c.rs # Null
  <2> DEFINE y == c.rs
             j == c.odep
             l == LinkTo(s, id, k)
             old == s[y].odeps[j]
             new == <<l>> \o old
  <2>1. y \in Stations /\ j \in Outs /\ c = [rs |-> y, odep |-> j]
    BY <1>2 DEF CvType
  <2>2. l \in LinkType /\ l.rs = id /\ l.tag = s[id].tag /\ l.seq = s[id].seq
    <3>1. s[id].tag \in Nat /\ s[id].seq \in Nat /\ k \in Nat
      BY DEF StationType, Ops
    <3> QED BY <3>1, LinkToIs
  <2>3. old \in Seq(LinkType)
    BY <2>1 DEF StationType
  <2>4. t = [s EXCEPT ![y].odeps[j] = new]
    BY <1>2 DEF LinkIdep
  <2>5. new \in Seq(LinkType) /\ Len(new) = Len(old) + 1 /\ ToSet(new) \subseteq ToSet(old) \cup {l}
    <3> DEFINE a == <<l>>
    <3>1. a \in Seq(LinkType) /\ Len(a) = 1 /\ a[1] = l
      BY <2>2
    <3> HIDE DEF a, l, old
    <3>2. /\ a \o old \in Seq(LinkType) /\ Len(a \o old) = Len(a) + Len(old)
          /\ \A i \in 1..Len(a) + Len(old) : (a \o old)[i] = IF i <= Len(a) THEN a[i] ELSE old[i - Len(a)]
      BY <2>3, <3>1, ConcatProperties
    <3>3. Len(old) \in Nat /\ DOMAIN old = 1..Len(old) /\ DOMAIN (a \o old) = 1..Len(old) + 1
      <4>1. DOMAIN (a \o old) = 1..Len(a \o old)
        BY <3>2, LenProperties
      <4>2. Len(old) \in Nat /\ DOMAIN old = 1..Len(old)
        BY <2>3, LenProperties
      <4>3. Len(a) + Len(old) = Len(old) + 1
        BY <3>1, <4>2
      <4> QED BY <3>2, <4>1, <4>2, <4>3
    <3>4. ASSUME NEW i \in 1..Len(old) + 1 PROVE (a \o old)[i] \in ToSet(old) \cup {l}
      <4>1. CASE i = 1
        BY <3>1, <3>2, <3>3, <4>1
      <4>2. CASE i # 1
        <5>1. i - 1 \in 1..Len(old) /\ ~(i <= 1) /\ i \in 1..1 + Len(old)
          BY <3>3, <4>2
        <5>2. (a \o old)[i] = old[i - 1]
          BY <3>1, <3>2, <5>1
        <5> QED BY <2>3, <5>1, <5>2, SeqMembers
      <4> QED BY <4>1, <4>2
    <3>5. ToSet(a \o old) \subseteq ToSet(old) \cup {l}
      BY <3>3, <3>4 DEF ToSet
    <3>6. Len(a \o old) = Len(old) + 1
      BY <3>1, <3>2, <3>3
    <3> QED BY <3>2, <3>5, <3>6 DEF a
  <2> HIDE DEF new, l, old
  <2>6. ASSUME NEW x \in Stations
        PROVE  /\ t[x] \in StationType /\ SameButLinks(t[x], s[x])
               /\ \A i \in Outs : t[x].odeps[i] = IF x = y /\ i = j THEN new ELSE s[x].odeps[i]
    <3>1. s[x] \in StationType
      OBVIOUS
    <3>2. CASE x = y
      <4>1. t[x] = [s[x] EXCEPT !.odeps = [s[x].odeps EXCEPT ![j] = new]]
        BY <2>1, <2>4, <3>2
      <4>2. s[x].odeps \in [Outs -> Seq(LinkType)]
        BY <3>1 DEF StationType
      <4>3. [s[x].odeps EXCEPT ![j] = new] \in [Outs -> Seq(LinkType)]
        BY <2>1, <2>5, <4>2
      <4>4. t[x] \in StationType /\ t[x].odeps = [s[x].odeps EXCEPT ![j] = new]
        BY <3>1, <4>1, <4>3 DEF StationType
      <4>5. SameButLinks(t[x], s[x])
        BY <3>1, <4>1 DEF StationType, SameButLinks
      <4> QED BY <2>1, <3>2, <4>2, <4>4, <4>5
    <3>3. CASE x # y
      <4>1. t[x] = s[x]
        BY <2>1, <2>4, <3>3
      <4> QED BY <3>1, <3>3, <4>1 DEF SameButLinks
    <3> QED BY <3>2, <3>3
  <2>7. t \in [Stations -> StationType]
    <3>1. t = [x \in Stations |-> t[x]]
      BY <2>1, <2>4
    <3> QED BY <2>6, <3>1
  <2> HIDE DEF t, y, j
  <2>8. Cardinality(LinkPlaces(t, Stations)) = Cardinality(LinkPlaces(s, Stations)) + 1
    <3>1. Len(t[y].odeps[j]) = Len(s[y].odeps[j]) + 1
      BY <2>1, <2>5, <2>6 DEF old
    <3>2. \A x \in Stations : \A i \in Outs : x # y \/ i # j => t[x].odeps[i] = s[x].odeps[i]
      BY <2>6
    <3> QED BY <2>1, <2>7, <3>1, <3>2, LinkIdepPlaces
  <2>9. ASSUME NEW x \in Stations, NEW i \in Outs
        PROVE  /\ \A m \in ToSet(t[x].odeps[i]) :
                     m \in ToSet(s[x].odeps[i]) \/ (m.rs = id /\ m.tag = s[id].tag /\ m.seq = s[id].seq)
               /\ t[x].odeps[i] # << >> => s[x].odeps[i] # << >> \/ \E n \in Ops : C[n] = [rs |-> x, odep |-> i]
    <3>1. CASE x = y /\ i = j
      BY <2>1, <2>2, <2>5, <2>6, <3>1 DEF old
    <3>2. CASE ~(x = y /\ i = j)
      <4>1. t[x].odeps[i] = s[x].odeps[i]
        BY <2>6, <3>2
      <4> QED BY <4>1
    <3> QED BY <3>1, <3>2
  <2>10. Linking(t, s, id, C, 1)
    BY <2>6, <2>7, <2>8, <2>9 DEF Linking
  <2> QED BY <1>2, <2>10 DEF t
<1> QED BY <1>1, <1>2

LEMMA LinkingOn ==
    ASSUME NEW s, NEW t, NEW u, NEW id \in Stations, NEW C, NEW d, NEW e,
           Linking(t, s, id, C, d), Linking(u, t, id, C, e),
           s \in [Stations -> StationType]
    PROVE  Linking(u, s, id, C, d + e)
<1>1. u \in [Stations -> StationType] /\ \A x \in Stations : SameButLinks(u[x], s[x])
  BY DEF Linking, SameButLinks
<1>2. t[id].tag = s[id].tag /\ t[id].seq = s[id].seq
  BY DEF Linking, SameButLinks
<1>3. ASSUME NEW x \in Stations, NEW j \in Outs
      PROVE  /\ \A l \in ToSet(u[x].odeps[j]) :
                   l \in ToSet(s[x].odeps[j]) \/ (l.rs = id /\ l.tag = s[id].tag /\ l.seq = s[id].seq)
             /\ u[x].odeps[j] # << >> => s[x].odeps[j] # << >> \/ \E k \in Ops : C[k] = [rs |-> x, odep |-> j]
  BY <1>2 DEF Linking
<1>4. Cardinality(LinkPlaces(s, Stations)) \in Nat
  <2>1. \A x \in Stations : \A j \in Outs : s[x].odeps[j] \in Seq(LinkType)
    BY DEF StationType
  <2> QED BY <2>1, PlacesFinite
<1>5. d \in Nat /\ e \in Nat
      /\ Cardinality(LinkPlaces(t, Stations)) = Cardinality(LinkPlaces(s, Stations)) + d
      /\ Cardinality(LinkPlaces(u, Stations)) = Cardinality(LinkPlaces(t, Stations)) + e
  <2>1. d \in Nat /\ Cardinality(LinkPlaces(t, Stations)) = Cardinality(LinkPlaces(s, Stations)) + d
    BY Zenon DEF Linking
  <2>2. e \in Nat /\ Cardinality(LinkPlaces(u, Stations)) = Cardinality(LinkPlaces(t, Stations)) + e
    BY Zenon DEF Linking
  <2> QED BY <2>1, <2>2
<1>6. d + e \in Nat /\ Cardinality(LinkPlaces(u, Stations)) = Cardinality(LinkPlaces(s, Stations)) + (d + e)
  BY <1>4, <1>5
<1>7. /\ \A x \in Stations : \A j \in Outs : \A l \in ToSet(u[x].odeps[j]) :
            l \in ToSet(s[x].odeps[j]) \/ (l.rs = id /\ l.tag = s[id].tag /\ l.seq = s[id].seq)
      /\ \A x \in Stations : \A j \in Outs :
            u[x].odeps[j] # << >> => s[x].odeps[j] # << >> \/ \E k \in Ops : C[k] = [rs |-> x, odep |-> j]
  BY <1>3
<1> QED BY <1>1, <1>6, <1>7, Zenon DEF Linking

One(c) == IF c.rs = Null THEN 0 ELSE 1

LEMMA NewLinksIs ==
    ASSUME NEW C
    PROVE  NewLinks(C) = One(C[0]) + One(C[1]) + One(C[2])
<1> DEFINE A(k) == IF C[k].rs = Null THEN {} ELSE {k}
           S0 == {}
           S1 == S0 \cup A(0)
           S2 == S1 \cup A(1)
           S3 == S2 \cup A(2)
<1>1. ASSUME NEW S, IsFiniteSet(S), NEW k, k \notin S
      PROVE  IsFiniteSet(S \cup A(k)) /\ Cardinality(S \cup A(k)) = Cardinality(S) + One(C[k])
  <2>1. Cardinality(S) \in Nat
    BY <1>1, FS_CardinalityType
  <2>2. CASE C[k].rs = Null
    <3>1. S \cup A(k) = S /\ One(C[k]) = 0
      BY <2>2 DEF One
    <3>2. Cardinality(S) + One(C[k]) = Cardinality(S)
      BY <2>1, <3>1
    <3> HIDE DEF A
    <3> QED BY <1>1, <3>1, <3>2
  <2>3. CASE C[k].rs # Null
    <3>1. S \cup A(k) = S \cup {k} /\ One(C[k]) = 1
      BY <2>3 DEF One
    <3>2. IsFiniteSet(S \cup {k}) /\ Cardinality(S \cup {k}) = Cardinality(S) + 1
      BY <1>1, FS_AddElement
    <3> QED BY <3>1, <3>2
  <2> QED BY <2>2, <2>3
<1>2. IsFiniteSet(S0) /\ Cardinality(S0) = 0
  BY FS_EmptySet
<1>3. 0 \notin S0 /\ 1 \notin S1 /\ 2 \notin S2
  OBVIOUS
<1>4. S3 = {k \in Ops : C[k].rs # Null}
  BY DEF Ops
<1>5. \A k : One(C[k]) \in Nat
  BY DEF One
<1> HIDE DEF A, S0
<1>6. IsFiniteSet(S1) /\ Cardinality(S1) = Cardinality(S0) + One(C[0])
  BY <1>1, <1>2, <1>3
<1> HIDE DEF S1
<1>7. IsFiniteSet(S2) /\ Cardinality(S2) = Cardinality(S1) + One(C[1])
  BY <1>1, <1>3, <1>6
<1> HIDE DEF S2
<1>8. Cardinality(S3) = Cardinality(S2) + One(C[2])
  BY <1>1, <1>3, <1>7
<1> HIDE DEF S3
<1>9. Cardinality(S3) = One(C[0]) + One(C[1]) + One(C[2])
  BY <1>2, <1>5, <1>6, <1>7, <1>8
<1> QED BY <1>4, <1>9 DEF NewLinks

\* ruu_link_idep for the three operands.
LEMMA LinkedIs ==
    ASSUME NEW s, s \in [Stations -> StationType], NEW id \in Stations, NEW C, \A k \in Ops : C[k] \in CvType
    PROVE  Linking(Linked(s, id, C), s, id, C, NewLinks(C))
<1> DEFINE a == LinkIdep(s, id, C[0], 0)
           b == LinkIdep(a, id, C[1], 1)
           c == LinkIdep(b, id, C[2], 2)
<1>1. Linked(s, id, C) = c
  BY DEF Linked
<1>2. 0 \in Ops /\ 1 \in Ops /\ 2 \in Ops
  BY DEF Ops
<1>3. C[0] \in CvType /\ C[1] \in CvType /\ C[2] \in CvType
  BY <1>2
<1>4. ASSUME NEW t, t \in [Stations -> StationType], NEW k \in Ops
      PROVE  Linking(LinkIdep(t, id, C[k], k), t, id, C, One(C[k]))
  <2>1. C[k] \in CvType
    OBVIOUS
  <2> QED BY <1>4, <2>1, LinkIdepIs DEF One
<1> HIDE DEF a, b, c
<1>5. Linking(a, s, id, C, One(C[0]))
  BY <1>2, <1>4 DEF a
<1>6. Linking(b, a, id, C, One(C[1]))
  <2>1. a \in [Stations -> StationType]
    BY <1>5, Zenon DEF Linking
  <2>2. Linking(LinkIdep(a, id, C[1], 1), a, id, C, One(C[1]))
    BY <1>2, <1>4, <2>1
  <2> QED BY <2>2 DEF b
<1>7. Linking(c, b, id, C, One(C[2]))
  <2>1. b \in [Stations -> StationType]
    BY <1>6, Zenon DEF Linking
  <2>2. Linking(LinkIdep(b, id, C[2], 2), b, id, C, One(C[2]))
    BY <1>2, <1>4, <2>1
  <2> QED BY <2>2 DEF c
<1>8. a \in [Stations -> StationType]
  BY <1>5 DEF Linking
<1>9. Linking(b, s, id, C, One(C[0]) + One(C[1]))
  BY <1>5, <1>6, LinkingOn
<1>10. Linking(c, s, id, C, (One(C[0]) + One(C[1])) + One(C[2]))
  BY <1>7, <1>9, LinkingOn
<1> QED BY <1>1, <1>10, NewLinksIs

LEMMA MarkedKeeps ==
    ASSUME NEW s \in [Stations -> StationType], NEW ids, NEW t, t = s \/ t = MarkQueued(s, ids)
    PROVE  /\ t \in [Stations -> StationType]
           /\ \A x \in Stations : Kept(t[x], s[x]) /\ t[x].tag = s[x].tag
<1>1. CASE t = s
  BY <1>1 DEF Kept
<1>2. CASE t = MarkQueued(s, ids)
  <2>1. ASSUME NEW x \in Stations PROVE Kept(t[x], s[x]) /\ t[x].tag = s[x].tag
    <3>1. s[x] \in StationType
      OBVIOUS
    <3>2. t[x] = s[x] \/ t[x] = [s[x] EXCEPT !.queued = TRUE]
      BY <1>2 DEF MarkQueued
    <3> QED BY <3>1, <3>2 DEF StationType, Kept
  <2> QED BY <1>2, <2>1, Marked
<1> QED BY <1>1, <1>2

\* An entry without links takes the place of one without.
LEMMA FillIs ==
    ASSUME NEW s, s \in [Stations -> StationType], NEW id \in Stations, NEW a \in StationType,
           \A k \in Outs : a.odeps[k] = << >> /\ s[id].odeps[k] = << >>, NEW t, t = [s EXCEPT ![id] = a]
    PROVE  /\ t \in [Stations -> StationType] /\ t[id] = a
           /\ \A x \in Stations : x # id => t[x] = s[x]
           /\ \A x \in Stations : \A k \in Outs : t[x].odeps[k] = s[x].odeps[k]
           /\ LinkPlaces(t, Stations) = LinkPlaces(s, Stations)
<1>1. t \in [Stations -> StationType] /\ t[id] = a /\ \A x \in Stations : x # id => t[x] = s[x]
  OBVIOUS
<1>2. ASSUME NEW x \in Stations, NEW k \in Outs PROVE t[x].odeps[k] = s[x].odeps[k]
  BY <1>1
<1>3. \A x \in Stations : \A k \in Outs : {x} \X {k} \X DOMAIN t[x].odeps[k] = {x} \X {k} \X DOMAIN s[x].odeps[k]
  BY <1>2
<1>4. LinkPlaces(t, Stations) = LinkPlaces(s, Stations)
  BY <1>3 DEF LinkPlaces
<1> QED BY <1>1, <1>2, <1>4

\* What a station is filled in with.
Entry(a, id, kind, class, seq, outs) ==
    /\ a \in StationType /\ a.tag = st[id].tag /\ a.seq = seq /\ a.kind = kind /\ a.class = class
    /\ a.onames = outs /\ ~a.completed /\ (a.spec <=> spec_mode) /\ \A k \in Outs : a.odeps[k] = << >>

LEMMA FilledIs ==
    ASSUME RuuCore, NEW id \in Stations, id \notin Live, NEW i, i.addr \in Nat,
           NEW kind, kind \in {"op", "ctrl", "trap", "agen", "load", "store"},
           NEW class \in DOMAIN FuClass \cup {NA}, NEW first \in BOOLEAN, NEW mispredict \in BOOLEAN,
           NEW seq \in Nat, NEW cs, NEW deps \in [Ops -> Nat], NEW outs \in [Outs -> Regs \cup {DTMP, NA}],
           NEW a, a = Filled(id, i, kind, class, first, mispredict, seq, cs, deps, outs)
    PROVE  Entry(a, id, kind, class, seq, outs) /\ (a.recover <=> mispredict)
<1>1. st[id] \in StationType /\ spec_mode \in BOOLEAN
  BY DEF RuuCore, Typed
<1>2. \A k \in Outs : st[id].odeps[k] = << >>
  BY DEF RuuCore, ChainsSound
<1> DEFINE addr == IF kind = "agen" THEN 0 ELSE i.addr
           ready == [k \in Ops |-> cs[k].rs = Null]
           odeps == [k \in Outs |-> IF outs[k] = NA THEN st[id].odeps[k] ELSE << >>]
<1>3. addr \in Nat /\ ready \in [Ops -> BOOLEAN]
  OBVIOUS
<1>4. odeps \in [Outs -> Seq(LinkType)] /\ \A k \in Outs : odeps[k] = << >>
  <2>1. \A k \in Outs : odeps[k] = << >>
    BY <1>2
  <2>2. << >> \in Seq(LinkType)
    OBVIOUS
  <2> QED BY <2>1, <2>2
<1>5. a = [st[id] EXCEPT !.seq = seq, !.kind = kind, !.class = class, !.first = first,
                         !.recover = mispredict, !.spec = spec_mode, !.addr = addr,
                         !.queued = FALSE, !.issued = FALSE, !.completed = FALSE,
                         !.onames = outs, !.deps = deps, !.ready = ready, !.odeps = odeps]
  BY DEF Filled
<1> HIDE DEF addr, ready, odeps
<1>6. a \in StationType
  <2>1. a = [tag |-> st[id].tag, seq |-> seq, kind |-> kind, class |-> class, first |-> first,
             recover |-> mispredict, spec |-> spec_mode, addr |-> addr, queued |-> FALSE,
             issued |-> FALSE, completed |-> FALSE, onames |-> outs, odeps |-> odeps, ready |-> ready,
             deps |-> deps]
    BY <1>1, <1>5, ZenonT(60) DEF StationType
  <2>2. st[id].tag \in Nat /\ spec_mode \in BOOLEAN
    BY <1>1 DEF StationType
  <2>3. FALSE \in BOOLEAN
    OBVIOUS
  <2> QED BY <1>3, <1>4, <2>1, <2>2, <2>3, SMT DEF StationType
<1>7. /\ a.tag = st[id].tag /\ a.seq = seq /\ a.kind = kind /\ a.class = class /\ a.onames = outs
      /\ a.odeps = odeps
  BY <1>1, <1>5 DEF StationType
<1>8. ~a.completed
  BY <1>1, <1>5 DEF StationType
<1>9. a.spec = spec_mode
  BY <1>1, <1>5 DEF StationType
<1>10. a.recover = mispredict
  BY <1>1, <1>5 DEF StationType
<1> QED BY <1>4, <1>6, <1>7, <1>8, <1>9, <1>10 DEF Entry

\* Stations t are s with a put in at station id, and linked to its creators C.
Placed(t, s, id, a, C) ==
    /\ t \in [Stations -> StationType] /\ SameButLinks(t[id], a)
    /\ \A x \in Stations : x # id => SameButLinks(t[x], s[x])
    /\ \A x \in Stations : \A j \in Outs : \A l \in ToSet(t[x].odeps[j]) :
          l \in ToSet(s[x].odeps[j]) \/ (l.rs = id /\ l.tag = a.tag /\ l.seq = a.seq)
    /\ \A x \in Stations : \A j \in Outs :
          t[x].odeps[j] # << >> => s[x].odeps[j] # << >> \/ \E k \in Ops : C[k] = [rs |-> x, odep |-> j]
    /\ NewLinks(C) \in Nat
    /\ Cardinality(LinkPlaces(t, Stations)) = Cardinality(LinkPlaces(s, Stations)) + NewLinks(C)

LEMMA PlaceIs ==
    ASSUME NEW s, s \in [Stations -> StationType], NEW id \in Stations, NEW a \in StationType,
           \A k \in Outs : a.odeps[k] = << >> /\ s[id].odeps[k] = << >>, NEW C, \A k \in Ops : C[k] \in CvType,
           NEW t, t = Linked([s EXCEPT ![id] = a], id, C)
    PROVE  Placed(t, s, id, a, C)
<1> DEFINE u == [s EXCEPT ![id] = a]
<1>1. /\ u \in [Stations -> StationType] /\ u[id] = a
      /\ \A x \in Stations : x # id => u[x] = s[x]
      /\ \A x \in Stations : \A k \in Outs : u[x].odeps[k] = s[x].odeps[k]
      /\ LinkPlaces(u, Stations) = LinkPlaces(s, Stations)
  BY FillIs
<1>2. t = Linked(u, id, C)
  OBVIOUS
<1> HIDE DEF u
<1>3. Linking(t, u, id, C, NewLinks(C))
  BY <1>1, <1>2, LinkedIs
<1>4. /\ t \in [Stations -> StationType] /\ SameButLinks(t[id], a)
      /\ \A x \in Stations : x # id => SameButLinks(t[x], s[x])
  <2>1. t \in [Stations -> StationType] /\ \A x \in Stations : SameButLinks(t[x], u[x])
    BY <1>3 DEF Linking
  <2> QED BY <1>1, <2>1
<1>5. ASSUME NEW x \in Stations, NEW j \in Outs
      PROVE  /\ \A l \in ToSet(t[x].odeps[j]) :
                   l \in ToSet(s[x].odeps[j]) \/ (l.rs = id /\ l.tag = a.tag /\ l.seq = a.seq)
             /\ t[x].odeps[j] # << >> => s[x].odeps[j] # << >> \/ \E k \in Ops : C[k] = [rs |-> x, odep |-> j]
  <2>1. u[x].odeps[j] = s[x].odeps[j]
    BY <1>1
  <2>2. u[id].tag = a.tag /\ u[id].seq = a.seq
    BY <1>1
  <2>3. /\ \A l \in ToSet(t[x].odeps[j]) :
              l \in ToSet(u[x].odeps[j]) \/ (l.rs = id /\ l.tag = u[id].tag /\ l.seq = u[id].seq)
        /\ t[x].odeps[j] # << >> => u[x].odeps[j] # << >> \/ \E k \in Ops : C[k] = [rs |-> x, odep |-> j]
    BY <1>3 DEF Linking
  <2> QED BY <2>1, <2>2, <2>3
<1>6. NewLinks(C) \in Nat
      /\ Cardinality(LinkPlaces(t, Stations)) = Cardinality(LinkPlaces(s, Stations)) + NewLinks(C)
  BY <1>1, <1>3 DEF Linking
<1> QED BY <1>4, <1>5, <1>6 DEF Placed

\* The instruction is the same.
SameInstr(a, b) ==
    /\ a.tag = b.tag /\ a.seq = b.seq /\ a.kind = b.kind /\ a.class = b.class /\ a.recover = b.recover
    /\ a.spec = b.spec /\ a.onames = b.onames /\ a.completed = b.completed

\* The next free station of each queue.
LEMMA NextRuu ==
    ASSUME RuuCore, RUU_num < RUU_size, RUU_head' = RUU_head, RUU_tail' = (RUU_tail + 1) % RUU_size,
           RUU_num' = RUU_num + 1, NEW id, id = RuuAt(RUU_tail)
    PROVE  /\ id \in RuuIds /\ id \in Stations /\ id \notin Live
           /\ Ring(RUU_head, RUU_tail, RUU_num, RUU_size)'
           /\ \A k \in 1..RUU_num : RuuLive'[k] = RuuLive[k]
           /\ RuuLive'[RUU_num + 1] = id
<1>1. Ring(RUU_head, RUU_tail, RUU_num, RUU_size) /\ Rings
  BY DEF RuuCore, Rings
<1>2. /\ RuuLive = RingLine("RUU", RUU_head, RUU_num, RUU_size) /\ RuuIds = {"RUU"} \X (0..RUU_size - 1)
      /\ RuuIds \cap LsqIds = {} /\ Stations = RuuIds \cup LsqIds
  BY LiveIs
<1>3. PICK u, b : u = (RUU_tail + 1) % RUU_size /\ b = RUU_tail % RUU_size
  OBVIOUS
<1>4. id = <<"RUU", b>> /\ RUU_tail' = u
  BY <1>3 DEF RuuAt
<1>5. /\ Ring(RUU_head, u, RUU_num + 1, RUU_size)
      /\ b \in 0..RUU_size - 1 /\ \A k \in 1..RUU_num : RingLine("RUU", RUU_head, RUU_num, RUU_size)[k] # <<"RUU", b>>
      /\ \A k \in 1..RUU_num : RingLine("RUU", RUU_head, RUU_num + 1, RUU_size)[k] = RingLine("RUU", RUU_head, RUU_num, RUU_size)[k]
      /\ RingLine("RUU", RUU_head, RUU_num + 1, RUU_size)[RUU_num + 1] = <<"RUU", b>>
  BY <1>1, <1>3, LineAppend, LineNext
<1>6. id \in RuuIds /\ id \notin Live
  BY <1>1, <1>2, <1>4, <1>5, LiveLists
<1>7. RuuLive' = RingLine("RUU", RUU_head, RUU_num + 1, RUU_size)
  <2>1. RuuLive' = RingLine("RUU", RUU_head', RUU_num', RUU_size)
    BY DEF RuuLive, RingLine, RuuAt, Slot0
  <2> QED BY <2>1
<1>8. Ring(RUU_head, RUU_tail, RUU_num, RUU_size)'
  BY <1>4, <1>5
<1> QED BY <1>2, <1>3, <1>4, <1>5, <1>6, <1>7, <1>8

LEMMA NextLsq ==
    ASSUME RuuCore, LSQ_num < LSQ_size, LSQ_head' = LSQ_head, LSQ_tail' = (LSQ_tail + 1) % LSQ_size,
           LSQ_num' = LSQ_num + 1, NEW id, id = LsqAt(LSQ_tail)
    PROVE  /\ id \in LsqIds /\ id \in Stations /\ id \notin Live
           /\ Ring(LSQ_head, LSQ_tail, LSQ_num, LSQ_size)'
           /\ \A k \in 1..LSQ_num : LsqLive'[k] = LsqLive[k]
           /\ LsqLive'[LSQ_num + 1] = id
<1>1. Ring(LSQ_head, LSQ_tail, LSQ_num, LSQ_size) /\ Rings
  BY DEF RuuCore, Rings
<1>2. /\ LsqLive = RingLine("LSQ", LSQ_head, LSQ_num, LSQ_size) /\ LsqIds = {"LSQ"} \X (0..LSQ_size - 1)
      /\ RuuIds \cap LsqIds = {} /\ Stations = RuuIds \cup LsqIds
  BY LiveIs
<1>3. PICK u, b : u = (LSQ_tail + 1) % LSQ_size /\ b = LSQ_tail % LSQ_size
  OBVIOUS
<1>4. id = <<"LSQ", b>> /\ LSQ_tail' = u
  BY <1>3 DEF LsqAt
<1>5. /\ Ring(LSQ_head, u, LSQ_num + 1, LSQ_size)
      /\ b \in 0..LSQ_size - 1 /\ \A k \in 1..LSQ_num : RingLine("LSQ", LSQ_head, LSQ_num, LSQ_size)[k] # <<"LSQ", b>>
      /\ \A k \in 1..LSQ_num : RingLine("LSQ", LSQ_head, LSQ_num + 1, LSQ_size)[k] = RingLine("LSQ", LSQ_head, LSQ_num, LSQ_size)[k]
      /\ RingLine("LSQ", LSQ_head, LSQ_num + 1, LSQ_size)[LSQ_num + 1] = <<"LSQ", b>>
  BY <1>1, <1>3, LineAppend, LineNext
<1>6. id \in LsqIds /\ id \notin Live
  BY <1>1, <1>2, <1>4, <1>5, LiveLists
<1>7. LsqLive' = RingLine("LSQ", LSQ_head, LSQ_num + 1, LSQ_size)
  <2>1. LsqLive' = RingLine("LSQ", LSQ_head', LSQ_num', LSQ_size)
    BY DEF LsqLive, RingLine, LsqAt, Slot0
  <2> QED BY <2>1
<1>8. Ring(LSQ_head, LSQ_tail, LSQ_num, LSQ_size)'
  BY <1>4, <1>5
<1> QED BY <1>2, <1>3, <1>4, <1>5, <1>6, <1>7, <1>8

FreshLink(l, new) == l.rs \in new /\ l.tag = st'[l.rs].tag /\ l.seq = st'[l.rs].seq

\* The stations new have come into use, and links to them.
Entered(new) ==
    /\ new \subseteq Stations /\ new \cap Live = {} /\ Live' = Live \cup new /\ Rings'
    /\ st' \in [Stations -> StationType]
    /\ \A x \in Stations : x \notin new => SameInstr(st'[x], st[x])
    /\ \A x \in new : /\ st'[x].tag = st[x].tag /\ ~st'[x].completed /\ (st'[x].spec <=> spec_mode)
                      /\ st'[x].kind = "store" => /\ st'[x].class \in DOMAIN FuClass
                                                  /\ \A k \in Outs : st'[x].onames[k] = NA
                      /\ EaComp(st'[x]) \/ InLSQ(st'[x]) => ~st'[x].recover
    /\ \A x \in Stations : \A j \in Outs : \A l \in ToSet(st'[x].odeps[j]) :
          l \in ToSet(st[x].odeps[j]) \/ FreshLink(l, new)
    /\ \A x \in Stations : \A j \in Outs :
          st'[x].odeps[j] # << >> =>
              st[x].odeps[j] # << >> \/ (x \in Live' /\ ~st'[x].completed /\ st'[x].onames[j] # NA)

LEMMA EnteredLinks ==
    ASSUME RuuCore, NEW new, Entered(new), UNCHANGED <<event_queue, scan>>,
           \A l \in ToSet(ready_queue') : l \in ToSet(ready_queue) \/ FreshLink(l, new),
           last_op' = NullLink \/ FreshLink(last_op', new)
    PROVE  LinksGood'
<1>1. /\ new \subseteq Stations /\ new \cap Live = {} /\ Live' = Live \cup new /\ Rings'
      /\ st' \in [Stations -> StationType]
  BY DEF Entered
<1>2. Live' \subseteq Stations
  BY <1>1, LiveListsNext
<1>3. KeepsLinks
  <2>1. ASSUME NEW x \in Stations
        PROVE  st'[x].tag = st[x].tag /\ (x \in Live => x \in Live' /\ st'[x].seq = st[x].seq)
    <3>1. CASE x \in new
      <4>1. st'[x].tag = st[x].tag
        BY <3>1 DEF Entered
      <4> QED BY <1>1, <3>1, <4>1
    <3>2. CASE x \notin new
      <4>1. SameInstr(st'[x], st[x])
        BY <3>2 DEF Entered
      <4> QED BY <1>1, <4>1 DEF SameInstr
    <3> QED BY <3>1, <3>2
  <2> QED BY <2>1 DEF KeepsLinks
<1>4. ASSUME NEW l \in AllLinks'
      PROVE  OldLink(l) \/ (l.rs \in Live' /\ l.tag = st'[l.rs].tag /\ l.seq = st'[l.rs].seq)
  <2>1. ASSUME l \in AllLinks PROVE OldLink(l)
    BY <2>1 DEF OldLink, SameLink
  <2>2. ASSUME FreshLink(l, new) PROVE l.rs \in Live' /\ l.tag = st'[l.rs].tag /\ l.seq = st'[l.rs].seq
    BY <1>1, <2>2 DEF FreshLink
  <2>3. CASE l \in ToSet(ready_queue')
    BY <2>1, <2>2, <2>3, AllLinksAre
  <2>4. CASE l \in ToSet(event_queue') \/ l \in ToSet(scan')
    BY <2>1, <2>4, AllLinksAre
  <2>5. CASE l = last_op' /\ l # NullLink
    BY <2>2, <2>5
  <2>6. CASE \E id \in Stations : \E k \in Outs : l \in ToSet(st'[id].odeps[k])
    <3>1. PICK id \in Stations, k \in Outs : l \in ToSet(st'[id].odeps[k])
      BY <2>6
    <3>2. l \in ToSet(st[id].odeps[k]) \/ FreshLink(l, new)
      BY <3>1 DEF Entered
    <3> QED BY <2>1, <2>2, <3>2, AllLinksAre
  <2> QED BY <1>4, <2>3, <2>4, <2>5, <2>6, AllLinksAreNext
<1>5. \A id \in Stations : st'[id].tag \in Nat
  BY <1>1 DEF StationType
<1> QED BY <1>2, <1>3, <1>4, <1>5, LinksStep DEF RuuCore, OldLink

LEMMA EnteredChains ==
    ASSUME RuuCore, NEW new, Entered(new)
    PROVE  ChainsSound' /\ KindsSound'
<1>1. new \cap Live = {} /\ Live' = Live \cup new
  BY DEF Entered
<1>2. ASSUME NEW x \in Stations, NEW k \in Outs, st'[x].odeps[k] # << >>
      PROVE  x \in Live' /\ ~st'[x].completed /\ st'[x].onames[k] # NA
  <2>1. CASE st[x].odeps[k] # << >>
    <3>1. x \in Live /\ ~st[x].completed /\ st[x].onames[k] # NA
      BY <2>1 DEF RuuCore, ChainsSound
    <3>2. SameInstr(st'[x], st[x])
      BY <1>1, <3>1 DEF Entered
    <3> QED BY <1>1, <3>1, <3>2 DEF SameInstr
  <2>2. CASE x \in Live' /\ ~st'[x].completed /\ st'[x].onames[k] # NA
    BY <2>2
  <2> QED BY <1>2, <2>1, <2>2 DEF Entered
<1>3. ChainsSound'
  BY <1>2 DEF ChainsSound
<1>4. ASSUME NEW x \in Stations
      PROVE  /\ st'[x].kind = "store" => /\ st'[x].class \in DOMAIN FuClass
                                         /\ \A k \in Outs : st'[x].onames[k] = NA
             /\ EaComp(st'[x]) \/ InLSQ(st'[x]) => ~st'[x].recover
  <2>1. CASE x \in new
    BY <2>1 DEF Entered
  <2>2. CASE x \notin new
    <3>1. SameInstr(st'[x], st[x])
      BY <2>2 DEF Entered
    <3> QED BY <3>1 DEF SameInstr, RuuCore, KindsSound, EaComp, InLSQ
  <2> QED BY <2>1, <2>2
<1> QED BY <1>3, <1>4 DEF KindsSound, EaComp, InLSQ

\* An entry names one of the new stations as what creates r.
NamesNew(e, r, new) == e.rs \in new /\ st'[e.rs].onames[e.odep] = r

VectorsEntered(new) ==
    /\ \A r \in Regs \cup {DTMP} :
          create_vector'[r] = create_vector[r] \/ (~spec_mode /\ NamesNew(create_vector'[r], r, new))
    /\ \A r \in use_spec_cv' :
          \/ r \in use_spec_cv /\ spec_create_vector'[r] = spec_create_vector[r]
          \/ spec_mode /\ NamesNew(spec_create_vector'[r], r, new)

LEMMA EnteredVectors ==
    ASSUME RuuCore, NEW new, Entered(new), VectorsEntered(new)
    PROVE  VectorsSound'
<1>1. new \cap Live = {} /\ Live' = Live \cup new /\ new \subseteq Stations /\ Live \subseteq Stations
  BY LiveLists DEF Entered, RuuCore
<1>2. ASSUME NEW e, NEW r, Names(e, r)
      PROVE  Names(e, r)' /\ (e.rs # Null => (st'[e.rs].spec <=> st[e.rs].spec))
  <2> SUFFICES ASSUME e.rs # Null PROVE Names(e, r)' /\ (st'[e.rs].spec <=> st[e.rs].spec)
    BY DEF Names
  <2>1. e.rs \in Live /\ ~st[e.rs].completed /\ st[e.rs].onames[e.odep] = r
    BY <1>2 DEF Names
  <2>2. SameInstr(st'[e.rs], st[e.rs])
    BY <1>1, <2>1 DEF Entered
  <2> QED BY <1>1, <2>1, <2>2 DEF Names, SameInstr
<1>3. ASSUME NEW e, NEW r, NamesNew(e, r, new)
      PROVE  Names(e, r)' /\ (st'[e.rs].spec <=> spec_mode)
  <2>1. e.rs \in new /\ st'[e.rs].onames[e.odep] = r
    BY <1>3 DEF NamesNew
  <2>2. ~st'[e.rs].completed /\ (st'[e.rs].spec <=> spec_mode)
    BY <2>1 DEF Entered
  <2> QED BY <1>1, <2>1, <2>2 DEF Names
<1>4. ASSUME NEW r \in Regs \cup {DTMP}, NEW e, e = create_vector'[r]
      PROVE  Names(e, r)' /\ (e.rs # Null => ~st'[e.rs].spec)
  <2>1. Names(create_vector[r], r) /\ (create_vector[r].rs # Null => ~st[create_vector[r].rs].spec)
    BY DEF RuuCore, VectorsSound
  <2>2. CASE e = create_vector[r]
    BY <1>2, <2>1, <2>2
  <2>3. CASE ~spec_mode /\ NamesNew(e, r, new)
    BY <1>3, <2>3
  <2> QED BY <1>4, <2>2, <2>3 DEF VectorsEntered
<1>5. ASSUME NEW r \in use_spec_cv', NEW e, e = spec_create_vector'[r]
      PROVE  Names(e, r)' /\ (e.rs # Null => st'[e.rs].spec)
  <2>1. CASE r \in use_spec_cv /\ e = spec_create_vector[r]
    <3>1. Names(spec_create_vector[r], r) /\ (spec_create_vector[r].rs # Null => st[spec_create_vector[r].rs].spec)
      BY <2>1 DEF RuuCore, VectorsSound
    <3> QED BY <1>2, <2>1, <3>1
  <2>2. CASE spec_mode /\ NamesNew(e, r, new)
    BY <1>3, <2>2
  <2> QED BY <1>5, <2>1, <2>2 DEF VectorsEntered
<1> QED BY <1>4, <1>5 DEF VectorsSound, Names

\* A dispatch puts at most one link on the ready queue.
LEMMA EnqueueOne ==
    ASSUME NEW q \in Seq(LinkType), NEW s \in [Stations -> StationType], NEW id \in Stations
    PROVE  /\ EnqueueAll(s, q, <<id>>) \in Seq(LinkType) /\ Len(EnqueueAll(s, q, <<id>>)) = Len(q) + 1
           /\ \A l \in ToSet(EnqueueAll(s, q, <<id>>)) : l \in ToSet(q) \/ l = LinkTo(s, id, 0)
<1> DEFINE ids == <<id>>
<1>1. Len(ids) = 1 /\ ids[1] = id /\ Len(ids) \in Nat
  OBVIOUS
<1>2. LinkTo(s, id, 0) \in LinkType
  <2>1. s[id].tag \in Nat /\ s[id].seq \in Nat /\ 0 \in Nat
    BY DEF StationType
  <2> QED BY <2>1, LinkToIs
<1> HIDE DEF ids
<1>3. \A n \in 1..Len(ids) : LinkTo(s, ids[n], 0) \in LinkType /\ LinkTo(s, ids[n], 0) = LinkTo(s, id, 0)
  BY <1>1, <1>2
<1>4. /\ EnqueueAll(s, q, ids) \in Seq(LinkType)
      /\ Len(EnqueueAll(s, q, ids)) = Len(q) + Len(ids)
      /\ ToSet(EnqueueAll(s, q, ids)) = ToSet(q) \cup {LinkTo(s, ids[n], 0) : n \in 1..Len(ids)}
  BY <1>1, <1>3, EnqueueAllIs
<1>5. \A l \in ToSet(EnqueueAll(s, q, ids)) : l \in ToSet(q) \/ l = LinkTo(s, id, 0)
  BY <1>3, <1>4
<1> QED BY <1>1, <1>4, <1>5 DEF ids

\* The end of a dispatch: t are the stations, c the links to creators, and id may be queued.
Scheduled(t, id, c) ==
    /\ st' = t \/ st' = MarkQueued(t, <<id>>)
    /\ \/ ready_queue' = ready_queue /\ rslinks' = rslinks - c
       \/ ready_queue' = EnqueueAll(t, ready_queue, <<id>>) /\ rslinks' = rslinks - c - 1
    /\ NoPanic' => ~(rslinks' < 0)

Creators(i) == [k \in Ops |-> Creator(i.ins[k])]

OpDispatched(i, m, id, a, t) ==
    /\ RUU_num < RUU_size /\ id = RuuAt(RUU_tail) /\ (m => i.kind = "ctrl" /\ ~spec_mode)
    /\ i.kind \in {"op", "ctrl", "trap"}
    /\ a = Filled(id, i, i.kind, i.class, i.first, m, inst_seq + 1, Creators(i),
                  [k \in Ops |-> Producer(i.ins[k])], i.outs)
    /\ t = Linked([st EXCEPT ![id] = a], id, Creators(i))
    /\ Scheduled(t, id, NewLinks(Creators(i)))
    /\ last_op' = NullLink \/ last_op' = LinkTo(t, id, 0)
    /\ InstallAll(id, i.outs)
    /\ RUU_tail' = (RUU_tail + 1) % RUU_size /\ RUU_num' = RUU_num + 1
    /\ inst_seq + 2 <= MaxInsts /\ inst_seq' = inst_seq + 1 /\ count' = count + 1
    /\ spec_mode' = (spec_mode \/ m)
    /\ UNCHANGED <<RUU_head, LSQ_head, LSQ_tail, LSQ_num, event_queue, busy, stage, scan>>

LEMMA OpDispatchedIs ==
    ASSUME RuuCore, NEW i, NEW m, DispatchOp(i, m)
    PROVE  \E id, a, t : OpDispatched(i, m, id, a, t)
<1> DEFINE id == RuuAt(RUU_tail)
           cs == [k \in Ops |-> Creator(i.ins[k])]
           deps == [k \in Ops |-> Producer(i.ins[k])]
           a == Filled(id, i, i.kind, i.class, i.first, m, inst_seq + 1, cs, deps, i.outs)
           t == Linked([st EXCEPT ![id] = a], id, cs)
           ready == OperandsReady(t[id])
<1>1. /\ st' = (IF ready THEN MarkQueued(t, <<id>>) ELSE t)
      /\ ready_queue' = (IF ready THEN EnqueueAll(t, ready_queue, <<id>>) ELSE ready_queue)
      /\ rslinks' = rslinks - NewLinks(cs) - (IF ready THEN 1 ELSE 0)
      /\ last_op' = (IF ready THEN NullLink ELSE LinkTo(t, id, 0))
      /\ InstallAll(id, i.outs)
  BY DEF DispatchOp
<1>2. NoPanic' => ~(rslinks' < 0)
  BY DEF DispatchOp, NoPanic
<1>3. /\ RUU_num < RUU_size /\ (m => i.kind = "ctrl" /\ ~spec_mode) /\ i.kind \in {"op", "ctrl", "trap"}
      /\ RUU_tail' = (RUU_tail + 1) % RUU_size /\ RUU_num' = RUU_num + 1
      /\ inst_seq + 2 <= MaxInsts /\ inst_seq' = inst_seq + 1 /\ count' = count + 1
      /\ spec_mode' = (spec_mode \/ m)
      /\ UNCHANGED <<RUU_head, LSQ_head, LSQ_tail, LSQ_num, event_queue, busy, stage, scan>>
  BY DEF DispatchOp, MayDispatch
<1>4. a = Filled(id, i, i.kind, i.class, i.first, m, inst_seq + 1, Creators(i), deps, i.outs) /\ cs = Creators(i)
  BY DEF Creators
<1> HIDE DEF a, t, ready, id
<1>5. Scheduled(t, id, NewLinks(cs))
  <2>1. rslinks - NewLinks(cs) - 0 = rslinks - NewLinks(cs)
    <3>1. rslinks \in Nat
      BY DEF RuuCore, Typed
    <3>2. NewLinks(cs) \in Int
      BY NewLinksIs DEF One
    <3> QED BY <3>1, <3>2
  <2> QED BY <1>1, <1>2, <2>1 DEF Scheduled
<1>6. t = Linked([st EXCEPT ![id] = a], id, Creators(i))
  BY <1>4 DEF t
<1>7. OpDispatched(i, m, id, a, t)
  <2>1. last_op' = NullLink \/ last_op' = LinkTo(t, id, 0)
    BY <1>1
  <2> QED BY <1>1, <1>3, <1>4, <1>5, <1>6, <2>1 DEF OpDispatched, id
<1> QED BY <1>7

LEMMA CreatorsAre ==
    ASSUME RuuCore, NEW i, i.ins \in [Ops -> Regs \cup {NA}]
    PROVE  \A k \in Ops : /\ Creators(i)[k] \in CvType
                          /\ \A x, j : Creators(i)[k] = [rs |-> x, odep |-> j] /\ x \in Stations =>
                                x \in Live /\ ~st[x].completed /\ st[x].onames[j] # NA
<1> SUFFICES ASSUME NEW k \in Ops
             PROVE  /\ Creators(i)[k] \in CvType
                    /\ \A x, j : Creators(i)[k] = [rs |-> x, odep |-> j] /\ x \in Stations =>
                          x \in Live /\ ~st[x].completed /\ st[x].onames[j] # NA
  OBVIOUS
<1>1. PICK r \in Regs \cup {NA} : r = i.ins[k]
  OBVIOUS
<1>2. PICK c : c = Creator(r) /\ c = Creators(i)[k]
  BY <1>1 DEF Creators
<1>3. c \in CvType /\ (c.rs # Null => c.rs \in Live /\ ~st[c.rs].completed /\ st[c.rs].onames[c.odep] # NA)
  BY <1>2, CreatorIs
<1>4. Null \notin Stations
  BY LiveIs
<1> QED BY <1>2, <1>3, <1>4

\* What the fetch unit offers.
LEMMA OfferedIs ==
    ASSUME RuuCore, NEW i \in program
    PROVE  /\ i.class \in DOMAIN FuClass \cup {NA} /\ i.agen \in DOMAIN FuClass \cup {NA} /\ i.first \in BOOLEAN
           /\ i.outs \in [Outs -> Regs \cup {NA}] /\ i.ins \in [Ops -> Regs \cup {NA}] /\ i.addr \in Nat
           /\ i.kind = "store" => i.class \in DOMAIN FuClass /\ \A k \in Outs : i.outs[k] = NA
<1>1. program \in Programs
  BY DEF RuuCore, Typed
<1>2. /\ i.kind = "store" => i.class # NA /\ \A k \in Outs : i.outs[k] = NA
      /\ {i.class, i.agen} \subseteq DOMAIN FuClass \cup {NA} /\ i.first \in BOOLEAN
      /\ i.outs \in [Outs -> Regs \cup {NA}] /\ i.ins \in [Ops -> Regs \cup {NA}] /\ i.addr \in Nat
  BY <1>1, ProgramsAssumption
<1> QED BY <1>2

\* An instruction's entry, and the stations it is put among.
LEMMA OpPlaced ==
    ASSUME RuuCore, NEW i \in program, NEW m \in BOOLEAN, NEW id, NEW a, NEW t, OpDispatched(i, m, id, a, t)
    PROVE  /\ id \in RuuIds /\ id \in Stations /\ id \notin Live
           /\ Ring(RUU_head, RUU_tail, RUU_num, RUU_size)'
           /\ \A k \in 1..RUU_num : RuuLive'[k] = RuuLive[k]
           /\ RuuLive'[RUU_num + 1] = id /\ LsqLive' = LsqLive /\ Rings'
           /\ Live' = Live \cup {id}
           /\ Entry(a, id, i.kind, i.class, inst_seq + 1, i.outs) /\ (a.recover <=> m)
           /\ Placed(t, st, id, a, Creators(i))
<1>1. /\ RUU_num < RUU_size /\ id = RuuAt(RUU_tail) /\ i.kind \in {"op", "ctrl", "trap"}
      /\ a = Filled(id, i, i.kind, i.class, i.first, m, inst_seq + 1, Creators(i),
                    [k \in Ops |-> Producer(i.ins[k])], i.outs)
      /\ t = Linked([st EXCEPT ![id] = a], id, Creators(i))
      /\ RUU_tail' = (RUU_tail + 1) % RUU_size /\ RUU_num' = RUU_num + 1
      /\ UNCHANGED <<RUU_head, LSQ_head, LSQ_tail, LSQ_num>>
  BY DEF OpDispatched
<1>2. /\ id \in RuuIds /\ id \in Stations /\ id \notin Live
      /\ Ring(RUU_head, RUU_tail, RUU_num, RUU_size)'
      /\ \A k \in 1..RUU_num : RuuLive'[k] = RuuLive[k]
      /\ RuuLive'[RUU_num + 1] = id
  BY <1>1, NextRuu
<1>3. LsqLive' = LsqLive
  BY <1>1 DEF LsqLive, LsqAt
<1>4. Rings'
  BY <1>1, <1>2 DEF RuuCore, Rings, Ring
<1>5. Live' = Live \cup {id}
  <2>1. RUU_num \in Nat /\ LSQ_num' = LSQ_num
    BY <1>1 DEF RuuCore, Rings, Ring
  <2>2. \A x : x \in Live' <=> (\E k \in 1..RUU_num + 1 : x = RuuLive'[k]) \/ (\E k \in 1..LSQ_num : x = LsqLive[k])
    BY <1>1, <1>3, <1>4, LiveListsNext
  <2>3. \A x : x \in Live <=> (\E k \in 1..RUU_num : x = RuuLive[k]) \/ (\E k \in 1..LSQ_num : x = LsqLive[k])
    BY LiveLists DEF RuuCore
  <2>4. \A k : k \in 1..RUU_num + 1 <=> k \in 1..RUU_num \/ k = RUU_num + 1
    BY <2>1
  <2>5. \A x : x \in Live' <=> x \in Live \/ x = id
    BY <1>2, <2>2, <2>3, <2>4
  <2> QED BY <2>5
<1>6. /\ i.class \in DOMAIN FuClass \cup {NA} /\ i.first \in BOOLEAN
      /\ i.outs \in [Outs -> Regs \cup {NA}] /\ i.ins \in [Ops -> Regs \cup {NA}] /\ i.addr \in Nat
  BY OfferedIs
<1>7. Entry(a, id, i.kind, i.class, inst_seq + 1, i.outs) /\ (a.recover <=> m)
  <2> DEFINE deps == [k \in Ops |-> Producer(i.ins[k])]
  <2>1. deps \in [Ops -> Nat]
    BY ProducerIs
  <2>2. inst_seq + 1 \in Nat
    BY DEF RuuCore, Typed
  <2>3. i.outs \in [Outs -> Regs \cup {DTMP, NA}]
    BY <1>6
  <2>4. i.kind \in {"op", "ctrl", "trap", "agen", "load", "store"}
    BY <1>1
  <2>5. a = Filled(id, i, i.kind, i.class, i.first, m, inst_seq + 1, Creators(i), deps, i.outs)
    BY <1>1
  <2> HIDE DEF deps
  <2>6. PICK first \in BOOLEAN : first = i.first
    BY <1>6
  <2>7. a = Filled(id, i, i.kind, i.class, first, m, inst_seq + 1, Creators(i), deps, i.outs)
    BY <2>5, <2>6
  <2> QED BY <1>2, <1>6, <2>1, <2>2, <2>3, <2>4, <2>7, FilledIs
<1>8. Placed(t, st, id, a, Creators(i))
  <2>1. \A k \in Ops : Creators(i)[k] \in CvType
    BY <1>6, CreatorsAre
  <2>2. a \in StationType /\ \A k \in Outs : a.odeps[k] = << >>
    BY <1>7 DEF Entry
  <2>3. \A k \in Outs : st[id].odeps[k] = << >>
    BY <1>2 DEF RuuCore, ChainsSound
  <2>4. st \in [Stations -> StationType]
    BY DEF RuuCore, Typed
  <2>5. \A k \in Outs : a.odeps[k] = << >> /\ st[id].odeps[k] = << >>
    BY <2>2, <2>3
  <2> QED BY <1>1, <1>2, <2>1, <2>2, <2>4, <2>5, PlaceIs
<1> QED BY <1>2, <1>3, <1>4, <1>5, <1>7, <1>8

LEMMA ScheduledIs ==
    ASSUME RuuCore, NEW t \in [Stations -> StationType], NEW id \in Stations, NEW c \in Nat,
           Scheduled(t, id, c), NoPanic', UNCHANGED <<event_queue, scan>>,
           Cardinality(LinkPlaces(t, Stations)) = LinksOf(Stations) + c
    PROVE  /\ st' \in [Stations -> StationType]
           /\ \A x \in Stations : Kept(st'[x], t[x]) /\ st'[x].tag = t[x].tag
           /\ ready_queue' \in Seq(LinkType) /\ rslinks' \in Nat /\ LinksConserved'
           /\ \A l \in ToSet(ready_queue') :
                 l \in ToSet(ready_queue) \/ (l.rs = id /\ l.tag = st'[id].tag /\ l.seq = st'[id].seq)
<1>1. st' \in [Stations -> StationType] /\ \A x \in Stations : Kept(st'[x], t[x]) /\ st'[x].tag = t[x].tag
  <2>1. PICK ids : st' = t \/ st' = MarkQueued(t, ids)
    BY DEF Scheduled
  <2> QED BY <2>1, MarkedKeeps
<1>2. \A x \in Stations : \A k \in Outs : {x} \X {k} \X DOMAIN st'[x].odeps[k] = {x} \X {k} \X DOMAIN t[x].odeps[k]
  BY <1>1 DEF Kept
<1>3. LinkPlaces(st', Stations) = LinkPlaces(t, Stations)
  BY <1>2 DEF LinkPlaces
<1>4. LinksOf(Stations)' = LinksOf(Stations) + c
  BY <1>3 DEF LinksOf
<1>5. /\ ready_queue \in Seq(LinkType) /\ Len(ready_queue) \in Nat /\ Len(event_queue) \in Nat /\ Len(scan) \in Nat
      /\ rslinks \in Nat /\ LinksOf(Stations) \in Nat
  BY CoreLists, CountsTyped DEF RuuCore
<1>6. /\ EnqueueAll(t, ready_queue, <<id>>) \in Seq(LinkType)
      /\ Len(EnqueueAll(t, ready_queue, <<id>>)) = Len(ready_queue) + 1
      /\ \A l \in ToSet(EnqueueAll(t, ready_queue, <<id>>)) : l \in ToSet(ready_queue) \/ l = LinkTo(t, id, 0)
  BY <1>5, EnqueueOne
<1>7. LinkTo(t, id, 0).rs = id /\ LinkTo(t, id, 0).tag = st'[id].tag /\ LinkTo(t, id, 0).seq = st'[id].seq
  <2>1. t[id].tag \in Nat /\ t[id].seq \in Nat /\ 0 \in Nat
    BY DEF StationType
  <2> QED BY <1>1, <2>1, LinkToIs DEF Kept
<1>8. \A l \in ToSet(ready_queue') :
         l \in ToSet(ready_queue) \/ (l.rs = id /\ l.tag = st'[id].tag /\ l.seq = st'[id].seq)
  BY <1>6, <1>7 DEF Scheduled
<1>9. PICK d \in {0, 1} : Len(ready_queue') = Len(ready_queue) + d /\ rslinks' = rslinks - c - d
  <2>1. CASE ready_queue' = ready_queue /\ rslinks' = rslinks - c
    BY <1>5, <2>1
  <2>2. CASE ready_queue' = EnqueueAll(t, ready_queue, <<id>>) /\ rslinks' = rslinks - c - 1
    BY <1>6, <2>2
  <2> QED BY <2>1, <2>2 DEF Scheduled
<1>10. ready_queue' \in Seq(LinkType)
  BY <1>5, <1>6 DEF Scheduled
<1>11. rslinks' \in Nat
  <2>1. ~(rslinks' < 0)
    BY DEF Scheduled
  <2> QED BY <1>5, <1>9, <2>1
<1>12. rslinks + Len(ready_queue) + Len(event_queue) + Len(scan) + LinksOf(Stations) = NumLinks
  BY DEF RuuCore, LinksConserved
<1>13. rslinks' + Len(ready_queue') + Len(event_queue) + Len(scan) + (LinksOf(Stations) + c) = NumLinks
  BY <1>5, <1>9, <1>12
<1>14. LinksConserved'
  BY <1>4, <1>13 DEF LinksConserved
<1> QED BY <1>1, <1>8, <1>10, <1>11, <1>14

LEMMA OpEntered ==
    ASSUME RuuCore, NEW i \in program, NEW m \in BOOLEAN, NEW id, NEW a, NEW t, OpDispatched(i, m, id, a, t), NoPanic'
    PROVE  /\ Entered({id}) /\ LinksGood' /\ LinksConserved' /\ rslinks' \in Nat
           /\ ready_queue' \in Seq(LinkType) /\ last_op' \in LinkType
           /\ st'[id].kind = i.kind /\ st'[id].seq = inst_seq + 1 /\ st'[id].onames = i.outs
           /\ (st'[id].recover <=> m) /\ (st'[id].spec <=> spec_mode) /\ ~st'[id].completed
<1>1. /\ id \in Stations /\ id \notin Live /\ Rings' /\ Live' = Live \cup {id}
      /\ Entry(a, id, i.kind, i.class, inst_seq + 1, i.outs) /\ (a.recover <=> m)
      /\ Placed(t, st, id, a, Creators(i))
  BY OpPlaced
<1>2. /\ Scheduled(t, id, NewLinks(Creators(i))) /\ UNCHANGED <<event_queue, scan>>
      /\ last_op' = NullLink \/ last_op' = LinkTo(t, id, 0)
      /\ i.kind \in {"op", "ctrl", "trap"}
  BY DEF OpDispatched
<1>3. /\ t \in [Stations -> StationType] /\ NewLinks(Creators(i)) \in Nat
      /\ Cardinality(LinkPlaces(t, Stations)) = LinksOf(Stations) + NewLinks(Creators(i))
  BY <1>1 DEF Placed, LinksOf
<1>4. /\ st' \in [Stations -> StationType]
      /\ \A x \in Stations : Kept(st'[x], t[x]) /\ st'[x].tag = t[x].tag
      /\ ready_queue' \in Seq(LinkType) /\ rslinks' \in Nat /\ LinksConserved'
      /\ \A l \in ToSet(ready_queue') :
            l \in ToSet(ready_queue) \/ (l.rs = id /\ l.tag = st'[id].tag /\ l.seq = st'[id].seq)
  BY <1>1, <1>2, <1>3, ScheduledIs
<1>5. SameButLinks(t[id], a) /\ \A x \in Stations : x # id => SameButLinks(t[x], st[x])
  BY <1>1 DEF Placed
<1>6. /\ st'[id].kind = i.kind /\ st'[id].seq = inst_seq + 1 /\ st'[id].onames = i.outs
      /\ st'[id].tag = st[id].tag /\ st'[id].tag = a.tag /\ st'[id].seq = a.seq
      /\ (st'[id].recover <=> m) /\ (st'[id].spec <=> spec_mode) /\ ~st'[id].completed
  <2>1. Kept(st'[id], t[id]) /\ st'[id].tag = t[id].tag
    BY <1>1, <1>4
  <2> QED BY <1>1, <1>5, <2>1 DEF Entry, SameButLinks, Kept
<1>7. ASSUME NEW x \in Stations, x # id PROVE SameInstr(st'[x], st[x])
  <2>1. Kept(st'[x], t[x]) /\ st'[x].tag = t[x].tag /\ SameButLinks(t[x], st[x])
    BY <1>4, <1>5, <1>7
  <2> QED BY <2>1 DEF SameButLinks, Kept, SameInstr
<1>8. ASSUME NEW x \in Stations, NEW j \in Outs
      PROVE  /\ \A l \in ToSet(st'[x].odeps[j]) : l \in ToSet(st[x].odeps[j]) \/ FreshLink(l, {id})
             /\ st'[x].odeps[j] # << >> =>
                   st[x].odeps[j] # << >> \/ (x \in Live' /\ ~st'[x].completed /\ st'[x].onames[j] # NA)
  <2>1. st'[x].odeps[j] = t[x].odeps[j]
    BY <1>4 DEF Kept
  <2>2. \A l \in ToSet(t[x].odeps[j]) : l \in ToSet(st[x].odeps[j]) \/ (l.rs = id /\ l.tag = a.tag /\ l.seq = a.seq)
    BY <1>1 DEF Placed
  <2>3. t[x].odeps[j] # << >> => st[x].odeps[j] # << >> \/ \E k \in Ops : Creators(i)[k] = [rs |-> x, odep |-> j]
    BY <1>1 DEF Placed
  <2>4. ASSUME NEW k \in Ops, Creators(i)[k] = [rs |-> x, odep |-> j]
        PROVE  x \in Live' /\ ~st'[x].completed /\ st'[x].onames[j] # NA
    <3>1. x \in Live /\ ~st[x].completed /\ st[x].onames[j] # NA
      BY <2>4, CreatorsAre, OfferedIs
    <3>2. SameInstr(st'[x], st[x])
      BY <1>1, <1>7, <3>1
    <3> QED BY <1>1, <3>1, <3>2 DEF SameInstr
  <2> QED BY <1>6, <2>1, <2>2, <2>3, <2>4 DEF FreshLink
<1>9. Entered({id})
  <2>1. st'[id].kind # "store" /\ ~EaComp(st'[id]) /\ ~InLSQ(st'[id])
    BY <1>2, <1>6 DEF EaComp, InLSQ
  <2> QED BY <1>1, <1>4, <1>6, <1>7, <1>8, <2>1 DEF Entered
<1>10. last_op' \in LinkType /\ (last_op' = NullLink \/ FreshLink(last_op', {id}))
  <2>1. NullLink \in LinkType
    BY DEF NullLink, LinkType
  <2>2. t[id].tag \in Nat /\ t[id].seq \in Nat /\ 0 \in Nat
    BY <1>1, <1>3 DEF StationType
  <2>3. LinkTo(t, id, 0) \in LinkType /\ LinkTo(t, id, 0).rs = id /\ LinkTo(t, id, 0).tag = t[id].tag /\ LinkTo(t, id, 0).seq = t[id].seq
    BY <1>1, <2>2, LinkToIs
  <2>4. t[id].tag = st'[id].tag /\ t[id].seq = st'[id].seq
    BY <1>1, <1>4 DEF Kept
  <2> QED BY <1>2, <2>1, <2>3, <2>4 DEF FreshLink
<1>11. LinksGood'
  <2>1. \A l \in ToSet(ready_queue') : l \in ToSet(ready_queue) \/ FreshLink(l, {id})
    BY <1>4 DEF FreshLink
  <2> QED BY <1>2, <1>9, <1>10, <2>1, EnteredLinks
<1> QED BY <1>4, <1>6, <1>9, <1>10, <1>11

Registers == Regs \cup {DTMP}

LEMMA InstallIs ==
    ASSUME NEW cv \in [Registers -> CvType], NEW id \in Stations, NEW outs
    PROVE  /\ Install(cv, id, outs) \in [Registers -> CvType]
           /\ \A r \in Registers :
                 \/ Install(cv, id, outs)[r] = cv[r] /\ r # outs[0] /\ r # outs[1]
                 \/ Install(cv, id, outs)[r].rs = id /\ outs[Install(cv, id, outs)[r].odep] = r
<1>1. Install(cv, id, outs) = [r \in Registers |-> IF r = outs[1] THEN [rs |-> id, odep |-> 1]
                                                  ELSE IF r = outs[0] THEN [rs |-> id, odep |-> 0] ELSE cv[r]]
  BY DEF Install
<1>2. [rs |-> id, odep |-> 1] \in CvType /\ [rs |-> id, odep |-> 0] \in CvType
  BY DEF CvType, Outs
<1>3. Install(cv, id, outs) \in [Registers -> CvType]
  BY <1>1, <1>2
<1>4. ASSUME NEW r \in Registers
      PROVE  \/ Install(cv, id, outs)[r] = cv[r] /\ r # outs[0] /\ r # outs[1]
             \/ Install(cv, id, outs)[r].rs = id /\ outs[Install(cv, id, outs)[r].odep] = r
  <2>1. CASE r = outs[1]
    BY <1>1, <2>1
  <2>2. CASE r # outs[1] /\ r = outs[0]
    BY <1>1, <2>2
  <2>3. CASE r # outs[1] /\ r # outs[0]
    BY <1>1, <2>3
  <2> QED BY <2>1, <2>2, <2>3
<1> QED BY <1>3, <1>4

VectorsTyped ==
    /\ create_vector \in [Registers -> CvType] /\ spec_create_vector \in [Registers -> CvType]
    /\ use_spec_cv \subseteq Registers

LEMMA OpVectors ==
    ASSUME RuuCore, NEW i \in program, NEW m \in BOOLEAN, NEW id, NEW a, NEW t, OpDispatched(i, m, id, a, t), NoPanic'
    PROVE  VectorsSound' /\ VectorsTyped'
<1>1. Entered({id}) /\ st'[id].onames = i.outs /\ id \in Stations
  BY OpEntered, OpPlaced
<1>2. InstallAll(id, i.outs)
  BY DEF OpDispatched
<1>3. i.outs \in [Outs -> Regs \cup {NA}] /\ 0 \in Outs /\ 1 \in Outs
  BY OfferedIs DEF Outs
<1>4. VectorsTyped /\ spec_mode \in BOOLEAN
  BY DEF RuuCore, Typed, VectorsTyped, Registers
<1> DEFINE new(cv) == Install(cv, id, i.outs)
<1>5. ASSUME NEW cv \in [Registers -> CvType]
      PROVE  /\ new(cv) \in [Registers -> CvType]
             /\ \A r \in Registers : \/ new(cv)[r] = cv[r] /\ r # i.outs[0] /\ r # i.outs[1]
                                     \/ NamesNew(new(cv)[r], r, {id})
  <2>1. /\ Install(cv, id, i.outs) \in [Registers -> CvType]
        /\ \A r \in Registers :
              \/ Install(cv, id, i.outs)[r] = cv[r] /\ r # i.outs[0] /\ r # i.outs[1]
              \/ Install(cv, id, i.outs)[r].rs = id /\ i.outs[Install(cv, id, i.outs)[r].odep] = r
    BY <1>1, InstallIs
  <2> QED BY <1>1, <2>1 DEF NamesNew
<1> HIDE DEF new
<1>6. VectorsEntered({id}) /\ VectorsTyped'
  <2>1. CASE spec_mode
    <3>1. /\ spec_create_vector' = new(spec_create_vector)
          /\ use_spec_cv' = use_spec_cv \cup ({i.outs[0], i.outs[1]} \ {NA})
          /\ create_vector' = create_vector
      BY <1>2, <2>1 DEF InstallAll, new
    <3>2. use_spec_cv \subseteq Registers /\ use_spec_cv' \subseteq Registers
      BY <1>3, <1>4, <3>1 DEF VectorsTyped, Registers
    <3>3. ASSUME NEW r \in use_spec_cv'
          PROVE  \/ r \in use_spec_cv /\ spec_create_vector'[r] = spec_create_vector[r]
                 \/ NamesNew(spec_create_vector'[r], r, {id})
      BY <1>4, <1>5, <3>1, <3>2 DEF VectorsTyped
    <3>4. VectorsTyped'
      BY <1>4, <1>5, <3>1, <3>2 DEF VectorsTyped
    <3> QED BY <2>1, <3>1, <3>3, <3>4 DEF VectorsEntered
  <2>2. CASE ~spec_mode
    <3>1. create_vector' = new(create_vector) /\ UNCHANGED <<spec_create_vector, use_spec_cv>>
      BY <1>2, <2>2 DEF InstallAll, new
    <3>2. \A r \in Registers : create_vector'[r] = create_vector[r] \/ NamesNew(create_vector'[r], r, {id})
      BY <1>4, <1>5, <3>1 DEF VectorsTyped
    <3>3. VectorsTyped'
      BY <1>4, <1>5, <3>1 DEF VectorsTyped
    <3> QED BY <2>2, <3>1, <3>2, <3>3 DEF VectorsEntered, Registers
  <2> QED BY <2>1, <2>2
<1> QED BY <1>1, <1>6, EnteredVectors

\* The entries of the RUU are numbered on.
LEMMA EnteredAgens ==
    ASSUME RuuCore, NEW new, Entered(new), RUU_num' = RUU_num + 1,
           \A k \in 1..RUU_num : RuuLive'[k] = RuuLive[k], NEW id, RuuLive'[RUU_num + 1] = id,
           NEW m, m = RUU_num
    PROVE  /\ m \in Nat /\ \A n \in 0..m : Agens(n)' = Agens(n)
           /\ Agens(m) \in Nat
           /\ Agens(m + 1)' = IF EaComp(st'[id]) THEN Agens(m) + 1 ELSE Agens(m)
           /\ \A k \in 1..RUU_num : SameInstr(st'[RuuLive'[k]], st[RuuLive[k]])
<1>1. RUU_num \in Nat /\ RUU_num' \in Nat /\ RUU_num + 1 \in Nat
  BY DEF RuuCore, Rings, Ring
<1>2. /\ \A n \in 0..RUU_num : Agens(n) = NumUpto(AgenPlaces, n)
      /\ \A n \in 0..RUU_num + 1 : Agens(n)' = NumUpto(AgenPlaces', n)
  BY <1>1, AgensIs, AgensIsNext
<1>3. ASSUME NEW k \in 1..RUU_num PROVE SameInstr(st'[RuuLive'[k]], st[RuuLive[k]])
  <2>1. RuuLive[k] \in Live /\ RuuLive[k] \in Stations
    BY LiveLists DEF RuuCore
  <2>2. RuuLive[k] \notin new
    BY <2>1 DEF Entered
  <2> QED BY <2>1, <2>2 DEF Entered
<1>4. \A k \in 1..RUU_num : k \in 1..RUU_num + 1 /\ (k \in AgenPlaces' <=> k \in AgenPlaces)
  BY <1>1, <1>3 DEF AgenPlaces, SameInstr, EaComp
<1>5. RUU_num + 1 \in AgenPlaces' <=> EaComp(st'[id])
  <2>1. RUU_num + 1 \in 1..RUU_num'
    BY <1>1
  <2> QED BY <2>1 DEF AgenPlaces, EaComp
<1> DEFINE E == AgenPlaces
           F == AgenPlaces'
<1> HIDE DEF E, F
<1>6. ASSUME NEW n \in 0..RUU_num PROVE NumUpto(F, n) = NumUpto(E, n)
  <2>1. Upto(F, n) = Upto(E, n)
    BY <1>1, <1>4 DEF Upto, E, F
  <2> QED BY <2>1 DEF NumUpto
<1>7. NumUpto(F, RUU_num + 1) = IF RUU_num + 1 \in F THEN NumUpto(F, RUU_num) + 1 ELSE NumUpto(F, RUU_num)
  BY <1>1, CountNext
<1>8. RUU_num \in 0..RUU_num /\ RUU_num + 1 \in 0..RUU_num + 1 /\ \A n \in 0..RUU_num : n \in 0..RUU_num + 1
  BY <1>1
<1>9. NumUpto(E, RUU_num) \in Nat
  BY <1>1, UptoFinite
<1>10. m \in 0..m /\ m + 1 \in 0..m + 1
  BY <1>8
<1>11. /\ Agens(m + 1)' = NumUpto(F, m + 1) /\ Agens(m) = NumUpto(E, m) /\ NumUpto(F, m) = NumUpto(E, m)
       /\ NumUpto(F, m + 1) = (IF m + 1 \in F THEN NumUpto(F, m) + 1 ELSE NumUpto(F, m))
       /\ (m + 1 \in F <=> EaComp(st'[id]))
  BY <1>2, <1>5, <1>6, <1>7, <1>10 DEF E, F
<1>12. \A n \in 0..m : Agens(n)' = Agens(n)
  BY <1>2, <1>6, <1>8 DEF E, F
<1> QED BY <1>1, <1>3, <1>9, <1>11, <1>12

\* The m-th and later places: id comes into the RUU and, if d is 1, its access into the LSQ.
Appended(new, id, m, n, d) ==
    /\ RUU_num = m /\ LSQ_num = n /\ RUU_num' = m + 1 /\ LSQ_num' = n + d /\ d \in {0, 1}
    /\ id \in new /\ RuuLive'[m + 1] = id
    /\ \A k \in 1..m : RuuLive'[k] = RuuLive[k]
    /\ \A k \in 1..n : LsqLive'[k] = LsqLive[k]
    /\ EaComp(st'[id]) <=> d = 1
    /\ ~InLSQ(st'[id])
    /\ d = 1 => /\ LsqLive'[n + 1] \in new /\ InLSQ(st'[LsqLive'[n + 1]])
                /\ st'[LsqLive'[n + 1]].seq = st'[id].seq + 1

LEMMA AppendedIs ==
    ASSUME RuuCore, NEW new, Entered(new), NEW id, NEW m, NEW n, NEW d, Appended(new, id, m, n, d)
    PROVE  /\ m \in Nat /\ n \in Nat
           /\ \A k \in 0..m : Agens(k)' = Agens(k) /\ Agens(k) \in 0..n
           /\ Agens(m) = n /\ Agens(m + 1)' = n + d
           /\ \A k \in 1..m : SameInstr(st'[RuuLive'[k]], st[RuuLive[k]])
           /\ \A k \in 1..n : SameInstr(st'[LsqLive'[k]], st[LsqLive[k]])
<1>1. /\ RUU_num = m /\ RUU_num' = RUU_num + 1 /\ RuuLive'[RUU_num + 1] = id /\ n = LSQ_num
      /\ \A k \in 1..RUU_num : RuuLive'[k] = RuuLive[k]
      /\ \A k \in 1..n : LsqLive'[k] = LsqLive[k]
      /\ d \in {0, 1} /\ (EaComp(st'[id]) <=> d = 1)
  BY DEF Appended
<1>2. /\ m \in Nat /\ \A k \in 0..m : Agens(k)' = Agens(k)
      /\ Agens(m) \in Nat
      /\ Agens(m + 1)' = IF EaComp(st'[id]) THEN Agens(m) + 1 ELSE Agens(m)
      /\ \A k \in 1..RUU_num : SameInstr(st'[RuuLive'[k]], st[RuuLive[k]])
  BY <1>1, EnteredAgens
<1>3. Agens(m) = n /\ n \in Nat
  <2>1. Agens(m) = LSQ_num
    BY <1>1 DEF RuuCore, Paired
  <2> QED BY <1>1, <1>2, <2>1
<1>4. ASSUME NEW k \in 0..m PROVE Agens(k) \in 0..n
  <2>1. k \in 0..RUU_num /\ RUU_num \in Nat /\ m \in 0..RUU_num
    BY <1>1, <1>2
  <2>2. Agens(k) = NumUpto(AgenPlaces, k) /\ Agens(m) = NumUpto(AgenPlaces, m)
    BY <2>1, AgensIs
  <2>3. NumUpto(AgenPlaces, k) <= NumUpto(AgenPlaces, m) /\ NumUpto(AgenPlaces, k) \in 0..k
    <3>1. k \in Nat /\ k \in 0..m
      BY <1>2
    <3> QED BY <1>2, <3>1, CountBehind, UptoFinite
  <2> QED BY <1>3, <2>2, <2>3
<1>5. ASSUME NEW k \in 1..n PROVE SameInstr(st'[LsqLive'[k]], st[LsqLive[k]])
  <2>1. LsqLive[k] \in Live /\ LsqLive[k] \in Stations
    BY <1>1, LiveLists DEF RuuCore
  <2>2. LsqLive[k] \notin new
    BY <2>1 DEF Entered
  <2> QED BY <1>1, <2>1, <2>2 DEF Entered
<1>6. Agens(m + 1)' = n + d
  BY <1>1, <1>2, <1>3
<1> QED BY <1>1, <1>2, <1>3, <1>4, <1>5, <1>6

LEMMA AppendedPaired ==
    ASSUME RuuCore, NEW new, Entered(new), NEW id, NEW m, NEW n, NEW d, Appended(new, id, m, n, d)
    PROVE  Paired'
<1>1. /\ RUU_num = m /\ LSQ_num = n /\ RUU_num' = m + 1 /\ LSQ_num' = n + d /\ d \in {0, 1}
      /\ id \in new /\ RuuLive'[m + 1] = id /\ (EaComp(st'[id]) <=> d = 1) /\ ~InLSQ(st'[id])
      /\ d = 1 => /\ LsqLive'[n + 1] \in new /\ InLSQ(st'[LsqLive'[n + 1]])
                  /\ st'[LsqLive'[n + 1]].seq = st'[id].seq + 1
  BY DEF Appended
<1>2. /\ m \in Nat /\ n \in Nat
      /\ \A k \in 0..m : Agens(k)' = Agens(k) /\ Agens(k) \in 0..n
      /\ Agens(m) = n /\ Agens(m + 1)' = n + d
      /\ \A k \in 1..m : SameInstr(st'[RuuLive'[k]], st[RuuLive[k]])
      /\ \A k \in 1..n : SameInstr(st'[LsqLive'[k]], st[LsqLive[k]])
  BY AppendedIs
<1>3. \A k \in 1..m + 1 : k \in 1..m \/ k = m + 1
  BY <1>2
<1>4. \A k \in 1..n + d : k \in 1..n \/ (k = n + 1 /\ d = 1)
  BY <1>1, <1>2
<1>5. \A k \in 1..m + 1 : ~InLSQ(st'[RuuLive'[k]])
  BY <1>1, <1>2, <1>3 DEF RuuCore, Paired, InLSQ, SameInstr
<1>6. \A k \in 1..n + d : InLSQ(st'[LsqLive'[k]])
  BY <1>1, <1>2, <1>4 DEF RuuCore, Paired, InLSQ, SameInstr
<1>7. Agens(RUU_num)' = LSQ_num'
  <2>1. Agens(RUU_num)' = Cardinality({k \in 1..RUU_num' : EaComp(st'[RuuLive'[k]])})
    BY DEF Agens, EaComp
  <2>2. Agens(m + 1)' = Cardinality({k \in 1..m + 1 : EaComp(st'[RuuLive'[k]])})
    BY DEF Agens, EaComp
  <2> QED BY <1>1, <1>2, <2>1, <2>2
<1>8. ASSUME NEW k \in 1..m + 1, EaComp(st'[RuuLive'[k]])
      PROVE  /\ Agens(k)' \in 1..n + d
             /\ st'[LsqLive'[Agens(k)']].seq = st'[RuuLive'[k]].seq + 1
             /\ st'[LsqLive'[Agens(k)']].spec = st'[RuuLive'[k]].spec
  <2>1. CASE k \in 1..m
    <3>1. EaComp(st[RuuLive[k]]) /\ k \in 0..m /\ SameInstr(st'[RuuLive'[k]], st[RuuLive[k]])
      BY <1>2, <1>8, <2>1 DEF EaComp, SameInstr
    <3>2. PICK g : g = Agens(k)' /\ g = Agens(k)
      BY <1>2, <3>1
    <3>3. g \in 1..n /\ st[LsqLive[g]].seq = st[RuuLive[k]].seq + 1 /\ st[LsqLive[g]].spec = st[RuuLive[k]].spec
      BY <1>1, <2>1, <3>1, <3>2 DEF RuuCore, Paired
    <3>4. g \in 1..n + d
      BY <1>1, <1>2, <3>3
    <3>5. SameInstr(st'[LsqLive'[g]], st[LsqLive[g]])
      BY <1>2, <3>3
    <3>6. st'[LsqLive'[g]].seq = st'[RuuLive'[k]].seq + 1 /\ st'[LsqLive'[g]].spec = st'[RuuLive'[k]].spec
      BY <3>1, <3>3, <3>5 DEF SameInstr
    <3> QED BY <3>2, <3>4, <3>6
  <2>2. CASE k = m + 1
    <3>1. d = 1 /\ RuuLive'[k] = id
      BY <1>1, <1>8, <2>2
    <3>2. Agens(k)' = n + 1 /\ n + 1 \in 1..n + d
      BY <1>1, <1>2, <2>2, <3>1
    <3>3. st'[LsqLive'[n + 1]].seq = st'[id].seq + 1 /\ LsqLive'[n + 1] \in new
      BY <1>1, <3>1
    <3>4. st'[LsqLive'[n + 1]].spec = st'[id].spec
      <4>1. st' \in [Stations -> StationType] /\ new \subseteq Stations
        BY DEF Entered
      <4>2. st'[LsqLive'[n + 1]].spec \in BOOLEAN /\ st'[id].spec \in BOOLEAN
        BY <1>1, <3>3, <4>1 DEF StationType
      <4>3. (st'[LsqLive'[n + 1]].spec <=> spec_mode) /\ (st'[id].spec <=> spec_mode)
        BY <1>1, <3>3 DEF Entered
      <4> QED BY <4>2, <4>3
    <3> QED BY <3>1, <3>2, <3>3, <3>4
  <2> QED BY <1>3, <2>1, <2>2
<1> QED BY <1>1, <1>5, <1>6, <1>7, <1>8 DEF Paired, InLSQ, EaComp

LEMMA AppendedPath ==
    ASSUME RuuCore, NEW new, Entered(new), NEW id, NEW m, NEW n, NEW d, Appended(new, id, m, n, d),
           Pends(st'[id]) => ~spec_mode /\ d = 0, spec_mode' = (spec_mode \/ Pends(st'[id]))
    PROVE  OnePath'
<1>1. /\ RUU_num = m /\ LSQ_num = n /\ RUU_num' = m + 1 /\ LSQ_num' = n + d /\ d \in {0, 1}
      /\ id \in new /\ RuuLive'[m + 1] = id
      /\ d = 1 => LsqLive'[n + 1] \in new
  BY DEF Appended
<1>2. /\ m \in Nat /\ n \in Nat
      /\ \A k \in 0..m : Agens(k)' = Agens(k) /\ Agens(k) \in 0..n
      /\ Agens(m) = n /\ Agens(m + 1)' = n + d
      /\ \A k \in 1..m : SameInstr(st'[RuuLive'[k]], st[RuuLive[k]])
      /\ \A k \in 1..n : SameInstr(st'[LsqLive'[k]], st[LsqLive[k]])
  BY AppendedIs
<1>3. \A k \in 1..m + 1 : k \in 1..m \/ k = m + 1
  BY <1>2
<1>4. \A k \in 1..n + d : k \in 1..n \/ (k = n + 1 /\ d = 1)
  BY <1>1, <1>2
<1>5. (st'[id].spec <=> spec_mode) /\ (d = 1 => (st'[LsqLive'[n + 1]].spec <=> spec_mode))
  BY <1>1 DEF Entered
<1>6. \A k \in 1..m : /\ Pends(st'[RuuLive'[k]]) <=> Pends(st[RuuLive[k]])
                      /\ st'[RuuLive'[k]].spec <=> st[RuuLive[k]].spec
  BY <1>2 DEF SameInstr, Pends
<1>7. \A k \in 1..n : st'[LsqLive'[k]].spec <=> st[LsqLive[k]].spec
  BY <1>2 DEF SameInstr
<1>8. CASE spec_mode
  <2>1. PICK o \in 1..m :
            /\ \A k \in 1..m : /\ Pends(st[RuuLive[k]]) <=> k = o
                               /\ st[RuuLive[k]].spec <=> k > o
            /\ \A k \in 1..n : st[LsqLive[k]].spec <=> k > Agens(o)
    BY <1>1, <1>8 DEF RuuCore, OnePath
  <2>2. o \in 0..m /\ o \in 1..m + 1 /\ m + 1 > o /\ m + 1 # o
    BY <1>2
  <2>3. PICK g : g = Agens(o) /\ g = Agens(o)' /\ g \in 0..n
    BY <1>2, <2>2
  <2>4. n + 1 > g
    BY <1>2, <2>3
  <2>5. ~Pends(st'[id]) /\ spec_mode'
    BY <1>8
  <2>6. \A k \in 1..m + 1 : /\ Pends(st'[RuuLive'[k]]) <=> k = o
                            /\ st'[RuuLive'[k]].spec <=> k > o
    <3> TAKE k \in 1..m + 1
    <3>1. CASE k \in 1..m
      BY <1>6, <2>1, <3>1
    <3>2. CASE k = m + 1
      BY <1>1, <1>5, <1>8, <2>2, <2>5, <3>2
    <3> QED BY <1>3, <3>1, <3>2
  <2>7. \A k \in 1..n + d : st'[LsqLive'[k]].spec <=> k > g
    <3> TAKE k \in 1..n + d
    <3>1. CASE k \in 1..n
      BY <1>7, <2>1, <2>3, <3>1
    <3>2. CASE k = n + 1 /\ d = 1
      BY <1>5, <1>8, <2>4, <3>2
    <3> QED BY <1>4, <3>1, <3>2
  <2> QED BY <1>1, <2>2, <2>3, <2>5, <2>6, <2>7 DEF OnePath, Pends
<1>9. CASE ~spec_mode
  <2>1. /\ \A k \in 1..m : ~Pends(st[RuuLive[k]]) /\ ~st[RuuLive[k]].spec
        /\ \A k \in 1..n : ~st[LsqLive[k]].spec
    BY <1>1, <1>9 DEF RuuCore, OnePath
  <2>2. \A k \in 1..m : ~Pends(st'[RuuLive'[k]]) /\ ~st'[RuuLive'[k]].spec
    BY <1>6, <2>1
  <2>3. \A k \in 1..n + d : ~st'[LsqLive'[k]].spec
    BY <1>4, <1>5, <1>7, <1>9, <2>1
  <2>4. CASE Pends(st'[id])
    <3>1. d = 0 /\ spec_mode' /\ Agens(m + 1)' = n + d
      BY <1>2, <2>4
    <3>2. m + 1 \in 1..m + 1 /\ \A k \in 1..m : k # m + 1 /\ ~(k > m + 1)
      BY <1>2
    <3>3. \A k \in 1..m + 1 : /\ Pends(st'[RuuLive'[k]]) <=> k = m + 1
                              /\ st'[RuuLive'[k]].spec <=> k > m + 1
      <4> TAKE k \in 1..m + 1
      <4>1. CASE k \in 1..m
        BY <2>2, <3>2, <4>1
      <4>2. CASE k = m + 1
        <5>1. ~(m + 1 > m + 1)
          BY <1>2
        <5> QED BY <1>1, <1>5, <1>9, <2>4, <4>2, <5>1
      <4> QED BY <1>3, <4>1, <4>2
    <3>4. \A k \in 1..n + d : ~(k > n + d)
      BY <1>1, <1>2
    <3>5. \A k \in 1..n + d : st'[LsqLive'[k]].spec <=> k > Agens(m + 1)'
      BY <1>2, <2>3, <3>4
    <3> QED BY <1>1, <3>1, <3>2, <3>3, <3>5 DEF OnePath, Pends
  <2>5. CASE ~Pends(st'[id])
    <3>1. ~spec_mode'
      BY <1>9, <2>5
    <3>2. \A k \in 1..m + 1 : ~Pends(st'[RuuLive'[k]]) /\ ~st'[RuuLive'[k]].spec
      BY <1>1, <1>3, <1>5, <1>9, <2>2, <2>5
    <3> QED BY <1>1, <2>3, <3>1, <3>2 DEF OnePath, Pends
  <2> QED BY <2>4, <2>5
<1> QED BY <1>8, <1>9

LEMMA OpStep ==
    ASSUME RuuCore, NEW i \in program, NEW m \in BOOLEAN, DispatchOp(i, m), UNCHANGED options, NoPanic'
    PROVE  RuuCore'
<1>1. PICK id, a, t : OpDispatched(i, m, id, a, t)
  BY OpDispatchedIs
<1>2. /\ i.kind \in {"op", "ctrl", "trap"} /\ (m => i.kind = "ctrl" /\ ~spec_mode)
      /\ RUU_num' = RUU_num + 1 /\ spec_mode' = (spec_mode \/ m)
      /\ inst_seq + 2 <= MaxInsts /\ inst_seq' = inst_seq + 1 /\ count' = count + 1
      /\ UNCHANGED <<RUU_head, LSQ_head, LSQ_tail, LSQ_num, event_queue, busy, stage, scan>>
  BY <1>1 DEF OpDispatched
<1>3. /\ \A k \in 1..RUU_num : RuuLive'[k] = RuuLive[k]
      /\ RuuLive'[RUU_num + 1] = id /\ LsqLive' = LsqLive /\ Rings'
  BY <1>1, OpPlaced
<1>4. /\ Entered({id}) /\ LinksGood' /\ LinksConserved' /\ rslinks' \in Nat
      /\ ready_queue' \in Seq(LinkType) /\ last_op' \in LinkType
      /\ st'[id].kind = i.kind
      /\ (st'[id].recover <=> m) /\ ~st'[id].completed
  BY <1>1, OpEntered
<1>5. PICK e, n : e = RUU_num /\ n = LSQ_num
  OBVIOUS
<1>6. Appended({id}, id, e, n, 0)
  <2>1. ~EaComp(st'[id]) /\ ~InLSQ(st'[id])
    BY <1>2, <1>4 DEF EaComp, InLSQ
  <2>2. n + 0 = n
    BY <1>5 DEF RuuCore, Rings, Ring
  <2> QED BY <1>2, <1>3, <1>5, <2>1, <2>2 DEF Appended
<1>7. Paired' /\ OnePath'
  <2>1. Pends(st'[id]) <=> m
    BY <1>4 DEF Pends
  <2>2. spec_mode' = (spec_mode \/ Pends(st'[id]))
    <3>1. spec_mode \in BOOLEAN
      BY DEF RuuCore, Typed
    <3> QED BY <1>2, <2>1, <3>1
  <2> QED BY <1>2, <1>4, <1>6, <2>1, <2>2, AppendedPaired, AppendedPath
<1>8. ChainsSound' /\ KindsSound' /\ VectorsSound' /\ VectorsTyped'
  BY <1>1, <1>4, EnteredChains, OpVectors
<1>9. EventsInOrder' /\ Scanned'
  BY <1>2 DEF RuuCore, EventsInOrder, Scanned
<1>10. spec_mode' \in BOOLEAN /\ inst_seq' \in 0..MaxInsts /\ count' \in Nat
  <2>1. spec_mode \in BOOLEAN /\ inst_seq \in 0..MaxInsts /\ count \in Nat /\ MaxInsts \in Nat
    BY SizeAssumption DEF RuuCore, Typed
  <2>2. inst_seq' \in 0..MaxInsts /\ count' \in Nat
    BY <1>2, <2>1
  <2>3. spec_mode' \in BOOLEAN
    BY <1>2, <2>1
  <2> QED BY <2>2, <2>3
<1>11. st' \in [Stations -> StationType]
  BY <1>4 DEF Entered
<1>12. Typed'
  BY <1>2, <1>4, <1>8, <1>10, <1>11 DEF RuuCore, Typed, VectorsTyped, Registers, options
<1> QED BY <1>3, <1>4, <1>7, <1>8, <1>9, <1>12 DEF RuuCore

\* A load or store's entries: the outputs and creators of the address computation, and the
\* creators of the access.
AddrOuts == [k \in Outs |-> IF k = 0 THEN DTMP ELSE NA]
AddrCs(i) == [k \in Ops |-> IF k = 0 THEN CvNull ELSE Creator(i.ins[k])]
AccessCs(i, id) == [k \in Ops |-> CASE k = 0 -> Creator(i.ins[0])
                                    [] k = 1 -> [rs |-> id, odep |-> 0]
                                    [] k = 2 -> CvNull]

MemDispatched(i, id, lsq, a, t, b, u) ==
    /\ RUU_num < RUU_size /\ LSQ_num < LSQ_size /\ id = RuuAt(RUU_tail) /\ lsq = LsqAt(LSQ_tail)
    /\ i.kind \in {"load", "store"}
    /\ a = Filled(id, i, "agen", i.agen, FALSE, FALSE, inst_seq + 1, AddrCs(i),
                  [k \in Ops |-> IF k = 0 THEN 0 ELSE Producer(i.ins[k])], AddrOuts)
    /\ t = Linked([st EXCEPT ![id] = a], id, AddrCs(i))
    /\ b = Filled(lsq, i, i.kind, i.class, TRUE, FALSE, inst_seq + 2, AccessCs(i, id),
                  [k \in Ops |-> CASE k = 0 -> Producer(i.ins[0]) [] k = 1 -> inst_seq + 1 [] k = 2 -> 0],
                  i.outs)
    /\ u = Linked([t EXCEPT ![lsq] = b], lsq, AccessCs(i, id))
    /\ Scheduled(u, id, NewLinks(AddrCs(i)) + NewLinks(AccessCs(i, id)))
    /\ last_op' = LinkTo(u, lsq, 0)
    /\ RUU_tail' = (RUU_tail + 1) % RUU_size /\ RUU_num' = RUU_num + 1
    /\ LSQ_tail' = (LSQ_tail + 1) % LSQ_size /\ LSQ_num' = LSQ_num + 1
    /\ inst_seq + 2 <= MaxInsts /\ inst_seq' = inst_seq + 2 /\ count' = count + 1
    /\ UNCHANGED <<RUU_head, LSQ_head, event_queue, busy, spec_mode, stage, scan>>

\* Both entries are set in the create vector in use.
MemInstalled(i, id, lsq) ==
    IF spec_mode
    THEN /\ spec_create_vector' = Install(Install(spec_create_vector, id, AddrOuts), lsq, i.outs)
         /\ use_spec_cv' = use_spec_cv \cup ({DTMP, i.outs[0], i.outs[1]} \ {NA})
         /\ UNCHANGED create_vector
    ELSE /\ create_vector' = Install(Install(create_vector, id, AddrOuts), lsq, i.outs)
         /\ UNCHANGED <<spec_create_vector, use_spec_cv>>

LEMMA MemDispatchedIs ==
    ASSUME RuuCore, NEW i, DispatchMem(i)
    PROVE  \E id, lsq, a, t, b, u : MemDispatched(i, id, lsq, a, t, b, u) /\ MemInstalled(i, id, lsq)
<1> DEFINE id == RuuAt(RUU_tail)
           lsq == LsqAt(LSQ_tail)
           aDeps == [k \in Ops |-> IF k = 0 THEN 0 ELSE Producer(i.ins[k])]
           mDeps == [k \in Ops |-> CASE k = 0 -> Producer(i.ins[0]) [] k = 1 -> inst_seq + 1 [] k = 2 -> 0]
           aCs == AddrCs(i)
           mCs == AccessCs(i, id)
           a == Filled(id, i, "agen", i.agen, FALSE, FALSE, inst_seq + 1, aCs, aDeps, AddrOuts)
           t == Linked([st EXCEPT ![id] = a], id, aCs)
           b == Filled(lsq, i, i.kind, i.class, TRUE, FALSE, inst_seq + 2, mCs, mDeps, i.outs)
           u == Linked([t EXCEPT ![lsq] = b], lsq, mCs)
           ready == OperandsReady(u[id])
<1>1. /\ st' = (IF ready THEN MarkQueued(u, <<id>>) ELSE u)
      /\ ready_queue' = (IF ready THEN EnqueueAll(u, ready_queue, <<id>>) ELSE ready_queue)
      /\ rslinks' = rslinks - NewLinks(aCs) - NewLinks(mCs) - (IF ready THEN 1 ELSE 0)
      /\ last_op' = LinkTo(u, lsq, 0)
  BY DEF DispatchMem, AddrOuts, AddrCs, AccessCs
<1>2. NoPanic' => ~(rslinks' < 0)
  BY DEF DispatchMem, NoPanic
<1>3. /\ RUU_num < RUU_size /\ LSQ_num < LSQ_size /\ i.kind \in {"load", "store"}
      /\ RUU_tail' = (RUU_tail + 1) % RUU_size /\ RUU_num' = RUU_num + 1
      /\ LSQ_tail' = (LSQ_tail + 1) % LSQ_size /\ LSQ_num' = LSQ_num + 1
      /\ inst_seq + 2 <= MaxInsts /\ inst_seq' = inst_seq + 2 /\ count' = count + 1
      /\ UNCHANGED <<RUU_head, LSQ_head, event_queue, busy, spec_mode, stage, scan>>
  BY DEF DispatchMem, MayDispatch
<1>4. MemInstalled(i, id, lsq)
  BY DEF DispatchMem, MemInstalled, AddrOuts
<1>5. /\ a = Filled(id, i, "agen", i.agen, FALSE, FALSE, inst_seq + 1, aCs, aDeps, AddrOuts)
      /\ t = Linked([st EXCEPT ![id] = a], id, aCs)
      /\ b = Filled(lsq, i, i.kind, i.class, TRUE, FALSE, inst_seq + 2, mCs, mDeps, i.outs)
      /\ u = Linked([t EXCEPT ![lsq] = b], lsq, mCs)
  OBVIOUS
<1> HIDE DEF a, t, b, u, ready, id, lsq
<1>6. Scheduled(u, id, NewLinks(aCs) + NewLinks(mCs))
  <2>1. /\ rslinks - NewLinks(aCs) - NewLinks(mCs) - 0 = rslinks - (NewLinks(aCs) + NewLinks(mCs))
        /\ rslinks - NewLinks(aCs) - NewLinks(mCs) - 1 = rslinks - (NewLinks(aCs) + NewLinks(mCs)) - 1
    <3>1. rslinks \in Nat
      BY DEF RuuCore, Typed
    <3>2. NewLinks(aCs) \in Int /\ NewLinks(mCs) \in Int
      BY NewLinksIs DEF One
    <3> QED BY <3>1, <3>2
  <2> QED BY <1>1, <1>2, <2>1 DEF Scheduled
<1>7. MemDispatched(i, id, lsq, a, t, b, u)
  BY <1>1, <1>3, <1>5, <1>6 DEF MemDispatched, id, lsq
<1> QED BY <1>4, <1>7

LEMMA AddrCreators ==
    ASSUME RuuCore, NEW i \in program
    PROVE  \A k \in Ops : /\ AddrCs(i)[k] \in CvType
                          /\ \A x, j : AddrCs(i)[k] = [rs |-> x, odep |-> j] /\ x \in Stations =>
                                x \in Live /\ ~st[x].completed /\ st[x].onames[j] # NA
<1> SUFFICES ASSUME NEW k \in Ops
             PROVE  /\ AddrCs(i)[k] \in CvType
                    /\ \A x, j : AddrCs(i)[k] = [rs |-> x, odep |-> j] /\ x \in Stations =>
                          x \in Live /\ ~st[x].completed /\ st[x].onames[j] # NA
  OBVIOUS
<1>1. i.ins \in [Ops -> Regs \cup {NA}]
  BY OfferedIs
<1>2. CvNull \in CvType /\ CvNull.rs = Null /\ Null \notin Stations
  BY LiveIs DEF CvNull, CvType, Outs
<1>3. CASE k = 0
  <2>1. AddrCs(i)[k] = CvNull
    BY <1>3 DEF AddrCs
  <2> QED BY <1>2, <2>1
<1>4. CASE k # 0
  <2>1. AddrCs(i)[k] = Creators(i)[k]
    BY <1>4 DEF AddrCs, Creators
  <2> QED BY <1>1, <2>1, CreatorsAre
<1> QED BY <1>3, <1>4

LEMMA AccessCreators ==
    ASSUME RuuCore, NEW i \in program, NEW id \in Stations
    PROVE  \A k \in Ops : /\ AccessCs(i, id)[k] \in CvType
                          /\ \A x, j : AccessCs(i, id)[k] = [rs |-> x, odep |-> j] /\ x \in Stations =>
                                \/ x \in Live /\ ~st[x].completed /\ st[x].onames[j] # NA
                                \/ x = id /\ j = 0
<1> SUFFICES ASSUME NEW k \in Ops
             PROVE  /\ AccessCs(i, id)[k] \in CvType
                    /\ \A x, j : AccessCs(i, id)[k] = [rs |-> x, odep |-> j] /\ x \in Stations =>
                          \/ x \in Live /\ ~st[x].completed /\ st[x].onames[j] # NA
                          \/ x = id /\ j = 0
  OBVIOUS
<1>1. i.ins \in [Ops -> Regs \cup {NA}]
  BY OfferedIs
<1>2. CvNull \in CvType /\ CvNull.rs = Null /\ Null \notin Stations
  BY LiveIs DEF CvNull, CvType, Outs
<1>3. CASE k = 0
  <2>1. AccessCs(i, id)[k] = Creators(i)[k]
    BY <1>3 DEF AccessCs, Creators
  <2> QED BY <1>1, <2>1, CreatorsAre
<1>4. CASE k = 1
  <2>1. AccessCs(i, id)[k] = [rs |-> id, odep |-> 0]
    BY <1>4 DEF AccessCs
  <2>2. [rs |-> id, odep |-> 0] \in CvType
    BY DEF CvType, Outs
  <2> QED BY <2>1, <2>2
<1>5. CASE k = 2
  <2>1. AccessCs(i, id)[k] = CvNull
    BY <1>5 DEF AccessCs
  <2> QED BY <1>2, <2>1
<1> QED BY <1>3, <1>4, <1>5 DEF Ops

\* The two stations of a load or store.
LEMMA MemStations ==
    ASSUME RuuCore, NEW i \in program, NEW id, NEW lsq, NEW a, NEW t, NEW b, NEW u,
           MemDispatched(i, id, lsq, a, t, b, u)
    PROVE  /\ id \in Stations /\ id \notin Live /\ lsq \in Stations /\ lsq \notin Live /\ id # lsq
           /\ \A k \in 1..RUU_num : RuuLive'[k] = RuuLive[k]
           /\ RuuLive'[RUU_num + 1] = id
           /\ \A k \in 1..LSQ_num : LsqLive'[k] = LsqLive[k]
           /\ LsqLive'[LSQ_num + 1] = lsq
           /\ Rings' /\ Live' = Live \cup {id, lsq}
<1>1. /\ RUU_num < RUU_size /\ id = RuuAt(RUU_tail) /\ LSQ_num < LSQ_size /\ lsq = LsqAt(LSQ_tail)
      /\ RUU_tail' = (RUU_tail + 1) % RUU_size /\ RUU_num' = RUU_num + 1
      /\ LSQ_tail' = (LSQ_tail + 1) % LSQ_size /\ LSQ_num' = LSQ_num + 1
      /\ RUU_head' = RUU_head /\ LSQ_head' = LSQ_head
  BY DEF MemDispatched
<1>2. /\ id \in RuuIds /\ id \in Stations /\ id \notin Live
      /\ Ring(RUU_head, RUU_tail, RUU_num, RUU_size)'
      /\ \A k \in 1..RUU_num : RuuLive'[k] = RuuLive[k]
      /\ RuuLive'[RUU_num + 1] = id
  BY <1>1, NextRuu
<1>3. /\ lsq \in LsqIds /\ lsq \in Stations /\ lsq \notin Live
      /\ Ring(LSQ_head, LSQ_tail, LSQ_num, LSQ_size)'
      /\ \A k \in 1..LSQ_num : LsqLive'[k] = LsqLive[k]
      /\ LsqLive'[LSQ_num + 1] = lsq
  BY <1>1, NextLsq
<1>4. id # lsq
  <2>1. RuuIds \cap LsqIds = {}
    BY LiveIs
  <2> QED BY <1>2, <1>3, <2>1
<1>5. Rings'
  BY <1>2, <1>3 DEF Rings
<1>6. Live' = Live \cup {id, lsq}
  <2>1. RUU_num \in Nat /\ LSQ_num \in Nat
    BY DEF RuuCore, Rings, Ring
  <2>2. \A x : x \in Live' <=> (\E k \in 1..RUU_num + 1 : x = RuuLive'[k]) \/ (\E k \in 1..LSQ_num + 1 : x = LsqLive'[k])
    BY <1>1, <1>5, LiveListsNext
  <2>3. \A x : x \in Live <=> (\E k \in 1..RUU_num : x = RuuLive[k]) \/ (\E k \in 1..LSQ_num : x = LsqLive[k])
    BY LiveLists DEF RuuCore
  <2>4. /\ \A k : k \in 1..RUU_num + 1 <=> k \in 1..RUU_num \/ k = RUU_num + 1
        /\ \A k : k \in 1..LSQ_num + 1 <=> k \in 1..LSQ_num \/ k = LSQ_num + 1
    BY <2>1
  <2>5. \A x : (\E k \in 1..RUU_num + 1 : x = RuuLive'[k]) <=> (\E k \in 1..RUU_num : x = RuuLive[k]) \/ x = id
    BY <1>2, <2>4
  <2>6. \A x : (\E k \in 1..LSQ_num + 1 : x = LsqLive'[k]) <=> (\E k \in 1..LSQ_num : x = LsqLive[k]) \/ x = lsq
    BY <1>3, <2>4
  <2>7. \A x : x \in Live' <=> x \in Live \/ x = id \/ x = lsq
    BY <2>2, <2>3, <2>5, <2>6
  <2> QED BY <2>7
<1> QED BY <1>2, <1>3, <1>4, <1>5, <1>6

\* What they are filled in with, and the stations after each.
LEMMA MemPlaced ==
    ASSUME RuuCore, NEW i \in program, NEW id, NEW lsq, NEW a, NEW t, NEW b, NEW u,
           MemDispatched(i, id, lsq, a, t, b, u)
    PROVE  /\ Entry(a, id, "agen", i.agen, inst_seq + 1, AddrOuts) /\ ~a.recover
           /\ Placed(t, st, id, a, AddrCs(i))
           /\ Entry(b, lsq, i.kind, i.class, inst_seq + 2, i.outs) /\ ~b.recover
           /\ Placed(u, t, lsq, b, AccessCs(i, id))
<1>1. /\ i.kind \in {"load", "store"}
      /\ a = Filled(id, i, "agen", i.agen, FALSE, FALSE, inst_seq + 1, AddrCs(i),
                    [k \in Ops |-> IF k = 0 THEN 0 ELSE Producer(i.ins[k])], AddrOuts)
      /\ t = Linked([st EXCEPT ![id] = a], id, AddrCs(i))
      /\ b = Filled(lsq, i, i.kind, i.class, TRUE, FALSE, inst_seq + 2, AccessCs(i, id),
                    [k \in Ops |-> CASE k = 0 -> Producer(i.ins[0]) [] k = 1 -> inst_seq + 1 [] k = 2 -> 0],
                    i.outs)
      /\ u = Linked([t EXCEPT ![lsq] = b], lsq, AccessCs(i, id))
  BY DEF MemDispatched
<1>2. id \in Stations /\ id \notin Live /\ lsq \in Stations /\ lsq \notin Live /\ id # lsq
  BY MemStations
<1>3. /\ i.class \in DOMAIN FuClass \cup {NA} /\ i.agen \in DOMAIN FuClass \cup {NA}
      /\ i.outs \in [Outs -> Regs \cup {NA}] /\ i.ins \in [Ops -> Regs \cup {NA}] /\ i.addr \in Nat
  BY OfferedIs
<1>4. PICK no \in BOOLEAN, yes \in BOOLEAN : no = FALSE /\ yes = TRUE
  OBVIOUS
<1>5. inst_seq \in Nat /\ inst_seq + 1 \in Nat /\ inst_seq + 2 \in Nat /\ 0 \in Nat
  BY DEF RuuCore, Typed
<1>6. st \in [Stations -> StationType]
  BY DEF RuuCore, Typed
<1>7. Entry(a, id, "agen", i.agen, inst_seq + 1, AddrOuts) /\ ~a.recover
  <2> DEFINE deps == [k \in Ops |-> IF k = 0 THEN 0 ELSE Producer(i.ins[k])]
  <2>1. deps \in [Ops -> Nat]
    BY ProducerIs
  <2>2. AddrOuts \in [Outs -> Regs \cup {DTMP, NA}]
    BY DEF AddrOuts
  <2>3. a = Filled(id, i, "agen", i.agen, no, no, inst_seq + 1, AddrCs(i), deps, AddrOuts)
    BY <1>1, <1>4
  <2> HIDE DEF deps
  <2>4. PICK kind : kind = "agen"
    OBVIOUS
  <2>5. kind \in {"op", "ctrl", "trap", "agen", "load", "store"}
    BY <2>4
  <2>6. a = Filled(id, i, kind, i.agen, no, no, inst_seq + 1, AddrCs(i), deps, AddrOuts)
    BY <2>3, <2>4
  <2>7. Entry(a, id, kind, i.agen, inst_seq + 1, AddrOuts) /\ (a.recover <=> no)
    BY <1>2, <1>3, <1>5, <2>1, <2>2, <2>5, <2>6, FilledIs
  <2> QED BY <1>4, <2>4, <2>7
<1>8. Entry(b, lsq, i.kind, i.class, inst_seq + 2, i.outs) /\ ~b.recover
  <2> DEFINE deps == [k \in Ops |-> CASE k = 0 -> Producer(i.ins[0]) [] k = 1 -> inst_seq + 1 [] k = 2 -> 0]
  <2>1. deps \in [Ops -> Nat]
    <3>1. Producer(i.ins[0]) \in Nat
      BY ProducerIs
    <3> QED BY <1>5, <3>1 DEF Ops
  <2>2. i.outs \in [Outs -> Regs \cup {DTMP, NA}]
    BY <1>3
  <2>3. b = Filled(lsq, i, i.kind, i.class, yes, no, inst_seq + 2, AccessCs(i, id), deps, i.outs)
    BY <1>1, <1>4
  <2> HIDE DEF deps
  <2>4. i.kind \in {"op", "ctrl", "trap", "agen", "load", "store"}
    BY <1>1
  <2>5. Entry(b, lsq, i.kind, i.class, inst_seq + 2, i.outs) /\ (b.recover <=> no)
    BY <1>2, <1>3, <1>5, <2>1, <2>2, <2>3, <2>4, FilledIs
  <2> QED BY <1>4, <2>5
<1>9. Placed(t, st, id, a, AddrCs(i))
  <2>1. \A k \in Ops : AddrCs(i)[k] \in CvType
    BY AddrCreators
  <2>2. a \in StationType /\ \A k \in Outs : a.odeps[k] = << >> /\ st[id].odeps[k] = << >>
    BY <1>2, <1>7 DEF Entry, RuuCore, ChainsSound
  <2> QED BY <1>1, <1>2, <1>6, <2>1, <2>2, PlaceIs
<1>10. Placed(u, t, lsq, b, AccessCs(i, id))
  <2>1. \A k \in Ops : AccessCs(i, id)[k] \in CvType
    BY <1>2, AccessCreators
  <2>2. t \in [Stations -> StationType]
    BY <1>9 DEF Placed
  <2>3. ASSUME NEW j \in Outs PROVE t[lsq].odeps[j] = << >>
    <3>1. st[lsq].odeps[j] = << >>
      BY <1>2 DEF RuuCore, ChainsSound
    <3>2. \A k \in Ops : AddrCs(i)[k] # [rs |-> lsq, odep |-> j]
      BY <1>2, AddrCreators
    <3> QED BY <1>2, <1>9, <3>1, <3>2 DEF Placed
  <2>4. b \in StationType /\ \A k \in Outs : b.odeps[k] = << >> /\ t[lsq].odeps[k] = << >>
    BY <1>8, <2>3 DEF Entry
  <2> QED BY <1>1, <1>2, <2>1, <2>2, <2>4, PlaceIs
<1> QED BY <1>7, <1>8, <1>9, <1>10

\* The stations after both: the others are the same but for links to the two.
LEMMA MemLinked ==
    ASSUME RuuCore, NEW i \in program, NEW id, NEW lsq, NEW a, NEW t, NEW b, NEW u,
           MemDispatched(i, id, lsq, a, t, b, u), NEW c, c = NewLinks(AddrCs(i)) + NewLinks(AccessCs(i, id))
    PROVE  /\ u \in [Stations -> StationType] /\ SameButLinks(u[id], a) /\ SameButLinks(u[lsq], b)
           /\ \A x \in Stations : x # id /\ x # lsq => SameButLinks(u[x], st[x])
           /\ \A x \in Stations : \A j \in Outs : \A l \in ToSet(u[x].odeps[j]) :
                 \/ l \in ToSet(st[x].odeps[j])
                 \/ l.rs = id /\ l.tag = a.tag /\ l.seq = a.seq
                 \/ l.rs = lsq /\ l.tag = b.tag /\ l.seq = b.seq
           /\ \A x \in Stations : \A j \in Outs :
                 u[x].odeps[j] # << >> =>
                    \/ st[x].odeps[j] # << >>
                    \/ x \in Live /\ ~st[x].completed /\ st[x].onames[j] # NA
                    \/ x = id /\ j = 0
           /\ c \in Nat /\ Cardinality(LinkPlaces(u, Stations)) = LinksOf(Stations) + c
<1>1. Placed(t, st, id, a, AddrCs(i)) /\ Placed(u, t, lsq, b, AccessCs(i, id))
  BY MemPlaced
<1>2. id \in Stations /\ lsq \in Stations /\ id # lsq
  BY MemStations
<1>3. /\ u \in [Stations -> StationType] /\ SameButLinks(u[lsq], b)
      /\ \A x \in Stations : x # lsq => SameButLinks(u[x], t[x])
      /\ SameButLinks(t[id], a) /\ \A x \in Stations : x # id => SameButLinks(t[x], st[x])
  BY <1>1 DEF Placed
<1>4. SameButLinks(u[id], a) /\ \A x \in Stations : x # id /\ x # lsq => SameButLinks(u[x], st[x])
  <2>1. SameButLinks(u[id], a)
    BY <1>2, <1>3 DEF SameButLinks
  <2>2. ASSUME NEW x \in Stations, x # id, x # lsq PROVE SameButLinks(u[x], st[x])
    BY <1>3, <2>2 DEF SameButLinks
  <2> QED BY <2>1, <2>2
<1>5. ASSUME NEW x \in Stations, NEW j \in Outs, NEW l \in ToSet(u[x].odeps[j])
      PROVE  \/ l \in ToSet(st[x].odeps[j])
             \/ l.rs = id /\ l.tag = a.tag /\ l.seq = a.seq
             \/ l.rs = lsq /\ l.tag = b.tag /\ l.seq = b.seq
  BY <1>1 DEF Placed
<1>6. ASSUME NEW x \in Stations, NEW j \in Outs, u[x].odeps[j] # << >>
      PROVE  \/ st[x].odeps[j] # << >>
             \/ x \in Live /\ ~st[x].completed /\ st[x].onames[j] # NA
             \/ x = id /\ j = 0
  <2>1. \/ st[x].odeps[j] # << >>
        \/ \E k \in Ops : AddrCs(i)[k] = [rs |-> x, odep |-> j]
        \/ \E k \in Ops : AccessCs(i, id)[k] = [rs |-> x, odep |-> j]
    BY <1>1, <1>6 DEF Placed
  <2>2. ASSUME NEW k \in Ops, AddrCs(i)[k] = [rs |-> x, odep |-> j]
        PROVE  x \in Live /\ ~st[x].completed /\ st[x].onames[j] # NA
    BY <2>2, AddrCreators
  <2>3. ASSUME NEW k \in Ops, AccessCs(i, id)[k] = [rs |-> x, odep |-> j]
        PROVE  (x \in Live /\ ~st[x].completed /\ st[x].onames[j] # NA) \/ (x = id /\ j = 0)
    BY <1>2, <2>3, AccessCreators
  <2> QED BY <2>1, <2>2, <2>3
<1>7. c \in Nat /\ Cardinality(LinkPlaces(u, Stations)) = LinksOf(Stations) + c
  <2>1. /\ NewLinks(AddrCs(i)) \in Nat /\ NewLinks(AccessCs(i, id)) \in Nat
        /\ Cardinality(LinkPlaces(t, Stations)) = Cardinality(LinkPlaces(st, Stations)) + NewLinks(AddrCs(i))
        /\ Cardinality(LinkPlaces(u, Stations)) = Cardinality(LinkPlaces(t, Stations)) + NewLinks(AccessCs(i, id))
    BY <1>1 DEF Placed
  <2>2. LinksOf(Stations) = Cardinality(LinkPlaces(st, Stations)) /\ LinksOf(Stations) \in Nat
    BY CountsTyped DEF LinksOf, RuuCore
  <2> QED BY <2>1, <2>2
<1> QED BY <1>3, <1>4, <1>5, <1>6, <1>7

LEMMA MemEntered ==
    ASSUME RuuCore, NEW i \in program, NEW id, NEW lsq, NEW a, NEW t, NEW b, NEW u,
           MemDispatched(i, id, lsq, a, t, b, u), NoPanic'
    PROVE  /\ Entered({id, lsq}) /\ LinksGood' /\ LinksConserved' /\ rslinks' \in Nat
           /\ ready_queue' \in Seq(LinkType) /\ last_op' \in LinkType
           /\ st'[id].kind = "agen" /\ st'[id].seq = inst_seq + 1 /\ st'[id].onames = AddrOuts /\ ~st'[id].recover
           /\ st'[lsq].kind = i.kind /\ st'[lsq].seq = inst_seq + 2 /\ st'[lsq].onames = i.outs
<1>1. /\ id \in Stations /\ id \notin Live /\ lsq \in Stations /\ lsq \notin Live /\ id # lsq
      /\ Rings' /\ Live' = Live \cup {id, lsq}
  BY MemStations
<1>2. /\ Entry(a, id, "agen", i.agen, inst_seq + 1, AddrOuts) /\ ~a.recover
      /\ Entry(b, lsq, i.kind, i.class, inst_seq + 2, i.outs) /\ ~b.recover
  BY MemPlaced
<1>3. PICK c : c = NewLinks(AddrCs(i)) + NewLinks(AccessCs(i, id))
  OBVIOUS
<1>4. /\ u \in [Stations -> StationType] /\ SameButLinks(u[id], a) /\ SameButLinks(u[lsq], b)
      /\ \A x \in Stations : x # id /\ x # lsq => SameButLinks(u[x], st[x])
      /\ \A x \in Stations : \A j \in Outs : \A l \in ToSet(u[x].odeps[j]) :
            \/ l \in ToSet(st[x].odeps[j])
            \/ l.rs = id /\ l.tag = a.tag /\ l.seq = a.seq
            \/ l.rs = lsq /\ l.tag = b.tag /\ l.seq = b.seq
      /\ \A x \in Stations : \A j \in Outs :
            u[x].odeps[j] # << >> =>
               \/ st[x].odeps[j] # << >>
               \/ x \in Live /\ ~st[x].completed /\ st[x].onames[j] # NA
               \/ x = id /\ j = 0
      /\ c \in Nat /\ Cardinality(LinkPlaces(u, Stations)) = LinksOf(Stations) + c
  BY <1>3, MemLinked
<1>5. /\ Scheduled(u, id, c) /\ UNCHANGED <<event_queue, scan>> /\ last_op' = LinkTo(u, lsq, 0)
  BY <1>3 DEF MemDispatched
<1>6. /\ st' \in [Stations -> StationType]
      /\ \A x \in Stations : Kept(st'[x], u[x]) /\ st'[x].tag = u[x].tag
      /\ ready_queue' \in Seq(LinkType) /\ rslinks' \in Nat /\ LinksConserved'
      /\ \A l \in ToSet(ready_queue') :
            l \in ToSet(ready_queue) \/ (l.rs = id /\ l.tag = st'[id].tag /\ l.seq = st'[id].seq)
  BY <1>1, <1>4, <1>5, ScheduledIs
<1>7. /\ st'[id].kind = "agen" /\ st'[id].seq = inst_seq + 1 /\ st'[id].onames = AddrOuts
      /\ st'[id].tag = st[id].tag /\ st'[id].tag = a.tag /\ st'[id].seq = a.seq
      /\ ~st'[id].recover /\ (st'[id].spec <=> spec_mode) /\ ~st'[id].completed
  <2>1. Kept(st'[id], u[id]) /\ st'[id].tag = u[id].tag
    BY <1>1, <1>6
  <2> QED BY <1>2, <1>4, <2>1 DEF Entry, SameButLinks, Kept
<1>8. /\ st'[lsq].kind = i.kind /\ st'[lsq].seq = inst_seq + 2 /\ st'[lsq].onames = i.outs
      /\ st'[lsq].tag = st[lsq].tag /\ st'[lsq].tag = b.tag /\ st'[lsq].seq = b.seq
      /\ ~st'[lsq].recover /\ (st'[lsq].spec <=> spec_mode) /\ ~st'[lsq].completed /\ st'[lsq].class = i.class
  <2>1. Kept(st'[lsq], u[lsq]) /\ st'[lsq].tag = u[lsq].tag
    BY <1>1, <1>6
  <2> QED BY <1>2, <1>4, <2>1 DEF Entry, SameButLinks, Kept
<1>9. ASSUME NEW x \in Stations, x # id, x # lsq PROVE SameInstr(st'[x], st[x])
  <2>1. Kept(st'[x], u[x]) /\ st'[x].tag = u[x].tag /\ SameButLinks(u[x], st[x])
    BY <1>4, <1>6, <1>9
  <2> QED BY <2>1 DEF SameButLinks, Kept, SameInstr
<1> DEFINE new == {id, lsq}
<1>10. ASSUME NEW x \in Stations, NEW j \in Outs
       PROVE  /\ \A l \in ToSet(st'[x].odeps[j]) : l \in ToSet(st[x].odeps[j]) \/ FreshLink(l, new)
              /\ st'[x].odeps[j] # << >> =>
                    st[x].odeps[j] # << >> \/ (x \in Live' /\ ~st'[x].completed /\ st'[x].onames[j] # NA)
  <2>1. st'[x].odeps[j] = u[x].odeps[j]
    BY <1>6 DEF Kept
  <2>2. \A l \in ToSet(st'[x].odeps[j]) : l \in ToSet(st[x].odeps[j]) \/ FreshLink(l, new)
    BY <1>4, <1>7, <1>8, <2>1 DEF FreshLink
  <2>3. ASSUME x \in Live, ~st[x].completed, st[x].onames[j] # NA
        PROVE  x \in Live' /\ ~st'[x].completed /\ st'[x].onames[j] # NA
    <3>1. SameInstr(st'[x], st[x])
      BY <1>1, <1>9, <2>3
    <3> QED BY <1>1, <2>3, <3>1 DEF SameInstr
  <2>4. ASSUME x = id, j = 0 PROVE x \in Live' /\ ~st'[x].completed /\ st'[x].onames[j] # NA
    <3>1. AddrOuts[0] = DTMP
      BY DEF AddrOuts, Outs
    <3> QED BY <1>1, <1>7, <2>4, <3>1, SizeAssumption
  <2>5. st'[x].odeps[j] # << >> =>
           \/ st[x].odeps[j] # << >>
           \/ x \in Live /\ ~st[x].completed /\ st[x].onames[j] # NA
           \/ x = id /\ j = 0
    BY <1>4, <2>1
  <2> QED BY <2>2, <2>3, <2>4, <2>5
<1>11. Entered(new)
  <2>1. /\ st'[id].kind # "store"
        /\ st'[lsq].kind = "store" => /\ st'[lsq].class \in DOMAIN FuClass
                                      /\ \A k \in Outs : st'[lsq].onames[k] = NA
    BY <1>7, <1>8, OfferedIs
  <2>2. \A x \in new : /\ st'[x].tag = st[x].tag /\ ~st'[x].completed /\ (st'[x].spec <=> spec_mode)
                       /\ st'[x].kind = "store" => /\ st'[x].class \in DOMAIN FuClass
                                                   /\ \A k \in Outs : st'[x].onames[k] = NA
                       /\ EaComp(st'[x]) \/ InLSQ(st'[x]) => ~st'[x].recover
    BY <1>7, <1>8, <2>1
  <2>3. \A x \in Stations : x \notin new => SameInstr(st'[x], st[x])
    BY <1>9
  <2>4. new \subseteq Stations /\ new \cap Live = {} /\ Live' = Live \cup new
    BY <1>1
  <2> HIDE DEF new
  <2> QED BY <1>1, <1>6, <1>10, <2>2, <2>3, <2>4 DEF Entered
<1>12. last_op' \in LinkType /\ FreshLink(last_op', new)
  <2>1. u[lsq].tag \in Nat /\ u[lsq].seq \in Nat /\ 0 \in Nat
    BY <1>1, <1>4 DEF StationType
  <2>2. LinkTo(u, lsq, 0) \in LinkType /\ LinkTo(u, lsq, 0).rs = lsq /\ LinkTo(u, lsq, 0).tag = u[lsq].tag /\ LinkTo(u, lsq, 0).seq = u[lsq].seq
    BY <1>1, <2>1, LinkToIs
  <2>3. u[lsq].tag = st'[lsq].tag /\ u[lsq].seq = st'[lsq].seq
    BY <1>1, <1>6 DEF Kept
  <2> QED BY <1>5, <2>2, <2>3 DEF FreshLink
<1>13. LinksGood'
  <2>1. \A l \in ToSet(ready_queue') : l \in ToSet(ready_queue) \/ FreshLink(l, new)
    BY <1>6 DEF FreshLink
  <2> HIDE DEF new
  <2> QED BY <1>5, <1>11, <1>12, <2>1, EnteredLinks
<1> QED BY <1>6, <1>7, <1>8, <1>11, <1>12, <1>13

\* Vector f is cv with the outputs of station id set.
Sets(f, cv, id, outs) ==
    /\ f \in [Registers -> CvType]
    /\ \A r \in Registers :
          \/ f[r] = cv[r] /\ r # outs[0] /\ r # outs[1]
          \/ f[r].rs = id /\ outs[f[r].odep] = r

LEMMA SetsIs ==
    ASSUME NEW cv \in [Registers -> CvType], NEW id \in Stations, NEW outs, NEW f, f = Install(cv, id, outs)
    PROVE  Sets(f, cv, id, outs)
<1>1. /\ Install(cv, id, outs) \in [Registers -> CvType]
      /\ \A r \in Registers :
            \/ Install(cv, id, outs)[r] = cv[r] /\ r # outs[0] /\ r # outs[1]
            \/ Install(cv, id, outs)[r].rs = id /\ outs[Install(cv, id, outs)[r].odep] = r
  BY InstallIs
<1> QED BY <1>1 DEF Sets

LEMMA MemVectors ==
    ASSUME RuuCore, NEW i \in program, NEW id, NEW lsq, NEW a, NEW t, NEW b, NEW u,
           MemDispatched(i, id, lsq, a, t, b, u), MemInstalled(i, id, lsq), NoPanic'
    PROVE  VectorsSound' /\ VectorsTyped'
<1>1. /\ Entered({id, lsq}) /\ st'[id].onames = AddrOuts /\ st'[lsq].onames = i.outs
      /\ id \in Stations /\ lsq \in Stations
  <2>1. Entered({id, lsq}) /\ st'[id].onames = AddrOuts /\ st'[lsq].onames = i.outs
    BY MemEntered
  <2>2. id \in Stations /\ lsq \in Stations
    BY MemStations
  <2> QED BY <2>1, <2>2
<1>2. i.outs \in [Outs -> Regs \cup {NA}] /\ AddrOuts[0] = DTMP /\ AddrOuts[1] = NA /\ 0 \in Outs /\ 1 \in Outs
  BY OfferedIs DEF Outs, AddrOuts
<1>3. VectorsTyped /\ spec_mode \in BOOLEAN
  BY DEF RuuCore, Typed, VectorsTyped, Registers
<1> DEFINE first(cv) == Install(cv, id, AddrOuts)
           both(cv) == Install(first(cv), lsq, i.outs)
<1>4. ASSUME NEW cv \in [Registers -> CvType]
      PROVE  /\ both(cv) \in [Registers -> CvType]
             /\ \A r \in Registers :
                   \/ both(cv)[r] = cv[r] /\ r # DTMP /\ r # i.outs[0] /\ r # i.outs[1]
                   \/ NamesNew(both(cv)[r], r, {id, lsq})
  <2>1. PICK f : f = Install(cv, id, AddrOuts)
    OBVIOUS
  <2>2. PICK g : g = Install(f, lsq, i.outs)
    OBVIOUS
  <2>3. Sets(f, cv, id, AddrOuts)
    BY <1>1, <2>1, SetsIs
  <2>4. Sets(g, f, lsq, i.outs)
    <3>1. f \in [Registers -> CvType]
      BY <2>3 DEF Sets
    <3> QED BY <1>1, <2>2, <3>1, SetsIs
  <2>5. both(cv) = g
    BY <2>1, <2>2
  <2> HIDE DEF both, first
  <2>6. ASSUME NEW r \in Registers
        PROVE  \/ g[r] = cv[r] /\ r # DTMP /\ r # i.outs[0] /\ r # i.outs[1]
               \/ NamesNew(g[r], r, {id, lsq})
    <3>1. CASE g[r].rs = lsq /\ i.outs[g[r].odep] = r
      BY <1>1, <3>1 DEF NamesNew
    <3>2. CASE g[r] = f[r] /\ r # i.outs[0] /\ r # i.outs[1]
      BY <1>1, <1>2, <2>3, <3>2 DEF NamesNew, Sets
    <3> QED BY <2>4, <3>1, <3>2 DEF Sets
  <2> QED BY <2>4, <2>5, <2>6 DEF Sets
<1>5. CASE spec_mode
  <2>1. /\ spec_create_vector' = both(spec_create_vector)
        /\ use_spec_cv' = use_spec_cv \cup ({DTMP, i.outs[0], i.outs[1]} \ {NA})
        /\ create_vector' = create_vector
    BY <1>5 DEF MemInstalled
  <2> HIDE DEF both, first
  <2>2. use_spec_cv \subseteq Registers /\ use_spec_cv' \subseteq Registers
    BY <1>2, <1>3, <2>1 DEF VectorsTyped, Registers
  <2>3. ASSUME NEW r \in use_spec_cv'
        PROVE  \/ r \in use_spec_cv /\ spec_create_vector'[r] = spec_create_vector[r]
               \/ NamesNew(spec_create_vector'[r], r, {id, lsq})
    BY <1>3, <1>4, <2>1, <2>2 DEF VectorsTyped
  <2>4. VectorsTyped'
    BY <1>3, <1>4, <2>1, <2>2 DEF VectorsTyped
  <2>5. VectorsEntered({id, lsq})
    BY <1>5, <2>1, <2>3 DEF VectorsEntered
  <2> QED BY <1>1, <2>4, <2>5, EnteredVectors
<1>6. CASE ~spec_mode
  <2>1. create_vector' = both(create_vector) /\ UNCHANGED <<spec_create_vector, use_spec_cv>>
    BY <1>6 DEF MemInstalled
  <2> HIDE DEF both, first
  <2>2. \A r \in Registers : create_vector'[r] = create_vector[r] \/ NamesNew(create_vector'[r], r, {id, lsq})
    BY <1>3, <1>4, <2>1 DEF VectorsTyped
  <2>3. VectorsTyped'
    BY <1>3, <1>4, <2>1 DEF VectorsTyped
  <2>4. VectorsEntered({id, lsq})
    BY <1>6, <2>1, <2>2 DEF VectorsEntered, Registers
  <2> QED BY <1>1, <2>3, <2>4, EnteredVectors
<1> QED BY <1>5, <1>6

LEMMA MemStep ==
    ASSUME RuuCore, NEW i \in program, DispatchMem(i), UNCHANGED options, NoPanic'
    PROVE  RuuCore'
<1>1. PICK id, lsq, a, t, b, u : MemDispatched(i, id, lsq, a, t, b, u) /\ MemInstalled(i, id, lsq)
  BY MemDispatchedIs
<1>2. /\ i.kind \in {"load", "store"}
      /\ RUU_num' = RUU_num + 1 /\ LSQ_num' = LSQ_num + 1
      /\ inst_seq + 2 <= MaxInsts /\ inst_seq' = inst_seq + 2 /\ count' = count + 1
      /\ UNCHANGED <<RUU_head, LSQ_head, event_queue, busy, spec_mode, stage, scan>>
  BY <1>1 DEF MemDispatched
<1>3. /\ \A k \in 1..RUU_num : RuuLive'[k] = RuuLive[k]
      /\ RuuLive'[RUU_num + 1] = id
      /\ \A k \in 1..LSQ_num : LsqLive'[k] = LsqLive[k]
      /\ LsqLive'[LSQ_num + 1] = lsq /\ Rings'
  BY <1>1, MemStations
<1>4. /\ Entered({id, lsq}) /\ LinksGood' /\ LinksConserved' /\ rslinks' \in Nat
      /\ ready_queue' \in Seq(LinkType) /\ last_op' \in LinkType
      /\ st'[id].kind = "agen" /\ st'[id].seq = inst_seq + 1 /\ ~st'[id].recover
      /\ st'[lsq].kind = i.kind /\ st'[lsq].seq = inst_seq + 2
  BY <1>1, MemEntered, ZenonT(60)
<1>5. PICK e, n : e = RUU_num /\ n = LSQ_num
  OBVIOUS
<1>6. spec_mode \in BOOLEAN /\ inst_seq \in 0..MaxInsts /\ count \in Nat /\ MaxInsts \in Nat
  BY SizeAssumption DEF RuuCore, Typed
<1>7. Appended({id, lsq}, id, e, n, 1)
  <2>1. EaComp(st'[id]) /\ ~InLSQ(st'[id]) /\ InLSQ(st'[lsq])
    BY <1>2, <1>4 DEF EaComp, InLSQ
  <2>2. st'[lsq].seq = st'[id].seq + 1
    BY <1>4, <1>6
  <2>3. id \in {id, lsq} /\ lsq \in {id, lsq} /\ 1 \in {0, 1}
    OBVIOUS
  <2> QED BY <1>2, <1>3, <1>5, <2>1, <2>2, <2>3 DEF Appended
<1>8. Paired' /\ OnePath'
  <2>1. ~Pends(st'[id])
    BY <1>4 DEF Pends
  <2>2. spec_mode' = (spec_mode \/ Pends(st'[id]))
    BY <1>2, <1>6, <2>1
  <2> QED BY <1>4, <1>7, <2>1, <2>2, AppendedPaired, AppendedPath
<1>9. ChainsSound' /\ KindsSound' /\ VectorsSound' /\ VectorsTyped'
  BY <1>1, <1>4, EnteredChains, MemVectors
<1>10. EventsInOrder' /\ Scanned'
  BY <1>2 DEF RuuCore, EventsInOrder, Scanned
<1>11. inst_seq' \in 0..MaxInsts /\ count' \in Nat
  BY <1>2, <1>6
<1>12. st' \in [Stations -> StationType]
  BY <1>4 DEF Entered
<1>13. Typed'
  BY <1>2, <1>4, <1>6, <1>9, <1>11, <1>12 DEF RuuCore, Typed, VectorsTyped, Registers, options
<1> QED BY <1>3, <1>4, <1>8, <1>9, <1>10, <1>13 DEF RuuCore

-----------------------------------------------------------------------------
(* The machine starts in the invariant and every step keeps it.            *)

LEMMA InitTyped ==
    ASSUME Init
    PROVE  Typed /\ \A id \in Stations : st[id].kind = "op" /\ st[id].odeps = [k \in Outs |-> << >>]
<1> DEFINE r == [tag |-> 0, seq |-> 0, kind |-> "op", class |-> NA, first |-> FALSE,
                 recover |-> FALSE, spec |-> FALSE, addr |-> 0, queued |-> FALSE,
                 issued |-> FALSE, completed |-> FALSE, onames |-> [k \in Outs |-> NA],
                 odeps |-> [k \in Outs |-> << >>], ready |-> [k \in Ops |-> FALSE],
                 deps |-> [k \in Ops |-> 0]]
<1>1. r \in StationType
  <2>1. /\ [k \in Outs |-> NA] \in [Outs -> Regs \cup {DTMP, NA}] /\ [k \in Outs |-> << >>] \in [Outs -> Seq(LinkType)]
        /\ [k \in Ops |-> FALSE] \in [Ops -> BOOLEAN] /\ [k \in Ops |-> 0] \in [Ops -> Nat]
        /\ FALSE \in BOOLEAN /\ 0 \in Nat /\ NA \in DOMAIN FuClass \cup {NA}
    OBVIOUS
  <2> QED BY <2>1 DEF StationType
<1>2. st = [id \in Stations |-> r]
  BY DEF Init
<1>3. r.kind = "op" /\ r.odeps = [k \in Outs |-> << >>]
  OBVIOUS
<1> HIDE DEF r
<1>4. st \in [Stations -> StationType]
  BY <1>1, <1>2
<1>5. [q \in Regs \cup {DTMP} |-> CvNull] \in [Regs \cup {DTMP} -> CvType]
  <2>1. CvNull \in CvType
    BY DEF CvNull, CvType, Outs
  <2> QED BY <2>1
<1>6. NullLink \in LinkType /\ [u \in Units |-> 0] \in [Units -> Nat]
  BY DEF NullLink, LinkType
<1>7. << >> \in Seq(LinkType)
  OBVIOUS
<1>8. NumLinks \in Nat /\ 0 \in 0..MaxInsts /\ 0 \in Nat /\ FALSE \in BOOLEAN
  BY SizeAssumption
<1>9. Typed
  BY <1>4, <1>5, <1>6, <1>7, <1>8 DEF Init, Typed
<1> QED BY <1>2, <1>3, <1>9

LEMMA InitCore ==
    ASSUME Init
    PROVE  RuuCore
<1>1. Typed /\ \A id \in Stations : st[id].kind = "op" /\ st[id].odeps = [k \in Outs |-> << >>]
  BY InitTyped
<1>2. /\ RUU_head = 0 /\ RUU_tail = 0 /\ RUU_num = 0 /\ LSQ_head = 0 /\ LSQ_tail = 0 /\ LSQ_num = 0
      /\ create_vector = [r \in Regs \cup {DTMP} |-> CvNull] /\ use_spec_cv = {}
      /\ ready_queue = << >> /\ event_queue = << >> /\ rslinks = NumLinks
      /\ last_op = NullLink /\ spec_mode = FALSE /\ stage = "commit" /\ scan = << >>
  BY DEF Init
<1>3. Rings
  <2>1. RUU_size \in Nat \ {0} /\ LSQ_size \in Nat \ {0}
    BY SizeAssumption
  <2>2. \A n \in Nat \ {0} : Ring(0, 0, 0, n)
    <3> SUFFICES ASSUME NEW n \in Nat \ {0} PROVE Ring(0, 0, 0, n)
      OBVIOUS
    <3>1. (0 + 0) % n = 0
      OBVIOUS
    <3> QED BY <3>1 DEF Ring
  <2> QED BY <1>2, <2>1, <2>2 DEF Rings
<1>4. EventsInOrder /\ Scanned
  BY <1>2 DEF EventsInOrder, Scanned
<1>5. \A id \in Stations : \A k \in Outs : st[id].odeps[k] = << >>
  BY <1>1
<1>6. LinksGood
  <2>1. ToSet(<< >>) = {}
    BY DEF ToSet
  <2>2. \A l : l \notin AllLinks
    BY <1>2, <1>5, <2>1, AllLinksAre
  <2> QED BY <2>2 DEF LinksGood
<1>7. 1..0 = {}
  OBVIOUS
<1>8. Paired
  <2>1. {k \in 1..RUU_num : EaComp(st[RuuLive[k]])} = {}
    BY <1>2, <1>7
  <2>2. Agens(RUU_num) = 0
    BY <2>1, FS_EmptySet DEF Agens
  <2> QED BY <1>2, <1>7, <2>2 DEF Paired
<1>9. OnePath
  BY <1>2, <1>7 DEF OnePath
<1>10. KindsSound /\ ChainsSound
  BY <1>1, <1>5 DEF KindsSound, ChainsSound, EaComp, InLSQ
<1>11. VectorsSound
  <2>1. \A r \in Regs \cup {DTMP} : create_vector[r].rs = Null
    BY <1>2 DEF CvNull
  <2> QED BY <1>2, <2>1 DEF VectorsSound, Names
<1>12. LinksConserved
  <2>1. \A id \in Stations : \A k \in Outs : {id} \X {k} \X DOMAIN st[id].odeps[k] = {}
    <3>1. DOMAIN << >> = {}
      OBVIOUS
    <3> QED BY <1>5, <3>1
  <2>2. LinkPlaces(st, Stations) = {}
    BY <2>1 DEF LinkPlaces
  <2>3. LinksOf(Stations) = 0 /\ NumLinks \in Nat /\ Len(<< >>) = 0
    BY <2>2, FS_EmptySet, SizeAssumption DEF LinksOf
  <2> QED BY <1>2, <2>3 DEF LinksConserved
<1> QED BY <1>1, <1>3, <1>4, <1>6, <1>8, <1>9, <1>10, <1>11, <1>12 DEF RuuCore

\* Only a machine that runs makes a step.
LEMMA StepRuns ==
    ASSUME Next
    PROVE  NoPanic
<1>1. Commit => panic = ""
  BY DEF Commit, CommitHead, CommitDone
<1>2. WritebackStage => panic = ""
  BY DEF WritebackStage, DropStaleEvent, Writeback, WritebackDone
<1>3. LsqRefresh \/ Tick => panic = ""
  BY DEF LsqRefresh, Tick
<1>4. Issue => panic = ""
  BY DEF Issue, DropStaleReady, IssueStore, Requeue, IssueDone, IssueToUnit, MayIssue, Issuing
<1>5. ASSUME NEW i, NEW m PROVE DispatchMem(i) \/ DispatchOp(i, m) => panic = ""
  <2>1. MayDispatch => panic = ""
    BY DEF MayDispatch
  <2>2. DispatchMem(i) => MayDispatch
    BY DEF DispatchMem
  <2>3. DispatchOp(i, m) => MayDispatch
    BY DEF DispatchOp
  <2> QED BY <2>1, <2>2, <2>3
<1>6. Dispatch => panic = ""
  BY <1>5 DEF Dispatch, DispatchDone
<1> QED BY <1>1, <1>2, <1>3, <1>4, <1>6 DEF Next, NoPanic

LEMMA RuuStep ==
    ASSUME RuuInv, [Next]_vars
    PROVE  RuuInv'
<1> SUFFICES ASSUME NoPanic' PROVE RuuCore'
  BY DEF RuuInv
<1>1. CASE UNCHANGED vars
  <2>1. NoPanic
    BY <1>1 DEF vars, NoPanic
  <2>2. RuuCore
    BY <2>1 DEF RuuInv
  <2>3. /\ UNCHANGED <<options, st, queueVars, cvVars, ready_queue, event_queue, rslinks, busy, last_op,
                       spec_mode, inst_seq, stage, count, scan>>
    BY <1>1 DEF vars
  <2>4. Typed' = Typed /\ Rings' = Rings /\ EventsInOrder' = EventsInOrder /\ Scanned' = Scanned
    BY <2>3 DEF Typed, Rings, EventsInOrder, Scanned, options, queueVars, cvVars
  <2>5. RuuLive' = RuuLive /\ LsqLive' = LsqLive /\ Live' = Live
    BY <2>3 DEF RuuLive, LsqLive, RuuAt, LsqAt, Live, queueVars
  <2>6. AllLinks' = AllLinks
    BY <2>3 DEF AllLinks
  <2>7. LinksGood' = LinksGood
    BY <2>3, <2>5, <2>6 DEF LinksGood, GoodLink, Valid, ValidIn
  <2>8. LinksConserved' = LinksConserved
    BY <2>3 DEF LinksConserved, LinksOf, LinkPlaces
  <2>9. Paired' = Paired /\ OnePath' = OnePath
    <3>1. \A n : Agens(n)' = Agens(n)
      BY <2>3, <2>5 DEF Agens, EaComp
    <3> QED BY <2>3, <2>5 DEF Paired, OnePath, Agens, EaComp, InLSQ, Pends, queueVars
  <2>10. KindsSound' = KindsSound /\ ChainsSound' = ChainsSound
    BY <2>3, <2>5 DEF KindsSound, ChainsSound, EaComp, InLSQ
  <2>11. VectorsSound' = VectorsSound
    BY <2>3, <2>5 DEF VectorsSound, Names, cvVars
  <2> QED BY <2>2, <2>4, <2>7, <2>8, <2>9, <2>10, <2>11 DEF RuuCore
<1>2. CASE Next
  <2>1. NoPanic
    BY <1>2, StepRuns
  <2>2. RuuCore /\ UNCHANGED options
    BY <1>2, <2>1 DEF RuuInv, Next
  <2>3. CASE Commit
    BY <2>2, <2>3, CommitHeadStep, CommitDoneStep DEF Commit
  <2>4. CASE WritebackStage
    BY <2>2, <2>4, DropStaleEventStep, WritebackStep, WritebackDoneStep DEF WritebackStage
  <2>5. CASE LsqRefresh
    BY <2>2, <2>5, LsqRefreshStep
  <2>6. CASE Issue
    BY <2>2, <2>6, DropStaleReadyStep, IssueStoreStep, RequeueStep, IssueDoneStep, IssueToUnitStep DEF Issue
  <2>7. CASE Dispatch
    BY <2>2, <2>7, MemStep, OpStep, DispatchDoneStep DEF Dispatch
  <2>8. CASE Tick
    BY <2>2, <2>8, TickStep
  <2> QED BY <1>2, <2>3, <2>4, <2>5, <2>6, <2>7, <2>8 DEF Next
<1> QED BY <1>1, <1>2

\* In any machine the invariant holds as long as no sanity check has stopped it.
THEOREM RuuInvariant == Spec => []RuuInv
<1>1. Init => RuuInv
  BY InitCore DEF RuuInv
<1>2. RuuInv /\ [Next]_vars => RuuInv'
  BY RuuStep
<1> QED BY <1>1, <1>2, PTL DEF Spec

LEMMA CoreTyping ==
    ASSUME NoPanic, RuuCore
    PROVE  TypeOK
<1>1. rslinks \in 0..NumLinks
  <2>1. /\ rslinks \in Nat /\ Len(ready_queue) \in Nat /\ Len(event_queue) \in Nat /\ Len(scan) \in Nat
        /\ LinksOf(Stations) \in Nat
    BY CountsTyped DEF RuuCore, Typed
  <2>2. rslinks + Len(ready_queue) + Len(event_queue) + Len(scan) + LinksOf(Stations) = NumLinks
    BY DEF RuuCore, LinksConserved
  <2> QED BY <2>1, <2>2, SizeAssumption
<1>2. /\ RUU_head \in 0..RUU_size - 1 /\ RUU_tail \in 0..RUU_size - 1 /\ RUU_num \in 0..RUU_size
      /\ LSQ_head \in 0..LSQ_size - 1 /\ LSQ_tail \in 0..LSQ_size - 1 /\ LSQ_num \in 0..LSQ_size
  BY DEF RuuCore, Rings, Ring
<1>3. panic \in Panics \cup {""}
  BY DEF NoPanic
<1>4. {create_vector, spec_create_vector} \subseteq [Regs \cup {DTMP} -> CvType]
  BY DEF RuuCore, Typed
<1>5. {ready_queue, event_queue, scan} \subseteq Seq(LinkType)
  BY DEF RuuCore, Typed
<1> QED BY <1>1, <1>2, <1>3, <1>4, <1>5 DEF RuuCore, Typed, TypeOK

\* Every field keeps to its type: positions to their queue, links to stations, and the pool of
\* links never gives out more than it has.
THEOREM RuuTyping == Spec => [](NoPanic => TypeOK)
<1>1. RuuInv => (NoPanic => TypeOK)
  BY CoreTyping DEF RuuInv
<1> QED BY <1>1, RuuInvariant, PTL

\* No link with a matching tag leads to another instruction than the one it was made for, and
\* none is lost: for queues, pools and programs of any size and any order of completion.
THEOREM RuuLinksSound == Spec => [](NoPanic => LinksSound)
<1>1. RuuCore => LinksSound
  BY DEF RuuCore, LinksGood, GoodLink, LinksSound, ValidLinksLeadHome
<1>2. RuuInv => (NoPanic => LinksSound)
  BY <1>1 DEF RuuInv
<1> QED BY <1>2, RuuInvariant, PTL

\* The nth address computation in the RUU belongs to the nth access in the LSQ, through commits,
\* squashes and wraps of both circular queues.
THEOREM RuuQueuesSound == Spec => [](NoPanic => QueuesSound)
<1>1. RuuCore => QueuesInStep
  BY DEF RuuCore, Rings, Ring, Paired, QueuesInStep
<1>2. RuuInv => (NoPanic => QueuesSound)
  BY <1>1 DEF RuuInv, QueuesSound
<1> QED BY <1>2, RuuInvariant, PTL

-----------------------------------------------------------------------------
(* Checks of the simulator that never fail.                                *)

\* The sanity checks of the circular queues, of their pairing and of speculation.
QueueChecks ==
    {"RUU out of sync with LSQ", "retired instruction has odeps",
     "cannot recover unless in speculative mode", "RUU head and tail broken",
     "RUU and LSQ out of sync", "drained and speculative"}

QueuesTrusted == panic \notin QueueChecks

LEMMA CommitTrusted ==
    ASSUME RuuCore, CommitHead
    PROVE  panic' \notin QueueChecks
<1>1. /\ MayCommit /\ panic = ""
      /\ panic' = IF EaComp(st[HeadRs]) /\ ~LsqInStep THEN "RUU out of sync with LSQ"
                  ELSE IF \E k \in Outs : st[HeadRs].odeps[k] # << >> THEN "retired instruction has odeps"
                  ELSE panic
  BY DEF CommitHead
<1>2. RUU_num \in Nat /\ RUU_num > 0 /\ st[HeadRs].completed
  <2>1. RUU_num \in Nat
    BY DEF RuuCore, Rings, Ring
  <2> QED BY <1>1, <2>1 DEF MayCommit
<1>3. HeadRs = RuuLive[1] /\ 1 \in 1..RUU_num /\ HeadRs \in Stations
  <2>1. 1 \in 1..RUU_num
    BY <1>2
  <2>2. HeadRs = RuuLive[1]
    <3>1. RUU_head + 1 - 1 = RUU_head
      BY DEF RuuCore, Rings, Ring
    <3> QED BY <2>1, <3>1 DEF RuuLive, HeadRs
  <2> QED BY <2>1, <2>2, LiveLists DEF RuuCore
<1>4. EaComp(st[HeadRs]) => LsqInStep
  <2> SUFFICES ASSUME EaComp(st[HeadRs]) PROVE LsqInStep
    OBVIOUS
  <2>1. Agens(1) \in 1..LSQ_num /\ LSQ_num \in Nat
    BY <1>3 DEF RuuCore, Paired, Rings, Ring
  <2>2. LSQ_num > 0 /\ 1 \in 1..LSQ_num
    BY <2>1
  <2>3. LsqLive[1] = HeadLsq
    <3>1. LSQ_head + 1 - 1 = LSQ_head
      BY DEF RuuCore, Rings, Ring
    <3> QED BY <2>2, <3>1 DEF LsqLive, HeadLsq
  <2> QED BY <2>2, <2>3 DEF RuuCore, Paired, LsqInStep
<1>5. \A k \in Outs : st[HeadRs].odeps[k] = << >>
  BY <1>2, <1>3 DEF RuuCore, ChainsSound
<1>6. panic' = ""
  BY <1>1, <1>4, <1>5
<1> QED BY <1>6 DEF QueueChecks

LEMMA WritebackTrusted ==
    ASSUME RuuCore, Writeback
    PROVE  panic' \notin QueueChecks
<1> DEFINE rs == st[Finished]
<1>1. /\ event_queue # << >> /\ Valid(Head(event_queue)) /\ panic = ""
      /\ \/ panic' \in {"inst completed and !ready, !issued, or completed", "mis-predicted load or store?!?!?",
                        "output dependence already satisfied", "node is already queued", ""}
         \/ /\ ~rs.completed /\ ~(rs.recover /\ InLSQ(rs))
            /\ \/ rs.recover /\ ~spec_mode
               \/ rs.recover /\ spec_mode /\ RuuAt(RUU_head) \in Squashed
               \/ (rs.recover => spec_mode) /\ Cardinality(Squashed \cap LsqIds) > LSQ_num
               \/ ~rs.recover /\ RuuAt(RUU_head) \in Squashed
  BY DEF Writeback, Due, Finished, Squashed
<1>2. Finished \in Live /\ Finished \in Stations
  BY <1>1, FinishedIs
<1> HIDE DEF rs
<1>3. ASSUME ~rs.completed, ~(rs.recover /\ InLSQ(rs)), rs.recover PROVE spec_mode
  <2>1. PICK k \in 1..RUU_num : Finished = RuuLive[k]
    <3>1. \A k \in 1..LSQ_num : InLSQ(st[LsqLive[k]])
      BY DEF RuuCore, Paired
    <3> QED BY <1>2, <1>3, <3>1, LiveLists DEF RuuCore, rs
  <2>2. Pends(st[RuuLive[k]])
    BY <1>3, <2>1 DEF Pends, rs
  <2> QED BY <2>1, <2>2 DEF RuuCore, OnePath
<1>4. ASSUME ~rs.completed, ~(rs.recover /\ InLSQ(rs)), rs.recover => spec_mode
      PROVE  RuuAt(RUU_head) \notin Squashed /\ ~(Cardinality(Squashed \cap LsqIds) > LSQ_num)
  <2>1. PICK o : CutAt(o)
    BY <1>2, <1>4, SquashIs DEF rs
  <2>2. LSQ_num \in Nat /\ Agens(o) \in 0..LSQ_num /\ Cardinality(Squashed \cap LsqIds) = LSQ_num - Agens(o)
    BY <2>1 DEF CutAt, RuuCore, Rings, Ring
  <2>3. ~(Cardinality(Squashed \cap LsqIds) > LSQ_num)
    BY <2>2
  <2>4. CASE rs.recover
    <3>1. o \in 0..RUU_num /\ o # 0 /\ RUU_num \in Nat
      BY <2>1, <2>4 DEF CutAt, rs, RuuCore, Rings, Ring
    <3>2. 1 \in 1..o /\ 1 \in 1..RUU_num
      BY <3>1
    <3>3. RuuLive[1] \notin Squashed
      BY <1>2, <2>1, <3>2, CutLive
    <3>4. RuuLive[1] = RuuAt(RUU_head)
      <4>1. RUU_head + 1 - 1 = RUU_head
        BY DEF RuuCore, Rings, Ring
      <4> QED BY <3>2, <4>1 DEF RuuLive
    <3> QED BY <2>3, <3>3, <3>4
  <2>5. CASE ~rs.recover
    BY <2>3, <2>5 DEF Squashed, rs
  <2> QED BY <2>4, <2>5
<1>5. panic' \in {"inst completed and !ready, !issued, or completed", "mis-predicted load or store?!?!?",
                  "output dependence already satisfied", "node is already queued", ""}
  BY <1>1, <1>3, <1>4
<1> QED BY <1>5 DEF QueueChecks

LEMMA OpTrusted ==
    ASSUME RuuCore, NEW i, NEW m, DispatchOp(i, m)
    PROVE  panic' \notin QueueChecks
<1>1. /\ (i.kind = "trap" => RUU_num = 0) /\ panic = ""
      /\ panic' = (IF i.kind = "trap" /\ spec_mode THEN "drained and speculative"
                   ELSE IF rslinks' < 0 THEN "out of rs links" ELSE panic)
  BY DEF DispatchOp, MayDispatch
<1>2. ~(RUU_num = 0 /\ spec_mode)
  <2>1. 1..0 = {}
    OBVIOUS
  <2> QED BY <2>1 DEF RuuCore, OnePath
<1>3. panic' = "out of rs links" \/ panic' = ""
  BY <1>1, <1>2
<1> QED BY <1>3 DEF QueueChecks

\* The other actions stop the simulator for other reasons, if at all.
LEMMA OthersTrusted ==
    ASSUME Next, panic = "", ~CommitHead, ~Writeback, \A i, m : ~DispatchOp(i, m)
    PROVE  panic' \notin QueueChecks
<1> DEFINE Others == {"STD unknown array overflow, increase MAX_STD_UNKNOWNS", "out of rs links",
                      "issued inst !ready, issued, or completed", "store creates result", "mis-predicted store", ""}
<1>1. CommitDone \/ DropStaleEvent \/ WritebackDone \/ Tick \/ DispatchDone => panic' = ""
  BY DEF CommitDone, DropStaleEvent, WritebackDone, Tick, DispatchDone
<1>2. LsqRefresh => panic' \in Others
  BY DEF LsqRefresh
<1>3. DropStaleReady \/ IssueDone => panic' = ""
  BY DEF DropStaleReady, IssueDone
<1>4. IssueStore => panic' \in Others
  BY DEF IssueStore
<1>5. ASSUME NEW lat PROVE IssueToUnit(lat) => panic' \in Others
  BY DEF IssueToUnit
<1>6. Requeue => panic' \in Others
  BY DEF Requeue
<1>7. ASSUME NEW i PROVE DispatchMem(i) => panic' \in Others
  BY DEF DispatchMem
<1>8. panic' \in Others
  <2>1. Commit \/ WritebackStage \/ LsqRefresh \/ Issue \/ Dispatch \/ Tick
    BY DEF Next
  <2> HIDE DEF Others
  <2>2. "" \in Others
    BY DEF Others
  <2>3. CASE Commit \/ WritebackStage \/ LsqRefresh \/ Tick
    BY <1>1, <1>2, <2>2, <2>3 DEF Commit, WritebackStage
  <2>4. CASE Issue
    BY <1>3, <1>4, <1>5, <1>6, <2>2, <2>4 DEF Issue
  <2>5. CASE Dispatch
    BY <1>1, <1>7, <2>2, <2>5 DEF Dispatch
  <2> QED BY <2>1, <2>3, <2>4, <2>5
<1> QED BY <1>8 DEF QueueChecks

\* Whatever stops the simulator, it is no check of the circular queues, of the pairing of
\* address computations with accesses, or of the bounds of a speculation.
THEOREM RuuQueuesTrusted == Spec => []QueuesTrusted
<1>1. Init => RuuInv /\ QueuesTrusted
  BY InitCore DEF RuuInv, Init, QueuesTrusted, QueueChecks
<1>2. RuuInv /\ QueuesTrusted /\ [Next]_vars => RuuInv' /\ QueuesTrusted'
  <2> SUFFICES ASSUME RuuInv, QueuesTrusted, [Next]_vars PROVE RuuInv' /\ QueuesTrusted'
    OBVIOUS
  <2>1. RuuInv'
    BY RuuStep
  <2>2. CASE UNCHANGED vars
    BY <2>1, <2>2 DEF vars, QueuesTrusted
  <2>3. CASE Next
    <3>1. panic = "" /\ RuuCore
      BY <2>3, StepRuns DEF RuuInv, NoPanic
    <3>2. panic' \notin QueueChecks
      BY <2>3, <3>1, CommitTrusted, WritebackTrusted, OpTrusted, OthersTrusted
    <3> QED BY <2>1, <3>2 DEF QueuesTrusted
  <2> QED BY <2>2, <2>3
<1> QED BY <1>1, <1>2, PTL DEF Spec
-----------------------------------------------------------------------------
(* The refinement of Window.                                               *)

Proved == INSTANCE WindowProofs WITH Size <- RUU_size, win <- Slots

\* What a slot shows of a station.
SameShown(a, b) == /\ a.kind = b.kind /\ a.spec = b.spec /\ a.recover = b.recover
                   /\ a.completed = b.completed

LEMMA SlotList ==
    ASSUME NEW n \in Nat, NEW S, S = [k \in 1..n |-> S[k]], \A k \in 1..n : S[k] \in Proved!Entry
    PROVE  S \in Seq(Proved!Entry) /\ Len(S) = n
<1>1. S \in [1..n -> Proved!Entry]
  OBVIOUS
<1>2. S \in Seq(Proved!Entry)
  BY <1>1
<1> QED BY <1>1, <1>2, LenProperties

LEMMA SlotsAre ==
    ASSUME RuuCore
    PROVE  /\ Proved!WinTypeOK /\ Len(Slots) = RUU_num /\ RUU_num \in Nat
           /\ \A n \in 1..RUU_num : Slots[n] = Slot(n)
<1>1. RUU_num \in Nat /\ spec_mode \in BOOLEAN
  BY DEF RuuCore, Rings, Ring, Typed
<1>2. \A n \in 1..RUU_num : Slots[n] = Slot(n)
  BY DEF Slots
<1>3. ASSUME NEW n \in 1..RUU_num PROVE Slot(n) \in Proved!Entry
  <2>1. st[RuuLive[n]] \in StationType
    BY LiveLists, LiveIs DEF RuuCore, Typed, Lists
  <2>2. st[RuuLive[n]].spec \in BOOLEAN /\ st[RuuLive[n]].recover \in BOOLEAN
    BY <2>1 DEF StationType
  <2>3. (st[RuuLive[n]].completed /\ (EaComp(st[RuuLive[n]]) => st[LsqLive[Agens(n)]].completed)) \in BOOLEAN
    BY Zenon
  <2> QED BY <2>2, <2>3 DEF Slot, Proved!Entry
<1>4. Slots \in Seq(Proved!Entry) /\ Len(Slots) = RUU_num
  <2>1. Slots = [k \in 1..RUU_num |-> Slots[k]]
    BY DEF Slots
  <2>2. \A k \in 1..RUU_num : Slots[k] \in Proved!Entry
    BY <1>2, <1>3
  <2> QED BY <1>1, <2>1, <2>2, SlotList
<1> QED BY <1>1, <1>2, <1>4 DEF Proved!WinTypeOK

LEMMA SlotsAreNext ==
    ASSUME RuuCore'
    PROVE  /\ Proved!WinTypeOK' /\ Len(Slots') = RUU_num' /\ RUU_num' \in Nat
           /\ \A n \in 1..RUU_num' : Slots'[n] = Slot(n)'
<1>1. RUU_num' \in Nat /\ spec_mode' \in BOOLEAN /\ Rings'
  <2>1. Rings' /\ spec_mode' \in BOOLEAN
    BY DEF RuuCore, Typed
  <2>2. Ring(RUU_head', RUU_tail', RUU_num', RUU_size)
    BY <2>1 DEF Rings
  <2> QED BY <2>1, <2>2 DEF Ring
<1>2. \A n \in 1..RUU_num' : Slots'[n] = Slot(n)'
  BY DEF Slots
<1>3. ASSUME NEW n \in 1..RUU_num' PROVE Slot(n)' \in Proved!Entry
  <2>1. st'[RuuLive'[n]] \in StationType
    BY <1>1, LiveListsNext, LiveIs DEF RuuCore, Typed, Lists
  <2>2. st'[RuuLive'[n]].spec \in BOOLEAN /\ st'[RuuLive'[n]].recover \in BOOLEAN
    BY <2>1 DEF StationType
  <2>3. (st'[RuuLive'[n]].completed /\ (EaComp(st'[RuuLive'[n]]) => st'[LsqLive'[Agens(n)']].completed)) \in BOOLEAN
    BY Zenon
  <2> QED BY <2>2, <2>3 DEF Slot, Proved!Entry, EaComp
<1>4. Slots' \in Seq(Proved!Entry) /\ Len(Slots') = RUU_num'
  <2>1. Slots' = [k \in 1..RUU_num' |-> Slots'[k]]
    BY DEF Slots
  <2>2. \A k \in 1..RUU_num' : Slots'[k] \in Proved!Entry
    BY <1>2, <1>3
  <2> QED BY <1>1, <2>1, <2>2, SlotList
<1> QED BY <1>1, <1>2, <1>4 DEF Proved!WinTypeOK

\* Slot n becomes slot k: the same is shown of its station, and of its access if it has one.
LEMMA SlotSame ==
    ASSUME NEW n, NEW k, SameShown(st'[RuuLive'[n]], st[RuuLive[k]]),
           EaComp(st[RuuLive[k]]) => st'[LsqLive'[Agens(n)']].completed = st[LsqLive[Agens(k)]].completed
    PROVE  Slot(n)' = Slot(k)
<1>1. EaComp(st'[RuuLive'[n]]) <=> EaComp(st[RuuLive[k]])
  BY DEF SameShown, EaComp
<1> DEFINE d == st'[RuuLive'[n]].completed /\ (EaComp(st'[RuuLive'[n]]) => st'[LsqLive'[Agens(n)']].completed)
           e == st[RuuLive[k]].completed /\ (EaComp(st[RuuLive[k]]) => st[LsqLive[Agens(k)]].completed)
<1>2. d = e
  BY <1>1, Zenon DEF SameShown
<1>3. /\ Slot(n)' = [spec |-> st'[RuuLive'[n]].spec, recover |-> st'[RuuLive'[n]].recover, done |-> d]
      /\ Slot(k) = [spec |-> st[RuuLive[k]].spec, recover |-> st[RuuLive[k]].recover, done |-> e]
  BY DEF Slot, EaComp
<1> HIDE DEF d, e
<1> QED BY <1>2, <1>3 DEF SameShown

\* Nothing that is shown changes.
LEMMA QuietSlots ==
    ASSUME RuuCore, UNCHANGED queueVars, \A id \in Stations : SameShown(st'[id], st[id])
    PROVE  Slots' = Slots
<1>1. /\ RuuLive' = RuuLive /\ LsqLive' = LsqLive /\ RUU_num' = RUU_num /\ RUU_num \in Nat
  BY DEF queueVars, RuuLive, LsqLive, RuuCore, Rings, Ring
<1>2. /\ \A k \in 1..RUU_num : RuuLive[k] \in Stations
      /\ \A k \in 1..LSQ_num : LsqLive[k] \in Stations
  BY LiveLists, LiveIs DEF RuuCore, Lists
<1>3. ASSUME NEW n \in 1..RUU_num PROVE Slot(n)' = Slot(n)
  <2>1. \A k \in 1..n : k \in 1..RUU_num
    BY <1>1
  <2>2. {k \in 1..n : EaComp(st'[RuuLive[k]])} = {k \in 1..n : EaComp(st[RuuLive[k]])}
    BY <1>2, <2>1 DEF EaComp, SameShown
  <2>3. Agens(n)' = Agens(n)
    BY <1>1, <2>2 DEF Agens, EaComp
  <2>4. EaComp(st[RuuLive[n]]) => Agens(n) \in 1..LSQ_num
    BY DEF RuuCore, Paired
  <2>5. EaComp(st[RuuLive[n]]) => st'[LsqLive[Agens(n)]].completed = st[LsqLive[Agens(n)]].completed
    BY <1>2, <2>4 DEF SameShown
  <2> QED BY <1>1, <1>2, <2>3, <2>5, SlotSame
<1> QED BY <1>1, <1>3 DEF Slots
\* The head is gone, with its access.
LEMMA HeadSlots ==
    ASSUME RuuCore, RuuCore', NEW gone, HeadLeaves(EaComp(st[HeadRs]), gone)
    PROVE  Proved!Leave
<1>1. /\ RUU_num \in Nat /\ RUU_num > 0 /\ RUU_num' = RUU_num - 1
      /\ \A n \in 0..RUU_num - 1 : Agens(n)' = IF EaComp(st[HeadRs]) THEN Agens(n + 1) - 1 ELSE Agens(n + 1)
      /\ \A n \in 1..RUU_num - 1 : Kept(st'[RuuLive'[n]], st[RuuLive[n + 1]])
  BY HeadAgens
<1>2. \A n \in 1..LSQ_num' : LET m == IF EaComp(st[HeadRs]) THEN n + 1 ELSE n
                             IN Kept(st'[LsqLive'[n]], st[LsqLive[m]])
  BY HeadPaired
<1>3. /\ st[HeadRs].completed /\ (EaComp(st[HeadRs]) => st[HeadLsq].completed)
      /\ spec_mode' = spec_mode /\ HeadRs = RuuLive[1]
      /\ EaComp(st[HeadRs]) => HeadLsq = LsqLive[1]
  <2>1. HeadRs = RuuLive[1] /\ (EaComp(st[HeadRs]) => HeadLsq = LsqLive[1])
    BY HeadLines
  <2> QED BY <2>1 DEF HeadLeaves
<1>4. /\ Proved!WinTypeOK /\ Len(Slots) = RUU_num
      /\ \A n \in 1..RUU_num : Slots[n] = Slot(n)
      /\ Proved!WinTypeOK' /\ Len(Slots') = RUU_num'
      /\ \A n \in 1..RUU_num' : Slots'[n] = Slot(n)'
  BY SlotsAre, SlotsAreNext
<1>5. Slots[1].done
  <2>1. 1 \in 1..RUU_num /\ 1 \in 0..RUU_num
    BY <1>1
  <2>2. EaComp(st[RuuLive[1]]) => Agens(1) = 1
    <3> SUFFICES ASSUME EaComp(st[RuuLive[1]]) PROVE Agens(1) = 1
      OBVIOUS
    <3>1. Agens(1) = NumUpto(AgenPlaces, 1) /\ Agens(1) \in 1..LSQ_num
      BY <1>1, <2>1, AgensIs DEF RuuCore, Paired
    <3>2. NumUpto(AgenPlaces, 1) \in 0..1
      BY UptoFinite
    <3> QED BY <3>1, <3>2
  <2>3. Slot(1).done
    BY <1>3, <2>2 DEF Slot
  <2> QED BY <1>4, <2>1, <2>3
<1>6. ASSUME NEW n \in 1..RUU_num - 1 PROVE Slots'[n] = Slots[n + 1]
  <2>1. n \in 1..RUU_num' /\ n + 1 \in 1..RUU_num /\ n \in 0..RUU_num - 1
    BY <1>1
  <2>2. Kept(st'[RuuLive'[n]], st[RuuLive[n + 1]])
    BY <1>1
  <2>3. ASSUME EaComp(st[RuuLive[n + 1]])
        PROVE  st'[LsqLive'[Agens(n)']].completed = st[LsqLive[Agens(n + 1)]].completed
    <3>1. EaComp(st'[RuuLive'[n]])
      BY <2>2, <2>3 DEF Kept, EaComp
    <3>2. PICK a : a = Agens(n)'
      OBVIOUS
    <3>3. a \in 1..LSQ_num'
      <4>1. Paired'
        BY DEF RuuCore
      <4> QED BY <2>1, <3>1, <3>2, <4>1 DEF Paired, EaComp
    <3>4. PICK m : m = IF EaComp(st[HeadRs]) THEN a + 1 ELSE a
      OBVIOUS
    <3>5. m = Agens(n + 1)
      <4>1. a = IF EaComp(st[HeadRs]) THEN Agens(n + 1) - 1 ELSE Agens(n + 1)
        BY <1>1, <2>1, <3>2
      <4>2. Agens(n + 1) \in 1..LSQ_num
        BY <2>1, <2>3 DEF RuuCore, Paired
      <4> QED BY <3>4, <4>1, <4>2
    <3>6. Kept(st'[LsqLive'[a]], st[LsqLive[m]])
      BY <1>2, <3>3, <3>4
    <3> QED BY <3>2, <3>5, <3>6 DEF Kept
  <2>4. SameShown(st'[RuuLive'[n]], st[RuuLive[n + 1]])
    BY <2>2 DEF Kept, SameShown
  <2>5. Slot(n)' = Slot(n + 1)
    BY <2>3, <2>4, SlotSame
  <2> QED BY <1>4, <2>1, <2>5
<1> QED BY <1>1, <1>3, <1>4, <1>5, <1>6, Proved!LeavesIf

\* The new entries are the next instruction of the path.
LEMMA EntersSlots ==
    ASSUME RuuCore, RuuCore', NEW new, Entered(new), NEW id, NEW m, NEW n, NEW d,
           Appended(new, id, m, n, d), RUU_num < RUU_size, NEW mispredict \in BOOLEAN,
           st'[id].recover <=> mispredict, mispredict => ~spec_mode, spec_mode' = (spec_mode \/ mispredict)
    PROVE  Proved!Enter(mispredict)
<1>1. /\ RUU_num = m /\ RUU_num' = m + 1 /\ id \in new /\ RuuLive'[m + 1] = id
      /\ \A k \in 1..m : RuuLive'[k] = RuuLive[k]
      /\ \A k \in 1..n : LsqLive'[k] = LsqLive[k]
      /\ LSQ_num = n
  BY DEF Appended
<1>2. /\ m \in Nat /\ n \in Nat
      /\ \A k \in 0..m : Agens(k)' = Agens(k)
      /\ \A k \in 1..m : SameInstr(st'[RuuLive'[k]], st[RuuLive[k]])
      /\ \A k \in 1..n : SameInstr(st'[LsqLive'[k]], st[LsqLive[k]])
  BY AppendedIs
<1>3. /\ Proved!WinTypeOK /\ Len(Slots) = RUU_num
      /\ \A k \in 1..RUU_num : Slots[k] = Slot(k)
      /\ Proved!WinTypeOK' /\ Len(Slots') = RUU_num'
      /\ \A k \in 1..RUU_num' : Slots'[k] = Slot(k)'
  BY SlotsAre, SlotsAreNext
<1>4. ASSUME NEW k \in 1..m PROVE Slots'[k] = Slots[k]
  <2>1. k \in 0..m /\ k \in 1..RUU_num' /\ k \in 1..RUU_num
    BY <1>1, <1>2
  <2>2. SameShown(st'[RuuLive'[k]], st[RuuLive[k]])
    BY <1>2 DEF SameInstr, SameShown
  <2>3. ASSUME EaComp(st[RuuLive[k]])
        PROVE  st'[LsqLive'[Agens(k)']].completed = st[LsqLive[Agens(k)]].completed
    <3>1. PICK a : a = Agens(k)' /\ a = Agens(k)
      BY <1>2, <2>1
    <3>2. a \in 1..n
      BY <1>1, <2>1, <2>3, <3>1 DEF RuuCore, Paired
    <3>3. SameInstr(st'[LsqLive'[a]], st[LsqLive[a]])
      BY <1>2, <3>2
    <3> QED BY <3>1, <3>3 DEF SameInstr
  <2>4. Slot(k)' = Slot(k)
    BY <2>2, <2>3, SlotSame
  <2> QED BY <1>3, <2>1, <2>4
<1>5. Slots'[m + 1] = [spec |-> spec_mode, recover |-> mispredict, done |-> FALSE]
  <2>1. st'[id] \in StationType /\ ~st'[id].completed /\ (st'[id].spec <=> spec_mode)
    BY <1>1 DEF Entered
  <2>2. st'[id].spec = spec_mode /\ st'[id].recover = mispredict
    <3>1. st'[id].spec \in BOOLEAN /\ st'[id].recover \in BOOLEAN /\ spec_mode \in BOOLEAN
      BY <2>1 DEF StationType, RuuCore, Typed
    <3> QED BY <2>1, <3>1
  <2> DEFINE d1 == st'[RuuLive'[m + 1]].completed /\ (EaComp(st'[RuuLive'[m + 1]]) => st'[LsqLive'[Agens(m + 1)']].completed)
  <2>3. Slot(m + 1)' = [spec |-> st'[RuuLive'[m + 1]].spec, recover |-> st'[RuuLive'[m + 1]].recover, done |-> d1]
    BY DEF Slot, EaComp
  <2>4. d1 = FALSE
    BY <1>1, <2>1
  <2> HIDE DEF d1
  <2>5. Slot(m + 1)' = [spec |-> spec_mode, recover |-> mispredict, done |-> FALSE]
    BY <1>1, <2>2, <2>3, <2>4
  <2>6. m + 1 \in 1..RUU_num'
    BY <1>1, <1>2
  <2> QED BY <1>3, <2>5, <2>6
<1> QED BY <1>1, <1>3, <1>4, <1>5, Proved!EntersIf

\* No two address computations have the same access.
LEMMA AgensDiffer ==
    ASSUME RuuCore, NEW i \in 1..RUU_num, NEW j \in 1..RUU_num, EaComp(st[RuuLive[i]]), EaComp(st[RuuLive[j]]),
           Agens(i) = Agens(j)
    PROVE  i = j
<1>1. RUU_num \in Nat
  BY DEF RuuCore, Rings, Ring
<1>2. ASSUME NEW a \in 1..RUU_num, NEW b \in 1..RUU_num, EaComp(st[RuuLive[b]]), a < b
      PROVE  Agens(a) # Agens(b)
  <2>1. b - 1 \in Nat /\ a \in 0..b - 1 /\ b - 1 + 1 = b /\ a \in 0..RUU_num /\ b \in 0..RUU_num /\ a \in Nat
    BY <1>1, <1>2
  <2>2. b \in AgenPlaces
    BY <1>2 DEF AgenPlaces
  <2>3. NumUpto(AgenPlaces, b) = NumUpto(AgenPlaces, b - 1) + 1 /\ NumUpto(AgenPlaces, b - 1) \in Nat
    BY <2>1, <2>2, CountNext, UptoFinite
  <2>4. NumUpto(AgenPlaces, a) <= NumUpto(AgenPlaces, b - 1) /\ NumUpto(AgenPlaces, a) \in Nat
    <3>1. NumUpto(AgenPlaces, a) \in Nat
      BY <2>1, UptoFinite
    <3>2. NumUpto(AgenPlaces, a) <= NumUpto(AgenPlaces, b - 1)
      BY <2>1, CountBehind
    <3> QED BY <3>1, <3>2
  <2>5. Agens(a) = NumUpto(AgenPlaces, a) /\ Agens(b) = NumUpto(AgenPlaces, b)
    BY <1>1, <2>1, AgensIs
  <2> QED BY <2>3, <2>4, <2>5
<1>3. i < j \/ j < i \/ i = j
  BY <1>1
<1> QED BY <1>2, <1>3

\* Station x completes, and the first o instructions stay.
Completing(x, o) ==
    /\ x \in Live /\ ~st[x].completed /\ (st[x].recover => ~InLSQ(st[x]))
    /\ o \in 0..RUU_num /\ RUU_num' = o
    /\ \A n \in 1..o : RuuLive'[n] = RuuLive[n]
    /\ \A n \in 1..o : EaComp(st[RuuLive[n]]) => Agens(n)' = Agens(n) /\ LsqLive'[Agens(n)] = LsqLive[Agens(n)]
    /\ \A t \in Stations : /\ st'[t].kind = st[t].kind /\ st'[t].spec = st[t].spec
                           /\ st'[t].recover = st[t].recover
                           /\ st'[t].completed = (st[t].completed \/ t = x)
    /\ IF st[x].recover THEN o # 0 /\ RuuLive[o] = x ELSE o = RUU_num
    /\ spec_mode' = (spec_mode /\ ~st[x].recover)

LEMMA SetDone ==
    ASSUME NEW r \in Proved!Entry, NEW s \in Proved!Entry, s.spec = r.spec, s.recover = r.recover, s.done
    PROVE  s = [r EXCEPT !.done = TRUE]
BY DEF Proved!Entry

\* Slot n completes.
SlotDone(n) == Slot(n)' = [Slot(n) EXCEPT !.done = TRUE]

LEMMA SlotDoneIf ==
    ASSUME NEW n, Slot(n) \in Proved!Entry, Slot(n)' \in Proved!Entry,
           st'[RuuLive'[n]].kind = st[RuuLive[n]].kind,
           st'[RuuLive'[n]].spec = st[RuuLive[n]].spec, st'[RuuLive'[n]].recover = st[RuuLive[n]].recover,
           st'[RuuLive'[n]].completed, EaComp(st[RuuLive[n]]) => st'[LsqLive'[Agens(n)']].completed
    PROVE  SlotDone(n)
<1> DEFINE d == st'[RuuLive'[n]].completed /\ (EaComp(st'[RuuLive'[n]]) => st'[LsqLive'[Agens(n)']].completed)
           e == st[RuuLive[n]].completed /\ (EaComp(st[RuuLive[n]]) => st[LsqLive[Agens(n)]].completed)
<1>2. d = TRUE
  <2>1. d
    BY DEF EaComp
  <2> QED BY <2>1
<1>3. /\ Slot(n)' = [spec |-> st'[RuuLive'[n]].spec, recover |-> st'[RuuLive'[n]].recover, done |-> d]
      /\ Slot(n) = [spec |-> st[RuuLive[n]].spec, recover |-> st[RuuLive[n]].recover, done |-> e]
  BY DEF Slot, EaComp
<1> HIDE DEF d, e
<1>4. /\ Slot(n)'.spec = Slot(n).spec /\ Slot(n)'.recover = Slot(n).recover /\ Slot(n)'.done
  BY <1>2, <1>3
<1> HIDE DEF Slot
<1> QED BY <1>4, SetDone DEF SlotDone

LEMMA CompletesSlots ==
    ASSUME RuuCore, RuuCore', NEW x, NEW o, Completing(x, o)
    PROVE  (\E i \in 1..RUU_num : Proved!Complete(i)) \/ UNCHANGED <<Slots, spec_mode>>
<1>1. /\ x \in Live /\ ~st[x].completed /\ (st[x].recover => ~InLSQ(st[x]))
      /\ o \in 0..RUU_num /\ RUU_num' = o /\ RUU_num \in Nat /\ spec_mode \in BOOLEAN
      /\ \A n \in 1..o : RuuLive'[n] = RuuLive[n]
      /\ \A n \in 1..o : EaComp(st[RuuLive[n]]) => Agens(n)' = Agens(n) /\ LsqLive'[Agens(n)] = LsqLive[Agens(n)]
      /\ IF st[x].recover THEN o # 0 /\ RuuLive[o] = x ELSE o = RUU_num
      /\ spec_mode' = (spec_mode /\ ~st[x].recover)
  BY DEF Completing, RuuCore, Rings, Ring, Typed
<1>2. \A t \in Stations : /\ st'[t].kind = st[t].kind /\ st'[t].spec = st[t].spec
                         /\ st'[t].recover = st[t].recover
                         /\ st'[t].completed = (st[t].completed \/ t = x)
  BY DEF Completing
<1>3. /\ \A k \in 1..RUU_num : RuuLive[k] \in Stations /\ RuuLive[k] \in RuuIds /\ ~InLSQ(st[RuuLive[k]])
      /\ \A k \in 1..LSQ_num : LsqLive[k] \in Stations /\ LsqLive[k] \in LsqIds /\ InLSQ(st[LsqLive[k]])
      /\ \A j, k \in 1..RUU_num : RuuLive[j] = RuuLive[k] => j = k
      /\ \A j, k \in 1..LSQ_num : LsqLive[j] = LsqLive[k] => j = k
  BY LiveLists, LiveIs DEF RuuCore, Lists, Paired
<1>4. /\ Proved!WinTypeOK /\ Len(Slots) = RUU_num
      /\ \A n \in 1..RUU_num : Slots[n] = Slot(n)
      /\ Proved!WinTypeOK' /\ Len(Slots') = RUU_num'
      /\ \A n \in 1..RUU_num' : Slots'[n] = Slot(n)'
  BY SlotsAre, SlotsAreNext
<1>5. \A n \in 1..o : n \in 1..RUU_num
  BY <1>1
<1>6. \A n \in 1..RUU_num : EaComp(st[RuuLive[n]]) => Agens(n) \in 1..LSQ_num /\ ~st[RuuLive[n]].recover
  BY <1>3 DEF RuuCore, Paired, KindsSound
\* A slot that x is no part of stays as it is.
<1>7. ASSUME NEW n \in 1..o, RuuLive[n] # x, EaComp(st[RuuLive[n]]) => LsqLive[Agens(n)] # x
      PROVE  Slot(n)' = Slot(n)
  <2>1. n \in 1..RUU_num /\ RuuLive[n] \in Stations
    BY <1>3, <1>5
  <2>2. st'[RuuLive[n]] \in StationType /\ st[RuuLive[n]] \in StationType
    BY <2>1 DEF RuuCore, Typed
  <2>3. st'[RuuLive[n]].completed = st[RuuLive[n]].completed
    <3>1. st[RuuLive[n]].completed \in BOOLEAN
      BY <2>2 DEF StationType
    <3> QED BY <1>2, <1>7, <2>1, <3>1
  <2>4. SameShown(st'[RuuLive'[n]], st[RuuLive[n]])
    BY <1>1, <1>2, <2>1, <2>3 DEF SameShown
  <2>5. ASSUME EaComp(st[RuuLive[n]])
        PROVE  st'[LsqLive'[Agens(n)']].completed = st[LsqLive[Agens(n)]].completed
    <3>1. LsqLive[Agens(n)] \in Stations
      BY <1>3, <1>6, <2>1, <2>5
    <3>2. st[LsqLive[Agens(n)]].completed \in BOOLEAN
      BY <3>1 DEF RuuCore, Typed, StationType
    <3>3. st'[LsqLive[Agens(n)]].completed = st[LsqLive[Agens(n)]].completed
      BY <1>2, <1>7, <2>5, <3>1, <3>2
    <3> QED BY <1>1, <2>5, <3>3
  <2> QED BY <2>4, <2>5, SlotSame
\* Slot i completes, if x was what it lacked.
<1>8. ASSUME NEW i \in 1..o, o = (IF Slot(i).recover THEN i ELSE RUU_num), ~Slot(i).done,
             st[x].recover <=> Slot(i).recover, SlotDone(i),
             \A n \in 1..o : n # i => RuuLive[n] # x /\ (EaComp(st[RuuLive[n]]) => LsqLive[Agens(n)] # x)
      PROVE  Proved!Complete(i)
  <2>1. i \in 1..Len(Slots) /\ Slots[i] = Slot(i)
    BY <1>4, <1>5
  <2>2. \A n \in 1..Len(Slots') : Slots'[n] = IF n = i THEN [Slots[i] EXCEPT !.done = TRUE] ELSE Slots[n]
    <3> TAKE n \in 1..Len(Slots')
    <3>1. n \in 1..o /\ n \in 1..RUU_num /\ Slots'[n] = Slot(n)' /\ Slots[n] = Slot(n)
      BY <1>1, <1>4, <1>5
    <3>2. CASE n = i
      BY <1>8, <2>1, <3>1, <3>2 DEF SlotDone
    <3>3. CASE n # i
      BY <1>7, <1>8, <3>1, <3>3
    <3> QED BY <3>2, <3>3
  <2>3. Len(Slots') = (IF Slots[i].recover THEN i ELSE Len(Slots))
    BY <1>1, <1>4, <1>8, <2>1
  <2>4. spec_mode' = (spec_mode /\ ~Slots[i].recover)
    BY <1>1, <1>8, <2>1
  <2> QED BY <1>4, <1>8, <2>1, <2>2, <2>3, <2>4, Proved!CompletesIf
\* Or none does, and then nothing is to recover.
<1>9. ASSUME ~st[x].recover, \A n \in 1..o : Slot(n)' = Slot(n) PROVE UNCHANGED <<Slots, spec_mode>>
  <2>1. o = RUU_num /\ spec_mode' = spec_mode
    BY <1>1, <1>9
  <2>2. Slots' = Slots
    BY <1>1, <1>9, <2>1 DEF Slots
  <2> QED BY <2>1, <2>2
<1>10. ASSUME NEW i \in 1..o PROVE Slot(i).recover = st[RuuLive[i]].recover
  BY DEF Slot
<1>11. ASSUME NEW i \in 1..o, st'[RuuLive'[i]].completed,
              EaComp(st[RuuLive[i]]) => st'[LsqLive'[Agens(i)']].completed
       PROVE  SlotDone(i)
  <2>1. i \in 1..RUU_num /\ RuuLive[i] \in Stations /\ RuuLive'[i] = RuuLive[i]
    BY <1>1, <1>3, <1>5
  <2>2. /\ st'[RuuLive'[i]].kind = st[RuuLive[i]].kind /\ st'[RuuLive'[i]].spec = st[RuuLive[i]].spec
        /\ st'[RuuLive'[i]].recover = st[RuuLive[i]].recover
    BY <1>2, <2>1
  <2>3. Slot(i) \in Proved!Entry /\ Slot(i)' \in Proved!Entry
    <3>1. i \in 1..Len(Slots) /\ i \in 1..Len(Slots') /\ Slots[i] = Slot(i) /\ Slots'[i] = Slot(i)'
      BY <1>1, <1>4, <2>1
    <3> QED BY <1>4, <3>1, ElementOfSeq DEF Proved!WinTypeOK
  <2> QED BY <1>11, <2>2, <2>3, SlotDoneIf
<1>12. CASE \E i \in 1..RUU_num : x = RuuLive[i]
  <2>1. PICK i \in 1..RUU_num : x = RuuLive[i]
    BY <1>12
  <2>2. i \in 1..o /\ x \in Stations /\ st'[x].completed /\ RuuLive'[i] = x
    <3>1. i \in 1..o
      BY <1>1, <1>3, <2>1
    <3> QED BY <1>1, <1>2, <1>3, <2>1, <3>1
  <2>3. o = (IF Slot(i).recover THEN i ELSE RUU_num)
    BY <1>1, <1>3, <1>10, <2>1, <2>2
  <2>4. ~Slot(i).done
    BY <1>1, <2>1 DEF Slot
  <2>5. ASSUME NEW n \in 1..o, n # i
        PROVE  RuuLive[n] # x /\ (EaComp(st[RuuLive[n]]) => LsqLive[Agens(n)] # x)
    <3>1. n \in 1..RUU_num /\ RuuLive[n] # x
      BY <1>3, <1>5, <2>1, <2>5
    <3>2. EaComp(st[RuuLive[n]]) => LsqLive[Agens(n)] \in LsqIds
      BY <1>3, <1>6, <3>1
    <3> QED BY <1>3, <2>1, <3>1, <3>2, LiveIs
  <2>6. CASE EaComp(st[x]) => st[LsqLive[Agens(i)]].completed
    <3>1. EaComp(st[RuuLive[i]]) => st'[LsqLive'[Agens(i)']].completed
      <4> SUFFICES ASSUME EaComp(st[RuuLive[i]]) PROVE st'[LsqLive'[Agens(i)']].completed
        OBVIOUS
      <4>1. Agens(i)' = Agens(i) /\ LsqLive'[Agens(i)] = LsqLive[Agens(i)] /\ LsqLive[Agens(i)] \in Stations
        BY <1>1, <1>3, <1>6, <2>2
      <4>2. st'[LsqLive[Agens(i)]].completed
        BY <1>2, <2>1, <2>6, <4>1
      <4> QED BY <4>1, <4>2
    <3>2. SlotDone(i)
      BY <1>11, <2>2, <3>1
    <3> QED BY <1>8, <1>10, <2>1, <2>2, <2>3, <2>4, <2>5, <3>2
  <2>7. CASE EaComp(st[x]) /\ ~st[LsqLive[Agens(i)]].completed
    <3>1. ~st[x].recover
      BY <1>6, <2>1, <2>7
    <3>2. /\ Agens(i)' = Agens(i) /\ LsqLive'[Agens(i)] = LsqLive[Agens(i)]
          /\ LsqLive[Agens(i)] \in Stations /\ LsqLive[Agens(i)] # x
      <4>1. Agens(i) \in 1..LSQ_num
        BY <1>6, <2>1, <2>7
      <4>2. LsqLive[Agens(i)] \in LsqIds /\ x \in RuuIds /\ LsqLive[Agens(i)] \in Stations
        BY <1>3, <2>1, <4>1
      <4> QED BY <1>1, <2>1, <2>2, <2>7, <4>2, LiveIs
    <3>3. ~st'[LsqLive'[Agens(i)']].completed
      BY <1>2, <2>7, <3>2
    <3>4. Slot(i)' = Slot(i)
      <4> DEFINE d == st'[RuuLive'[i]].completed /\ (EaComp(st'[RuuLive'[i]]) => st'[LsqLive'[Agens(i)']].completed)
                 e == st[RuuLive[i]].completed /\ (EaComp(st[RuuLive[i]]) => st[LsqLive[Agens(i)]].completed)
      <4>1. EaComp(st'[x]) /\ st'[x].spec = st[x].spec /\ st'[x].recover = st[x].recover
        BY <1>2, <2>2, <2>7 DEF EaComp
      <4>2. d = FALSE /\ e = FALSE
        BY <2>1, <2>2, <2>7, <3>3, <4>1
      <4>3. /\ Slot(i)' = [spec |-> st'[RuuLive'[i]].spec, recover |-> st'[RuuLive'[i]].recover, done |-> d]
            /\ Slot(i) = [spec |-> st[RuuLive[i]].spec, recover |-> st[RuuLive[i]].recover, done |-> e]
        BY DEF Slot, EaComp
      <4> HIDE DEF d, e
      <4> QED BY <2>1, <2>2, <4>1, <4>2, <4>3
    <3>5. \A n \in 1..o : Slot(n)' = Slot(n)
      BY <1>7, <2>5, <3>4
    <3> QED BY <1>9, <3>1, <3>5
  <2> QED BY <2>6, <2>7
<1>13. CASE \E p \in 1..LSQ_num : x = LsqLive[p]
  <2>1. PICK p \in 1..LSQ_num : x = LsqLive[p]
    BY <1>13
  <2>2. ~st[x].recover /\ o = RUU_num /\ x \in Stations /\ x \in LsqIds /\ st'[x].completed
    BY <1>1, <1>2, <1>3, <2>1
  <2>3. \A n \in 1..o : RuuLive[n] # x
    BY <1>3, <1>5, <2>2, LiveIs
  <2>4. CASE \E i \in 1..RUU_num : EaComp(st[RuuLive[i]]) /\ Agens(i) = p /\ st[RuuLive[i]].completed
    <3>1. PICK i \in 1..RUU_num : EaComp(st[RuuLive[i]]) /\ Agens(i) = p /\ st[RuuLive[i]].completed
      BY <2>4
    <3>2. i \in 1..o /\ ~Slot(i).recover /\ ~Slot(i).done
      <4>1. i \in 1..o /\ ~st[RuuLive[i]].recover
        BY <1>6, <2>2, <3>1
      <4> QED BY <1>1, <1>10, <2>1, <3>1, <4>1 DEF Slot
    <3>3. ASSUME NEW n \in 1..o, n # i, EaComp(st[RuuLive[n]]) PROVE LsqLive[Agens(n)] # x
      <4>1. n \in 1..RUU_num /\ Agens(n) \in 1..LSQ_num
        BY <1>5, <1>6, <3>3
      <4>2. Agens(n) # p
        BY <3>1, <3>3, <4>1, AgensDiffer
      <4> QED BY <1>3, <2>1, <4>1, <4>2
    <3>4. SlotDone(i)
      <4>1. RuuLive[i] \in Stations /\ RuuLive'[i] = RuuLive[i]
        BY <1>1, <1>3, <3>2
      <4>2. st'[RuuLive'[i]].completed
        BY <1>2, <3>1, <4>1
      <4>3. st'[LsqLive'[Agens(i)']].completed
        <5>1. Agens(i)' = Agens(i) /\ LsqLive'[Agens(i)] = LsqLive[Agens(i)]
          BY <1>1, <3>1, <3>2
        <5> QED BY <2>1, <2>2, <3>1, <5>1
      <4> QED BY <1>11, <3>2, <4>2, <4>3
    <3> QED BY <1>8, <2>2, <2>3, <3>2, <3>3, <3>4
  <2>5. CASE \A i \in 1..RUU_num : ~(EaComp(st[RuuLive[i]]) /\ Agens(i) = p /\ st[RuuLive[i]].completed)
    <3>1. ASSUME NEW n \in 1..o PROVE Slot(n)' = Slot(n)
      <4>1. n \in 1..RUU_num /\ RuuLive[n] \in Stations /\ RuuLive'[n] = RuuLive[n] /\ RuuLive[n] # x
        BY <1>1, <1>3, <1>5, <2>3
      <4>2. CASE EaComp(st[RuuLive[n]]) => Agens(n) # p
        <5>1. EaComp(st[RuuLive[n]]) => LsqLive[Agens(n)] # x
          BY <1>3, <1>6, <2>1, <4>1, <4>2
        <5> QED BY <1>7, <4>1, <5>1
      <4>3. CASE EaComp(st[RuuLive[n]]) /\ Agens(n) = p
        <5> DEFINE d == st'[RuuLive'[n]].completed /\ (EaComp(st'[RuuLive'[n]]) => st'[LsqLive'[Agens(n)']].completed)
                   e == st[RuuLive[n]].completed /\ (EaComp(st[RuuLive[n]]) => st[LsqLive[Agens(n)]].completed)
        <5>1. ~st[RuuLive[n]].completed
          BY <2>5, <4>1, <4>3
        <5>2. /\ ~st'[RuuLive[n]].completed /\ st'[RuuLive[n]].spec = st[RuuLive[n]].spec
              /\ st'[RuuLive[n]].recover = st[RuuLive[n]].recover
          BY <1>2, <4>1, <5>1
        <5>3. d = FALSE /\ e = FALSE
          BY <4>1, <5>1, <5>2
        <5>4. /\ Slot(n)' = [spec |-> st'[RuuLive'[n]].spec, recover |-> st'[RuuLive'[n]].recover, done |-> d]
              /\ Slot(n) = [spec |-> st[RuuLive[n]].spec, recover |-> st[RuuLive[n]].recover, done |-> e]
          BY DEF Slot, EaComp
        <5> HIDE DEF d, e
        <5> QED BY <4>1, <5>2, <5>3, <5>4
      <4> QED BY <4>2, <4>3
    <3> QED BY <1>9, <2>2, <3>1
  <2> QED BY <2>4, <2>5
<1> QED BY <1>1, <1>12, <1>13, LiveLists DEF RuuCore

-----------------------------------------------------------------------------

WindowStep == Proved!WinNext \/ UNCHANGED <<Slots, spec_mode>>

LEMMA QuietWindow ==
    ASSUME RuuCore, UNCHANGED <<queueVars, spec_mode>>, \A id \in Stations : SameShown(st'[id], st[id])
    PROVE  WindowStep
BY QuietSlots DEF WindowStep

LEMMA SameWindow ==
    ASSUME RuuCore, UNCHANGED <<st, queueVars, spec_mode>>
    PROVE  WindowStep
<1>1. \A id \in Stations : SameShown(st'[id], st[id])
  BY DEF SameShown
<1> QED BY <1>1, QuietWindow

LEMMA CompletingWindow ==
    ASSUME RuuCore, RuuCore', NEW x, NEW o, Completing(x, o)
    PROVE  WindowStep
<1>1. DOMAIN Slots = 1..RUU_num
  BY DEF Slots
<1> QED BY <1>1, CompletesSlots DEF WindowStep, Proved!WinNext

LEMMA CommitWindow ==
    ASSUME RuuCore, RuuCore', NoPanic', Commit
    PROVE  WindowStep
<1>1. CASE CommitHead
  <2>1. PICK gone : HeadLeaves(EaComp(st[HeadRs]), gone)
    BY <1>1, CommitLeaves
  <2>2. Proved!Leave
    BY <2>1, HeadSlots
  <2> QED BY <2>2 DEF WindowStep, Proved!WinNext
<1>2. CASE CommitDone
  <2>1. UNCHANGED <<st, queueVars, spec_mode>>
    BY <1>2 DEF CommitDone
  <2> QED BY <2>1, SameWindow
<1> QED BY <1>1, <1>2 DEF Commit

LEMMA WritebackCompletes ==
    ASSUME RuuCore, Writeback, NoPanic', NEW o, WrittenBack(o)
    PROVE  Completing(Finished, o)
<1>1. /\ ~st[Finished].completed /\ (st[Finished].recover => ~InLSQ(st[Finished]))
      /\ spec_mode' = (spec_mode /\ ~st[Finished].recover)
  BY WritebackChecked, WritebackIs
<1>2. /\ CutAt(o) /\ Finished \in Live /\ RUU_num' = o /\ \A t \in Stations : Becomes(t, st'[t])
  BY DEF WrittenBack
<1>3. /\ \A n \in 0..o : Agens(n)' = Agens(n)
      /\ \A n \in 1..o : n \in 1..RUU_num /\ RuuLive[n] \in Stations /\ RuuLive'[n] = RuuLive[n]
      /\ \A n \in 1..Agens(o) : LsqLive'[n] = LsqLive[n]
  BY WritebackPaired
<1>4. /\ o \in 0..RUU_num /\ Agens(o) \in 0..LSQ_num /\ RUU_num \in Nat /\ LSQ_num \in Nat
      /\ IF st[Finished].recover THEN o # 0 /\ RuuLive[o] = Finished ELSE o = RUU_num
  BY <1>2 DEF CutAt, RuuCore, Rings, Ring
<1>5. ASSUME NEW n \in 1..o, EaComp(st[RuuLive[n]])
      PROVE  Agens(n)' = Agens(n) /\ LsqLive'[Agens(n)] = LsqLive[Agens(n)]
  <2>1. n \in 0..o /\ n \in 0..RUU_num /\ n \in 1..RUU_num /\ o \in Nat
    BY <1>4
  <2>2. Agens(n) = NumUpto(AgenPlaces, n) /\ Agens(o) = NumUpto(AgenPlaces, o)
    BY <1>4, <2>1, AgensIs
  <2>3. Agens(n) <= Agens(o)
    BY <2>1, <2>2, CountBehind
  <2>4. Agens(n) \in 1..LSQ_num
    BY <1>5, <2>1 DEF RuuCore, Paired
  <2>5. Agens(n) \in 1..Agens(o)
    BY <1>4, <2>3, <2>4
  <2> QED BY <1>3, <2>1, <2>5
<1>6. ASSUME NEW t \in Stations
      PROVE  /\ st'[t].kind = st[t].kind /\ st'[t].spec = st[t].spec /\ st'[t].recover = st[t].recover
             /\ st'[t].completed = (st[t].completed \/ t = Finished)
  <2>1. Becomes(t, st'[t])
    BY <1>2
  <2>2. /\ st'[t].completed \in BOOLEAN /\ (st'[t].completed <=> st[t].completed \/ t = Finished)
        /\ st'[t].kind = st[t].kind /\ st'[t].spec = st[t].spec /\ st'[t].recover = st[t].recover
    BY <2>1 DEF Becomes, StationType
  <2> QED BY <2>2
<1> QED BY <1>1, <1>2, <1>3, <1>4, <1>5, <1>6 DEF Completing

LEMMA WritebackWindow ==
    ASSUME RuuCore, RuuCore', NoPanic', WritebackStage
    PROVE  WindowStep
<1>1. CASE Writeback
  <2>1. PICK o : WrittenBack(o)
    BY <1>1, WritebackLines
  <2> QED BY <1>1, <2>1, WritebackCompletes, CompletingWindow
<1>2. CASE DropStaleEvent \/ WritebackDone
  <2>1. UNCHANGED <<st, queueVars, spec_mode>>
    BY <1>2 DEF DropStaleEvent, WritebackDone
  <2> QED BY <2>1, SameWindow
<1> QED BY <1>1, <1>2 DEF WritebackStage

LEMMA RefreshWindow ==
    ASSUME RuuCore, LsqRefresh
    PROVE  WindowStep
<1>1. (\E loads : st' = MarkQueued(st, loads)) /\ UNCHANGED <<queueVars, spec_mode>>
  BY DEF LsqRefresh
<1>2. PICK loads : st' = MarkQueued(st, loads)
  BY <1>1
<1>3. ASSUME NEW id \in Stations PROVE SameShown(st'[id], st[id])
  <2>1. st[id] \in StationType
    BY DEF RuuCore, Typed
  <2>2. st'[id] = [st[id] EXCEPT !.queued = TRUE] \/ st'[id] = st[id]
    BY <1>2 DEF MarkQueued
  <2> QED BY <2>1, <2>2 DEF StationType, SameShown
<1> QED BY <1>1, <1>3, QuietWindow

LEMMA IssueWindow ==
    ASSUME RuuCore, RuuCore', NoPanic', Issue
    PROVE  WindowStep
<1>1. CASE DropStaleReady \/ Requeue \/ IssueDone
  <2>1. UNCHANGED <<st, queueVars, spec_mode>>
    BY <1>1 DEF DropStaleReady, Requeue, IssueDone, issueFrame
  <2> QED BY <2>1, SameWindow
<1>2. ASSUME NEW lat, IssueToUnit(lat) PROVE WindowStep
  <2>1. /\ st' = [st EXCEPT ![AtScan].queued = FALSE, ![AtScan].issued = TRUE]
        /\ UNCHANGED <<queueVars, spec_mode>>
    BY <1>2 DEF IssueToUnit, issueFrame
  <2>2. ASSUME NEW id \in Stations PROVE SameShown(st'[id], st[id])
    <3>1. st \in [Stations -> StationType] /\ st[id] \in StationType
      BY DEF RuuCore, Typed
    <3>2. st'[id] = [st[id] EXCEPT !.queued = FALSE, !.issued = TRUE] \/ st'[id] = st[id]
      BY <2>1, <3>1
    <3> QED BY <3>1, <3>2 DEF StationType, SameShown
  <2> QED BY <2>1, <2>2, QuietWindow
<1>3. CASE IssueStore
  <2>1. /\ scan # << >> /\ Valid(Head(scan))
        /\ st' = [st EXCEPT ![AtScan].queued = FALSE, ![AtScan].issued = TRUE, ![AtScan].completed = TRUE]
        /\ UNCHANGED <<queueVars, spec_mode>>
    BY <1>3 DEF IssueStore, MayIssue, Issuing, issueFrame
  <2>2. ~st[AtScan].completed /\ ~st[AtScan].recover
    BY <1>3 DEF IssueStore, IssuePanic, NoPanic
  <2>3. AtScan \in Live /\ AtScan \in Stations /\ RUU_num \in Nat /\ spec_mode \in BOOLEAN
    <3>1. AtScan \in Live
      BY <2>1, ScanHead
    <3>2. AtScan \in Stations
      BY <3>1, LiveLists DEF RuuCore
    <3> QED BY <3>1, <3>2 DEF RuuCore, Typed, Rings, Ring
  <2>4. ASSUME NEW t \in Stations
        PROVE  /\ st'[t].kind = st[t].kind /\ st'[t].spec = st[t].spec /\ st'[t].recover = st[t].recover
               /\ st'[t].completed = (st[t].completed \/ t = AtScan)
    <3>1. st \in [Stations -> StationType] /\ st[t] \in StationType
      BY DEF RuuCore, Typed
    <3>2. CASE t = AtScan
      <4>1. st'[t] = [st[t] EXCEPT !.queued = FALSE, !.issued = TRUE, !.completed = TRUE]
        BY <2>1, <3>1, <3>2
      <4> QED BY <3>1, <3>2, <4>1 DEF StationType
    <3>3. CASE t # AtScan
      <4>1. st'[t] = st[t] /\ st[t].completed \in BOOLEAN
        BY <2>1, <3>1, <3>3 DEF StationType
      <4> QED BY <3>3, <4>1
    <3> QED BY <3>2, <3>3
  <2>5. /\ RuuLive' = RuuLive /\ LsqLive' = LsqLive /\ RUU_num' = RUU_num
    BY <2>1 DEF queueVars, RuuLive, LsqLive
  <2>6. ASSUME NEW n \in 1..RUU_num PROVE Agens(n)' = Agens(n)
    <3>1. \A k \in 1..n : RuuLive[k] \in Stations
      BY <2>3, LiveLists, LiveIs DEF RuuCore, Lists
    <3>2. {k \in 1..n : EaComp(st'[RuuLive[k]])} = {k \in 1..n : EaComp(st[RuuLive[k]])}
      BY <2>4, <3>1 DEF EaComp
    <3> QED BY <2>5, <3>2 DEF Agens, EaComp
  <2>7. PICK o : o = RUU_num
    OBVIOUS
  <2>8. Completing(AtScan, o)
    <3>1. o \in 0..RUU_num /\ RUU_num' = o
      BY <2>3, <2>5, <2>7
    <3>2. \A n \in 1..o : /\ RuuLive'[n] = RuuLive[n]
                          /\ Agens(n)' = Agens(n) /\ LsqLive'[Agens(n)] = LsqLive[Agens(n)]
      BY <2>5, <2>6, <2>7
    <3>3. spec_mode' = (spec_mode /\ ~st[AtScan].recover)
      BY <2>1, <2>2, <2>3
    <3> HIDE DEF AtScan
    <3> QED BY <2>2, <2>3, <2>4, <2>7, <3>1, <3>2, <3>3 DEF Completing
  <2> QED BY <2>8, CompletingWindow
<1> QED BY <1>1, <1>2, <1>3 DEF Issue

LEMMA OpWindow ==
    ASSUME RuuCore, RuuCore', NoPanic', NEW i \in program, NEW mispredict \in BOOLEAN, DispatchOp(i, mispredict)
    PROVE  WindowStep
<1>1. PICK id, a, t : OpDispatched(i, mispredict, id, a, t)
  BY OpDispatchedIs
<1>2. /\ i.kind \in {"op", "ctrl", "trap"} /\ (mispredict => ~spec_mode) /\ RUU_num < RUU_size
      /\ RUU_num' = RUU_num + 1 /\ spec_mode' = (spec_mode \/ mispredict) /\ LSQ_num' = LSQ_num
  BY <1>1 DEF OpDispatched
<1>3. /\ \A k \in 1..RUU_num : RuuLive'[k] = RuuLive[k]
      /\ RuuLive'[RUU_num + 1] = id /\ LsqLive' = LsqLive
  BY <1>1, OpPlaced
<1>4. Entered({id}) /\ st'[id].kind = i.kind /\ (st'[id].recover <=> mispredict)
  BY <1>1, OpEntered
<1>5. PICK e, n : e = RUU_num /\ n = LSQ_num
  OBVIOUS
<1>6. Appended({id}, id, e, n, 0)
  <2>1. ~EaComp(st'[id]) /\ ~InLSQ(st'[id])
    BY <1>2, <1>4 DEF EaComp, InLSQ
  <2>2. n + 0 = n
    BY <1>5 DEF RuuCore, Rings, Ring
  <2> QED BY <1>2, <1>3, <1>5, <2>1, <2>2 DEF Appended
<1>7. Proved!Enter(mispredict)
  BY <1>2, <1>4, <1>6, EntersSlots
<1> QED BY <1>7 DEF WindowStep, Proved!WinNext

LEMMA MemWindow ==
    ASSUME RuuCore, RuuCore', NoPanic', NEW i \in program, DispatchMem(i)
    PROVE  WindowStep
<1>1. PICK id, lsq, a, t, b, u : MemDispatched(i, id, lsq, a, t, b, u) /\ MemInstalled(i, id, lsq)
  BY MemDispatchedIs
<1>2. /\ i.kind \in {"load", "store"} /\ RUU_num < RUU_size
      /\ RUU_num' = RUU_num + 1 /\ LSQ_num' = LSQ_num + 1 /\ spec_mode' = spec_mode
  BY <1>1 DEF MemDispatched
<1>3. /\ \A k \in 1..RUU_num : RuuLive'[k] = RuuLive[k]
      /\ RuuLive'[RUU_num + 1] = id
      /\ \A k \in 1..LSQ_num : LsqLive'[k] = LsqLive[k]
      /\ LsqLive'[LSQ_num + 1] = lsq
  BY <1>1, MemStations
<1>4. /\ Entered({id, lsq}) /\ st'[id].kind = "agen" /\ st'[id].seq = inst_seq + 1 /\ ~st'[id].recover
      /\ st'[lsq].kind = i.kind /\ st'[lsq].seq = inst_seq + 2
  BY <1>1, MemEntered, ZenonT(60)
<1>5. PICK e, n : e = RUU_num /\ n = LSQ_num
  OBVIOUS
<1>6. spec_mode \in BOOLEAN /\ inst_seq \in Nat
  <2>1. inst_seq \in 0..MaxInsts /\ MaxInsts \in Nat /\ spec_mode \in BOOLEAN
    BY SizeAssumption DEF RuuCore, Typed
  <2> QED BY <2>1
<1>7. Appended({id, lsq}, id, e, n, 1)
  <2>1. EaComp(st'[id]) /\ ~InLSQ(st'[id]) /\ InLSQ(st'[lsq])
    BY <1>2, <1>4 DEF EaComp, InLSQ
  <2>2. st'[lsq].seq = st'[id].seq + 1
    BY <1>4, <1>6
  <2>3. id \in {id, lsq} /\ lsq \in {id, lsq} /\ 1 \in {0, 1}
    OBVIOUS
  <2> QED BY <1>2, <1>3, <1>5, <2>1, <2>2, <2>3 DEF Appended
<1>8. Proved!Enter(FALSE)
  <2>1. st'[id].recover <=> FALSE
    BY <1>4
  <2>2. spec_mode' = (spec_mode \/ FALSE)
    BY <1>2, <1>6
  <2> QED BY <1>2, <1>4, <1>7, <2>1, <2>2, EntersSlots
<1> QED BY <1>8 DEF WindowStep, Proved!WinNext

LEMMA WindowSteps ==
    ASSUME RuuCore, RuuCore', NoPanic', [Next]_vars
    PROVE  WindowStep
<1>1. CASE UNCHANGED vars
  <2>1. UNCHANGED <<st, queueVars, spec_mode>>
    BY <1>1 DEF vars
  <2> QED BY <2>1, SameWindow
<1>2. CASE Next
  <2>1. CASE Tick \/ DispatchDone
    <3>1. UNCHANGED <<st, queueVars, spec_mode>>
      BY <2>1 DEF Tick, DispatchDone
    <3> QED BY <3>1, SameWindow
  <2>2. CASE Dispatch
    BY <2>1, <2>2, OpWindow, MemWindow DEF Dispatch
  <2> QED BY <1>2, <2>1, <2>2, CommitWindow, WritebackWindow, RefreshWindow, IssueWindow DEF Next
<1> QED BY <1>1, <1>2

\* As long as no sanity check stops the simulator, the RUU with the LSQ is a window: whatever the
\* latencies and the order of completion, entries come in program order, leave at the head when
\* complete, and are squashed behind the mispredicted instruction that completes, and only then.
THEOREM RuuImplementsWindow == Spec /\ []NoPanic => ImplementsWindow
<1>1. Init => Win!WinInit
  <2> SUFFICES ASSUME Init PROVE Win!WinInit
    OBVIOUS
  <2>1. RUU_num = 0 /\ spec_mode = FALSE
    BY DEF Init
  <2>2. Slots = << >>
    BY <2>1 DEF Slots
  <2> QED BY <2>1, <2>2 DEF Win!WinInit
<1>2. RuuInv /\ RuuInv' /\ NoPanic /\ NoPanic' /\ [Next]_vars => [Win!WinNext]_(Win!windowVars)
  <2> SUFFICES ASSUME RuuCore, RuuCore', NoPanic', [Next]_vars PROVE [Win!WinNext]_(Win!windowVars)
    BY DEF RuuInv
  <2>1. WindowStep
    BY WindowSteps
  <2> QED BY <2>1 DEF WindowStep, Proved!WinNext, Win!WinNext, Win!windowVars,
             Proved!Enter, Win!Enter, Proved!Complete, Win!Complete, Proved!Leave, Win!Leave
<1> QED BY <1>1, <1>2, RuuInvariant, PTL DEF Spec, ImplementsWindow, Win!WinSpec

\* What the Window promises holds of the RUU: a machine on a mispredicted path has one
\* recovery point, between the right path and the wrong one.
THEOREM RuuRecovery == Spec /\ []NoPanic => []Win!RecoveryPoint
<1>1. Proved!WinSpec => []Proved!RecoveryPoint
  BY Proved!WindowRecovery
<1>2. /\ Proved!WinInit <=> Win!WinInit
      /\ [Proved!WinNext]_(Proved!windowVars) <=> [Win!WinNext]_(Win!windowVars)
      /\ Proved!RecoveryPoint <=> Win!RecoveryPoint
  BY DEF Proved!WinInit, Win!WinInit, Proved!WinNext, Win!WinNext, Proved!windowVars, Win!windowVars,
         Proved!Enter, Win!Enter, Proved!Complete, Win!Complete, Proved!Leave, Win!Leave,
         Proved!RecoveryPoint, Win!RecoveryPoint, Proved!Pending, Win!Pending
<1> QED BY <1>1, <1>2, RuuImplementsWindow, PTL DEF ImplementsWindow, Proved!WinSpec, Win!WinSpec

\* And nothing on a mispredicted path is committed.
THEOREM RuuCommitsRightPath == Spec /\ []NoPanic => Win!LeavesRightPath
<1>1. Proved!WinSpec => Proved!LeavesRightPath
  BY Proved!WindowLeavesRightPath
<1>2. /\ Proved!WinInit <=> Win!WinInit
      /\ [Proved!WinNext]_(Proved!windowVars) <=> [Win!WinNext]_(Win!windowVars)
      /\ [Proved!Leave => ~Head(Slots).spec]_(Proved!windowVars)
             <=> [Win!Leave => ~Head(Slots).spec]_(Win!windowVars)
  BY DEF Proved!WinInit, Win!WinInit, Proved!WinNext, Win!WinNext, Proved!windowVars, Win!windowVars,
         Proved!Enter, Win!Enter, Proved!Complete, Win!Complete, Proved!Leave, Win!Leave
<1> QED BY <1>1, <1>2, RuuImplementsWindow, PTL
        DEF ImplementsWindow, Proved!WinSpec, Win!WinSpec, Proved!LeavesRightPath, Win!LeavesRightPath
=============================================================================
