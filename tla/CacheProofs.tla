----------------------------- MODULE CacheProofs -----------------------------
(***************************************************************************)
(* Proofs about the data caches of DataCaches.tla, for every geometry and  *)
(* replacement policy, and for every program.                              *)
(***************************************************************************)
EXTENDS DataCaches, ListLemmas

-----------------------------------------------------------------------------
(* Linked lists                                                            *)

\* Linking w at the head of a list without it.
LEMMA Linked ==
    ASSUME NEW A, NEW q, Holds(q, A), NEW w, w \notin A
    PROVE  LET r == <<w>> \o q
           IN /\ Holds(r, A \cup {w}) /\ Len(r) = Len(q) + 1
              /\ r[1] = w /\ \A j \in 1..Len(q) : r[j + 1] = q[j]
<1> DEFINE r == <<w>> \o q
<1>1. q \in Seq(A) /\ Len(q) \in Nat
  BY DEF Holds
<1>2. q \in Seq(A \cup {w}) /\ <<w>> \in Seq(A \cup {w})
  <2>1. q = [j \in 1..Len(q) |-> q[j]] /\ \A j \in 1..Len(q) : q[j] \in A \cup {w}
    BY <1>1
  <2> QED BY <1>1, <2>1
<1>3. /\ r \in Seq(A \cup {w}) /\ Len(r) = Len(q) + 1
      /\ r[1] = w /\ \A j \in 1..Len(q) : r[j + 1] = q[j]
  BY <1>1, <1>2
<1> HIDE DEF r
<1>4. ASSUME NEW v \in A \cup {w} PROVE \E j \in 1..Len(r) : r[j] = v
  <2>1. CASE v = w
    BY <1>1, <1>3, <2>1
  <2>2. CASE v \in A
    <3>1. PICK i \in 1..Len(q) : q[i] = v
      BY <2>2 DEF Holds
    <3>2. i + 1 \in 1..Len(r) /\ r[i + 1] = v
      BY <1>1, <1>3, <3>1
    <3> QED BY <3>2
  <2> QED BY <2>1, <2>2
<1>5. ASSUME NEW i \in 1..Len(r), i # 1
      PROVE  i - 1 \in 1..Len(q) /\ r[i] = q[i - 1] /\ r[i] \in A
  <2>1. i - 1 \in 1..Len(q) /\ i - 1 + 1 = i
    BY <1>1, <1>3, <1>5
  <2>2. r[i - 1 + 1] = q[i - 1] /\ q[i - 1] \in A
    BY <1>1, <1>3, <2>1
  <2> QED BY <2>1, <2>2
<1>6. ASSUME NEW i \in 1..Len(r), NEW j \in 1..Len(r), r[i] = r[j] PROVE i = j
  <2>1. CASE i = 1 \/ j = 1
    BY <1>3, <1>5, <1>6, <2>1
  <2>2. CASE i # 1 /\ j # 1
    <3>1. i - 1 \in 1..Len(q) /\ j - 1 \in 1..Len(q) /\ q[i - 1] = q[j - 1]
      BY <1>5, <1>6, <2>2
    <3>2. i - 1 = j - 1
      BY <3>1 DEF Holds
    <3> QED BY <3>2
  <2> QED BY <2>1, <2>2
<1> QED BY <1>3, <1>4, <1>6 DEF r, Holds

\* A valid way comes before every free one.
ValidFirst(q, V) == \A j, k \in 1..Len(q) : j < k /\ q[k] \in V => q[j] \in V

\* What moving a way to the head or the tail of its list does.
LEMMA MovedToHead ==
    ASSUME NEW A, NEW q, Holds(q, A), NEW w \in A, NEW V
    PROVE  /\ Holds(ToHead(q, w), A) /\ Len(ToHead(q, w)) = Len(q) /\ ToHead(q, w)[1] = w
           /\ ValidFirst(q, V) => ValidFirst(ToHead(q, w), V \cup {w})
<1> DEFINE u == RemoveFirst(q, w)
           r == <<w>> \o u
<1>1. Holds(u, A \ {w}) /\ Len(u) = Len(q) - 1
  BY Unlinked
<1>2. PICK p \in 1..Len(q) : q[p] = w /\ Without(u, q, p)
  BY Unlinked
<1> HIDE DEF u
<1>3. Holds(r, (A \ {w}) \cup {w}) /\ Len(r) = Len(u) + 1 /\ r[1] = w /\ \A j \in 1..Len(u) : r[j + 1] = u[j]
  BY <1>1, Linked
<1>4. (A \ {w}) \cup {w} = A
  OBVIOUS
<1>5. Len(q) \in Nat
  BY DEF Holds
<1> HIDE DEF r
<1>6. ASSUME ValidFirst(q, V) PROVE ValidFirst(r, V \cup {w})
  <2>1. SUFFICES ASSUME NEW j \in 1..Len(r), NEW k \in 1..Len(r), j < k, r[k] \in V \cup {w}
                 PROVE  r[j] \in V \cup {w}
    BY DEF ValidFirst
  <2>2. CASE j = 1
    BY <1>3, <2>2
  <2>3. CASE j # 1
    <3> DEFINE at(x) == IF x - 1 < p THEN x - 1 ELSE x
    <3>1. ASSUME NEW x \in 1..Len(r), x # 1 PROVE at(x) \in 1..Len(q) /\ r[x] = q[at(x)] /\ at(x) # p
      <4>1. x - 1 \in 1..Len(q) - 1 /\ x - 1 + 1 = x
        BY <1>1, <1>3, <1>5, <3>1
      <4>2. r[x] = u[x - 1]
        BY <1>1, <1>3, <4>1
      <4> QED BY <1>2, <1>5, <4>1, <4>2 DEF Without
    <3>2. k # 1 /\ at(j) \in 1..Len(q) /\ at(k) \in 1..Len(q) /\ at(j) < at(k)
      BY <1>1, <1>2, <1>3, <1>5, <2>1, <2>3, <3>1
    <3>3. r[j] = q[at(j)] /\ r[k] = q[at(k)] /\ at(k) # p
      BY <2>3, <3>1, <3>2
    <3> HIDE DEF at
    <3>4. q[at(k)] # w
      BY <1>2, <3>2, <3>3 DEF Holds
    <3> QED BY <1>6, <2>1, <3>2, <3>3, <3>4 DEF ValidFirst
  <2> QED BY <2>2, <2>3
<1>7. r = ToHead(q, w)
  BY DEF r, u, ToHead
<1>8. Holds(r, A) /\ Len(r) = Len(q) /\ r[1] = w
  <2>1. Holds(r, A)
    BY <1>3, <1>4, Zenon
  <2> QED BY <1>1, <1>3, <1>5, <2>1
<1> QED BY <1>6, <1>7, <1>8

LEMMA MovedToTail ==
    ASSUME NEW A, NEW q, Holds(q, A), NEW w \in A, NEW V
    PROVE  /\ Holds(ToTail(q, w), A) /\ Len(ToTail(q, w)) = Len(q)
           /\ ValidFirst(q, V) => ValidFirst(ToTail(q, w), V \ {w})
<1> DEFINE u == RemoveFirst(q, w)
           r == Append(u, w)
<1>1. Holds(u, A \ {w}) /\ Len(u) = Len(q) - 1
  BY Unlinked
<1>2. PICK p \in 1..Len(q) : q[p] = w /\ Without(u, q, p)
  BY Unlinked
<1> HIDE DEF u
<1>3. Len(q) \in Nat /\ u \in Seq(A \ {w}) /\ u \in Seq(A)
  <2>1. u \in Seq(A \ {w}) /\ Len(u) \in Nat
    BY <1>1 DEF Holds
  <2>2. u = [j \in 1..Len(u) |-> u[j]] /\ \A j \in 1..Len(u) : u[j] \in A
    BY <2>1
  <2> QED BY <2>1, <2>2 DEF Holds
<1>4. /\ r \in Seq(A) /\ Len(r) = Len(q)
      /\ r[Len(q)] = w /\ \A j \in 1..Len(q) - 1 : r[j] = u[j] /\ r[j] \in A \ {w}
  BY <1>1, <1>3
<1> HIDE DEF r
<1>5. Holds(r, A)
  <2>1. ASSUME NEW v \in A PROVE \E j \in 1..Len(r) : r[j] = v
    <3>1. CASE v = w
      BY <1>2, <1>3, <1>4, <3>1
    <3>2. CASE v # w
      <4>1. PICK j \in 1..Len(u) : u[j] = v
        BY <1>1, <3>2 DEF Holds
      <4>2. j \in 1..Len(r) /\ r[j] = v
        BY <1>1, <1>3, <1>4, <4>1
      <4> QED BY <4>2
    <3> QED BY <3>1, <3>2
  <2>2. ASSUME NEW i \in 1..Len(r), NEW j \in 1..Len(r), r[i] = r[j] PROVE i = j
    <3>1. \A x \in 1..Len(r) : x # Len(q) => x \in 1..Len(u) /\ r[x] = u[x] /\ r[x] # w
      BY <1>1, <1>3, <1>4
    <3>2. CASE i = Len(q) \/ j = Len(q)
      BY <1>4, <2>2, <3>1, <3>2
    <3>3. CASE i # Len(q) /\ j # Len(q)
      <4>1. i \in 1..Len(u) /\ j \in 1..Len(u) /\ u[i] = u[j]
        BY <2>2, <3>1, <3>3
      <4> QED BY <1>1, <4>1 DEF Holds
    <3> QED BY <3>2, <3>3
  <2> QED BY <1>4, <2>1, <2>2 DEF Holds
<1>6. ASSUME ValidFirst(q, V) PROVE ValidFirst(r, V \ {w})
  <2>1. SUFFICES ASSUME NEW j \in 1..Len(r), NEW k \in 1..Len(r), j < k, r[k] \in V \ {w}
                 PROVE  r[j] \in V \ {w}
    BY DEF ValidFirst
  <2> DEFINE at(x) == IF x < p THEN x ELSE x + 1
  <2>2. j \in 1..Len(q) - 1 /\ k \in 1..Len(q) - 1
    BY <1>3, <1>4, <2>1
  <2>3. /\ at(j) \in 1..Len(q) /\ at(k) \in 1..Len(q) /\ at(j) < at(k)
        /\ r[j] = q[at(j)] /\ r[k] = q[at(k)]
    BY <1>2, <1>3, <1>4, <2>1, <2>2 DEF Without
  <2> HIDE DEF at
  <2>4. q[at(j)] \in V
    BY <1>6, <2>1, <2>3 DEF ValidFirst
  <2> QED BY <1>4, <2>2, <2>3, <2>4
<1>7. r = ToTail(q, w)
  BY DEF r, u, ToTail
<1> QED BY <1>4, <1>5, <1>6, <1>7

-----------------------------------------------------------------------------
(* Blocks and their places                                                 *)

\* A block's number is made of its tag and its set.
LEMMA TagAndSet ==
    ASSUME NEW n \in Nat \ {0}, NEW b \in Nat
    PROVE  b \div n \in Nat /\ b % n \in 0..n - 1 /\ (b \div n) * n + (b % n) = b
OBVIOUS

LEMMA OneBlock ==
    ASSUME NEW n \in Nat \ {0}, NEW t \in Nat, NEW s \in 0..n - 1
    PROVE  t * n + s \in Nat /\ (t * n + s) \div n = t /\ (t * n + s) % n = s
OBVIOUS

-----------------------------------------------------------------------------
(* The invariant of a cache                                                *)

Line == [tag : Nat, valid : BOOLEAN, dirty : BOOLEAN]

\* Every block of ln is in the bucket of its tag, once.
BucketsHold(c, ln, buckets) ==
    /\ buckets \in [0..c.hsize - 1 -> Seq(WaysOf(c))]
    /\ \A h \in 0..c.hsize - 1 : Holds(buckets[h], {w \in WaysOf(c) : HashOf(c, ln[w].tag) = h})

\* What holds of one set of c: its blocks ln, its way list q and its hash buckets.
SetOK(c, ln, q, buckets) ==
    /\ ln \in [WaysOf(c) -> Line]
    /\ Holds(q, WaysOf(c)) /\ Len(q) = c.assoc
    /\ BucketsHold(c, ln, buckets)
    /\ \A v, w \in WaysOf(c) : v # w /\ ln[v].valid /\ ln[w].valid => ln[v].tag # ln[w].tag
    /\ c.policy # "Random" => ValidFirst(q, {w \in WaysOf(c) : ln[w].valid})

\* What holds of the short cut to block lb when la is the block that hit last.
LastOK(c, la, lb) ==
    la # 0 => /\ la \in Nat /\ c.line[SetOf(c, la)][lb].valid
              /\ c.line[SetOf(c, la)][lb].tag = TagOf(c, la)
              /\ c.policy = "LRU" => c.order[SetOf(c, la)][1] = lb

Balanced(c) ==
    c.counting => c.count["misses"] = c.count["replacements"] + c.count["invalidations"]
                                          + Cardinality(ValidBlocks(c))

\* The invariant of a cache that holds no blocks but those of B.
CacheOK(c, B) ==
    /\ c = [nsets |-> c.nsets, assoc |-> c.assoc, policy |-> c.policy, hsize |-> c.hsize,
            counting |-> c.counting, line |-> c.line, order |-> c.order, hash |-> c.hash,
            last |-> c.last, last_blk |-> c.last_blk, count |-> c.count]
    /\ c.nsets \in Nat \ {0} /\ c.assoc \in Nat \ {0} /\ c.hsize \in Nat
    /\ c.policy \in Policies /\ c.counting \in BOOLEAN
    /\ c.line = [s \in SetsOf(c) |-> c.line[s]] /\ c.order = [s \in SetsOf(c) |-> c.order[s]]
    /\ c.hash = [s \in SetsOf(c) |-> c.hash[s]]
    /\ \A s \in SetsOf(c) : /\ SetOK(c, c.line[s], c.order[s], c.hash[s])
                            /\ \A w \in WaysOf(c) : c.line[s][w].valid => BlockAt(c, s, w) \in B
    /\ c.last \in Nat /\ c.last_blk \in WaysOf(c) /\ LastOK(c, c.last, c.last_blk)
    /\ c.count \in [CacheStats -> Nat] /\ Balanced(c)

\* c with one set changed, and its short cut and counters.
Changed(c, s, ln, q, buckets, la, lb, ct) ==
    [nsets |-> c.nsets, assoc |-> c.assoc, policy |-> c.policy, hsize |-> c.hsize,
     counting |-> c.counting, line |-> [c.line EXCEPT ![s] = ln],
     order |-> [c.order EXCEPT ![s] = q], hash |-> [c.hash EXCEPT ![s] = buckets],
     last |-> la, last_blk |-> lb, count |-> ct]

\* Caches with the same parameters.
Alike(c, d) ==
    /\ d.nsets = c.nsets /\ d.assoc = c.assoc /\ d.policy = c.policy /\ d.hsize = c.hsize
    /\ d.counting = c.counting

\* The one with its set s changed.
Differs(c, d, s, ln, q, buckets) ==
    /\ Alike(c, d)
    /\ \A z \in SetsOf(c) : /\ d.line[z] = (IF z = s THEN ln ELSE c.line[z])
                            /\ d.order[z] = (IF z = s THEN q ELSE c.order[z])
                            /\ d.hash[z] = (IF z = s THEN buckets ELSE c.hash[z])
    /\ d.line = [z \in SetsOf(c) |-> d.line[z]]
    /\ d.order = [z \in SetsOf(c) |-> d.order[z]]
    /\ d.hash = [z \in SetsOf(c) |-> d.hash[z]]

LEMMA ChangedParts ==
    ASSUME NEW B, NEW c, CacheOK(c, B), NEW s \in SetsOf(c), NEW ln, NEW q, NEW buckets,
           NEW la, NEW lb, NEW ct, NEW d, d = Changed(c, s, ln, q, buckets, la, lb, ct)
    PROVE  Differs(c, d, s, ln, q, buckets) /\ d.last = la /\ d.last_blk = lb /\ d.count = ct
<1> DEFINE l == [c.line EXCEPT ![s] = ln]
           o == [c.order EXCEPT ![s] = q]
           h == [c.hash EXCEPT ![s] = buckets]
<1>1. c.line = [z \in SetsOf(c) |-> c.line[z]] /\ c.order = [z \in SetsOf(c) |-> c.order[z]]
      /\ c.hash = [z \in SetsOf(c) |-> c.hash[z]]
  BY DEF CacheOK
<1>2. l = [z \in SetsOf(c) |-> IF z = s THEN ln ELSE c.line[z]]
  BY <1>1
<1>3. o = [z \in SetsOf(c) |-> IF z = s THEN q ELSE c.order[z]]
  BY <1>1
<1>4. h = [z \in SetsOf(c) |-> IF z = s THEN buckets ELSE c.hash[z]]
  BY <1>1
<1> HIDE DEF l, o, h
<1>5. d =
        [nsets |-> c.nsets, assoc |-> c.assoc, policy |-> c.policy, hsize |-> c.hsize,
         counting |-> c.counting, line |-> l, order |-> o, hash |-> h,
         last |-> la, last_blk |-> lb, count |-> ct]
  BY DEF Changed, l, o, h
<1> QED BY <1>2, <1>3, <1>4, <1>5 DEF Alike, Differs

\* The predicates of one set depend on the parameters of the cache alone.
LEMMA AlikeSets ==
    ASSUME NEW c, NEW d, Alike(c, d)
    PROVE  /\ SetsOf(d) = SetsOf(c) /\ WaysOf(d) = WaysOf(c)
           /\ \A b : SetOf(d, b) = SetOf(c, b) /\ TagOf(d, b) = TagOf(c, b)
           /\ \A t : HashOf(d, t) = HashOf(c, t)
           /\ \A ln, q, buckets : SetOK(c, ln, q, buckets) => SetOK(d, ln, q, buckets)
<1>1. /\ SetsOf(d) = SetsOf(c) /\ WaysOf(d) = WaysOf(c)
      /\ \A b : SetOf(d, b) = SetOf(c, b) /\ TagOf(d, b) = TagOf(c, b)
      /\ \A t : HashOf(d, t) = HashOf(c, t)
  BY DEF Alike, SetsOf, WaysOf, SetOf, TagOf, HashOf
<1>2. ASSUME NEW ln, NEW q, NEW buckets, SetOK(c, ln, q, buckets) PROVE SetOK(d, ln, q, buckets)
  <2>1. \A h : {w \in WaysOf(c) : HashOf(c, ln[w].tag) = h} = {w \in WaysOf(d) : HashOf(d, ln[w].tag) = h}
    BY <1>1
  <2>2. ASSUME NEW h \in 0..d.hsize - 1
        PROVE  Holds(buckets[h], {w \in WaysOf(d) : HashOf(d, ln[w].tag) = h})
    <3>1. Holds(buckets[h], {w \in WaysOf(c) : HashOf(c, ln[w].tag) = h})
      BY <1>2 DEF Alike, SetOK, BucketsHold
    <3> QED BY <2>1, <3>1, Zenon
  <2>3. BucketsHold(d, ln, buckets)
    BY <1>1, <1>2, <2>2 DEF SetOK, Alike, BucketsHold
  <2> QED BY <1>1, <1>2, <2>3 DEF SetOK, Alike
<1> QED BY <1>1, <1>2

\* Set s keeps blocks of B, and a short cut to one of its blocks is sound.
Within(c, s, ln, B) == \A w \in WaysOf(c) : ln[w].valid => ln[w].tag * c.nsets + s \in B
ShortCut(c, s, ln, q, la, lb) ==
    la # 0 => /\ SetOf(c, la) = s /\ ln[lb].valid /\ ln[lb].tag = TagOf(c, la)
              /\ c.policy = "LRU" => q[1] = lb

LEMMA ChangedOK ==
    ASSUME NEW B, NEW c, CacheOK(c, B), NEW s \in SetsOf(c), NEW ln, NEW q, NEW buckets,
           NEW la \in Nat, NEW lb \in WaysOf(c), NEW ct \in [CacheStats -> Nat], NEW d,
           d = Changed(c, s, ln, q, buckets, la, lb, ct),
           SetOK(c, ln, q, buckets), Within(c, s, ln, B), ShortCut(c, s, ln, q, la, lb), Balanced(d)
    PROVE  CacheOK(d, B) /\ Alike(c, d)
<1>0. Differs(c, d, s, ln, q, buckets) /\ d.last = la /\ d.last_blk = lb /\ d.count = ct
  BY ChangedParts
<1>1. /\ d.nsets = c.nsets /\ d.assoc = c.assoc /\ d.policy = c.policy /\ d.hsize = c.hsize
      /\ d.counting = c.counting /\ d.last = la /\ d.last_blk = lb /\ d.count = ct
  BY <1>0 DEF Differs, Alike
<1>2. \A z \in SetsOf(c) : /\ d.line[z] = (IF z = s THEN ln ELSE c.line[z])
                           /\ d.order[z] = (IF z = s THEN q ELSE c.order[z])
                           /\ d.hash[z] = (IF z = s THEN buckets ELSE c.hash[z])
  BY <1>0 DEF Differs
<1>3. /\ d.line = [z \in SetsOf(c) |-> d.line[z]] /\ d.order = [z \in SetsOf(c) |-> d.order[z]]
      /\ d.hash = [z \in SetsOf(c) |-> d.hash[z]]
  BY <1>0 DEF Differs
<1>4. Alike(c, d)
  BY <1>1 DEF Alike
<1>5. d = [nsets |-> d.nsets, assoc |-> d.assoc, policy |-> d.policy, hsize |-> d.hsize,
           counting |-> d.counting, line |-> d.line, order |-> d.order, hash |-> d.hash,
           last |-> d.last, last_blk |-> d.last_blk, count |-> d.count]
  BY DEF Changed
<1>6. /\ c.nsets \in Nat \ {0} /\ c.assoc \in Nat \ {0} /\ c.hsize \in Nat
      /\ c.policy \in Policies /\ c.counting \in BOOLEAN
      /\ \A z \in SetsOf(c) : /\ SetOK(c, c.line[z], c.order[z], c.hash[z])
                              /\ \A w \in WaysOf(c) : c.line[z][w].valid => BlockAt(c, z, w) \in B
  BY DEF CacheOK
<1>7. ASSUME NEW z \in SetsOf(c)
      PROVE  /\ SetOK(d, d.line[z], d.order[z], d.hash[z])
             /\ \A w \in WaysOf(c) : d.line[z][w].valid => BlockAt(d, z, w) \in B
  <2>1. SetOK(d, d.line[z], d.order[z], d.hash[z])
    BY <1>2, <1>4, <1>6, AlikeSets
  <2>2. \A w \in WaysOf(c) : d.line[z][w].valid => BlockAt(d, z, w) \in B
    BY <1>1, <1>2, <1>6 DEF BlockAt, Within
  <2> QED BY <2>1, <2>2
<1>8. LastOK(d, la, lb)
  BY <1>1, <1>2, <1>4, AlikeSets DEF LastOK, ShortCut
<1>9. SetsOf(d) = SetsOf(c) /\ WaysOf(d) = WaysOf(c)
  BY <1>4, AlikeSets
<1>10. CacheOK(d, B)
  BY <1>1, <1>3, <1>5, <1>6, <1>7, <1>8, <1>9 DEF CacheOK
<1> QED BY <1>4, <1>10

LEMMA HoldsThose == ASSUME NEW A, NEW q, Holds(q, A) PROVE ToSet(q) = A
<1>1. q \in Seq(A) /\ DOMAIN q = 1..Len(q)
  BY DEF Holds
<1> QED BY <1>1 DEF Holds, ToSet

\* Where block b may be.
LEMMA PlaceOfBlock ==
    ASSUME NEW B, NEW c, CacheOK(c, B), NEW b \in Nat
    PROVE  /\ SetOf(c, b) \in SetsOf(c) /\ TagOf(c, b) \in Nat
           /\ TagOf(c, b) * c.nsets + SetOf(c, b) = b
           /\ c.hsize > 0 => \A t \in Nat : HashOf(c, t) \in 0..c.hsize - 1
<1>1. c.nsets \in Nat \ {0} /\ c.hsize \in Nat
  BY DEF CacheOK
<1>2. b \div c.nsets \in Nat /\ b % c.nsets \in 0..c.nsets - 1 /\ (b \div c.nsets) * c.nsets + (b % c.nsets) = b
  BY <1>1, TagAndSet
<1>3. ASSUME c.hsize > 0, NEW t \in Nat PROVE t % c.hsize \in 0..c.hsize - 1
  <2>1. c.hsize \in Nat \ {0}
    BY <1>1, <1>3
  <2> QED BY <2>1, TagAndSet
<1> QED BY <1>2, <1>3 DEF SetOf, SetsOf, TagOf, HashOf

\* A search misses no valid block, whether it walks the way list or a hash bucket.
LEMMA FoundIs ==
    ASSUME NEW B, NEW c, CacheOK(c, B), NEW b \in Nat
    PROVE  Found(c, b) = {w \in WaysOf(c) : /\ c.line[SetOf(c, b)][w].valid
                                            /\ c.line[SetOf(c, b)][w].tag = TagOf(c, b)}
<1> DEFINE s == SetOf(c, b)
           t == TagOf(c, b)
<1>1. s \in SetsOf(c) /\ t \in Nat /\ (c.hsize > 0 => HashOf(c, t) \in 0..c.hsize - 1) /\ c.hsize \in Nat
  BY PlaceOfBlock DEF CacheOK
<1>2. SetOK(c, c.line[s], c.order[s], c.hash[s])
  BY <1>1 DEF CacheOK
<1>3. CASE c.hsize > 0
  <2>1. Searched(c, b) = {w \in WaysOf(c) : HashOf(c, c.line[s][w].tag) = HashOf(c, t)}
    <3>1. Holds(c.hash[s][HashOf(c, t)], {w \in WaysOf(c) : HashOf(c, c.line[s][w].tag) = HashOf(c, t)})
      BY <1>1, <1>2, <1>3 DEF SetOK, BucketsHold
    <3>2. Searched(c, b) = ToSet(c.hash[s][HashOf(c, t)])
      BY <1>3 DEF Searched
    <3> QED BY <3>1, <3>2, HoldsThose
  <2> QED BY <2>1 DEF Found
<1>4. CASE c.hsize = 0
  <2>1. Searched(c, b) = WaysOf(c)
    BY <1>2, <1>4, HoldsThose DEF SetOK, Searched
  <2> QED BY <2>1 DEF Found
<1> QED BY <1>1, <1>3, <1>4

-----------------------------------------------------------------------------
(* What an operation does to the blocks a cache holds                      *)

\* A block has one place.
LEMMA BlocksApart ==
    ASSUME NEW B, NEW c, CacheOK(c, B), NEW s \in SetsOf(c), NEW z \in SetsOf(c),
           NEW w \in WaysOf(c), NEW v \in WaysOf(c), BlockAt(c, s, w) = BlockAt(c, z, v)
    PROVE  /\ s = z /\ c.line[s][w].tag = c.line[z][v].tag
           /\ c.line[s][w].valid /\ c.line[z][v].valid => w = v
<1>1. c.nsets \in Nat \ {0} /\ s \in 0..c.nsets - 1 /\ z \in 0..c.nsets - 1
  BY DEF CacheOK, SetsOf
<1>2. c.line[s] \in [WaysOf(c) -> Line] /\ c.line[z] \in [WaysOf(c) -> Line]
      /\ \A x, y \in WaysOf(c) : x # y /\ c.line[s][x].valid /\ c.line[s][y].valid
                                   => c.line[s][x].tag # c.line[s][y].tag
  BY DEF CacheOK, SetOK
<1>3. c.line[s][w].tag \in Nat /\ c.line[z][v].tag \in Nat
  BY <1>2 DEF Line
<1>4. c.line[s][w].tag * c.nsets + s = c.line[z][v].tag * c.nsets + z
  BY DEF BlockAt
<1>5. s = z /\ c.line[s][w].tag = c.line[z][v].tag
  <2> DEFINE n == c.nsets
             t == c.line[s][w].tag
             u == c.line[z][v].tag
  <2>1. n \in Nat \ {0} /\ s \in 0..n - 1 /\ z \in 0..n - 1 /\ t \in Nat /\ u \in Nat /\ t * n + s = u * n + z
    BY <1>1, <1>3, <1>4
  <2> HIDE DEF n, t, u
  <2>2. (t * n + s) \div n = t /\ (t * n + s) % n = s
    BY <2>1, OneBlock
  <2>3. (u * n + z) \div n = u /\ (u * n + z) % n = z
    BY <2>1, OneBlock
  <2>4. t = u /\ s = z
    BY <2>1, <2>2, <2>3
  <2> QED BY <2>4 DEF t, u
<1> QED BY <1>2, <1>5

LEMMA FiniteBlocks ==
    ASSUME NEW B, NEW c, CacheOK(c, B)
    PROVE  /\ IsFiniteSet(ValidBlocks(c)) /\ Cardinality(ValidBlocks(c)) \in Nat
           /\ IsFiniteSet(DirtyPlaces(c)) /\ Cardinality(DirtyPlaces(c)) \in Nat
<1>1. c.nsets \in Nat /\ c.assoc \in Nat
  BY DEF CacheOK
<1>2. IsFiniteSet(SetsOf(c)) /\ IsFiniteSet(WaysOf(c))
  <2>1. 0 \in Int /\ c.nsets - 1 \in Int /\ c.assoc - 1 \in Int
    BY <1>1
  <2> QED BY <2>1, FS_Interval DEF SetsOf, WaysOf
<1>3. IsFiniteSet(SetsOf(c) \X WaysOf(c))
  BY <1>2, FS_Product
<1>4. ValidBlocks(c) \subseteq SetsOf(c) \X WaysOf(c) /\ DirtyPlaces(c) \subseteq ValidBlocks(c)
  BY DEF ValidBlocks, DirtyPlaces
<1>5. IsFiniteSet(ValidBlocks(c))
  BY <1>3, <1>4, FS_Subset
<1>6. IsFiniteSet(DirtyPlaces(c))
  BY <1>4, <1>5, FS_Subset
<1> QED BY <1>5, <1>6, FS_CardinalityType

\* A cache is a machine's cache.
LEMMA CacheThere == ASSUME NEW B, NEW c, CacheOK(c, B) PROVE c # NoCache
  BY DEF CacheOK, NoCache

\* Of the blocks of set s, ln has at most the one of way w changed.
OnlyAt(c, ln, s, w) == ln \in [WaysOf(c) -> Line] /\ \A v \in WaysOf(c) \ {w} : ln[v] = c.line[s][v]

\* One block is changed.
LEMMA OneChanged ==
    ASSUME NEW B, NEW c, CacheOK(c, B), NEW s \in SetsOf(c), NEW w \in WaysOf(c),
           NEW d, NEW ln, NEW q, NEW buckets, Differs(c, d, s, ln, q, buckets),
           OnlyAt(c, ln, s, w)
    PROVE  /\ ValidBlocks(d) = IF ln[w].valid THEN ValidBlocks(c) \cup {<<s, w>>}
                                              ELSE ValidBlocks(c) \ {<<s, w>>}
           /\ DirtyPlaces(d) = IF ln[w].valid /\ ln[w].dirty THEN DirtyPlaces(c) \cup {<<s, w>>}
                                                             ELSE DirtyPlaces(c) \ {<<s, w>>}
<1>1. SetsOf(d) = SetsOf(c) /\ WaysOf(d) = WaysOf(c)
  BY AlikeSets DEF Differs
<1>2. ASSUME NEW z \in SetsOf(c), NEW v \in WaysOf(c)
      PROVE  d.line[z][v] = IF <<z, v>> = <<s, w>> THEN ln[w] ELSE c.line[z][v]
  BY DEF Differs, OnlyAt
<1>3. ASSUME NEW p \in SetsOf(c) \X WaysOf(c)
      PROVE  d.line[p[1]][p[2]] = IF p = <<s, w>> THEN ln[w] ELSE c.line[p[1]][p[2]]
  <2>1. p = <<p[1], p[2]>> /\ p[1] \in SetsOf(c) /\ p[2] \in WaysOf(c)
    OBVIOUS
  <2> QED BY <1>2, <2>1
<1>4. <<s, w>> \in SetsOf(c) \X WaysOf(c)
  OBVIOUS
<1>5. ValidBlocks(d) = IF ln[w].valid THEN ValidBlocks(c) \cup {<<s, w>>} ELSE ValidBlocks(c) \ {<<s, w>>}
  BY <1>1, <1>3, <1>4 DEF ValidBlocks
<1>6. DirtyPlaces(d) = IF ln[w].valid /\ ln[w].dirty THEN DirtyPlaces(c) \cup {<<s, w>>}
                                                     ELSE DirtyPlaces(c) \ {<<s, w>>}
  BY <1>1, <1>3, <1>4 DEF ValidBlocks, DirtyPlaces
<1> QED BY <1>5, <1>6

\* So are the blocks that are dirty.
LEMMA DirtyChanged ==
    ASSUME NEW B, NEW c, CacheOK(c, B), NEW s \in SetsOf(c), NEW w \in WaysOf(c),
           NEW d, NEW ln, NEW q, NEW buckets, Differs(c, d, s, ln, q, buckets), d # NoCache,
           OnlyAt(c, ln, s, w)
    PROVE  DirtyBlocks(d) =
             (DirtyBlocks(c) \ (IF c.line[s][w].valid /\ c.line[s][w].dirty THEN {BlockAt(c, s, w)} ELSE {}))
               \cup (IF ln[w].valid /\ ln[w].dirty THEN {ln[w].tag * c.nsets + s} ELSE {})
<1>1. c # NoCache /\ d.nsets = c.nsets
  BY CacheThere DEF Differs, Alike
<1>2. DirtyPlaces(d) = IF ln[w].valid /\ ln[w].dirty THEN DirtyPlaces(c) \cup {<<s, w>>}
                                                     ELSE DirtyPlaces(c) \ {<<s, w>>}
  BY OneChanged
<1>3. /\ \A x : x \in DirtyBlocks(c) <=> \E p \in DirtyPlaces(c) : x = BlockAt(c, p[1], p[2])
      /\ \A x : x \in DirtyBlocks(d) <=> \E p \in DirtyPlaces(d) : x = BlockAt(d, p[1], p[2])
  BY <1>1 DEF DirtyBlocks
<1>4. \A p \in DirtyPlaces(c) : /\ p = <<p[1], p[2]>> /\ p[1] \in SetsOf(c) /\ p[2] \in WaysOf(c)
                                /\ c.line[p[1]][p[2]].valid
  BY DEF DirtyPlaces, ValidBlocks
<1>5. BlockAt(d, s, w) = ln[w].tag * c.nsets + s
  BY <1>1 DEF BlockAt, Differs
<1>6. ASSUME NEW p \in DirtyPlaces(c), p # <<s, w>> PROVE BlockAt(d, p[1], p[2]) = BlockAt(c, p[1], p[2])
  BY <1>1, <1>4, <1>6 DEF BlockAt, Differs, OnlyAt
<1>7. <<s, w>> \in DirtyPlaces(c) <=> c.line[s][w].valid /\ c.line[s][w].dirty
  BY DEF DirtyPlaces, ValidBlocks
<1>8. ASSUME NEW p \in DirtyPlaces(c), p # <<s, w>>, c.line[s][w].valid
      PROVE  BlockAt(c, p[1], p[2]) # BlockAt(c, s, w)
  BY <1>4, <1>8, BlocksApart
<1> HIDE DEF DirtyBlocks
<1>9. ASSUME NEW x \in DirtyBlocks(d)
      PROVE  x \in (DirtyBlocks(c) \ (IF c.line[s][w].valid /\ c.line[s][w].dirty THEN {BlockAt(c, s, w)} ELSE {}))
                     \cup (IF ln[w].valid /\ ln[w].dirty THEN {ln[w].tag * c.nsets + s} ELSE {})
  <2>1. PICK p \in DirtyPlaces(d) : x = BlockAt(d, p[1], p[2])
    BY <1>3
  <2>2. CASE p = <<s, w>>
    BY <1>2, <1>5, <2>1, <2>2
  <2>3. CASE p # <<s, w>>
    <3>1. p \in DirtyPlaces(c) /\ x = BlockAt(c, p[1], p[2]) /\ x \in DirtyBlocks(c)
      BY <1>2, <1>3, <1>6, <2>1, <2>3
    <3> QED BY <1>8, <2>3, <3>1
  <2> QED BY <2>2, <2>3
<1>10. ASSUME NEW x \in (DirtyBlocks(c) \ (IF c.line[s][w].valid /\ c.line[s][w].dirty THEN {BlockAt(c, s, w)} ELSE {}))
                          \cup (IF ln[w].valid /\ ln[w].dirty THEN {ln[w].tag * c.nsets + s} ELSE {})
       PROVE x \in DirtyBlocks(d)
  <2>1. CASE ln[w].valid /\ ln[w].dirty /\ x = ln[w].tag * c.nsets + s
    <3>1. <<s, w>> \in DirtyPlaces(d) /\ x = BlockAt(d, s, w)
      BY <1>2, <1>5, <2>1
    <3> QED BY <1>3, <3>1
  <2>2. CASE /\ x \in DirtyBlocks(c)
             /\ x \notin (IF c.line[s][w].valid /\ c.line[s][w].dirty THEN {BlockAt(c, s, w)} ELSE {})
    <3>1. PICK p \in DirtyPlaces(c) : x = BlockAt(c, p[1], p[2])
      BY <1>3, <2>2
    <3>2. p # <<s, w>>
      BY <1>7, <2>2, <3>1
    <3>3. p \in DirtyPlaces(d) /\ x = BlockAt(d, p[1], p[2])
      BY <1>2, <1>6, <3>1, <3>2
    <3> QED BY <1>3, <3>3
  <2> QED BY <1>10, <2>1, <2>2
<1> QED BY <1>9, <1>10

-----------------------------------------------------------------------------
(* The operations                                                          *)

\* Operation r of cache c keeps its invariant, and the blocks it leaves dirty are those that
\* were and were not written below, with those of W.
Serves(c, r, B, W) ==
    /\ CacheOK(r.cache, B) /\ Alike(c, r.cache)
    /\ r.below \in Seq([cmd : Cmds, blk : B])
    /\ DirtyBlocks(r.cache) = (DirtyBlocks(c) \ Written(r.below)) \cup W

\* Of the blocks only that of way w of set s is changed, and its way list becomes q.
OneWay(c, d, s, w, q, tag) ==
    /\ \A z \in SetsOf(c) \ {s} : d.line[z] = c.line[z] /\ d.order[z] = c.order[z]
    /\ d.order[s] = q /\ d.line[s][w].tag = tag
    /\ \A v \in WaysOf(c) \ {w} : d.line[s][v] = c.line[s][v]

\* It gets a valid block, or the one it has is invalidated.
Filled(c, d, s, w, q, tag) == OneWay(c, d, s, w, q, tag) /\ d.line[s][w].valid
Emptied(c, d, s, w, q, tag) == OneWay(c, d, s, w, q, tag) /\ ~d.line[s][w].valid

\* Records of the shape of a cache.
Shaped(c, n, a, p, h, g, l, o, k, t, u, m) ==
    c \in [nsets : {n}, assoc : {a}, policy : {p}, hsize : {h}, counting : {g}, line : {l},
           order : {o}, hash : {k}, last : {t}, last_blk : {u}, count : {m}]

LEMMA ShapedIs ==
    ASSUME NEW c, NEW n, NEW a, NEW p, NEW h, NEW g, NEW l, NEW o, NEW k, NEW t, NEW u, NEW m
    PROVE  Shaped(c, n, a, p, h, g, l, o, k, t, u, m) <=>
             c = [nsets |-> n, assoc |-> a, policy |-> p, hsize |-> h, counting |-> g, line |-> l,
                  order |-> o, hash |-> k, last |-> t, last_blk |-> u, count |-> m]
  BY DEF Shaped

LEMMA CacheShaped ==
    ASSUME NEW B, NEW c, CacheOK(c, B)
    PROVE  Shaped(c, c.nsets, c.assoc, c.policy, c.hsize, c.counting, c.line, c.order, c.hash,
                  c.last, c.last_blk, c.count)
  BY ShapedIs DEF CacheOK

\* The block that a command given to a cache leaves dirty.
Wrote(cmd, b) == IF cmd = "Write" THEN {b} ELSE {}

LEMMA CountedType ==
    ASSUME NEW B, NEW c, CacheOK(c, B), NEW names
    PROVE  /\ Counted(c, names) \in [CacheStats -> Nat]
           /\ c.counting => \A n \in CacheStats :
                                Counted(c, names)[n] = c.count[n] + (IF n \in names THEN 1 ELSE 0)
<1>1. c.count \in [CacheStats -> Nat]
  BY DEF CacheOK
<1> QED BY <1>1 DEF Counted

LEMMA OneAfterOne == ASSUME NEW x, NEW y PROVE <<x>> \o <<y>> = <<x, y>>
<1>1. <<x>> \in Seq({x, y}) /\ <<y>> \in Seq({x, y}) /\ <<x, y>> \in Seq({x, y})
  OBVIOUS
<1>2. Len(<<x>> \o <<y>>) = 2 /\ (<<x>> \o <<y>>)[1] = x /\ (<<x>> \o <<y>>)[2] = y
  BY <1>1
<1>3. <<x>> \o <<y>> \in Seq({x, y})
  BY <1>1
<1> DEFINE q == <<x>> \o <<y>>
           r == <<x, y>>
<1>4. /\ q \in Seq({x, y}) /\ r \in Seq({x, y}) /\ Len(q) = 2 /\ Len(r) = 2
      /\ q[1] = x /\ q[2] = y /\ r[1] = x /\ r[2] = y
  BY <1>1, <1>2, <1>3
<1> HIDE DEF q, r
<1>5. \A i \in 1..Len(q) : q[i] = r[i]
  BY <1>4
<1>6. q = r
  BY <1>4, <1>5, SeqEqual
<1> QED BY <1>6 DEF q, r

LEMMA NothingWritten == Written(<< >>) = {}
  BY DEF Written

\* A hit.
LEMMA HitServes ==
    ASSUME NEW B, B \subseteq Nat \ {0}, NEW c, CacheOK(c, B), NEW cmd \in Cmds, NEW b \in B, NEW w \in WaysOf(c),
           c.line[SetOf(c, b)][w].valid, c.line[SetOf(c, b)][w].tag = TagOf(c, b),
           c.last = b /\ c.policy = "LRU" => c.order[SetOf(c, b)][1] = w
    PROVE  /\ Serves(c, Hit(c, cmd, b, w), B, Wrote(cmd, b))
           /\ Filled(c, Hit(c, cmd, b, w).cache, SetOf(c, b), w,
                     IF c.last # b /\ c.policy = "LRU" THEN ToHead(c.order[SetOf(c, b)], w)
                                                       ELSE c.order[SetOf(c, b)],
                     TagOf(c, b))
<1> DEFINE s == SetOf(c, b)
           old == c.line[s][w]
           ln == [c.line[s] EXCEPT ![w].dirty = @ \/ cmd = "Write"]
           q == IF c.last # b /\ c.policy = "LRU" THEN ToHead(c.order[s], w) ELSE c.order[s]
           ct == Counted(c, {"hits"})
           r == Hit(c, cmd, b, w)
           d == r.cache
<1>1. s \in SetsOf(c) /\ TagOf(c, b) * c.nsets + s = b /\ b \in Nat /\ b # 0
  BY PlaceOfBlock
<1>2. SetOK(c, c.line[s], c.order[s], c.hash[s])
  BY <1>1 DEF CacheOK
<1>3. r.below = << >> /\ d = Changed(c, s, ln, q, c.hash[s], b, w, ct)
  <2>1. r.below = << >>
    BY DEF Hit, Result
  <2>2. d = [c EXCEPT !.line[s][w].dirty = @ \/ cmd = "Write",
                      !.order[s] = IF c.last # b /\ c.policy = "LRU" THEN ToHead(@, w) ELSE @,
                      !.last = b, !.last_blk = w, !.count = ct]
    BY DEF Hit, Result
  <2> DEFINE l == c.line
             o == c.order
             h == c.hash
  <2>3. /\ c = [nsets |-> c.nsets, assoc |-> c.assoc, policy |-> c.policy, hsize |-> c.hsize,
                counting |-> c.counting, line |-> l, order |-> o, hash |-> h,
                last |-> c.last, last_blk |-> c.last_blk, count |-> c.count]
        /\ h = [h EXCEPT ![s] = h[s]]
        /\ [l EXCEPT ![s][w].dirty = @ \/ cmd = "Write"] = [l EXCEPT ![s] = ln]
        /\ [o EXCEPT ![s] = IF c.last # b /\ c.policy = "LRU" THEN ToHead(@, w) ELSE @] = [o EXCEPT ![s] = q]
    BY <1>1 DEF CacheOK
  <2> HIDE DEF l, o, h, q, ln, ct, s
  <2>4. Shaped(d, c.nsets, c.assoc, c.policy, c.hsize, c.counting, [l EXCEPT ![s] = ln],
               [o EXCEPT ![s] = q], h, b, w, ct)
    <3>1. Shaped(c, c.nsets, c.assoc, c.policy, c.hsize, c.counting, l, o, h, c.last, c.last_blk, c.count)
      BY CacheShaped DEF l, o, h
    <3>2. Shaped([c EXCEPT !.line[s][w].dirty = @ \/ cmd = "Write",
                           !.order[s] = IF c.last # b /\ c.policy = "LRU" THEN ToHead(@, w) ELSE @,
                           !.last = b, !.last_blk = w, !.count = ct],
                 c.nsets, c.assoc, c.policy, c.hsize, c.counting,
                 [l EXCEPT ![s][w].dirty = @ \/ cmd = "Write"],
                 [o EXCEPT ![s] = IF c.last # b /\ c.policy = "LRU" THEN ToHead(@, w) ELSE @],
                 h, b, w, ct)
      BY <3>1 DEF Shaped
    <3> QED BY <2>2, <2>3, <3>2
  <2> QED BY <2>1, <2>3, <2>4, ShapedIs DEF Changed, l, o, h
<1>4. old \in Line /\ old.valid /\ c.line[s] \in [WaysOf(c) -> Line]
  BY <1>1, <1>2 DEF SetOK
<1>5. /\ ln \in [WaysOf(c) -> Line] /\ \A v \in WaysOf(c) \ {w} : ln[v] = c.line[s][v]
      /\ ln[w] = [old EXCEPT !.dirty = @ \/ cmd = "Write"]
  BY <1>4 DEF Line
<1>6. \A v \in WaysOf(c) : ln[v].valid = c.line[s][v].valid /\ ln[v].tag = c.line[s][v].tag
  BY <1>4, <1>5 DEF Line
<1>7. ln[w].valid /\ ln[w].tag = TagOf(c, b) /\ (ln[w].dirty <=> old.dirty \/ cmd = "Write")
  BY <1>4, <1>5, <1>6 DEF Line
<1>8. Holds(q, WaysOf(c)) /\ Len(q) = c.assoc
      /\ (c.policy # "Random" => ValidFirst(q, {v \in WaysOf(c) : ln[v].valid}))
      /\ (c.policy = "LRU" => q[1] = w)
  <2> DEFINE V == {v \in WaysOf(c) : c.line[s][v].valid}
  <2>1. {v \in WaysOf(c) : ln[v].valid} = V /\ V \cup {w} = V
    BY <1>4, <1>6
  <2>2. Holds(c.order[s], WaysOf(c)) /\ Len(c.order[s]) = c.assoc
        /\ (c.policy # "Random" => ValidFirst(c.order[s], V))
    BY <1>2 DEF SetOK
  <2>3. /\ Holds(ToHead(c.order[s], w), WaysOf(c)) /\ Len(ToHead(c.order[s], w)) = c.assoc
        /\ ToHead(c.order[s], w)[1] = w
        /\ c.policy # "Random" => ValidFirst(ToHead(c.order[s], w), V \cup {w})
    <3> DEFINE o == c.order[s]
    <3>1. Holds(o, WaysOf(c)) /\ Len(o) = c.assoc /\ (c.policy # "Random" => ValidFirst(o, V))
      BY <2>2
    <3> HIDE DEF V, ln, s, o
    <3>2. /\ Holds(ToHead(o, w), WaysOf(c)) /\ Len(ToHead(o, w)) = Len(o) /\ ToHead(o, w)[1] = w
          /\ ValidFirst(o, V) => ValidFirst(ToHead(o, w), V \cup {w})
      BY <3>1, MovedToHead
    <3> QED BY <3>1, <3>2 DEF o
  <2> HIDE DEF V, ln, s
  <2> QED BY <2>1, <2>2, <2>3 DEF s
<1> HIDE DEF ln, q, d, r, ct, s, old
<1>9. SetOK(c, ln, q, c.hash[s])
  <2>1. \A h : {v \in WaysOf(c) : HashOf(c, ln[v].tag) = h} = {v \in WaysOf(c) : HashOf(c, c.line[s][v].tag) = h}
    BY <1>6
  <2>2. ASSUME NEW h \in 0..c.hsize - 1
        PROVE  Holds(c.hash[s][h], {v \in WaysOf(c) : HashOf(c, ln[v].tag) = h})
    <3>1. Holds(c.hash[s][h], {v \in WaysOf(c) : HashOf(c, c.line[s][v].tag) = h})
      BY <1>2 DEF SetOK, BucketsHold
    <3> QED BY <2>1, <3>1, Zenon
  <2>3. \A v, x \in WaysOf(c) : v # x /\ ln[v].valid /\ ln[x].valid => ln[v].tag # ln[x].tag
    BY <1>2, <1>6 DEF SetOK
  <2>4. c.hash[s] \in [0..c.hsize - 1 -> Seq(WaysOf(c))]
    BY <1>2 DEF SetOK, BucketsHold
  <2>5. BucketsHold(c, ln, c.hash[s])
    BY <2>2, <2>4 DEF BucketsHold
  <2> QED BY <1>5, <1>8, <2>3, <2>5 DEF SetOK
<1>10. ct \in [CacheStats -> Nat] /\ (c.counting => \A n \in CacheStats : n # "hits" => ct[n] = c.count[n])
  <2>1. c.count \in [CacheStats -> Nat]
    BY DEF CacheOK
  <2> QED BY <2>1, CountedType DEF ct
<1>11. Differs(c, d, s, ln, q, c.hash[s]) /\ d.last = b /\ d.last_blk = w /\ d.count = ct
  BY <1>1, <1>3, ChangedParts
<1>19. OnlyAt(c, ln, s, w)
  BY <1>5 DEF OnlyAt
<1>12. ValidBlocks(d) = ValidBlocks(c)
  <2>1. ValidBlocks(d) = ValidBlocks(c) \cup {<<s, w>>}
    BY <1>1, <1>7, <1>11, <1>19, OneChanged
  <2> QED BY <1>1, <1>4, <2>1 DEF ValidBlocks, old
<1>13. Balanced(d)
  BY <1>10, <1>11, <1>12 DEF Balanced, CacheOK, Differs, Alike, CacheStats
<1>14. Within(c, s, ln, B) /\ ShortCut(c, s, ln, q, b, w)
  BY <1>1, <1>6, <1>7, <1>8 DEF CacheOK, BlockAt, Within, ShortCut, s
<1>15. CacheOK(d, B) /\ Alike(c, d)
  BY <1>1, <1>3, <1>9, <1>10, <1>13, <1>14, ChangedOK
<1>16. BlockAt(c, s, w) = b /\ ln[w].tag * c.nsets + s = b
  BY <1>1, <1>7 DEF BlockAt, s
<1>17. DirtyBlocks(d) = DirtyBlocks(c) \cup (IF cmd = "Write" THEN {b} ELSE {})
  <2>1. DirtyBlocks(d) = (DirtyBlocks(c) \ (IF old.valid /\ old.dirty THEN {BlockAt(c, s, w)} ELSE {}))
                           \cup (IF ln[w].valid /\ ln[w].dirty THEN {ln[w].tag * c.nsets + s} ELSE {})
    BY <1>1, <1>11, <1>15, <1>19, DirtyChanged, CacheThere DEF old
  <2>2. old.dirty => b \in DirtyBlocks(c)
    <3>1. old.dirty => <<s, w>> \in DirtyPlaces(c)
      BY <1>1, <1>4 DEF DirtyPlaces, ValidBlocks, old
    <3> QED BY <1>16, <3>1, CacheThere DEF DirtyBlocks
  <2> QED BY <1>4, <1>7, <1>16, <2>1, <2>2
<1>18. r.below \in Seq([cmd : Cmds, blk : B]) /\ Written(r.below) = {}
  BY <1>3, NothingWritten
<1>20. Filled(c, d, s, w, q, TagOf(c, b))
  BY <1>1, <1>5, <1>7, <1>11 DEF Filled, Emptied, OneWay, Differs, Line
<1>21. Serves(c, r, B, Wrote(cmd, b))
  BY <1>15, <1>17, <1>18 DEF Serves, Wrote, d
<1> QED BY <1>20, <1>21 DEF q, s, d, r

LEMMA HoldsIn == ASSUME NEW A, NEW q, Holds(q, A), NEW W, A \subseteq W PROVE q \in Seq(W)
<1>1. q \in Seq(A) /\ q = [j \in 1..Len(q) |-> q[j]] /\ Len(q) \in Nat /\ \A j \in 1..Len(q) : q[j] \in W
  BY DEF Holds
<1> QED BY <1>1

\* Linking way w again, when it gets tag t, keeps every block in the bucket of its tag.
LEMMA RehashedHolds ==
    ASSUME NEW B, NEW c, CacheOK(c, B), NEW s \in SetsOf(c), NEW w \in WaysOf(c), NEW t \in Nat,
           NEW ln \in [WaysOf(c) -> Line], ln[w].tag = t, OnlyAt(c, ln, s, w)
    PROVE  BucketsHold(c, ln, Rehashed(c, s, w, t))
<1> DEFINE l == c.line[s]
           hs == c.hash[s]
           K == 0..c.hsize - 1
           In(h) == {v \in WaysOf(c) : HashOf(c, l[v].tag) = h}
           Now(h) == {v \in WaysOf(c) : HashOf(c, ln[v].tag) = h}
           old == HashOf(c, l[w].tag)
           new == HashOf(c, t)
           out == [hs EXCEPT ![old] = RemoveFirst(@, w)]
           bks == [out EXCEPT ![new] = <<w>> \o @]
<1>1. c.hsize \in Nat /\ hs \in [K -> Seq(WaysOf(c))] /\ (\A h \in K : Holds(hs[h], In(h)))
      /\ l \in [WaysOf(c) -> Line]
  BY DEF CacheOK, SetOK, BucketsHold
<1>2. \A v \in WaysOf(c) : ln[v].tag = IF v = w THEN t ELSE l[v].tag
  BY DEF OnlyAt
<1>3. CASE c.hsize = 0
  <2>1. Rehashed(c, s, w, t) = hs /\ K = {}
    BY <1>3 DEF Rehashed
  <2> QED BY <1>1, <2>1 DEF BucketsHold
<1>4. CASE c.hsize > 0
  <2>1. Rehashed(c, s, w, t) = bks
    <3>1. c.hsize # 0
      BY <1>4
    <3> QED BY <3>1, Zenon DEF Rehashed
  <2>2. old \in K /\ new \in K
    <3>1. l[w].tag \in Nat /\ 0 \in Nat
      BY <1>1 DEF Line
    <3>2. \A u \in Nat : HashOf(c, u) \in K
      BY <1>4, <3>1, PlaceOfBlock
    <3> QED BY <3>1, <3>2
  <2>3. /\ \A h \in K : out[h] = IF h = old THEN RemoveFirst(hs[h], w) ELSE hs[h]
        /\ \A h \in K : bks[h] = IF h = new THEN <<w>> \o out[h] ELSE out[h]
        /\ bks = [h \in K |-> bks[h]]
    BY <1>1, <2>2
  <2>4. \A h \in K : /\ w \in In(h) <=> h = old
                     /\ Now(h) = IF h = new THEN (In(h) \ {w}) \cup {w} ELSE In(h) \ {w}
    BY <1>2
  <2>5. \A h \in K : Now(h) \subseteq WaysOf(c)
    OBVIOUS
  <2> HIDE DEF bks, out, In, Now, old, new, hs, l
  <2>6. ASSUME NEW h \in K PROVE Holds(out[h], In(h) \ {w})
    <3>1. CASE h = old
      BY <1>1, <2>3, <2>4, <3>1, Unlinked
    <3>2. CASE h # old
      <4>1. In(h) \ {w} = In(h) /\ out[h] = hs[h]
        BY <2>3, <2>4, <3>2
      <4> QED BY <1>1, <4>1
    <3> QED BY <3>1, <3>2
  <2>7. ASSUME NEW h \in K PROVE Holds(bks[h], Now(h))
    <3>1. CASE h = new
      <4> DEFINE A == In(h) \ {w}
                 u == out[h]
      <4>1. Holds(u, A) /\ w \notin A /\ bks[h] = <<w>> \o u /\ Now(h) = A \cup {w}
        BY <2>3, <2>4, <2>6, <3>1
      <4> HIDE DEF A, u
      <4>2. Holds(<<w>> \o u, A \cup {w})
        BY <4>1, Linked
      <4> QED BY <4>1, <4>2
    <3>2. CASE h # new
      <4>1. Now(h) = In(h) \ {w} /\ bks[h] = out[h]
        BY <2>3, <2>4, <3>2
      <4> QED BY <2>6, <4>1
    <3> QED BY <3>1, <3>2
  <2>8. \A h \in K : bks[h] \in Seq(WaysOf(c))
    BY <2>5, <2>7, HoldsIn
  <2>9. bks \in [K -> Seq(WaysOf(c))]
    BY <2>3, <2>8
  <2> QED BY <2>1, <2>7, <2>9 DEF Now, BucketsHold
<1> QED BY <1>1, <1>3, <1>4

\* A miss, which replaces the block of way w.
LEMMA MissServes ==
    ASSUME NEW B, B \subseteq Nat \ {0}, NEW c, CacheOK(c, B), NEW cmd \in Cmds, NEW b \in B, NEW w \in WaysOf(c),
           Found(c, b) = {}
    PROVE  /\ Serves(c, Miss(c, cmd, b, w), B, Wrote(cmd, b))
           /\ Filled(c, Miss(c, cmd, b, w).cache, SetOf(c, b), w,
                     IF c.policy = "Random" THEN c.order[SetOf(c, b)] ELSE ToHead(c.order[SetOf(c, b)], w),
                     TagOf(c, b))
<1> DEFINE s == SetOf(c, b)
           t == TagOf(c, b)
           old == c.line[s][w]
           back == old.valid /\ old.dirty
           ln == [c.line[s] EXCEPT ![w] = [tag |-> t, valid |-> TRUE, dirty |-> cmd = "Write"]]
           q == IF c.policy = "Random" THEN c.order[s] ELSE ToHead(c.order[s], w)
           bks == Rehashed(c, s, w, t)
           names == {"misses"} \cup (IF old.valid THEN {"replacements"} ELSE {})
                               \cup (IF back THEN {"writebacks"} ELSE {})
           ct == Counted(c, names)
           r == Miss(c, cmd, b, w)
           d == r.cache
<1>1. s \in SetsOf(c) /\ t * c.nsets + s = b /\ t \in Nat /\ b \in Nat /\ b # 0
  BY PlaceOfBlock
<1>2. SetOK(c, c.line[s], c.order[s], c.hash[s]) /\ c.line[s] \in [WaysOf(c) -> Line]
  BY <1>1 DEF CacheOK, SetOK
<1>3. d = Changed(c, s, ln, q, bks, 0, 0, ct)
  <2> DEFINE l == c.line
             o == c.order
             h == c.hash
             to == IF c.policy = "Random" THEN o[s] ELSE ToHead(o[s], w)
  <2>1. d = [c EXCEPT !.line[s][w] = [tag |-> t, valid |-> TRUE, dirty |-> cmd = "Write"],
                      !.order[s] = to, !.hash[s] = bks,
                      !.last = 0, !.last_blk = 0, !.count = ct]
    BY DEF Miss, Result
  <2>2. [l EXCEPT ![s][w] = [tag |-> t, valid |-> TRUE, dirty |-> cmd = "Write"]] = [l EXCEPT ![s] = ln]
    BY <1>1 DEF CacheOK
  <2>3. Shaped(c, c.nsets, c.assoc, c.policy, c.hsize, c.counting, l, o, h, c.last, c.last_blk, c.count)
    BY CacheShaped
  <2>4. to = q
    OBVIOUS
  <2> HIDE DEF l, o, h, q, ln, ct, s, t, bks, to
  <2>5. Shaped([c EXCEPT !.line[s][w] = [tag |-> t, valid |-> TRUE, dirty |-> cmd = "Write"],
                         !.order[s] = to, !.hash[s] = bks, !.last = 0, !.last_blk = 0, !.count = ct],
               c.nsets, c.assoc, c.policy, c.hsize, c.counting,
               [l EXCEPT ![s][w] = [tag |-> t, valid |-> TRUE, dirty |-> cmd = "Write"]],
               [o EXCEPT ![s] = to], [h EXCEPT ![s] = bks], 0, 0, ct)
    BY <2>3 DEF Shaped
  <2>6. Shaped(d, c.nsets, c.assoc, c.policy, c.hsize, c.counting, [l EXCEPT ![s] = ln],
               [o EXCEPT ![s] = q], [h EXCEPT ![s] = bks], 0, 0, ct)
    BY <2>1, <2>2, <2>4, <2>5
  <2> QED BY <2>6, ShapedIs DEF Changed, l, o, h
<1>4. /\ ln \in [WaysOf(c) -> Line] /\ \A v \in WaysOf(c) \ {w} : ln[v] = c.line[s][v]
      /\ ln[w].valid /\ ln[w].tag = t /\ (ln[w].dirty <=> cmd = "Write")
  BY <1>1, <1>2 DEF Line
<1>5. OnlyAt(c, ln, s, w)
  BY <1>4 DEF OnlyAt
<1>6. \A v \in WaysOf(c) : c.line[s][v].valid => c.line[s][v].tag # t
  BY <1>1, FoundIs
<1>7. Holds(q, WaysOf(c)) /\ Len(q) = c.assoc
      /\ (c.policy # "Random" => ValidFirst(q, {v \in WaysOf(c) : ln[v].valid}))
  <2> DEFINE V == {v \in WaysOf(c) : c.line[s][v].valid}
             o == c.order[s]
  <2>1. {v \in WaysOf(c) : ln[v].valid} = V \cup {w}
    BY <1>4
  <2>2. Holds(o, WaysOf(c)) /\ Len(o) = c.assoc /\ (c.policy # "Random" => ValidFirst(o, V))
    BY <1>2 DEF SetOK
  <2>3. q = IF c.policy = "Random" THEN o ELSE ToHead(o, w)
    OBVIOUS
  <2> HIDE DEF V, ln, s, o, q
  <2>4. /\ Holds(ToHead(o, w), WaysOf(c)) /\ Len(ToHead(o, w)) = Len(o) /\ ToHead(o, w)[1] = w
        /\ ValidFirst(o, V) => ValidFirst(ToHead(o, w), V \cup {w})
    BY <2>2, MovedToHead
  <2> QED BY <2>1, <2>2, <2>3, <2>4
<1>8. ct \in [CacheStats -> Nat]
      /\ (c.counting => /\ ct["misses"] = c.count["misses"] + 1
                        /\ ct["replacements"] = c.count["replacements"] + (IF old.valid THEN 1 ELSE 0)
                        /\ ct["invalidations"] = c.count["invalidations"])
  <2>1. {"misses", "replacements", "invalidations"} \subseteq CacheStats
        /\ "misses" \in names /\ ("replacements" \in names <=> old.valid) /\ "invalidations" \notin names
    BY DEF CacheStats
  <2> HIDE DEF names
  <2>2. ct \in [CacheStats -> Nat]
        /\ (c.counting => \A n \in CacheStats : ct[n] = c.count[n] + (IF n \in names THEN 1 ELSE 0))
    BY CountedType
  <2>3. c.count \in [CacheStats -> Nat]
    BY DEF CacheOK
  <2> HIDE DEF ct, old
  <2> QED BY <2>1, <2>2, <2>3
<1>9. BucketsHold(c, ln, bks)
  <2> HIDE DEF ln, s, t
  <2> QED BY <1>1, <1>4, <1>5, RehashedHolds
<1>10. r.below = (IF back THEN <<Request("Write", BlockAt(c, s, w))>> ELSE << >>) \o <<Request("Read", b)>>
  BY DEF Miss, Result
<1>11. old \in Line /\ (old.valid => BlockAt(c, s, w) \in B)
  BY <1>1, <1>2 DEF CacheOK
<1>12. r.below \in Seq([cmd : Cmds, blk : B]) /\ Written(r.below) = IF back THEN {BlockAt(c, s, w)} ELSE {}
  <2> DEFINE o == BlockAt(c, s, w)
  <2>1. CASE back
    <3>1. r.below = <<[cmd |-> "Write", blk |-> o], [cmd |-> "Read", blk |-> b]>> /\ o \in B
      <4>2. o \in B
        BY <1>11, <2>1
      <4> HIDE DEF r, o, s, back
      <4>1. r.below = <<Request("Write", o)>> \o <<Request("Read", b)>>
        BY <1>10, <2>1 DEF o
      <4>3. r.below = <<Request("Write", o), Request("Read", b)>>
        BY <4>1, OneAfterOne
      <4> QED BY <4>2, <4>3 DEF Request
    <3> HIDE DEF r, o, s
    <3> QED BY <2>1, <3>1 DEF Cmds, Written, o
  <2>2. CASE ~back
    <3>1. r.below = <<[cmd |-> "Read", blk |-> b]>>
      <4> HIDE DEF r, s, back
      <4>1. r.below = << >> \o <<Request("Read", b)>>
        BY <1>10, <2>2
      <4> QED BY <4>1 DEF Request
    <3> HIDE DEF r, s
    <3> QED BY <2>2, <3>1 DEF Cmds, Written
  <2> QED BY <2>1, <2>2
<1> HIDE DEF ln, q, d, r, ct, s, t, old, bks, back
<1>13. SetOK(c, ln, q, bks)
  <2>1. \A v, x \in WaysOf(c) : v # x /\ ln[v].valid /\ ln[x].valid => ln[v].tag # ln[x].tag
    BY <1>2, <1>4, <1>6 DEF SetOK
  <2> QED BY <1>4, <1>7, <1>9, <2>1 DEF SetOK
<1>14. Differs(c, d, s, ln, q, bks) /\ d.last = 0 /\ d.last_blk = 0 /\ d.count = ct
  BY <1>1, <1>3, ChangedParts
<1>15. Balanced(d)
  <2>1. ValidBlocks(d) = ValidBlocks(c) \cup {<<s, w>>}
    BY <1>1, <1>4, <1>5, <1>14, OneChanged
  <2>2. <<s, w>> \in ValidBlocks(c) <=> old.valid
    BY <1>1 DEF ValidBlocks, old
  <2>3. IsFiniteSet(ValidBlocks(c)) /\ Cardinality(ValidBlocks(c)) \in Nat
    BY FiniteBlocks
  <2>4. Cardinality(ValidBlocks(d)) = Cardinality(ValidBlocks(c)) + IF old.valid THEN 0 ELSE 1
    <3>1. CASE old.valid
      <4>1. ValidBlocks(d) = ValidBlocks(c)
        BY <2>1, <2>2, <3>1
      <4> QED BY <2>3, <3>1, <4>1
    <3>2. CASE ~old.valid
      <4> DEFINE P == ValidBlocks(c)
                 p == <<s, w>>
      <4>1. ValidBlocks(d) = P \cup {p} /\ p \notin P /\ IsFiniteSet(P)
        BY <2>1, <2>2, <2>3, <3>2
      <4> HIDE DEF P, p
      <4>2. Cardinality(P \cup {p}) = Cardinality(P) + 1
        BY <4>1, FS_AddElement
      <4> QED BY <3>2, <4>1, <4>2 DEF P
    <3> QED BY <3>1, <3>2
  <2>5. c.count \in [CacheStats -> Nat] /\ Balanced(c) /\ c.counting = d.counting
    BY <1>14 DEF CacheOK, Differs, Alike
  <2> QED BY <1>8, <1>14, <2>3, <2>4, <2>5 DEF Balanced, CacheStats
<1>16. Within(c, s, ln, B) /\ ShortCut(c, s, ln, q, 0, 0)
  BY <1>1, <1>4 DEF CacheOK, BlockAt, Within, ShortCut
<1>17. 0 \in WaysOf(c)
  BY DEF CacheOK, WaysOf
<1>18. CacheOK(d, B) /\ Alike(c, d)
  BY <1>1, <1>3, <1>8, <1>13, <1>15, <1>16, <1>17, ChangedOK
<1>19. DirtyBlocks(d) = (DirtyBlocks(c) \ Written(r.below)) \cup (IF cmd = "Write" THEN {b} ELSE {})
  <2>1. DirtyBlocks(d) = (DirtyBlocks(c) \ (IF old.valid /\ old.dirty THEN {BlockAt(c, s, w)} ELSE {}))
                           \cup (IF ln[w].valid /\ ln[w].dirty THEN {ln[w].tag * c.nsets + s} ELSE {})
    BY <1>1, <1>5, <1>14, <1>18, DirtyChanged, CacheThere DEF old
  <2> QED BY <1>1, <1>4, <1>12, <2>1 DEF back
<1>20. Filled(c, d, s, w, q, t)
  BY <1>1, <1>4, <1>14 DEF Filled, Emptied, OneWay, Differs
<1>21. Serves(c, r, B, Wrote(cmd, b))
  BY <1>12, <1>18, <1>19 DEF Serves, Wrote, d
<1> QED BY <1>20, <1>21 DEF q, s, t, d, r

\* cache_access, on a hit through the short cut, another hit, or a miss.
LEMMA AccessServes ==
    ASSUME NEW B, B \subseteq Nat \ {0}, NEW c, CacheOK(c, B), NEW cmd \in Cmds, NEW b \in B,
           NEW pick, c.policy = "Random" => pick \in WaysOf(c)
    PROVE  Serves(c, cache_access(c, cmd, b, pick), B, Wrote(cmd, b))
<1> DEFINE s == SetOf(c, b)
<1>1. s \in SetsOf(c) /\ b \in Nat /\ b # 0
  BY PlaceOfBlock
<1>2. CASE c.last = b
  <2>1. /\ c.last_blk \in WaysOf(c) /\ c.line[s][c.last_blk].valid
        /\ c.line[s][c.last_blk].tag = TagOf(c, b)
        /\ c.policy = "LRU" => c.order[s][1] = c.last_blk
    BY <1>1, <1>2 DEF CacheOK, LastOK
  <2>2. cache_access(c, cmd, b, pick) = Hit(c, cmd, b, c.last_blk)
    BY <1>2 DEF cache_access
  <2>3. Serves(c, Hit(c, cmd, b, c.last_blk), B, Wrote(cmd, b))
    BY <2>1, HitServes
  <2> QED BY <2>2, <2>3
<1>3. CASE c.last # b /\ Found(c, b) # {}
  <2> DEFINE w == CHOOSE v \in Found(c, b) : TRUE
  <2>1. w \in Found(c, b)
    BY <1>3
  <2>2. w \in WaysOf(c) /\ c.line[s][w].valid /\ c.line[s][w].tag = TagOf(c, b)
    BY <1>1, <2>1, FoundIs
  <2>3. cache_access(c, cmd, b, pick) = Hit(c, cmd, b, w)
    BY <1>3 DEF cache_access
  <2> HIDE DEF w
  <2>4. Serves(c, Hit(c, cmd, b, w), B, Wrote(cmd, b))
    BY <1>3, <2>2, HitServes
  <2> QED BY <2>3, <2>4
<1>4. CASE c.last # b /\ Found(c, b) = {}
  <2> DEFINE w == Victim(c, b, pick)
  <2>1. w \in WaysOf(c)
    <3>1. SetOK(c, c.line[s], c.order[s], c.hash[s]) /\ c.assoc \in Nat \ {0}
      BY <1>1 DEF CacheOK
    <3>2. c.order[s] \in Seq(WaysOf(c)) /\ Len(c.order[s]) = c.assoc
      BY <3>1 DEF SetOK, Holds
    <3>3. Last(c.order[s]) \in WaysOf(c)
      BY <3>1, <3>2 DEF Last
    <3> QED BY <3>3 DEF Victim
  <2>2. cache_access(c, cmd, b, pick) = Miss(c, cmd, b, w)
    BY <1>4 DEF cache_access
  <2> HIDE DEF w
  <2>3. Serves(c, Miss(c, cmd, b, w), B, Wrote(cmd, b))
    BY <1>4, <2>1, MissServes
  <2> QED BY <2>2, <2>3
<1> QED BY <1>2, <1>3, <1>4

\* cache_flush_addr.
LEMMA FlushAddrServes ==
    ASSUME NEW B, B \subseteq Nat \ {0}, NEW c, CacheOK(c, B), NEW b \in B
    PROVE  /\ Serves(c, cache_flush_addr(c, b), B, {})
           /\ IF Found(c, b) = {} THEN cache_flush_addr(c, b).cache = c
              ELSE \E w \in Found(c, b) :
                      Emptied(c, cache_flush_addr(c, b).cache, SetOf(c, b), w, ToTail(c.order[SetOf(c, b)], w),
                             TagOf(c, b))
<1> DEFINE s == SetOf(c, b)
           t == TagOf(c, b)
           w == CHOOSE v \in Found(c, b) : TRUE
           old == c.line[s][w]
           back == old.dirty
           ln == [c.line[s] EXCEPT ![w].valid = FALSE]
           q == ToTail(c.order[s], w)
           names == {"invalidations"} \cup (IF back THEN {"writebacks"} ELSE {})
           ct == Counted(c, names)
           r == cache_flush_addr(c, b)
           d == r.cache
<1>1. s \in SetsOf(c) /\ t * c.nsets + s = b /\ t \in Nat /\ b \in Nat /\ b # 0
  BY PlaceOfBlock
<1>2. SetOK(c, c.line[s], c.order[s], c.hash[s]) /\ c.line[s] \in [WaysOf(c) -> Line]
  BY <1>1 DEF CacheOK, SetOK
<1>3. CASE Found(c, b) = {}
  <2>1. r.cache = c /\ r.below = << >>
    BY <1>3 DEF cache_flush_addr, Result
  <2>2. Alike(c, c) /\ << >> \in Seq([cmd : Cmds, blk : B])
    BY DEF Alike
  <2> HIDE DEF r
  <2>3. Serves(c, r, B, {})
    BY <2>1, <2>2, NothingWritten DEF Serves
  <2> QED BY <1>3, <2>1, <2>3 DEF r
<1>4. CASE Found(c, b) # {}
  <2>0. w \in Found(c, b)
    BY <1>4
  <2>1. w \in WaysOf(c) /\ old.valid /\ old.tag = t /\ old \in Line
    <3>1. w \in Found(c, b)
      BY <1>4
    <3> QED BY <1>1, <1>2, <3>1, FoundIs
  <2>2. r = Result([c EXCEPT !.line[s][w].valid = FALSE, !.order[s] = ToTail(@, w),
                             !.last = 0, !.last_blk = 0, !.count = ct],
                   IF back THEN <<Request("Write", b)>> ELSE << >>)
    BY <1>4 DEF cache_flush_addr
  <2>3. d = Changed(c, s, ln, q, c.hash[s], 0, 0, ct)
    <3> DEFINE l == c.line
               o == c.order
               h == c.hash
    <3>1. d = [c EXCEPT !.line[s][w].valid = FALSE, !.order[s] = ToTail(@, w),
                        !.last = 0, !.last_blk = 0, !.count = ct]
      BY <2>2 DEF Result
    <3>2. [l EXCEPT ![s][w].valid = FALSE] = [l EXCEPT ![s] = ln] /\ h = [h EXCEPT ![s] = h[s]]
          /\ [o EXCEPT ![s] = ToTail(@, w)] = [o EXCEPT ![s] = q]
      BY <1>1 DEF CacheOK
    <3>3. Shaped(c, c.nsets, c.assoc, c.policy, c.hsize, c.counting, l, o, h, c.last, c.last_blk, c.count)
      BY CacheShaped
    <3> HIDE DEF l, o, h, q, ln, ct, s, w, d
    <3>4. Shaped([c EXCEPT !.line[s][w].valid = FALSE, !.order[s] = ToTail(@, w),
                           !.last = 0, !.last_blk = 0, !.count = ct],
                 c.nsets, c.assoc, c.policy, c.hsize, c.counting,
                 [l EXCEPT ![s][w].valid = FALSE], [o EXCEPT ![s] = ToTail(@, w)], h, 0, 0, ct)
      BY <3>3 DEF Shaped
    <3>5. Shaped(d, c.nsets, c.assoc, c.policy, c.hsize, c.counting, [l EXCEPT ![s] = ln],
                 [o EXCEPT ![s] = q], h, 0, 0, ct)
      BY <3>1, <3>2, <3>4
    <3> QED BY <3>2, <3>5, ShapedIs DEF Changed, l, o, h
  <2>4. /\ ln \in [WaysOf(c) -> Line] /\ \A v \in WaysOf(c) \ {w} : ln[v] = c.line[s][v]
        /\ ~ln[w].valid /\ ln[w].tag = old.tag
    BY <1>2, <2>1 DEF Line
  <2>5. OnlyAt(c, ln, s, w) /\ \A v \in WaysOf(c) : ln[v].tag = c.line[s][v].tag
    BY <2>4 DEF OnlyAt
  <2>6. Holds(q, WaysOf(c)) /\ Len(q) = c.assoc
        /\ (c.policy # "Random" => ValidFirst(q, {v \in WaysOf(c) : ln[v].valid}))
    <3> DEFINE V == {v \in WaysOf(c) : c.line[s][v].valid}
               o == c.order[s]
    <3>1. {v \in WaysOf(c) : ln[v].valid} = V \ {w}
      BY <2>4
    <3>2. Holds(o, WaysOf(c)) /\ Len(o) = c.assoc /\ (c.policy # "Random" => ValidFirst(o, V))
      BY <1>2 DEF SetOK
    <3>3. q = ToTail(o, w)
      OBVIOUS
    <3> HIDE DEF V, ln, s, o, q, w
    <3>4. /\ Holds(ToTail(o, w), WaysOf(c)) /\ Len(ToTail(o, w)) = Len(o)
          /\ ValidFirst(o, V) => ValidFirst(ToTail(o, w), V \ {w})
      BY <2>1, <3>2, MovedToTail
    <3> QED BY <3>1, <3>2, <3>3, <3>4
  <2>7. ct \in [CacheStats -> Nat]
        /\ (c.counting => /\ ct["misses"] = c.count["misses"]
                          /\ ct["replacements"] = c.count["replacements"]
                          /\ ct["invalidations"] = c.count["invalidations"] + 1)
    <3>1. {"misses", "replacements", "invalidations"} \subseteq CacheStats
          /\ "misses" \notin names /\ "replacements" \notin names /\ "invalidations" \in names
      BY DEF CacheStats
    <3> HIDE DEF names
    <3>2. ct \in [CacheStats -> Nat]
          /\ (c.counting => \A n \in CacheStats : ct[n] = c.count[n] + (IF n \in names THEN 1 ELSE 0))
      BY CountedType
    <3>3. c.count \in [CacheStats -> Nat]
      BY DEF CacheOK
    <3> HIDE DEF ct
    <3> QED BY <3>1, <3>2, <3>3
  <2>8. old.tag * c.nsets + s = b /\ BlockAt(c, s, w) = b
    BY <1>1, <2>1 DEF BlockAt
  <2>9. r.below = IF back THEN <<Request("Write", b)>> ELSE << >>
    BY <2>2 DEF Result
  <2> HIDE DEF r, d, ln, q, ct, s, t, old, back, w, names
  <2>10. r.below \in Seq([cmd : Cmds, blk : B]) /\ Written(r.below) = IF back THEN {b} ELSE {}
    <3>1. CASE back
      <4>1. r.below = <<[cmd |-> "Write", blk |-> b]>>
        BY <2>9, <3>1 DEF Request
      <4> QED BY <3>1, <4>1 DEF Cmds, Written
    <3>2. CASE ~back
      BY <2>9, <3>2, NothingWritten
    <3> QED BY <3>1, <3>2
  <2>11. SetOK(c, ln, q, c.hash[s])
    <3>1. \A v, x \in WaysOf(c) : v # x /\ ln[v].valid /\ ln[x].valid => ln[v].tag # ln[x].tag
      BY <1>2, <2>4 DEF SetOK
    <3>2. BucketsHold(c, ln, c.hash[s])
      <4>1. \A h : {v \in WaysOf(c) : HashOf(c, ln[v].tag) = h} = {v \in WaysOf(c) : HashOf(c, c.line[s][v].tag) = h}
        BY <2>5
      <4>2. ASSUME NEW h \in 0..c.hsize - 1
            PROVE  Holds(c.hash[s][h], {v \in WaysOf(c) : HashOf(c, ln[v].tag) = h})
        <5>1. Holds(c.hash[s][h], {v \in WaysOf(c) : HashOf(c, c.line[s][v].tag) = h})
          BY <1>2 DEF SetOK, BucketsHold
        <5> QED BY <4>1, <5>1, Zenon
      <4>3. c.hash[s] \in [0..c.hsize - 1 -> Seq(WaysOf(c))]
        BY <1>2 DEF SetOK, BucketsHold
      <4> QED BY <4>2, <4>3 DEF BucketsHold
    <3> QED BY <2>4, <2>6, <3>1, <3>2 DEF SetOK
  <2>12. Differs(c, d, s, ln, q, c.hash[s]) /\ d.last = 0 /\ d.last_blk = 0 /\ d.count = ct
    BY <1>1, <2>3, ChangedParts
  <2>13. Balanced(d)
    <3> DEFINE P == ValidBlocks(c)
               p == <<s, w>>
    <3>1. ValidBlocks(d) = P \ {p}
      BY <1>1, <2>1, <2>4, <2>5, <2>12, OneChanged
    <3>2. p \in P
      BY <1>1, <2>1 DEF ValidBlocks, old
    <3>3. IsFiniteSet(P) /\ Cardinality(P) \in Nat
      BY FiniteBlocks
    <3>4. c.count \in [CacheStats -> Nat] /\ Balanced(c) /\ c.counting = d.counting
      BY <2>12 DEF CacheOK, Differs, Alike
    <3> HIDE DEF p
    <3>5. Cardinality(ValidBlocks(d)) = Cardinality(P) - 1
      <4> HIDE DEF P
      <4> QED BY <3>1, <3>2, <3>3, FS_RemoveElement
    <3> QED BY <2>7, <2>12, <3>3, <3>4, <3>5 DEF Balanced, CacheStats
  <2>14. Within(c, s, ln, B) /\ ShortCut(c, s, ln, q, 0, 0)
    BY <1>1, <2>4 DEF CacheOK, BlockAt, Within, ShortCut
  <2>15. 0 \in WaysOf(c)
    BY DEF CacheOK, WaysOf
  <2>16. CacheOK(d, B) /\ Alike(c, d)
    BY <1>1, <2>3, <2>7, <2>11, <2>13, <2>14, <2>15, ChangedOK
  <2>17. DirtyBlocks(d) = (DirtyBlocks(c) \ Written(r.below)) \cup {}
    <3>1. DirtyBlocks(d) = (DirtyBlocks(c) \ (IF old.valid /\ old.dirty THEN {BlockAt(c, s, w)} ELSE {}))
                             \cup (IF ln[w].valid /\ ln[w].dirty THEN {ln[w].tag * c.nsets + s} ELSE {})
      BY <1>1, <2>1, <2>5, <2>12, <2>16, DirtyChanged, CacheThere DEF old
    <3> QED BY <2>1, <2>4, <2>8, <2>10, <3>1 DEF back
  <2>18. Serves(c, r, B, {})
    BY <2>10, <2>16, <2>17 DEF Serves, d
  <2>19. Emptied(c, d, s, w, q, t)
    BY <1>1, <2>1, <2>4, <2>12 DEF Filled, Emptied, OneWay, Differs
  <2>20. \E v \in Found(c, b) : Emptied(c, d, s, v, ToTail(c.order[s], v), t)
    BY <2>0, <2>19 DEF q
  <2> QED BY <1>4, <2>18, <2>20 DEF d, s, t, r
<1> QED BY <1>3, <1>4

\* The places cache_flush writes back are those of the dirty blocks, each once.
LEMMA FlushOrderIs ==
    ASSUME NEW B, NEW c, CacheOK(c, B)
    PROVE  /\ DOMAIN FlushOrder(c) = 1..Cardinality(DirtyPlaces(c))
           /\ \A n \in DOMAIN FlushOrder(c) : FlushOrder(c)[n] \in DirtyPlaces(c)
           /\ \A p \in DirtyPlaces(c) : \E n \in DOMAIN FlushOrder(c) : FlushOrder(c)[n] = p
<1> DEFINE D == DirtyPlaces(c)
           O == {x \in D \X D : Visited(c, x[1], x[2])}
           R == Rank(D, O)
           N == Cardinality(D)
<1>1. \A p \in D : p = <<p[1], p[2]>> /\ p[1] \in SetsOf(c) /\ p[2] \in WaysOf(c)
  BY DEF DirtyPlaces, ValidBlocks
<1>2. ASSUME NEW p \in D
      PROVE  /\ p[1] \in Nat /\ PlaceOf(c, p) \in Nat
             /\ PlaceOf(c, p) \in DOMAIN c.order[p[1]] /\ c.order[p[1]][PlaceOf(c, p)] = p[2]
  <2>1. Holds(c.order[p[1]], WaysOf(c)) /\ p[2] \in WaysOf(c) /\ p[1] \in SetsOf(c)
    BY <1>1 DEF CacheOK, SetOK
  <2>2. p[1] \in Nat
    BY <2>1 DEF CacheOK, SetsOf
  <2>3. PICK k \in 1..Len(c.order[p[1]]) : c.order[p[1]][k] = p[2]
    BY <2>1 DEF Holds
  <2>4. DOMAIN c.order[p[1]] = 1..Len(c.order[p[1]]) /\ Len(c.order[p[1]]) \in Nat
    BY <2>1 DEF Holds
  <2>5. \E i \in DOMAIN c.order[p[1]] : c.order[p[1]][i] = p[2]
    BY <2>3, <2>4
  <2>6. PlaceOf(c, p) \in DOMAIN c.order[p[1]] /\ c.order[p[1]][PlaceOf(c, p)] = p[2]
    <3> HIDE DEF D
    <3> QED BY <2>5, Zenon DEF PlaceOf
  <2>7. PlaceOf(c, p) \in Nat
    BY <2>4, <2>6
  <2> QED BY <2>2, <2>6, <2>7
<1>3. \A p, q \in D : p[1] = q[1] /\ PlaceOf(c, p) = PlaceOf(c, q) => p = q
  BY <1>1, <1>2
<1>4. \A p, q \in D : <<p, q>> \in O <=> p[1] < q[1] \/ (p[1] = q[1] /\ PlaceOf(c, p) < PlaceOf(c, q))
  BY DEF Visited
<1>5. IsFiniteSet(D)
  BY FiniteBlocks
<1> HIDE DEF D, O
<1>6. /\ \A p \in D : <<p, p>> \notin O
      /\ \A p, q, r \in D : <<p, q>> \in O /\ <<q, r>> \in O => <<p, r>> \in O
      /\ \A p, q \in D : p # q => <<p, q>> \in O \/ <<q, p>> \in O
  <2>1. \A p \in D : <<p, p>> \notin O
    BY <1>2, <1>4
  <2>2. \A p, q, r \in D : <<p, q>> \in O /\ <<q, r>> \in O => <<p, r>> \in O
    BY <1>2, <1>4
  <2>3. \A p, q \in D : p # q => <<p, q>> \in O \/ <<q, p>> \in O
    BY <1>2, <1>3, <1>4
  <2> QED BY <2>1, <2>2, <2>3
<1>7. /\ N \in Nat /\ \A p \in D : R[p] \in 0..N - 1
      /\ \A p, q \in D : R[p] = R[q] => p = q
      /\ \A n \in 0..N - 1 : \E p \in D : R[p] = n
  BY <1>5, <1>6, Ranks
<1>8. \A p \in D : R[p] = Cardinality({q \in D : Visited(c, q, p)})
  <2>1. ASSUME NEW p \in D PROVE {q \in D : <<q, p>> \in O} = {q \in D : Visited(c, q, p)}
    BY DEF O
  <2> QED BY <2>1 DEF Rank
<1> HIDE DEF R, N
<1>9. FlushOrder(c) = [n \in 1..N |-> CHOOSE p \in D : Cardinality({q \in D : Visited(c, q, p)}) = n - 1]
  BY DEF FlushOrder, D, N
<1>10. ASSUME NEW n \in 1..N PROVE FlushOrder(c)[n] \in D /\ R[FlushOrder(c)[n]] = n - 1
  <2>1. n - 1 \in 0..N - 1
    BY <1>7
  <2>2. \E p \in D : Cardinality({q \in D : Visited(c, q, p)}) = n - 1
    <3>1. PICK p \in D : R[p] = n - 1
      BY <1>7, <2>1
    <3>2. R[p] = Cardinality({q \in D : Visited(c, q, p)})
      BY <1>8
    <3>3. Cardinality({q \in D : Visited(c, q, p)}) = n - 1
      BY <3>1, <3>2
    <3> QED BY <3>3, Zenon
  <2>3. /\ FlushOrder(c)[n] \in D
        /\ Cardinality({q \in D : Visited(c, q, FlushOrder(c)[n])}) = n - 1
    BY <1>9, <2>2
  <2> QED BY <1>8, <2>3
<1>11. ASSUME NEW p \in D PROVE \E n \in 1..N : FlushOrder(c)[n] = p
  <2> DEFINE n == R[p] + 1
  <2>1. n \in 1..N /\ n - 1 = R[p]
    BY <1>7
  <2> HIDE DEF n
  <2>2. FlushOrder(c)[n] \in D /\ R[FlushOrder(c)[n]] = R[p]
    BY <1>10, <2>1
  <2>3. FlushOrder(c)[n] = p
    BY <1>7, <2>2
  <2> QED BY <2>1, <2>3
<1>12. DOMAIN FlushOrder(c) = 1..N
  BY <1>9
<1> QED BY <1>10, <1>11, <1>12 DEF D, N

\* cache_flush.
LEMMA FlushServes ==
    ASSUME NEW B, B \subseteq Nat \ {0}, NEW c, CacheOK(c, B)
    PROVE  /\ Serves(c, cache_flush(c), B, {})
           /\ Written(cache_flush(c).below) = DirtyBlocks(c) /\ DirtyBlocks(cache_flush(c).cache) = {}
           /\ \A s \in SetsOf(c), w \in WaysOf(c) : ~cache_flush(c).cache.line[s][w].valid
<1> DEFINE r == cache_flush(c)
           d == r.cache
           ln == [s \in SetsOf(c) |-> [w \in WaysOf(c) |-> [c.line[s][w] EXCEPT !.valid = FALSE]]]
           ct == IF c.counting
                 THEN [c.count EXCEPT !["invalidations"] = @ + Cardinality(ValidBlocks(c)),
                                      !["writebacks"] = @ + Cardinality(DirtyPlaces(c))]
                 ELSE c.count
           places == FlushOrder(c)
<1>1. Shaped(d, c.nsets, c.assoc, c.policy, c.hsize, c.counting, ln, c.order, c.hash, 0, 0, ct)
  <2>1. Shaped(c, c.nsets, c.assoc, c.policy, c.hsize, c.counting, c.line, c.order, c.hash,
               c.last, c.last_blk, c.count)
    BY CacheShaped
  <2>2. d = [c EXCEPT !.line = ln, !.last = 0, !.last_blk = 0, !.count = ct]
    <3> DEFINE e == [c EXCEPT !.line = ln, !.last = 0, !.last_blk = 0,
                              !.count = IF c.counting
                                        THEN [c.count EXCEPT !["invalidations"] = @ + Cardinality(ValidBlocks(c)),
                                                             !["writebacks"] = @ + Cardinality(DirtyPlaces(c))]
                                        ELSE c.count]
               reqs == [n \in DOMAIN places |-> Request("Write", BlockAt(c, places[n][1], places[n][2]))]
    <3>1. r = Result(e, reqs)
      BY Zenon DEF cache_flush
    <3>2. d = e
      <4> HIDE DEF e, reqs, r
      <4> QED BY <3>1 DEF Result
    <3>3. e = [c EXCEPT !.line = ln, !.last = 0, !.last_blk = 0, !.count = ct]
      OBVIOUS
    <3> QED BY <3>2, <3>3, Zenon
  <2> HIDE DEF d, ln, ct
  <2> QED BY <2>1, <2>2 DEF Shaped
<1>2. r.below = [n \in DOMAIN places |-> Request("Write", BlockAt(c, places[n][1], places[n][2]))]
  BY DEF cache_flush, Result
<1>3. \A s \in SetsOf(c) : SetOK(c, c.line[s], c.order[s], c.hash[s]) /\ c.line[s] \in [WaysOf(c) -> Line]
  BY DEF CacheOK, SetOK
<1>4. \A s \in SetsOf(c), w \in WaysOf(c) : ln[s][w] \in Line /\ ~ln[s][w].valid /\ ln[s][w].tag = c.line[s][w].tag
  <2> TAKE s \in SetsOf(c), w \in WaysOf(c)
  <2>1. c.line[s][w] \in Line /\ ln[s][w] = [c.line[s][w] EXCEPT !.valid = FALSE]
    BY <1>3
  <2>2. ASSUME NEW x \in Line
        PROVE  LET y == [x EXCEPT !.valid = FALSE] IN y \in Line /\ ~y.valid /\ y.tag = x.tag
    BY DEF Line
  <2> HIDE DEF ln
  <2> QED BY <2>1, <2>2
<1>5. ln = [s \in SetsOf(c) |-> ln[s]] /\ \A s \in SetsOf(c) : ln[s] \in [WaysOf(c) -> Line]
  <2>1. ASSUME NEW s \in SetsOf(c) PROVE ln[s] \in [WaysOf(c) -> Line]
    BY <1>4
  <2> QED BY <2>1
<1>6. d.nsets = c.nsets /\ d.assoc = c.assoc /\ d.policy = c.policy /\ d.hsize = c.hsize
      /\ d.counting = c.counting /\ d.line = ln /\ d.order = c.order /\ d.hash = c.hash
      /\ d.last = 0 /\ d.last_blk = 0 /\ d.count = ct
  <2> HIDE DEF d, ln, ct
  <2> QED BY <1>1 DEF Shaped
<1>7. d = [nsets |-> d.nsets, assoc |-> d.assoc, policy |-> d.policy, hsize |-> d.hsize,
           counting |-> d.counting, line |-> d.line, order |-> d.order, hash |-> d.hash,
           last |-> d.last, last_blk |-> d.last_blk, count |-> d.count]
  <2> HIDE DEF d, ln, ct
  <2>1. Shaped(d, d.nsets, d.assoc, d.policy, d.hsize, d.counting, d.line, d.order, d.hash,
               d.last, d.last_blk, d.count)
    BY <1>1, <1>6
  <2> QED BY <2>1, ShapedIs
<1>8. ct \in [CacheStats -> Nat]
      /\ (c.counting => /\ ct["misses"] = c.count["misses"]
                        /\ ct["replacements"] = c.count["replacements"]
                        /\ ct["invalidations"] = c.count["invalidations"] + Cardinality(ValidBlocks(c)))
  <2>1. c.count \in [CacheStats -> Nat]
    BY DEF CacheOK
  <2>2. Cardinality(ValidBlocks(c)) \in Nat /\ Cardinality(DirtyPlaces(c)) \in Nat
    BY FiniteBlocks
  <2>3. {"misses", "replacements", "invalidations", "writebacks"} \subseteq CacheStats
    BY DEF CacheStats
  <2> QED BY <2>1, <2>2, <2>3
<1> HIDE DEF d, ln, ct, r
<1>9. Alike(c, d)
  BY <1>6 DEF Alike
<1>10. SetsOf(d) = SetsOf(c) /\ WaysOf(d) = WaysOf(c)
  BY <1>9, AlikeSets
<1>11. ValidBlocks(d) = {} /\ DirtyBlocks(d) = {} /\ Cardinality(ValidBlocks(d)) = 0
  <2>1. ValidBlocks(d) = {} /\ DirtyPlaces(d) = {}
    BY <1>4, <1>6, <1>10 DEF ValidBlocks, DirtyPlaces
  <2> QED BY <2>1, FS_EmptySet DEF DirtyBlocks
<1>12. ASSUME NEW s \in SetsOf(c)
       PROVE  SetOK(d, d.line[s], d.order[s], d.hash[s]) /\ \A w \in WaysOf(c) : ~d.line[s][w].valid
  <2>1. \A w \in WaysOf(c) : ~ln[s][w].valid /\ ln[s][w].tag = c.line[s][w].tag
    BY <1>4
  <2>2. BucketsHold(c, ln[s], c.hash[s])
    <3>1. \A h : {v \in WaysOf(c) : HashOf(c, ln[s][v].tag) = h} = {v \in WaysOf(c) : HashOf(c, c.line[s][v].tag) = h}
      BY <2>1
    <3>2. ASSUME NEW h \in 0..c.hsize - 1
          PROVE  Holds(c.hash[s][h], {v \in WaysOf(c) : HashOf(c, ln[s][v].tag) = h})
      <4>1. Holds(c.hash[s][h], {v \in WaysOf(c) : HashOf(c, c.line[s][v].tag) = h})
        BY <1>3 DEF SetOK, BucketsHold
      <4> QED BY <3>1, <4>1, Zenon
    <3>3. c.hash[s] \in [0..c.hsize - 1 -> Seq(WaysOf(c))]
      BY <1>3 DEF SetOK, BucketsHold
    <3> QED BY <3>2, <3>3 DEF BucketsHold
  <2>3. Holds(c.order[s], WaysOf(c)) /\ Len(c.order[s]) = c.assoc
    BY <1>3 DEF SetOK
  <2>4. ValidFirst(c.order[s], {w \in WaysOf(c) : ln[s][w].valid})
    BY <2>1, <2>3 DEF ValidFirst, Holds
  <2>5. SetOK(c, ln[s], c.order[s], c.hash[s])
    BY <1>5, <2>1, <2>2, <2>3, <2>4 DEF SetOK
  <2> QED BY <1>6, <1>9, <2>1, <2>5, AlikeSets
<1>13. CacheOK(d, B)
  <2>1. c.nsets \in Nat \ {0} /\ c.assoc \in Nat \ {0} /\ c.hsize \in Nat /\ c.policy \in Policies
        /\ c.counting \in BOOLEAN /\ c.order = [s \in SetsOf(c) |-> c.order[s]]
        /\ c.hash = [s \in SetsOf(c) |-> c.hash[s]] /\ c.count \in [CacheStats -> Nat] /\ Balanced(c)
    BY DEF CacheOK
  <2>2. Balanced(d)
    <3>1. Cardinality(ValidBlocks(c)) \in Nat
      BY FiniteBlocks
    <3> QED BY <1>6, <1>8, <1>11, <2>1, <3>1 DEF Balanced, CacheStats
  <2>3. LastOK(d, d.last, d.last_blk) /\ d.last \in Nat /\ d.last_blk \in WaysOf(d)
    BY <1>6, <1>10, <2>1 DEF LastOK, WaysOf
  <2>4. d.line = [s \in SetsOf(d) |-> d.line[s]] /\ d.order = [s \in SetsOf(d) |-> d.order[s]]
        /\ d.hash = [s \in SetsOf(d) |-> d.hash[s]]
    BY <1>5, <1>6, <1>10, <2>1
  <2> QED BY <1>6, <1>7, <1>8, <1>10, <1>12, <2>1, <2>2, <2>3, <2>4 DEF CacheOK
<1>14. DOMAIN places = 1..Cardinality(DirtyPlaces(c)) /\ Cardinality(DirtyPlaces(c)) \in Nat
       /\ (\A n \in DOMAIN places : places[n] \in DirtyPlaces(c))
       /\ \A p \in DirtyPlaces(c) : \E n \in DOMAIN places : places[n] = p
  BY FlushOrderIs, FiniteBlocks
<1> HIDE DEF places
<1>15. \A n \in DOMAIN places : /\ r.below[n] = Request("Write", BlockAt(c, places[n][1], places[n][2]))
                                /\ BlockAt(c, places[n][1], places[n][2]) \in B
  BY <1>2, <1>14 DEF DirtyPlaces, ValidBlocks, CacheOK
<1>16. r.below \in Seq([cmd : Cmds, blk : B])
  <2>1. \A n \in DOMAIN places : Request("Write", BlockAt(c, places[n][1], places[n][2])) \in [cmd : Cmds, blk : B]
    BY <1>15 DEF Request, Cmds
  <2> DEFINE x(n) == Request("Write", BlockAt(c, places[n][1], places[n][2]))
             k == Cardinality(DirtyPlaces(c))
             S == [cmd : Cmds, blk : B]
  <2>2. r.below = [n \in 1..k |-> x(n)] /\ k \in Nat /\ \A n \in 1..k : x(n) \in S
    BY <1>2, <1>14, <2>1
  <2> HIDE DEF x, k, S
  <2>3. r.below \in Seq(S)
    BY <2>2
  <2> QED BY <2>3 DEF S
<1>17. Written(r.below) = DirtyBlocks(c)
  <2>1. DirtyBlocks(c) = {BlockAt(c, p[1], p[2]) : p \in DirtyPlaces(c)}
    BY CacheThere DEF DirtyBlocks
  <2>2. DOMAIN r.below = DOMAIN places
        /\ \A n \in DOMAIN places : r.below[n].cmd = "Write" /\ r.below[n].blk = BlockAt(c, places[n][1], places[n][2])
    BY <1>2, <1>15 DEF Request
  <2>3. Written(r.below) = {BlockAt(c, places[n][1], places[n][2]) : n \in DOMAIN places}
    BY <2>2 DEF Written
  <2> QED BY <1>14, <2>1, <2>3
<1>18. Serves(c, r, B, {})
  BY <1>9, <1>11, <1>13, <1>16, <1>17 DEF Serves, d
<1> QED BY <1>11, <1>12, <1>17, <1>18 DEF r, d

-----------------------------------------------------------------------------
(* A new cache                                                             *)

\* cache_create.
LEMMA CreatedOK ==
    ASSUME NEW p, p.nsets \in Nat \ {0}, p.assoc \in Nat \ {0}, p.hsize \in Nat,
           p.policy \in Policies, p.counting \in BOOLEAN, NEW B
    PROVE  CacheOK(Created(p), B) /\ DirtyBlocks(Created(p)) = {}
<1> DEFINE c == Created(p)
           A == 0..p.assoc - 1
           pushed == [k \in 1..p.assoc |-> p.assoc - k]
           buckets == [h \in 0..p.hsize - 1 |-> IF h = 0 THEN pushed ELSE << >>]
           ln == [w \in A |-> Invalid]
           count == [n \in CacheStats |-> 0]
<1>1. /\ c.nsets = p.nsets /\ c.assoc = p.assoc /\ c.policy = p.policy /\ c.hsize = p.hsize
      /\ c.counting = p.counting /\ c.last = 0 /\ c.last_blk = 0 /\ c.count = count
      /\ c.line = [s \in 0..p.nsets - 1 |-> ln] /\ c.order = [s \in 0..p.nsets - 1 |-> pushed]
      /\ c.hash = [s \in 0..p.nsets - 1 |-> buckets]
  BY Zenon DEF Created
<1>2. c = [nsets |-> c.nsets, assoc |-> c.assoc, policy |-> c.policy, hsize |-> c.hsize,
           counting |-> c.counting, line |-> c.line, order |-> c.order, hash |-> c.hash,
           last |-> c.last, last_blk |-> c.last_blk, count |-> c.count]
  <2>1. c = [nsets |-> p.nsets, assoc |-> p.assoc, policy |-> p.policy, hsize |-> p.hsize,
             counting |-> p.counting, line |-> [s \in 0..p.nsets - 1 |-> ln],
             order |-> [s \in 0..p.nsets - 1 |-> pushed], hash |-> [s \in 0..p.nsets - 1 |-> buckets],
             last |-> 0, last_blk |-> 0, count |-> count]
    BY Zenon DEF Created
  <2> HIDE DEF c, ln, pushed, buckets, count
  <2> QED BY <1>1, <2>1
<1>3. WaysOf(c) = A /\ SetsOf(c) = 0..p.nsets - 1 /\ 0 \in A
  <2> HIDE DEF c
  <2> QED BY <1>1 DEF WaysOf, SetsOf
<1>4. Holds(pushed, A) /\ Len(pushed) = p.assoc
  <2>1. pushed \in Seq(A) /\ Len(pushed) = p.assoc
    <3>1. \A k \in 1..p.assoc : p.assoc - k \in A
      OBVIOUS
    <3> QED BY <3>1
  <2>2. ASSUME NEW w \in A PROVE \E k \in 1..Len(pushed) : pushed[k] = w
    <3>1. p.assoc - w \in 1..p.assoc /\ pushed[p.assoc - w] = w
      OBVIOUS
    <3> QED BY <2>1, <3>1
  <2>3. \A j, k \in 1..Len(pushed) : pushed[j] = pushed[k] => j = k
    BY <2>1
  <2> QED BY <2>1, <2>2, <2>3 DEF Holds
<1>5. /\ ln \in [A -> Line] /\ \A w \in A : ~ln[w].valid /\ ln[w].tag = 0
  BY DEF Line, Invalid
<1>6. BucketsHold(c, ln, buckets)
  <2>1. ASSUME NEW h \in 0..c.hsize - 1
        PROVE  /\ {w \in WaysOf(c) : HashOf(c, ln[w].tag) = h} = IF h = 0 THEN A ELSE {}
               /\ buckets[h] = (IF h = 0 THEN pushed ELSE << >>) /\ buckets[h] \in Seq(A)
    <3>1. h \in 0..p.hsize - 1 /\ p.hsize > 0 /\ h \in Nat
      BY <1>1
    <3>2. 0 % p.hsize = 0
      BY <3>1
    <3>3. \A w \in A : HashOf(c, ln[w].tag) = 0
      <4> HIDE DEF c, ln
      <4> QED BY <1>1, <1>5, <3>2 DEF HashOf
    <3>4. {w \in WaysOf(c) : HashOf(c, ln[w].tag) = h} = IF h = 0 THEN A ELSE {}
      <4> HIDE DEF c, ln, A
      <4> QED BY <1>3, <3>1, <3>3
    <3>5. buckets[h] = IF h = 0 THEN pushed ELSE << >>
      BY <3>1
    <3>6. pushed \in Seq(A) /\ << >> \in Seq(A)
      BY <1>4 DEF Holds
    <3> HIDE DEF c, ln, A, pushed, buckets
    <3> QED BY <3>4, <3>5, <3>6
  <2>2. Holds(<< >>, {})
    BY DEF Holds
  <2>3. buckets \in [0..c.hsize - 1 -> Seq(WaysOf(c))]
    <3>1. buckets = [h \in 0..c.hsize - 1 |-> buckets[h]]
      BY <1>1
    <3> HIDE DEF buckets, c, A
    <3> QED BY <1>3, <2>1, <3>1
  <2>4. ASSUME NEW h \in 0..c.hsize - 1
        PROVE  Holds(buckets[h], {w \in WaysOf(c) : HashOf(c, ln[w].tag) = h})
    <3> HIDE DEF buckets, c, A, ln, pushed
    <3>1. CASE h = 0
      <4>1. {w \in WaysOf(c) : HashOf(c, ln[w].tag) = h} = A /\ buckets[h] = pushed
        BY <2>1, <3>1
      <4> QED BY <1>4, <4>1, Zenon
    <3>2. CASE h # 0
      <4>1. {w \in WaysOf(c) : HashOf(c, ln[w].tag) = h} = {} /\ buckets[h] = << >>
        BY <2>1, <3>2
      <4> QED BY <2>2, <4>1, Zenon
    <3> QED BY <3>1, <3>2
  <2> QED BY <2>3, <2>4 DEF BucketsHold
<1> HIDE DEF c, ln, pushed, buckets, A
<1>7. \A s \in SetsOf(c) : c.line[s] = ln /\ c.order[s] = pushed /\ c.hash[s] = buckets
  BY <1>1, <1>3
<1>8. SetOK(c, ln, pushed, buckets)
  <2>1. ValidFirst(pushed, {w \in WaysOf(c) : ln[w].valid})
    BY <1>3, <1>4, <1>5 DEF ValidFirst, Holds
  <2> QED BY <1>1, <1>3, <1>4, <1>5, <1>6, <2>1 DEF SetOK
<1>9. ValidBlocks(c) = {} /\ DirtyPlaces(c) = {}
  BY <1>3, <1>5, <1>7 DEF ValidBlocks, DirtyPlaces
<1>10. Balanced(c)
  <2>1. count["misses"] = 0 /\ count["replacements"] = 0 /\ count["invalidations"] = 0
    BY DEF CacheStats
  <2>2. Cardinality(ValidBlocks(c)) = 0
    BY <1>9, FS_EmptySet
  <2> QED BY <1>1, <2>1, <2>2 DEF Balanced
<1>11. \A s \in SetsOf(c) : /\ SetOK(c, c.line[s], c.order[s], c.hash[s])
                            /\ \A w \in WaysOf(c) : ~c.line[s][w].valid
  BY <1>3, <1>5, <1>7, <1>8
<1>12. LastOK(c, c.last, c.last_blk) /\ c.last \in Nat /\ c.last_blk \in WaysOf(c)
  BY <1>1, <1>3 DEF LastOK
<1>13. /\ c.line = [s \in SetsOf(c) |-> c.line[s]] /\ c.order = [s \in SetsOf(c) |-> c.order[s]]
       /\ c.hash = [s \in SetsOf(c) |-> c.hash[s]]
  BY <1>1, <1>3
<1>14. c.count \in [CacheStats -> Nat]
  BY <1>1
<1>15. CacheOK(c, B)
  BY <1>1, <1>2, <1>10, <1>11, <1>12, <1>13, <1>14 DEF CacheOK
<1>16. DirtyBlocks(c) = {}
  BY <1>9 DEF DirtyBlocks
<1> QED BY <1>15, <1>16 DEF c

-----------------------------------------------------------------------------
(* The requests dl1 makes                                                  *)

\* A level below the first: none, or a cache of blocks other than 0.
LevelOK(c) == c = NoCache \/ CacheOK(c, Nat \ {0})

\* What the two levels and behind are to each other: from the writes behind[1] of before,
\* the second level has been given those of gone.
Lower(low, gone) ==
    /\ low \in [dl2 : {low.dl2}, behind : {low.behind}]
    /\ LevelOK(low.dl2) /\ (low.dl2 = NoCache <=> dl2 = NoCache)
    /\ low.dl2 # NoCache => Alike(dl2, low.dl2)
    /\ low.behind = [n \in {1, 2} |-> IF n = 1 THEN behind[1] \ gone ELSE DirtyBlocks(low.dl2)]

\* A block of dl1 lies in a block of dl2 that is not block 0.
LEMMA BlockBelow == \A b \in Nat : b >= Ratio => b # 0 /\ b \div Ratio \in Nat \ {0}
<1> SUFFICES ASSUME NEW b \in Nat, b >= Ratio PROVE b # 0 /\ b \div Ratio \in Nat \ {0}
  OBVIOUS
<1>1. Ratio \in Nat \ {0}
  BY BlocksAssumption
<1>2. b \div Ratio \in Nat /\ b % Ratio \in 0..Ratio - 1 /\ (b \div Ratio) * Ratio + (b % Ratio) = b
  BY <1>1, TagAndSet
<1>3. b \div Ratio # 0
  <2>1. SUFFICES ASSUME b \div Ratio = 0 PROVE FALSE
    OBVIOUS
  <2>2. (b \div Ratio) * Ratio = 0
    BY <1>1, <2>1
  <2> QED BY <1>1, <1>2, <2>2
<1> QED BY <1>1, <1>2, <1>3

\* What dl1 asks for.
Asked == [cmd : Cmds, blk : {b \in Nat : b >= Ratio}]

\* Something is done to both levels' entries.
LEMMA BothLevels ==
    ASSUME NEW f, f = [n \in {1, 2} |-> f[n]], NEW D, NEW W, NEW X
    PROVE  [f EXCEPT ![1] = @ \ D, ![2] = (@ \ W) \cup X]
             = [n \in {1, 2} |-> IF n = 1 THEN f[1] \ D ELSE (f[2] \ W) \cup X]
<1>1. DOMAIN f = {1, 2}
  OBVIOUS
<1> QED BY <1>1

\* One request.
LEMMA PassedOneKeeps ==
    ASSUME NEW low, NEW gone, Lower(low, gone), NEW req \in Asked, NEW pick,
           dl2 # NoCache /\ dl2.policy = "Random" => pick \in WaysOf(dl2)
    PROVE  Lower(PassedOne(low, req, pick), gone \cup Wrote(req.cmd, req.blk))
<1> DEFINE down == IF req.cmd = "Write" THEN {req.blk} ELSE {}
           q == req.blk \div Ratio
           r == cache_access(low.dl2, req.cmd, q, pick)
           p == PassedOne(low, req, pick)
           more == gone \cup Wrote(req.cmd, req.blk)
<1>1. req.cmd \in Cmds /\ q \in Nat \ {0} /\ down = Wrote(req.cmd, req.blk)
  BY BlockBelow DEF Asked, Wrote
<1>2. /\ low.behind = [n \in {1, 2} |-> IF n = 1 THEN behind[1] \ gone ELSE DirtyBlocks(low.dl2)]
      /\ low.behind[1] = behind[1] \ gone /\ low.behind[2] = DirtyBlocks(low.dl2)
  BY DEF Lower
<1>3. CASE low.dl2 = NoCache
  <2>1. p = [low EXCEPT !.behind = [low.behind EXCEPT ![1] = @ \ down]]
    BY <1>3 DEF PassedOne
  <2> DEFINE e == [low.behind EXCEPT ![1] = @ \ down]
  <2>2. p = [low EXCEPT !.behind = e]
    BY <2>1
  <2>3. e = [n \in {1, 2} |-> IF n = 1 THEN behind[1] \ more ELSE DirtyBlocks(low.dl2)]
    BY <1>1, <1>2
  <2> HIDE DEF e, p
  <2>4. p \in [dl2 : {low.dl2}, behind : {e}] /\ p.dl2 = low.dl2 /\ p.behind = e
    BY <2>2 DEF Lower
  <2> HIDE DEF more
  <2>5. Lower(p, more)
    BY <1>3, <2>3, <2>4 DEF Lower
  <2> QED BY <2>5 DEF p, more
<1>4. CASE low.dl2 # NoCache
  <2>1. p = [dl2 |-> r.cache,
             behind |-> [low.behind EXCEPT
                    ![1] = @ \ down,
                    ![2] = (@ \ Written(r.below)) \cup {b \div Ratio : b \in down}]]
    BY <1>4 DEF PassedOne
  <2>2. Serves(low.dl2, r, Nat \ {0}, Wrote(req.cmd, q))
    <3>1. CacheOK(low.dl2, Nat \ {0}) /\ Alike(dl2, low.dl2) /\ dl2 # NoCache
      BY <1>4 DEF Lower, LevelOK
    <3>2. low.dl2.policy = "Random" => pick \in WaysOf(low.dl2)
      BY <3>1, AlikeSets DEF Alike
    <3> HIDE DEF q
    <3> QED BY <1>1, <3>1, <3>2, AccessServes
  <2>3. {b \div Ratio : b \in down} = Wrote(req.cmd, q)
    BY DEF Wrote
  <2> DEFINE e == [low.behind EXCEPT ![1] = @ \ down,
                                     ![2] = (@ \ Written(r.below)) \cup {b \div Ratio : b \in down}]
  <2>4. p = [dl2 |-> r.cache, behind |-> e]
    BY <2>1, Zenon
  <2>5. e = [n \in {1, 2} |-> IF n = 1 THEN behind[1] \ more ELSE DirtyBlocks(r.cache)]
    <3> DEFINE W == Written(r.below)
               X == {b \div Ratio : b \in down}
               f == low.behind
               g == [f EXCEPT ![1] = @ \ down, ![2] = (@ \ W) \cup X]
    <3>1. DirtyBlocks(r.cache) = (DirtyBlocks(low.dl2) \ W) \cup X
      BY <2>2, <2>3 DEF Serves
    <3>2. e = g
      OBVIOUS
    <3> HIDE DEF e, q, r, W, X, down, f
    <3>3. f = [n \in {1, 2} |-> f[n]]
      BY <1>2 DEF f
    <3>4. g = [n \in {1, 2} |-> IF n = 1 THEN f[1] \ down ELSE (f[2] \ W) \cup X]
      BY <3>3, BothLevels
    <3>5. f[1] \ down = behind[1] \ more /\ (f[2] \ W) \cup X = DirtyBlocks(r.cache)
      BY <1>1, <1>2, <3>1 DEF f
    <3> HIDE DEF g, more
    <3> QED BY <3>2, <3>4, <3>5
  <2> HIDE DEF e, p, r, q
  <2>6. p \in [dl2 : {r.cache}, behind : {e}] /\ p.dl2 = r.cache /\ p.behind = e
    BY <2>4
  <2>7. CacheOK(r.cache, Nat \ {0}) /\ Alike(low.dl2, r.cache) /\ Alike(dl2, low.dl2) /\ dl2 # NoCache
    BY <1>4, <2>2 DEF Serves, Lower
  <2>8. Alike(dl2, r.cache) /\ LevelOK(r.cache) /\ r.cache # NoCache
    BY <2>7, CacheThere DEF Alike, LevelOK
  <2> HIDE DEF more
  <2>9. Lower(p, more)
    BY <2>5, <2>6, <2>7, <2>8 DEF Lower
  <2> QED BY <2>9 DEF p, more
<1> QED BY <1>3, <1>4

\* The function Passed defines by recursion exists.
PassedTo(low, reqs, picks, m) ==
    low = [k \in 0..m |-> IF k = 0 THEN [dl2 |-> dl2, behind |-> behind]
                          ELSE PassedOne(low[k - 1], reqs[k], picks[k])]

LEMMA PassedExists == ASSUME NEW reqs, NEW picks, NEW m \in Nat PROVE \E low : PassedTo(low, reqs, picks, m)
<1> DEFINE S == {n \in Nat : \E low : PassedTo(low, reqs, picks, n)}
           a0 == [dl2 |-> dl2, behind |-> behind]
<1>1. 0 \in S
  <2> DEFINE low == [k \in 0..0 |-> a0]
  <2>1. \A k \in 0..0 : k = 0
    OBVIOUS
  <2>2. PassedTo(low, reqs, picks, 0)
    BY <2>1 DEF PassedTo
  <2> QED BY <2>2
<1>2. ASSUME NEW n \in Nat, n \in S PROVE n + 1 \in S
  <2>1. PICK g : PassedTo(g, reqs, picks, n)
    BY <1>2
  <2> DEFINE x == PassedOne(g[n], reqs[n + 1], picks[n + 1])
             h == [k \in 0..n + 1 |-> IF k = n + 1 THEN x ELSE g[k]]
  <2>2. \A k \in 0..n : h[k] = g[k]
    OBVIOUS
  <2>3. h[n + 1] = PassedOne(h[n], reqs[n + 1], picks[n + 1])
    <3>1. h[n] = g[n] /\ h[n + 1] = x
      BY <2>2
    <3> QED BY <3>1
  <2>4. ASSUME NEW k \in 0..n + 1
        PROVE  h[k] = IF k = 0 THEN a0 ELSE PassedOne(h[k - 1], reqs[k], picks[k])
    <3>1. CASE k = n + 1
      BY <2>3, <3>1
    <3>2. CASE k # n + 1
      <4>1. k \in 0..n /\ h[k] = g[k] /\ (k # 0 => k - 1 \in 0..n /\ h[k - 1] = g[k - 1])
        BY <2>2, <3>2
      <4>2. g[k] = IF k = 0 THEN a0 ELSE PassedOne(g[k - 1], reqs[k], picks[k])
        BY <2>1, <4>1 DEF PassedTo
      <4> HIDE DEF h, a0
      <4> QED BY <4>1, <4>2
    <3> QED BY <3>1, <3>2
  <2>5. PassedTo(h, reqs, picks, n + 1)
    <3>1. h = [k \in 0..n + 1 |-> h[k]]
      OBVIOUS
    <3> HIDE DEF h
    <3> QED BY <2>4, <3>1 DEF PassedTo
  <2> QED BY <2>5
<1> HIDE DEF S
<1>3. Nat \subseteq S
  BY <1>1, <1>2, NatSetInduction
<1> QED BY <1>3 DEF S

LEMMA PassedIs ==
    ASSUME NEW reqs, NEW picks, Len(reqs) \in Nat
    PROVE  \E low : PassedTo(low, reqs, picks, Len(reqs)) /\ Passed(reqs, picks) = low[Len(reqs)]
<1> DEFINE low == CHOOSE g : PassedTo(g, reqs, picks, Len(reqs))
<1>1. PassedTo(low, reqs, picks, Len(reqs))
  BY PassedExists
<1>2. Passed(reqs, picks) = low[Len(reqs)]
  BY DEF Passed, PassedTo
<1> QED BY <1>1, <1>2

\* The invariant of the two caches.
CachesInv ==
    /\ CacheOK(dl1, Blocks) /\ LevelOK(dl2)
    /\ NoLostWrite

LEMMA BehindIs ==
    NoLostWrite => /\ behind = [n \in {1, 2} |-> IF n = 1 THEN behind[1] ELSE behind[2]]
                   /\ behind[1] = DirtyBlocks(dl1) /\ behind[2] = DirtyBlocks(dl2)
  BY DEF NoLostWrite

\* All of the requests of dl1: the second level is given the blocks written.
LEMMA PassedKeeps ==
    ASSUME LevelOK(dl2), NoLostWrite, NEW reqs \in Seq(Asked), NEW picks \in Picks(dl2, Len(reqs))
    PROVE  Lower(Passed(reqs, picks), Written(reqs))
<1>1. Len(reqs) \in Nat /\ DOMAIN reqs = 1..Len(reqs) /\ \A k \in 1..Len(reqs) : reqs[k] \in Asked
  OBVIOUS
<1>2. PICK low : PassedTo(low, reqs, picks, Len(reqs)) /\ Passed(reqs, picks) = low[Len(reqs)]
  BY <1>1, PassedIs
<1> DEFINE gone(k) == {reqs[j].blk : j \in {i \in 1..k : reqs[i].cmd = "Write"}}
           S == {k \in Nat : k <= Len(reqs) => Lower(low[k], gone(k))}
<1>3. \A k \in 1..Len(reqs) : dl2 # NoCache /\ dl2.policy = "Random" => picks[k] \in WaysOf(dl2)
  BY DEF Picks
<1>4. 0 \in S
  <2>1. low[0] = [dl2 |-> dl2, behind |-> behind]
    BY <1>1, <1>2 DEF PassedTo
  <2>2. gone(0) = {}
    OBVIOUS
  <2>3. dl2 # NoCache => Alike(dl2, dl2)
    BY DEF Alike
  <2>4. Lower(low[0], gone(0))
    BY <2>1, <2>2, <2>3, BehindIs DEF Lower
  <2> QED BY <2>4
<1>5. ASSUME NEW k \in Nat, k \in S PROVE k + 1 \in S
  <2> SUFFICES ASSUME k + 1 <= Len(reqs) PROVE Lower(low[k + 1], gone(k + 1))
    OBVIOUS
  <2>1. k + 1 \in 1..Len(reqs) /\ k + 1 # 0 /\ k + 1 - 1 = k /\ Lower(low[k], gone(k))
    BY <1>1, <1>5
  <2>2. low[k + 1] = PassedOne(low[k], reqs[k + 1], picks[k + 1])
    BY <1>1, <1>2, <2>1 DEF PassedTo
  <2>3. gone(k + 1) = gone(k) \cup Wrote(reqs[k + 1].cmd, reqs[k + 1].blk)
    <3>1. \A j : j \in 1..k + 1 <=> j \in 1..k \/ j = k + 1
      OBVIOUS
    <3> QED BY <3>1 DEF Wrote
  <2>4. reqs[k + 1] \in Asked /\ (dl2 # NoCache /\ dl2.policy = "Random" => picks[k + 1] \in WaysOf(dl2))
    BY <1>1, <1>3, <2>1
  <2> HIDE DEF gone
  <2>5. Lower(low[k + 1], gone(k) \cup Wrote(reqs[k + 1].cmd, reqs[k + 1].blk))
    BY <2>1, <2>2, <2>4, PassedOneKeeps
  <2> QED BY <2>3, <2>5
<1>6. gone(Len(reqs)) = Written(reqs)
  BY <1>1 DEF Written
<1> HIDE DEF S, gone
<1>7. Len(reqs) \in S
  BY <1>1, <1>4, <1>5, NatSetInduction
<1>8. Lower(low[Len(reqs)], gone(Len(reqs)))
  BY <1>1, <1>7 DEF S
<1> QED BY <1>2, <1>6, <1>8

-----------------------------------------------------------------------------
(* The operations                                                          *)

\* Blocks of dl1, and what dl1 asks for of them.
LEMMA BlocksAre ==
    /\ Blocks \subseteq Nat \ {0} /\ InstBlocks \subseteq Nat \ {0}
    /\ \A reqs \in Seq([cmd : Cmds, blk : Blocks]) : reqs \in Seq(Asked)
<1>1. Blocks \subseteq Nat \ {0} /\ Blocks \subseteq {b \in Nat : b >= Ratio}
  BY BlockBelow, BlocksAssumption
<1>2. ASSUME NEW reqs \in Seq([cmd : Cmds, blk : Blocks]) PROVE reqs \in Seq(Asked)
  <2> DEFINE T == [cmd : Cmds, blk : Blocks]
  <2>1. T \subseteq Asked /\ reqs \in Seq(T)
    BY <1>1 DEF Asked
  <2> HIDE DEF T
  <2>2. reqs = [k \in 1..Len(reqs) |-> reqs[k]] /\ \A k \in 1..Len(reqs) : reqs[k] \in Asked
    BY <2>1
  <2> QED BY <2>2
<1> QED BY <1>1, <1>2, BlocksAssumption

LEMMA InitInv == Init => CachesInv
<1> SUFFICES ASSUME Init PROVE CachesInv
  OBVIOUS
<1>1. CacheOK(dl1, Blocks) /\ DirtyBlocks(dl1) = {}
  BY CreatedOK, ParamsAssumption DEF Init
<1>2. LevelOK(dl2) /\ DirtyBlocks(dl2) = {}
  <2>1. PICK p \in Dl2Params : dl2 = IF p = NoCache THEN NoCache ELSE Created(p)
    BY DEF Init
  <2>2. CASE p = NoCache
    BY <2>1, <2>2 DEF LevelOK, DirtyBlocks
  <2>3. CASE p # NoCache
    <3>1. dl2 = Created(p) /\ p \in Dl1Params \cup (Dl2Params \ {NoCache})
      BY <2>1, <2>3
    <3>2. CacheOK(Created(p), Nat \ {0}) /\ DirtyBlocks(Created(p)) = {}
      BY <3>1, CreatedOK, ParamsAssumption
    <3> QED BY <3>1, <3>2 DEF LevelOK
  <2> QED BY <2>2, <2>3
<1>3. NoLostWrite
  BY <1>1, <1>2 DEF Init, NoLostWrite
<1> QED BY <1>1, <1>2, <1>3 DEF CachesInv

\* A load or store.
LEMMA DataAccessInv ==
    ASSUME CachesInv, NEW cmd \in Cmds, NEW b \in Blocks, DataAccess(cmd, b)
    PROVE  CachesInv'
<1>1. PICK pick \in Picks(dl1, 1) :
          LET r == cache_access(dl1, cmd, b, pick[1])
          IN /\ dl1' = r.cache
             /\ \E picks \in Picks(dl2, Len(r.below)) :
                   LET p == Passed(r.below, picks)
                   IN /\ dl2' = p.dl2
                      /\ behind' = [p.behind EXCEPT ![1] = IF cmd = "Write" THEN @ \cup {b} ELSE @]
  BY DEF DataAccess
<1> DEFINE r == cache_access(dl1, cmd, b, pick[1])
<1>2. Serves(dl1, r, Blocks, Wrote(cmd, b))
  <2>1. dl1.policy = "Random" => pick[1] \in WaysOf(dl1)
    <3>1. dl1 # NoCache
      BY CacheThere DEF CachesInv
    <3> QED BY <3>1 DEF Picks
  <2> QED BY <2>1, BlocksAre, AccessServes DEF CachesInv
<1>3. PICK picks \in Picks(dl2, Len(r.below)) :
          /\ dl2' = Passed(r.below, picks).dl2
          /\ behind' = [Passed(r.below, picks).behind EXCEPT ![1] = IF cmd = "Write" THEN @ \cup {b} ELSE @]
  BY <1>1
<1> DEFINE p == Passed(r.below, picks)
           reqs == r.below
<1>4. dl1' = r.cache
  BY <1>1
<1> HIDE DEF r
<1>5. reqs \in Seq(Asked)
  BY <1>2, BlocksAre DEF Serves
<1>6. Lower(p, Written(reqs))
  BY <1>5, PassedKeeps DEF CachesInv
<1> HIDE DEF p
<1>7. /\ LevelOK(p.dl2) /\ CacheOK(dl1', Blocks)
      /\ p.behind = [n \in {1, 2} |-> IF n = 1 THEN behind[1] \ Written(reqs) ELSE DirtyBlocks(p.dl2)]
      /\ DirtyBlocks(dl1') = (DirtyBlocks(dl1) \ Written(reqs)) \cup Wrote(cmd, b)
  BY <1>2, <1>4, <1>6 DEF Serves, Lower
<1>8. behind[1] = DirtyBlocks(dl1)
  BY BehindIs DEF CachesInv
<1>9. behind' = [p.behind EXCEPT ![1] = IF cmd = "Write" THEN @ \cup {b} ELSE @] /\ dl2' = p.dl2
  BY <1>3 DEF p
<1>10. behind' = [n \in {1, 2} |-> IF n = 1 THEN DirtyBlocks(dl1') ELSE DirtyBlocks(dl2')]
  <2> HIDE DEF reqs
  <2> QED BY <1>7, <1>8, <1>9 DEF Wrote
<1>11. NoLostWrite'
  BY <1>10 DEF NoLostWrite
<1> QED BY <1>7, <1>9, <1>11 DEF CachesInv

\* A fetch.
LEMMA InstFetchInv ==
    ASSUME CachesInv, NEW b \in InstBlocks, InstFetch(b)
    PROVE  CachesInv'
<1>1. PICK pick \in Picks(dl2, 1) :
          LET r == cache_access(dl2, "Read", b, pick[1])
          IN dl2' = r.cache /\ behind' = [behind EXCEPT ![2] = @ \ Written(r.below)]
  BY DEF InstFetch
<1> DEFINE r == cache_access(dl2, "Read", b, pick[1])
           W == Written(r.below)
<1>2. Serves(dl2, r, Nat \ {0}, Wrote("Read", b))
  <2>1. dl2 # NoCache /\ CacheOK(dl2, Nat \ {0})
    BY DEF InstFetch, CachesInv, LevelOK
  <2>2. dl2.policy = "Random" => pick[1] \in WaysOf(dl2)
    BY <2>1 DEF Picks
  <2>3. b \in Nat \ {0} /\ "Read" \in Cmds
    BY BlocksAre DEF Cmds
  <2> QED BY <2>1, <2>2, <2>3, AccessServes
<1>3. dl2' = r.cache /\ behind' = [behind EXCEPT ![2] = @ \ W] /\ dl1' = dl1
  BY <1>1 DEF InstFetch
<1> HIDE DEF r
<1>4. LevelOK(dl2') /\ DirtyBlocks(dl2') = DirtyBlocks(dl2) \ W
  BY <1>2, <1>3 DEF Serves, LevelOK, Wrote
<1>5. behind' = [n \in {1, 2} |-> IF n = 1 THEN DirtyBlocks(dl1') ELSE DirtyBlocks(dl2')]
  <2> HIDE DEF W
  <2>1. /\ behind = [n \in {1, 2} |-> IF n = 1 THEN behind[1] ELSE behind[2]]
        /\ behind[1] = DirtyBlocks(dl1) /\ behind[2] = DirtyBlocks(dl2)
    BY BehindIs DEF CachesInv
  <2>2. DirtyBlocks(dl1') = behind[1] /\ DirtyBlocks(dl2') = behind[2] \ W
    BY <1>3, <1>4, <2>1
  <2>3. [behind EXCEPT ![2] = @ \ W] = [n \in {1, 2} |-> IF n = 1 THEN behind[1] ELSE behind[2] \ W]
    BY <2>1
  <2> QED BY <1>3, <2>2, <2>3, Zenon
<1>6. NoLostWrite'
  BY <1>5 DEF NoLostWrite
<1> QED BY <1>3, <1>4, <1>6 DEF CachesInv

\* A block flushed.
LEMMA FlushAddrInv ==
    ASSUME CachesInv, NEW b \in Blocks, FlushAddr(b)
    PROVE  CachesInv'
<1> DEFINE r == cache_flush_addr(dl1, b)
           reqs == r.below
<1>1. dl1' = r.cache
  BY DEF FlushAddr
<1>2. PICK picks \in Picks(dl2, Len(reqs)) : dl2' = Passed(reqs, picks).dl2 /\ behind' = Passed(reqs, picks).behind
  BY DEF FlushAddr
<1> DEFINE p == Passed(reqs, picks)
<1>3. Serves(dl1, r, Blocks, {})
  BY BlocksAre, FlushAddrServes DEF CachesInv
<1> HIDE DEF r
<1>4. Lower(p, Written(reqs))
  <2>1. reqs \in Seq(Asked)
    BY <1>3, BlocksAre DEF Serves
  <2> QED BY <2>1, PassedKeeps DEF CachesInv
<1>5. dl2' = p.dl2 /\ behind' = p.behind
  BY <1>2
<1> HIDE DEF p
<1>6. /\ LevelOK(p.dl2) /\ CacheOK(dl1', Blocks)
      /\ p.behind = [n \in {1, 2} |-> IF n = 1 THEN behind[1] \ Written(reqs) ELSE DirtyBlocks(p.dl2)]
      /\ DirtyBlocks(dl1') = DirtyBlocks(dl1) \ Written(reqs)
  BY <1>1, <1>3, <1>4 DEF Serves, Lower
<1>7. behind[1] = DirtyBlocks(dl1)
  BY BehindIs DEF CachesInv
<1>8. NoLostWrite'
  BY <1>5, <1>6, <1>7 DEF NoLostWrite
<1> QED BY <1>5, <1>6, <1>8 DEF CachesInv

\* A system call: dl1 is flushed, then what lies below it.
LEMMA SyscallInv ==
    ASSUME CachesInv, Syscall
    PROVE  CachesInv' /\ behind'[1] = {} /\ behind'[2] = {}
<1> DEFINE first == cache_flush(dl1)
           reqs == first.below
<1>1. dl1' = first.cache
  BY DEF Syscall
<1>2. PICK picks \in Picks(dl2, Len(reqs)) :
         LET p == Passed(reqs, picks)
         IN IF p.dl2 = NoCache THEN dl2' = NoCache /\ behind' = p.behind
            ELSE LET last == cache_flush(p.dl2)
                 IN /\ dl2' = last.cache
                    /\ behind' = [p.behind EXCEPT ![2] = @ \ Written(last.below)]
  BY DEF Syscall
<1> DEFINE p == Passed(reqs, picks)
           last == cache_flush(p.dl2)
<1>3. Serves(dl1, first, Blocks, {}) /\ Written(reqs) = DirtyBlocks(dl1) /\ DirtyBlocks(first.cache) = {}
  BY BlocksAre, FlushServes DEF CachesInv
<1>4. IF p.dl2 = NoCache THEN dl2' = NoCache /\ behind' = p.behind
      ELSE dl2' = last.cache /\ behind' = [p.behind EXCEPT ![2] = @ \ Written(last.below)]
  BY <1>2
<1> HIDE DEF first
<1>5. Lower(p, Written(reqs))
  <2>1. reqs \in Seq(Asked)
    BY <1>3, BlocksAre DEF Serves
  <2> QED BY <2>1, PassedKeeps DEF CachesInv
<1> HIDE DEF p
<1>6. /\ LevelOK(p.dl2) /\ CacheOK(dl1', Blocks) /\ DirtyBlocks(dl1') = {}
      /\ p.behind = [n \in {1, 2} |-> IF n = 1 THEN {} ELSE DirtyBlocks(p.dl2)]
  <2>1. behind[1] \ Written(reqs) = {}
    BY <1>3, BehindIs DEF CachesInv
  <2> QED BY <1>1, <1>3, <1>5, <2>1 DEF Serves, Lower
<1>7. CASE p.dl2 = NoCache
  <2>1. dl2' = NoCache /\ behind' = p.behind /\ DirtyBlocks(dl2') = {} /\ DirtyBlocks(p.dl2) = {}
    BY <1>4, <1>7 DEF DirtyBlocks
  <2>2. NoLostWrite' /\ behind'[1] = {} /\ behind'[2] = {}
    BY <1>6, <2>1 DEF NoLostWrite
  <2> QED BY <1>6, <2>1, <2>2 DEF CachesInv, LevelOK
<1>8. CASE p.dl2 # NoCache
  <2> DEFINE W == Written(last.below)
  <2>1. dl2' = last.cache /\ behind' = [p.behind EXCEPT ![2] = @ \ W]
    BY <1>4, <1>8
  <2>2. /\ Serves(p.dl2, last, Nat \ {0}, {}) /\ W = DirtyBlocks(p.dl2)
        /\ DirtyBlocks(last.cache) = {}
    BY <1>6, <1>8, FlushServes DEF LevelOK
  <2> HIDE DEF last, W
  <2>3. LevelOK(dl2') /\ DirtyBlocks(dl2') = {}
    BY <2>1, <2>2 DEF Serves, LevelOK
  <2>4. behind'[1] = {} /\ behind'[2] = {} /\ behind' = [n \in {1, 2} |-> {}]
    <3>1. p.behind = [n \in {1, 2} |-> IF n = 1 THEN {} ELSE W]
      BY <1>6, <2>2
    <3>2. behind' = [p.behind EXCEPT ![2] = @ \ W]
      BY <2>1
    <3> QED BY <3>1, <3>2
  <2>5. NoLostWrite'
    BY <1>6, <2>3, <2>4 DEF NoLostWrite
  <2> QED BY <1>6, <2>3, <2>4, <2>5 DEF CachesInv
<1> QED BY <1>7, <1>8

\* The inductive invariant.
THEOREM CachesInvariant == Spec => []CachesInv
<1>1. ASSUME CachesInv, [Next]_vars PROVE CachesInv'
  <2>1. ASSUME NEW cmd \in Cmds, NEW b \in Blocks, DataAccess(cmd, b) PROVE CachesInv'
    BY <1>1, <2>1, DataAccessInv
  <2>2. ASSUME NEW b \in InstBlocks, InstFetch(b) PROVE CachesInv'
    BY <1>1, <2>2, InstFetchInv
  <2>3. CASE Syscall
    BY <1>1, <2>3, SyscallInv
  <2>4. ASSUME NEW b \in Blocks, FlushAddr(b) PROVE CachesInv'
    BY <1>1, <2>4, FlushAddrInv
  <2>5. CASE UNCHANGED vars
    BY <1>1, <2>5 DEF vars, CachesInv, NoLostWrite
  <2> QED BY <1>1, <2>1, <2>2, <2>3, <2>4, <2>5 DEF Next
<1> QED BY <1>1, InitInv, PTL DEF Spec

-----------------------------------------------------------------------------
(* The properties                                                          *)

\* The levels there are.
LEMMA LevelsOK == CachesInv => \A c \in Levels : CacheOK(c, Nat \ {0})
<1> SUFFICES ASSUME CachesInv, NEW c \in Levels PROVE CacheOK(c, Nat \ {0})
  OBVIOUS
<1>1. CASE c = dl1
  BY <1>1, BlocksAre DEF CachesInv, CacheOK
<1>2. CASE c = dl2 /\ dl2 # NoCache
  BY <1>2 DEF CachesInv, LevelOK
<1> QED BY <1>1, <1>2 DEF Levels

\* How often a way is in a list.
LEMMA HeldOnce ==
    ASSUME NEW A, NEW q, Holds(q, A), NEW w
    PROVE  Cardinality(At(q, w)) = IF w \in A THEN 1 ELSE 0
<1>1. q \in Seq(A) /\ DOMAIN q = 1..Len(q)
  BY DEF Holds
<1>2. CASE w \in A
  <2>1. PICK k \in 1..Len(q) : q[k] = w
    BY <1>2 DEF Holds
  <2>2. At(q, w) = {k}
    BY <1>1, <2>1 DEF At, Holds
  <2> QED BY <1>2, <2>2, FS_Singleton
<1>3. CASE w \notin A
  <2>1. At(q, w) = {}
    BY <1>1, <1>3 DEF At
  <2> QED BY <1>3, <2>1, FS_EmptySet
<1> QED BY <1>2, <1>3

\* The caches keep their parts in range, and each way is once in its way list.
THEOREM CachesTyping == Spec => []CachesTypeOK
<1>1. CachesInv => CachesTypeOK
  <2> SUFFICES ASSUME CachesInv PROVE CachesTypeOK
    OBVIOUS
  <2>1. ASSUME NEW c, CacheOK(c, Nat \ {0}) PROVE DirtyBlocks(c) \subseteq Nat
    BY <2>1 DEF CacheOK, DirtyBlocks, DirtyPlaces, ValidBlocks
  <2>2. behind \in [{1, 2} -> SUBSET Nat]
    <3>1. DirtyBlocks(dl1) \subseteq Nat
      BY <2>1, LevelsOK DEF Levels
    <3>2. DirtyBlocks(dl2) \subseteq Nat
      <4>1. CASE dl2 = NoCache
        BY <4>1 DEF DirtyBlocks
      <4>2. CASE dl2 # NoCache
        BY <2>1, <4>2 DEF CachesInv, LevelOK
      <4> QED BY <4>1, <4>2
    <3> QED BY <3>1, <3>2 DEF CachesInv, NoLostWrite
  <2>3. ASSUME NEW c \in Levels, NEW s \in SetsOf(c)
        PROVE  /\ c.line[s] \in [WaysOf(c) -> [tag : Nat, valid : BOOLEAN, dirty : BOOLEAN]]
               /\ c.order[s] \in [1..c.assoc -> WaysOf(c)]
               /\ \A w \in WaysOf(c) : Cardinality(At(c.order[s], w)) = 1
               /\ c.last \in Nat /\ c.last_blk \in WaysOf(c)
    <3>1. CacheOK(c, Nat \ {0})
      BY LevelsOK
    <3>2. SetOK(c, c.line[s], c.order[s], c.hash[s]) /\ c.last \in Nat /\ c.last_blk \in WaysOf(c)
      BY <3>1 DEF CacheOK
    <3>3. Holds(c.order[s], WaysOf(c)) /\ Len(c.order[s]) = c.assoc /\ c.line[s] \in [WaysOf(c) -> Line]
      BY <3>2 DEF SetOK
    <3>4. \A w \in WaysOf(c) : Cardinality(At(c.order[s], w)) = 1
      BY <3>3, HeldOnce
    <3>5. c.order[s] \in [1..c.assoc -> WaysOf(c)]
      BY <3>3 DEF Holds
    <3> QED BY <3>2, <3>3, <3>4, <3>5 DEF Line
  <2> QED BY <2>2, <2>3 DEF CachesTypeOK
<1> QED BY <1>1, CachesInvariant, PTL

\* The way list, the hash table and the short cut of each cache tell of the same blocks, each
\* of them once.
THEOREM CachesAgree == Spec => []SearchesAgree
<1>1. CachesInv => SearchesAgree
  <2> SUFFICES ASSUME CachesInv PROVE SearchesAgree
    OBVIOUS
  <2>1. ASSUME NEW c \in Levels
        PROVE  /\ CacheOK(c, Nat \ {0}) /\ c.nsets \in Nat \ {0} /\ c.assoc \in Nat \ {0}
               /\ \A s \in SetsOf(c) : SetOK(c, c.line[s], c.order[s], c.hash[s])
    <3>1. CacheOK(c, Nat \ {0})
      BY LevelsOK
    <3> QED BY <3>1 DEF CacheOK
  <2>2. NoDuplicate
    BY <2>1 DEF NoDuplicate, SetOK
  <2>3. BucketsExact
    <3> SUFFICES ASSUME NEW c \in Levels, NEW s \in SetsOf(c), NEW w \in WaysOf(c), NEW h \in 0..c.hsize - 1
                 PROVE  Cardinality(At(c.hash[s][h], w)) = IF h = HashOf(c, c.line[s][w].tag) THEN 1 ELSE 0
      BY DEF BucketsExact
    <3> DEFINE A == {v \in WaysOf(c) : HashOf(c, c.line[s][v].tag) = h}
    <3>1. Holds(c.hash[s][h], A)
      BY <2>1 DEF SetOK, BucketsHold
    <3>2. w \in A <=> h = HashOf(c, c.line[s][w].tag)
      OBVIOUS
    <3> HIDE DEF A
    <3>3. Cardinality(At(c.hash[s][h], w)) = IF w \in A THEN 1 ELSE 0
      BY <3>1, HeldOnce
    <3> QED BY <3>2, <3>3
  <2>4. ShortCutSound
    <3> SUFFICES ASSUME NEW c \in Levels, c.last # 0
                 PROVE  LET s == SetOf(c, c.last)
                        IN /\ c.line[s][c.last_blk].valid /\ BlockAt(c, s, c.last_blk) = c.last
                           /\ c.policy = "LRU" => Head(c.order[s]) = c.last_blk
      BY DEF ShortCutSound
    <3> DEFINE s == SetOf(c, c.last)
    <3>1. CacheOK(c, Nat \ {0}) /\ c.last \in Nat /\ LastOK(c, c.last, c.last_blk)
      BY <2>1 DEF CacheOK
    <3>2. s \in SetsOf(c) /\ TagOf(c, c.last) * c.nsets + s = c.last
      BY <3>1, PlaceOfBlock
    <3>3. Holds(c.order[s], WaysOf(c)) /\ Len(c.order[s]) = c.assoc
      BY <2>1, <3>2 DEF SetOK
    <3>4. Head(c.order[s]) = c.order[s][1]
      BY <2>1, <3>3 DEF Holds
    <3> QED BY <3>1, <3>2, <3>4 DEF LastOK, BlockAt
  <2>5. FreeWaysFirst
    <3> SUFFICES ASSUME NEW c \in Levels, c.policy # "Random", NEW s \in SetsOf(c),
                        NEW j \in 1..c.assoc, NEW k \in 1..c.assoc, j < k, c.line[s][c.order[s][k]].valid
                 PROVE  c.line[s][c.order[s][j]].valid
      BY DEF FreeWaysFirst
    <3>1. /\ ValidFirst(c.order[s], {w \in WaysOf(c) : c.line[s][w].valid})
          /\ Holds(c.order[s], WaysOf(c)) /\ Len(c.order[s]) = c.assoc
      BY <2>1 DEF SetOK
    <3>2. c.order[s][k] \in WaysOf(c)
      BY <3>1 DEF Holds
    <3> QED BY <3>1, <3>2 DEF ValidFirst
  <2> QED BY <2>2, <2>3, <2>4, <2>5 DEF SearchesAgree
<1> QED BY <1>1, CachesInvariant, PTL

\* No write is lost between the levels.
THEOREM CachesKeepWrites == Spec => []NoLostWrite
  BY CachesInvariant, PTL DEF CachesInv

\* A block that came by a miss was replaced, invalidated or is there.
THEOREM CachesBalance == Spec => []MissesBalance
<1>1. CachesInv => MissesBalance
  BY LevelsOK DEF CacheOK, Balanced, MissesBalance
<1> QED BY <1>1, CachesInvariant, PTL

\* The system call that follows a flush finds every write in memory.
THEOREM SyscallFindsWrites == Spec => SyscallSeesWrites
<1>1. CachesInv => (Syscall => behind'[1] = {} /\ behind'[2] = {})
  BY SyscallInv
<1> QED BY <1>1, CachesInvariant, PTL DEF Spec, SyscallSeesWrites

-----------------------------------------------------------------------------
(* With LRU replacement a cache is the store LruSets promises              *)

Valids(c, s) == {w \in WaysOf(c) : c.line[s][w].valid}

\* The valid ways of a list in which they come first.
LEMMA ValidOnes ==
    ASSUME NEW A, NEW q, Holds(q, A), NEW V, V \subseteq A, ValidFirst(q, V)
    PROVE  /\ IsFiniteSet(V) /\ Cardinality(V) \in 0..Len(q)
           /\ \A k \in 1..Len(q) : q[k] \in V <=> k <= Cardinality(V)
<1> DEFINE I == {k \in 1..Len(q) : q[k] \in V}
           f == [k \in I |-> q[k]]
           S == {k \in 1..Len(q) + 1 : k \notin I}
<1>1. Len(q) \in Nat
  BY DEF Holds
<1>2. Len(q) + 1 \in S /\ S \subseteq Nat
  BY <1>1
<1>3. PICK z \in S : \A k \in S : z <= k
  BY <1>2, LeastOf
<1>4. I = 1..z - 1
  <2>1. z \in 1..Len(q) + 1 /\ z \notin I
    BY <1>3
  <2>2. ASSUME NEW k \in 1..z - 1 PROVE k \in I
    BY <1>1, <1>3, <2>1
  <2>3. ASSUME NEW k \in I PROVE k \in 1..z - 1
    <3>1. k \in 1..Len(q) /\ q[k] \in V /\ k # z
      BY <2>1
    <3>2. CASE z < k
      <4>1. z \in 1..Len(q)
        BY <1>1, <2>1, <3>1, <3>2
      <4>2. q[z] \in V
        BY <3>1, <3>2, <4>1 DEF ValidFirst
      <4> QED BY <2>1, <4>1, <4>2
    <3> QED BY <1>1, <2>1, <3>1, <3>2
  <2> HIDE DEF I
  <2> QED BY <2>2, <2>3
<1>5. f \in Bijection(I, V)
  <2>1. f \in [I -> V]
    OBVIOUS
  <2>2. ASSUME NEW v \in V PROVE \E k \in I : f[k] = v
    <3>1. PICK k \in 1..Len(q) : q[k] = v
      BY DEF Holds
    <3> QED BY <3>1
  <2>3. ASSUME NEW j \in I, NEW k \in I, f[j] = f[k] PROVE j = k
    BY <2>3 DEF Holds
  <2> HIDE DEF f, I
  <2> QED BY <2>1, <2>2, <2>3, Fun_IsBij
<1>6. z \in Nat /\ z >= 1 /\ z - 1 <= Len(q)
  BY <1>1, <1>3
<1>7. IsFiniteSet(I) /\ Cardinality(I) = z - 1
  <2>1. 1 \in Int /\ z - 1 \in Int
    BY <1>6
  <2>2. IsFiniteSet(1..z - 1) /\ Cardinality(1..z - 1) = IF 1 > z - 1 THEN 0 ELSE z - 1 - 1 + 1
    BY <2>1, FS_Interval
  <2> HIDE DEF I
  <2> QED BY <1>4, <1>6, <2>2
<1> HIDE DEF f, S
<1>8. IsFiniteSet(V) /\ Cardinality(V) = z - 1
  <2> HIDE DEF I
  <2> QED BY <1>5, <1>7, FS_Bijection DEF ExistsBijection
<1>9. \A k \in 1..Len(q) : q[k] \in V <=> k \in 1..z - 1
  BY <1>4
<1> QED BY <1>1, <1>6, <1>8, <1>9

TagsIn(ln, V) == {ln[w].tag : w \in V}

\* T lists the tags of the n valid ways V, blocks ln, as the way list q has them.
InOrder(c, ln, V, n, q, T) ==
    /\ IsFiniteSet(V) /\ n \in 0..c.assoc /\ c.assoc \in Nat
    /\ Holds(q, WaysOf(c)) /\ Len(q) = c.assoc
    /\ \A k \in 1..c.assoc : q[k] \in V <=> k <= n
    /\ T \in Seq(Nat) /\ Len(T) = n /\ \A k \in 1..n : T[k] = ln[q[k]].tag
    /\ Holds(T, TagsIn(ln, V))

LEMMA TagOrderIs ==
    ASSUME NEW B, NEW c, CacheOK(c, B), c.policy # "Random", NEW s \in SetsOf(c)
    PROVE  InOrder(c, c.line[s], Valids(c, s), Cardinality(Valids(c, s)), c.order[s], TagOrder(c, s))
<1> DEFINE ln == c.line[s]
           V == Valids(c, s)
           G == TagsIn(ln, V)
           n == Cardinality(V)
           q == c.order[s]
           T == TagOrder(c, s)
<1>1. SetOK(c, ln, q, c.hash[s]) /\ c.assoc \in Nat
  BY DEF CacheOK
<1>2. /\ ln \in [WaysOf(c) -> Line] /\ Holds(q, WaysOf(c)) /\ Len(q) = c.assoc /\ ValidFirst(q, V)
      /\ \A v, w \in V : ln[v].tag = ln[w].tag => v = w
  BY <1>1 DEF SetOK, Valids
<1>3. V \subseteq WaysOf(c)
  BY DEF Valids
<1>4. IsFiniteSet(V) /\ n \in 0..Len(q) /\ \A k \in 1..Len(q) : q[k] \in V <=> k <= n
  <2> HIDE DEF V, q
  <2> QED BY <1>2, <1>3, ValidOnes
<1>5. T = [k \in 1..n |-> ln[q[k]].tag]
  BY DEF TagOrder, Valids
<1>6. n \in Nat /\ \A k \in 1..n : k \in 1..Len(q) /\ q[k] \in V /\ ln[q[k]].tag \in Nat /\ ln[q[k]].tag \in G
  <2>1. n \in Nat /\ \A k \in 1..n : k \in 1..Len(q) /\ q[k] \in V
    <3> HIDE DEF n, V, q
    <3> QED BY <1>1, <1>2, <1>4
  <2>2. \A w \in V : ln[w].tag \in Nat /\ ln[w].tag \in G
    BY <1>2, <1>3 DEF Line, TagsIn
  <2> HIDE DEF V, G, ln, n, q
  <2> QED BY <2>1, <2>2
<1> HIDE DEF V, G, ln, n, q, T
<1>7. T \in Seq(Nat) /\ T \in Seq(G) /\ Len(T) = n /\ \A k \in 1..n : T[k] = ln[q[k]].tag
  BY <1>5, <1>6
<1>8. ASSUME NEW g \in G PROVE \E k \in 1..n : T[k] = g
  <2>1. PICK w \in V : ln[w].tag = g
    BY DEF G, TagsIn
  <2>2. PICK k \in 1..Len(q) : q[k] = w
    BY <1>2, <1>3 DEF Holds
  <2>3. k \in 1..n
    BY <1>2, <1>4, <1>6, <2>1, <2>2
  <2> QED BY <1>7, <2>1, <2>2, <2>3
<1>9. ASSUME NEW j \in 1..n, NEW k \in 1..n, T[j] = T[k] PROVE j = k
  <2> DEFINE v == q[j]
             w == q[k]
  <2>0. v \in V /\ w \in V /\ ln[v].tag = ln[w].tag
    BY <1>6, <1>7, <1>9
  <2>1. q[j] = q[k]
    <3> HIDE DEF v, w
    <3>1. v = w
      BY <1>2, <2>0
    <3> QED BY <3>1 DEF v, w
  <2> QED BY <1>2, <1>6, <2>1 DEF Holds
<1>10. Holds(T, G)
  BY <1>7, <1>8, <1>9 DEF Holds
<1>11. InOrder(c, ln, V, n, q, T)
  BY <1>1, <1>2, <1>4, <1>7, <1>10 DEF InOrder, G
<1> QED BY <1>11 DEF ln, V, n, q, T

\* Moving the head of a list to its head changes nothing.
LEMMA HeadStays == ASSUME NEW A, NEW q, Holds(q, A), NEW w \in A, q[1] = w PROVE ToHead(q, w) = q
<1> DEFINE u == RemoveFirst(q, w)
           r == <<w>> \o u
<1>1. Holds(u, A \ {w}) /\ Len(u) = Len(q) - 1
  BY Unlinked
<1>2. PICK p \in 1..Len(q) : q[p] = w /\ Without(u, q, p)
  BY Unlinked
<1>3. Len(q) \in Nat /\ Len(q) >= 1 /\ q \in Seq(A)
  BY <1>2 DEF Holds
<1>4. p = 1
  BY <1>2, <1>3 DEF Holds
<1> HIDE DEF u
<1>5. /\ Holds(r, (A \ {w}) \cup {w}) /\ Len(r) = Len(u) + 1
      /\ r[1] = w /\ \A j \in 1..Len(u) : r[j + 1] = u[j]
  BY <1>1, Linked
<1> HIDE DEF r
<1>6. ASSUME NEW k \in 1..Len(q) PROVE r[k] = q[k]
  <2>1. CASE k = 1
    BY <1>5, <2>1
  <2>2. CASE k # 1
    <3>1. k - 1 \in 1..Len(q) - 1 /\ k - 1 + 1 = k
      BY <1>3, <2>2
    <3>2. r[k - 1 + 1] = u[k - 1] /\ u[k - 1] = q[k - 1 + 1]
      BY <1>1, <1>2, <1>4, <1>5, <3>1 DEF Without
    <3> QED BY <3>1, <3>2
  <2> QED BY <2>1, <2>2
<1>7. r \in Seq((A \ {w}) \cup {w}) /\ Len(r) = Len(q)
  BY <1>1, <1>3, <1>5 DEF Holds
<1>8. r = q
  BY <1>3, <1>6, <1>7, SeqEqual
<1> QED BY <1>8 DEF r, u, ToHead

\* What an access makes of the tags of its set: Touched of LruSets for a set of that many ways.
Used(q, t, ways) ==
    <<t>> \o (IF Contains(q, t) THEN RemoveFirst(q, t) ELSE IF Len(q) < ways THEN q ELSE Front(q))

\* Way w of set s has a valid block with tag t.
Kept(c, s, w, t) == c.line[s][w].valid /\ c.line[s][w].tag = t

\* The way an access that asks for tag t uses: where it is, or the last one.
Chosen(c, s, w, t) ==
    \/ Kept(c, s, w, t)
    \/ /\ w = c.order[s][c.assoc]
       /\ \A v \in WaysOf(c) : c.line[s][v].valid => c.line[s][v].tag # t

\* LRU replacement makes d of c by a change of way w of set s.
Moves(B, c, d, s, w, t) ==
    /\ CacheOK(c, B) /\ CacheOK(d, B) /\ Alike(c, d) /\ c.policy = "LRU"
    /\ s \in SetsOf(c) /\ w \in WaysOf(c) /\ t \in Nat

\* An access that finds tag t in way w, or replaces the last way for it.
LEMMA UsedIs ==
    ASSUME NEW B, NEW c, NEW d, NEW s, NEW w, NEW t, Moves(B, c, d, s, w, t),
           Filled(c, d, s, w, ToHead(c.order[s], w), t), Chosen(c, s, w, t)
    PROVE  TagOrder(d, s) = Used(TagOrder(c, s), t, c.assoc)
<1> DEFINE T == TagOrder(c, s)
           U == TagOrder(d, s)
           q == c.order[s]
           r == d.order[s]
           V == Valids(c, s)
           W == Valids(d, s)
           n == Cardinality(V)
           m == Cardinality(W)
           ln == c.line[s]
           G == TagsIn(ln, V)
           kn == d.line[s]
<1>0. /\ CacheOK(c, B) /\ CacheOK(d, B) /\ Alike(c, d) /\ c.policy = "LRU"
      /\ s \in SetsOf(c) /\ w \in WaysOf(c) /\ t \in Nat
  BY DEF Moves
<1>1. WaysOf(d) = WaysOf(c) /\ SetsOf(d) = SetsOf(c) /\ d.policy = "LRU" /\ d.assoc = c.assoc
  BY <1>0, AlikeSets DEF Alike
<1>2. /\ IsFiniteSet(V) /\ n \in 0..c.assoc /\ c.assoc \in Nat
      /\ Holds(q, WaysOf(c)) /\ Len(q) = c.assoc /\ \A k \in 1..c.assoc : q[k] \in V <=> k <= n
      /\ T \in Seq(Nat) /\ Len(T) = n /\ \A k \in 1..n : T[k] = ln[q[k]].tag
      /\ Holds(T, G)
  <2>1. InOrder(c, ln, V, n, q, T)
    BY <1>0, TagOrderIs
  <2> HIDE DEF ln, V, n, q, T
  <2> QED BY <2>1 DEF InOrder
<1>3. /\ m \in 0..c.assoc /\ Len(r) = c.assoc
      /\ U \in Seq(Nat) /\ Len(U) = m /\ \A k \in 1..m : U[k] = kn[r[k]].tag
  <2>1. InOrder(d, kn, W, m, r, U)
    BY <1>0, <1>1, TagOrderIs
  <2> HIDE DEF kn, W, m, r, U
  <2> QED BY <1>1, <2>1 DEF InOrder
<1>4. /\ r = ToHead(q, w) /\ kn[w].valid /\ kn[w].tag = t /\ \A v \in WaysOf(c) \ {w} : kn[v] = ln[v]
  BY <1>0 DEF Filled, Emptied, OneWay
<1>5. W = V \cup {w} /\ (w \in V <=> ln[w].valid)
  BY <1>0, <1>1, <1>4 DEF Valids
<1>6. \/ ln[w].valid /\ ln[w].tag = t
      \/ w = q[c.assoc] /\ \A v \in WaysOf(c) : ln[v].valid => ln[v].tag # t
  BY DEF Chosen, Kept
<1>7. \A g : g \in G <=> \E v \in V : ln[v].tag = g
  BY DEF TagsIn
<1>8. V = {v \in WaysOf(c) : ln[v].valid}
  BY DEF Valids
<1>9. DEFINE u == RemoveFirst(q, w)
<1>10. PICK p \in 1..Len(q) : q[p] = w /\ Without(u, q, p)
  BY <1>0, <1>2, Unlinked
<1>11. /\ Holds(u, WaysOf(c) \ {w}) /\ Len(u) = c.assoc - 1
       /\ r[1] = w /\ \A j \in 1..c.assoc - 1 : r[j + 1] = u[j]
  <2>1. Holds(u, WaysOf(c) \ {w}) /\ Len(u) = Len(q) - 1
    <3> HIDE DEF q
    <3> QED BY <1>0, <1>2, Unlinked
  <2>2. r = <<w>> \o u
    BY <1>4 DEF ToHead
  <2> HIDE DEF u, r
  <2>3. /\ Len(<<w>> \o u) = Len(u) + 1
        /\ (<<w>> \o u)[1] = w /\ \A j \in 1..Len(u) : (<<w>> \o u)[j + 1] = u[j]
    BY <2>1, Linked
  <2> QED BY <1>2, <2>1, <2>2, <2>3
<1>12. \A j \in 1..c.assoc - 1 : r[j + 1] = IF j < p THEN q[j] ELSE q[j + 1]
  BY <1>2, <1>10, <1>11 DEF Without
<1> HIDE DEF u, r, q, T, U, V, W, n, m, G, ln, kn
<1>13. c.assoc >= 1 /\ p \in 1..c.assoc
  BY <1>2, <1>10
<1>14. \A j \in 1..c.assoc - 1 : r[j + 1] \in WaysOf(c) \ {w} /\ kn[r[j + 1]] = ln[r[j + 1]]
  <2>1. ASSUME NEW j \in 1..c.assoc - 1 PROVE r[j + 1] \in WaysOf(c) \ {w}
    <3>1. j \in 1..Len(u) /\ u \in Seq(WaysOf(c) \ {w}) /\ r[j + 1] = u[j]
      BY <1>11 DEF Holds
    <3> HIDE DEF u
    <3>2. u[j] \in WaysOf(c) \ {w}
      BY <3>1, ElementOfSeq
    <3> QED BY <3>1, <3>2
  <2> QED BY <1>4, <2>1
<1>15. m >= 1 => U[1] = t
  BY <1>3, <1>4, <1>11
<1>16. CASE w \in V
  <2>1. m = n /\ n >= p /\ n >= 1
    <3>1. W = V
      BY <1>5, <1>16
    <3>2. m = n
      BY <3>1 DEF m, n
    <3> QED BY <1>2, <1>10, <1>13, <1>16, <3>2
  <2>2. CASE ln[w].tag = t
    <3>1. T[p] = t /\ t \in G /\ p \in 1..n
      BY <1>2, <1>7, <1>10, <1>13, <1>16, <2>1, <2>2
    <3>2. Contains(T, t)
      BY <1>2, <3>1 DEF Contains
    <3>3. PICK o \in 1..Len(T) : T[o] = t /\ Without(RemoveFirst(T, t), T, o)
      BY <1>2, <3>1, Unlinked
    <3>4. o = p
      BY <1>2, <3>1, <3>3 DEF Holds
    <3> DEFINE x == RemoveFirst(T, t)
    <3>5. Holds(x, G \ {t}) /\ Len(x) = n - 1 /\ \A j \in 1..n - 1 : x[j] = IF j < p THEN T[j] ELSE T[j + 1]
      <4>1. Holds(x, G \ {t}) /\ Len(x) = Len(T) - 1
        <5>1. Holds(T, G) /\ t \in G
          BY <1>2, <3>1
        <5> QED BY <5>1, Unlinked
      <4> QED BY <1>2, <3>3, <3>4, <4>1 DEF Without
    <3> HIDE DEF x
    <3>6. x \in Seq(Nat)
      <4>1. x \in Seq(G \ {t}) /\ Len(x) \in Nat
        BY <3>5 DEF Holds
      <4>2. \A j \in 1..n : T[j] \in Nat
        BY <1>2
      <4>3. \A j \in 1..n - 1 : x[j] \in {T[j], T[j + 1]} /\ j \in 1..n /\ j + 1 \in 1..n
        BY <2>1, <3>5, <1>2
      <4>4. \A j \in 1..Len(x) : x[j] \in Nat
        BY <3>5, <4>2, <4>3
      <4> QED BY <4>1, <4>4
    <3>7. ASSUME NEW j \in 1..Len(x) PROVE U[j + 1] = x[j]
      <4>1. j \in 1..n - 1 /\ j + 1 \in 1..m /\ j \in 1..c.assoc - 1
        BY <1>2, <2>1, <3>5
      <4>2. U[j + 1] = ln[r[j + 1]].tag
        BY <1>3, <1>14, <4>1
      <4>3. CASE j < p
        <5>1. r[j + 1] = q[j] /\ x[j] = T[j] /\ j \in 1..n
          BY <1>2, <1>12, <2>1, <3>5, <4>1, <4>3
        <5>2. T[j] = ln[q[j]].tag
          BY <1>2, <5>1
        <5> QED BY <4>2, <5>1, <5>2
      <4>4. CASE j >= p
        <5>1. r[j + 1] = q[j + 1] /\ x[j] = T[j + 1] /\ j + 1 \in 1..n
          BY <1>2, <1>12, <1>13, <2>1, <3>5, <4>1, <4>4
        <5> QED BY <1>2, <4>2, <5>1
      <4> QED BY <1>13, <4>1, <4>3, <4>4
    <3>8. U = <<t>> \o x
      <4>1. Len(U) = Len(x) + 1 /\ U[1] = t
        BY <1>2, <1>3, <1>15, <2>1, <3>5
      <4>2. Headed(x, U, t)
        BY <3>7, <4>1 DEF Headed
      <4> QED BY <1>0, <1>3, <3>6, <4>2, HeadThen
    <3> QED BY <3>2, <3>8 DEF Used, x, T, U
  <2>3. CASE ln[w].tag # t
    <3>1. w = q[c.assoc] /\ \A v \in V : ln[v].tag # t
      BY <1>6, <1>8, <2>3
    <3>2. p = c.assoc /\ n = c.assoc
      <4>1. p = c.assoc
        BY <1>2, <1>10, <1>13, <3>1 DEF Holds
      <4> QED BY <1>2, <2>1, <4>1
    <3>3. ~Contains(T, t)
      <4>1. \A k \in 1..n : T[k] # t
        BY <1>2, <3>1
      <4> QED BY <1>2, <4>1 DEF Contains
    <3> DEFINE x == Front(T)
    <3>4. x \in Seq(Nat) /\ Len(x) = n - 1 /\ \A j \in 1..n - 1 : x[j] = T[j]
      BY <1>2, <2>1 DEF Front
    <3> HIDE DEF x
    <3>5. ASSUME NEW j \in 1..Len(x) PROVE U[j + 1] = x[j]
      <4>1. j \in 1..n - 1 /\ j + 1 \in 1..m /\ j \in 1..c.assoc - 1
        BY <1>2, <2>1, <3>4
      <4>2. U[j + 1] = kn[r[j + 1]].tag /\ kn[r[j + 1]] = ln[r[j + 1]]
        BY <1>3, <1>14, <4>1
      <4>3. r[j + 1] = q[j]
        BY <1>12, <3>2, <4>1
      <4>4. x[j] = T[j] /\ j \in 1..n
        BY <1>2, <2>1, <3>4, <4>1
      <4>5. T[j] = ln[q[j]].tag
        BY <1>2, <4>4
      <4> QED BY <4>2, <4>3, <4>4, <4>5
    <3>6. U = <<t>> \o x
      <4>1. Len(U) = Len(x) + 1 /\ U[1] = t
        BY <1>2, <1>3, <1>15, <2>1, <3>4
      <4>2. Headed(x, U, t)
        BY <3>5, <4>1 DEF Headed
      <4> QED BY <1>0, <1>3, <3>4, <4>2, HeadThen
    <3>7. ~(Len(T) < c.assoc)
      BY <1>2, <3>2
    <3> QED BY <3>3, <3>6, <3>7 DEF Used, x, T, U
  <2> QED BY <2>2, <2>3
<1>17. CASE w \notin V
  <2>1. w = q[c.assoc] /\ \A v \in V : ln[v].tag # t
    BY <1>5, <1>6, <1>8, <1>17
  <2>2. m = n + 1
    BY <1>2, <1>5, <1>17, FS_AddElement DEF m, n
  <2>3. p = c.assoc /\ n < c.assoc
    BY <1>2, <1>10, <1>13, <1>17, <2>1 DEF Holds
  <2>4. ~Contains(T, t)
    <3>1. \A k \in 1..n : T[k] # t
      BY <1>2, <2>1
    <3> QED BY <1>2, <3>1 DEF Contains
  <2>5. ASSUME NEW j \in 1..Len(T) PROVE U[j + 1] = T[j]
    <3>1. j \in 1..n /\ j + 1 \in 1..m /\ j \in 1..c.assoc - 1
      BY <1>2, <2>2, <2>3
    <3>2. U[j + 1] = kn[r[j + 1]].tag /\ kn[r[j + 1]] = ln[r[j + 1]]
      BY <1>3, <1>14, <3>1
    <3>3. r[j + 1] = q[j]
      BY <1>12, <2>3, <3>1
    <3>4. T[j] = ln[q[j]].tag
      BY <1>2, <3>1
    <3> QED BY <3>2, <3>3, <3>4
  <2>6. U = <<t>> \o T
    <3>1. Len(U) = Len(T) + 1 /\ U[1] = t
      BY <1>2, <1>3, <1>15, <2>2
    <3>2. Headed(T, U, t)
      BY <2>5, <3>1 DEF Headed
    <3>3. T \in Seq(Nat)
      BY <1>2
    <3> QED BY <1>0, <1>3, <3>2, <3>3, HeadThen
  <2>7. Len(T) < c.assoc
    BY <1>2, <2>3
  <2> QED BY <2>4, <2>6, <2>7 DEF Used, T, U
<1> QED BY <1>16, <1>17

\* A flush of the block with tag t, found in way w.
LEMMA ForgotIs ==
    ASSUME NEW B, NEW c, NEW d, NEW s, NEW w, NEW t, Moves(B, c, d, s, w, t),
           Emptied(c, d, s, w, ToTail(c.order[s], w), t), Kept(c, s, w, t)
    PROVE  TagOrder(d, s) = RemoveFirst(TagOrder(c, s), t)
<1> DEFINE T == TagOrder(c, s)
           U == TagOrder(d, s)
           q == c.order[s]
           r == d.order[s]
           V == Valids(c, s)
           W == Valids(d, s)
           n == Cardinality(V)
           m == Cardinality(W)
           ln == c.line[s]
           kn == d.line[s]
           G == TagsIn(ln, V)
           u == RemoveFirst(q, w)
           x == RemoveFirst(T, t)
<1>0. /\ CacheOK(c, B) /\ CacheOK(d, B) /\ Alike(c, d) /\ c.policy = "LRU"
      /\ s \in SetsOf(c) /\ w \in WaysOf(c) /\ t \in Nat
  BY DEF Moves
<1>1. WaysOf(d) = WaysOf(c) /\ SetsOf(d) = SetsOf(c) /\ d.policy = "LRU" /\ d.assoc = c.assoc
  BY <1>0, AlikeSets DEF Alike
<1>2. /\ IsFiniteSet(V) /\ n \in 0..c.assoc /\ c.assoc \in Nat
      /\ Holds(q, WaysOf(c)) /\ Len(q) = c.assoc /\ \A k \in 1..c.assoc : q[k] \in V <=> k <= n
      /\ T \in Seq(Nat) /\ Len(T) = n /\ \A k \in 1..n : T[k] = ln[q[k]].tag
      /\ Holds(T, G)
  <2>1. InOrder(c, ln, V, n, q, T)
    BY <1>0, TagOrderIs
  <2> HIDE DEF ln, V, n, q, T
  <2> QED BY <2>1 DEF InOrder
<1>3. /\ m \in 0..c.assoc /\ Len(r) = c.assoc
      /\ U \in Seq(Nat) /\ Len(U) = m /\ \A k \in 1..m : U[k] = kn[r[k]].tag
  <2>1. InOrder(d, kn, W, m, r, U)
    BY <1>0, <1>1, TagOrderIs
  <2> HIDE DEF kn, W, m, r, U
  <2> QED BY <1>1, <2>1 DEF InOrder
<1>4. r = ToTail(q, w) /\ ~kn[w].valid /\ \A v \in WaysOf(c) \ {w} : kn[v] = ln[v]
  BY <1>0 DEF Filled, Emptied, OneWay
<1>5. W = V \ {w} /\ w \in V
  BY <1>0, <1>1, <1>4 DEF Valids, Kept
<1>6. t \in G
  BY <1>5 DEF TagsIn, Kept
<1>7. ln[w].tag = t
  BY DEF Kept
<1>8. PICK p \in 1..Len(q) : q[p] = w /\ Without(u, q, p)
  BY <1>0, <1>2, Unlinked
<1>9. Holds(u, WaysOf(c) \ {w}) /\ Len(u) = c.assoc - 1
  <2>1. Holds(q, WaysOf(c))
    BY <1>2
  <2> HIDE DEF q
  <2>2. Holds(u, WaysOf(c) \ {w}) /\ Len(u) = Len(q) - 1
    BY <1>0, <2>1, Unlinked
  <2> QED BY <1>2, <2>2
<1>10. r = Append(u, w)
  BY <1>4 DEF ToTail
<1> HIDE DEF T, U, q, r, V, W, n, m, ln, kn, G, u
<1>11. \A j \in 1..c.assoc - 1 : /\ r[j] \in WaysOf(c) \ {w}
                                 /\ r[j] = IF j < p THEN q[j] ELSE q[j + 1]
  <2>1. u \in Seq(WaysOf(c) \ {w})
    BY <1>9 DEF Holds
  <2>2. \A j \in 1..c.assoc - 1 : r[j] = u[j]
    BY <1>2, <1>9, <1>10, <2>1
  <2>3. \A j \in 1..c.assoc - 1 : u[j] \in WaysOf(c) \ {w}
    BY <1>9, <2>1
  <2>4. \A j \in 1..c.assoc - 1 : u[j] = IF j < p THEN q[j] ELSE q[j + 1]
    BY <1>2, <1>8 DEF Without
  <2> QED BY <2>2, <2>3, <2>4
<1>12. m = n - 1
  <2>1. Cardinality(V \ {w}) = Cardinality(V) - 1
    BY <1>2, <1>5, FS_RemoveElement
  <2> QED BY <1>5, <2>1 DEF m, n
<1>13. p \in 1..n /\ T[p] = t /\ n >= 1 /\ n <= c.assoc
  <2>1. p \in 1..c.assoc /\ q[p] \in V /\ n \in Nat /\ n <= c.assoc
    BY <1>2, <1>5, <1>8
  <2>2. p \in 1..n
    BY <1>2, <2>1
  <2> QED BY <1>2, <1>7, <1>8, <2>1, <2>2
<1>14. PICK o \in 1..Len(T) : T[o] = t /\ Without(x, T, o)
  BY <1>2, <1>6, Unlinked
<1>15. Holds(x, G \ {t}) /\ Len(x) = n - 1
  <2>1. Holds(T, G)
    BY <1>2
  <2>2. Holds(x, G \ {t}) /\ Len(x) = Len(T) - 1
    BY <1>6, <2>1, Unlinked
  <2> QED BY <1>2, <2>2
<1>16. o = p
  BY <1>2, <1>13, <1>14 DEF Holds
<1> HIDE DEF x
<1>17. \A j \in 1..n - 1 : x[j] = IF j < p THEN T[j] ELSE T[j + 1]
  BY <1>2, <1>14, <1>16 DEF Without
<1>18. x \in Seq(Nat)
  <2>1. x \in Seq(G \ {t})
    BY <1>15 DEF Holds
  <2>2. \A j \in 1..n - 1 : x[j] \in Nat
    <3>1. \A j \in 1..n : T[j] \in Nat
      BY <1>2
    <3> QED BY <1>2, <1>17, <3>1
  <2> QED BY <1>15, <2>1, <2>2
<1>19. ASSUME NEW j \in 1..Len(U) PROVE U[j] = x[j]
  <2>1. j \in 1..n - 1 /\ j \in 1..m /\ j \in 1..c.assoc - 1
    <3>1. Len(U) = m /\ m = n - 1 /\ n \in Nat /\ c.assoc \in Nat /\ n <= c.assoc
      BY <1>2, <1>3, <1>12
    <3> QED BY <3>1
  <2>2. U[j] = ln[r[j]].tag
    BY <1>3, <1>4, <1>11, <2>1
  <2>3. CASE j < p
    <3>1. r[j] = q[j] /\ x[j] = T[j] /\ j \in 1..n
      BY <1>2, <1>11, <1>17, <2>1, <2>3
    <3>2. T[j] = ln[q[j]].tag
      BY <1>2, <3>1
    <3> QED BY <2>2, <3>1, <3>2
  <2>4. CASE ~(j < p)
    <3>1. r[j] = q[j + 1] /\ x[j] = T[j + 1] /\ j + 1 \in 1..n
      BY <1>2, <1>11, <1>17, <2>1, <2>4
    <3>2. T[j + 1] = ln[q[j + 1]].tag
      BY <1>2, <3>1
    <3> QED BY <2>2, <3>1, <3>2
  <2> QED BY <2>3, <2>4
<1>20. U = x
  BY <1>3, <1>12, <1>15, <1>18, <1>19, SeqEqual
<1> QED BY <1>20 DEF U, x, T

\* The tags of the set of block b in d are those of c when it is used, and no other set changes.
Uses(c, d, b) ==
    /\ TagOrder(d, SetOf(c, b)) = Used(TagOrder(c, SetOf(c, b)), TagOf(c, b), c.assoc)
    /\ \A z \in SetsOf(c) \ {SetOf(c, b)} : d.line[z] = c.line[z] /\ d.order[z] = c.order[z]

\* The way that an access leaves at the head of its set.
LEMMA AccessUses ==
    ASSUME NEW B, B \subseteq Nat \ {0}, NEW c, CacheOK(c, B), NEW cmd \in Cmds, NEW b \in B, NEW pick,
           c.policy = "LRU"
    PROVE  Uses(c, cache_access(c, cmd, b, pick).cache, b)
<1> DEFINE s == SetOf(c, b)
           t == TagOf(c, b)
           d == cache_access(c, cmd, b, pick).cache
<1>1. s \in SetsOf(c) /\ t \in Nat /\ b \in Nat /\ b # 0
  BY PlaceOfBlock
<1>2. Holds(c.order[s], WaysOf(c)) /\ Len(c.order[s]) = c.assoc /\ c.assoc \in Nat \ {0}
  BY <1>1 DEF CacheOK, SetOK
<1>3. CacheOK(d, B) /\ Alike(c, d)
  BY AccessServes DEF Serves
<1>4. \E w \in WaysOf(c) :
         Filled(c, d, s, w, ToHead(c.order[s], w), t) /\ Chosen(c, s, w, t)
  <2>1. CASE c.last = b
    <3>1. /\ c.last_blk \in WaysOf(c) /\ c.line[s][c.last_blk].valid
          /\ c.line[s][c.last_blk].tag = t /\ c.order[s][1] = c.last_blk
      BY <1>1, <2>1 DEF CacheOK, LastOK
    <3>2. d = Hit(c, cmd, b, c.last_blk).cache
      BY <2>1 DEF cache_access
    <3> DEFINE q == IF c.last # b /\ c.policy = "LRU" THEN ToHead(c.order[s], c.last_blk) ELSE c.order[s]
    <3>5. Filled(c, Hit(c, cmd, b, c.last_blk).cache, s, c.last_blk, q, t)
      <4>1. PICK k \in WaysOf(c) : k = c.last_blk /\ c.line[s][k].valid /\ c.line[s][k].tag = t /\ c.order[s][1] = k
        BY <3>1
      <4>2. Filled(c, Hit(c, cmd, b, k).cache, SetOf(c, b), k,
                   IF c.last # b /\ c.policy = "LRU" THEN ToHead(c.order[SetOf(c, b)], k)
                                                     ELSE c.order[SetOf(c, b)],
                   TagOf(c, b))
        BY <4>1, HitServes
      <4> QED BY <4>1, <4>2
    <3>3. Filled(c, d, s, c.last_blk, c.order[s], t)
      BY <2>1, <3>2, <3>5
    <3>4. ToHead(c.order[s], c.last_blk) = c.order[s]
      BY <1>2, <3>1, HeadStays
    <3> QED BY <3>1, <3>3, <3>4 DEF Chosen, Kept
  <2>2. CASE c.last # b /\ Found(c, b) # {}
    <3> DEFINE w == CHOOSE v \in Found(c, b) : TRUE
    <3>1. w \in Found(c, b)
      BY <2>2
    <3>2. w \in WaysOf(c) /\ c.line[s][w].valid /\ c.line[s][w].tag = t
      BY <1>1, <3>1, FoundIs
    <3>3. d = Hit(c, cmd, b, w).cache
      BY <2>2 DEF cache_access
    <3> HIDE DEF w
    <3>4. Filled(c, d, s, w, ToHead(c.order[s], w), t)
      BY <2>2, <3>2, <3>3, HitServes
    <3> QED BY <3>2, <3>4 DEF Chosen, Kept
  <2>3. CASE c.last # b /\ Found(c, b) = {}
    <3> DEFINE w == c.order[s][c.assoc]
    <3>1. Victim(c, b, pick) = w /\ w \in WaysOf(c)
      <4>1. Last(c.order[s]) = w
        BY <1>2 DEF Last
      <4>2. w \in WaysOf(c)
        BY <1>2 DEF Holds
      <4> QED BY <4>1, <4>2 DEF Victim
    <3>2. d = Miss(c, cmd, b, w).cache
      BY <2>3, <3>1 DEF cache_access
    <3>3. \A v \in WaysOf(c) : c.line[s][v].valid => c.line[s][v].tag # t
      BY <1>1, <2>3, FoundIs
    <3> HIDE DEF w
    <3>4. Filled(c, d, s, w, ToHead(c.order[s], w), t)
      BY <2>3, <3>1, <3>2, MissServes
    <3> QED BY <3>1, <3>3, <3>4 DEF w, Chosen, Kept
  <2> QED BY <2>1, <2>2, <2>3
<1> HIDE DEF d, s, t
<1>5. PICK w \in WaysOf(c) :
         Filled(c, d, s, w, ToHead(c.order[s], w), t) /\ Chosen(c, s, w, t)
  BY <1>4
<1>6. TagOrder(d, s) = Used(TagOrder(c, s), t, c.assoc)
  <2>1. Moves(B, c, d, s, w, t)
    BY <1>1, <1>3 DEF Moves
  <2> QED BY <1>5, <2>1, UsedIs
<1>7. \A z \in SetsOf(c) \ {s} : d.line[z] = c.line[z] /\ d.order[z] = c.order[z]
  BY <1>5 DEF Filled, Emptied, OneWay
<1> QED BY <1>6, <1>7 DEF Uses, d, s, t

-----------------------------------------------------------------------------
\* The tags dl1 holds, as LruSets remembers them.
Remembered(c) == [s \in 0..Dl1Nsets - 1 |-> IF c.policy = "LRU" THEN TagOrder(c, s) ELSE << >>]

\* dl1 keeps the geometry it was created with.
Shape == dl1.nsets = Dl1Nsets /\ dl1.assoc = Dl1Assoc

\* A set whose blocks and way list stay as they are keeps its tags.
LEMMA SameTags ==
    ASSUME NEW c, NEW d, Alike(c, d), NEW z, d.line[z] = c.line[z], d.order[z] = c.order[z]
    PROVE  TagOrder(d, z) = TagOrder(c, z)
<1>1. WaysOf(d) = WaysOf(c)
  BY AlikeSets
<1> QED BY <1>1 DEF TagOrder

\* A set is changed.
LEMMA OneSetThen ==
    ASSUME NEW c, NEW d, Alike(c, d), c.nsets = Dl1Nsets, c.policy = "LRU", NEW s \in SetsOf(c),
           \A z \in SetsOf(c) \ {s} : d.line[z] = c.line[z] /\ d.order[z] = c.order[z]
    PROVE  /\ s \in 0..Dl1Nsets - 1
           /\ Remembered(c)[s] = TagOrder(c, s) /\ Remembered(d)[s] = TagOrder(d, s)
           /\ Remembered(d) = [Remembered(c) EXCEPT ![s] = TagOrder(d, s)]
<1> DEFINE S == 0..Dl1Nsets - 1
<1>1. SetsOf(c) = S /\ d.policy = "LRU"
  BY DEF SetsOf, Alike
<1>2. ASSUME NEW z \in S \ {s} PROVE TagOrder(d, z) = TagOrder(c, z)
  BY <1>1, <1>2, SameTags
<1>3. Remembered(c) = [z \in S |-> TagOrder(c, z)] /\ Remembered(d) = [z \in S |-> TagOrder(d, z)]
  BY <1>1 DEF Remembered
<1> HIDE DEF S
<1>4. [z \in S |-> TagOrder(d, z)] = [[z \in S |-> TagOrder(c, z)] EXCEPT ![s] = TagOrder(d, s)]
  BY <1>1, <1>2
<1>5. s \in S
  BY <1>1
<1> QED BY <1>3, <1>4, <1>5 DEF S

\* Without LRU replacement there is nothing to see.
LEMMA OtherPolicies ==
    ASSUME NEW c, NEW d, c.policy # "LRU", d.policy # "LRU"
    PROVE  Remembered(d) = Remembered(c)
BY DEF Remembered

\* A new cache, and one that was flushed, have no tags.
LEMMA NoTags ==
    ASSUME NEW c, c.nsets = Dl1Nsets, \A s \in SetsOf(c), w \in WaysOf(c) : ~c.line[s][w].valid
    PROVE  Remembered(c) = [s \in 0..Dl1Nsets - 1 |-> << >>]
<1>1. ASSUME NEW s \in 0..Dl1Nsets - 1 PROVE TagOrder(c, s) = << >>
  <2>1. {w \in WaysOf(c) : c.line[s][w].valid} = {} /\ Cardinality({}) = 0
    BY FS_EmptySet DEF SetsOf
  <2>2. 1..Cardinality({w \in WaysOf(c) : c.line[s][w].valid}) = {}
    BY <2>1
  <2> QED BY <2>2 DEF TagOrder
<1> QED BY <1>1 DEF Remembered

-----------------------------------------------------------------------------
(* The steps of the store                                                  *)

\* Its operators on sequences are those of the caches.
LEMMA RemoveSame == ASSUME NEW q, NEW t PROVE Lru!RemoveFirst(q, t) = RemoveFirst(q, t)
<1>1. Lru!SelectInSeq(q, LAMBDA v : v = t) = SelectInSeq(q, LAMBDA v : v = t)
  BY DEF Lru!SelectInSeq, SelectInSeq, Lru!Min, Min
<1>2. \A i : Lru!RemoveAt(q, i) = RemoveAt(q, i)
  BY DEF Lru!RemoveAt, RemoveAt
<1> QED BY <1>1, <1>2 DEF Lru!RemoveFirst, RemoveFirst

LEMMA TouchedIs == ASSUME NEW q, NEW t PROVE Lru!Touched(q, t) = Used(q, t, Dl1Assoc)
<1>1. Lru!Contains(q, t) = Contains(q, t) /\ Lru!Front(q) = Front(q)
  BY DEF Lru!Contains, Contains, Lru!Front, Front
<1> QED BY <1>1, RemoveSame DEF Lru!Touched, Used

\* A step of the store, or none.
StoreStep == Lru!FlushableNext \/ (Remembered(dl1') = Remembered(dl1) /\ asked' = asked)

\* Sets of a cache of the shape of dl1, and tags.
LEMMA PlacesAre ==
    ASSUME CachesInv, Shape, NEW b \in Blocks
    PROVE  /\ SetOf(dl1, b) \in SetsOf(dl1) /\ SetsOf(dl1) = 0..Dl1Nsets - 1
           /\ TagOf(dl1, b) \in {k \div Dl1Nsets : k \in Blocks} /\ TagOf(dl1, b) \in Nat
<1>1. b \in Nat
  BY BlocksAre
<1>2. SetOf(dl1, b) \in SetsOf(dl1) /\ TagOf(dl1, b) \in Nat
  BY <1>1, PlaceOfBlock DEF CachesInv
<1> QED BY <1>2 DEF Shape, SetsOf, TagOf

LEMMA DataAccessStep ==
    ASSUME CachesInv, Shape, NEW cmd \in Cmds, NEW b \in Blocks, DataAccess(cmd, b)
    PROVE  StoreStep /\ Alike(dl1, dl1')
<1>1. PICK pick \in Picks(dl1, 1) : dl1' = cache_access(dl1, cmd, b, pick[1]).cache
  BY DEF DataAccess
<1> DEFINE s == SetOf(dl1, b)
           t == TagOf(dl1, b)
<1>2. Alike(dl1, dl1')
  <2>1. dl1.policy = "Random" => pick[1] \in WaysOf(dl1)
    <3>1. dl1 # NoCache
      BY CacheThere DEF CachesInv
    <3> QED BY <3>1 DEF Picks
  <2>2. Serves(dl1, cache_access(dl1, cmd, b, pick[1]), Blocks, Wrote(cmd, b))
    BY <2>1, BlocksAre, AccessServes DEF CachesInv
  <2> QED BY <1>1, <2>2 DEF Serves
<1>3. s \in SetsOf(dl1) /\ t \in {k \div Dl1Nsets : k \in Blocks}
  BY PlacesAre
<1>4. CASE dl1.policy = "LRU"
  <2>1. /\ TagOrder(dl1', s) = Used(TagOrder(dl1, s), t, dl1.assoc)
        /\ \A z \in SetsOf(dl1) \ {s} : dl1'.line[z] = dl1.line[z] /\ dl1'.order[z] = dl1.order[z]
    <3> DEFINE k == pick[1]
    <3>1. CacheOK(dl1, Blocks) /\ Blocks \subseteq Nat \ {0} /\ dl1' = cache_access(dl1, cmd, b, k).cache
      BY <1>1, BlocksAre DEF CachesInv
    <3> HIDE DEF k
    <3>2. Uses(dl1, dl1', b)
      BY <1>4, <3>1, AccessUses
    <3> QED BY <3>2 DEF Uses
  <2> HIDE DEF s, t
  <2>2. /\ s \in 0..Dl1Nsets - 1
        /\ Remembered(dl1)[s] = TagOrder(dl1, s) /\ Remembered(dl1')[s] = TagOrder(dl1', s)
        /\ Remembered(dl1') = [Remembered(dl1) EXCEPT ![s] = TagOrder(dl1', s)]
    BY <1>2, <1>3, <1>4, <2>1, OneSetThen DEF Shape
  <2>3. Remembered(dl1')[s] = Lru!Touched(Remembered(dl1)[s], t)
    BY <2>1, <2>2, TouchedIs DEF Shape
  <2>4. Remembered(dl1') = [Remembered(dl1) EXCEPT ![s] = Remembered(dl1')[s]]
    BY <2>2
  <2>5. asked' = <<"use", s, t>>
    BY <1>4 DEF DataAccess, Asking, s, t
  <2>6. Lru!Use(s, t)
    BY <2>3, <2>4, <2>5 DEF Lru!Use, Lru!ToUse, Remembered
  <2> QED BY <1>2, <1>3, <2>2, <2>6 DEF StoreStep, Lru!FlushableNext, Lru!LruNext
<1>5. CASE dl1.policy # "LRU"
  <2>1. asked' = asked
    BY <1>5 DEF DataAccess, Asking
  <2> QED BY <1>2, <1>5, <2>1, OtherPolicies DEF Alike, StoreStep
<1> QED BY <1>2, <1>4, <1>5

LEMMA FlushAddrStep ==
    ASSUME CachesInv, Shape, NEW b \in Blocks, FlushAddr(b)
    PROVE  StoreStep /\ Alike(dl1, dl1')
<1> DEFINE s == SetOf(dl1, b)
           t == TagOf(dl1, b)
           d == cache_flush_addr(dl1, b).cache
<1>1. dl1' = d
  BY DEF FlushAddr
<1>2. /\ Serves(dl1, cache_flush_addr(dl1, b), Blocks, {})
      /\ IF Found(dl1, b) = {} THEN d = dl1
         ELSE \E w \in Found(dl1, b) : Emptied(dl1, d, s, w, ToTail(dl1.order[s], w), t)
  BY BlocksAre, FlushAddrServes DEF CachesInv
<1>3. Alike(dl1, dl1') /\ CacheOK(dl1', Blocks) /\ CacheOK(dl1, Blocks)
  BY <1>1, <1>2 DEF Serves, CachesInv
<1> HIDE DEF d
<1>4. s \in SetsOf(dl1) /\ t \in {k \div Dl1Nsets : k \in Blocks} /\ t \in Nat
  BY PlacesAre
<1>5. CASE Found(dl1, b) = {} /\ dl1.policy = "LRU"
  <2> DEFINE q == dl1.order[s]
             V == Valids(dl1, s)
             n == Cardinality(V)
             T == TagOrder(dl1, s)
  <2>1. InOrder(dl1, dl1.line[s], V, n, q, T)
    BY <1>3, <1>4, <1>5, TagOrderIs
  <2>2. \A w \in V : dl1.line[s][w].tag # t
    <3>1. \A w \in WaysOf(dl1) : ~(dl1.line[s][w].valid /\ dl1.line[s][w].tag = t)
      BY <1>3, <1>5, BlocksAre, FoundIs
    <3> QED BY <3>1 DEF Valids
  <2>3. \A k \in 1..Len(T) : T[k] # t
    <3> HIDE DEF q, V, n, T
    <3> QED BY <2>1, <2>2 DEF InOrder
  <2>4. RemoveFirst(T, t) = T
    BY <2>3 DEF RemoveFirst
  <2> HIDE DEF s, t, q, V, n
  <2>5. /\ s \in 0..Dl1Nsets - 1 /\ dl1' = dl1
        /\ Remembered(dl1)[s] = TagOrder(dl1, s)
        /\ Remembered(dl1) = [Remembered(dl1) EXCEPT ![s] = TagOrder(dl1, s)]
    BY <1>1, <1>2, <1>3, <1>4, <1>5, OneSetThen DEF Shape
  <2>6. Remembered(dl1') = [Remembered(dl1) EXCEPT ![s] = Lru!RemoveFirst(Remembered(dl1)[s], t)]
    BY <2>4, <2>5, RemoveSame
  <2>7. asked' = <<"forget", s, t>>
    BY <1>5 DEF FlushAddr, Asking, s, t
  <2>8. Lru!Forget(s, t)
    BY <2>6, <2>7 DEF Lru!Forget, Lru!ToForget, Remembered
  <2> QED BY <1>3, <1>4, <2>5, <2>8 DEF StoreStep, Lru!FlushableNext
<1>6. CASE dl1.policy # "LRU"
  <2>1. asked' = asked
    BY <1>6 DEF FlushAddr, Asking
  <2> QED BY <1>3, <1>6, <2>1, OtherPolicies DEF Alike, StoreStep
<1>7. CASE Found(dl1, b) # {} /\ dl1.policy = "LRU"
  <2>1. PICK w \in Found(dl1, b) : Emptied(dl1, dl1', s, w, ToTail(dl1.order[s], w), t)
    BY <1>1, <1>2, <1>7
  <2>2. w \in WaysOf(dl1) /\ dl1.line[s][w].valid /\ dl1.line[s][w].tag = t
    BY <1>3, BlocksAre, FoundIs
  <2> HIDE DEF s, t
  <2>3. TagOrder(dl1', s) = RemoveFirst(TagOrder(dl1, s), t)
    <3>1. Moves(Blocks, dl1, dl1', s, w, t) /\ Kept(dl1, s, w, t)
      BY <1>3, <1>4, <1>7, <2>2 DEF Moves, Kept
    <3> QED BY <2>1, <3>1, ForgotIs
  <2>4. \A z \in SetsOf(dl1) \ {s} : dl1'.line[z] = dl1.line[z] /\ dl1'.order[z] = dl1.order[z]
    BY <2>1 DEF Filled, Emptied, OneWay
  <2>5. /\ s \in 0..Dl1Nsets - 1
        /\ Remembered(dl1)[s] = TagOrder(dl1, s) /\ Remembered(dl1')[s] = TagOrder(dl1', s)
        /\ Remembered(dl1') = [Remembered(dl1) EXCEPT ![s] = TagOrder(dl1', s)]
    BY <1>3, <1>4, <1>7, <2>4, OneSetThen DEF Shape
  <2>6. Remembered(dl1') = [Remembered(dl1) EXCEPT ![s] = Lru!RemoveFirst(Remembered(dl1)[s], t)]
    BY <2>3, <2>5, RemoveSame
  <2>7. asked' = <<"forget", s, t>>
    BY <1>7 DEF FlushAddr, Asking, s, t
  <2>8. Lru!Forget(s, t)
    BY <2>6, <2>7 DEF Lru!Forget, Lru!ToForget, Remembered
  <2> QED BY <1>3, <1>4, <2>5, <2>8 DEF StoreStep, Lru!FlushableNext
<1> QED BY <1>5, <1>6, <1>7

LEMMA SyscallStep ==
    ASSUME CachesInv, Shape, Syscall
    PROVE  StoreStep /\ Alike(dl1, dl1')
<1>1. dl1' = cache_flush(dl1).cache
  BY DEF Syscall
<1>2. Alike(dl1, dl1') /\ \A s \in SetsOf(dl1), w \in WaysOf(dl1) : ~dl1'.line[s][w].valid
  BY <1>1, BlocksAre, FlushServes DEF CachesInv, Serves
<1>3. \A s \in SetsOf(dl1'), w \in WaysOf(dl1') : ~dl1'.line[s][w].valid
  BY <1>2, AlikeSets
<1>4. dl1'.nsets = Dl1Nsets
  BY <1>2 DEF Alike, Shape
<1>5. Remembered(dl1') = [s \in 0..Dl1Nsets - 1 |-> << >>]
  BY <1>3, <1>4, NoTags
<1>6. CASE dl1.policy = "LRU"
  <2>1. asked' = <<"empty">>
    BY <1>6 DEF Syscall, AskingAll
  <2>2. Lru!ForgetAll
    BY <1>5, <2>1 DEF Lru!ForgetAll, Lru!ToEmpty, Remembered
  <2> QED BY <1>2, <2>2 DEF StoreStep, Lru!FlushableNext
<1>7. CASE dl1.policy # "LRU"
  <2>1. asked' = asked
    BY <1>7 DEF Syscall, AskingAll
  <2> QED BY <1>2, <1>7, <2>1, OtherPolicies DEF Alike, StoreStep
<1> QED BY <1>6, <1>7

\* With LRU replacement dl1 implements the store of LruSets: each set holds, in the order of
\* their last use, the blocks the program used last, whichever of the short cut, the hash bucket
\* and the way list finds them, and but for those that were flushed.
THEOREM Dl1Refines == Spec => Dl1ImplementsLru
<1>1. Init => Shape /\ Lru!LruInit
  <2> SUFFICES ASSUME Init PROVE Shape /\ Lru!LruInit
    OBVIOUS
  <2>1. PICK p \in Dl1Params : dl1 = Created(p)
    BY DEF Init
  <2>2. dl1.nsets = Dl1Nsets /\ dl1.assoc = Dl1Assoc
    BY <2>1, Dl1Assumption DEF Created
  <2>3. \A s \in SetsOf(dl1), w \in WaysOf(dl1) : ~dl1.line[s][w].valid
    BY <2>1 DEF Created, SetsOf, WaysOf, Invalid
  <2>4. Remembered(dl1) = [s \in 0..Dl1Nsets - 1 |-> << >>]
    BY <2>2, <2>3, NoTags
  <2>5. asked = << >>
    BY DEF Init
  <2> QED BY <2>2, <2>4, <2>5 DEF Shape, Lru!LruInit, Lru!Nothing, Remembered
<1>2. ASSUME CachesInv, Shape, [Next]_vars PROVE StoreStep /\ Shape'
  <2>1. StoreStep /\ Alike(dl1, dl1')
    <3>1. ASSUME NEW cmd \in Cmds, NEW b \in Blocks, DataAccess(cmd, b) PROVE StoreStep /\ Alike(dl1, dl1')
      BY <1>2, <3>1, DataAccessStep
    <3>2. ASSUME NEW b \in Blocks, FlushAddr(b) PROVE StoreStep /\ Alike(dl1, dl1')
      BY <1>2, <3>2, FlushAddrStep
    <3>3. CASE Syscall
      BY <1>2, <3>3, SyscallStep
    <3>4. CASE dl1' = dl1 /\ asked' = asked
      BY <3>4 DEF StoreStep, Alike
    <3>5. ASSUME NEW b \in InstBlocks, InstFetch(b) PROVE dl1' = dl1 /\ asked' = asked
      BY <3>5 DEF InstFetch
    <3>6. CASE UNCHANGED vars
      BY <3>4, <3>6 DEF vars
    <3> QED BY <1>2, <3>1, <3>2, <3>3, <3>4, <3>5, <3>6 DEF Next
  <2> QED BY <1>2, <2>1 DEF Shape, Alike
<1>3. StoreStep => [Lru!FlushableNext]_(<<Remembered(dl1), asked>>)
  BY DEF StoreStep
<1> QED BY <1>1, <1>2, <1>3, CachesInvariant, PTL
     DEF Spec, Dl1ImplementsLru, Lru!FlushableSpec, Lru!storeVars, Remembered
=============================================================================
