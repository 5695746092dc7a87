--------------------------- MODULE SpecStateProofs ---------------------------
(***************************************************************************)
(* The two copies of the state behind dispatch, for any registers, words,  *)
(* values and table size: the table of speculative stores keeps one entry  *)
(* for an address, in its chain, and loses none; and a wrong path sees its *)
(* own writes over the right path's state and leaves nothing behind, as    *)
(* long as registers that share a bit are written together and accesses do *)
(* not overlap.                                                            *)
(***************************************************************************)
EXTENDS SpecState, ListLemmas

Addrs == {a.addr : a \in Accesses}
Entry == [addr : Addrs, data : Values \X Values]

\* A chain whose entries are for different addresses, all of bucket h.
ChainOK(c, h) ==
    /\ c \in Seq(Entry)
    /\ \A k \in 1..Len(c) : HashAddr(c[k].addr) = h
    /\ \A j, k \in 1..Len(c) : j # k => c[j].addr # c[k].addr

LEMMA AccessFields ==
    ASSUME NEW a \in Accesses
    PROVE  a.addr \in Nat /\ a.words \in {1, 2} /\ a.addr \in Addrs /\ HashAddr(a.addr) \in Buckets
<1>1. a.addr \in Nat /\ a.words \in {1, 2} /\ STORE_HASH_SIZE \in Nat \ {0}
  BY AccessesAssumption
<1>2. a.addr % STORE_HASH_SIZE \in 0..STORE_HASH_SIZE - 1
  BY <1>1
<1> QED BY <1>1, <1>2 DEF Addrs, HashAddr, Buckets

LEMMA AddrsFinite == IsFiniteSet(Addrs) /\ Cardinality(Addrs) <= Cardinality(Accesses)
                     /\ Cardinality(Addrs) \in Nat /\ Cardinality(Accesses) \in Nat
<1> DEFINE f == [a \in Accesses |-> a.addr]
<1>1. f \in Surjection(Accesses, Addrs)
  BY DEF Surjection, Addrs
<1>2. IsFiniteSet(Accesses)
  BY AccessesAssumption
<1>3. IsFiniteSet(Addrs) /\ Cardinality(Addrs) <= Cardinality(Accesses)
  BY <1>1, <1>2, FS_Surjection
<1> QED BY <1>2, <1>3, FS_CardinalityType

\* Different addresses bound the length of a chain.
LEMMA ChainShort ==
    ASSUME NEW c, NEW h, ChainOK(c, h)
    PROVE  Len(c) \in Nat /\ Len(c) <= Cardinality(Accesses)
<1> DEFINE f == [k \in 1..Len(c) |-> c[k].addr]
<1>1. Len(c) \in Nat /\ \A k \in 1..Len(c) : c[k] \in Entry
  BY LenProperties, ElementOfSeq DEF ChainOK
<1>2. f \in Injection(1..Len(c), Addrs)
  <2>1. f \in [1..Len(c) -> Addrs]
    BY <1>1 DEF Entry
  <2>2. \A j, k \in 1..Len(c) : f[j] = f[k] => j = k
    BY DEF ChainOK
  <2> QED BY <2>1, <2>2, Fun_IsInj
<1>3. Cardinality(1..Len(c)) = Len(c)
  <2> DEFINE n == Len(c)
  <2>1. n \in Nat
    BY <1>1
  <2> HIDE DEF n
  <2>2. Cardinality(1..n) = IF 1 > n THEN 0 ELSE n - 1 + 1
    BY <2>1, FS_Interval
  <2>3. Cardinality(1..n) = n
    BY <2>1, <2>2
  <2> QED BY <2>3 DEF n
<1>4. Cardinality(1..Len(c)) <= Cardinality(Addrs)
  BY <1>2, AddrsFinite, FS_Injection
<1> QED BY <1>1, <1>3, <1>4, AddrsFinite

-----------------------------------------------------------------------------
(* Moving an entry to the front.                                           *)

LEMMA RemoveAtProperties ==
    ASSUME NEW S, NEW s \in Seq(S), NEW k \in 1..Len(s)
    PROVE  /\ RemoveAt(s, k) \in Seq(S) /\ Len(RemoveAt(s, k)) = Len(s) - 1
           /\ \A i \in 1..Len(s) - 1 : RemoveAt(s, k)[i] = IF i < k THEN s[i] ELSE s[i + 1]
<1> DEFINE l == SubSeq(s, 1, k - 1)
           r == SubSeq(s, k + 1, Len(s))
<1>1. Len(s) \in Nat /\ k \in Nat /\ k >= 1 /\ k <= Len(s) /\ \A i \in 1..Len(s) : s[i] \in S
  BY LenProperties, ElementOfSeq
<1>2. /\ l \in Seq(S) /\ Len(l) = k - 1
      /\ \A i \in 1..k - 1 : l[i] = s[i]
  <2>1. \A i \in 1..k - 1 : s[i] \in S
    BY <1>1
  <2> QED BY <1>1, <2>1, SubSeqProperties
<1>3. /\ r \in Seq(S) /\ Len(r) = Len(s) - k
      /\ \A i \in 1..Len(s) - k : r[i] = s[k + i]
  <2>1. \A i \in k + 1..Len(s) : s[i] \in S
    BY <1>1
  <2> QED BY <1>1, <2>1, SubSeqProperties
<1>4. RemoveAt(s, k) = l \o r
  BY DEF RemoveAt
<1> HIDE DEF l, r
<1>5. /\ l \o r \in Seq(S) /\ Len(l \o r) = Len(l) + Len(r)
      /\ \A i \in 1..Len(l) + Len(r) : (l \o r)[i] = IF i <= Len(l) THEN l[i] ELSE r[i - Len(l)]
  BY <1>2, <1>3, ConcatProperties
<1> DEFINE m == l \o r
<1>6. /\ Len(m) = Len(l) + Len(r)
      /\ \A i \in 1..Len(l) + Len(r) : m[i] = IF i <= Len(l) THEN l[i] ELSE r[i - Len(l)]
  BY <1>5
<1> HIDE DEF m
<1>7. ASSUME NEW i \in 1..Len(s) - 1 PROVE m[i] = IF i < k THEN s[i] ELSE s[i + 1]
  <2>1. CASE i < k
    <3>1. i \in 1..Len(l) + Len(r) /\ i <= Len(l) /\ i \in 1..k - 1
      BY <1>1, <1>2, <1>3, <2>1
    <3>2. m[i] = l[i]
      BY <1>6, <3>1
    <3>3. l[i] = s[i]
      BY <1>2, <3>1
    <3> QED BY <2>1, <3>2, <3>3
  <2>2. CASE ~(i < k)
    <3>1. i \in 1..Len(l) + Len(r) /\ ~(i <= Len(l)) /\ i - Len(l) = i - k + 1
      BY <1>1, <1>2, <1>3, <2>2
    <3>2. i - k + 1 \in 1..Len(s) - k /\ k + (i - k + 1) = i + 1
      BY <1>1, <2>2
    <3>3. m[i] = r[i - k + 1]
      BY <1>6, <3>1
    <3>4. r[i - k + 1] = s[k + (i - k + 1)]
      BY <1>3, <3>2
    <3>5. m[i] = s[i + 1]
      BY <3>2, <3>3, <3>4
    <3> QED BY <2>2, <3>5
  <2> QED BY <2>1, <2>2
<1> QED BY <1>1, <1>2, <1>3, <1>4, <1>5, <1>7 DEF m

\* A list with its entry k put at the front: what was where.
Origin(k, i) == IF i = 1 THEN k ELSE IF i <= k THEN i - 1 ELSE i

Fronted(S, s, k, t) ==
    /\ t \in Seq(S) /\ Len(t) = Len(s)
    /\ \A i \in 1..Len(s) : t[i] = s[Origin(k, i)] /\ Origin(k, i) \in 1..Len(s)
    /\ \A i, j \in 1..Len(s) : Origin(k, i) = Origin(k, j) => i = j
    /\ \A j \in 1..Len(s) : \E i \in 1..Len(s) : Origin(k, i) = j

LEMMA FrontedIs ==
    ASSUME NEW S, NEW s \in Seq(S), NEW k \in 1..Len(s)
    PROVE  Fronted(S, s, k, <<s[k]>> \o RemoveAt(s, k))
<1> DEFINE one == <<s[k]>>
           r == RemoveAt(s, k)
           t == one \o r
<1>1. Len(s) \in Nat /\ k \in Nat /\ k >= 1 /\ k <= Len(s) /\ s[k] \in S
  BY LenProperties, ElementOfSeq
<1>2. one \in Seq(S) /\ Len(one) = 1 /\ one[1] = s[k]
  BY <1>1
<1>3. /\ r \in Seq(S) /\ Len(r) = Len(s) - 1
      /\ \A i \in 1..Len(s) - 1 : r[i] = IF i < k THEN s[i] ELSE s[i + 1]
  BY RemoveAtProperties
<1> HIDE DEF one, r
<1>4. /\ t \in Seq(S) /\ Len(t) = Len(one) + Len(r)
      /\ \A i \in 1..Len(one) + Len(r) : t[i] = IF i <= Len(one) THEN one[i] ELSE r[i - Len(one)]
  BY <1>2, <1>3, ConcatProperties
<1> HIDE DEF t
<1>5. Len(t) = Len(s)
  BY <1>1, <1>2, <1>3, <1>4
<1>6. ASSUME NEW i \in 1..Len(s) PROVE t[i] = s[Origin(k, i)] /\ Origin(k, i) \in 1..Len(s)
  <2>1. CASE i = 1
    BY <1>1, <1>2, <1>3, <1>4, <2>1 DEF Origin
  <2>2. CASE i # 1
    <3>1. i - 1 \in 1..Len(s) - 1 /\ i \in 1..Len(one) + Len(r) /\ ~(i <= Len(one)) /\ i - Len(one) = i - 1
      BY <1>1, <1>2, <1>3, <2>2
    <3>2. t[i] = r[i - 1]
      BY <1>4, <3>1
    <3>3. t[i] = IF i - 1 < k THEN s[i - 1] ELSE s[i - 1 + 1]
      BY <1>3, <3>1, <3>2
    <3>4. i - 1 + 1 = i /\ (i - 1 < k <=> i <= k)
      BY <1>1
    <3>5. Origin(k, i) = (IF i <= k THEN i - 1 ELSE i) /\ Origin(k, i) \in 1..Len(s)
      BY <1>1, <2>2 DEF Origin
    <3> QED BY <3>3, <3>4, <3>5
  <2> QED BY <2>1, <2>2
<1>7. \A i, j \in 1..Len(s) : Origin(k, i) = Origin(k, j) => i = j
  BY <1>1 DEF Origin
<1>8. ASSUME NEW j \in 1..Len(s) PROVE \E i \in 1..Len(s) : Origin(k, i) = j
  <2>1. CASE j = k
    BY <1>1, <2>1 DEF Origin
  <2>2. CASE j < k
    <3>1. j + 1 \in 1..Len(s) /\ Origin(k, j + 1) = j
      BY <1>1, <2>2 DEF Origin
    <3> QED BY <3>1
  <2>3. CASE j > k
    <3>1. Origin(k, j) = j
      BY <1>1, <2>3 DEF Origin
    <3> QED BY <3>1
  <2> QED BY <1>1, <2>1, <2>2, <2>3
<1> QED BY <1>4, <1>5, <1>6, <1>7, <1>8 DEF t, one, r, Fronted

-----------------------------------------------------------------------------
(* Looking entries up.                                                     *)

\* The entry of a chain for an address, as a set.
EntryFor(c, addr) == {e \in {c[k] : k \in 1..Len(c)} : e.addr = addr}

At(c, addr) == {k \in 1..Len(c) : c[k].addr = addr}
First(S) == CHOOSE n \in S : \A m \in S : n <= m

\* The first entry for an address is the only one.
LEMMA FirstIsOnly ==
    ASSUME NEW c, NEW h, ChainOK(c, h), NEW addr, NEW k \in 1..Len(c), c[k].addr = addr
    PROVE  /\ At(c, addr) = {k} /\ First(At(c, addr)) = k
           /\ EntryFor(c, addr) = {c[k]}
<1>1. At(c, addr) = {k}
  BY DEF At, ChainOK
<1>2. k \in Nat
  BY ChainShort
<1>3. First({k}) = k
  BY <1>2 DEF First
<1>4. EntryFor(c, addr) = {c[k]}
  BY DEF EntryFor, ChainOK
<1> QED BY <1>1, <1>3, <1>4

LEMMA NoneFor ==
    ASSUME NEW c, NEW addr, At(c, addr) = {}
    PROVE  EntryFor(c, addr) = {}
BY DEF At, EntryFor

\* What a search that moves the entry found to the front makes of a chain.
Moved(c, addr) == IF At(c, addr) = {} THEN c
                  ELSE <<c[First(At(c, addr))]>> \o RemoveAt(c, First(At(c, addr)))

LEMMA MovedKeeps ==
    ASSUME NEW c, NEW h, ChainOK(c, h), NEW addr
    PROVE  LET d == Moved(c, addr)
           IN /\ ChainOK(d, h) /\ Len(d) = Len(c)
              /\ \A b : EntryFor(d, b) = EntryFor(c, b)
              /\ At(c, addr) # {} => /\ Len(d) > 0 /\ d[1].addr = addr
<1> DEFINE d == Moved(c, addr)
<1>1. CASE At(c, addr) = {}
  BY <1>1 DEF Moved
<1>2. CASE At(c, addr) # {}
  <2>1. PICK k \in 1..Len(c) : c[k].addr = addr
    BY <1>2 DEF At
  <2>2. First(At(c, addr)) = k
    BY <2>1, FirstIsOnly
  <2>3. d = <<c[k]>> \o RemoveAt(c, k) /\ c \in Seq(Entry)
    BY <1>2, <2>2 DEF Moved, ChainOK
  <2> HIDE DEF d
  <2>4. /\ d \in Seq(Entry) /\ Len(d) = Len(c)
        /\ \A i \in 1..Len(c) : d[i] = c[Origin(k, i)] /\ Origin(k, i) \in 1..Len(c)
        /\ \A i, j \in 1..Len(c) : Origin(k, i) = Origin(k, j) => i = j
        /\ \A j \in 1..Len(c) : \E i \in 1..Len(c) : Origin(k, i) = j
    <3>1. Fronted(Entry, c, k, d)
      BY <2>3, FrontedIs
    <3> QED BY <3>1 DEF Fronted
  <2>5. ChainOK(d, h)
    <3>1. ASSUME NEW i \in 1..Len(d) PROVE HashAddr(d[i].addr) = h
      <4>1. d[i] = c[Origin(k, i)] /\ Origin(k, i) \in 1..Len(c)
        BY <2>4
      <4> QED BY <4>1 DEF ChainOK
    <3>2. ASSUME NEW i \in 1..Len(d), NEW j \in 1..Len(d), i # j PROVE d[i].addr # d[j].addr
      <4>1. Origin(k, i) # Origin(k, j) /\ Origin(k, i) \in 1..Len(c) /\ Origin(k, j) \in 1..Len(c)
        BY <2>4, <3>2
      <4>2. d[i] = c[Origin(k, i)] /\ d[j] = c[Origin(k, j)]
        BY <2>4
      <4>3. c[Origin(k, i)].addr # c[Origin(k, j)].addr
        BY <4>1 DEF ChainOK
      <4> QED BY <4>2, <4>3
    <3> QED BY <2>4, <3>1, <3>2 DEF ChainOK
  <2>6. {d[i] : i \in 1..Len(d)} = {c[i] : i \in 1..Len(c)}
    <3>1. ASSUME NEW i \in 1..Len(d) PROVE d[i] \in {c[j] : j \in 1..Len(c)}
      BY <2>4
    <3>2. ASSUME NEW j \in 1..Len(c) PROVE c[j] \in {d[i] : i \in 1..Len(d)}
      <4>1. PICK i \in 1..Len(c) : Origin(k, i) = j
        BY <2>4
      <4>2. d[i] = c[j] /\ i \in 1..Len(d)
        BY <2>4, <4>1
      <4> QED BY <4>2
    <3> QED BY <3>1, <3>2
  <2>7. Len(d) > 0 /\ d[1].addr = addr
    <3>1. Len(c) \in Nat /\ k \in Nat /\ 1 \in 1..Len(c)
      BY ChainShort
    <3>2. Origin(k, 1) = k
      BY DEF Origin
    <3>3. d[1] = c[Origin(k, 1)]
      BY <2>4, <3>1
    <3>4. d[1].addr = addr
      BY <2>1, <3>2, <3>3
    <3>5. Len(d) = Len(c)
      BY <2>4
    <3> QED BY <3>1, <3>4, <3>5
  <2> QED BY <2>4, <2>5, <2>6, <2>7 DEF EntryFor, d
<1> QED BY <1>1, <1>2

\* Writing to the first entry of a chain.
LEMMA HeadWritten ==
    ASSUME NEW c, NEW h, ChainOK(c, h), Len(c) > 0, NEW e \in Entry, e.addr = c[1].addr
    PROVE  LET d == <<e>> \o Tail(c)
           IN /\ ChainOK(d, h) /\ Len(d) = Len(c)
              /\ \A b : EntryFor(d, b) = IF b = e.addr THEN {e} ELSE EntryFor(c, b)
<1> DEFINE one == <<e>>
           t == Tail(c)
           d == one \o t
<1>1. c \in Seq(Entry) /\ Len(c) \in Nat /\ c # << >> /\ 1 \in 1..Len(c)
  BY ChainShort, EmptySeq DEF ChainOK
<1>2. one \in Seq(Entry) /\ Len(one) = 1 /\ one[1] = e
  OBVIOUS
<1>3. t \in Seq(Entry) /\ Len(t) = Len(c) - 1 /\ \A i \in 1..Len(c) - 1 : t[i] = c[i + 1]
  BY <1>1, HeadTailProperties
<1> HIDE DEF one, t
<1>4. /\ d \in Seq(Entry) /\ Len(d) = Len(one) + Len(t)
      /\ \A i \in 1..Len(one) + Len(t) : d[i] = IF i <= Len(one) THEN one[i] ELSE t[i - Len(one)]
  <2>1. t \in Seq(Entry) /\ one \in Seq(Entry)
    BY <1>2, <1>3
  <2> QED BY <2>1, ConcatProperties
<1> HIDE DEF d
<1>5. Len(d) = Len(c)
  BY <1>1, <1>2, <1>3, <1>4
<1>6. ASSUME NEW i \in 1..Len(c) PROVE d[i] = IF i = 1 THEN e ELSE c[i]
  <2>1. CASE i = 1
    BY <1>1, <1>2, <1>3, <1>4, <2>1
  <2>2. CASE i # 1
    <3>1. i - 1 \in 1..Len(c) - 1 /\ ~(i <= Len(one)) /\ i - Len(one) = i - 1 /\ i - 1 + 1 = i
          /\ i \in 1..Len(one) + Len(t)
      BY <1>1, <1>2, <1>3, <2>2
    <3>2. d[i] = t[i - 1]
      BY <1>4, <3>1
    <3> QED BY <1>3, <2>2, <3>1, <3>2
  <2> QED BY <2>1, <2>2
<1>7. \A i \in 1..Len(c) : d[i].addr = c[i].addr
  BY <1>6
<1>8. ChainOK(d, h)
  BY <1>4, <1>5, <1>7 DEF ChainOK
<1>9. ASSUME NEW b PROVE EntryFor(d, b) = IF b = e.addr THEN {e} ELSE EntryFor(c, b)
  <2>1. CASE b = e.addr
    BY <1>1, <1>5, <1>6, <1>8, <2>1, FirstIsOnly
  <2>2. CASE b # e.addr
    <3>1. EntryFor(d, b) = {x \in {d[i] : i \in 2..Len(c)} : x.addr = b}
      BY <1>1, <1>5, <1>6, <2>2 DEF EntryFor
    <3>2. EntryFor(c, b) = {x \in {c[i] : i \in 2..Len(c)} : x.addr = b}
      BY <1>1, <2>2 DEF EntryFor
    <3>3. \A i \in 2..Len(c) : d[i] = c[i]
      BY <1>1, <1>6
    <3> QED BY <2>2, <3>1, <3>2, <3>3
  <2> QED BY <2>1, <2>2
<1> QED BY <1>5, <1>8, <1>9 DEF d, one, t

\* Linking a new entry at the front of a chain that has none for its address.
LEMMA Linked ==
    ASSUME NEW c, NEW h, ChainOK(c, h), NEW e \in Entry, HashAddr(e.addr) = h,
           EntryFor(c, e.addr) = {}
    PROVE  LET d == <<e>> \o c
           IN /\ ChainOK(d, h) /\ Len(d) = Len(c) + 1
              /\ \A b : EntryFor(d, b) = IF b = e.addr THEN {e} ELSE EntryFor(c, b)
<1> DEFINE one == <<e>>
           d == one \o c
<1>1. c \in Seq(Entry) /\ Len(c) \in Nat
  BY ChainShort DEF ChainOK
<1>2. one \in Seq(Entry) /\ Len(one) = 1 /\ one[1] = e
  OBVIOUS
<1> HIDE DEF one
<1>3. /\ d \in Seq(Entry) /\ Len(d) = Len(one) + Len(c)
      /\ \A i \in 1..Len(one) + Len(c) : d[i] = IF i <= Len(one) THEN one[i] ELSE c[i - Len(one)]
  BY <1>1, <1>2, ConcatProperties
<1> HIDE DEF d
<1>4. Len(d) = Len(c) + 1 /\ d[1] = e /\ 1 \in 1..Len(d)
  BY <1>1, <1>2, <1>3
<1>5. ASSUME NEW i \in 2..Len(c) + 1 PROVE d[i] = c[i - 1] /\ i - 1 \in 1..Len(c)
  BY <1>1, <1>2, <1>3
<1>6. ASSUME NEW i \in 1..Len(c) PROVE d[i + 1] = c[i] /\ i + 1 \in 2..Len(c) + 1
  BY <1>1, <1>2, <1>3
<1>7. \A i \in 1..Len(c) : c[i].addr # e.addr
  BY DEF EntryFor
<1>8. ChainOK(d, h)
  <2>1. ASSUME NEW i \in 1..Len(d) PROVE i = 1 \/ (i \in 2..Len(c) + 1 /\ i - 1 \in 1..Len(c))
    BY <1>1, <1>4
  <2>2. \A i \in 1..Len(d) : HashAddr(d[i].addr) = h
    BY <1>4, <1>5, <2>1 DEF ChainOK
  <2>3. ASSUME NEW i \in 1..Len(d), NEW j \in 1..Len(d), i # j PROVE d[i].addr # d[j].addr
    <3>1. CASE i = 1 \/ j = 1
      BY <1>4, <1>5, <1>7, <2>1, <2>3, <3>1
    <3>2. CASE i # 1 /\ j # 1
      <4>1. i - 1 # j - 1
        BY <1>1, <1>4, <2>3
      <4> QED BY <1>5, <2>1, <3>2, <4>1 DEF ChainOK
    <3> QED BY <3>1, <3>2
  <2> QED BY <1>3, <2>2, <2>3 DEF ChainOK
<1>9. {d[i] : i \in 1..Len(d)} = {e} \cup {c[i] : i \in 1..Len(c)}
  <2>1. ASSUME NEW i \in 1..Len(d) PROVE d[i] \in {e} \cup {c[j] : j \in 1..Len(c)}
    <3>1. i = 1 \/ i \in 2..Len(c) + 1
      BY <1>1, <1>4
    <3> QED BY <1>4, <1>5, <3>1
  <2>2. ASSUME NEW i \in 1..Len(c) PROVE c[i] \in {d[j] : j \in 1..Len(d)}
    <3>1. i + 1 \in 1..Len(d) /\ d[i + 1] = c[i]
      BY <1>1, <1>4, <1>6
    <3> QED BY <3>1
  <2>3. e \in {d[j] : j \in 1..Len(d)}
    BY <1>4
  <2> QED BY <2>1, <2>2, <2>3
<1>10. \A b : EntryFor(d, b) = IF b = e.addr THEN {e} ELSE EntryFor(c, b)
  BY <1>9 DEF EntryFor
<1> QED BY <1>4, <1>8, <1>10 DEF d, one

-----------------------------------------------------------------------------
(* The invariant.                                                          *)

TableOK ==
    /\ store_htable \in [Buckets -> Seq(Entry)]
    /\ \A h \in Buckets : ChainOK(store_htable[h], h)

\* On the right path the table and the bitmap are empty; and there are never more entries, in
\* the table and free, than addresses.
SpecInv ==
    /\ spec_mode \in BOOLEAN /\ bugcompat_mode \in BOOLEAN
    /\ regs \in [Registers -> Values] /\ spec_regs \in [Registers -> Values]
    /\ mem \in [Words -> Values] /\ use_spec \subseteq {Bit(r) : r \in Registers}
    /\ TableOK
    /\ ~spec_mode => use_spec = {} /\ store_htable = NoEntries
    /\ bucket_free_list \in Nat
    /\ bucket_free_list + Cardinality(InUse) <= Cardinality(Addrs)

\* The handlers' search in the terms of the lemmas above.
LEMMA Searches ==
    ASSUME NEW a \in Accesses, SpecInv
    PROVE  /\ ChainOK(Chain(a.addr), HashAddr(a.addr))
           /\ Entries(a.addr) = At(Chain(a.addr), a.addr)
           /\ Reordered(a.addr) = Moved(Chain(a.addr), a.addr)
<1>1. ChainOK(Chain(a.addr), HashAddr(a.addr))
  BY AccessFields DEF SpecInv, TableOK, Chain
<1>2. DOMAIN Chain(a.addr) = 1..Len(Chain(a.addr))
  BY <1>1, LenProperties DEF ChainOK
<1>3. Entries(a.addr) = At(Chain(a.addr), a.addr)
  BY <1>2 DEF Entries, At
<1>4. Reordered(a.addr) = Moved(Chain(a.addr), a.addr)
  BY <1>3 DEF Reordered, Moved, First
<1> QED BY <1>1, <1>3, <1>4

\* One entry is in use for every address that has one.
LEMMA InUseCounts ==
    ASSUME NEW tab, \A h \in Buckets : ChainOK(tab[h], h)
    PROVE  LET used == {p \in Buckets \X (1..Cardinality(Accesses)) : p[2] <= Len(tab[p[1]])}
           IN IsFiniteSet(used) /\ Cardinality(used) <= Cardinality(Addrs) /\ Cardinality(used) \in Nat
<1> DEFINE used == {p \in Buckets \X (1..Cardinality(Accesses)) : p[2] <= Len(tab[p[1]])}
           f == [p \in used |-> tab[p[1]][p[2]].addr]
<1>1. ASSUME NEW p \in used
      PROVE  /\ p[1] \in Buckets /\ p[2] \in 1..Len(tab[p[1]]) /\ p = <<p[1], p[2]>>
             /\ tab[p[1]][p[2]] \in Entry /\ HashAddr(tab[p[1]][p[2]].addr) = p[1]
  <2>1. p[1] \in Buckets /\ p[2] \in Nat /\ p[2] >= 1 /\ p = <<p[1], p[2]>> /\ p[2] <= Len(tab[p[1]])
    BY AddrsFinite
  <2>2. ChainOK(tab[p[1]], p[1]) /\ Len(tab[p[1]]) \in Nat
    BY <2>1, ChainShort
  <2>3. p[2] \in 1..Len(tab[p[1]])
    BY <2>1, <2>2
  <2> QED BY <2>1, <2>2, <2>3, ElementOfSeq DEF ChainOK
<1>2. f \in [used -> Addrs]
  BY <1>1 DEF Entry
<1>3. ASSUME NEW p \in used, NEW q \in used, f[p] = f[q] PROVE p = q
  <2>1. p[1] = q[1]
    BY <1>1, <1>3
  <2>2. p[2] = q[2]
    <3>1. tab[p[1]][p[2]].addr = tab[p[1]][q[2]].addr /\ p[2] \in 1..Len(tab[p[1]]) /\ q[2] \in 1..Len(tab[p[1]])
      BY <1>1, <1>3, <2>1
    <3> QED BY <1>1, <3>1 DEF ChainOK
  <2> QED BY <1>1, <2>1, <2>2
<1>4. f \in Injection(used, Addrs)
  BY <1>2, <1>3, Fun_IsInj
<1>5. IsFiniteSet(used) /\ Cardinality(used) <= Cardinality(Addrs)
  BY <1>4, AddrsFinite, FS_Injection
<1> QED BY <1>5, FS_CardinalityType

\* Chains that keep their lengths keep what is in use.
LEMMA InUseSame ==
    ASSUME NEW tab, NEW new, \A h \in Buckets : Len(new[h]) = Len(tab[h])
    PROVE  {p \in Buckets \X (1..Cardinality(Accesses)) : p[2] <= Len(new[p[1]])}
           = {p \in Buckets \X (1..Cardinality(Accesses)) : p[2] <= Len(tab[p[1]])}
OBVIOUS

\* A chain that grows by one has one more in use.
LEMMA InUseGrows ==
    ASSUME NEW tab, NEW g \in Buckets, NEW c, NEW new,
           \A h \in Buckets : ChainOK(tab[h], h),
           ChainOK(c, g), Len(c) = Len(tab[g]) + 1,
           \A h \in Buckets : new[h] = IF h = g THEN c ELSE tab[h]
    PROVE  Cardinality({p \in Buckets \X (1..Cardinality(Accesses)) : p[2] <= Len(new[p[1]])})
           = Cardinality({p \in Buckets \X (1..Cardinality(Accesses)) : p[2] <= Len(tab[p[1]])}) + 1
<1> DEFINE all == Buckets \X (1..Cardinality(Accesses))
           used == {p \in all : p[2] <= Len(tab[p[1]])}
           then == {p \in all : p[2] <= Len(new[p[1]])}
           x == <<g, Len(tab[g]) + 1>>
<1>1. Len(tab[g]) \in Nat /\ Len(c) <= Cardinality(Accesses) /\ Cardinality(Accesses) \in Nat
  BY ChainShort, AddrsFinite
<1>2. x \in all /\ x[1] = g /\ x[2] = Len(tab[g]) + 1
  BY <1>1
<1>3. x \notin used /\ IsFiniteSet(used)
  BY <1>1, <1>2, InUseCounts
<1> HIDE DEF x
<1>4. ASSUME NEW p \in all PROVE p \in then <=> p \in used \/ p = x
  <2>1. p[1] \in Buckets /\ p[2] \in Nat /\ p = <<p[1], p[2]>>
    BY <1>1
  <2>2. CASE p[1] # g
    BY <1>2, <2>1, <2>2
  <2>3. CASE p[1] = g
    <3>1. p \in then <=> p[2] <= Len(tab[g]) + 1
      BY <2>1, <2>3
    <3>2. p \in used <=> p[2] <= Len(tab[g])
      BY <2>3
    <3>3. p = x <=> p[2] = Len(tab[g]) + 1
      BY <2>1, <2>3 DEF x
    <3> QED BY <1>1, <2>1, <3>1, <3>2, <3>3
  <2> QED BY <2>2, <2>3
<1>5. then = used \cup {x}
  BY <1>2, <1>4
<1> HIDE DEF used, then
<1>6. Cardinality(used \cup {x}) = Cardinality(used) + 1
  BY <1>3, FS_AddElement
<1>7. Cardinality(then) = Cardinality(used) + 1
  BY <1>5, <1>6
<1> QED BY <1>7 DEF used, then, all

\* The words a store writes to an entry.
LEMMA StoredIs ==
    ASSUME NEW e \in Entry, NEW a \in Accesses, NEW v \in [Covered(a) -> Values]
    PROVE  /\ Stored(e, a, v) \in Entry /\ Stored(e, a, v).addr = e.addr
           /\ \A w \in Covered(a) : Stored(e, a, v).data[w - a.addr + 1] = v[w]
<1> DEFINE d == [k \in 1..2 |-> IF k <= a.words THEN v[a.addr + k - 1] ELSE e.data[k]]
<1>1. a.addr \in Nat /\ a.words \in {1, 2} /\ Covered(a) = a.addr..a.addr + a.words - 1
  BY AccessFields DEF Covered
<1>2. e.addr \in Addrs /\ e.data \in Values \X Values /\ e = [addr |-> e.addr, data |-> e.data]
  BY DEF Entry
<1>3. e.data[1] \in Values /\ e.data[2] \in Values
  BY <1>2
<1>4. \A k \in {1, 2} : k <= a.words => a.addr + k - 1 \in Covered(a)
  BY <1>1
<1>5. \A k \in {1, 2} : d[k] \in Values
  BY <1>3, <1>4
<1>6. d = <<d[1], d[2]>>
  OBVIOUS
<1>7. d \in Values \X Values
  <2> HIDE DEF d
  <2> QED BY <1>5, <1>6
<1>8. Stored(e, a, v) = [e EXCEPT !.data = d]
  BY DEF Stored
<1>9. ASSUME NEW w \in Covered(a) PROVE d[w - a.addr + 1] = v[w]
  <2>1. w - a.addr + 1 \in 1..2 /\ w - a.addr + 1 <= a.words /\ a.addr + (w - a.addr + 1) - 1 = w
    BY <1>1
  <2> QED BY <2>1
<1> HIDE DEF d
<1>10. [e EXCEPT !.data = d].addr = e.addr /\ [e EXCEPT !.data = d].data = d
       /\ [e EXCEPT !.data = d] \in Entry
  BY <1>2, <1>7 DEF Entry
<1> QED BY <1>8, <1>9, <1>10

\* What a load does to its chain.
LEMMA LoadIs ==
    ASSUME NEW a \in Accesses, SpecInv
    PROVE  LET h == HashAddr(a.addr)
           IN /\ h \in Buckets /\ ChainOK(Reordered(a.addr), h)
              /\ Len(Reordered(a.addr)) = Len(store_htable[h])
              /\ \A b : EntryFor(Reordered(a.addr), b) = EntryFor(store_htable[h], b)
BY AccessFields, Searches, MovedKeeps DEF Chain

\* What a store on a wrong path does: the entry of its address holds its words, every other
\* entry what it held, and a new entry is linked, unless bug-compatible, if there was none.
LEMMA SpecStoreIs ==
    ASSUME NEW a \in Accesses, NEW v \in [Covered(a) -> Values], SpecInv, SpecStore(a, v)
    PROVE  LET h == HashAddr(a.addr)
               old == store_htable[h]
           IN \/ /\ store_htable' = store_htable /\ bugcompat_mode
                 /\ bucket_free_list' = IF bucket_free_list = 0 THEN 0 ELSE bucket_free_list - 1
                 /\ EntryFor(old, a.addr) = {}
              \/ \E c, e : /\ store_htable' = [store_htable EXCEPT ![h] = c]
                           /\ ChainOK(c, h) /\ e \in Entry
                           /\ \A w \in Covered(a) : e.data[w - a.addr + 1] = v[w]
                           /\ \A b : EntryFor(c, b) = IF b = a.addr THEN {e} ELSE EntryFor(old, b)
                           /\ \/ Len(c) = Len(old) /\ bucket_free_list' = bucket_free_list
                              \/ /\ Len(c) = Len(old) + 1
                                 /\ bucket_free_list' = IF bucket_free_list = 0 THEN 0 ELSE bucket_free_list - 1
<1> DEFINE h == HashAddr(a.addr)
           old == store_htable[h]
           chain == Reordered(a.addr)
<1>1. /\ h \in Buckets /\ ChainOK(chain, h) /\ Len(chain) = Len(old)
      /\ \A b : EntryFor(chain, b) = EntryFor(old, b)
  BY LoadIs
<1>2. Chain(a.addr) = old /\ Entries(a.addr) = At(old, a.addr) /\ chain = Moved(old, a.addr) /\ ChainOK(old, h)
  BY Searches DEF Chain
<1>3. a.addr \in Addrs
  BY AccessFields
<1>4. CASE Entries(a.addr) # {}
  <2> DEFINE e == Stored(Head(chain), a, v)
             c == <<e>> \o Tail(chain)
  <2>1. Len(chain) > 0 /\ chain[1].addr = a.addr
    BY <1>2, <1>4, MovedKeeps
  <2>2. Head(chain) = chain[1] /\ chain[1] \in Entry
    <3>1. chain \in Seq(Entry) /\ Len(chain) \in Nat
      BY <1>1, ChainShort DEF ChainOK
    <3>2. 1 \in 1..Len(chain)
      BY <2>1, <3>1
    <3> QED BY <3>1, <3>2, ElementOfSeq
  <2>3. e \in Entry /\ e.addr = a.addr /\ \A w \in Covered(a) : e.data[w - a.addr + 1] = v[w]
    BY <2>1, <2>2, StoredIs
  <2>4. store_htable' = [store_htable EXCEPT ![h] = c] /\ bucket_free_list' = bucket_free_list
    BY <1>4 DEF SpecStore
  <2> HIDE DEF e, h, chain
  <2>5. /\ ChainOK(c, h) /\ Len(c) = Len(chain)
        /\ \A b : EntryFor(c, b) = IF b = a.addr THEN {e} ELSE EntryFor(chain, b)
    <3>1. /\ ChainOK(<<e>> \o Tail(chain), h) /\ Len(<<e>> \o Tail(chain)) = Len(chain)
          /\ \A b : EntryFor(<<e>> \o Tail(chain), b) = IF b = e.addr THEN {e} ELSE EntryFor(chain, b)
      <4>1. ChainOK(chain, h) /\ Len(chain) > 0 /\ e \in Entry /\ e.addr = chain[1].addr
        BY <1>1, <2>1, <2>3 DEF h
      <4> QED BY <4>1, HeadWritten
    <3> QED BY <2>3, <3>1
  <2> HIDE DEF c, old
  <2>6. \A b : EntryFor(c, b) = IF b = a.addr THEN {e} ELSE EntryFor(old, b)
    BY <1>1, <2>5
  <2> QED BY <1>1, <2>3, <2>4, <2>5, <2>6 DEF h, old
<1>5. CASE Entries(a.addr) = {}
  <2>1. chain = old /\ EntryFor(old, a.addr) = {}
    BY <1>2, <1>5, NoneFor DEF Moved
  <2>2. CASE bugcompat_mode
    BY <1>5, <2>1, <2>2 DEF SpecStore
  <2>3. CASE ~bugcompat_mode
    <3> DEFINE new == [addr |-> a.addr, data |-> <<0, 0>>]
               e == Stored(new, a, v)
               c == <<e>> \o chain
    <3>1. new \in Entry /\ new.addr = a.addr
      BY <1>3, ValuesAssumption DEF Entry
    <3>2. e \in Entry /\ e.addr = a.addr /\ \A w \in Covered(a) : e.data[w - a.addr + 1] = v[w]
      BY <3>1, StoredIs
    <3>3. /\ store_htable' = [store_htable EXCEPT ![h] = c]
          /\ bucket_free_list' = IF bucket_free_list = 0 THEN 0 ELSE bucket_free_list - 1
      BY <1>5, <2>3 DEF SpecStore, AtFront
    <3>4. HashAddr(e.addr) = h
      BY <3>2
    <3> HIDE DEF e, h, chain, old
    <3>5. /\ ChainOK(c, h) /\ Len(c) = Len(chain) + 1
          /\ \A b : EntryFor(c, b) = IF b = a.addr THEN {e} ELSE EntryFor(chain, b)
      <4>1. /\ ChainOK(<<e>> \o chain, h) /\ Len(<<e>> \o chain) = Len(chain) + 1
            /\ \A b : EntryFor(<<e>> \o chain, b) = IF b = e.addr THEN {e} ELSE EntryFor(chain, b)
        <5>1. ChainOK(chain, h) /\ e \in Entry /\ HashAddr(e.addr) = h /\ EntryFor(chain, e.addr) = {}
          BY <1>1, <2>1, <3>2, <3>4 DEF h
        <5> QED BY <5>1, Linked
      <4> QED BY <3>2, <4>1
    <3> HIDE DEF c
    <3> QED BY <2>1, <3>2, <3>3, <3>5 DEF h, old
  <2> QED BY <2>2, <2>3 DEF SpecInv
<1> QED BY <1>4, <1>5

\* A handler that replaces chain h of the table.
LEMMA TableIs ==
    ASSUME NEW tab, store_htable' = tab, tab \in [Buckets -> Seq(Entry)],
           \A h \in Buckets : ChainOK(tab[h], h)
    PROVE  TableOK'
<1>1. TableOK' <=> /\ store_htable' \in [Buckets -> Seq(Entry)]
                  /\ \A h \in Buckets : ChainOK(store_htable'[h], h)
  BY DEF TableOK, ChainOK, HashAddr, Buckets, Entry, Addrs
<1> QED BY <1>1

LEMMA TableStep ==
    ASSUME SpecInv, NEW h \in Buckets, NEW c, ChainOK(c, h), store_htable' = [store_htable EXCEPT ![h] = c]
    PROVE  TableOK' /\ \A g \in Buckets : store_htable'[g] = IF g = h THEN c ELSE store_htable[g]
<1>1. store_htable \in [Buckets -> Seq(Entry)] /\ c \in Seq(Entry)
      /\ \A g \in Buckets : ChainOK(store_htable[g], g)
  BY DEF SpecInv, TableOK, ChainOK
<1>2. store_htable' \in [Buckets -> Seq(Entry)]
      /\ \A g \in Buckets : store_htable'[g] = IF g = h THEN c ELSE store_htable[g]
  BY <1>1
<1>3. ASSUME NEW g \in Buckets PROVE ChainOK(store_htable'[g], g)
  BY <1>1, <1>2
<1>4. Addrs' = Addrs /\ Buckets' = Buckets /\ Entry' = Entry
  BY DEF Addrs, Buckets, Entry
<1> QED BY <1>2, <1>3, <1>4 DEF TableOK, ChainOK, HashAddr

\* Table and free list after a handler that changes chain h, if it changes the table at all.
LEMMA CountsStep ==
    ASSUME SpecInv,
           \/ store_htable' = store_htable /\ bugcompat_mode
           \/ \E h \in Buckets : \E c : /\ store_htable' = [store_htable EXCEPT ![h] = c]
                                       /\ ChainOK(c, h) /\ Len(c) = Len(store_htable[h]) + 1,
           bucket_free_list' = IF bucket_free_list = 0 THEN 0 ELSE bucket_free_list - 1
    PROVE  /\ TableOK' /\ bucket_free_list' \in Nat
           /\ bucket_free_list' + Cardinality(InUse') <= Cardinality(Addrs)
           /\ \/ bugcompat_mode
              \/ bucket_free_list' + Cardinality(InUse') >= bucket_free_list + Cardinality(InUse)
<1> DEFINE n == Cardinality(InUse)
           n1 == Cardinality(InUse')
           m == Cardinality(Addrs)
           f == bucket_free_list
           f1 == bucket_free_list'
<1>1. f \in Nat /\ f1 \in Nat /\ f + n <= m /\ m \in Nat /\ f1 = IF f = 0 THEN 0 ELSE f - 1
  BY AddrsFinite DEF SpecInv
<1>2. n \in Nat /\ \A h \in Buckets : ChainOK(store_htable[h], h)
  BY InUseCounts DEF SpecInv, TableOK, InUse
<1>3. CASE store_htable' = store_htable /\ bugcompat_mode
  <2>1. n1 = n
    BY <1>3 DEF InUse
  <2>2. TableOK'
    <3>1. store_htable' = store_htable /\ TableOK
      BY <1>3 DEF SpecInv
    <3> QED BY <3>1 DEF TableOK
  <2> HIDE DEF n, n1, m, f, f1
  <2>3. f1 + n1 <= m
    BY <1>1, <1>2, <2>1
  <2> QED BY <1>1, <1>3, <2>2, <2>3 DEF n1, m, f1
<1>4. ASSUME NEW h \in Buckets, NEW c, store_htable' = [store_htable EXCEPT ![h] = c], ChainOK(c, h),
             Len(c) = Len(store_htable[h]) + 1
      PROVE  TableOK' /\ f1 + n1 <= m /\ f1 + n1 >= f + n
  <2>1. TableOK' /\ \A g \in Buckets : store_htable'[g] = IF g = h THEN c ELSE store_htable[g]
    BY <1>4, TableStep
  <2>2. \A g \in Buckets : ChainOK(store_htable'[g], g)
    BY <1>2, <1>4, <2>1
  <2>3. n1 <= m /\ n1 \in Nat
    BY <2>2, InUseCounts DEF InUse
  <2>4. n1 = n + 1
    <3> DEFINE tab == store_htable
               new == store_htable'
    <3>1. /\ \A g \in Buckets : ChainOK(tab[g], g)
          /\ \A g \in Buckets : new[g] = IF g = h THEN c ELSE tab[g]
          /\ Len(c) = Len(tab[h]) + 1
      BY <1>2, <1>4, <2>1
    <3>2. /\ n = Cardinality({p \in Buckets \X (1..Cardinality(Accesses)) : p[2] <= Len(tab[p[1]])})
          /\ n1 = Cardinality({p \in Buckets \X (1..Cardinality(Accesses)) : p[2] <= Len(new[p[1]])})
      BY DEF InUse, Buckets
    <3> HIDE DEF tab, new, n, n1
    <3> QED BY <1>4, <3>1, <3>2, InUseGrows
  <2> HIDE DEF n, n1, m, f, f1
  <2>5. f1 + n1 <= m /\ f1 + n1 >= f + n
    BY <1>1, <1>2, <2>3, <2>4
  <2> QED BY <2>1, <2>5
<1> QED BY <1>1, <1>3, <1>4

LEMMA SameCounts ==
    ASSUME SpecInv, NEW h \in Buckets, NEW c, store_htable' = [store_htable EXCEPT ![h] = c],
           ChainOK(c, h), Len(c) = Len(store_htable[h])
    PROVE  TableOK' /\ InUse' = InUse
<1>1. TableOK' /\ \A g \in Buckets : store_htable'[g] = IF g = h THEN c ELSE store_htable[g]
  BY TableStep
<1>2. \A g \in Buckets : Len(store_htable'[g]) = Len(store_htable[g])
  BY <1>1
<1> QED BY <1>1, <1>2, InUseSame DEF InUse

\* The chains an empty table has.
LEMMA EmptyTable ==
    /\ NoEntries \in [Buckets -> Seq(Entry)] /\ \A h \in Buckets : ChainOK(NoEntries[h], h)
    /\ \A h \in Buckets : \A b : EntryFor(NoEntries[h], b) = {}
    /\ {p \in Buckets \X (1..Cardinality(Accesses)) : p[2] <= Len(NoEntries[p[1]])} = {}
<1>1. << >> \in Seq(Entry) /\ Len(<< >>) = 0
  BY EmptySeq
<1>2. \A h \in Buckets : NoEntries[h] = << >>
  BY DEF NoEntries
<1>3. NoEntries \in [Buckets -> Seq(Entry)]
  BY <1>1 DEF NoEntries
<1>4. \A h : ChainOK(<< >>, h) /\ \A b : EntryFor(<< >>, b) = {}
  BY <1>1 DEF ChainOK, EntryFor
<1>5. ASSUME NEW p \in Buckets \X (1..Cardinality(Accesses)) PROVE ~(p[2] <= Len(NoEntries[p[1]]))
  BY <1>1, <1>2, AddrsFinite
<1> QED BY <1>2, <1>3, <1>4, <1>5

\* A dispatched instruction, or a recovery, keeps the invariant and loses no entry.
LEMMA StepKeeps ==
    ASSUME SpecInv, [Next]_vars
    PROVE  SpecInv' /\ (bugcompat_mode \/ (bucket_free_list + Cardinality(InUse))'
                                          >= bucket_free_list + Cardinality(InUse))
<1> DEFINE n == Cardinality(InUse)
           m == Cardinality(Addrs)
<1>1. /\ n \in Nat /\ m \in Nat /\ bucket_free_list \in Nat /\ bucket_free_list + n <= m
      /\ \A h \in Buckets : ChainOK(store_htable[h], h)
  BY InUseCounts, AddrsFinite DEF SpecInv, TableOK, InUse
<1>2. CASE UNCHANGED <<memVars>>
           /\ regs' \in [Registers -> Values] /\ spec_regs' \in [Registers -> Values]
           /\ use_spec' \subseteq {Bit(r) : r \in Registers}
           /\ spec_mode' \in BOOLEAN /\ UNCHANGED bugcompat_mode
           /\ (~spec_mode' => ~spec_mode /\ use_spec' = {})
  <2>1. InUse' = InUse /\ Addrs' = Addrs
    BY <1>2 DEF memVars, InUse, Buckets, Addrs
  <2>2. TableOK'
    BY <1>2, TableIs DEF memVars, SpecInv, TableOK
  <2>3. n' = n /\ bucket_free_list' = bucket_free_list
    BY <1>2, <2>1 DEF memVars
  <2>4. bucket_free_list' + n' <= m /\ bucket_free_list' + n' >= bucket_free_list + n
    <3> HIDE DEF n, m
    <3> QED BY <1>1, <2>3
  <2>5. SpecInv'
    BY <1>1, <1>2, <2>1, <2>2, <2>4 DEF SpecInv, memVars, NoEntries, Buckets
  <2> QED BY <2>4, <2>5
<1>3. ASSUME NEW o \in Operands, NEW v \in [o -> Values], SetRegs(o, v) PROVE SpecInv'
      /\ (bugcompat_mode \/ (bucket_free_list + n)' >= bucket_free_list + n)
  <2>1. o \subseteq Registers
    BY DEF Registers
  <2>2. /\ regs' \in [Registers -> Values] /\ spec_regs' \in [Registers -> Values]
        /\ use_spec' \subseteq {Bit(r) : r \in Registers}
    BY <1>3, <2>1 DEF SetRegs, SpecInv, Marked
  <2>3. UNCHANGED <<spec_mode, memVars, bugcompat_mode>> /\ (~spec_mode => use_spec' = {})
    BY <1>3 DEF SetRegs, SpecInv
  <2> QED BY <1>2, <2>2, <2>3 DEF SpecInv
<1>4. ASSUME NEW a \in Accesses, Load(a) PROVE SpecInv'
      /\ (bugcompat_mode \/ (bucket_free_list + n)' >= bucket_free_list + n)
  <2> DEFINE h == HashAddr(a.addr)
             c == Reordered(a.addr)
  <2>1. h \in Buckets /\ ChainOK(c, h) /\ Len(c) = Len(store_htable[h])
    BY LoadIs
  <2>2. store_htable' = [store_htable EXCEPT ![h] = c]
        /\ UNCHANGED <<spec_mode, regVars, mem, bucket_free_list, bugcompat_mode>> /\ spec_mode
    BY <1>4 DEF Load
  <2> HIDE DEF h, c
  <2>3. TableOK' /\ InUse' = InUse
    BY <2>1, <2>2, SameCounts
  <2>4. n' = n /\ Cardinality(Addrs)' = m
    BY <2>3 DEF Addrs
  <2>5. SpecInv'
    <3> HIDE DEF n, m
    <3> QED BY <1>1, <2>2, <2>3, <2>4 DEF SpecInv, regVars, n, m
  <2>6. bucket_free_list' + n' >= bucket_free_list + n
    <3> HIDE DEF n
    <3> QED BY <1>1, <2>2, <2>4
  <2> QED BY <2>5, <2>6
<1>5. ASSUME NEW a \in Accesses, NEW v \in [Covered(a) -> Values], Store(a, v) PROVE SpecInv'
      /\ (bugcompat_mode \/ (bucket_free_list + n)' >= bucket_free_list + n)
  <2>1. UNCHANGED <<spec_mode, regVars, bugcompat_mode>>
    BY <1>5 DEF Store
  <2>2. CASE spec_mode
    <3>1. SpecStore(a, v) /\ mem' = mem
      BY <1>5, <2>2 DEF Store
    <3> DEFINE h == HashAddr(a.addr)
               f1 == IF bucket_free_list = 0 THEN 0 ELSE bucket_free_list - 1
    <3>2. h \in Buckets
      BY AccessFields
    <3>3. \/ bucket_free_list' = f1 /\ store_htable' = store_htable /\ bugcompat_mode
          \/ \E c : store_htable' = [store_htable EXCEPT ![h] = c] /\ ChainOK(c, h)
                    /\ \/ Len(c) = Len(store_htable[h]) /\ bucket_free_list' = bucket_free_list
                       \/ Len(c) = Len(store_htable[h]) + 1 /\ bucket_free_list' = f1
      BY <3>1, SpecStoreIs
    <3> HIDE DEF h
    <3>4. /\ TableOK' /\ bucket_free_list' \in Nat /\ bucket_free_list' + Cardinality(InUse') <= m
          /\ bugcompat_mode \/ bucket_free_list' + Cardinality(InUse') >= bucket_free_list + n
      <4>1. CASE \E c : store_htable' = [store_htable EXCEPT ![h] = c] /\ ChainOK(c, h)
                        /\ Len(c) = Len(store_htable[h]) /\ bucket_free_list' = bucket_free_list
        <5>1. TableOK' /\ InUse' = InUse /\ bucket_free_list' = bucket_free_list
          BY <3>2, <4>1, SameCounts
        <5>2. Cardinality(InUse') = n
          BY <5>1
        <5> HIDE DEF n, m
        <5> QED BY <1>1, <5>1, <5>2
      <4>2. CASE /\ bucket_free_list' = f1
                 /\ \/ store_htable' = store_htable /\ bugcompat_mode
                    \/ \E c : store_htable' = [store_htable EXCEPT ![h] = c] /\ ChainOK(c, h)
                              /\ Len(c) = Len(store_htable[h]) + 1
        BY <3>2, <4>2, CountsStep
      <4> QED BY <3>3, <4>1, <4>2
    <3>5. Cardinality(Addrs)' = m /\ n' = Cardinality(InUse')
      BY DEF Addrs
    <3>6. SpecInv'
      <4> HIDE DEF n, m
      <4> QED BY <2>1, <2>2, <3>1, <3>4, <3>5 DEF SpecInv, regVars, n, m
    <3> QED BY <3>4, <3>5, <3>6
  <2>3. CASE ~spec_mode
    <3>1. mem' \in [Words -> Values] /\ UNCHANGED <<store_htable, bucket_free_list>>
      <4>1. mem' = [w \in Words |-> IF w \in Covered(a) THEN v[w] ELSE mem[w]]
            /\ UNCHANGED <<store_htable, bucket_free_list>>
        BY <1>5, <2>3 DEF Store
      <4> QED BY <4>1 DEF SpecInv
    <3>2. InUse' = InUse /\ Addrs' = Addrs /\ TableOK'
      <4>1. InUse' = InUse /\ Addrs' = Addrs
        BY <3>1 DEF InUse, Buckets, Addrs
      <4> QED BY <3>1, <4>1, TableIs DEF SpecInv, TableOK
    <3>3. n' = n /\ m' = m
      BY <3>2
    <3>4. SpecInv'
      <4> HIDE DEF n, m
      <4> QED BY <1>1, <2>1, <2>3, <3>1, <3>2, <3>3 DEF SpecInv, regVars, NoEntries, Buckets, n, m
    <3>5. bucket_free_list' + n' >= bucket_free_list + n
      <4> HIDE DEF n
      <4> QED BY <1>1, <3>1, <3>3
    <3> QED BY <3>4, <3>5
  <2> QED BY <2>2, <2>3 DEF SpecInv
<1>6. CASE Mispredict
  <2>1. /\ UNCHANGED <<regVars, memVars, bugcompat_mode>> /\ spec_mode' = TRUE
    BY <1>6 DEF Mispredict
  <2>2. regs' \in [Registers -> Values] /\ spec_regs' \in [Registers -> Values]
        /\ use_spec' \subseteq {Bit(r) : r \in Registers}
    BY <2>1 DEF SpecInv, regVars
  <2> QED BY <1>2, <2>1, <2>2
<1>7. CASE tracer_recover
  <2>1. /\ spec_mode' = FALSE /\ use_spec' = {} /\ store_htable' = NoEntries
        /\ bucket_free_list' = bucket_free_list + n
        /\ UNCHANGED <<regs, spec_regs, mem, bugcompat_mode>>
    BY <1>7 DEF tracer_recover, BitsCleared, EntriesCleared, Released
  <2>2. TableOK'
    BY <2>1, EmptyTable, TableIs
  <2>3. InUse' = {}
    BY <2>1, EmptyTable DEF InUse, Buckets
  <2>4. n' = 0 /\ m' = m
    BY <2>3, FS_EmptySet DEF Addrs
  <2>5. SpecInv'
    <3>1. bucket_free_list' \in Nat /\ bucket_free_list' + n' <= m'
      <4> HIDE DEF n, m
      <4> QED BY <1>1, <2>1, <2>4
    <3>2. NoEntries' = NoEntries
      BY DEF NoEntries, Buckets
    <3> QED BY <2>1, <2>2, <3>1, <3>2 DEF SpecInv
  <2>6. bucket_free_list' + n' >= bucket_free_list + n
    <3> HIDE DEF n
    <3> QED BY <1>1, <2>1, <2>4
  <2> QED BY <2>5, <2>6
<1>8. CASE UNCHANGED vars
  BY <1>2, <1>8 DEF vars, regVars, memVars, SpecInv
<1> QED BY <1>3, <1>4, <1>5, <1>6, <1>7, <1>8 DEF Next

LEMMA InitKeeps == Init => SpecInv
<1> SUFFICES ASSUME Init PROVE SpecInv
  OBVIOUS
<1>1. /\ spec_mode = FALSE /\ bugcompat_mode \in BOOLEAN /\ use_spec = {}
      /\ regs \in [Registers -> Values] /\ spec_regs \in [Registers -> Values]
      /\ mem \in [Words -> Values] /\ store_htable = NoEntries /\ bucket_free_list = 0
  BY ValuesAssumption DEF Init
<1>2. InUse = {} /\ TableOK
  BY <1>1, EmptyTable DEF InUse, TableOK
<1>3. Cardinality(InUse) = 0
  BY <1>2, FS_EmptySet
<1>4. bucket_free_list \in Nat /\ bucket_free_list + Cardinality(InUse) <= Cardinality(Addrs)
  BY <1>1, <1>3, AddrsFinite, FS_CardinalityType
<1> QED BY <1>1, <1>2, <1>4 DEF SpecInv

THEOREM SpecInvariant == Spec => []SpecInv
BY InitKeeps, StepKeeps, PTL DEF Spec

\* The state keeps its types, and no address has two entries or one outside its chain.
THEOREM SpecTyping == Spec => []SpecTypeOK
<1>1. SpecInv => SpecTypeOK
  <2> SUFFICES ASSUME SpecInv PROVE SpecTypeOK
    OBVIOUS
  <2>1. bucket_free_list \in 0..Cardinality(Accesses)
    <3>1. Cardinality(InUse) \in Nat
      BY InUseCounts DEF SpecInv, TableOK, InUse
    <3> QED BY <3>1, AddrsFinite DEF SpecInv
  <2>2. ASSUME NEW h \in Buckets
        PROVE  /\ store_htable[h] \in Seq([addr : {a.addr : a \in Accesses}, data : Values \X Values])
               /\ \A j, k \in DOMAIN store_htable[h] :
                     /\ HashAddr(store_htable[h][j].addr) = h
                     /\ j # k => store_htable[h][j].addr # store_htable[h][k].addr
    <3>1. ChainOK(store_htable[h], h)
      BY DEF SpecInv, TableOK
    <3>2. DOMAIN store_htable[h] = 1..Len(store_htable[h])
      BY <3>1, LenProperties DEF ChainOK
    <3> QED BY <3>1, <3>2 DEF ChainOK, Entry, Addrs
  <2> QED BY <2>1, <2>2 DEF SpecTypeOK, SpecInv
<1> QED BY <1>1, SpecInvariant, PTL

\* The free list and the table together never shrink.
THEOREM SpecConserves == Spec => EntriesConserved
<1>1. SpecInv /\ [Next]_vars =>
        [bugcompat_mode \/ (bucket_free_list + Cardinality(InUse))'
                           >= bucket_free_list + Cardinality(InUse)]_vars
  BY StepKeeps
<1> QED BY <1>1, SpecInvariant, PTL DEF Spec, EntriesConserved

-----------------------------------------------------------------------------
(* What a path sees.                                                       *)

\* Registers that share a bit of the bitmap are always written together.
WholeWrites == \A o \in Operands : \A r \in o, q \in Registers : Bit(q) = Bit(r) => q \in o

\* No word is reached by accesses of two addresses or two sizes.
NoOverlap == \A a, b \in Accesses : a # b => Covered(a) \cap Covered(b) = {}

Held(tab, a) == EntryFor(tab[HashAddr(a.addr)], a.addr)

\* What access a reads of word w, of a table and a memory.
Read(wrong, tab, m, a, w) ==
    IF wrong /\ Held(tab, a) # {} THEN (CHOOSE e \in Held(tab, a) : TRUE).data[w - a.addr + 1] ELSE m[w]

SeenAll == [p \in Registers \cup Words |-> Seen(p)]
SavedAll == [p \in Registers \cup Words |-> IF p \in Registers THEN regs[p] ELSE mem[p]]

LEMMA ReadIs ==
    ASSUME NEW a \in Accesses, NEW c, ChainOK(c, HashAddr(a.addr))
    PROVE  LET es == {k \in DOMAIN c : c[k].addr = a.addr}
           IN /\ es # {} <=> EntryFor(c, a.addr) # {}
              /\ es # {} => c[CHOOSE k \in es : \A m \in es : k <= m] = CHOOSE e \in EntryFor(c, a.addr) : TRUE
<1> DEFINE es == {k \in DOMAIN c : c[k].addr = a.addr}
<1>1. DOMAIN c = 1..Len(c)
  BY LenProperties DEF ChainOK
<1>2. es = At(c, a.addr)
  BY <1>1 DEF At
<1>3. es = {} => EntryFor(c, a.addr) = {}
  BY <1>2, NoneFor
<1>4. ASSUME NEW k \in es
      PROVE  (CHOOSE n \in es : \A m \in es : n <= m) = k /\ EntryFor(c, a.addr) = {c[k]}
  <2>1. k \in 1..Len(c) /\ c[k].addr = a.addr
    BY <1>1
  <2>2. At(c, a.addr) = {k} /\ First(At(c, a.addr)) = k /\ EntryFor(c, a.addr) = {c[k]}
    BY <2>1, FirstIsOnly
  <2>3. First(es) = k
    BY <1>2, <2>2
  <2> HIDE DEF es
  <2> QED BY <2>2, <2>3 DEF First
<1>5. ASSUME NEW k \in es
      PROVE  /\ EntryFor(c, a.addr) # {}
             /\ c[CHOOSE n \in es : \A m \in es : n <= m] = CHOOSE e \in EntryFor(c, a.addr) : TRUE
  <2>1. (CHOOSE n \in es : \A m \in es : n <= m) = k
    BY <1>4
  <2>2. EntryFor(c, a.addr) = {c[k]}
    BY <1>4
  <2>3. \A v : (CHOOSE e \in {v} : TRUE) = v
    OBVIOUS
  <2> HIDE DEF es
  <2> QED BY <2>1, <2>2, <2>3, Zenon
<1>6. /\ es # {} <=> EntryFor(c, a.addr) # {}
      /\ es # {} => c[CHOOSE n \in es : \A m \in es : n <= m] = CHOOSE e \in EntryFor(c, a.addr) : TRUE
  <2> HIDE DEF es
  <2> QED BY <1>3, <1>5
<1> QED BY <1>6

\* The words of an access are its own.
LEMMA OwnWords ==
    ASSUME NoOverlap, NEW a \in Accesses, NEW w \in Covered(a)
    PROVE  /\ w \in Words /\ w \notin Registers
           /\ (CHOOSE b \in Accesses : w \in Covered(b)) = a
           /\ \A b \in Accesses : b # a => b.addr # a.addr /\ w \notin Covered(b)
<1>1. w \in Words /\ w \notin Registers
  BY PlacesAssumption DEF Words
<1>2. \A b \in Accesses : w \in Covered(b) => b = a
  BY DEF NoOverlap
<1>3. ASSUME NEW b \in Accesses, b # a PROVE b.addr # a.addr
  <2>1. b.addr \in Covered(b) /\ a.addr \in Covered(a)
    BY AccessFields DEF Covered
  <2> QED BY <1>3, <2>1 DEF NoOverlap
<1> QED BY <1>1, <1>2, <1>3

\* What a path sees, before and after a step.
LEMMA SeenIs ==
    ASSUME NoOverlap, SpecInv, SpecInv'
    PROVE  /\ \A r \in Registers : Seen(r) = Reg(r) /\ Seen(r)' = Reg(r)'
           /\ \A a \in Accesses : \A w \in Covered(a) :
                 /\ Seen(w) = Read(spec_mode, store_htable, mem, a, w)
                 /\ Seen(w)' = Read(spec_mode', store_htable', mem', a, w)
           /\ \A w \in Words : w \notin Registers /\ \E a \in Accesses : w \in Covered(a)
<1>1. \A r \in Registers : Seen(r) = Reg(r) /\ Seen(r)' = Reg(r)'
  BY DEF Seen, Registers
<1>2. ASSUME NEW a \in Accesses, NEW w \in Covered(a)
      PROVE  /\ Seen(w) = Read(spec_mode, store_htable, mem, a, w)
             /\ Seen(w)' = Read(spec_mode', store_htable', mem', a, w)
  <2>1. w \notin Registers /\ (CHOOSE b \in Accesses : w \in Covered(b)) = a
    BY OwnWords
  <2>2. Seen(w) = Loaded(a)[w] /\ Seen(w)' = Loaded(a)'[w]
    BY <2>1 DEF Seen, Registers
  <2>3. ChainOK(store_htable[HashAddr(a.addr)], HashAddr(a.addr))
        /\ ChainOK(store_htable'[HashAddr(a.addr)], HashAddr(a.addr))
    <3>1. TableOK /\ TableOK' /\ HashAddr(a.addr) \in Buckets
      BY AccessFields DEF SpecInv
    <3> QED BY <3>1 DEF TableOK, Buckets
  <2>4. Loaded(a)[w] = Read(spec_mode, store_htable, mem, a, w)
    <3> DEFINE c == store_htable[HashAddr(a.addr)]
               es == {k \in DOMAIN c : c[k].addr = a.addr}
               e == c[CHOOSE k \in es : \A m \in es : k <= m]
    <3>1. /\ es # {} <=> EntryFor(c, a.addr) # {}
          /\ es # {} => e = CHOOSE x \in EntryFor(c, a.addr) : TRUE
      BY <2>3, ReadIs
    <3>2. Loaded(a)[w] = IF spec_mode /\ es # {} THEN e.data[w - a.addr + 1] ELSE mem[w]
      BY DEF Loaded, Chain, Entries
    <3> HIDE DEF es, e
    <3> QED BY <3>1, <3>2 DEF Read, Held
  <2>5. Loaded(a)'[w] = Read(spec_mode', store_htable', mem', a, w)
    <3> DEFINE c == store_htable'[HashAddr(a.addr)]
               es == {k \in DOMAIN c : c[k].addr = a.addr}
               e == c[CHOOSE k \in es : \A m \in es : k <= m]
    <3>1. /\ es # {} <=> EntryFor(c, a.addr) # {}
          /\ es # {} => e = CHOOSE x \in EntryFor(c, a.addr) : TRUE
      BY <2>3, ReadIs
    <3>2. Loaded(a)'[w] = IF spec_mode' /\ es # {} THEN e.data[w - a.addr + 1] ELSE mem'[w]
      BY DEF Loaded, Chain, Entries, Covered, HashAddr
    <3> HIDE DEF es, e
    <3> QED BY <3>1, <3>2 DEF Read, Held
  <2> QED BY <2>2, <2>4, <2>5
<1>3. \A w \in Words : w \notin Registers /\ \E a \in Accesses : w \in Covered(a)
  BY PlacesAssumption DEF Words
<1> QED BY <1>1, <1>2, <1>3

\* Outside wrong paths, what is seen is the saved state.
LEMMA RightIsSaved ==
    ASSUME NoOverlap, SpecInv, SpecInv'
    PROVE  /\ ~spec_mode => SeenAll = SavedAll
           /\ ~spec_mode' => SeenAll' = SavedAll'
           /\ SavedAll \in [Registers \cup Words -> Values]
<1>1. \A w \in Words : w \notin Registers /\ \E a \in Accesses : w \in Covered(a)
  BY SeenIs
<1>2. ASSUME ~spec_mode PROVE SeenAll = SavedAll
  <2>1. \A r \in Registers : Seen(r) = regs[r]
    BY <1>2, SeenIs DEF Reg, SpecInv
  <2>2. \A w \in Words : Seen(w) = mem[w]
    BY <1>1, <1>2, SeenIs DEF Read
  <2> QED BY <1>1, <2>1, <2>2 DEF SeenAll, SavedAll
<1>3. ASSUME ~spec_mode' PROVE SeenAll' = SavedAll'
  <2>1. \A r \in Registers : Seen(r)' = regs'[r]
    BY <1>3, SeenIs DEF Reg, SpecInv
  <2>2. \A w \in Words : Seen(w)' = mem'[w]
    BY <1>1, <1>3, SeenIs DEF Read
  <2>3. Registers' = Registers /\ Words' = Words
    BY DEF Registers, Words, Covered
  <2> QED BY <1>1, <2>1, <2>2, <2>3 DEF SeenAll, SavedAll
<1>4. SavedAll \in [Registers \cup Words -> Values]
  BY <1>1 DEF SavedAll, SpecInv
<1> QED BY <1>2, <1>3, <1>4

\* Assigning the places of group on the current path.
Assigns(group, v) ==
    /\ \A p \in Registers \cup Words : SeenAll'[p] = IF p \in group THEN v[p] ELSE SeenAll[p]
    /\ spec_mode => SavedAll' = SavedAll
    /\ spec_mode' = spec_mode /\ assigned' = v /\ bugcompat_mode' = bugcompat_mode

\* Steps that Speculation does not see.
NothingSeen ==
    /\ SeenAll' = SeenAll /\ SavedAll' = SavedAll
    /\ UNCHANGED <<spec_mode, assigned, bugcompat_mode>>

LEMMA IsAssignment ==
    ASSUME NEW g \in Operands \cup Stores, NEW v \in [g -> Values]
    PROVE  v \in World!Assignments /\ DOMAIN v = g
BY DEF World!Assignments

LEMMA AssignMaps ==
    ASSUME NoOverlap, SpecInv, SpecInv',
           NEW g \in Operands \cup Stores, NEW v \in [g -> Values], Assigns(g, v)
    PROVE  World!SpecNext
<1>1. SeenAll' = [p \in Registers \cup Words |-> IF p \in g THEN v[p] ELSE SeenAll[p]]
  <2>1. SeenAll' = [p \in Registers \cup Words |-> SeenAll'[p]]
    <3>1. SeenAll' = [p \in Registers \cup Words |-> Seen(p)']
      BY DEF SeenAll, Registers, Words, Covered
    <3> QED BY <3>1
  <2> QED BY <2>1 DEF Assigns
<1>2. ~spec_mode => SavedAll' = SeenAll'
  BY RightIsSaved DEF Assigns
<1>3. DOMAIN v = g
  BY IsAssignment
<1>4. World!Assign(v)
  BY <1>1, <1>2, <1>3 DEF World!Assign, Assigns, SeenAll, SavedAll
<1> QED BY <1>4, IsAssignment DEF World!SpecNext

LEMMA RegsMap ==
    ASSUME WholeWrites, NoOverlap, SpecInv, SpecInv', NEW o \in Operands, NEW v \in [o -> Values],
           SetRegs(o, v)
    PROVE  World!SpecNext
<1>1. o \subseteq Registers
  BY DEF Registers
<1>2. UNCHANGED <<spec_mode, mem, store_htable>>
  BY DEF SetRegs, memVars
<1>3. ASSUME NEW w \in Words PROVE w \notin o /\ Seen(w)' = Seen(w)
  <2>1. w \notin Registers
    BY SeenIs
  <2>2. PICK a \in Accesses : w \in Covered(a)
    BY SeenIs
  <2> QED BY <1>1, <1>2, <2>1, <2>2, SeenIs
<1>4. ASSUME NEW r \in Registers PROVE Seen(r)' = IF r \in o THEN v[r] ELSE Seen(r)
  <2>1. Seen(r) = Reg(r) /\ Seen(r)' = IF Bit(r) \in use_spec' THEN spec_regs'[r] ELSE regs'[r]
    BY SeenIs DEF Reg
  <2>2. CASE spec_mode
    <3>1. /\ spec_regs' = [q \in Registers |-> IF q \in o THEN v[q] ELSE spec_regs[q]]
          /\ use_spec' = use_spec \cup {Bit(q) : q \in o} /\ regs' = regs
      BY <2>2 DEF SetRegs, Marked
    <3>2. CASE r \in o
      BY <2>1, <3>1, <3>2
    <3>3. CASE r \notin o
      <4>1. Bit(r) \notin {Bit(q) : q \in o}
        BY <3>3 DEF WholeWrites
      <4> QED BY <2>1, <3>1, <3>3, <4>1 DEF Reg
    <3> QED BY <3>2, <3>3
  <2>3. CASE ~spec_mode
    <3>1. /\ regs' = [q \in Registers |-> IF q \in o THEN v[q] ELSE regs[q]]
          /\ use_spec' = use_spec /\ use_spec = {}
      BY <2>3 DEF SetRegs, SpecInv
    <3> QED BY <2>1, <3>1 DEF Reg
  <2> QED BY <2>2, <2>3 DEF SpecInv
<1>5. spec_mode => SavedAll' = SavedAll
  BY <1>2 DEF SetRegs, SavedAll, Registers, Words, Covered
<1>6. Assigns(o, v)
  <2>1. ASSUME NEW p \in Registers \cup Words PROVE SeenAll'[p] = IF p \in o THEN v[p] ELSE SeenAll[p]
    <3>1. SeenAll[p] = Seen(p) /\ SeenAll'[p] = Seen(p)'
      BY DEF SeenAll, Registers, Words, Covered
    <3> QED BY <1>3, <1>4, <3>1
  <2>2. assigned' = v /\ bugcompat_mode' = bugcompat_mode
    BY DEF SetRegs
  <2> QED BY <1>2, <1>5, <2>1, <2>2 DEF Assigns
<1> QED BY <1>6, AssignMaps

LEMMA StoreMaps ==
    ASSUME NoOverlap, SpecInv, SpecInv', NEW a \in Accesses, NEW v \in [Covered(a) -> Values], Store(a, v)
    PROVE  World!SpecNext
<1> DEFINE h == HashAddr(a.addr)
<1>1. /\ UNCHANGED <<spec_mode, regs, spec_regs, use_spec, bugcompat_mode>> /\ assigned' = v
      /\ Covered(a) \in Stores
  BY DEF Store, regVars, Stores
<1>2. \A r \in Registers : r \notin Covered(a) /\ Seen(r)' = Seen(r)
  BY <1>1, SeenIs, OwnWords DEF Reg
<1>3. \A p \in Registers \cup Words : SeenAll[p] = Seen(p) /\ SeenAll'[p] = Seen(p)'
  BY DEF SeenAll, Registers, Words, Covered
<1>4. CASE ~spec_mode
  <2>1. mem' = [w \in Words |-> IF w \in Covered(a) THEN v[w] ELSE mem[w]]
    BY <1>4 DEF Store
  <2>2. ASSUME NEW w \in Words PROVE Seen(w)' = IF w \in Covered(a) THEN v[w] ELSE Seen(w)
    <3>1. PICK b \in Accesses : w \in Covered(b)
      BY SeenIs
    <3>2. Seen(w) = mem[w] /\ Seen(w)' = mem'[w]
      BY <1>1, <1>4, <3>1, SeenIs DEF Read
    <3> QED BY <2>1, <3>2
  <2>3. Assigns(Covered(a), v)
    BY <1>1, <1>2, <1>3, <1>4, <2>2 DEF Assigns
  <2> QED BY <1>1, <2>3, AssignMaps
<1>5. CASE spec_mode
  <2>1. SpecStore(a, v) /\ mem' = mem /\ h \in Buckets
    BY <1>5, AccessFields DEF Store
  <2>2. SavedAll' = SavedAll
    BY <1>1, <2>1 DEF SavedAll, Registers, Words, Covered
  <2>3. CASE store_htable' = store_htable /\ bugcompat_mode
    <3>1. \A w \in Words : Seen(w)' = Seen(w)
      <4> SUFFICES ASSUME NEW w \in Words PROVE Seen(w)' = Seen(w)
        OBVIOUS
      <4>1. PICK b \in Accesses : w \in Covered(b)
        BY SeenIs
      <4> QED BY <1>1, <2>1, <2>3, <4>1, SeenIs
    <3>2. \A p \in Registers \cup Words : Seen(p)' = Seen(p)
      BY <1>2, <3>1
    <3>3. SeenAll' = SeenAll
      <4>1. SeenAll' = [p \in Registers \cup Words |-> Seen(p)']
        BY DEF SeenAll, Registers, Words, Covered
      <4> QED BY <3>2, <4>1 DEF SeenAll
    <3>4. v \in World!Assignments /\ DOMAIN v \in Stores
      BY <1>1, IsAssignment
    <3>5. World!Lose(v)
      BY <1>1, <1>5, <2>2, <2>3, <3>3, <3>4 DEF World!Lose, SeenAll, SavedAll
    <3> QED BY <3>4, <3>5 DEF World!SpecNext
  <2>4. ASSUME NEW c, NEW e, store_htable' = [store_htable EXCEPT ![h] = c], ChainOK(c, h),
               \A w \in Covered(a) : e.data[w - a.addr + 1] = v[w],
               \A b : EntryFor(c, b) = IF b = a.addr THEN {e} ELSE EntryFor(store_htable[h], b)
        PROVE  World!SpecNext
    <3> HIDE DEF h
    <3>1. \A g \in Buckets : store_htable'[g] = IF g = h THEN c ELSE store_htable[g]
      <4>1. h \in Buckets /\ ChainOK(c, h) /\ store_htable' = [store_htable EXCEPT ![h] = c]
        BY <2>1, <2>4
      <4> QED BY <4>1, TableStep
    <3>2. ASSUME NEW b \in Accesses
          PROVE  Held(store_htable', b) = IF b = a THEN {e} ELSE Held(store_htable, b)
      <4>1. HashAddr(b.addr) \in Buckets
        BY AccessFields
      <4>2. CASE b = a
        BY <2>4, <3>1, <4>1, <4>2 DEF Held, h
      <4>3. CASE b # a
        <5>1. b.addr # a.addr
          <6>1. a.addr \in Covered(a)
            BY AccessFields DEF Covered
          <6> QED BY <4>3, <6>1, OwnWords
        <5>2. CASE HashAddr(b.addr) = h
          BY <2>4, <3>1, <4>1, <4>3, <5>1, <5>2 DEF Held
        <5>3. CASE HashAddr(b.addr) # h
          BY <3>1, <4>1, <4>3, <5>3 DEF Held
        <5> QED BY <5>2, <5>3
      <4> QED BY <4>2, <4>3
    <3>3. ASSUME NEW w \in Words PROVE Seen(w)' = IF w \in Covered(a) THEN v[w] ELSE Seen(w)
      <4>1. PICK b \in Accesses : w \in Covered(b)
        BY SeenIs
      <4>2. Seen(w) = Read(spec_mode, store_htable, mem, b, w)
            /\ Seen(w)' = Read(spec_mode', store_htable', mem', b, w)
        BY <4>1, SeenIs
      <4>3. CASE b = a
        <5>1. Held(store_htable', a) = {e} /\ (CHOOSE x \in {e} : TRUE) = e
          BY <3>2
        <5>2. Seen(w)' = e.data[w - a.addr + 1]
          BY <1>1, <1>5, <4>2, <4>3, <5>1 DEF Read
        <5> QED BY <2>4, <4>1, <4>3, <5>2
      <4>4. CASE b # a
        <5>1. w \notin Covered(a)
          BY <4>1, <4>4, OwnWords
        <5>2. Held(store_htable', b) = Held(store_htable, b)
          BY <3>2, <4>4
        <5> QED BY <1>1, <2>1, <4>2, <5>1, <5>2 DEF Read
      <4> QED BY <4>3, <4>4
    <3>4. Assigns(Covered(a), v)
      BY <1>1, <1>2, <1>3, <2>2, <3>3 DEF Assigns
    <3> QED BY <1>1, <3>4, AssignMaps
  <2>5. CASE ~(store_htable' = store_htable /\ bugcompat_mode)
    <3>1. \E c, e : /\ store_htable' = [store_htable EXCEPT ![h] = c]
                    /\ ChainOK(c, h)
                    /\ \A w \in Covered(a) : e.data[w - a.addr + 1] = v[w]
                    /\ \A b : EntryFor(c, b) = IF b = a.addr THEN {e} ELSE EntryFor(store_htable[h], b)
      <4>1. \/ store_htable' = store_htable /\ bugcompat_mode
            \/ \E c, e : /\ store_htable' = [store_htable EXCEPT ![HashAddr(a.addr)] = c]
                         /\ ChainOK(c, HashAddr(a.addr)) /\ e \in Entry
                         /\ \A w \in Covered(a) : e.data[w - a.addr + 1] = v[w]
                         /\ \A b : EntryFor(c, b) = IF b = a.addr THEN {e} ELSE EntryFor(store_htable[HashAddr(a.addr)], b)
                         /\ \/ /\ Len(c) = Len(store_htable[HashAddr(a.addr)])
                               /\ bucket_free_list' = bucket_free_list
                            \/ /\ Len(c) = Len(store_htable[HashAddr(a.addr)]) + 1
                               /\ bucket_free_list' = IF bucket_free_list = 0 THEN 0 ELSE bucket_free_list - 1
        <5> HIDE DEF h
        <5>1. SpecStore(a, v)
          BY <2>1
        <5> QED BY <5>1, SpecStoreIs, Zenon
      <4> QED BY <2>5, <4>1, Zenon DEF h
    <3>2. PICK c, e : /\ store_htable' = [store_htable EXCEPT ![h] = c]
                      /\ ChainOK(c, h)
                      /\ \A w \in Covered(a) : e.data[w - a.addr + 1] = v[w]
                      /\ \A b : EntryFor(c, b) = IF b = a.addr THEN {e} ELSE EntryFor(store_htable[h], b)
      BY <3>1
    <3> HIDE DEF h
    <3>3. World!SpecNext
      BY <2>4, <3>2, Zenon
    <3> QED BY <3>3
  <2> QED BY <2>3, <2>5
<1> QED BY <1>4, <1>5 DEF SpecInv

LEMMA LoadMaps ==
    ASSUME NoOverlap, SpecInv, SpecInv', NEW a \in Accesses, Load(a)
    PROVE  NothingSeen
<1> DEFINE h == HashAddr(a.addr)
           c == Reordered(a.addr)
<1>1. /\ UNCHANGED <<spec_mode, regs, spec_regs, use_spec, mem, assigned, bugcompat_mode>>
      /\ store_htable' = [store_htable EXCEPT ![h] = c]
  BY DEF Load, regVars
<1>2. h \in Buckets /\ ChainOK(c, h) /\ \A b : EntryFor(c, b) = EntryFor(store_htable[h], b)
  BY LoadIs
<1> HIDE DEF h, c
<1>3. \A g \in Buckets : store_htable'[g] = IF g = h THEN c ELSE store_htable[g]
  BY <1>1, <1>2, TableStep
<1>4. ASSUME NEW b \in Accesses PROVE Held(store_htable', b) = Held(store_htable, b)
  <2>1. HashAddr(b.addr) \in Buckets
    BY AccessFields
  <2> QED BY <1>2, <1>3, <2>1 DEF Held
<1>5. ASSUME NEW w \in Words PROVE Seen(w)' = Seen(w)
  <2>1. PICK b \in Accesses : w \in Covered(b)
    BY SeenIs
  <2>2. /\ Seen(w) = Read(spec_mode, store_htable, mem, b, w)
        /\ Seen(w)' = Read(spec_mode', store_htable', mem', b, w)
    BY <2>1, SeenIs
  <2>3. Held(store_htable', b) = Held(store_htable, b)
    BY <1>4
  <2> QED BY <1>1, <2>2, <2>3 DEF Read
<1>6. \A r \in Registers : Seen(r)' = Seen(r)
  BY <1>1, SeenIs DEF Reg
<1>7. SeenAll' = SeenAll
  <2>1. SeenAll' = [p \in Registers \cup Words |-> Seen(p)']
    BY DEF SeenAll, Registers, Words, Covered
  <2> QED BY <1>5, <1>6, <2>1 DEF SeenAll
<1>8. SavedAll' = SavedAll
  BY <1>1 DEF SavedAll, Registers, Words, Covered
<1> QED BY <1>1, <1>7, <1>8 DEF NothingSeen

\* Where registers that share a bit are written together and accesses do not overlap, a wrong path
\* starts from the right path's state; what an instruction writes, on either path, is what the
\* places it writes hold until they are written again, and no other place changes; and recovery
\* brings the right path's state back.  The stores of a wrong path are excepted if bug-compatible.
THEOREM SpecImplements == WholeWrites /\ NoOverlap => (Spec => ImplementsSpeculation)
<1> SUFFICES ASSUME WholeWrites, NoOverlap PROVE Spec => ImplementsSpeculation
  OBVIOUS
<1>1. Init => World!SpecInit
  <2> SUFFICES ASSUME Init PROVE World!SpecInit
    OBVIOUS
  <2>1. SpecInv /\ ~spec_mode
    BY InitKeeps DEF Init
  <2>2. \A r \in Registers : Seen(r) = regs[r]
    BY <2>1 DEF Seen, Reg, Registers, SpecInv
  <2>3. \A w \in Words : w \notin Registers /\ Seen(w) = mem[w]
    <3> SUFFICES ASSUME NEW w \in Words PROVE w \notin Registers /\ Seen(w) = mem[w]
      OBVIOUS
    <3>1. PICK a \in Accesses : w \in Covered(a)
      BY DEF Words
    <3>2. w \notin Registers /\ (CHOOSE b \in Accesses : w \in Covered(b)) = a
      BY <3>1, OwnWords
    <3>3. Seen(w) = Loaded(a)[w]
      BY <3>2 DEF Seen, Registers
    <3>4. Loaded(a)[w] = mem[w]
      BY <2>1, <3>1 DEF Loaded
    <3> QED BY <3>2, <3>3, <3>4
  <2>4. SeenAll = SavedAll
    BY <2>2, <2>3 DEF SeenAll, SavedAll
  <2>5. SavedAll \in [Registers \cup Words -> Values]
    BY <2>1, <2>3 DEF SavedAll, SpecInv
  <2>6. assigned = << >> /\ bugcompat_mode \in BOOLEAN
    BY <2>1 DEF Init, SpecInv
  <2> QED BY <2>1, <2>4, <2>5, <2>6 DEF World!SpecInit, World!Nothing, SeenAll, SavedAll
<1>2. SpecInv /\ SpecInv' /\ [Next]_vars => [World!SpecNext]_(World!specVars)
  <2> SUFFICES ASSUME SpecInv, SpecInv', [Next]_vars
               PROVE  World!SpecNext \/ NothingSeen
    BY DEF World!specVars, NothingSeen, SeenAll, SavedAll
  <2>1. ASSUME NEW o \in Operands, NEW v \in [o -> Values], SetRegs(o, v) PROVE World!SpecNext
    BY <2>1, RegsMap
  <2>2. ASSUME NEW a \in Accesses, Load(a)
        PROVE NothingSeen
    BY <2>2, LoadMaps
  <2>3. ASSUME NEW a \in Accesses, NEW v \in [Covered(a) -> Values], Store(a, v)
        PROVE World!SpecNext
    BY <2>3, StoreMaps
  <2>4. CASE Mispredict
    <3>1. /\ ~spec_mode /\ spec_mode' = TRUE /\ use_spec = {} /\ store_htable = NoEntries
          /\ UNCHANGED <<regs, spec_regs, use_spec, mem, store_htable, bugcompat_mode>>
          /\ assigned' = << >>
      BY <2>4 DEF Mispredict, SpecInv, regVars, memVars
    <3>2. ASSUME NEW w \in Words PROVE Seen(w)' = Seen(w)
      <4>1. PICK a \in Accesses : w \in Covered(a)
        BY SeenIs
      <4>2. Held(store_htable', a) = {}
        BY <3>1, AccessFields, EmptyTable DEF Held
      <4>3. Seen(w) = Read(spec_mode, store_htable, mem, a, w)
            /\ Seen(w)' = Read(spec_mode', store_htable', mem', a, w)
        BY <4>1, SeenIs
      <4> QED BY <3>1, <4>2, <4>3 DEF Read
    <3>3. \A r \in Registers : Seen(r)' = Seen(r)
      BY <3>1, SeenIs DEF Reg
    <3>4. SeenAll' = SeenAll /\ SavedAll' = SavedAll
      <4>1. SeenAll' = [p \in Registers \cup Words |-> Seen(p)']
        BY DEF SeenAll, Registers, Words, Covered
      <4>2. SavedAll' = SavedAll
        BY <3>1 DEF SavedAll, Registers, Words, Covered
      <4> QED BY <3>2, <3>3, <4>1, <4>2 DEF SeenAll
    <3>5. World!Leave
      BY <3>1, <3>4 DEF World!Leave, World!Nothing, SeenAll, SavedAll
    <3> QED BY <3>5 DEF World!SpecNext
  <2>5. CASE tracer_recover
    <3>1. /\ spec_mode /\ spec_mode' = FALSE /\ assigned' = << >>
          /\ UNCHANGED <<regs, mem, bugcompat_mode>>
      BY <2>5 DEF tracer_recover
    <3>2. SavedAll' = SavedAll
      BY <3>1 DEF SavedAll, Registers, Words, Covered
    <3>3. SeenAll' = SavedAll
      BY <3>1, <3>2, RightIsSaved
    <3>4. World!Return
      BY <3>1, <3>2, <3>3 DEF World!Return, World!Nothing, SeenAll, SavedAll
    <3> QED BY <3>4 DEF World!SpecNext
  <2>6. CASE UNCHANGED vars
    <3>1. SeenAll' = SeenAll
      <4>1. SeenAll' = [p \in Registers \cup Words |-> Seen(p)']
        BY DEF SeenAll, Registers, Words, Covered
      <4>2. ASSUME NEW p \in Registers \cup Words PROVE Seen(p)' = Seen(p)
        <5>1. CASE p \in Registers
          BY <2>6, <5>1, SeenIs DEF Reg, vars, regVars
        <5>2. CASE p \in Words
          <6>1. PICK a \in Accesses : p \in Covered(a)
            BY <5>2, SeenIs
          <6>2. Seen(p) = Read(spec_mode, store_htable, mem, a, p)
                /\ Seen(p)' = Read(spec_mode', store_htable', mem', a, p)
            BY <6>1, SeenIs
          <6> QED BY <2>6, <6>2 DEF vars, memVars
        <5> QED BY <5>1, <5>2
      <4> QED BY <4>1, <4>2 DEF SeenAll
    <3>2. SavedAll' = SavedAll /\ UNCHANGED <<spec_mode, assigned, bugcompat_mode>>
      BY <2>6 DEF SavedAll, Registers, Words, Covered, vars, regVars, memVars
    <3> QED BY <3>1, <3>2 DEF NothingSeen
  <2> QED BY <2>1, <2>2, <2>3, <2>4, <2>5, <2>6 DEF Next
<1> QED BY <1>1, <1>2, SpecInvariant, PTL DEF Spec, ImplementsSpeculation, World!SpeculationSpec
=============================================================================
