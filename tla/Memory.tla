------------------------------- MODULE Memory -------------------------------
(* The simulated memory of memory.c and memory.h: an inverted page table,   *)
(* PtabSize buckets of page table entries.  A page is allocated when it is  *)
(* first written; an entry that is found behind the head of its bucket is   *)
(* moved to the head.  Values are operators over a memory object            *)
(* m = [ptab, page_count]; the counts of look-ups and misses are left out.  *)
(* The components above (loader, system calls, event traces) hold one each. *)
(* A cell stands for a unit that the program reads and writes whole.        *)
EXTENDS Integers, Sequences, SequencesExt, FiniteSetsExt

CONSTANTS PtabSize,   \* number of buckets
          PageSize    \* number of cells in a page

ASSUME MemoryAssumption == PtabSize \in Nat \ {0} /\ PageSize \in Nat \ {0}

MEM_PTAB_SET(a) == (a \div PageSize) % PtabSize
MEM_PTAB_TAG(a) == a \div (PageSize * PtabSize)
MEM_PTE_ADDR(pte, i) == pte.tag * (PageSize * PtabSize) + i * PageSize
MEM_OFFSET(a) == a % PageSize

Buckets == 0 .. PtabSize - 1
ZeroPage == [o \in 0 .. PageSize - 1 |-> 0]

mem_init == [ptab |-> [i \in Buckets |-> << >>], page_count |-> 0]

(* The places of a page in its bucket: at most one, see WellFormed.         *)
Places(b, tag) == {i \in DOMAIN b : b[i].tag = tag}
Allocated(m, a) == Places(m.ptab[MEM_PTAB_SET(a)], MEM_PTAB_TAG(a)) # {}

(* Fault: the entry is moved without being taken out of its old place.      *)
MovedTwice(b, i) == <<b[i]>> \o b

(* The i-th entry of a bucket moved to its head.                            *)
MovedToHead(b, i) == <<b[i]>> \o RemoveAt(b, i)

(* mem_translate walks the bucket when the page is not at its head.         *)
mem_translate(b, places) == IF places \subseteq {1} THEN b ELSE MovedToHead(b, Min(places))
MEM_PAGE(m, a) ==
  [m EXCEPT !.ptab[MEM_PTAB_SET(a)] = mem_translate(@, Places(@, MEM_PTAB_TAG(a)))]

mem_newpage(m, a) ==
  [m EXCEPT !.ptab[MEM_PTAB_SET(a)] = <<[tag |-> MEM_PTAB_TAG(a), page |-> ZeroPage]>> \o @,
            !.page_count = @ + 1]

(* What a read finds.  A read also looks the page up with MEM_PAGE.         *)
PageRead(b, places, offset) == IF places = {} THEN 0 ELSE b[Min(places)].page[offset]
BucketRead(b, a) == PageRead(b, Places(b, MEM_PTAB_TAG(a)), MEM_OFFSET(a))
MEM_READ(m, a) == BucketRead(m.ptab[MEM_PTAB_SET(a)], a)

(* A write tickles the page first, so that it is at the head of its bucket. *)
MEM_TICKLE(m, a) == IF Allocated(m, a) THEN MEM_PAGE(m, a) ELSE mem_newpage(m, a)
MEM_WRITE(m, a, v) ==
  [MEM_TICKLE(m, a) EXCEPT !.ptab[MEM_PTAB_SET(a)][1].page[MEM_OFFSET(a)] = v]

(* All pages in the order MEM_FORALL visits them, with their addresses.     *)
BucketPages(m, i) ==
  [k \in DOMAIN m.ptab[i] |-> [addr |-> MEM_PTE_ADDR(m.ptab[i][k], i), page |-> m.ptab[i][k].page]]
MEM_FORALL(m) == FlattenSeq([k \in 1 .. PtabSize |-> BucketPages(m, k - 1)])

-----------------------------------------------------------------------------
(* The page table is well formed: a bucket holds a page once, and           *)
(* page_count counts the entries.                                           *)
WellFormed(m) ==
  /\ \A i \in Buckets : \A j, k \in DOMAIN m.ptab[i] :
        m.ptab[i][j].tag = m.ptab[i][k].tag => j = k
  /\ m.page_count = FoldFunction(LAMBDA b, n : Len(b) + n, 0, m.ptab)

(* The flat memory it stands for, over the addresses A.                     *)
Flat(m, A) == [a \in A |-> MEM_READ(m, a)]
=============================================================================
