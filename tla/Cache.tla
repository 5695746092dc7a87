------------------------------- MODULE Cache -------------------------------
(***************************************************************************)
(* The cache module (cache.c), which also serves as TLB.  A cache is a     *)
(* record of its parameters and its state, and an operation maps it to the *)
(* new record and the requests blk_access_fn gets, in their order.         *)
(*                                                                         *)
(* An address is the number of its block.  Block 0 is left out: its number *)
(* is the "no block" of last_tagset, and no segment of a program holds it. *)
(* The simulators allocate no data (balloc is FALSE) and the latencies,    *)
(* the bus and user data do not decide what a cache holds.  Linked lists   *)
(* are sequences.  Statistics are kept in a cache that is counting.        *)
(***************************************************************************)
EXTENDS Integers, Sequences, FiniteSets, SequencesExt

Policies == {"LRU", "FIFO", "Random"}
Cmds == {"Read", "Write"}
CacheStats == {"hits", "misses", "replacements", "writebacks", "invalidations"}

WaysOf(c) == 0..c.assoc - 1
SetsOf(c) == 0..c.nsets - 1

SetOf(c, b) == b % c.nsets                                  \* CACHE_SET
TagOf(c, b) == b \div c.nsets                               \* CACHE_TAG
BlockAt(c, s, w) == c.line[s][w].tag * c.nsets + s          \* CACHE_MK_BADDR
HashOf(c, tag) == tag % c.hsize                             \* CACHE_HASH of a tag below 2^8

Invalid == [tag |-> 0, valid |-> FALSE, dirty |-> FALSE]

\* cache_create: all blocks are invalid with tag 0, and were pushed in turn at the head of
\* the way list and of the bucket of tag 0.  hsize is 0 for a cache searched without hashing.
Created(p) ==
    LET pushed == [k \in 1..p.assoc |-> p.assoc - k]
    IN [nsets |-> p.nsets, assoc |-> p.assoc, policy |-> p.policy, hsize |-> p.hsize,
        counting |-> p.counting,
        line |-> [s \in 0..p.nsets - 1 |-> [w \in 0..p.assoc - 1 |-> Invalid]],
        order |-> [s \in 0..p.nsets - 1 |-> pushed],
        hash |-> [s \in 0..p.nsets - 1 |-> [h \in 0..p.hsize - 1 |-> IF h = 0 THEN pushed ELSE << >>]],
        last |-> 0, last_blk |-> 0,
        count |-> [n \in CacheStats |-> 0]]

Counted(c, names) ==
    IF c.counting THEN [n \in CacheStats |-> c.count[n] + (IF n \in names THEN 1 ELSE 0)] ELSE c.count

-----------------------------------------------------------------------------
(* Lists and lookup                                                        *)

\* (Faults: the block is linked again without being unlinked, or stays where it is.)
ToHeadTwice(q, w) == <<w>> \o q

\* update_way_list
ToHead(q, w) == <<w>> \o RemoveFirst(q, w)
ToTail(q, w) == Append(RemoveFirst(q, w), w)

\* The ways a search for block b walks: its hash bucket, or the whole way list.
Searched(c, b) ==
    LET s == SetOf(c, b)
    IN IF c.hsize > 0 THEN ToSet(c.hash[s][HashOf(c, TagOf(c, b))]) ELSE ToSet(c.order[s])

\* (Fault: a search finds blocks that were invalidated.)
FoundInvalid(c, b) == {w \in Searched(c, b) : c.line[SetOf(c, b)][w].tag = TagOf(c, b)}

\* The ways where it finds b.
Found(c, b) ==
    {w \in Searched(c, b) : /\ c.line[SetOf(c, b)][w].valid
                            /\ c.line[SetOf(c, b)][w].tag = TagOf(c, b)}

\* (Fault: the block is linked before it gets its new tag.)
RehashedOld(c, s, w, tag) ==
    IF c.hsize = 0 THEN c.hash[s]
    ELSE [c.hash[s] EXCEPT ![HashOf(c, c.line[s][w].tag)] = <<w>> \o RemoveFirst(@, w)]

\* unlink_htab_ent with the old tag of way w of set s, then link_htab_ent with the new one.
Rehashed(c, s, w, tag) ==
    IF c.hsize = 0 THEN c.hash[s]
    ELSE LET old == HashOf(c, c.line[s][w].tag)
             out == [c.hash[s] EXCEPT ![old] = RemoveFirst(@, w)]
         IN [out EXCEPT ![HashOf(c, tag)] = <<w>> \o @]

Request(cmd, b) == [cmd |-> cmd, blk |-> b]
Result(c, below) == [cache |-> c, below |-> below]

-----------------------------------------------------------------------------
(* cache_access                                                            *)

\* (Fault: a write that hits the last block again leaves it clean.)
HitFastClean(c, cmd, b, w) ==
    LET s == SetOf(c, b)
    IN Result([c EXCEPT
                 !.line[s][w].dirty = @ \/ (cmd = "Write" /\ c.last # b),
                 !.order[s] = IF c.last # b /\ c.policy = "LRU" THEN ToHead(@, w) ELSE @,
                 !.last = b, !.last_blk = w,
                 !.count = Counted(c, {"hits"})], << >>)

\* (Fault: blocks are replaced first in, first out: a hit leaves the way list alone.)
HitFifo(c, cmd, b, w) ==
    Result([c EXCEPT
              !.line[SetOf(c, b)][w].dirty = @ \/ cmd = "Write",
              !.last = IF c.policy = "LRU" THEN 0 ELSE b, !.last_blk = w,
              !.count = Counted(c, {"hits"})], << >>)

\* A hit, fast or slow, in way w.  (A fast one leaves the way list alone.)
Hit(c, cmd, b, w) ==
    LET s == SetOf(c, b)
    IN Result([c EXCEPT
                 !.line[s][w].dirty = @ \/ cmd = "Write",
                 !.order[s] = IF c.last # b /\ c.policy = "LRU" THEN ToHead(@, w) ELSE @,
                 !.last = b, !.last_blk = w,
                 !.count = Counted(c, {"hits"})], << >>)

\* The way a miss replaces: the tail of the way list, or way pick.
Victim(c, b, pick) == IF c.policy = "Random" THEN pick ELSE Last(c.order[SetOf(c, b)])

\* A miss that replaces way w: the old block is written back when it is dirty, then b is read.
Miss(c, cmd, b, w) ==
    LET s == SetOf(c, b)
        old == c.line[s][w]
        back == old.valid /\ old.dirty
    IN Result([c EXCEPT
                 !.line[s][w] = [tag |-> TagOf(c, b), valid |-> TRUE, dirty |-> cmd = "Write"],
                 !.order[s] = IF c.policy = "Random" THEN @ ELSE ToHead(@, w),
                 !.hash[s] = Rehashed(c, s, w, TagOf(c, b)),
                 !.last = 0, !.last_blk = 0,
                 !.count = Counted(c, {"misses"} \cup (IF old.valid THEN {"replacements"} ELSE {})
                                                 \cup (IF back THEN {"writebacks"} ELSE {}))],
              (IF back THEN <<Request("Write", BlockAt(c, s, w))>> ELSE << >>)
                 \o <<Request("Read", b)>>)

cache_access(c, cmd, b, pick) ==
    IF c.last = b THEN Hit(c, cmd, b, c.last_blk)
    ELSE IF Found(c, b) # {} THEN Hit(c, cmd, b, CHOOSE w \in Found(c, b) : TRUE)
    ELSE Miss(c, cmd, b, Victim(c, b, pick))

-----------------------------------------------------------------------------
(* cache_flush and cache_flush_addr                                        *)

\* Where the valid blocks are, and those that are dirty.
ValidBlocks(c) == {p \in SetsOf(c) \X WaysOf(c) : c.line[p[1]][p[2]].valid}
DirtyPlaces(c) == {p \in ValidBlocks(c) : c.line[p[1]][p[2]].dirty}

\* cache_flush visits set by set, each along its way list.
PlaceOf(c, p) == CHOOSE k \in DOMAIN c.order[p[1]] : c.order[p[1]][k] = p[2]
Visited(c, p, q) == p[1] < q[1] \/ (p[1] = q[1] /\ PlaceOf(c, p) < PlaceOf(c, q))

\* The places of the dirty blocks in that order.
FlushOrder(c) ==
    [n \in 1..Cardinality(DirtyPlaces(c)) |->
        CHOOSE p \in DirtyPlaces(c) : Cardinality({q \in DirtyPlaces(c) : Visited(c, q, p)}) = n - 1]

cache_flush(c) ==
    LET places == FlushOrder(c)
    IN Result([c EXCEPT
                 !.line = [s \in SetsOf(c) |-> [w \in WaysOf(c) |-> [c.line[s][w] EXCEPT !.valid = FALSE]]],
                 !.last = 0, !.last_blk = 0,
                 !.count = IF c.counting
                           THEN [c.count EXCEPT !["invalidations"] = @ + Cardinality(ValidBlocks(c)),
                                                !["writebacks"] = @ + Cardinality(DirtyPlaces(c))]
                           ELSE c.count],
              [n \in DOMAIN places |-> Request("Write", BlockAt(c, places[n][1], places[n][2]))])

cache_flush_addr(c, b) ==
    IF Found(c, b) = {} THEN Result(c, << >>)
    ELSE LET s == SetOf(c, b)
             w == CHOOSE v \in Found(c, b) : TRUE
             back == c.line[s][w].dirty
         IN Result([c EXCEPT
                      !.line[s][w].valid = FALSE,
                      !.order[s] = ToTail(@, w),
                      !.last = 0, !.last_blk = 0,
                      !.count = Counted(c, {"invalidations"} \cup (IF back THEN {"writebacks"} ELSE {}))],
                   IF back THEN <<Request("Write", b)>> ELSE << >>)
=============================================================================
