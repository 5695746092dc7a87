----------------------------- MODULE DataCaches -----------------------------
(***************************************************************************)
(* The data caches of a simulated machine: a level-1 cache dl1 and, below  *)
(* it, a level-2 cache dl2 or memory (the miss handlers of sim-cache.c and *)
(* sim-outorder.c).  Instructions may reach dl2 too.  The history          *)
(* variables say what lower levels have not been told, behind, and what    *)
(* dl1 was asked for last, asked.                                          *)
(***************************************************************************)
EXTENDS Cache

CONSTANTS
    Blocks,         \* blocks of dl1 a program uses
    Ratio,          \* how many of them a block of dl2 holds
    InstBlocks,     \* blocks of dl2 its instructions are in
    Dl1Nsets, Dl1Assoc,     \* the geometry of dl1
    Dl1Params,      \* the parameters dl1 may be created with, as records
    Dl2Params,      \* those of dl2, NoCache for a machine without it
    MaxAccesses     \* bound on the accesses of a cache that is counting

\* What cache_dl2 is in a machine without a second level.
NoCache == [nsets |-> 0]

ASSUME BlocksAssumption ==
    /\ Ratio \in Nat \ {0} /\ Blocks \subseteq {b \in Nat : b >= Ratio}
    /\ InstBlocks \subseteq Nat \ {0} /\ MaxAccesses \in Nat
ASSUME Dl1Assumption == \A p \in Dl1Params : p.nsets = Dl1Nsets /\ p.assoc = Dl1Assoc
ASSUME ParamsAssumption ==
    \A p \in Dl1Params \cup (Dl2Params \ {NoCache}) :
        /\ p.nsets \in Nat \ {0} /\ p.assoc \in Nat \ {0} /\ p.hsize \in Nat
        /\ p.policy \in Policies /\ p.counting \in BOOLEAN

VARIABLES
    dl1, dl2,
    behind,     \* behind[n]: blocks of level n written since the level below got them
    asked       \* what dl1, if it replaces LRU, was asked for last: to use or forget a block, or all

vars == <<dl1, dl2, behind, asked>>

\* dl1, which replaces LRU, is asked to do so with block b, or with all blocks.
Asking(what, b) == asked' = IF dl1.policy = "LRU" THEN <<what, SetOf(dl1, b), TagOf(dl1, b)>> ELSE asked
AskingAll(what) == asked' = IF dl1.policy = "LRU" THEN <<what>> ELSE asked

Init ==
    /\ \E p \in Dl1Params : dl1 = Created(p)
    /\ \E p \in Dl2Params : dl2 = IF p = NoCache THEN NoCache ELSE Created(p)
    /\ behind = [n \in {1, 2} |-> {}]
    /\ asked = << >>

Written(reqs) == {reqs[k].blk : k \in {j \in DOMAIN reqs : reqs[j].cmd = "Write"}}

\* One request given to dl1_access_fn, which has dl2 take it; dl2_access_fn passes to memory
\* what dl2 asks for in turn.
PassedOne(low, req, pick) ==
    LET down == IF req.cmd = "Write" THEN {req.blk} ELSE {}
    IN IF low.dl2 = NoCache THEN [low EXCEPT !.behind = [low.behind EXCEPT ![1] = @ \ down]]
       ELSE LET r == cache_access(low.dl2, req.cmd, req.blk \div Ratio, pick)
            IN [dl2 |-> r.cache,
                behind |-> [low.behind EXCEPT
                    ![1] = @ \ down,
                    ![2] = (@ \ Written(r.below)) \cup {b \div Ratio : b \in down}]]

\* What becomes of dl2 and behind when dl1_access_fn gets the requests one after the other.
Passed(reqs, picks) ==
    LET low[k \in 0..Len(reqs)] ==
            IF k = 0 THEN [dl2 |-> dl2, behind |-> behind]
            ELSE PassedOne(low[k - 1], reqs[k], picks[k])
    IN low[Len(reqs)]

\* Ways a cache may replace for n requests when replacement is random (way 0 stands for
\* any when it is not).
Picks(c, n) == IF c # NoCache /\ c.policy = "Random" THEN [1..n -> WaysOf(c)] ELSE {[k \in 1..n |-> 0]}

Bounded(c) == c.counting => c.count["hits"] + c.count["misses"] < MaxAccesses

-----------------------------------------------------------------------------
\* A load or store of the program (__READ_CACHE, __WRITE_CACHE, dcache_access_fn).
DataAccess(cmd, b) ==
    /\ Bounded(dl1)
    /\ Asking("use", b)
    /\ \E pick \in Picks(dl1, 1) :
          LET r == cache_access(dl1, cmd, b, pick[1])
          IN /\ dl1' = r.cache
             /\ \E picks \in Picks(dl2, Len(r.below)) :
                   LET p == Passed(r.below, picks)
                   IN /\ dl2' = p.dl2
                      /\ behind' = [p.behind EXCEPT ![1] = IF cmd = "Write" THEN @ \cup {b} ELSE @]

\* An instruction fetched through dl2, when it is the instruction cache or lies below it.
InstFetch(b) ==
    /\ dl2 # NoCache /\ Bounded(dl2)
    /\ \E pick \in Picks(dl2, 1) :
          LET r == cache_access(dl2, "Read", b, pick[1])
          IN /\ dl2' = r.cache
             /\ behind' = [behind EXCEPT ![2] = @ \ Written(r.below)]
    /\ UNCHANGED <<dl1, asked>>

\* (Fault: dl2 is flushed before dl1.)
SyscallUpwards ==
    LET last == IF dl2 = NoCache THEN Result(NoCache, << >>) ELSE cache_flush(dl2)
        first == cache_flush(dl1)
        reqs == first.below
    IN /\ dl1' = first.cache /\ AskingAll("empty")
       /\ dl2 # NoCache
       /\ dl2' = FoldLeftDomain(LAMBDA c, k : cache_access(c, "Write", reqs[k].blk \div Ratio, 0).cache,
                                last.cache, reqs)
       /\ behind' = [n \in {1, 2} |-> IF n = 1 THEN behind[1] \ Written(reqs)
                                      ELSE {b \div Ratio : b \in Written(reqs)}]

\* A system call when -flush is given: dl1 is flushed into dl2, then dl2 into memory.
Syscall ==
    LET first == cache_flush(dl1)
    IN /\ dl1' = first.cache /\ AskingAll("empty")
       /\ \E picks \in Picks(dl2, Len(first.below)) :
             LET p == Passed(first.below, picks)
             IN IF p.dl2 = NoCache THEN dl2' = NoCache /\ behind' = p.behind
                ELSE LET last == cache_flush(p.dl2)
                     IN /\ dl2' = last.cache
                        /\ behind' = [p.behind EXCEPT ![2] = @ \ Written(last.below)]

\* cache_flush_addr on dl1.  No simulator of the repository calls it.
FlushAddr(b) ==
    LET r == cache_flush_addr(dl1, b)
    IN /\ dl1' = r.cache /\ Asking("forget", b)
       /\ \E picks \in Picks(dl2, Len(r.below)) :
             LET p == Passed(r.below, picks) IN dl2' = p.dl2 /\ behind' = p.behind

Next ==
    \/ \E cmd \in Cmds, b \in Blocks : DataAccess(cmd, b)
    \/ \E b \in InstBlocks : InstFetch(b)
    \/ Syscall
    \/ \E b \in Blocks : FlushAddr(b)

Spec == Init /\ [][Next]_vars

-----------------------------------------------------------------------------
Levels == {dl1} \cup ({dl2} \ {NoCache})
At(q, w) == {k \in DOMAIN q : q[k] = w}

\* The caches keep their parts in range: in particular each way is once in its way list.
CachesTypeOK ==
    /\ behind \in [{1, 2} -> SUBSET Nat]
    /\ \A c \in Levels : \A s \in SetsOf(c) :
          /\ c.line[s] \in [WaysOf(c) -> [tag : Nat, valid : BOOLEAN, dirty : BOOLEAN]]
          /\ c.order[s] \in [1..c.assoc -> WaysOf(c)]
          /\ \A w \in WaysOf(c) : Cardinality(At(c.order[s], w)) = 1
          /\ c.last \in Nat /\ c.last_blk \in WaysOf(c)

\* A block is in at most one way, even though the short cut, the hash table and the way list
\* are three ways to search for it and an invalid block keeps its tag.
NoDuplicate ==
    \A c \in Levels : \A s \in SetsOf(c) : \A v, w \in WaysOf(c) :
        v # w /\ c.line[s][v].valid /\ c.line[s][w].valid => c.line[s][v].tag # c.line[s][w].tag

\* Each block, valid or not, is linked once, in the bucket of its tag, so unlink_htab_ent finds
\* it (assert(ent), cache.c:160) and a search misses no valid one.
BucketsExact ==
    \A c \in Levels : c.hsize > 0 =>
        \A s \in SetsOf(c) : \A w \in WaysOf(c) : \A h \in 0..c.hsize - 1 :
            Cardinality(At(c.hash[s][h], w)) = IF h = HashOf(c, c.line[s][w].tag) THEN 1 ELSE 0

\* The block the short cut returns without a search is valid and the one asked for, and with LRU
\* replacement it is at the head of its way list, where the skipped reordering would put it.
ShortCutSound ==
    \A c \in Levels : c.last # 0 =>
        LET s == SetOf(c, c.last)
        IN /\ c.line[s][c.last_blk].valid /\ BlockAt(c, s, c.last_blk) = c.last
           /\ c.policy = "LRU" => Head(c.order[s]) = c.last_blk

\* LRU and FIFO replace no valid block while another way of its set is free.
FreeWaysFirst ==
    \A c \in Levels : c.policy # "Random" =>
        \A s \in SetsOf(c) : \A j, k \in 1..c.assoc :
            j < k /\ c.line[s][c.order[s][k]].valid => c.line[s][c.order[s][j]].valid

\* The three structures a search uses, way list, hash table and short cut, tell of the same
\* blocks, each of them once.
SearchesAgree == NoDuplicate /\ BucketsExact /\ ShortCutSound /\ FreeWaysFirst

DirtyBlocks(c) ==
    IF c = NoCache THEN {}
    ELSE {BlockAt(c, p[1], p[2]) : p \in DirtyPlaces(c)}

\* No write is lost on its way to memory: a block is valid and dirty in a level exactly while
\* that level holds a write the one below has not been given.
NoLostWrite == behind = [n \in {1, 2} |-> DirtyBlocks(IF n = 1 THEN dl1 ELSE dl2)]

\* The system call that follows a flush finds every write of the program in memory.
SyscallSeesWrites == [][Syscall => behind'[1] = {} /\ behind'[2] = {}]_vars

\* The statistics balance: a block that came by a miss was replaced, invalidated or is there.
MissesBalance ==
    \A c \in Levels : c.counting =>
        c.count["misses"] = c.count["replacements"] + c.count["invalidations"]
            + Cardinality(ValidBlocks(c))

-----------------------------------------------------------------------------
\* The valid tags of set s in the order of its way list, where they come first.
TagOrder(c, s) ==
    [k \in 1..Cardinality({w \in WaysOf(c) : c.line[s][w].valid}) |-> c.line[s][c.order[s][k]].tag]

Lru == INSTANCE LruSets WITH
    Sets <- 0..Dl1Nsets - 1, Tags <- {b \div Dl1Nsets : b \in Blocks}, Capacity <- Dl1Assoc,
    order <- [s \in 0..Dl1Nsets - 1 |-> IF dl1.policy = "LRU" THEN TagOrder(dl1, s) ELSE << >>],
    asked <- asked

\* With LRU replacement each set of dl1 holds the blocks used last, in the order of their last
\* use, whichever search found them, and but for those flushed.
Dl1ImplementsLru == Lru!FlushableSpec
=============================================================================
