----------------------------- MODULE SpecState -----------------------------
(***************************************************************************)
(* The state of the trace generator (sim-outorder.c): dispatch executes    *)
(* instructions in the order of fetch, so after a misprediction it writes  *)
(* to copies - a second register file with a bitmap of registers that were *)
(* written, and a hash table of stores over memory - until recovery.       *)
(*                                                                         *)
(* Registers are the pieces an access may name (the two halves of a double *)
(* are two of them); $r0, which every dispatch clears, is left out.  An    *)
(* access to memory has the words it covers.  A misaligned access, or one  *)
(* outside the segments, reads zero on a wrong path and changes nothing.   *)
(***************************************************************************)
EXTENDS Naturals, Sequences, FiniteSets, SequencesExt

CONSTANTS
    Operands,           \* sets of registers that an instruction writes at once
    Bit(_),             \* the bit of a register in its use_spec bitmap
    Accesses,           \* accesses to memory, [addr, words], by word address
    Values,             \* what registers and words hold, 0 among them
    STORE_HASH_SIZE,
    BugCompats          \* settings of -bugcompat

Registers == UNION Operands
Covered(a) == a.addr..a.addr + a.words - 1
Words == UNION {Covered(a) : a \in Accesses}

ASSUME ValuesAssumption == 0 \in Values /\ BugCompats \subseteq BOOLEAN
ASSUME AccessesAssumption ==
    /\ STORE_HASH_SIZE \in Nat \ {0} /\ IsFiniteSet(Accesses)
    /\ \A a \in Accesses : a.addr \in Nat /\ a.words \in {1, 2}
ASSUME PlacesAssumption == Registers \cap Words = {}

VARIABLES
    spec_mode,
    regs, spec_regs, use_spec,  \* use_spec: the bits that are set
    mem,
    store_htable,               \* chains of entries [addr, data], data of two words
    bucket_free_list,           \* how many entries are in the free list
    written,                    \* history: registers written on the current wrong path
    assigned,                   \* history: what the last write on the current path wrote
    bugcompat_mode

regVars == <<regs, spec_regs, use_spec, written>>
memVars == <<mem, store_htable, bucket_free_list>>
vars == <<spec_mode, regVars, memVars, assigned, bugcompat_mode>>

Buckets == 0..STORE_HASH_SIZE - 1
NoEntries == [h \in Buckets |-> << >>]

Init ==
    /\ spec_mode = FALSE
    /\ regs = [r \in Registers |-> 0] /\ spec_regs = [r \in Registers |-> 0] /\ use_spec = {}
    /\ mem = [w \in Words |-> 0] /\ store_htable = NoEntries /\ bucket_free_list = 0
    /\ written = {} /\ assigned = << >>
    /\ bugcompat_mode \in BugCompats

\* HASH_ADDR of an address below 2^8, in words.
HashAddr(addr) == addr % STORE_HASH_SIZE

-----------------------------------------------------------------------------
(* Registers                                                               *)

\* GPR, FPR_L, FPR_F, FPR_D, HI, LO, FCC
Reg(r) == IF Bit(r) \in use_spec THEN spec_regs[r] ELSE regs[r]

Marked(o) == use_spec \cup {Bit(r) : r \in o}

\* SET_GPR and its like: an instruction gives the registers o the values v.
SetRegs(o, v) ==
    /\ IF spec_mode
       THEN /\ spec_regs' = [r \in Registers |-> IF r \in o THEN v[r] ELSE spec_regs[r]]
            /\ use_spec' = Marked(o)
            /\ written' = written \cup o
            /\ UNCHANGED regs
       ELSE /\ regs' = [r \in Registers |-> IF r \in o THEN v[r] ELSE regs[r]]
            /\ UNCHANGED <<spec_regs, use_spec, written>>
    /\ assigned' = v
    /\ UNCHANGED <<spec_mode, memVars, bugcompat_mode>>

-----------------------------------------------------------------------------
(* spec_mem_access                                                         *)

Chain(addr) == store_htable[HashAddr(addr)]
Entries(addr) == {k \in DOMAIN Chain(addr) : Chain(addr)[k].addr = addr}

\* (Fault: moving an entry to the front drops those before it.)
ReorderedShort(addr) ==
    IF Entries(addr) = {} THEN Chain(addr)
    ELSE LET k == CHOOSE n \in Entries(addr) : \A m \in Entries(addr) : n <= m
         IN SubSeq(Chain(addr), k, Len(Chain(addr)))

\* (Fault: it is not unlinked from its old place.)
ReorderedTwice(addr) ==
    IF Entries(addr) = {} THEN Chain(addr)
    ELSE <<Chain(addr)[CHOOSE n \in Entries(addr) : TRUE]>> \o Chain(addr)

\* The chain of addr with its entry, if there is one, moved to the front.
Reordered(addr) ==
    IF Entries(addr) = {} THEN Chain(addr)
    ELSE LET k == CHOOSE n \in Entries(addr) : \A m \in Entries(addr) : n <= m
         IN <<Chain(addr)[k]>> \o RemoveAt(Chain(addr), k)

\* What a read of a returns, as a function from its words: the entry made for its address,
\* or memory.
Loaded(a) ==
    LET e == Chain(a.addr)[CHOOSE k \in Entries(a.addr) : \A m \in Entries(a.addr) : k <= m]
    IN [w \in Covered(a) |-> IF spec_mode /\ Entries(a.addr) # {} THEN e.data[w - a.addr + 1] ELSE mem[w]]

\* A load on a wrong path changes the order of a chain, one on the right path nothing.
Load(a) ==
    /\ spec_mode
    /\ store_htable' = [store_htable EXCEPT ![HashAddr(a.addr)] = Reordered(a.addr)]
    /\ UNCHANGED <<spec_mode, regVars, mem, bucket_free_list, assigned, bugcompat_mode>>

\* Entry e with the words v of access a written to it.
Stored(e, a, v) == [e EXCEPT !.data = [k \in 1..2 |-> IF k <= a.words THEN v[a.addr + k - 1] ELSE @[k]]]

\* (Fault: a new entry is not linked.)
NotLinked(e, chain) == chain

\* A chain with a new entry at its front.
AtFront(e, chain) == <<e>> \o chain

\* A wrong-path store writes to the entry of its address, or to a new one, which in
\* bug-compatible mode is not linked.
SpecStore(a, v) ==
    LET h == HashAddr(a.addr)
        chain == Reordered(a.addr)
        new == [addr |-> a.addr, data |-> <<0, 0>>]
    IN IF Entries(a.addr) # {}
       THEN /\ store_htable' = [store_htable EXCEPT ![h] = <<Stored(Head(chain), a, v)>> \o Tail(chain)]
            /\ UNCHANGED bucket_free_list
       ELSE /\ bucket_free_list' = IF bucket_free_list = 0 THEN 0 ELSE bucket_free_list - 1
            /\ store_htable' = IF bugcompat_mode THEN store_htable
                               ELSE [store_htable EXCEPT ![h] = AtFront(Stored(new, a, v), chain)]

Store(a, v) ==
    /\ IF spec_mode THEN SpecStore(a, v) /\ UNCHANGED mem
       ELSE /\ mem' = [w \in Words |-> IF w \in Covered(a) THEN v[w] ELSE mem[w]]
            /\ UNCHANGED <<store_htable, bucket_free_list>>
    /\ assigned' = v
    /\ UNCHANGED <<spec_mode, regVars, bugcompat_mode>>

-----------------------------------------------------------------------------
\* Dispatch finds a branch mispredicted that is on the right path.
Mispredict ==
    /\ ~spec_mode /\ spec_mode' = TRUE /\ assigned' = << >>
    /\ UNCHANGED <<regVars, memVars, bugcompat_mode>>

InUse == {p \in Buckets \X (1..Cardinality(Accesses)) : p[2] <= Len(store_htable[p[1]])}

\* The free list with every entry of the table.
Released == bucket_free_list + Cardinality(InUse)

BitsCleared == {}

\* (Fault: the chains survive the recovery.)
EntriesKept == store_htable
EntriesCleared == NoEntries

tracer_recover ==
    /\ spec_mode /\ spec_mode' = FALSE
    /\ use_spec' = BitsCleared /\ written' = {} /\ assigned' = << >>
    /\ store_htable' = EntriesCleared
    /\ bucket_free_list' = Released
    /\ UNCHANGED <<regs, spec_regs, mem, bugcompat_mode>>

Next ==
    \/ \E o \in Operands : \E v \in [o -> Values] : SetRegs(o, v)
    \/ \E a \in Accesses : Load(a) \/ \E v \in [Covered(a) -> Values] : Store(a, v)
    \/ Mispredict
    \/ tracer_recover

Spec == Init /\ [][Next]_vars

-----------------------------------------------------------------------------
\* The state keeps its types, and no address has two entries or one outside its chain.
SpecTypeOK ==
    /\ spec_mode \in BOOLEAN /\ bugcompat_mode \in BOOLEAN
    /\ regs \in [Registers -> Values] /\ spec_regs \in [Registers -> Values]
    /\ mem \in [Words -> Values] /\ use_spec \subseteq {Bit(r) : r \in Registers}
    /\ bucket_free_list \in 0..Cardinality(Accesses)
    /\ \A h \in Buckets :
          /\ store_htable[h] \in Seq([addr : {a.addr : a \in Accesses}, data : Values \X Values])
          /\ \A j, k \in DOMAIN store_htable[h] :
                /\ HashAddr(store_htable[h][j].addr) = h
                /\ j # k => store_htable[h][j].addr # store_htable[h][k].addr

\* No entry of the hash table is lost: the free list and the table together never shrink.
EntriesConserved ==
    [][bugcompat_mode \/
       (bucket_free_list + Cardinality(InUse))' >= bucket_free_list + Cardinality(InUse)]_vars

\* On a wrong path a register no instruction of it wrote reads as on the right path: storage is
\* "speculative copy on write" (sim-outorder.c:3425).  Writing half a double breaks it: the halves
\* share one bit, and the other half is not copied.
CopiedOnWrite == \A r \in Registers \ written : Reg(r) = regs[r]

\* What instructions of the current path read in each place.
Seen(p) == IF p \in Registers THEN Reg(p)
           ELSE Loaded(CHOOSE a \in Accesses : p \in Covered(a))[p]

Stores == {Covered(a) : a \in Accesses}
World == INSTANCE Speculation WITH
    Places <- Registers \cup Words,
    Groups <- Operands \cup Stores,
    Losable <- Stores,
    seen <- [p \in Registers \cup Words |-> Seen(p)],
    saved <- [p \in Registers \cup Words |-> IF p \in Registers THEN regs[p] ELSE mem[p]],
    wrong <- spec_mode,
    lossy <- bugcompat_mode

\* A wrong path starts from the state of the right one, with nothing left of earlier wrong paths;
\* what an instruction writes is what every place it writes holds from then on, to the next write
\* of that place, and no other place changes; and recovery brings the right path's state back.
\* Only in bug-compatible mode may a store of a wrong path be lost.
ImplementsSpeculation == World!SpeculationSpec
=============================================================================
