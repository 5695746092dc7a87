------------------------------- MODULE RuuProps -------------------------------
(***************************************************************************)
(* What makes the execution core of sim-outorder correct.                  *)
(***************************************************************************)
EXTENDS Ruu

Live == ToSet(RuuLive) \cup ToSet(LsqLive)

LinkType == [rs : Stations \cup {Null}, tag : Nat, seq : Nat, x : Nat]
CvType == [rs : Stations \cup {Null}, odep : Outs]
StationType ==
    [tag : Nat, seq : Nat, kind : {"op", "ctrl", "trap", "agen", "load", "store"},
     class : DOMAIN FuClass \cup {NA}, first : BOOLEAN, recover : BOOLEAN, spec : BOOLEAN,
     addr : Nat, queued : BOOLEAN, issued : BOOLEAN, completed : BOOLEAN,
     onames : [Outs -> Regs \cup {DTMP, NA}], odeps : [Outs -> Seq(LinkType)],
     ready : [Ops -> BOOLEAN], deps : [Ops -> Nat]]

\* What the simulator says when it stops.
Panics ==
    {"RUU out of sync with LSQ", "retired instruction has odeps",
     "inst completed and !ready, !issued, or completed", "mis-predicted load or store?!?!?",
     "cannot recover unless in speculative mode", "RUU head and tail broken", "RUU and LSQ out of sync",
     "output dependence already satisfied", "node is already queued",
     "STD unknown array overflow, increase MAX_STD_UNKNOWNS", "out of rs links",
     "issued inst !ready, issued, or completed", "store creates result", "mis-predicted store",
     "drained and speculative"}

\* The type invariant: queue positions in range, stations and links well formed.
TypeOK ==
    /\ ruu_inorder_issue \in InOrders /\ bugcompat_mode \in BugCompats /\ program \in Programs
    /\ st \in [Stations -> StationType]
    /\ RUU_head \in 0..RUU_size - 1 /\ RUU_tail \in 0..RUU_size - 1 /\ RUU_num \in 0..RUU_size
    /\ LSQ_head \in 0..LSQ_size - 1 /\ LSQ_tail \in 0..LSQ_size - 1 /\ LSQ_num \in 0..LSQ_size
    /\ {create_vector, spec_create_vector} \subseteq [Regs \cup {DTMP} -> CvType]
    /\ use_spec_cv \subseteq Regs \cup {DTMP}
    /\ {ready_queue, event_queue, scan} \subseteq Seq(LinkType)
    /\ rslinks \in 0..NumLinks
    /\ busy \in [Units -> Nat]
    /\ last_op \in LinkType
    /\ spec_mode \in BOOLEAN
    /\ inst_seq \in 0..MaxInsts /\ count \in Nat
    /\ stage \in {"commit", "writeback", "lsq_refresh", "issue", "dispatch", "fetch"}
    /\ panic \in Panics \cup {""}

\* No sanity check of the pipeline ever fails, in whatever order instructions complete,
\* mispredictions are found and entries are reused (the panics of ruu_commit, ruu_recover,
\* ruu_writeback, readyq_enqueue and ruu_issue, and the link pool's).
NoPanic == panic = ""

\* How many of the first n entries of the RUU compute an address.
Agens(n) == Cardinality({k \in 1..n : EaComp(st[RuuLive[k]])})

\* sim_main's checks of the two circular queues, and the pairing ruu_commit and ruu_recover
\* count on: the nth address computation in the RUU belongs to the nth access in the LSQ.
QueuesInStep ==
    /\ (RUU_head + RUU_num) % RUU_size = RUU_tail
    /\ (LSQ_head + LSQ_num) % LSQ_size = LSQ_tail
    /\ Agens(RUU_num) = LSQ_num
    /\ \A n \in 1..LSQ_num : InLSQ(st[LsqLive[n]])
    /\ \A n \in 1..RUU_num : EaComp(st[RuuLive[n]]) =>
           /\ st[LsqLive[Agens(n)]].seq = st[RuuLive[n]].seq + 1
           /\ st[LsqLive[Agens(n)]].spec = st[RuuLive[n]].spec

\* No sanity check fails, those of the queue pairing included.
QueuesSound == NoPanic /\ QueuesInStep

AllLinks ==
    ToSet(ready_queue) \cup ToSet(event_queue) \cup ToSet(scan)
    \cup (UNION {ToSet(st[id].odeps[k]) : id \in Stations, k \in Outs})
    \cup ({last_op} \ {NullLink})

\* A link whose tag matches is to the very instruction it was made for, still in the
\* machine: tags make squashed and reused entries unreachable through old links, and in-order
\* issue never waits for one of them.
ValidLinksLeadHome ==
    \A l \in AllLinks : Valid(l) => l.rs \in Live /\ st[l.rs].seq = l.seq

\* Every link is in the pool or on exactly one list: squashes and writebacks leak none.
LinksConserved ==
    rslinks + Len(ready_queue) + Len(event_queue) + Len(scan) + LinksOf(Stations) = NumLinks

\* Links are neither lost nor followed to the wrong instruction.
LinksSound == ValidLinksLeadHome /\ LinksConserved

\* The instruction that creates register r for the code dispatched next, among those in S.
LastWriter(r, S) ==
    LET W == {id \in S : \E k \in Outs : st[id].onames[k] = r}
    IN IF W = {} THEN Null ELSE CHOOSE w \in W : \A o \in W : st[o].seq <= st[w].seq

Creates(cv, r, w) ==
    IF w = Null \/ st[w].completed THEN cv[r].rs = Null
    ELSE cv[r].rs = w /\ st[w].onames[cv[r].odep] = r

\* The create vectors name the youngest writer of a register while its result is to come and
\* nothing after: the speculative view among all instructions, the other among those that no
\* squash will remove, so that forgetting the speculative entries is all a recovery needs.
CreateVectorPrecise ==
    \A r \in Regs \cup {DTMP} :
        /\ Creates(create_vector, r, LastWriter(r, {id \in Live : ~st[id].spec}))
        /\ Creates([x \in Regs \cup {DTMP} |-> CREATE_VECTOR(x)], r, LastWriter(r, Live))

\* An operand is outstanding exactly while the instruction that program order says produces
\* it is in the machine and incomplete, and then that instruction has one link to wake it.
OperandsAwaitProducers ==
    \A t \in Live : \A k \in Ops :
        LET producers == {p \in Live : st[p].seq = st[t].deps[k] /\ ~st[p].completed}
            wakes(p) == {w \in LinkPlaces(st, {p}) :
                            LET l == st[p].odeps[w[2]][w[3]] IN l.rs = t /\ l.x = k /\ Valid(l)}
        IN IF st[t].ready[k] THEN producers = {} /\ \A p \in Live : wakes(p) = {}
           ELSE \E p \in producers : /\ Cardinality(wakes(p)) = 1
                                     /\ \A q \in Live \ {p} : wakes(q) = {}

ValidTo(q, t) == {n \in DOMAIN q : q[n].rs = t /\ Valid(q[n])}

\* An instruction with its operands is on the ready queue once, in execution it is on the
\* event queue once, and it is never on both or lost between them.
ScheduledOnce ==
    \A t \in Live :
        LET r == st[t]
            waiting == Cardinality(ValidTo(ready_queue, t)) + Cardinality(ValidTo(scan, t))
            running == Cardinality(ValidTo(event_queue, t))
        IN /\ waiting = (IF r.queued THEN 1 ELSE 0)
           /\ running = (IF r.issued /\ ~r.completed THEN 1 ELSE 0)
           /\ OperandsReady(r) /\ r.kind # "load" => r.queued \/ r.issued
           /\ r.queued => ~r.issued /\ OperandsReady(r)

\* The nth instruction: a load or store is its address computation with its access.
Slot(n) ==
    LET r == st[RuuLive[n]]
    IN [spec |-> r.spec, recover |-> r.recover,
        done |-> r.completed /\ (EaComp(r) => st[LsqLive[Agens(n)]].completed)]

Slots == [n \in 1..RUU_num |-> Slot(n)]

Win == INSTANCE Window WITH Size <- RUU_size, win <- Slots

\* The RUU with the LSQ is a window of instructions that complete out of order: a load or store
\* is complete when its access is, and only recovery takes an instruction out but at the head.
\* By WindowRecovery there is then one recovery point whenever dispatch is on a wrong path.
ImplementsWindow == Win!WinSpec

\* A load is let go only when no earlier store can still turn out to be the one it reads:
\* their addresses are all known, and the nearest one to the same address has its data.
LoadsSeeStores ==
    \A p \in 1..LSQ_num :
        LET r == st[LsqLive[p]]
            same == {q \in 1..p - 1 : IsStore(LsqLive[q]) /\ AddrAt(q) = r.addr}
        IN r.kind = "load" /\ (r.queued \/ r.issued) =>
             /\ \A q \in 1..p - 1 : IsStore(LsqLive[q]) => AddrReady(LsqLive[q])
             /\ same # {} => StoreKnown(CHOOSE q \in same : \A o \in same : o <= q)

\* What "-issue:inorder" and the comment of ruu_dispatch say ("block until last op issues if
\* inorder issue", sim-outorder.c:3742): an instruction issues after those before it.
InOrderIssue ==
    ruu_inorder_issue => \A t, u \in Live : st[t].seq < st[u].seq /\ st[u].issued => st[t].issued

\* Every right-path instruction is committed in the end: no wakeup is lost, no squash takes
\* it, and stores get a port although loads compete for it.  Hence every speculation ends, for
\* the branch that started it commits.
RightPathCommits ==
    \A n \in 1..MaxInsts :
        (\E id \in ToSet(RuuLive) : st[id].seq = n /\ ~st[id].spec)
            ~> ~\E id \in ToSet(RuuLive) : st[id].seq = n

\* In-order issue never holds dispatch up for good: what it waits for gets its operands, or is
\* squashed with the mispredicted path it is on.
StallsEnd == Stalled ~> ~Stalled
=============================================================================
