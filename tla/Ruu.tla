--------------------------------- MODULE Ruu ---------------------------------
(***************************************************************************)
(* The execution core of sim-outorder.c: the register update unit (RUU),   *)
(* the load/store queue (LSQ), the ready queue, the event queue, the       *)
(* create vectors and the pool of links that tie them together.            *)
(*                                                                         *)
(* One iteration of sim_main's loop is a cycle; `stage' says which handler *)
(* the cycle has come to, and each turn of a handler's loop is one action. *)
(* The fetch unit is the environment: in each cycle it offers any number   *)
(* of the program's instructions, and any branch may be mispredicted.      *)
(* Squashing an entry only increments its tag: links to it stay where they *)
(* are and are ignored, because their tag no longer matches.  The field    *)
(* seq of a link is history: it says which instruction the link was for.   *)
(***************************************************************************)
EXTENDS Integers, Sequences, FiniteSets, SequencesExt

CONSTANTS
    RUU_size, LSQ_size,
    Regs,           \* architected registers instructions may name
    NA,             \* no register, and no functional unit class
    DTMP,           \* the name that passes an effective address to its access
    Programs,       \* sets of instructions: [kind, class, first, outs, ins, addr]
    FuClass,        \* class -> [units, oplat, issuelat], the unit pool
    LoadLats,       \* latencies the data cache and TLB may answer with
    CommitWidth, IssueWidth, DecodeWidth,
    InOrders,       \* the values -issue:inorder may have
    IncludeSpec,    \* ruu_include_spec
    BugCompats,     \* the values -bugcompat may have
    NumLinks,       \* MAX_RS_LINKS: size of the link pool
    MAX_STD_UNKNOWNS,
    MaxInsts        \* bound on the instructions the fetch unit offers

ASSUME SizeAssumption ==
    /\ {RUU_size, LSQ_size, CommitWidth, IssueWidth, DecodeWidth} \subseteq Nat \ {0}
    /\ {NumLinks, MaxInsts, MAX_STD_UNKNOWNS} \subseteq Nat
    /\ InOrders \subseteq BOOLEAN /\ BugCompats \subseteq BOOLEAN /\ IncludeSpec \in BOOLEAN
    /\ LoadLats \subseteq Nat \ {0}
    /\ NA \notin Regs /\ DTMP \notin Regs /\ NA # DTMP

Outs == 0..1        \* MAX_ODEPS
Ops == 0..2         \* MAX_IDEPS

ASSUME ProgramsAssumption ==
    \A p \in Programs : \A i \in p :
        /\ i.kind \in {"op", "ctrl", "trap", "load", "store"}
        /\ i.kind = "store" => i.class # NA /\ \A k \in Outs : i.outs[k] = NA
        /\ {i.class, i.agen} \subseteq DOMAIN FuClass \cup {NA} /\ i.first \in BOOLEAN
        /\ i.outs \in [Outs -> Regs \cup {NA}] /\ i.ins \in [Ops -> Regs \cup {NA}] /\ i.addr \in Nat

ASSUME UnitsAssumption ==
    \A c \in DOMAIN FuClass : FuClass[c].oplat \in Nat \ {0} /\ FuClass[c].issuelat \in Nat

VARIABLES
    ruu_inorder_issue,  \* option: dispatch waits for operands, never changed
    bugcompat_mode, \* option: dispatch before issue, never changed
    program,        \* the instructions fetch may offer, never changed
    st,             \* the reservation stations of the RUU and the LSQ
    RUU_head, RUU_tail, RUU_num,
    LSQ_head, LSQ_tail, LSQ_num,
    create_vector, spec_create_vector,  \* register -> station and output number, or Null
    use_spec_cv,    \* registers whose speculative create vector entry counts
    ready_queue,    \* links to the stations that may issue
    event_queue,    \* links to the stations in execution; x is the cycles to go
    rslinks,        \* links left in the free pool
    busy,           \* cycles a functional unit stays busy
    last_op,        \* what in-order issue waits for
    spec_mode,      \* whether the trace generator is on a mispredicted path
    inst_seq,       \* instruction sequence counter
    stage,          \* the handler the cycle has come to
    count,          \* instructions the handler has handled this cycle
    scan,           \* ruu_issue: the rest of the old ready queue
    panic           \* the message of the panic the simulator died of, or ""

queueVars == <<RUU_head, RUU_tail, RUU_num, LSQ_head, LSQ_tail, LSQ_num>>
options == <<ruu_inorder_issue, bugcompat_mode, program>>
cvVars == <<create_vector, spec_create_vector, use_spec_cv>>
vars == <<options, st, queueVars, cvVars, ready_queue, event_queue, rslinks, busy, last_op,
          spec_mode, inst_seq, stage, count, scan, panic>>

RuuIds == {"RUU"} \X (0..RUU_size - 1)
LsqIds == {"LSQ"} \X (0..LSQ_size - 1)
Stations == RuuIds \cup LsqIds
Null == <<"none", 0>>
CvNull == [rs |-> Null, odep |-> 0]
Units == UNION {FuClass[c].units : c \in DOMAIN FuClass}

\* Link fields: the station, its tag, the instruction, and opnum or time.
LinkTo(s, id, x) == [rs |-> id, tag |-> s[id].tag, seq |-> s[id].seq, x |-> x]
NullLink == [rs |-> Null, tag |-> 0, seq |-> 0, x |-> 0]
ValidIn(s, l) == l.tag = s[l.rs].tag
Valid(l) == ValidIn(st, l)                                   \* RSLINK_VALID

OperandsReady(r) == \A k \in Ops : r.ready[k]                \* OPERANDS_READY
InLSQ(r) == r.kind \in {"load", "store"}
EaComp(r) == r.kind = "agen"

RuuAt(i) == <<"RUU", i % RUU_size>>
LsqAt(i) == <<"LSQ", i % LSQ_size>>
\* The stations in use, oldest first.
RuuLive == [k \in 1..RUU_num |-> RuuAt(RUU_head + k - 1)]
LsqLive == [k \in 1..LSQ_num |-> LsqAt(LSQ_head + k - 1)]

Init ==
    /\ st = [id \in Stations |->
               [tag |-> 0, seq |-> 0, kind |-> "op", class |-> NA, first |-> FALSE,
                recover |-> FALSE, spec |-> FALSE, addr |-> 0, queued |-> FALSE,
                issued |-> FALSE, completed |-> FALSE, onames |-> [k \in Outs |-> NA],
                odeps |-> [k \in Outs |-> << >>], ready |-> [k \in Ops |-> FALSE],
                deps |-> [k \in Ops |-> 0]]]
    /\ ruu_inorder_issue \in InOrders /\ bugcompat_mode \in BugCompats /\ program \in Programs
    /\ RUU_head = 0 /\ RUU_tail = 0 /\ RUU_num = 0
    /\ LSQ_head = 0 /\ LSQ_tail = 0 /\ LSQ_num = 0
    /\ create_vector = [r \in Regs \cup {DTMP} |-> CvNull]
    /\ spec_create_vector = [r \in Regs \cup {DTMP} |-> CvNull]
    /\ use_spec_cv = {}
    /\ ready_queue = << >> /\ event_queue = << >> /\ rslinks = NumLinks
    /\ busy = [u \in Units |-> 0]
    /\ last_op = NullLink
    /\ spec_mode = FALSE /\ inst_seq = 0
    /\ stage = "commit" /\ count = 0 /\ scan = << >> /\ panic = ""

-----------------------------------------------------------------------------
(* Queues.                                                                 *)

\* readyq_enqueue: loads, stores, branches and long operations first, others by age.
InsertReady(q, l, first) ==
    LET n == IF first THEN 0
             ELSE CHOOSE k \in 0..Len(q) : /\ \A i \in 1..k : q[i].seq < l.seq
                                           /\ k < Len(q) => q[k + 1].seq >= l.seq
    IN SubSeq(q, 1, n) \o <<l>> \o SubSeq(q, n + 1, Len(q))

\* (Fault: a writeback that wakes several stations queues only the first.)
EnqueueFirst(s, q, ids) == IF ids = << >> THEN q ELSE InsertReady(q, LinkTo(s, ids[1], 0), s[ids[1]].first)
EnqueueAll(s, q, ids) ==
    LET after[n \in 0..Len(ids)] ==
            IF n = 0 THEN q ELSE InsertReady(after[n - 1], LinkTo(s, ids[n], 0), s[ids[n]].first)
    IN after[Len(ids)]

\* (Fault: `queued' is not set.)
MarkQueuedNever(s, ids) == s
MarkQueued(s, ids) == [id \in Stations |-> IF id \in ToSet(ids) THEN [s[id] EXCEPT !.queued = TRUE] ELSE s[id]]

\* eventq_queue_event: before the events due at the same time or later.
InsertEvent(q, l) ==
    LET n == Cardinality({i \in DOMAIN q : q[i].x < l.x})
    IN SubSeq(q, 1, n) \o <<l>> \o SubSeq(q, n + 1, Len(q))

\* res_get: a unit of the class that is not busy.
FreeUnits(class) == {u \in FuClass[class].units : busy[u] = 0}
Reserve(class) ==
    [busy EXCEPT ![CHOOSE u \in FreeUnits(class) : \A v \in FreeUnits(class) : u <= v] = FuClass[class].issuelat]

\* The members of a set of numbers, smallest first.
InOrder(S) ==
    [n \in 1..Cardinality(S) |-> CHOOSE i \in S : Cardinality({j \in S : j < i}) = n - 1]

GoTo(next) == stage' = next /\ count' = 0

-----------------------------------------------------------------------------
(* ruu_commit                                                              *)

HeadRs == RuuAt(RUU_head)
HeadLsq == LsqAt(LSQ_head)

LsqInStep == LSQ_num > 0 /\ InLSQ(st[HeadLsq])
PortFree == st[HeadLsq].kind = "store" => FreeUnits(st[HeadLsq].class) # {}

MayCommitAddress ==
    /\ RUU_num > 0 /\ count < CommitWidth
    /\ st[HeadRs].completed
    /\ EaComp(st[HeadRs]) /\ LsqInStep => PortFree

MayCommit ==
    /\ RUU_num > 0 /\ count < CommitWidth
    /\ st[HeadRs].completed
    /\ EaComp(st[HeadRs]) /\ LsqInStep => st[HeadLsq].completed /\ PortFree

CommitHead ==
    /\ stage = "commit" /\ panic = "" /\ MayCommit
    /\ LET mem == EaComp(st[HeadRs])
           store == mem /\ LsqInStep /\ st[HeadLsq].kind = "store"
           gone == {HeadRs} \cup (IF mem THEN {HeadLsq} ELSE {})
       IN /\ st' = [id \in Stations |-> IF id \in gone THEN [st[id] EXCEPT !.tag = @ + 1] ELSE st[id]]
          /\ RUU_head' = (RUU_head + 1) % RUU_size /\ RUU_num' = RUU_num - 1
          /\ LSQ_head' = IF mem THEN (LSQ_head + 1) % LSQ_size ELSE LSQ_head
          /\ LSQ_num' = IF mem THEN LSQ_num - 1 ELSE LSQ_num
          /\ busy' = IF store THEN Reserve(st[HeadLsq].class) ELSE busy
          /\ panic' =
                 IF mem /\ ~LsqInStep
                     THEN "RUU out of sync with LSQ"
                 ELSE IF \E k \in Outs : st[HeadRs].odeps[k] # << >>
                     THEN "retired instruction has odeps"
                 ELSE panic
    /\ count' = count + 1
    /\ UNCHANGED <<RUU_tail, LSQ_tail, cvVars, ready_queue, event_queue, rslinks, last_op,
                   spec_mode, inst_seq, stage, scan>>

\* No more commits this cycle; ruu_release_fu follows.
CommitDone ==
    /\ stage = "commit" /\ panic = "" /\ ~MayCommit
    /\ busy' = [u \in Units |-> IF busy[u] > 0 THEN busy[u] - 1 ELSE 0]
    /\ GoTo("writeback")
    /\ UNCHANGED <<st, queueVars, cvVars, ready_queue, event_queue, rslinks, last_op, spec_mode,
                   inst_seq, scan, panic>>

-----------------------------------------------------------------------------
(* ruu_writeback, with ruu_recover and tracer_recover                      *)

\* (Fault: events are taken a cycle late.)
DueLate == event_queue # << >> /\ Head(event_queue).x < 0
Due == event_queue # << >> /\ Head(event_queue).x <= 0

\* eventq_next_event skips events of squashed instructions.
DropStaleEvent ==
    /\ stage = "writeback" /\ panic = "" /\ Due /\ ~Valid(Head(event_queue))
    /\ event_queue' = Tail(event_queue)
    /\ rslinks' = rslinks + 1
    /\ UNCHANGED <<st, queueVars, cvVars, ready_queue, busy, last_op, spec_mode, inst_seq,
                   stage, count, scan, panic>>

\* How many RUU entries ruu_recover(branch) squashes, and the entries of both queues.
Younger(branch) == (RUU_tail + RUU_size - 1 - branch[2]) % RUU_size
\* (Fault: the accesses are not squashed.)
SquashedLsqNone(branch) == {}
SquashedRuu(branch) == {RuuAt(branch[2] + k) : k \in 1..Younger(branch)}
SquashedLsq(branch) ==
    LET n == Cardinality({id \in SquashedRuu(branch) : EaComp(st[id])})
    IN {LsqAt(LSQ_tail + LSQ_size - k) : k \in 1..n}

\* The links on the output chains of the stations ids, each by its place.
LinkPlaces(s, ids) == UNION {{id} \X {k} \X DOMAIN s[id].odeps[k] : id \in ids, k \in Outs}
LinksOf(ids) == Cardinality(LinkPlaces(st, ids))

\* (Faults: a squashed entry keeps its tag, and its output links.)
SquashKeepsTag(s, ids) ==
    [id \in Stations |-> IF id \in ids THEN [s[id] EXCEPT !.odeps = [k \in Outs |-> << >>]] ELSE s[id]]
Squash(s, ids) ==
    [id \in Stations |-> IF id \in ids
        THEN [s[id] EXCEPT !.tag = @ + 1, !.odeps = [k \in Outs |-> << >>]] ELSE s[id]]

\* (Fault: the outputs are forgotten although a later instruction creates the register.)
CompletesAny(cv, id) == [r \in DOMAIN cv |-> IF \E k \in Outs : st[id].onames[k] = r THEN CvNull ELSE cv[r]]
\* The outputs id completes: forgotten by the create vector they are the latest entry of.
Completes(cv, id) ==
    [r \in DOMAIN cv |-> IF \E k \in Outs : st[id].onames[k] = r /\ cv[r] = [rs |-> id, odep |-> k]
                         THEN CvNull ELSE cv[r]]

Writeback ==
    /\ stage = "writeback" /\ panic = "" /\ Due /\ Valid(Head(event_queue))
    /\ LET id == Head(event_queue).rs
           rs == st[id]
           squashed == IF rs.recover THEN SquashedRuu(id) \cup SquashedLsq(id) ELSE {}
           s1 == Squash(st, squashed)
           produced == {k \in Outs : rs.onames[k] # NA}
           chain == (IF 0 \in produced THEN s1[id].odeps[0] ELSE << >>)
                    \o (IF 1 \in produced THEN s1[id].odeps[1] ELSE << >>)
           wakes(t, k) == \E i \in DOMAIN chain :
                              chain[i].rs = t /\ chain[i].x = k /\ ValidIn(s1, chain[i])
           s2 == [t \in Stations |->
                   [s1[t] EXCEPT !.ready = [k \in Ops |-> @[k] \/ wakes(t, k)],
                                 !.completed = @ \/ t = id,
                                 !.odeps = [k \in Outs |-> IF t = id /\ k \in produced
                                                           THEN << >> ELSE @[k]]]]
           \* the links that made the last operand of their station ready, in order
           last == {i \in DOMAIN chain :
                      /\ ValidIn(s1, chain[i])
                      /\ OperandsReady(s2[chain[i].rs])
                      /\ s2[chain[i].rs].kind # "load"
                      /\ \A j \in i + 1..Len(chain) :
                            ~(chain[j].rs = chain[i].rs /\ ValidIn(s1, chain[j]))}
           order == InOrder(last)
           woken == [n \in DOMAIN order |-> chain[order[n]].rs]
       IN /\ st' = MarkQueued(s2, woken)
          /\ ready_queue' = EnqueueAll(s2, ready_queue, woken)
          /\ event_queue' = Tail(event_queue)
          /\ rslinks' = rslinks + 1 + LinksOf(squashed) + Len(chain) - Len(woken)
          /\ RUU_num' = RUU_num - Cardinality(squashed \cap RuuIds)
          /\ LSQ_num' = LSQ_num - Cardinality(squashed \cap LsqIds)
          /\ RUU_tail' = (RUU_tail + RUU_size - Cardinality(squashed \cap RuuIds)) % RUU_size
          /\ LSQ_tail' = (LSQ_tail + LSQ_size - Cardinality(squashed \cap LsqIds)) % LSQ_size
          /\ spec_create_vector' = IF rs.spec THEN Completes(spec_create_vector, id) ELSE spec_create_vector
          /\ create_vector' = IF rs.spec THEN create_vector ELSE Completes(create_vector, id)
          /\ use_spec_cv' = IF rs.recover THEN {} ELSE use_spec_cv
          /\ spec_mode' = (spec_mode /\ ~rs.recover)
          /\ panic' =
                 IF ~OperandsReady(rs) \/ rs.queued \/ ~rs.issued \/ rs.completed
                     THEN "inst completed and !ready, !issued, or completed"
                 ELSE IF rs.recover /\ InLSQ(rs)
                     THEN "mis-predicted load or store?!?!?"
                 ELSE IF rs.recover /\ ~spec_mode
                     THEN "cannot recover unless in speculative mode"
                 ELSE IF RuuAt(RUU_head) \in squashed
                     THEN "RUU head and tail broken"
                 ELSE IF Cardinality(squashed \cap LsqIds) > LSQ_num
                     THEN "RUU and LSQ out of sync"
                 ELSE IF \E i \in DOMAIN chain : ValidIn(s1, chain[i]) /\ s1[chain[i].rs].ready[chain[i].x]
                     THEN "output dependence already satisfied"
                 ELSE IF \E t \in ToSet(woken) : st[t].queued
                     THEN "node is already queued"
                 ELSE panic
    /\ UNCHANGED <<RUU_head, LSQ_head, busy, last_op, inst_seq, stage, count, scan>>

AfterWriteback == IF bugcompat_mode THEN "dispatch" ELSE "lsq_refresh"

WritebackDone ==
    /\ stage = "writeback" /\ panic = "" /\ ~Due
    /\ GoTo(AfterWriteback)
    /\ UNCHANGED <<st, queueVars, cvVars, ready_queue, event_queue, rslinks, busy, last_op,
                   spec_mode, inst_seq, scan, panic>>

-----------------------------------------------------------------------------
(* lsq_refresh                                                             *)

IsStore(id) == st[id].kind = "store"
AddrReady(id) == st[id].ready[1]                             \* STORE_ADDR_READY

\* (Fault: the search goes past stores whose address is unknown.)
SearchedAll == 1..LSQ_num
\* LSQ positions up to the first store whose address is unknown.
Searched == {p \in 1..LSQ_num : \A q \in 1..p : IsStore(LsqLive[q]) => AddrReady(LsqLive[q])}

StoreKnown(p) == IsStore(LsqLive[p]) /\ OperandsReady(st[LsqLive[p]])
StoreUnknown(p) == IsStore(LsqLive[p]) /\ ~OperandsReady(st[LsqLive[p]])
AddrAt(p) == st[LsqLive[p]].addr

\* What std_unknowns holds for store q when the search has come to p: its address, or the
\* bogus address 0 once a later known store hides it.
StdUnknown(q, p) == IF \E r \in q + 1..p - 1 : StoreKnown(r) /\ AddrAt(r) = AddrAt(q)
                    THEN 0 ELSE AddrAt(q)

MayRead(p) ==
    LET r == st[LsqLive[p]]
    IN /\ r.kind = "load" /\ ~r.queued /\ ~r.issued /\ ~r.completed /\ OperandsReady(r)
       /\ \A q \in 1..p - 1 : StoreUnknown(q) => StdUnknown(q, p) # r.addr

\* lsq_refresh queues the loads memory does not hold back; ruu_issue then takes the queue.
LsqRefresh ==
    /\ stage = "lsq_refresh" /\ panic = ""
    /\ LET order == InOrder({p \in Searched : MayRead(p)})
           loads == [n \in DOMAIN order |-> LsqLive[order[n]]]
       IN /\ st' = MarkQueued(st, loads)
          /\ scan' = EnqueueAll(st, ready_queue, loads)
          /\ ready_queue' = << >>
          /\ rslinks' = rslinks - Len(loads)
          /\ panic' =
                 IF Cardinality({q \in Searched : StoreUnknown(q)}) > MAX_STD_UNKNOWNS
                     THEN "STD unknown array overflow, increase MAX_STD_UNKNOWNS"
                 ELSE IF rslinks < Len(loads)
                     THEN "out of rs links"
                 ELSE panic
    /\ GoTo("issue")
    /\ UNCHANGED <<queueVars, cvVars, event_queue, busy, last_op, spec_mode, inst_seq>>

-----------------------------------------------------------------------------
(* ruu_issue                                                               *)

Issuing == stage = "issue" /\ panic = "" /\ scan # << >>
AtScan == Head(scan).rs

issueFrame == <<queueVars, cvVars, last_op, spec_mode, inst_seq, stage>>

\* A link to a squashed instruction is dropped, whether there is bandwidth left or not.
DropStaleReady ==
    /\ Issuing /\ ~Valid(Head(scan))
    /\ scan' = Tail(scan)
    /\ rslinks' = rslinks + 1
    /\ UNCHANGED <<st, ready_queue, event_queue, busy, count, panic, issueFrame>>

MayIssue == Issuing /\ Valid(Head(scan)) /\ count < IssueWidth

IssuePanic ==
    LET r == st[AtScan]
    IN ~OperandsReady(r) \/ ~r.queued \/ r.issued \/ r.completed

\* A store completes at once, its data in the LSQ.
IssueStore ==
    /\ MayIssue /\ IsStore(AtScan)
    /\ st' = [st EXCEPT ![AtScan].queued = FALSE, ![AtScan].issued = TRUE, ![AtScan].completed = TRUE]
    /\ scan' = Tail(scan)
    /\ rslinks' = rslinks + 1
    /\ count' = count + 1
    /\ panic' =
           IF IssuePanic
               THEN "issued inst !ready, issued, or completed"
           ELSE IF \E k \in Outs : st[AtScan].onames[k] # NA
               THEN "store creates result"
           ELSE IF st[AtScan].recover
                THEN "mis-predicted store"
            ELSE panic
    /\ UNCHANGED <<ready_queue, event_queue, busy, issueFrame>>

\* The LSQ entry a load gets its value from: the nearest earlier store to its address.
Earlier(id) == {q \in 1..LSQ_num : \E p \in 1..LSQ_num : LsqLive[p] = id /\ q < p}
Forwards(id) == \E q \in Earlier(id) : IsStore(LsqLive[q]) /\ AddrAt(q) = st[id].addr

\* A unit is found, or none is needed, and the writeback event is queued.
Latencies(id) ==
    IF st[id].class = NA THEN {1}
    ELSE IF st[id].kind = "load" THEN LoadLats \cup (IF Forwards(id) THEN {1} ELSE {})
    ELSE {FuClass[st[id].class].oplat}

IssueToUnit(lat) ==
    /\ MayIssue /\ ~IsStore(AtScan)
    /\ lat \in Latencies(AtScan)
    /\ st[AtScan].class # NA => FreeUnits(st[AtScan].class) # {}
    /\ st' = [st EXCEPT ![AtScan].queued = FALSE, ![AtScan].issued = TRUE]
    /\ busy' = IF st[AtScan].class = NA THEN busy ELSE Reserve(st[AtScan].class)
    /\ event_queue' = InsertEvent(event_queue, LinkTo(st, AtScan, lat))
    /\ scan' = Tail(scan)
    /\ count' = count + 1
    /\ panic' =
           IF IssuePanic
               THEN "issued inst !ready, issued, or completed"
           ELSE IF rslinks = 0
               THEN "out of rs links"
           ELSE panic
    /\ UNCHANGED <<ready_queue, rslinks, issueFrame>>

\* No unit is free, or the issue bandwidth is used up: back to the ready queue.
Requeue ==
    /\ Issuing /\ Valid(Head(scan))
    /\ \/ count >= IssueWidth
       \/ ~IsStore(AtScan) /\ st[AtScan].class # NA /\ FreeUnits(st[AtScan].class) = {}
    /\ ready_queue' = EnqueueAll(st, ready_queue, <<AtScan>>)
    /\ scan' = Tail(scan)
    /\ panic' =
           IF count < IssueWidth /\ IssuePanic
               THEN "issued inst !ready, issued, or completed"
           ELSE IF rslinks = 0
               THEN "out of rs links"
           ELSE panic
    /\ UNCHANGED <<st, event_queue, rslinks, busy, count, issueFrame>>

IssueDone ==
    /\ stage = "issue" /\ panic = "" /\ scan = << >>
    /\ GoTo(IF bugcompat_mode THEN "fetch" ELSE "dispatch")
    /\ UNCHANGED <<st, queueVars, cvVars, ready_queue, event_queue, rslinks, busy, last_op,
                   spec_mode, inst_seq, scan, panic>>

-----------------------------------------------------------------------------
(* ruu_dispatch                                                            *)

\* (Fault: the speculative entries are not looked at.)
CreateVectorPlain(r) == create_vector[r]
CREATE_VECTOR(r) == IF r \in use_spec_cv THEN spec_create_vector[r] ELSE create_vector[r]

\* (Fault: a squashed instruction is waited for.)
StalledBlind == ruu_inorder_issue /\ last_op.rs # Null /\ ~OperandsReady(st[last_op.rs])
\* In-order issue waits for the operands of the instruction before.
Stalled == ruu_inorder_issue /\ last_op.rs # Null /\ Valid(last_op) /\ ~OperandsReady(st[last_op.rs])

MayDispatch ==
    /\ stage = "dispatch" /\ panic = ""
    /\ count < DecodeWidth /\ RUU_num < RUU_size /\ LSQ_num < LSQ_size
    /\ IncludeSpec \/ ~spec_mode
    /\ ~Stalled
    /\ inst_seq + 2 <= MaxInsts

\* History: the instruction whose result the name r stands for at this point of the program,
\* found by age among all those in the machine, or 0 if none has its result still to come.
Writers(r) == {id \in ToSet(RuuLive) \cup ToSet(LsqLive) : \E k \in Outs : st[id].onames[k] = r}
Producer(r) ==
    IF r = NA \/ Writers(r) = {} THEN 0
    ELSE LET w == CHOOSE id \in Writers(r) : \A o \in Writers(r) : st[o].seq <= st[id].seq
         IN IF st[w].completed THEN 0 ELSE st[w].seq

Creator(r) == IF r = NA THEN CvNull ELSE CREATE_VECTOR(r)

\* A station filled in for instruction i with operands ins, creators cs and outputs outs.
Filled(id, i, kind, class, first, mispredict, seq, cs, deps, outs) ==
    [st[id] EXCEPT !.seq = seq, !.kind = kind, !.class = class, !.first = first,
                   !.recover = mispredict, !.spec = spec_mode,
                   !.addr = IF kind = "agen" THEN 0 ELSE i.addr,
                   !.queued = FALSE, !.issued = FALSE, !.completed = FALSE,
                   !.onames = outs, !.deps = deps,
                   !.ready = [k \in Ops |-> cs[k].rs = Null],
                   !.odeps = [k \in Outs |-> IF outs[k] = NA THEN @[k] ELSE << >>]]

\* ruu_link_idep for operand k with creator c: a link prepended to the creator's output chain.
LinkIdep(s, id, c, k) ==
    IF c.rs = Null THEN s ELSE [s EXCEPT ![c.rs].odeps[c.odep] = <<LinkTo(s, id, k)>> \o @]
Linked(s, id, cs) == LinkIdep(LinkIdep(LinkIdep(s, id, cs[0], 0), id, cs[1], 1), id, cs[2], 2)

NewLinks(cs) == Cardinality({k \in Ops : cs[k].rs # Null})

\* SET_CREATE_VECTOR for the outputs of a station: output 1 is set after output 0.
Install(cv, id, outs) ==
    [r \in DOMAIN cv |-> IF r = outs[1] THEN [rs |-> id, odep |-> 1]
                         ELSE IF r = outs[0] THEN [rs |-> id, odep |-> 0] ELSE cv[r]]

InstallAll(id, outs) ==
    IF spec_mode
    THEN /\ spec_create_vector' = Install(spec_create_vector, id, outs)
         /\ use_spec_cv' = use_spec_cv \cup ({outs[0], outs[1]} \ {NA})
         /\ UNCHANGED create_vector
    ELSE create_vector' = Install(create_vector, id, outs) /\ UNCHANGED <<spec_create_vector, use_spec_cv>>

NoOuts == [k \in Outs |-> NA]

\* Any instruction but a load or store.
DispatchOp(i, mispredict) ==
    /\ MayDispatch /\ i.kind \in {"op", "ctrl", "trap"}
    /\ i.kind = "trap" => RUU_num = 0
    /\ mispredict => i.kind = "ctrl" /\ ~spec_mode
    /\ LET id == RuuAt(RUU_tail)
           cs == [k \in Ops |-> Creator(i.ins[k])]
           deps == [k \in Ops |-> Producer(i.ins[k])]
           s1 == [st EXCEPT ![id] = Filled(id, i, i.kind, i.class, i.first, mispredict,
                                           inst_seq + 1, cs, deps, i.outs)]
           s2 == Linked(s1, id, cs)
           ready == OperandsReady(s2[id])
       IN /\ st' = IF ready THEN MarkQueued(s2, <<id>>) ELSE s2
          /\ ready_queue' = IF ready THEN EnqueueAll(s2, ready_queue, <<id>>) ELSE ready_queue
          /\ rslinks' = rslinks - NewLinks(cs) - (IF ready THEN 1 ELSE 0)
          /\ last_op' = IF ready THEN NullLink ELSE LinkTo(s2, id, 0)
          /\ InstallAll(id, i.outs)
          /\ panic' =
                 IF i.kind = "trap" /\ spec_mode
                     THEN "drained and speculative"
                 ELSE IF rslinks' < 0
                     THEN "out of rs links"
                 ELSE panic
    /\ RUU_tail' = (RUU_tail + 1) % RUU_size /\ RUU_num' = RUU_num + 1
    /\ inst_seq' = inst_seq + 1
    /\ count' = count + 1
    /\ spec_mode' = (spec_mode \/ mispredict)
    /\ UNCHANGED <<RUU_head, LSQ_head, LSQ_tail, LSQ_num, event_queue, busy, stage, scan>>

\* A load or store: an address computation in the RUU and the access in the LSQ, which waits
\* for it under the name DTMP.
DispatchMem(i) ==
    /\ MayDispatch /\ i.kind \in {"load", "store"}
    /\ LET id == RuuAt(RUU_tail)
           lsq == LsqAt(LSQ_tail)
           aOuts == [k \in Outs |-> IF k = 0 THEN DTMP ELSE NA]
           aCs == [k \in Ops |-> IF k = 0 THEN CvNull ELSE Creator(i.ins[k])]
           aDeps == [k \in Ops |-> IF k = 0 THEN 0 ELSE Producer(i.ins[k])]
           mCs == [k \in Ops |-> CASE k = 0 -> Creator(i.ins[0])
                                   [] k = 1 -> [rs |-> id, odep |-> 0]
                                   [] k = 2 -> CvNull]
           mDeps == [k \in Ops |-> CASE k = 0 -> Producer(i.ins[0]) [] k = 1 -> inst_seq + 1 [] k = 2 -> 0]
           s1 == Linked([st EXCEPT ![id] = Filled(id, i, "agen", i.agen, FALSE, FALSE, inst_seq + 1,
                                                  aCs, aDeps, aOuts)], id, aCs)
           s2 == Linked([s1 EXCEPT ![lsq] = Filled(lsq, i, i.kind, i.class, TRUE, FALSE, inst_seq + 2,
                                                   mCs, mDeps, i.outs)], lsq, mCs)
           ready == OperandsReady(s2[id])
       IN /\ st' = IF ready THEN MarkQueued(s2, <<id>>) ELSE s2
          /\ ready_queue' = IF ready THEN EnqueueAll(s2, ready_queue, <<id>>) ELSE ready_queue
          /\ rslinks' = rslinks - NewLinks(aCs) - NewLinks(mCs) - (IF ready THEN 1 ELSE 0)
          /\ last_op' = LinkTo(s2, lsq, 0)
          /\ LET both(cv) == Install(Install(cv, id, aOuts), lsq, i.outs)
             IN IF spec_mode
                THEN /\ spec_create_vector' = both(spec_create_vector)
                     /\ use_spec_cv' = use_spec_cv \cup ({DTMP, i.outs[0], i.outs[1]} \ {NA})
                     /\ UNCHANGED create_vector
                ELSE create_vector' = both(create_vector) /\ UNCHANGED <<spec_create_vector, use_spec_cv>>
          /\ panic' = IF rslinks' < 0 THEN "out of rs links" ELSE panic
    /\ RUU_tail' = (RUU_tail + 1) % RUU_size /\ RUU_num' = RUU_num + 1
    /\ LSQ_tail' = (LSQ_tail + 1) % LSQ_size /\ LSQ_num' = LSQ_num + 1
    /\ inst_seq' = inst_seq + 2
    /\ count' = count + 1
    /\ UNCHANGED <<RUU_head, LSQ_head, event_queue, busy, spec_mode, stage, scan>>

\* The bandwidth, the room or the fetched instructions have run out.
DispatchDone ==
    /\ stage = "dispatch" /\ panic = ""
    /\ GoTo(IF bugcompat_mode THEN "lsq_refresh" ELSE "fetch")
    /\ UNCHANGED <<st, queueVars, cvVars, ready_queue, event_queue, rslinks, busy, last_op,
                   spec_mode, inst_seq, scan, panic>>

\* The end of the cycle, after ruu_fetch: sim_cycle moves on.
Tick ==
    /\ stage = "fetch" /\ panic = ""
    /\ event_queue' = [n \in DOMAIN event_queue |-> [event_queue[n] EXCEPT !.x = @ - 1]]
    /\ GoTo("commit")
    /\ UNCHANGED <<st, queueVars, cvVars, ready_queue, rslinks, busy, last_op, spec_mode,
                   inst_seq, scan, panic>>

-----------------------------------------------------------------------------
Lats == LoadLats \cup {1} \cup {FuClass[c].oplat : c \in DOMAIN FuClass}

Commit == CommitHead \/ CommitDone
WritebackStage == DropStaleEvent \/ Writeback \/ WritebackDone
Issue == \/ DropStaleReady \/ IssueStore \/ Requeue \/ IssueDone
         \/ \E lat \in Lats : IssueToUnit(lat)
Dispatch == \/ \E i \in program : DispatchMem(i) \/ \E m \in BOOLEAN : DispatchOp(i, m)
            \/ DispatchDone

Next ==
    /\ Commit \/ WritebackStage \/ LsqRefresh \/ Issue \/ Dispatch \/ Tick
    /\ UNCHANGED options

Spec == Init /\ [][Next]_vars

\* The main loop runs until the simulation ends: some handler always has its turn.
FairSpec == Spec /\ WF_vars(Next)
=============================================================================
