---------------------------- MODULE RuuFlowProofs ----------------------------
(***************************************************************************)
(* What instructions of the execution core wait for, proved from the       *)
(* invariant of RuuProofs: loads for the stores before them, instructions  *)
(* on the ready queue for a unit, operands for the instructions that       *)
(* produce them.  The last of these rests on the order of the numbers of   *)
(* instructions and on the create vectors, which come before it.  From all *)
(* of them follows that no sanity check fails.                             *)
(***************************************************************************)
EXTENDS RuuProofs

-----------------------------------------------------------------------------
(* What the steps do to the operands and flags of the instructions.        *)

SameRest(a, b) == /\ a.addr = b.addr /\ a.deps = b.deps /\ a.queued = b.queued /\ a.issued = b.issued
                  /\ a.ready = b.ready

LEMMA LinkIdepRest ==
    ASSUME NEW s, s \in [Stations -> StationType], NEW id, NEW c \in CvType, NEW k,
           NEW u, u = LinkIdep(s, id, c, k)
    PROVE  \A x \in Stations : SameRest(u[x], s[x])
<1> SUFFICES ASSUME NEW x \in Stations PROVE SameRest(u[x], s[x])
  OBVIOUS
<1>1. s[x] \in StationType
  OBVIOUS
<1>2. CASE c.rs = Null
  BY <1>2 DEF LinkIdep, SameRest
<1>3. CASE c.rs # Null
  <2> DEFINE new == <<LinkTo(s, id, k)>> \o s[c.rs].odeps[c.odep]
  <2>1. u = [s EXCEPT ![c.rs].odeps[c.odep] = new]
    BY <1>3 DEF LinkIdep
  <2> HIDE DEF new
  <2>2. u[x] = s[x] \/ u[x] = [s[x] EXCEPT !.odeps[c.odep] = new]
    BY <2>1
  <2> QED BY <1>1, <2>2 DEF StationType, SameRest
<1> QED BY <1>2, <1>3

LEMMA LinkedRest ==
    ASSUME NEW s, s \in [Stations -> StationType], NEW id \in Stations, NEW C, \A k \in Ops : C[k] \in CvType,
           NEW u, u = Linked(s, id, C)
    PROVE  \A x \in Stations : SameRest(u[x], s[x])
<1>1. 0 \in Ops /\ 1 \in Ops /\ 2 \in Ops
  BY DEF Ops
<1>2. PICK a : a = LinkIdep(s, id, C[0], 0)
  OBVIOUS
<1>3. PICK b : b = LinkIdep(a, id, C[1], 1)
  OBVIOUS
<1>4. u = LinkIdep(b, id, C[2], 2)
  BY <1>2, <1>3 DEF Linked
<1>5. Linking(a, s, id, C, One(C[0]))
  BY <1>1, <1>2, LinkIdepIs DEF One
<1>6. a \in [Stations -> StationType]
  BY <1>5 DEF Linking
<1>7. Linking(b, a, id, C, One(C[1]))
  BY <1>1, <1>3, <1>6, LinkIdepIs DEF One
<1>8. b \in [Stations -> StationType]
  BY <1>7 DEF Linking
<1>9. \A x \in Stations : SameRest(a[x], s[x]) /\ SameRest(b[x], a[x]) /\ SameRest(u[x], b[x])
  BY <1>1, <1>2, <1>3, <1>4, <1>6, <1>8, LinkIdepRest
<1> QED BY <1>9 DEF SameRest

LEMMA MarkedRest ==
    ASSUME NEW s \in [Stations -> StationType], NEW ids, NEW x \in Stations, NEW a, a = MarkQueued(s, ids)[x]
    PROVE  /\ a \in StationType
           /\ a.addr = s[x].addr /\ a.deps = s[x].deps /\ a.issued = s[x].issued /\ a.ready = s[x].ready
           /\ a.kind = s[x].kind /\ a.completed = s[x].completed /\ a.tag = s[x].tag /\ a.odeps = s[x].odeps
           /\ a.queued <=> s[x].queued \/ x \in ToSet(ids)
<1>1. s[x] \in StationType
  OBVIOUS
<1>2. CASE x \in ToSet(ids)
  <2>1. a = [s[x] EXCEPT !.queued = TRUE]
    BY <1>2 DEF MarkQueued
  <2> QED BY <1>1, <1>2, <2>1 DEF StationType
<1>3. CASE x \notin ToSet(ids)
  <2>1. a = s[x]
    BY <1>3 DEF MarkQueued
  <2> QED BY <1>1, <1>3, <2>1
<1> QED BY <1>2, <1>3

LEMMA FilledRest ==
    ASSUME RuuCore, NEW id \in Stations, NEW i, NEW kind, NEW class, NEW first, NEW mispredict, NEW seq,
           NEW cs, NEW deps, NEW outs,
           NEW a, a = Filled(id, i, kind, class, first, mispredict, seq, cs, deps, outs)
    PROVE  /\ ~a.queued /\ ~a.issued /\ a.deps = deps /\ a.ready = [k \in Ops |-> cs[k].rs = Null]
<1>1. st[id] \in StationType
  BY DEF RuuCore, Typed
<1> DEFINE addr == IF kind = "agen" THEN 0 ELSE i.addr
           ready == [k \in Ops |-> cs[k].rs = Null]
           odeps == [k \in Outs |-> IF outs[k] = NA THEN st[id].odeps[k] ELSE << >>]
<1>2. a = [st[id] EXCEPT !.seq = seq, !.kind = kind, !.class = class, !.first = first,
                         !.recover = mispredict, !.spec = spec_mode, !.addr = addr,
                         !.queued = FALSE, !.issued = FALSE, !.completed = FALSE,
                         !.onames = outs, !.deps = deps, !.ready = ready, !.odeps = odeps]
  BY DEF Filled
<1>3. PICK r, o : r = ready /\ o = odeps
  OBVIOUS
<1>4. PICK d : d = addr
  OBVIOUS
<1>5. a = [st[id] EXCEPT !.seq = seq, !.kind = kind, !.class = class, !.first = first,
                         !.recover = mispredict, !.spec = spec_mode, !.addr = d,
                         !.queued = FALSE, !.issued = FALSE, !.completed = FALSE,
                         !.onames = outs, !.deps = deps, !.ready = r, !.odeps = o]
  BY <1>2, <1>3, <1>4
<1>6. ~a.queued
  BY <1>1, <1>5 DEF StationType
<1>7. ~a.issued
  BY <1>1, <1>5 DEF StationType
<1>8. a.deps = deps /\ a.ready = r
  BY <1>1, <1>5 DEF StationType
<1> QED BY <1>3, <1>6, <1>7, <1>8

\* Station id is queued if it has its operands.
Enqueued(t, id) ==
    IF OperandsReady(t[id])
    THEN st' = MarkQueued(t, <<id>>) /\ ready_queue' = EnqueueAll(t, ready_queue, <<id>>)
    ELSE st' = t /\ ready_queue' = ready_queue

LEMMA OpEnqueues ==
    ASSUME RuuCore, NEW i, NEW m, DispatchOp(i, m)
    PROVE  \E id, a, t : OpDispatched(i, m, id, a, t) /\ Enqueued(t, id)
<1>1. PICK id, a, t : OpDispatched(i, m, id, a, t)
  BY OpDispatchedIs
<1>2. /\ id = RuuAt(RUU_tail) /\ t = Linked([st EXCEPT ![id] = a], id, Creators(i))
      /\ a = Filled(id, i, i.kind, i.class, i.first, m, inst_seq + 1, Creators(i),
                    [k \in Ops |-> Producer(i.ins[k])], i.outs)
  BY <1>1 DEF OpDispatched
<1> DEFINE u == LET d == RuuAt(RUU_tail)
                    cs == [k \in Ops |-> Creator(i.ins[k])]
                    deps == [k \in Ops |-> Producer(i.ins[k])]
                IN Linked([st EXCEPT ![d] = Filled(d, i, i.kind, i.class, i.first, m, inst_seq + 1, cs, deps, i.outs)],
                          d, cs)
           v == RuuAt(RUU_tail)
<1>3. /\ st' = (IF OperandsReady(u[v]) THEN MarkQueued(u, <<v>>) ELSE u)
      /\ ready_queue' = (IF OperandsReady(u[v]) THEN EnqueueAll(u, ready_queue, <<v>>) ELSE ready_queue)
  BY DEF DispatchOp
<1>4. u = t /\ v = id
  BY <1>2 DEF Creators
<1> HIDE DEF u, v
<1>5. Enqueued(t, id)
  BY <1>3, <1>4 DEF Enqueued
<1> QED BY <1>1, <1>5

LEMMA MemEnqueues ==
    ASSUME RuuCore, NEW i, DispatchMem(i)
    PROVE  \E id, lsq, a, t, b, u : /\ MemDispatched(i, id, lsq, a, t, b, u) /\ MemInstalled(i, id, lsq)
                                    /\ Enqueued(u, id)
<1>1. PICK id, lsq, a, t, b, u : MemDispatched(i, id, lsq, a, t, b, u) /\ MemInstalled(i, id, lsq)
  BY MemDispatchedIs
<1>2. /\ id = RuuAt(RUU_tail) /\ lsq = LsqAt(LSQ_tail)
      /\ a = Filled(id, i, "agen", i.agen, FALSE, FALSE, inst_seq + 1, AddrCs(i),
                    [k \in Ops |-> IF k = 0 THEN 0 ELSE Producer(i.ins[k])], AddrOuts)
      /\ t = Linked([st EXCEPT ![id] = a], id, AddrCs(i))
      /\ b = Filled(lsq, i, i.kind, i.class, TRUE, FALSE, inst_seq + 2, AccessCs(i, id),
                    [k \in Ops |-> CASE k = 0 -> Producer(i.ins[0]) [] k = 1 -> inst_seq + 1 [] k = 2 -> 0],
                    i.outs)
      /\ u = Linked([t EXCEPT ![lsq] = b], lsq, AccessCs(i, id))
  BY <1>1 DEF MemDispatched
<1> DEFINE d == RuuAt(RUU_tail)
           e == LsqAt(LSQ_tail)
           aOuts == [k \in Outs |-> IF k = 0 THEN DTMP ELSE NA]
           aCs == [k \in Ops |-> IF k = 0 THEN CvNull ELSE Creator(i.ins[k])]
           aDeps == [k \in Ops |-> IF k = 0 THEN 0 ELSE Producer(i.ins[k])]
           mCs == [k \in Ops |-> CASE k = 0 -> Creator(i.ins[0])
                                   [] k = 1 -> [rs |-> d, odep |-> 0]
                                   [] k = 2 -> CvNull]
           mDeps == [k \in Ops |-> CASE k = 0 -> Producer(i.ins[0]) [] k = 1 -> inst_seq + 1 [] k = 2 -> 0]
           s1 == Linked([st EXCEPT ![d] = Filled(d, i, "agen", i.agen, FALSE, FALSE, inst_seq + 1,
                                                  aCs, aDeps, aOuts)], d, aCs)
           s2 == Linked([s1 EXCEPT ![e] = Filled(e, i, i.kind, i.class, TRUE, FALSE, inst_seq + 2,
                                                   mCs, mDeps, i.outs)], e, mCs)
<1>3. /\ st' = (IF OperandsReady(s2[d]) THEN MarkQueued(s2, <<d>>) ELSE s2)
      /\ ready_queue' = (IF OperandsReady(s2[d]) THEN EnqueueAll(s2, ready_queue, <<d>>) ELSE ready_queue)
  BY DEF DispatchMem
<1>4. aOuts = AddrOuts /\ aCs = AddrCs(i) /\ mCs = AccessCs(i, d)
  BY DEF AddrOuts, AddrCs, AccessCs
<1>5. d = id /\ e = lsq /\ s1 = t
  BY <1>2, <1>4
<1> HIDE DEF s1
<1>6. s2 = u
  BY <1>2, <1>4, <1>5
<1> HIDE DEF s2, d, e
<1>7. Enqueued(u, id)
  BY <1>3, <1>5, <1>6 DEF Enqueued
<1> QED BY <1>1, <1>7

\* A station t holds what is new, and what dispatch makes of it.
LEMMA EnqueuedRest ==
    ASSUME NEW t \in [Stations -> StationType], NEW id \in Stations, Enqueued(t, id)
    PROVE  /\ st' \in [Stations -> StationType]
           /\ \A x \in Stations : x # id => SameRest(st'[x], t[x])
           /\ \A x \in Stations : /\ st'[x].ready = t[x].ready /\ st'[x].deps = t[x].deps
                                  /\ st'[x].issued = t[x].issued /\ st'[x].addr = t[x].addr
                                  /\ st'[x].kind = t[x].kind /\ st'[x].tag = t[x].tag
                                  /\ st'[x].odeps = t[x].odeps
           /\ st'[id].queued <=> t[id].queued \/ OperandsReady(t[id])
<1>1. CASE OperandsReady(t[id])
  <2>1. st' = MarkQueued(t, <<id>>)
    BY <1>1 DEF Enqueued
  <2>2. st' \in [Stations -> StationType]
    BY <2>1, Marked
  <2>3. ToSet(<<id>>) = {id}
    BY DEF ToSet
  <2>4. \A x \in Stations :
           /\ st'[x].addr = t[x].addr /\ st'[x].deps = t[x].deps /\ st'[x].issued = t[x].issued
           /\ st'[x].ready = t[x].ready /\ st'[x].kind = t[x].kind /\ st'[x].tag = t[x].tag
           /\ st'[x].odeps = t[x].odeps /\ (st'[x].queued <=> t[x].queued \/ x \in {id})
    BY <2>1, <2>3, MarkedRest
  <2>5. \A x \in Stations : st'[x].queued \in BOOLEAN /\ t[x].queued \in BOOLEAN
    BY <2>2 DEF StationType
  <2> QED BY <1>1, <2>2, <2>4, <2>5 DEF SameRest
<1>2. CASE ~OperandsReady(t[id])
  BY <1>2 DEF Enqueued, SameRest
<1> QED BY <1>1, <1>2

\* What a new station id of operation i holds, all others being as they were.
OpRested(i, id) ==
    /\ id \in Stations /\ \A x \in Stations : x # id => SameRest(st'[x], st[x])
    /\ ~st'[id].issued /\ (st'[id].queued <=> OperandsReady(st'[id]))
    /\ st'[id].ready = [k \in Ops |-> Creators(i)[k].rs = Null]
    /\ st'[id].deps = [k \in Ops |-> Producer(i.ins[k])]

LEMMA OpRest ==
    ASSUME RuuCore, NEW i \in program, NEW m \in BOOLEAN, NEW id, NEW a, NEW t,
           OpDispatched(i, m, id, a, t), Enqueued(t, id)
    PROVE  OpRested(i, id)
<1>1. /\ a = Filled(id, i, i.kind, i.class, i.first, m, inst_seq + 1, Creators(i),
                    [k \in Ops |-> Producer(i.ins[k])], i.outs)
      /\ t = Linked([st EXCEPT ![id] = a], id, Creators(i))
  BY DEF OpDispatched
<1>2. id \in Stations /\ a \in StationType /\ t \in [Stations -> StationType]
  BY OpPlaced DEF Entry, Placed
<1>3. \A k \in Ops : Creators(i)[k] \in CvType
  BY CreatorsAre, OfferedIs
<1>4. st \in [Stations -> StationType]
  BY DEF RuuCore, Typed
<1>5. PICK s : s = [st EXCEPT ![id] = a]
  OBVIOUS
<1>6. s \in [Stations -> StationType] /\ s[id] = a /\ \A x \in Stations : x # id => s[x] = st[x]
  BY <1>2, <1>4, <1>5
<1>7. \A x \in Stations : SameRest(t[x], s[x])
  BY <1>1, <1>2, <1>3, <1>5, <1>6, LinkedRest
<1>8. /\ ~a.queued /\ ~a.issued /\ a.deps = [k \in Ops |-> Producer(i.ins[k])]
      /\ a.ready = [k \in Ops |-> Creators(i)[k].rs = Null]
  BY <1>1, <1>2, FilledRest
<1>9. /\ \A x \in Stations : x # id => SameRest(st'[x], t[x])
      /\ st'[id].ready = t[id].ready /\ st'[id].deps = t[id].deps /\ st'[id].issued = t[id].issued
      /\ st'[id].queued <=> t[id].queued \/ OperandsReady(t[id])
  BY <1>2, EnqueuedRest
<1>10. \A x \in Stations : x # id => SameRest(st'[x], st[x])
  BY <1>6, <1>7, <1>9 DEF SameRest
<1>11. SameRest(t[id], a)
  BY <1>2, <1>6, <1>7
<1>12. OperandsReady(t[id]) <=> OperandsReady(st'[id])
  BY <1>9 DEF OperandsReady
<1> QED BY <1>2, <1>8, <1>9, <1>10, <1>11, <1>12 DEF SameRest, OpRested

LEMMA MemRest ==
    ASSUME RuuCore, NEW i \in program, NEW id, NEW lsq, NEW a, NEW t, NEW b, NEW u,
           MemDispatched(i, id, lsq, a, t, b, u), Enqueued(u, id)
    PROVE  /\ \A x \in Stations : x # id /\ x # lsq => SameRest(st'[x], st[x])
           /\ ~st'[id].issued /\ (st'[id].queued <=> OperandsReady(st'[id]))
           /\ st'[id].ready = [k \in Ops |-> AddrCs(i)[k].rs = Null]
           /\ st'[id].deps = [k \in Ops |-> IF k = 0 THEN 0 ELSE Producer(i.ins[k])]
           /\ ~st'[lsq].issued /\ ~st'[lsq].queued
           /\ st'[lsq].ready = [k \in Ops |-> AccessCs(i, id)[k].rs = Null]
           /\ st'[lsq].deps = [k \in Ops |-> CASE k = 0 -> Producer(i.ins[0]) [] k = 1 -> inst_seq + 1 [] k = 2 -> 0]
<1>1. /\ a = Filled(id, i, "agen", i.agen, FALSE, FALSE, inst_seq + 1, AddrCs(i),
                    [k \in Ops |-> IF k = 0 THEN 0 ELSE Producer(i.ins[k])], AddrOuts)
      /\ t = Linked([st EXCEPT ![id] = a], id, AddrCs(i))
      /\ b = Filled(lsq, i, i.kind, i.class, TRUE, FALSE, inst_seq + 2, AccessCs(i, id),
                    [k \in Ops |-> CASE k = 0 -> Producer(i.ins[0]) [] k = 1 -> inst_seq + 1 [] k = 2 -> 0],
                    i.outs)
      /\ u = Linked([t EXCEPT ![lsq] = b], lsq, AccessCs(i, id))
  BY DEF MemDispatched
<1>2. /\ id \in Stations /\ lsq \in Stations /\ id # lsq
      /\ a \in StationType /\ t \in [Stations -> StationType]
      /\ b \in StationType /\ u \in [Stations -> StationType]
  BY MemStations, MemPlaced DEF Entry, Placed
<1>3. \A k \in Ops : AddrCs(i)[k] \in CvType /\ AccessCs(i, id)[k] \in CvType
  BY <1>2, AddrCreators, AccessCreators
<1>4. st \in [Stations -> StationType]
  BY DEF RuuCore, Typed
<1>5. PICK s, r : s = [st EXCEPT ![id] = a] /\ r = [t EXCEPT ![lsq] = b]
  OBVIOUS
<1>6. /\ s \in [Stations -> StationType] /\ s[id] = a /\ \A x \in Stations : x # id => s[x] = st[x]
      /\ r \in [Stations -> StationType] /\ r[lsq] = b /\ \A x \in Stations : x # lsq => r[x] = t[x]
  BY <1>2, <1>4, <1>5
<1>7. (\A x \in Stations : SameRest(t[x], s[x])) /\ \A x \in Stations : SameRest(u[x], r[x])
  BY <1>1, <1>2, <1>3, <1>5, <1>6, LinkedRest
<1>8. /\ ~a.queued /\ ~a.issued /\ a.deps = [k \in Ops |-> IF k = 0 THEN 0 ELSE Producer(i.ins[k])]
      /\ a.ready = [k \in Ops |-> AddrCs(i)[k].rs = Null]
  <2>1. PICK f, d, c, o : /\ f = FALSE /\ d = [k \in Ops |-> IF k = 0 THEN 0 ELSE Producer(i.ins[k])]
                          /\ c = AddrCs(i) /\ o = AddrOuts
    OBVIOUS
  <2>2. a = Filled(id, i, "agen", i.agen, f, f, inst_seq + 1, c, d, o)
    BY <1>1, <2>1
  <2>3. ~a.queued /\ ~a.issued /\ a.deps = d /\ a.ready = [k \in Ops |-> c[k].rs = Null]
    BY <1>2, <2>2, FilledRest
  <2> QED BY <2>1, <2>3
<1>9. /\ ~b.queued /\ ~b.issued /\ b.ready = [k \in Ops |-> AccessCs(i, id)[k].rs = Null]
      /\ b.deps = [k \in Ops |-> CASE k = 0 -> Producer(i.ins[0]) [] k = 1 -> inst_seq + 1 [] k = 2 -> 0]
  <2>1. PICK e, f, d, c : /\ e = TRUE /\ f = FALSE /\ d = [k \in Ops |-> CASE k = 0 -> Producer(i.ins[0]) [] k = 1 -> inst_seq + 1 [] k = 2 -> 0]
                          /\ c = AccessCs(i, id)
    OBVIOUS
  <2>2. b = Filled(lsq, i, i.kind, i.class, e, f, inst_seq + 2, c, d, i.outs)
    BY <1>1, <2>1
  <2>3. ~b.queued /\ ~b.issued /\ b.deps = d /\ b.ready = [k \in Ops |-> c[k].rs = Null]
    BY <1>2, <2>2, FilledRest
  <2> QED BY <2>1, <2>3
<1>10. /\ \A x \in Stations : x # id => SameRest(st'[x], u[x])
       /\ st'[id].ready = u[id].ready /\ st'[id].deps = u[id].deps /\ st'[id].issued = u[id].issued
       /\ st'[id].queued <=> u[id].queued \/ OperandsReady(u[id])
  BY <1>2, EnqueuedRest
<1>11. \A x \in Stations : x # id /\ x # lsq => SameRest(st'[x], st[x])
  BY <1>6, <1>7, <1>10 DEF SameRest
<1>12. SameRest(u[id], a) /\ SameRest(st'[lsq], b)
  <2>1. SameRest(u[id], r[id]) /\ SameRest(t[id], s[id]) /\ r[id] = t[id] /\ s[id] = a
    BY <1>2, <1>6, <1>7
  <2>2. SameRest(st'[lsq], u[lsq]) /\ SameRest(u[lsq], r[lsq]) /\ r[lsq] = b
    BY <1>2, <1>6, <1>7, <1>10
  <2> QED BY <2>1, <2>2 DEF SameRest
<1>13. OperandsReady(u[id]) <=> OperandsReady(st'[id])
  BY <1>10 DEF OperandsReady
<1>14. ~st'[id].issued /\ (st'[id].queued <=> OperandsReady(st'[id])) /\ st'[id].ready = a.ready /\ st'[id].deps = a.deps
  BY <1>8, <1>10, <1>12, <1>13 DEF SameRest
<1>15. ~st'[lsq].issued /\ ~st'[lsq].queued /\ st'[lsq].ready = b.ready /\ st'[lsq].deps = b.deps
  BY <1>9, <1>12 DEF SameRest
<1> QED BY <1>8, <1>9, <1>11, <1>14, <1>15

-----------------------------------------------------------------------------
(* Loads wait for the stores they may read from.                           *)

LetGo(r) == r.kind = "load" /\ (r.queued \/ r.issued)

\* The earlier stores have their addresses, and the nearest to the same address its data.
Known(p) ==
    \A q \in 1..p - 1 : IsStore(LsqLive[q]) =>
        /\ AddrReady(LsqLive[q])
        /\ AddrAt(q) = AddrAt(p)
           /\ (\A o \in q + 1..p - 1 : ~(IsStore(LsqLive[o]) /\ AddrAt(o) = AddrAt(p)))
               => OperandsReady(st[LsqLive[q]])

LoadsKnown == \A p \in 1..LSQ_num : LetGo(st[LsqLive[p]]) => Known(p)

LEMMA KnownSeen ==
    ASSUME LSQ_num \in Nat, LoadsKnown
    PROVE  LoadsSeeStores
<1> SUFFICES ASSUME NEW p \in 1..LSQ_num, LetGo(st[LsqLive[p]]),
                    NEW same, same = {q \in 1..p - 1 : IsStore(LsqLive[q]) /\ AddrAt(q) = st[LsqLive[p]].addr}
             PROVE  /\ \A q \in 1..p - 1 : IsStore(LsqLive[q]) => AddrReady(LsqLive[q])
                    /\ same # {} => StoreKnown(CHOOSE q \in same : \A o \in same : o <= q)
  BY DEF LoadsSeeStores, LetGo
<1>1. Known(p)
  BY DEF LoadsKnown
<1>2. ASSUME same # {}
      PROVE  StoreKnown(CHOOSE q \in same : \A o \in same : o <= q)
  <2>1. IsFiniteSet(same) /\ same \subseteq Nat
    <3>1. 1 \in Int /\ p - 1 \in Int
      OBVIOUS
    <3>2. IsFiniteSet(1..p - 1) /\ same \subseteq 1..p - 1
      BY <3>1, FS_Interval
    <3> QED BY <3>2, FS_Subset
  <2> DEFINE f == [x \in same |-> x]
  <2>2. \A x \in same : f[x] \in Nat
    BY <2>1
  <2> HIDE DEF f
  <2>3. \E w \in same : \A x \in same : f[x] <= f[w]
    BY <1>2, <2>1, <2>2, Largest
  <2>4. \E w \in same : \A x \in same : x <= w
    BY <2>3 DEF f
  <2>5. PICK w : w = CHOOSE q \in same : \A o \in same : o <= q
    OBVIOUS
  <2>6. w \in same /\ \A o \in same : o <= w
    BY <2>4, <2>5
  <2>7. \A o \in w + 1..p - 1 : ~(IsStore(LsqLive[o]) /\ AddrAt(o) = AddrAt(p))
    <3> TAKE o \in w + 1..p - 1
    <3>1. w \in 1..p - 1
      BY <2>6
    <3>2. o \in 1..p - 1 /\ ~(o <= w)
      BY <3>1
    <3>3. o \notin same
      BY <2>6, <3>2
    <3> QED BY <3>2, <3>3 DEF AddrAt
  <2>8. w \in 1..p - 1 /\ IsStore(LsqLive[w]) /\ AddrAt(w) = AddrAt(p)
    BY <2>6 DEF AddrAt
  <2>9. OperandsReady(st[LsqLive[w]])
    BY <1>1, <2>7, <2>8 DEF Known
  <2> QED BY <2>5, <2>8, <2>9 DEF StoreKnown
<1> QED BY <1>1, <1>2 DEF Known

\* What an access may become: a load is not let go, and operands are not lost.
FollowsAccess(a, b) ==
    /\ a.kind = b.kind /\ a.addr = b.addr /\ (LetGo(a) => LetGo(b))
    /\ \A k \in Ops : b.ready[k] => a.ready[k]

\* The LSQ without its first d entries, at most one more at its end.
LEMMA ShiftedLoads ==
    ASSUME LoadsKnown, NEW d \in Nat, LSQ_num \in Nat, LSQ_num' \in Nat,
           \A n \in 1..LSQ_num' :
               \/ n + d \in 1..LSQ_num /\ FollowsAccess(st'[LsqLive'[n]], st[LsqLive[n + d]])
               \/ n = LSQ_num' /\ ~LetGo(st'[LsqLive'[n]])
    PROVE  LoadsKnown'
<1> SUFFICES ASSUME NEW p \in 1..LSQ_num', LetGo(st'[LsqLive'[p]]),
                    NEW q \in 1..p - 1, st'[LsqLive'[q]].kind = "store"
             PROVE  /\ st'[LsqLive'[q]].ready[1]
                    /\ st'[LsqLive'[q]].addr = st'[LsqLive'[p]].addr
                       /\ (\A o \in q + 1..p - 1 : ~(/\ st'[LsqLive'[o]].kind = "store"
                                                     /\ st'[LsqLive'[o]].addr = st'[LsqLive'[p]].addr))
                           => OperandsReady(st'[LsqLive'[q]])
  BY DEF LoadsKnown, Known, LetGo, IsStore, AddrReady, AddrAt, OperandsReady
<1>1. \A n \in 1..p : n \in 1..LSQ_num' /\ (n = LSQ_num' => n = p)
  OBVIOUS
<1>2. \A n \in 1..p : n + d \in 1..LSQ_num /\ FollowsAccess(st'[LsqLive'[n]], st[LsqLive[n + d]])
  BY <1>1
<1>3. p \in 1..p /\ q \in 1..p /\ q + d \in 1..(p + d) - 1
  OBVIOUS
<1>4. p + d \in 1..LSQ_num /\ LetGo(st[LsqLive[p + d]]) /\ IsStore(LsqLive[q + d])
  BY <1>2, <1>3 DEF FollowsAccess, IsStore
<1>5. Known(p + d)
  BY <1>4 DEF LoadsKnown
<1>6. st[LsqLive[q + d]].ready[1] /\ 1 \in Ops
  BY <1>3, <1>4, <1>5 DEF Known, AddrReady, Ops
<1>7. st'[LsqLive'[q]].ready[1]
  BY <1>2, <1>3, <1>6 DEF FollowsAccess
<1>8. ASSUME st'[LsqLive'[q]].addr = st'[LsqLive'[p]].addr,
             \A o \in q + 1..p - 1 : ~(/\ st'[LsqLive'[o]].kind = "store"
                                       /\ st'[LsqLive'[o]].addr = st'[LsqLive'[p]].addr)
      PROVE  OperandsReady(st'[LsqLive'[q]])
  <2>1. AddrAt(q + d) = AddrAt(p + d)
    BY <1>2, <1>3, <1>8 DEF FollowsAccess, AddrAt
  <2>2. ASSUME NEW o \in q + d + 1..(p + d) - 1
        PROVE  ~(IsStore(LsqLive[o]) /\ AddrAt(o) = AddrAt(p + d))
    <3>1. o - d \in q + 1..p - 1 /\ o - d \in 1..p /\ (o - d) + d = o
      OBVIOUS
    <3> QED BY <1>2, <1>3, <1>8, <3>1 DEF FollowsAccess, IsStore, AddrAt
  <2>3. OperandsReady(st[LsqLive[q + d]])
    BY <1>3, <1>4, <1>5, <2>1, <2>2 DEF Known
  <2> QED BY <1>2, <1>3, <2>3 DEF FollowsAccess, OperandsReady
<1> QED BY <1>7, <1>8

LEMMA SameLoads ==
    ASSUME RuuCore, LoadsKnown, UNCHANGED <<LSQ_head, LSQ_num>>,
           \A x \in Stations : FollowsAccess(st'[x], st[x])
    PROVE  LoadsKnown'
<1>1. LsqLive' = LsqLive /\ LSQ_num' = LSQ_num
  BY DEF LsqLive
<1>2. LSQ_num \in Nat /\ \A n \in 1..LSQ_num : LsqLive[n] \in Stations
  BY LiveLists, LiveIs DEF RuuCore, Rings, Ring, Lists
<1>3. ASSUME NEW n \in 1..LSQ_num'
      PROVE  n + 0 \in 1..LSQ_num /\ FollowsAccess(st'[LsqLive'[n]], st[LsqLive[n + 0]])
  <2>1. n + 0 = n
    BY <1>1, <1>2
  <2> QED BY <1>1, <1>2, <2>1
<1> QED BY <1>1, <1>2, <1>3, ShiftedLoads

LEMMA HeadLoads ==
    ASSUME RuuCore, LoadsKnown, CommitHead, NoPanic'
    PROVE  LoadsKnown'
<1>1. PICK gone : HeadLeaves(EaComp(st[HeadRs]), gone)
  BY CommitLeaves
<1>2. st' = [id \in Stations |-> IF id \in gone THEN [st[id] EXCEPT !.tag = @ + 1] ELSE st[id]]
  BY <1>1 DEF HeadLeaves
<1>3. ASSUME NEW x \in Stations PROVE FollowsAccess(st'[x], st[x])
  <2>1. st[x] \in StationType
    BY DEF RuuCore, Typed
  <2>2. st'[x] = [st[x] EXCEPT !.tag = st[x].tag + 1] \/ st'[x] = st[x]
    BY <1>2
  <2> QED BY <2>1, <2>2 DEF StationType, FollowsAccess, LetGo
<1>4. LSQ_num \in Nat /\ \A n \in 1..LSQ_num : LsqLive[n] \in Stations
  BY LiveLists, LiveIs DEF RuuCore, Rings, Ring, Lists
<1>5. CASE EaComp(st[HeadRs])
  <2>1. LSQ_num' = LSQ_num - 1 /\ LSQ_num > 0 /\ \A k \in 1..LSQ_num - 1 : LsqLive'[k] = LsqLive[k + 1]
    BY <1>1, <1>5, HeadLines DEF HeadLeaves
  <2>2. \A n \in 1..LSQ_num' : n + 1 \in 1..LSQ_num /\ FollowsAccess(st'[LsqLive'[n]], st[LsqLive[n + 1]])
    BY <1>3, <1>4, <2>1
  <2>3. LSQ_num' \in Nat /\ 1 \in Nat
    BY <1>4, <2>1
  <2> QED BY <1>4, <2>2, <2>3, ShiftedLoads
<1>6. CASE ~EaComp(st[HeadRs])
  <2>1. LSQ_num' = LSQ_num /\ LSQ_head' = LSQ_head
    BY <1>1, <1>6 DEF HeadLeaves
  <2> QED BY <1>3, <2>1, SameLoads
<1> QED BY <1>5, <1>6

\* What a writeback does to the operands and flags of station t.
Wakened(t) ==
    LET a == st'[t]
        b == st[t]
    IN /\ a.addr = b.addr /\ a.deps = b.deps /\ a.issued = b.issued
       /\ \A k \in Ops : a.ready[k] <=> b.ready[k] \/ Wakes(t, k)
       /\ a.queued <=> b.queued \/ t \in ToSet(Woken)

LEMMA WokenRest ==
    ASSUME RuuCore, Writeback, Finished \notin Squashed
    PROVE  \A t \in Stations : /\ Wakened(t)
                               /\ AfterWake[t].kind = st[t].kind
                               /\ AfterWake[t].ready = st'[t].ready
<1> SUFFICES ASSUME NEW t \in Stations
             PROVE  Wakened(t) /\ AfterWake[t].kind = st[t].kind /\ AfterWake[t].ready = st'[t].ready
  OBVIOUS
<1> DEFINE b == AfterSquash[t]
           ready == [k \in Ops |-> b.ready[k] \/ Wakes(t, k)]
           odeps == [k \in Outs |-> IF t = Finished /\ k \in Produced THEN << >> ELSE b.odeps[k]]
           completed == b.completed \/ t = Finished
<1>1. AfterWake[t] = [b EXCEPT !.ready = ready, !.completed = completed, !.odeps = odeps]
  BY DEF AfterWake
<1>2. b \in StationType /\ b = [st[t] EXCEPT !.tag = b.tag, !.odeps = b.odeps]
  BY SquashedStations
<1>3. st[t] \in StationType
  BY DEF RuuCore, Typed
<1> HIDE DEF b
<1>4. b.addr = st[t].addr /\ b.deps = st[t].deps /\ b.issued = st[t].issued /\ b.ready = st[t].ready
      /\ b.queued = st[t].queued /\ b.kind = st[t].kind
  BY <1>2, <1>3 DEF StationType
<1>5. \A k \in Ops : ready[k] <=> st[t].ready[k] \/ Wakes(t, k)
  BY <1>4
<1> HIDE DEF ready, odeps, completed
<1>6. /\ AfterWake[t].addr = b.addr /\ AfterWake[t].deps = b.deps /\ AfterWake[t].issued = b.issued
      /\ AfterWake[t].ready = ready /\ AfterWake[t].queued = b.queued /\ AfterWake[t].kind = b.kind
  BY <1>1, <1>2 DEF StationType
<1>7. AfterWake \in [Stations -> StationType]
  <2>1. \A u \in Stations : AfterWake[u] \in StationType
    BY WokenStations DEF Becomes
  <2>2. AfterWake = [u \in Stations |-> AfterWake[u]]
    BY DEF AfterWake
  <2> QED BY <2>1, <2>2
<1>8. st' = MarkQueued(AfterWake, Woken)
  BY WritebackIs
<1>9. /\ st'[t].addr = AfterWake[t].addr /\ st'[t].deps = AfterWake[t].deps /\ st'[t].issued = AfterWake[t].issued
      /\ st'[t].ready = AfterWake[t].ready
      /\ st'[t].queued <=> AfterWake[t].queued \/ t \in ToSet(Woken)
  BY <1>7, <1>8, MarkedRest
<1> QED BY <1>4, <1>5, <1>6, <1>9 DEF Wakened

\* Who is woken has its operands, and is no load.
LEMMA WokenReady ==
    ASSUME RuuCore, Finished \in Stations, Finished \notin Squashed, NEW t \in ToSet(Woken)
    PROVE  t \in Live /\ t \notin Squashed /\ OperandsReady(AfterWake[t]) /\ AfterWake[t].kind # "load"
<1>1. /\ DOMAIN Chain = 1..Len(Chain) /\ Len(Chain) \in Nat
      /\ \A i \in 1..Len(Chain) : Chain[i] \in AllLinks
  BY ChainIs
<1>2. LastLinks \subseteq 1..Len(Chain)
  BY <1>1 DEF LastLinks
<1>3. IsFiniteSet(LastLinks) /\ LastLinks \subseteq Nat
  <2>1. 1 \in Int /\ Len(Chain) \in Int /\ \A i \in 1..Len(Chain) : i \in Nat
    BY <1>1
  <2>2. IsFiniteSet(1..Len(Chain))
    BY <2>1, FS_Interval
  <2> QED BY <1>2, <2>1, <2>2, FS_Subset
<1> DEFINE order == InOrder(LastLinks)
           c == Cardinality(LastLinks)
<1>4. c \in Nat /\ DOMAIN order = 1..c /\ \A n \in 1..c : order[n] \in LastLinks
  BY <1>3, InOrderIs
<1>5. Woken = [n \in DOMAIN order |-> Chain[order[n]].rs]
  BY DEF Woken
<1> HIDE DEF order, c
<1>6. PICK n \in 1..c : t = Chain[order[n]].rs
  BY <1>4, <1>5 DEF ToSet
<1>7. PICK i \in LastLinks : t = Chain[i].rs
  BY <1>4, <1>6
<1>8. ValidIn(AfterSquash, Chain[i]) /\ OperandsReady(AfterWake[t]) /\ AfterWake[t].kind # "load"
  BY <1>7 DEF LastLinks
<1>9. t \in Live /\ t \notin Squashed
  BY <1>1, <1>2, <1>7, <1>8, ChainLive
<1> QED BY <1>8, <1>9

LEMMA WritebackLoads ==
    ASSUME RuuCore, LoadsKnown, Writeback, NoPanic'
    PROVE  LoadsKnown'
<1>1. PICK o : WrittenBack(o)
  BY WritebackLines
<1>2. Finished \notin Squashed /\ Finished \in Stations /\ LSQ_num' = Agens(o) /\ Agens(o) \in 0..LSQ_num
      /\ \A t \in Stations : Becomes(t, st'[t])
  BY <1>1, LiveLists DEF WrittenBack, CutAt, RuuCore
<1>3. \A n \in 1..Agens(o) : n \in 1..LSQ_num /\ LsqLive[n] \in Stations /\ LsqLive'[n] = LsqLive[n]
  BY <1>1, WritebackPaired
<1>4. ASSUME NEW x \in Stations PROVE FollowsAccess(st'[x], st[x])
  <2>1. Wakened(x) /\ AfterWake[x].kind = st[x].kind /\ st'[x].kind = st[x].kind
    BY <1>2, WokenRest DEF Becomes
  <2>2. st'[x].kind = "load" => x \notin ToSet(Woken)
    BY <1>2, <2>1, WokenReady
  <2> QED BY <2>1, <2>2 DEF FollowsAccess, LetGo, Wakened
<1>5. LSQ_num \in Nat /\ LSQ_num' \in Nat /\ 0 \in Nat
  <2>1. LSQ_num \in Nat
    BY DEF RuuCore, Rings, Ring
  <2> QED BY <1>2, <2>1
<1>6. ASSUME NEW n \in 1..LSQ_num'
      PROVE  n + 0 \in 1..LSQ_num /\ FollowsAccess(st'[LsqLive'[n]], st[LsqLive[n + 0]])
  <2>1. n + 0 = n
    BY <1>5
  <2> QED BY <1>2, <1>3, <1>4, <2>1
<1> QED BY <1>5, <1>6, ShiftedLoads

\* lsq_refresh lets go the loads no store holds back.
LEMMA RefreshLoads ==
    ASSUME RuuCore, LoadsKnown, LsqRefresh
    PROVE  LoadsKnown'
<1> DEFINE S == {p \in Searched : MayRead(p)}
           order == InOrder(S)
           loads == [n \in DOMAIN order |-> LsqLive[order[n]]]
<1>1. st' = MarkQueued(st, loads) /\ UNCHANGED queueVars
  BY DEF LsqRefresh
<1>2. S \subseteq 1..LSQ_num /\ S \subseteq Nat /\ IsFiniteSet(S)
  <2>1. S \in SUBSET (1..LSQ_num)
    BY DEF Searched
  <2>2. LSQ_num \in Nat /\ LSQ_num \in Int /\ 1 \in Int
    BY DEF RuuCore, Rings, Ring
  <2> HIDE DEF S
  <2>3. IsFiniteSet(1..LSQ_num)
    BY <2>2, FS_Interval
  <2>4. \A p \in 1..LSQ_num : p \in Nat
    BY <2>2
  <2> QED BY <2>1, <2>3, <2>4, FS_Subset
<1> HIDE DEF S
<1>3. \A x \in ToSet(loads) : \E p \in S : x = LsqLive[p]
  <2>1. DOMAIN order = 1..Cardinality(S) /\ \A n \in 1..Cardinality(S) : order[n] \in S
    BY <1>2, InOrderIs
  <2> HIDE DEF order
  <2> QED BY <2>1 DEF ToSet
<1> HIDE DEF loads
<1>4. st \in [Stations -> StationType]
  BY DEF RuuCore, Typed
<1>5. LsqLive' = LsqLive /\ LSQ_num' = LSQ_num
  BY <1>1 DEF LsqLive, queueVars
<1>6. /\ LSQ_num \in Nat /\ \A n \in 1..LSQ_num : LsqLive[n] \in Stations
      /\ \A m, n \in 1..LSQ_num : LsqLive[m] = LsqLive[n] => m = n
  BY LiveLists, LiveIs DEF RuuCore, Rings, Ring, Lists
<1>7. \A x \in Stations : /\ st'[x].addr = st[x].addr /\ st'[x].issued = st[x].issued
                          /\ st'[x].ready = st[x].ready /\ st'[x].kind = st[x].kind
                          /\ st'[x].queued <=> st[x].queued \/ x \in ToSet(loads)
  BY <1>1, <1>4, MarkedRest
<1>8. ASSUME NEW p \in S PROVE Known(p)
  <2>1. p \in Searched /\ MayRead(p) /\ p \in 1..LSQ_num
    BY <1>2 DEF S
  <2>2. ASSUME NEW q \in 1..p - 1, IsStore(LsqLive[q])
        PROVE  AddrReady(LsqLive[q])
    <3>1. q \in 1..p
      BY <2>1
    <3> QED BY <2>1, <2>2, <3>1 DEF Searched
  <2>3. ASSUME NEW q \in 1..p - 1, IsStore(LsqLive[q]), AddrAt(q) = AddrAt(p),
               \A o \in q + 1..p - 1 : ~(IsStore(LsqLive[o]) /\ AddrAt(o) = AddrAt(p))
        PROVE  OperandsReady(st[LsqLive[q]])
    <3>1. SUFFICES ASSUME StoreUnknown(q) PROVE FALSE
      BY <2>3 DEF StoreUnknown
    <3>2. \A r \in q + 1..p - 1 : ~(StoreKnown(r) /\ AddrAt(r) = AddrAt(q))
      BY <2>3 DEF StoreKnown
    <3>3. StdUnknown(q, p) = AddrAt(q)
      BY <3>2 DEF StdUnknown
    <3>4. StdUnknown(q, p) # st[LsqLive[p]].addr
      BY <2>1, <3>1 DEF MayRead
    <3> QED BY <2>3, <3>3, <3>4 DEF AddrAt
  <2> QED BY <2>2, <2>3 DEF Known
<1>9. ASSUME NEW p \in 1..LSQ_num, LetGo(st'[LsqLive'[p]]) PROVE Known(p)
  <2>1. CASE LsqLive[p] \in ToSet(loads)
    <3>1. p \in S
      BY <1>2, <1>3, <1>6, <2>1
    <3> QED BY <1>8, <3>1
  <2>2. CASE LsqLive[p] \notin ToSet(loads)
    <3>1. LetGo(st[LsqLive[p]])
      BY <1>5, <1>6, <1>7, <1>9, <2>2 DEF LetGo
    <3> QED BY <3>1 DEF LoadsKnown
  <2> QED BY <2>1, <2>2
<1>10. ASSUME NEW p \in 1..LSQ_num, Known(p) PROVE Known(p)'
  <2>1. \A q \in 1..p : q \in 1..LSQ_num
    BY <1>6
  <2>2. \A q \in 1..p : /\ (IsStore(LsqLive[q])' <=> IsStore(LsqLive[q]))
                        /\ (AddrReady(LsqLive[q])' <=> AddrReady(LsqLive[q]))
                        /\ AddrAt(q)' = AddrAt(q)
                        /\ (OperandsReady(st[LsqLive[q]])' <=> OperandsReady(st[LsqLive[q]]))
    BY <1>5, <1>6, <1>7, <2>1 DEF IsStore, AddrReady, AddrAt, OperandsReady
  <2> SUFFICES ASSUME NEW q \in 1..p - 1, IsStore(LsqLive[q])'
               PROVE  /\ AddrReady(LsqLive[q])'
                      /\ AddrAt(q)' = AddrAt(p)'
                         /\ (\A o \in q + 1..p - 1 : ~(IsStore(LsqLive[o])' /\ AddrAt(o)' = AddrAt(p)'))
                             => OperandsReady(st[LsqLive[q]])'
    BY DEF Known
  <2>3. p \in 1..p /\ q \in 1..p /\ \A o \in q + 1..p - 1 : o \in 1..p
    OBVIOUS
  <2> QED BY <1>10, <2>2, <2>3 DEF Known
<1>11. ASSUME NEW p \in 1..LSQ_num', LetGo(st'[LsqLive'[p]]) PROVE Known(p)'
  BY <1>5, <1>9, <1>10, <1>11
<1> QED BY <1>11 DEF LoadsKnown, LetGo

LEMMA IssueLoads ==
    ASSUME RuuCore, LoadsKnown, Issue, NoPanic'
    PROVE  LoadsKnown'
<1>1. CASE DropStaleReady \/ Requeue \/ IssueDone
  <2>1. UNCHANGED <<st, LSQ_head, LSQ_num>>
    BY <1>1 DEF DropStaleReady, Requeue, IssueDone, issueFrame, queueVars
  <2>2. \A x \in Stations : FollowsAccess(st'[x], st[x])
    BY <2>1 DEF FollowsAccess
  <2> QED BY <2>1, <2>2, SameLoads
<1>2. ASSUME NEW lat, IssueToUnit(lat) PROVE LoadsKnown'
  <2>1. /\ st' = [st EXCEPT ![AtScan].queued = FALSE, ![AtScan].issued = TRUE]
        /\ UNCHANGED <<LSQ_head, LSQ_num>>
    BY <1>2 DEF IssueToUnit, issueFrame, queueVars
  <2>2. st[AtScan].queued
    BY <1>2 DEF IssueToUnit, IssuePanic, NoPanic
  <2>3. ASSUME NEW x \in Stations PROVE FollowsAccess(st'[x], st[x])
    <3>1. st \in [Stations -> StationType] /\ st[x] \in StationType
      BY DEF RuuCore, Typed
    <3>2. CASE x = AtScan
      <4>1. st'[x] = [st[x] EXCEPT !.queued = FALSE, !.issued = TRUE]
        BY <2>1, <3>1, <3>2
      <4> QED BY <2>2, <3>1, <3>2, <4>1 DEF StationType, FollowsAccess, LetGo
    <3>3. CASE x # AtScan
      <4>1. st'[x] = st[x]
        BY <2>1, <3>1, <3>3
      <4> QED BY <4>1 DEF FollowsAccess
    <3> QED BY <3>2, <3>3
  <2> QED BY <2>1, <2>3, SameLoads
<1>3. CASE IssueStore
  <2>1. /\ st' = [st EXCEPT ![AtScan].queued = FALSE, ![AtScan].issued = TRUE, ![AtScan].completed = TRUE]
        /\ UNCHANGED <<LSQ_head, LSQ_num>>
    BY <1>3 DEF IssueStore, issueFrame, queueVars
  <2>2. st[AtScan].queued
    BY <1>3 DEF IssueStore, IssuePanic, NoPanic
  <2>3. ASSUME NEW x \in Stations PROVE FollowsAccess(st'[x], st[x])
    <3>1. st \in [Stations -> StationType] /\ st[x] \in StationType
      BY DEF RuuCore, Typed
    <3>2. CASE x = AtScan
      <4>1. st'[x] = [st[x] EXCEPT !.queued = FALSE, !.issued = TRUE, !.completed = TRUE]
        BY <2>1, <3>1, <3>2
      <4> QED BY <2>2, <3>1, <3>2, <4>1 DEF StationType, FollowsAccess, LetGo
    <3>3. CASE x # AtScan
      <4>1. st'[x] = st[x]
        BY <2>1, <3>1, <3>3
      <4> QED BY <4>1 DEF FollowsAccess
    <3> QED BY <3>2, <3>3
  <2> QED BY <2>1, <2>3, SameLoads
<1> QED BY <1>1, <1>2, <1>3 DEF Issue

LEMMA OpLoads ==
    ASSUME RuuCore, LoadsKnown, NEW i \in program, NEW m \in BOOLEAN, DispatchOp(i, m), NoPanic'
    PROVE  LoadsKnown'
<1>1. PICK id, a, t : OpDispatched(i, m, id, a, t) /\ Enqueued(t, id)
  BY OpEnqueues
<1>2. Entered({id}) /\ st'[id].kind = i.kind /\ id \in Stations /\ id \notin Live
  <2>1. Entered({id}) /\ st'[id].kind = i.kind
    BY <1>1, OpEntered, ZenonT(60)
  <2>2. id \in Stations /\ id \notin Live
    BY <1>1, OpPlaced, ZenonT(60)
  <2> QED BY <2>1, <2>2
<1>3. \A x \in Stations : x # id => SameRest(st'[x], st[x])
  <2>1. OpDispatched(i, m, id, a, t)
    BY <1>1
  <2>2. Enqueued(t, id)
    BY <1>1
  <2>3. OpRested(i, id)
    BY <2>1, <2>2, OpRest
  <2> QED BY <2>3 DEF OpRested
<1>4. LsqLive' = LsqLive /\ LSQ_num' = LSQ_num
  BY <1>1, OpPlaced DEF OpDispatched
<1>5. LSQ_num \in Nat /\ \A n \in 1..LSQ_num : LsqLive[n] \in Stations /\ LsqLive[n] \in Live
  BY LiveLists, LiveIs DEF RuuCore, Rings, Ring, Lists
<1>6. ASSUME NEW n \in 1..LSQ_num'
      PROVE  n + 0 \in 1..LSQ_num /\ FollowsAccess(st'[LsqLive'[n]], st[LsqLive[n + 0]])
  <2>1. n + 0 = n /\ n \in 1..LSQ_num /\ LsqLive[n] \in Stations /\ LsqLive[n] # id
    BY <1>2, <1>4, <1>5
  <2>2. SameRest(st'[LsqLive[n]], st[LsqLive[n]]) /\ st'[LsqLive[n]].kind = st[LsqLive[n]].kind
    BY <1>2, <1>3, <2>1 DEF Entered, SameInstr
  <2> QED BY <1>4, <2>1, <2>2 DEF SameRest, FollowsAccess, LetGo
<1> QED BY <1>4, <1>5, <1>6, ShiftedLoads

LEMMA MemLoads ==
    ASSUME RuuCore, LoadsKnown, NEW i \in program, DispatchMem(i), NoPanic'
    PROVE  LoadsKnown'
<1>1. PICK id, lsq, a, t, b, u : MemDispatched(i, id, lsq, a, t, b, u) /\ Enqueued(u, id)
  BY MemEnqueues
<1>2. Entered({id, lsq}) /\ id \notin Live /\ lsq \notin Live
  BY <1>1, MemEntered, MemStations
<1>3. /\ \A x \in Stations : x # id /\ x # lsq => SameRest(st'[x], st[x])
      /\ ~st'[lsq].issued /\ ~st'[lsq].queued
  BY <1>1, MemRest
<1>4. /\ \A k \in 1..LSQ_num : LsqLive'[k] = LsqLive[k]
      /\ LsqLive'[LSQ_num + 1] = lsq /\ LSQ_num' = LSQ_num + 1
  <2>1. MemDispatched(i, id, lsq, a, t, b, u)
    BY <1>1
  <2>2. (\A k \in 1..LSQ_num : LsqLive'[k] = LsqLive[k]) /\ LsqLive'[LSQ_num + 1] = lsq
    BY <2>1, MemStations
  <2>3. LSQ_num' = LSQ_num + 1
    BY <2>1, Zenon DEF MemDispatched
  <2> QED BY <2>2, <2>3
<1>5. LSQ_num \in Nat /\ \A n \in 1..LSQ_num : LsqLive[n] \in Stations /\ LsqLive[n] \in Live
  BY LiveLists, LiveIs DEF RuuCore, Rings, Ring, Lists
<1>6. ASSUME NEW n \in 1..LSQ_num'
      PROVE  \/ n + 0 \in 1..LSQ_num /\ FollowsAccess(st'[LsqLive'[n]], st[LsqLive[n + 0]])
             \/ n = LSQ_num' /\ ~LetGo(st'[LsqLive'[n]])
  <2>1. CASE n \in 1..LSQ_num
    <3>1. n + 0 = n /\ LsqLive[n] \in Stations /\ LsqLive[n] # id /\ LsqLive[n] # lsq
      BY <1>2, <1>5, <2>1
    <3>2. SameRest(st'[LsqLive[n]], st[LsqLive[n]]) /\ st'[LsqLive[n]].kind = st[LsqLive[n]].kind
      BY <1>2, <1>3, <3>1 DEF Entered, SameInstr
    <3>3. LsqLive'[n] = LsqLive[n]
      BY <1>4, <2>1
    <3> QED BY <2>1, <3>1, <3>2, <3>3 DEF SameRest, FollowsAccess, LetGo
  <2>2. CASE n = LSQ_num + 1
    BY <1>3, <1>4, <2>2 DEF LetGo
  <2> QED BY <1>4, <1>5, <2>1, <2>2
<1>7. LSQ_num' \in Nat /\ 0 \in Nat
  BY <1>4, <1>5
<1> QED BY <1>5, <1>6, <1>7, ShiftedLoads

\* In all runs that no sanity check stops, a load is let go only when the addresses of the stores
\* before it are known and the nearest one to its address has its data, whatever the order in
\* which instructions complete and stations are squashed and used again.
THEOREM RuuLoadsSeeStores == Spec => [](NoPanic => LoadsSeeStores)
<1> DEFINE Inv == NoPanic => LoadsKnown
<1>1. Init => Inv
  <2> SUFFICES ASSUME Init PROVE LoadsKnown
    OBVIOUS
  <2>1. LSQ_num = 0
    BY DEF Init
  <2> QED BY <2>1 DEF LoadsKnown
<1>2. Inv /\ RuuInv /\ [Next]_vars => Inv'
  <2> SUFFICES ASSUME Inv, RuuInv, [Next]_vars, NoPanic' PROVE LoadsKnown'
    OBVIOUS
  <2>1. NoPanic
    BY StepRuns DEF vars, NoPanic
  <2>2. RuuCore /\ LoadsKnown
    BY <2>1 DEF RuuInv
  <2>3. ASSUME UNCHANGED <<st, queueVars>> PROVE LoadsKnown'
    <3>1. \A x \in Stations : FollowsAccess(st'[x], st[x])
      BY <2>3 DEF FollowsAccess
    <3> QED BY <2>2, <2>3, <3>1, SameLoads DEF queueVars
  <2>4. CASE UNCHANGED vars
    BY <2>3, <2>4 DEF vars
  <2>5. CASE CommitHead
    BY <2>2, <2>5, HeadLoads
  <2>6. CASE Writeback
    BY <2>2, <2>6, WritebackLoads
  <2>7. CASE CommitDone \/ DropStaleEvent \/ WritebackDone \/ DispatchDone \/ Tick
    <3>1. UNCHANGED <<st, queueVars>>
      BY <2>7 DEF CommitDone, DropStaleEvent, WritebackDone, DispatchDone, Tick
    <3> QED BY <2>3, <3>1
  <2>8. CASE LsqRefresh
    BY <2>2, <2>8, RefreshLoads
  <2>9. CASE Issue
    BY <2>2, <2>9, IssueLoads
  <2>10. CASE Dispatch
    BY <2>2, <2>7, <2>10, OpLoads, MemLoads DEF Dispatch
  <2> QED BY <2>4, <2>5, <2>6, <2>7, <2>8, <2>9, <2>10 DEF Next, Commit, WritebackStage
<1>3. RuuInv /\ Inv => (NoPanic => LoadsSeeStores)
  BY KnownSeen DEF RuuInv, RuuCore, Rings, Ring
<1> QED BY <1>1, <1>2, <1>3, RuuInvariant, PTL DEF Spec

-----------------------------------------------------------------------------
(* Instructions wait once on the ready queue, and run once.                *)

\* The links to station t while it has tag g.
To(t, g) == {l \in LinkType : l.rs = t /\ l.tag = g}

Waiting(t) == NumIn(ready_queue, To(t, st[t].tag)) + NumIn(scan, To(t, st[t].tag))
Running(t) == NumIn(event_queue, To(t, st[t].tag))

FlagsSound(r) ==
    /\ OperandsReady(r) /\ r.kind # "load" => r.queued \/ r.issued
    /\ r.queued => ~r.issued
    /\ r.queued \/ r.issued => OperandsReady(r)
    /\ r.completed => r.issued

InPlace(t) ==
    /\ FlagsSound(st[t])
    /\ Waiting(t) = (IF st[t].queued THEN 1 ELSE 0)
    /\ Running(t) = (IF st[t].issued /\ ~st[t].completed THEN 1 ELSE 0)

AllInPlace == \A t \in Live : InPlace(t)

LEMMA InPlaceOnce ==
    ASSUME RuuCore, AllInPlace
    PROVE  ScheduledOnce
<1> SUFFICES ASSUME NEW t \in Live
             PROVE  /\ Cardinality(ValidTo(ready_queue, t)) + Cardinality(ValidTo(scan, t)) = Waiting(t)
                    /\ Cardinality(ValidTo(event_queue, t)) = Running(t)
  BY DEF ScheduledOnce, AllInPlace, InPlace, FlagsSound
<1>1. ASSUME NEW q \in Seq(LinkType) PROVE ValidTo(q, t) = InAt(q, To(t, st[t].tag))
  <2>1. \A n \in DOMAIN q : q[n] \in LinkType
    OBVIOUS
  <2> QED BY <2>1 DEF ValidTo, InAt, To, Valid, ValidIn
<1>2. ready_queue \in Seq(LinkType) /\ event_queue \in Seq(LinkType) /\ scan \in Seq(LinkType)
  BY CoreLists
<1> QED BY <1>1, <1>2 DEF Waiting, Running, NumIn

LEMMA ReadyCounts ==
    ASSUME NEW q \in Seq(LinkType), NEW l \in LinkType, NEW first, NEW H
    PROVE  /\ InsertReady(q, l, first) \in Seq(LinkType)
           /\ NumIn(InsertReady(q, l, first), H) = NumIn(q, H) + (IF l \in H THEN 1 ELSE 0)
<1>1. PICK n \in 0..Len(q) : InsertReady(q, l, first) = Put(q, l, n)
  BY InsertReadyPuts
<1> QED BY <1>1, PutCounts, Putting

\* A queue gets one more link to every station entered.
LEMMA EnqueueCounts ==
    ASSUME NEW s, NEW q \in Seq(LinkType), NEW ids, Len(ids) \in Nat, DOMAIN ids = 1..Len(ids),
           \A n \in 1..Len(ids) : LinkTo(s, ids[n], 0) \in LinkType,
           \A m, n \in 1..Len(ids) : ids[m] = ids[n] => m = n,
           NEW t, NEW g, g = s[t].tag
    PROVE  NumIn(EnqueueAll(s, q, ids), To(t, g)) = NumIn(q, To(t, g)) + (IF t \in ToSet(ids) THEN 1 ELSE 0)
<1>1. PICK after : Enqueuing(after, s, q, ids) /\ EnqueueAll(s, q, ids) = after[Len(ids)]
  BY EnqueueSteps
<1>2. PICK H : H = To(t, g)
  OBVIOUS
<1> DEFINE Right(x, n) == /\ x \in Seq(LinkType)
                          /\ NumIn(x, H) = NumIn(q, H) + (IF \E k \in 1..n : ids[k] = t THEN 1 ELSE 0)
           R == {n \in Nat : n <= Len(ids) => Right(after[n], n)}
<1>3. NumIn(q, H) \in Nat
  BY InAtFinite
<1>4. 0 \in R
  <2>1. after[0] = q
    BY <1>1 DEF Enqueuing
  <2> QED BY <1>3, <2>1
<1>5. ASSUME NEW n \in Nat, n \in R PROVE n + 1 \in R
  <2> SUFFICES ASSUME n + 1 <= Len(ids) PROVE Right(after[n + 1], n + 1)
    OBVIOUS
  <2>1. n + 1 \in 1..Len(ids) /\ (n + 1) - 1 = n /\ n <= Len(ids) /\ \A k \in 1..n : k \in 1..Len(ids) /\ k # n + 1
    OBVIOUS
  <2>2. PICK l, x, y : l = LinkTo(s, ids[n + 1], 0) /\ x = after[n] /\ y = after[n + 1]
    OBVIOUS
  <2>3. y = InsertReady(x, l, s[ids[n + 1]].first)
    BY <1>1, <2>1, <2>2 DEF Enqueuing
  <2>4. Right(x, n)
    BY <1>5, <2>1, <2>2
  <2>5. l \in LinkType /\ l.rs = ids[n + 1] /\ l.tag = s[ids[n + 1]].tag
    BY <2>1, <2>2 DEF LinkTo
  <2>6. l \in H <=> ids[n + 1] = t
    BY <1>2, <2>5 DEF To
  <2>7. y \in Seq(LinkType) /\ NumIn(y, H) = NumIn(x, H) + (IF l \in H THEN 1 ELSE 0)
    BY <2>3, <2>4, <2>5, ReadyCounts
  <2>8. (\E k \in 1..n + 1 : ids[k] = t) <=> (\E k \in 1..n : ids[k] = t) \/ ids[n + 1] = t
    <3>1. 1..n + 1 = (1..n) \cup {n + 1}
      BY <2>1
    <3> QED BY <3>1
  <2>9. ids[n + 1] = t => ~\E k \in 1..n : ids[k] = t
    BY <2>1
  <2>10. Right(y, n + 1)
    BY <1>3, <2>4, <2>6, <2>7, <2>8, <2>9
  <2> QED BY <2>2, <2>10
<1> HIDE DEF R
<1>6. Nat \subseteq R
  BY <1>4, <1>5, NatSetInduction
<1>7. Right(after[Len(ids)], Len(ids))
  <2>1. Len(ids) \in R /\ Len(ids) <= Len(ids)
    BY <1>6
  <2> HIDE DEF Right
  <2> QED BY <2>1 DEF R
<1>8. t \in ToSet(ids) <=> \E k \in 1..Len(ids) : ids[k] = t
  BY DEF ToSet
<1> QED BY <1>1, <1>2, <1>7, <1>8

SameFlags(a, b) ==
    /\ a.kind = b.kind /\ a.tag = b.tag /\ a.ready = b.ready
    /\ a.queued = b.queued /\ a.issued = b.issued /\ a.completed = b.completed

LEMMA StaysInPlace ==
    ASSUME NEW t, InPlace(t), SameFlags(st'[t], st[t]),
           Waiting(t)' = Waiting(t), Running(t)' = Running(t)
    PROVE  InPlace(t)'
<1>1. FlagsSound(st'[t]) <=> FlagsSound(st[t])
  BY DEF SameFlags, FlagsSound, OperandsReady
<1>2. FlagsSound(st[t])' <=> FlagsSound(st'[t])
  BY DEF FlagsSound, OperandsReady
<1> QED BY <1>1, <1>2 DEF InPlace, SameFlags

\* The same stations and lists.
LEMMA QuietPlaces ==
    ASSUME AllInPlace, Live' \subseteq Live, \A t \in Live' : SameFlags(st'[t], st[t]),
           UNCHANGED <<ready_queue, scan, event_queue>>
    PROVE  AllInPlace'
<1>1. ASSUME NEW t \in Live' PROVE InPlace(t)'
  <2>1. Waiting(t)' = Waiting(t) /\ Running(t)' = Running(t)
    BY DEF Waiting, Running, SameFlags
  <2> QED BY <2>1, StaysInPlace DEF AllInPlace
<1> QED BY <1>1 DEF AllInPlace

LEMMA HeadPlaces ==
    ASSUME RuuCore, AllInPlace, CommitHead, NoPanic'
    PROVE  AllInPlace'
<1>1. PICK gone : HeadLeaves(EaComp(st[HeadRs]), gone)
  BY CommitLeaves
<1>2. /\ st' = [id \in Stations |-> IF id \in gone THEN [st[id] EXCEPT !.tag = @ + 1] ELSE st[id]]
      /\ UNCHANGED <<ready_queue, scan, event_queue>>
  BY <1>1 DEF HeadLeaves
<1>3. Live' = Live \ gone /\ Live \subseteq Stations
  BY <1>1, HeadLines, LiveLists DEF RuuCore
<1>4. \A t \in Live' : SameFlags(st'[t], st[t])
  BY <1>2, <1>3 DEF SameFlags
<1> QED BY <1>2, <1>3, <1>4, QuietPlaces

LEMMA DropEventPlaces ==
    ASSUME RuuCore, AllInPlace, DropStaleEvent
    PROVE  AllInPlace'
<1>1. /\ event_queue # << >> /\ ~Valid(Head(event_queue)) /\ event_queue' = Tail(event_queue)
      /\ UNCHANGED <<st, queueVars, ready_queue, scan>>
  BY DEF DropStaleEvent, Due
<1>2. event_queue \in Seq(LinkType) /\ Live' = Live
  BY <1>1, CoreLists DEF Live, RuuLive, LsqLive, queueVars
<1>3. ASSUME NEW t \in Live' PROVE InPlace(t)'
  <2>1. Head(event_queue) \notin To(t, st[t].tag)
    BY <1>1 DEF To, Valid, ValidIn
  <2>2. NumIn(Tail(event_queue), To(t, st[t].tag)) \in Nat
    BY <1>1, <1>2, TailSet, InAtFinite
  <2>3. NumIn(event_queue, To(t, st[t].tag)) = NumIn(Tail(event_queue), To(t, st[t].tag))
    BY <1>1, <1>2, <2>1, <2>2, TailCounts
  <2>4. Waiting(t)' = Waiting(t) /\ Running(t)' = Running(t)
    BY <1>1, <2>3 DEF Waiting, Running
  <2>5. SameFlags(st'[t], st[t])
    BY <1>1 DEF SameFlags
  <2> QED BY <1>2, <2>4, <2>5, StaysInPlace DEF AllInPlace
<1> QED BY <1>3 DEF AllInPlace

LEMMA TickPlaces ==
    ASSUME RuuCore, AllInPlace, Tick
    PROVE  AllInPlace'
<1>1. /\ event_queue' = [n \in DOMAIN event_queue |-> [event_queue[n] EXCEPT !.x = @ - 1]]
      /\ stage = "fetch" /\ UNCHANGED <<st, queueVars, ready_queue, scan>>
  BY DEF Tick
<1>2. event_queue \in Seq(LinkType) /\ Live' = Live
  BY <1>1, CoreLists DEF Live, RuuLive, LsqLive, queueVars
<1>3. ASSUME NEW n \in DOMAIN event_queue
      PROVE  event_queue'[n] \in LinkType /\ event_queue'[n].rs = event_queue[n].rs /\ event_queue'[n].tag = event_queue[n].tag
  <2>1. n \in 1..Len(event_queue) /\ event_queue[n] \in LinkType
    BY <1>2
  <2>2. event_queue[n].x >= 1
    BY <1>1, <2>1 DEF RuuCore, EventsInOrder
  <2>3. event_queue'[n] = [event_queue[n] EXCEPT !.x = event_queue[n].x - 1]
    BY <1>1
  <2>4. event_queue[n].x \in Nat
    BY <2>1 DEF LinkType
  <2>5. event_queue[n].x - 1 \in Nat
    BY <2>2, <2>4
  <2> QED BY <2>1, <2>3, <2>5 DEF LinkType
<1>4. ASSUME NEW t \in Live' PROVE InPlace(t)'
  <2>1. InAt(event_queue', To(t, st[t].tag)) = InAt(event_queue, To(t, st[t].tag))
    <3>1. DOMAIN event_queue' = DOMAIN event_queue
      BY <1>1
    <3>2. \A n \in DOMAIN event_queue : event_queue[n] \in LinkType
      BY <1>2
    <3> QED BY <1>3, <3>1, <3>2 DEF InAt, To
  <2>2. Waiting(t)' = Waiting(t) /\ Running(t)' = Running(t)
    BY <1>1, <2>1 DEF Waiting, Running, NumIn
  <2>3. SameFlags(st'[t], st[t])
    BY <1>1 DEF SameFlags
  <2> QED BY <1>2, <2>2, <2>3, StaysInPlace DEF AllInPlace
<1> QED BY <1>4 DEF AllInPlace

\* Entered in the ready queue are the stations ids.
LEMMA ReadyPlaces ==
    ASSUME RuuCore, NEW ids, Len(ids) \in Nat, DOMAIN ids = 1..Len(ids), \A n \in 1..Len(ids) : ids[n] \in Live,
           \A m, n \in 1..Len(ids) : ids[m] = ids[n] => m = n,
           NEW t, NEW g, g = st[t].tag
    PROVE  NumIn(EnqueueAll(st, ready_queue, ids), To(t, g))
             = NumIn(ready_queue, To(t, g)) + (IF t \in ToSet(ids) THEN 1 ELSE 0)
<1>1. ready_queue \in Seq(LinkType) /\ Live \subseteq Stations
  BY CoreLists, LiveLists DEF RuuCore
<1>2. \A id \in Stations : LinkTo(st, id, 0) \in LinkType
  <2> TAKE id \in Stations
  <2>1. st[id].tag \in Nat /\ st[id].seq \in Nat /\ 0 \in Nat
    BY DEF RuuCore, Typed, StationType
  <2> QED BY <2>1, LinkToIs
<1>3. \A n \in 1..Len(ids) : LinkTo(st, ids[n], 0) \in LinkType
  BY <1>1, <1>2
<1> QED BY <1>1, <1>3, EnqueueCounts

LEMMA RefreshPlaces ==
    ASSUME RuuCore, AllInPlace, LsqRefresh
    PROVE  AllInPlace'
<1> DEFINE S == {p \in Searched : MayRead(p)}
           order == InOrder(S)
           loads == [n \in DOMAIN order |-> LsqLive[order[n]]]
<1>1. /\ st' = MarkQueued(st, loads) /\ scan' = EnqueueAll(st, ready_queue, loads) /\ ready_queue' = << >>
      /\ UNCHANGED <<queueVars, event_queue>> /\ stage = "lsq_refresh"
  BY DEF LsqRefresh
<1>2. S \subseteq 1..LSQ_num /\ S \subseteq Nat /\ IsFiniteSet(S)
  <2>1. S \in SUBSET (1..LSQ_num)
    BY DEF Searched
  <2>2. LSQ_num \in Nat /\ LSQ_num \in Int /\ 1 \in Int
    BY DEF RuuCore, Rings, Ring
  <2> HIDE DEF S
  <2>3. IsFiniteSet(1..LSQ_num)
    BY <2>2, FS_Interval
  <2>4. \A p \in 1..LSQ_num : p \in Nat
    BY <2>2
  <2> QED BY <2>1, <2>3, <2>4, FS_Subset
<1>3. \A p \in S : LET r == st[LsqLive[p]] IN ~r.queued /\ ~r.issued /\ OperandsReady(r)
  BY DEF MayRead
<1> HIDE DEF S
<1>4. /\ \A p \in 1..LSQ_num : LsqLive[p] \in Live
      /\ \A m, n \in 1..LSQ_num : LsqLive[m] = LsqLive[n] => m = n
      /\ Live \subseteq Stations
  BY LiveLists DEF RuuCore, Lists
<1>5. /\ Len(loads) \in Nat /\ DOMAIN loads = 1..Len(loads)
      /\ \A n \in 1..Len(loads) : loads[n] \in Live /\ \E p \in S : loads[n] = LsqLive[p]
      /\ \A m, n \in 1..Len(loads) : loads[m] = loads[n] => m = n
  <2>1. /\ Cardinality(S) \in Nat /\ DOMAIN order = 1..Cardinality(S)
        /\ \A n \in 1..Cardinality(S) : order[n] \in S
        /\ \A m, n \in 1..Cardinality(S) : order[m] = order[n] => m = n
    BY <1>2, InOrderIs
  <2> HIDE DEF order
  <2>2. DOMAIN loads = 1..Cardinality(S) /\ Len(loads) = Cardinality(S)
    BY <2>1
  <2>3. \A n \in 1..Cardinality(S) : loads[n] = LsqLive[order[n]] /\ order[n] \in 1..LSQ_num /\ order[n] \in S
    BY <1>2, <2>1
  <2> HIDE DEF loads
  <2>4. \A m, n \in 1..Cardinality(S) : loads[m] = loads[n] => m = n
    BY <1>4, <2>1, <2>3
  <2> QED BY <1>4, <2>1, <2>2, <2>3, <2>4
<1> HIDE DEF loads
<1>6. /\ st \in [Stations -> StationType] /\ scan = << >> /\ ready_queue \in Seq(LinkType)
  BY <1>1, CoreLists DEF RuuCore, Typed, Scanned
<1>7. \A x \in Stations : /\ st'[x].issued = st[x].issued /\ st'[x].ready = st[x].ready
                          /\ st'[x].kind = st[x].kind /\ st'[x].tag = st[x].tag
                          /\ st'[x].completed = st[x].completed
                          /\ st'[x].queued <=> st[x].queued \/ x \in ToSet(loads)
  BY <1>1, <1>6, MarkedRest
<1>8. Live' = Live
  BY <1>1 DEF Live, RuuLive, LsqLive, queueVars
<1>9. \A x \in ToSet(loads) : ~st[x].queued /\ ~st[x].issued /\ OperandsReady(st[x])
  <2> TAKE x \in ToSet(loads)
  <2>1. PICK n \in 1..Len(loads) : x = loads[n]
    BY <1>5 DEF ToSet
  <2>2. PICK p \in S : x = LsqLive[p]
    BY <1>5, <2>1
  <2> QED BY <1>3, <2>2
<1>10. ASSUME NEW t \in Live' PROVE InPlace(t)'
  <2>1. t \in Stations /\ InPlace(t)
    BY <1>4, <1>8 DEF AllInPlace
  <2>2. PICK H : H = To(t, st[t].tag)
    OBVIOUS
  <2>3. NumIn(scan', H) = NumIn(ready_queue, H) + (IF t \in ToSet(loads) THEN 1 ELSE 0)
    BY <1>1, <1>5, <2>2, ReadyPlaces
  <2>4. NumIn(ready_queue', H) = 0 /\ NumIn(scan, H) = 0 /\ NumIn(ready_queue, H) \in Nat
    <3>1. << >> \in Seq(LinkType) /\ \A n \in 1..Len(<< >>) : << >>[n] \notin H
      OBVIOUS
    <3>2. NumIn(<< >>, H) = 0
      BY <3>1, InAtFinite
    <3> QED BY <1>1, <1>6, <3>2, InAtFinite
  <2>5. Waiting(t)' = Waiting(t) + (IF t \in ToSet(loads) THEN 1 ELSE 0) /\ Running(t)' = Running(t)
    <3>1. Waiting(t)' = NumIn(ready_queue', H) + NumIn(scan', H) /\ Waiting(t) = NumIn(ready_queue, H) + NumIn(scan, H)
      BY <1>7, <2>1, <2>2 DEF Waiting
    <3>2. Running(t)' = Running(t)
      BY <1>1, <1>7, <2>1 DEF Running
    <3> QED BY <2>3, <2>4, <3>1, <3>2
  <2>6. FlagsSound(st[t])'
    BY <1>7, <1>9, <2>1 DEF InPlace, FlagsSound, OperandsReady
  <2>7. st'[t].issued = st[t].issued /\ st'[t].completed = st[t].completed
    BY <1>7, <2>1
  <2>8. Waiting(t)' = (IF st'[t].queued THEN 1 ELSE 0)
    <3>1. CASE t \in ToSet(loads)
      BY <1>7, <1>9, <2>1, <2>5, <3>1 DEF InPlace
    <3>2. CASE t \notin ToSet(loads)
      BY <1>7, <2>1, <2>4, <2>5, <3>2 DEF InPlace
    <3> QED BY <3>1, <3>2
  <2> QED BY <2>1, <2>5, <2>6, <2>7, <2>8 DEF InPlace
<1> QED BY <1>10 DEF AllInPlace

LEMMA InsertEventPuts ==
    ASSUME NEW q \in Seq(LinkType), NEW l
    PROVE  \E n \in 0..Len(q) : InsertEvent(q, l) = Put(q, l, n)
<1>1. PICK S : S = {i \in DOMAIN q : q[i].x < l.x}
  OBVIOUS
<1>2. S \subseteq 1..Len(q) /\ IsFiniteSet(1..Len(q)) /\ Cardinality(1..Len(q)) = Len(q) /\ Len(q) \in Nat
  <2>1. 1 \in Int /\ Len(q) \in Int /\ Len(q) \in Nat
    OBVIOUS
  <2>2. IsFiniteSet(1..Len(q)) /\ Cardinality(1..Len(q)) = IF 1 > Len(q) THEN 0 ELSE Len(q) - 1 + 1
    BY <2>1, FS_Interval
  <2> QED BY <1>1, <2>1, <2>2
<1>3. Cardinality(S) <= Len(q) /\ Cardinality(S) \in Nat
  BY <1>2, FS_Subset, FS_CardinalityType
<1>4. Cardinality(S) \in 0..Len(q)
  BY <1>2, <1>3
<1>5. InsertEvent(q, l) = Put(q, l, Cardinality(S))
  BY <1>1 DEF InsertEvent, Put
<1> QED BY <1>4, <1>5

\* Taking the head of the old ready queue changes what waits of the station it links to.
LEMMA ScanCounts ==
    ASSUME RuuCore, scan # << >>, scan' = Tail(scan), NEW H
    PROVE  /\ NumIn(scan', H) \in Nat
           /\ Head(scan) \in H => NumIn(scan, H) = NumIn(scan', H) + 1
           /\ Head(scan) \notin H => NumIn(scan, H) = NumIn(scan', H)
<1>1. scan \in Seq(LinkType)
  BY CoreLists
<1>2. Tail(scan) \in Seq(LinkType)
  BY <1>1, TailSet
<1>3. NumIn(scan', H) \in Nat
  BY <1>2, InAtFinite
<1>4. NumIn(scan, H) = NumIn(scan', H) + (IF Head(scan) \in H THEN 1 ELSE 0)
  BY <1>1, TailCounts
<1> QED BY <1>3, <1>4

LEMMA OffScan ==
    ASSUME RuuCore, scan # << >>, scan' = Tail(scan), UNCHANGED ready_queue,
           NEW t, InPlace(t), t # AtScan \/ ~Valid(Head(scan)), SameFlags(st'[t], st[t]), Running(t)' = Running(t)
    PROVE  InPlace(t)'
<1>1. PICK H : H = To(t, st[t].tag)
  OBVIOUS
<1>2. Head(scan) \notin H
  BY <1>1 DEF To, Valid, ValidIn, AtScan
<1>3. NumIn(scan', H) = NumIn(scan, H)
  BY <1>2, ScanCounts
<1>4. st'[t].tag = st[t].tag
  BY DEF SameFlags
<1>5. Waiting(t) = NumIn(ready_queue, H) + NumIn(scan, H)
  BY <1>1 DEF Waiting
<1>6. Waiting(t)' = NumIn(ready_queue', H) + NumIn(scan', H)
  BY <1>1, <1>4 DEF Waiting
<1>7. Waiting(t)' = Waiting(t)
  BY <1>3, <1>5, <1>6
<1> QED BY <1>7, StaysInPlace

LEMMA OnScan ==
    ASSUME RuuCore, scan # << >>, scan' = Tail(scan), UNCHANGED ready_queue, Valid(Head(scan)),
           NEW t, t = AtScan, st'[t].tag = st[t].tag
    PROVE  Waiting(t) \in Nat /\ Waiting(t)' = Waiting(t) - 1
<1>1. PICK H : H = To(t, st[t].tag)
  OBVIOUS
<1>2. Head(scan) \in LinkType
  <2>1. scan \in Seq(LinkType)
    BY CoreLists
  <2> QED BY <2>1, TailSet
<1>3. Head(scan) \in H
  BY <1>1, <1>2 DEF To, Valid, ValidIn, AtScan
<1>4. NumIn(scan, H) = NumIn(scan', H) + 1 /\ NumIn(scan', H) \in Nat
  BY <1>3, ScanCounts
<1>5. NumIn(ready_queue, H) \in Nat
  BY CoreLists, InAtFinite
<1>6. Waiting(t) = NumIn(ready_queue, H) + NumIn(scan, H)
  BY <1>1 DEF Waiting
<1>7. Waiting(t)' = NumIn(ready_queue', H) + NumIn(scan', H)
  BY <1>1 DEF Waiting
<1> QED BY <1>4, <1>5, <1>6, <1>7

\* IssuePanic under NoPanic' and the head's place.
LEMMA AtScanPlace ==
    ASSUME RuuCore, AllInPlace, Issuing, Valid(Head(scan)), ~IssuePanic, NEW t, t = AtScan
    PROVE  /\ t \in Live /\ t \in Stations /\ OperandsReady(st[t]) /\ st[t].queued /\ ~st[t].issued /\ ~st[t].completed
           /\ InPlace(t) /\ Waiting(t) = 1 /\ Running(t) = 0
<1>1. t \in Live /\ t \in Stations
  BY ScanHead, LiveLists DEF RuuCore, Issuing
<1>2. OperandsReady(st[t]) /\ st[t].queued /\ ~st[t].issued /\ ~st[t].completed
  BY DEF IssuePanic
<1> QED BY <1>1, <1>2 DEF AllInPlace, InPlace

\* A station issued: no longer waiting, and running unless it completed at once.
LEMMA IssuedPlaces ==
    ASSUME RuuCore, AllInPlace, Issuing, Valid(Head(scan)), ~IssuePanic, UNCHANGED <<queueVars, ready_queue>>,
           scan' = Tail(scan), NEW t, t = AtScan,
           \A x \in Stations : x # t => SameFlags(st'[x], st[x]) /\ Running(x)' = Running(x),
           ~st'[t].queued, st'[t].issued, st'[t].ready = st[t].ready, st'[t].kind = st[t].kind,
           st'[t].tag = st[t].tag,
           Running(t)' = Running(t) + (IF st'[t].completed THEN 0 ELSE 1)
    PROVE  AllInPlace'
<1>1. Live' = Live /\ Live \subseteq Stations
  BY LiveLists DEF Live, RuuLive, LsqLive, queueVars, RuuCore
<1>2. ASSUME NEW x \in Live, x # t PROVE InPlace(x)'
  <2>1. InPlace(x) /\ SameFlags(st'[x], st[x]) /\ Running(x)' = Running(x) /\ x # AtScan /\ scan # << >>
    BY <1>1, <1>2 DEF AllInPlace, Issuing
  <2> QED BY <2>1, OffScan
<1>3. InPlace(t)'
  <2>1. OperandsReady(st[t]) /\ Waiting(t) = 1 /\ Running(t) = 0
    BY AtScanPlace
  <2>2. Waiting(t)' = Waiting(t) - 1
    BY OnScan DEF Issuing
  <2>3. OperandsReady(st'[t])
    BY <2>1 DEF OperandsReady
  <2>4. FlagsSound(st[t])'
    BY <2>3 DEF FlagsSound, OperandsReady
  <2>5. Waiting(t)' = (IF st'[t].queued THEN 1 ELSE 0)
    BY <2>1, <2>2
  <2>6. Running(t)' = (IF st'[t].issued /\ ~st'[t].completed THEN 1 ELSE 0)
    BY <2>1
  <2> QED BY <2>4, <2>5, <2>6 DEF InPlace
<1> QED BY <1>1, <1>2, <1>3 DEF AllInPlace

LEMMA StorePlaces ==
    ASSUME RuuCore, AllInPlace, IssueStore, NoPanic'
    PROVE  AllInPlace'
<1>1. /\ Issuing /\ scan' = Tail(scan) /\ Valid(Head(scan)) /\ ~IssuePanic
      /\ st' = [st EXCEPT ![AtScan].queued = FALSE, ![AtScan].issued = TRUE, ![AtScan].completed = TRUE]
      /\ UNCHANGED <<queueVars, ready_queue, event_queue>>
  BY DEF IssueStore, MayIssue, issueFrame, NoPanic
<1>2. PICK t : t = AtScan
  OBVIOUS
<1>3. t \in Stations /\ st \in [Stations -> StationType]
  BY <1>1, <1>2, AtScanPlace DEF RuuCore, Typed
<1>4. \A x \in Stations : x # t => st'[x] = st[x]
  BY <1>1, <1>2, <1>3
<1>5. st'[t] = [st[t] EXCEPT !.queued = FALSE, !.issued = TRUE, !.completed = TRUE]
  BY <1>1, <1>2, <1>3
<1>6. /\ ~st'[t].queued /\ st'[t].issued /\ st'[t].completed /\ st'[t].ready = st[t].ready
      /\ st'[t].kind = st[t].kind /\ st'[t].tag = st[t].tag
  BY <1>3, <1>5 DEF StationType
<1>7. \A x \in Stations : x # t => SameFlags(st'[x], st[x]) /\ Running(x)' = Running(x)
  BY <1>1, <1>4 DEF SameFlags, Running
<1>8. Running(t)' = Running(t) /\ Running(t) \in Nat
  BY <1>1, <1>6, CoreLists, InAtFinite DEF Running
<1>9. Running(t)' = Running(t) + (IF st'[t].completed THEN 0 ELSE 1)
  BY <1>6, <1>8
<1> QED BY <1>1, <1>2, <1>6, <1>7, <1>9, IssuedPlaces

LEMMA UnitPlaces ==
    ASSUME RuuCore, AllInPlace, NEW lat, IssueToUnit(lat), NoPanic'
    PROVE  AllInPlace'
<1>1. /\ Issuing /\ scan' = Tail(scan) /\ Valid(Head(scan)) /\ ~IssuePanic
      /\ st' = [st EXCEPT ![AtScan].queued = FALSE, ![AtScan].issued = TRUE]
      /\ event_queue' = InsertEvent(event_queue, LinkTo(st, AtScan, lat))
      /\ UNCHANGED <<queueVars, ready_queue>>
  BY DEF IssueToUnit, MayIssue, issueFrame, NoPanic
<1>2. PICK t : t = AtScan
  OBVIOUS
<1>3. /\ t \in Stations /\ st \in [Stations -> StationType] /\ ~st[t].completed
      /\ event_queue \in Seq(LinkType)
  BY <1>1, <1>2, AtScanPlace, CoreLists DEF RuuCore, Typed
<1>4. \A x \in Stations : x # t => st'[x] = st[x]
  BY <1>1, <1>2, <1>3
<1>5. st'[t] = [st[t] EXCEPT !.queued = FALSE, !.issued = TRUE]
  BY <1>1, <1>2, <1>3
<1>6. /\ ~st'[t].queued /\ st'[t].issued /\ ~st'[t].completed /\ st'[t].ready = st[t].ready
      /\ st'[t].kind = st[t].kind /\ st'[t].tag = st[t].tag
  BY <1>3, <1>5 DEF StationType
<1>7. lat \in Nat
  <2>1. lat \in Latencies(t)
    BY <1>2 DEF IssueToUnit
  <2>2. st[t].class \in DOMAIN FuClass \cup {NA}
    BY <1>3 DEF StationType
  <2>3. st[t].class # NA => FuClass[st[t].class].oplat \in Nat \ {0}
    BY <2>2, UnitsAssumption
  <2> QED BY <2>1, <2>3, SizeAssumption DEF Latencies
<1>8. PICK l : l = LinkTo(st, t, lat)
  OBVIOUS
<1>9. l \in LinkType /\ l.rs = t /\ l.tag = st[t].tag
  <2>1. st[t].tag \in Nat /\ st[t].seq \in Nat
    BY <1>3 DEF StationType
  <2> QED BY <1>3, <1>7, <1>8, <2>1, LinkToIs
<1>10. PICK n \in 0..Len(event_queue) : event_queue' = Put(event_queue, l, n)
  BY <1>1, <1>2, <1>3, <1>8, InsertEventPuts
<1>11. \A H : NumIn(event_queue', H) = NumIn(event_queue, H) + (IF l \in H THEN 1 ELSE 0)
  BY <1>3, <1>9, <1>10, PutCounts
<1>12. ASSUME NEW x \in Stations
       PROVE  Running(x)' = Running(x) + (IF x = t THEN 1 ELSE 0)
  <2>1. PICK H : H = To(x, st[x].tag)
    OBVIOUS
  <2>2. l \in H <=> x = t
    BY <1>9, <2>1 DEF To
  <2>3. st'[x].tag = st[x].tag
    BY <1>4, <1>6
  <2>4. Running(x)' = NumIn(event_queue', H) /\ Running(x) = NumIn(event_queue, H)
    BY <2>1, <2>3 DEF Running
  <2> QED BY <1>11, <2>2, <2>4
<1>13. ASSUME NEW x \in Stations, x # t PROVE SameFlags(st'[x], st[x]) /\ Running(x)' = Running(x)
  <2>1. Running(x) \in Nat
    BY <1>3, InAtFinite DEF Running
  <2> QED BY <1>4, <1>12, <1>13, <2>1 DEF SameFlags
<1>14. Running(t)' = Running(t) + (IF st'[t].completed THEN 0 ELSE 1)
  BY <1>3, <1>6, <1>12
<1> QED BY <1>1, <1>2, <1>6, <1>13, <1>14, IssuedPlaces

LEMMA StalePlaces ==
    ASSUME RuuCore, AllInPlace, DropStaleReady
    PROVE  AllInPlace'
<1>1. /\ scan # << >> /\ ~Valid(Head(scan)) /\ scan' = Tail(scan)
      /\ UNCHANGED <<st, queueVars, ready_queue, event_queue>>
  BY DEF DropStaleReady, Issuing, issueFrame
<1>2. Live' = Live
  BY <1>1 DEF Live, RuuLive, LsqLive, queueVars
<1>3. ASSUME NEW t \in Live PROVE InPlace(t)'
  <2>1. SameFlags(st'[t], st[t]) /\ Running(t)' = Running(t) /\ InPlace(t)
    BY <1>1 DEF SameFlags, Running, AllInPlace
  <2> QED BY <1>1, <2>1, OffScan
<1> QED BY <1>2, <1>3 DEF AllInPlace

LEMMA RequeuePlaces ==
    ASSUME RuuCore, AllInPlace, Requeue
    PROVE  AllInPlace'
<1>1. /\ scan # << >> /\ scan' = Tail(scan) /\ Valid(Head(scan))
      /\ ready_queue' = EnqueueAll(st, ready_queue, <<AtScan>>)
      /\ UNCHANGED <<st, queueVars, event_queue>>
  BY DEF Requeue, Issuing, issueFrame
<1>2. Live' = Live
  BY <1>1 DEF Live, RuuLive, LsqLive, queueVars
<1>3. PICK u : u = AtScan
  OBVIOUS
<1>4. u \in Live /\ Head(scan) \in LinkType /\ ready_queue \in Seq(LinkType)
  <2>1. scan \in Seq(LinkType) /\ ready_queue \in Seq(LinkType)
    BY CoreLists
  <2> QED BY <1>1, <1>3, <2>1, ScanHead, TailSet
<1>5. PICK ids : ids = <<u>>
  OBVIOUS
<1>6. /\ Len(ids) \in Nat /\ DOMAIN ids = 1..Len(ids) /\ \A n \in 1..Len(ids) : ids[n] \in Live
      /\ \A m, n \in 1..Len(ids) : ids[m] = ids[n] => m = n
      /\ ToSet(ids) = {u}
  <2>1. Len(ids) = 1 /\ ids[1] = u /\ DOMAIN ids = 1..1
    BY <1>5
  <2> QED BY <1>4, <2>1 DEF ToSet
<1>7. ASSUME NEW t \in Live PROVE InPlace(t)'
  <2>1. SameFlags(st'[t], st[t]) /\ Running(t)' = Running(t) /\ InPlace(t)
    BY <1>1 DEF SameFlags, Running, AllInPlace
  <2>2. PICK H : H = To(t, st[t].tag)
    OBVIOUS
  <2>3. NumIn(ready_queue', H) = NumIn(ready_queue, H) + (IF t = u THEN 1 ELSE 0) /\ NumIn(ready_queue, H) \in Nat
    <3>1. NumIn(EnqueueAll(st, ready_queue, ids), H) = NumIn(ready_queue, H) + (IF t \in ToSet(ids) THEN 1 ELSE 0)
      BY <1>6, <2>2, ReadyPlaces
    <3> QED BY <1>1, <1>3, <1>4, <1>5, <1>6, <3>1, InAtFinite
  <2>4. Head(scan) \in H <=> t = u
    BY <1>1, <1>3, <1>4, <2>2 DEF To, Valid, ValidIn, AtScan
  <2>5. NumIn(scan, H) = NumIn(scan', H) + (IF t = u THEN 1 ELSE 0) /\ NumIn(scan', H) \in Nat
    BY <1>1, <2>4, ScanCounts
  <2>6. Waiting(t)' = NumIn(ready_queue', H) + NumIn(scan', H) /\ Waiting(t) = NumIn(ready_queue, H) + NumIn(scan, H)
    BY <1>1, <2>2 DEF Waiting
  <2>7. Waiting(t)' = Waiting(t)
    BY <2>3, <2>5, <2>6
  <2> QED BY <2>1, <2>7, StaysInPlace
<1> QED BY <1>2, <1>7 DEF AllInPlace

-----------------------------------------------------------------------------
\* Every link on an output chain is to one of the operands.
LinksToOps == \A x \in Stations : \A j \in Outs : \A l \in ToSet(st[x].odeps[j]) : l.x \in Ops

\* The chain is that of the instruction finished.
LEMMA ChainFrom ==
    ASSUME RuuCore, Finished \in Stations, Finished \notin Squashed, NEW i \in 1..Len(Chain)
    PROVE  \E j \in Outs : Chain[i] \in ToSet(st[Finished].odeps[j])
<1> DEFINE a == st[Finished].odeps[0]
           b == st[Finished].odeps[1]
<1>1. AfterSquash[Finished] = st[Finished]
  BY SquashedStations
<1>2. \A k \in Outs : k \notin Produced => st[Finished].odeps[k] = << >>
  BY DEF Produced, RuuCore, ChainsSound
<1>3. 0 \in Outs /\ 1 \in Outs
  BY DEF Outs
<1>4. Chain = a \o b
  BY <1>1, <1>2, <1>3 DEF Chain
<1>5. a \in Seq(LinkType) /\ b \in Seq(LinkType)
  BY <1>3 DEF RuuCore, Typed, StationType
<1>6. (Chain[i] \in ToSet(a) \/ Chain[i] \in ToSet(b)) => \E j \in Outs : Chain[i] \in ToSet(st[Finished].odeps[j])
  BY <1>3
<1> HIDE DEF a, b
<1>7. /\ Len(Chain) = Len(a) + Len(b)
      /\ \A n \in 1..Len(a) + Len(b) : Chain[n] = IF n <= Len(a) THEN a[n] ELSE b[n - Len(a)]
  BY <1>4, <1>5, ConcatProperties
<1>8. Len(a) \in Nat /\ Len(b) \in Nat
  BY <1>5, LenProperties
<1>9. CASE i <= Len(a)
  <2>1. i \in 1..Len(a) /\ Chain[i] = a[i]
    BY <1>7, <1>8, <1>9
  <2> QED BY <1>5, <1>6, <2>1, SeqMembers
<1>10. CASE ~(i <= Len(a))
  <2>1. i - Len(a) \in 1..Len(b) /\ Chain[i] = b[i - Len(a)]
    BY <1>7, <1>8, <1>10
  <2> QED BY <1>5, <1>6, <2>1, SeqMembers
<1> QED BY <1>9, <1>10

\* Link i of the chain still leads to an operand of station t.
Leads(i, t) == Chain[i].rs = t /\ ValidIn(AfterSquash, Chain[i])

\* Woken are, once each, the stations the chain gives their last operands, but no loads.
LEMMA WokenOnce ==
    ASSUME RuuCore, Finished \in Stations, Finished \notin Squashed
    PROVE  /\ Len(Woken) \in Nat /\ DOMAIN Woken = 1..Len(Woken)
           /\ \A m, n \in 1..Len(Woken) : Woken[m] = Woken[n] => m = n
           /\ \A t : t \in ToSet(Woken) <=> /\ \E i \in 1..Len(Chain) : Leads(i, t)
                                            /\ OperandsReady(AfterWake[t]) /\ AfterWake[t].kind # "load"
<1>1. DOMAIN Chain = 1..Len(Chain) /\ Len(Chain) \in Nat /\ \A i \in 1..Len(Chain) : i \in Nat
  <2>1. DOMAIN Chain = 1..Len(Chain) /\ Len(Chain) \in Nat
    BY ChainIs
  <2> QED BY <2>1
<1>2. \A i : i \in LastLinks <=> /\ i \in 1..Len(Chain) /\ Leads(i, Chain[i].rs)
                                 /\ OperandsReady(AfterWake[Chain[i].rs]) /\ AfterWake[Chain[i].rs].kind # "load"
                                 /\ \A j \in i + 1..Len(Chain) : ~Leads(j, Chain[i].rs)
  BY <1>1 DEF LastLinks, Leads
<1>3. IsFiniteSet(1..Len(Chain))
  <2>1. 1 \in Int /\ Len(Chain) \in Int
    BY <1>1
  <2> QED BY <2>1, FS_Interval
<1>4. LastLinks \subseteq Nat /\ IsFiniteSet(LastLinks)
  <2>1. LastLinks \in SUBSET (1..Len(Chain))
    BY <1>2
  <2> QED BY <1>1, <1>3, <2>1, FS_Subset
<1> DEFINE order == InOrder(LastLinks)
           c == Cardinality(LastLinks)
<1>5. /\ c \in Nat /\ DOMAIN order = 1..c /\ \A n \in 1..c : order[n] \in LastLinks
      /\ \A m, n \in 1..c : order[m] = order[n] => m = n
      /\ \A i \in LastLinks : \E n \in 1..c : order[n] = i
  BY <1>4, InOrderIs
<1>6. Woken = [n \in DOMAIN order |-> Chain[order[n]].rs]
  BY DEF Woken
<1> HIDE DEF order, c
<1>7. DOMAIN Woken = 1..c /\ Len(Woken) = c /\ \A n \in 1..c : Woken[n] = Chain[order[n]].rs
  BY <1>5, <1>6
<1>8. ASSUME NEW m \in 1..c, NEW n \in 1..c, Woken[m] = Woken[n] PROVE m = n
  <2>1. PICK i, j : i = order[m] /\ j = order[n]
    OBVIOUS
  <2>2. i \in LastLinks /\ j \in LastLinks /\ Chain[i].rs = Chain[j].rs
    BY <1>5, <1>7, <1>8, <2>1
  <2>3. i \in 1..Len(Chain) /\ j \in 1..Len(Chain)
    BY <1>2, <2>2
  <2>4. ~(i < j)
    <3>1. SUFFICES ASSUME i < j PROVE FALSE
      OBVIOUS
    <3>2. j \in i + 1..Len(Chain)
      BY <1>1, <2>3, <3>1
    <3> QED BY <1>2, <2>2, <3>2
  <2>5. ~(j < i)
    <3>1. SUFFICES ASSUME j < i PROVE FALSE
      OBVIOUS
    <3>2. i \in j + 1..Len(Chain)
      BY <1>1, <2>3, <3>1
    <3> QED BY <1>2, <2>2, <3>2
  <2>6. i = j
    BY <1>1, <2>3, <2>4, <2>5
  <2> QED BY <1>5, <2>1, <2>6
<1>9. ASSUME NEW t \in ToSet(Woken)
      PROVE  /\ \E i \in 1..Len(Chain) : Leads(i, t)
             /\ OperandsReady(AfterWake[t]) /\ AfterWake[t].kind # "load"
  <2>1. PICK n \in 1..c : t = Woken[n]
    BY <1>7 DEF ToSet
  <2>2. PICK i \in LastLinks : t = Chain[i].rs
    BY <1>5, <1>7, <2>1
  <2> QED BY <1>2, <2>2
<1>10. ASSUME NEW t, NEW i \in 1..Len(Chain), Leads(i, t), OperandsReady(AfterWake[t]), AfterWake[t].kind # "load"
       PROVE  t \in ToSet(Woken)
  <2> DEFINE S == {j \in 1..Len(Chain) : Leads(j, t)}
             f == [j \in S |-> j]
  <2>1. S # {} /\ IsFiniteSet(S)
    <3>1. S \in SUBSET (1..Len(Chain)) /\ i \in S
      BY <1>10
    <3> QED BY <1>3, <3>1, FS_Subset
  <2>2. \A j \in S : f[j] = j /\ f[j] \in Nat
    BY <1>1
  <2> HIDE DEF S, f
  <2>3. PICK w \in S : \A j \in S : f[j] <= f[w]
    BY <2>1, <2>2, Largest
  <2>4. w \in 1..Len(Chain) /\ Chain[w].rs = t /\ Leads(w, t)
    BY DEF S, Leads
  <2>5. ASSUME NEW j \in w + 1..Len(Chain) PROVE ~Leads(j, t)
    <3>1. j \in 1..Len(Chain) /\ ~(j <= w)
      BY <1>1, <2>4
    <3>2. j \notin S
      BY <2>2, <2>3, <3>1
    <3> QED BY <3>1, <3>2 DEF S
  <2>6. w \in LastLinks
    BY <1>2, <1>10, <2>4, <2>5
  <2>7. PICK n \in 1..c : order[n] = w
    BY <1>5, <2>6
  <2> QED BY <1>7, <2>4, <2>7 DEF ToSet
<1> QED BY <1>5, <1>7, <1>8, <1>9, <1>10

\* Who is woken had an operand to come, and was not queued.
LEMMA WokenWaited ==
    ASSUME RuuCore, LinksToOps, Writeback, NoPanic', Finished \in Stations, Finished \notin Squashed,
           NEW t \in ToSet(Woken)
    PROVE  ~OperandsReady(st[t]) /\ ~st[t].queued /\ OperandsReady(AfterWake[t])
<1>1. PICK i \in 1..Len(Chain) : Leads(i, t) /\ OperandsReady(AfterWake[t])
  BY WokenOnce
<1>2. DOMAIN Chain = 1..Len(Chain) /\ Chain[i] \in AllLinks
  BY ChainIs
<1>3. t \notin Squashed /\ t \in Live
  BY <1>1, <1>2, ChainLive DEF Leads
<1>4. AfterSquash[t] = st[t]
  BY <1>3, SquashedStations, LiveLists DEF RuuCore
<1>5. PICK j \in Outs : Chain[i] \in ToSet(st[Finished].odeps[j])
  BY ChainFrom
<1>6. Chain[i].x \in Ops
  BY <1>5 DEF LinksToOps
<1>7. /\ ~\E n \in DOMAIN Chain : ValidIn(AfterSquash, Chain[n]) /\ AfterSquash[Chain[n].rs].ready[Chain[n].x]
      /\ ~\E u \in ToSet(Woken) : st[u].queued
  BY DEF Writeback, Due, Finished, Squashed, AfterSquash, Produced, Chain, Wakes, AfterWake, LastLinks, Woken, NoPanic
<1>8. ~AfterSquash[t].ready[Chain[i].x]
  BY <1>1, <1>2, <1>7 DEF Leads
<1>9. ~OperandsReady(st[t])
  BY <1>4, <1>6, <1>8 DEF OperandsReady
<1> QED BY <1>1, <1>7, <1>9

LEMMA WritebackChecks ==
    ASSUME Writeback, NoPanic'
    PROVE  /\ OperandsReady(st[Finished]) /\ ~st[Finished].queued /\ st[Finished].issued /\ ~st[Finished].completed
<1> DEFINE rs == st[Finished]
<1>1. ~(~OperandsReady(rs) \/ rs.queued \/ ~rs.issued \/ rs.completed)
  BY DEF Writeback, Finished, NoPanic
<1> QED BY <1>1

\* What a writeback makes of the lists' links to station t.
LEMMA WokenCounts ==
    ASSUME RuuCore, Writeback, Finished \in Stations, Finished \notin Squashed,
           NEW t \in Stations, t \notin Squashed
    PROVE  /\ Waiting(t) \in Nat /\ Running(t) \in Nat
           /\ Waiting(t)' = Waiting(t) + (IF t \in ToSet(Woken) THEN 1 ELSE 0)
           /\ Running(t)' = Running(t) - (IF t = Finished THEN 1 ELSE 0)
<1>1. /\ event_queue # << >> /\ Valid(Head(event_queue)) /\ st' = MarkQueued(AfterWake, Woken)
      /\ ready_queue' = EnqueueAll(AfterWake, ready_queue, Woken)
      /\ event_queue' = Tail(event_queue) /\ scan' = scan
  BY WritebackIs
<1>2. event_queue \in Seq(LinkType) /\ ready_queue \in Seq(LinkType) /\ scan \in Seq(LinkType) /\ Live \subseteq Stations
  BY CoreLists, LiveLists DEF RuuCore
<1>3. PICK H : H = To(t, st[t].tag)
  OBVIOUS
<1>4. \A x \in Stations : Becomes(x, AfterWake[x]) /\ Becomes(x, st'[x])
  BY <1>1, WokenStations
<1>5. AfterWake[t].tag = st[t].tag /\ st'[t].tag = st[t].tag
  BY <1>4 DEF Becomes
<1>6. NumIn(ready_queue', H) = NumIn(ready_queue, H) + (IF t \in ToSet(Woken) THEN 1 ELSE 0)
  <2>1. /\ Len(Woken) \in Nat /\ DOMAIN Woken = 1..Len(Woken)
        /\ \A m, n \in 1..Len(Woken) : Woken[m] = Woken[n] => m = n
    BY WokenOnce
  <2>2. \A x \in Stations : LinkTo(AfterWake, x, 0) \in LinkType
    <3> TAKE x \in Stations
    <3>1. AfterWake[x].tag \in Nat /\ AfterWake[x].seq \in Nat /\ 0 \in Nat
      BY <1>4 DEF Becomes, StationType
    <3> QED BY <3>1, LinkToIs
  <2>3. \A n \in 1..Len(Woken) : Woken[n] \in Stations
    BY <1>2, WokenIs
  <2>4. \A n \in 1..Len(Woken) : LinkTo(AfterWake, Woken[n], 0) \in LinkType
    BY <2>2, <2>3
  <2>5. PICK g, s, ids : g = st[t].tag /\ s = AfterWake /\ ids = Woken
    OBVIOUS
  <2>6. g = s[t].tag
    BY <1>5, <2>5
  <2>7. /\ Len(ids) \in Nat /\ DOMAIN ids = 1..Len(ids)
        /\ \A m, n \in 1..Len(ids) : ids[m] = ids[n] => m = n
        /\ \A n \in 1..Len(ids) : LinkTo(s, ids[n], 0) \in LinkType
    BY <2>1, <2>4, <2>5
  <2>8. NumIn(EnqueueAll(s, ready_queue, ids), To(t, g))
          = NumIn(ready_queue, To(t, g)) + (IF t \in ToSet(ids) THEN 1 ELSE 0)
    <3>1. ready_queue \in Seq(LinkType)
      BY <1>2
    <3> QED BY <2>6, <2>7, <3>1, EnqueueCounts
  <2> QED BY <1>1, <1>3, <2>5, <2>8
<1>7. Head(event_queue) \in H <=> t = Finished
  <2>1. Head(event_queue) \in LinkType
    BY <1>1, <1>2, TailSet
  <2> QED BY <1>1, <1>3, <2>1 DEF To, Valid, ValidIn, Finished
<1>8. NumIn(event_queue, H) = NumIn(event_queue', H) + (IF t = Finished THEN 1 ELSE 0)
  BY <1>1, <1>2, <1>7, TailCounts
<1>9. /\ NumIn(event_queue, H) \in Nat /\ NumIn(ready_queue, H) \in Nat /\ NumIn(scan, H) \in Nat
      /\ NumIn(event_queue', H) \in Nat
  <2>1. event_queue' \in Seq(LinkType)
    BY <1>1, <1>2, TailSet
  <2> QED BY <1>2, <2>1, InAtFinite
<1>10. /\ Waiting(t) = NumIn(ready_queue, H) + NumIn(scan, H) /\ Running(t) = NumIn(event_queue, H)
       /\ Waiting(t)' = NumIn(ready_queue', H) + NumIn(scan, H) /\ Running(t)' = NumIn(event_queue', H)
  BY <1>1, <1>3, <1>5 DEF Waiting, Running
<1>11. Waiting(t)' = Waiting(t) + (IF t \in ToSet(Woken) THEN 1 ELSE 0)
  BY <1>6, <1>9, <1>10
<1> QED BY <1>8, <1>9, <1>10, <1>11

LEMMA WritebackPlaced ==
    ASSUME RuuCore, AllInPlace, LinksToOps, Writeback, NoPanic'
    PROVE  AllInPlace'
<1>1. PICK o : WrittenBack(o)
  BY WritebackLines
<1>2. /\ Finished \notin Squashed /\ Finished \in Stations /\ Live' = Live \ Squashed /\ Live \subseteq Stations
      /\ \A t \in Stations : Becomes(t, st'[t])
  BY <1>1, LiveLists DEF WrittenBack, RuuCore
<1>3. \A t \in Stations : Wakened(t) /\ AfterWake[t].kind = st[t].kind /\ AfterWake[t].ready = st'[t].ready
  BY <1>2, WokenRest
<1>4. ASSUME NEW t \in Live' PROVE InPlace(t)'
  <2>1. t \in Live /\ t \in Stations /\ t \notin Squashed /\ InPlace(t)
    BY <1>2 DEF AllInPlace
  <2>2. PICK a, b : a = st'[t] /\ b = st[t]
    OBVIOUS
  <2>3. /\ Waiting(t) \in Nat /\ Running(t) \in Nat
        /\ Waiting(t)' = Waiting(t) + (IF t \in ToSet(Woken) THEN 1 ELSE 0)
        /\ Running(t)' = Running(t) - (IF t = Finished THEN 1 ELSE 0)
    BY <1>2, <2>1, WokenCounts
  <2>4. /\ FlagsSound(b) /\ Waiting(t) = (IF b.queued THEN 1 ELSE 0)
        /\ Running(t) = (IF b.issued /\ ~b.completed THEN 1 ELSE 0)
    BY <2>1, <2>2 DEF InPlace
  <2>5. /\ a.kind = b.kind /\ a.issued = b.issued
        /\ \A k \in Ops : a.ready[k] <=> b.ready[k] \/ Wakes(t, k)
        /\ a.queued <=> b.queued \/ t \in ToSet(Woken)
        /\ a.completed <=> b.completed \/ t = Finished
    BY <1>2, <1>3, <2>1, <2>2 DEF Wakened, Becomes
  <2>6. t \in ToSet(Woken) => ~OperandsReady(b) /\ ~b.queued /\ OperandsReady(a)
    BY <1>2, <1>3, <2>1, <2>2, WokenWaited DEF OperandsReady
  <2>7. OperandsReady(b) => OperandsReady(a)
    BY <2>5 DEF OperandsReady
  <2>8. OperandsReady(a) /\ a.kind # "load" /\ ~OperandsReady(b) => t \in ToSet(Woken)
    <3> SUFFICES ASSUME OperandsReady(a), a.kind # "load", ~OperandsReady(b) PROVE t \in ToSet(Woken)
      OBVIOUS
    <3>1. PICK k \in Ops : Wakes(t, k)
      BY <2>5 DEF OperandsReady
    <3>2. DOMAIN Chain = 1..Len(Chain)
      BY <1>2, ChainIs
    <3>3. \E i \in 1..Len(Chain) : Leads(i, t)
      BY <3>1, <3>2 DEF Wakes, Leads
    <3>4. OperandsReady(AfterWake[t]) /\ AfterWake[t].kind # "load"
      BY <1>3, <2>1, <2>2, <2>5 DEF OperandsReady
    <3> QED BY <1>2, <3>3, <3>4, WokenOnce
  <2>9. t = Finished => OperandsReady(b) /\ ~b.queued /\ b.issued /\ ~b.completed
    BY <2>2, WritebackChecks
  <2>10. FlagsSound(a)
    BY <2>4, <2>5, <2>6, <2>7, <2>8, <2>9 DEF FlagsSound
  <2>11. Waiting(t)' = (IF a.queued THEN 1 ELSE 0)
    BY <2>3, <2>4, <2>5, <2>6
  <2>12. Running(t)' = (IF a.issued /\ ~a.completed THEN 1 ELSE 0)
    BY <2>3, <2>4, <2>5, <2>9
  <2>13. FlagsSound(st[t])' <=> FlagsSound(a)
    BY <2>2 DEF FlagsSound, OperandsReady
  <2> QED BY <2>2, <2>10, <2>11, <2>12, <2>13 DEF InPlace
<1> QED BY <1>4 DEF AllInPlace

-----------------------------------------------------------------------------
\* The links on the chains of s are those of r, and others to operands.
OpsAdded(s, r) == \A x \in Stations : \A j \in Outs : \A l \in ToSet(s[x].odeps[j]) :
                      l \in ToSet(r[x].odeps[j]) \/ l.x \in Ops

LEMMA LinkIdepOps ==
    ASSUME NEW s, s \in [Stations -> StationType], NEW id, NEW c \in CvType, NEW k \in Ops,
           NEW u, u = LinkIdep(s, id, c, k)
    PROVE  OpsAdded(u, s)
<1> SUFFICES ASSUME NEW x \in Stations, NEW j \in Outs, NEW l \in ToSet(u[x].odeps[j])
             PROVE  l \in ToSet(s[x].odeps[j]) \/ l.x \in Ops
  BY DEF OpsAdded
<1>1. s[x] \in StationType
  OBVIOUS
<1>2. CASE c.rs = Null
  BY <1>2 DEF LinkIdep
<1>3. CASE c.rs # Null
  <2>1. PICK m, old : m = LinkTo(s, id, k) /\ old = s[c.rs].odeps[c.odep]
    OBVIOUS
  <2>2. PICK new : new = <<m>> \o old
    OBVIOUS
  <2>3. u = [s EXCEPT ![c.rs].odeps[c.odep] = new]
    BY <1>3, <2>1, <2>2 DEF LinkIdep
  <2>4. CASE x = c.rs /\ j = c.odep
    <3>1. u[x] = [s[x] EXCEPT !.odeps[j] = new]
      BY <2>3, <2>4
    <3>2. u[x].odeps = [s[x].odeps EXCEPT ![j] = new] /\ s[x].odeps \in [Outs -> Seq(LinkType)]
      BY <1>1, <3>1 DEF StationType
    <3>3. u[x].odeps[j] = new /\ old = s[x].odeps[j] /\ old \in Seq(LinkType)
      BY <2>1, <2>4, <3>2
    <3>4. m.x = k
      BY <2>1 DEF LinkTo
    <3>5. PICK n \in DOMAIN new : l = new[n]
      BY <3>3 DEF ToSet
    <3>6. DOMAIN new = 1..1 + Len(old) /\ new[1] = m /\ \A i \in 2..1 + Len(old) : new[i] = old[i - 1]
      BY <2>2, <3>3
    <3>7. CASE n = 1
      BY <3>4, <3>5, <3>6, <3>7
    <3>8. CASE n # 1
      <4>1. n - 1 \in 1..Len(old) /\ l = old[n - 1]
        BY <3>3, <3>5, <3>6, <3>8
      <4> QED BY <3>3, <4>1, SeqMembers
    <3> QED BY <3>7, <3>8
  <2>5. CASE ~(x = c.rs /\ j = c.odep)
    <3>1. u[x] = s[x] \/ (x = c.rs /\ u[x] = [s[x] EXCEPT !.odeps[c.odep] = new])
      BY <2>3
    <3>2. u[x].odeps[j] = s[x].odeps[j]
      <4>1. CASE u[x] = s[x]
        BY <4>1
      <4>2. CASE x = c.rs /\ u[x] = [s[x] EXCEPT !.odeps[c.odep] = new]
        <5>1. u[x].odeps = [s[x].odeps EXCEPT ![c.odep] = new] /\ s[x].odeps \in [Outs -> Seq(LinkType)]
          BY <1>1, <4>2 DEF StationType
        <5> QED BY <2>5, <4>2, <5>1
      <4> QED BY <3>1, <4>1, <4>2
    <3> QED BY <3>2
  <2> QED BY <2>4, <2>5
<1> QED BY <1>2, <1>3

LEMMA LinkedOps ==
    ASSUME NEW s, s \in [Stations -> StationType], NEW id \in Stations, NEW C, \A k \in Ops : C[k] \in CvType,
           NEW u, u = Linked(s, id, C)
    PROVE  OpsAdded(u, s)
<1>1. 0 \in Ops /\ 1 \in Ops /\ 2 \in Ops
  BY DEF Ops
<1>2. PICK a : a = LinkIdep(s, id, C[0], 0)
  OBVIOUS
<1>3. PICK b : b = LinkIdep(a, id, C[1], 1)
  OBVIOUS
<1>4. u = LinkIdep(b, id, C[2], 2)
  BY <1>2, <1>3 DEF Linked
<1>5. Linking(a, s, id, C, One(C[0]))
  BY <1>1, <1>2, LinkIdepIs DEF One
<1>6. a \in [Stations -> StationType]
  BY <1>5 DEF Linking
<1>7. Linking(b, a, id, C, One(C[1]))
  BY <1>1, <1>3, <1>6, LinkIdepIs DEF One
<1>8. b \in [Stations -> StationType]
  BY <1>7 DEF Linking
<1>9. OpsAdded(a, s) /\ OpsAdded(b, a) /\ OpsAdded(u, b)
  BY <1>1, <1>2, <1>3, <1>4, <1>6, <1>8, LinkIdepOps
<1> QED BY <1>9 DEF OpsAdded

LEMMA OpsStep ==
    ASSUME LinksToOps, OpsAdded(st', st)
    PROVE  LinksToOps'
BY DEF LinksToOps, OpsAdded

\* A station filled in.
LEMMA FilledOps ==
    ASSUME NEW s \in [Stations -> StationType], NEW id \in Stations, NEW a \in StationType,
           \A k \in Outs : a.odeps[k] = << >>
    PROVE  OpsAdded([s EXCEPT ![id] = a], s)
<1>1. PICK u : u = [s EXCEPT ![id] = a]
  OBVIOUS
<1>2. \A x \in Stations : u[x] = (IF x = id THEN a ELSE s[x])
  BY <1>1
<1>3. \A l : l \notin ToSet(<< >>)
  BY DEF ToSet
<1> QED BY <1>1, <1>2, <1>3 DEF OpsAdded

\* A station t holds what is new, and what dispatch makes of it.
LEMMA OpLinksToOps ==
    ASSUME RuuCore, LinksToOps, NEW i \in program, NEW m \in BOOLEAN, NEW id, NEW a, NEW t,
           OpDispatched(i, m, id, a, t), Enqueued(t, id)
    PROVE  LinksToOps'
<1>1. t = Linked([st EXCEPT ![id] = a], id, Creators(i))
  BY DEF OpDispatched
<1>2. id \in Stations /\ a \in StationType /\ t \in [Stations -> StationType] /\ \A k \in Outs : a.odeps[k] = << >>
  BY OpPlaced DEF Entry, Placed
<1>3. \A k \in Ops : Creators(i)[k] \in CvType
  BY CreatorsAre, OfferedIs
<1>4. st \in [Stations -> StationType]
  BY DEF RuuCore, Typed
<1>5. PICK s : s = [st EXCEPT ![id] = a]
  OBVIOUS
<1>6. s \in [Stations -> StationType]
  BY <1>2, <1>4, <1>5
<1>7. OpsAdded(t, s)
  BY <1>1, <1>2, <1>3, <1>5, <1>6, LinkedOps
<1>8. OpsAdded(s, st)
  BY <1>2, <1>4, <1>5, FilledOps
<1>9. \A x \in Stations : st'[x].odeps = t[x].odeps
  BY <1>2, EnqueuedRest
<1>10. OpsAdded(st', st)
  BY <1>7, <1>8, <1>9 DEF OpsAdded
<1> QED BY <1>10, OpsStep

LEMMA MemLinksToOps ==
    ASSUME RuuCore, LinksToOps, NEW i \in program, NEW id, NEW lsq, NEW a, NEW t, NEW b, NEW u,
           MemDispatched(i, id, lsq, a, t, b, u), Enqueued(u, id)
    PROVE  LinksToOps'
<1>1. /\ t = Linked([st EXCEPT ![id] = a], id, AddrCs(i))
      /\ u = Linked([t EXCEPT ![lsq] = b], lsq, AccessCs(i, id))
  BY DEF MemDispatched
<1>2. /\ id \in Stations /\ lsq \in Stations
      /\ a \in StationType /\ t \in [Stations -> StationType] /\ \A k \in Outs : a.odeps[k] = << >>
      /\ b \in StationType /\ u \in [Stations -> StationType] /\ \A k \in Outs : b.odeps[k] = << >>
  BY MemStations, MemPlaced DEF Entry, Placed
<1>3. \A k \in Ops : AddrCs(i)[k] \in CvType /\ AccessCs(i, id)[k] \in CvType
  BY <1>2, AddrCreators, AccessCreators
<1>4. st \in [Stations -> StationType]
  BY DEF RuuCore, Typed
<1>5. PICK s, r : s = [st EXCEPT ![id] = a] /\ r = [t EXCEPT ![lsq] = b]
  OBVIOUS
<1>6. s \in [Stations -> StationType] /\ r \in [Stations -> StationType]
  BY <1>2, <1>4, <1>5
<1>7. OpsAdded(t, s) /\ OpsAdded(u, r)
  BY <1>1, <1>2, <1>3, <1>5, <1>6, LinkedOps
<1>8. OpsAdded(s, st) /\ OpsAdded(r, t)
  BY <1>2, <1>4, <1>5, FilledOps
<1>9. \A x \in Stations : st'[x].odeps = u[x].odeps
  BY <1>2, EnqueuedRest
<1>10. OpsAdded(st', st)
  BY <1>7, <1>8, <1>9 DEF OpsAdded
<1> QED BY <1>10, OpsStep

\* No list links to a station out of use.
LEMMA NoneTo ==
    ASSUME RuuCore, NEW x, x \notin Live
    PROVE  Waiting(x) = 0 /\ Running(x) = 0
<1>1. ready_queue \in Seq(LinkType) /\ event_queue \in Seq(LinkType) /\ scan \in Seq(LinkType)
  BY CoreLists
<1>2. PICK H : H = To(x, st[x].tag)
  OBVIOUS
<1>3. ASSUME NEW q \in Seq(LinkType), ToSet(q) \subseteq AllLinks PROVE NumIn(q, H) = 0
  <2>1. ASSUME NEW n \in 1..Len(q) PROVE q[n] \notin H
    <3>1. q[n] \in AllLinks
      BY <1>3, SeqMembers
    <3>2. GoodLink(q[n])
      BY <3>1 DEF RuuCore, LinksGood
    <3> QED BY <1>2, <3>2 DEF GoodLink, To, Valid, ValidIn
  <2> QED BY <2>1, InAtFinite
<1>4. NumIn(ready_queue, H) = 0 /\ NumIn(scan, H) = 0 /\ NumIn(event_queue, H) = 0
  BY <1>1, <1>3, ListsInAll
<1> QED BY <1>2, <1>4 DEF Waiting, Running

\* The ready queue has one more link to id if it has its operands.
LEMMA EnqueuedCounts ==
    ASSUME RuuCore, NEW s \in [Stations -> StationType], NEW id \in Stations, Enqueued(s, id), NEW x \in Stations
    PROVE  /\ NumIn(ready_queue', To(x, s[x].tag)) = NumIn(ready_queue, To(x, s[x].tag))
                                                     + (IF x = id /\ OperandsReady(s[id]) THEN 1 ELSE 0)
           /\ NumIn(ready_queue, To(x, s[x].tag)) \in Nat
<1>1. ready_queue \in Seq(LinkType)
  BY CoreLists
<1>2. NumIn(ready_queue, To(x, s[x].tag)) \in Nat
  BY <1>1, InAtFinite
<1>3. CASE OperandsReady(s[id])
  <2>1. PICK ids, g : ids = <<id>> /\ g = s[x].tag
    OBVIOUS
  <2>2. ready_queue' = EnqueueAll(s, ready_queue, ids)
    BY <1>3, <2>1 DEF Enqueued
  <2>3. /\ Len(ids) \in Nat /\ DOMAIN ids = 1..Len(ids) /\ \A n \in 1..Len(ids) : ids[n] = id
        /\ \A m, n \in 1..Len(ids) : ids[m] = ids[n] => m = n
        /\ ToSet(ids) = {id}
    <3>1. Len(ids) = 1 /\ ids[1] = id /\ DOMAIN ids = 1..1
      BY <2>1
    <3> QED BY <3>1 DEF ToSet
  <2>4. LinkTo(s, id, 0) \in LinkType
    <3>1. s[id].tag \in Nat /\ s[id].seq \in Nat /\ 0 \in Nat
      BY DEF StationType
    <3> QED BY <3>1, LinkToIs
  <2>5. \A n \in 1..Len(ids) : LinkTo(s, ids[n], 0) \in LinkType
    BY <2>3, <2>4
  <2>6. NumIn(EnqueueAll(s, ready_queue, ids), To(x, g)) = NumIn(ready_queue, To(x, g)) + (IF x \in ToSet(ids) THEN 1 ELSE 0)
    BY <1>1, <2>1, <2>3, <2>5, EnqueueCounts
  <2> QED BY <1>2, <1>3, <2>1, <2>2, <2>3, <2>6
<1>4. CASE ~OperandsReady(s[id])
  BY <1>2, <1>4 DEF Enqueued
<1> QED BY <1>2, <1>3, <1>4

LEMMA EnteredPlaces ==
    ASSUME RuuCore, AllInPlace, NEW new, Entered(new), UNCHANGED <<scan, event_queue>>, NEW id \in new,
           \A x \in Stations : x \notin new => SameRest(st'[x], st[x]),
           \A x \in Stations : /\ NumIn(ready_queue', To(x, st[x].tag))
                                    = NumIn(ready_queue, To(x, st[x].tag)) + (IF x = id /\ st'[id].queued THEN 1 ELSE 0)
                               /\ NumIn(ready_queue, To(x, st[x].tag)) \in Nat,
           ~st'[id].issued, st'[id].queued <=> OperandsReady(st'[id]),
           \A x \in new : x # id => ~st'[x].queued /\ ~st'[x].issued /\ ~OperandsReady(st'[x])
    PROVE  AllInPlace'
<1>1. /\ new \subseteq Stations /\ new \cap Live = {} /\ Live' = Live \cup new
      /\ \A x \in Stations : x \notin new => SameInstr(st'[x], st[x])
      /\ \A x \in new : st'[x].tag = st[x].tag /\ ~st'[x].completed
  BY DEF Entered
<1>2. Live \subseteq Stations
  BY LiveLists DEF RuuCore
<1>3. ASSUME NEW x \in Live' PROVE InPlace(x)'
  <2>1. x \in Stations /\ st'[x].tag = st[x].tag
    BY <1>1, <1>2, <1>3 DEF SameInstr
  <2>2. PICK H : H = To(x, st[x].tag)
    OBVIOUS
  <2>3. scan \in Seq(LinkType)
    BY CoreLists
  <2>4. NumIn(scan, H) \in Nat
    BY <2>3, InAtFinite
  <2>5. /\ Waiting(x) = NumIn(ready_queue, H) + NumIn(scan, H)
        /\ Waiting(x)' = NumIn(ready_queue', H) + NumIn(scan, H)
        /\ Running(x)' = Running(x)
    BY <2>1, <2>2 DEF Waiting, Running
  <2>6. Waiting(x)' = Waiting(x) + (IF x = id /\ st'[id].queued THEN 1 ELSE 0)
    BY <2>1, <2>2, <2>4, <2>5
  <2>7. CASE x \notin new
    <3>1. x # id /\ InPlace(x) /\ SameFlags(st'[x], st[x])
      BY <1>1, <1>3, <2>1, <2>7 DEF SameInstr, SameRest, SameFlags, AllInPlace
    <3>2. Waiting(x) \in Nat
      BY <2>1, <2>2, <2>4, <2>5
    <3>3. Waiting(x)' = Waiting(x)
      BY <2>6, <3>1, <3>2
    <3> QED BY <2>5, <3>1, <3>3, StaysInPlace
  <2>8. CASE x \in new
    <3>1. Waiting(x) = 0 /\ Running(x) = 0
      BY <1>1, <2>8, NoneTo
    <3>2. ~st'[x].issued /\ (st'[x].queued <=> OperandsReady(st'[x])) /\ (x # id => ~st'[x].queued)
      BY <2>8
    <3>3. FlagsSound(st[x])'
      BY <1>1, <2>8, <3>2 DEF FlagsSound, OperandsReady
    <3>4. Waiting(x)' = (IF st'[x].queued THEN 1 ELSE 0)
      BY <2>6, <3>1, <3>2
    <3>5. Running(x)' = (IF st'[x].issued /\ ~st'[x].completed THEN 1 ELSE 0)
      BY <2>5, <3>1, <3>2
    <3> QED BY <3>3, <3>4, <3>5 DEF InPlace
  <2> QED BY <2>7, <2>8
<1> QED BY <1>3 DEF AllInPlace

LEMMA OpPlaces ==
    ASSUME RuuCore, AllInPlace, NEW i \in program, NEW m \in BOOLEAN, DispatchOp(i, m), NoPanic'
    PROVE  AllInPlace'
<1>1. PICK id, a, t : OpDispatched(i, m, id, a, t) /\ Enqueued(t, id)
  BY OpEnqueues
<1>2. Entered({id})
  BY <1>1, OpEntered, ZenonT(60)
<1>3. OpRested(i, id)
  <2>1. OpDispatched(i, m, id, a, t)
    BY <1>1
  <2>2. Enqueued(t, id)
    BY <1>1
  <2> QED BY <2>1, <2>2, OpRest
<1>4. Placed(t, st, id, a, Creators(i)) /\ Entry(a, id, i.kind, i.class, inst_seq + 1, i.outs) /\ id \in Stations
  <2>1. OpDispatched(i, m, id, a, t)
    BY <1>1
  <2> QED BY <2>1, OpPlaced, ZenonT(60)
<1>5. t \in [Stations -> StationType] /\ \A x \in Stations : t[x].tag = st[x].tag
  BY <1>4 DEF Placed, Entry, SameButLinks
<1>6. OperandsReady(t[id]) <=> st'[id].queued
  <2>1. st'[id].ready = t[id].ready
    BY <1>1, <1>4, <1>5, EnqueuedRest
  <2> QED BY <1>3, <2>1 DEF OpRested, OperandsReady
<1>7. ASSUME NEW x \in Stations
      PROVE  /\ NumIn(ready_queue', To(x, st[x].tag))
                  = NumIn(ready_queue, To(x, st[x].tag)) + (IF x = id /\ st'[id].queued THEN 1 ELSE 0)
             /\ NumIn(ready_queue, To(x, st[x].tag)) \in Nat
  BY <1>1, <1>4, <1>5, <1>6, EnqueuedCounts
<1>8. UNCHANGED <<scan, event_queue>>
  BY <1>1 DEF OpDispatched
<1>9. /\ \A x \in Stations : x \notin {id} => SameRest(st'[x], st[x])
      /\ ~st'[id].issued /\ (st'[id].queued <=> OperandsReady(st'[id]))
  BY <1>3 DEF OpRested
<1>10. PICK new : new = {id}
  OBVIOUS
<1> QED BY <1>2, <1>7, <1>8, <1>9, <1>10, EnteredPlaces

LEMMA MemPlaces ==
    ASSUME RuuCore, AllInPlace, NEW i \in program, DispatchMem(i), NoPanic'
    PROVE  AllInPlace'
<1>1. PICK id, lsq, a, t, b, u : MemDispatched(i, id, lsq, a, t, b, u) /\ Enqueued(u, id)
  BY MemEnqueues
<1>2. Entered({id, lsq}) /\ id \in Stations /\ lsq \in Stations /\ id # lsq
  BY <1>1, MemEntered, MemStations
<1>3. /\ \A x \in Stations : x # id /\ x # lsq => SameRest(st'[x], st[x])
      /\ ~st'[id].issued /\ (st'[id].queued <=> OperandsReady(st'[id]))
      /\ ~st'[lsq].issued /\ ~st'[lsq].queued
      /\ st'[lsq].ready = [k \in Ops |-> AccessCs(i, id)[k].rs = Null]
  BY <1>1, MemRest
<1>4. ~OperandsReady(st'[lsq])
  <2>1. 1 \in Ops /\ AccessCs(i, id)[1].rs = id
    BY DEF Ops, AccessCs
  <2>2. id # Null
    BY <1>2 DEF Stations, RuuIds, LsqIds, Null
  <2> QED BY <1>3, <2>1, <2>2 DEF OperandsReady
<1>5. /\ Placed(t, st, id, a, AddrCs(i)) /\ Entry(a, id, "agen", i.agen, inst_seq + 1, AddrOuts)
      /\ Placed(u, t, lsq, b, AccessCs(i, id)) /\ Entry(b, lsq, i.kind, i.class, inst_seq + 2, i.outs)
  BY <1>1, MemPlaced
<1>6. u \in [Stations -> StationType] /\ \A x \in Stations : u[x].tag = st[x].tag
  BY <1>5 DEF Placed, Entry, SameButLinks
<1>7. OperandsReady(u[id]) <=> st'[id].queued
  <2>1. st'[id].ready = u[id].ready
    BY <1>1, <1>2, <1>6, EnqueuedRest
  <2> QED BY <1>3, <2>1 DEF OperandsReady
<1>8. ASSUME NEW x \in Stations
      PROVE  /\ NumIn(ready_queue', To(x, st[x].tag))
                  = NumIn(ready_queue, To(x, st[x].tag)) + (IF x = id /\ st'[id].queued THEN 1 ELSE 0)
             /\ NumIn(ready_queue, To(x, st[x].tag)) \in Nat
  BY <1>1, <1>2, <1>6, <1>7, EnqueuedCounts
<1>9. UNCHANGED <<scan, event_queue>>
  BY <1>1 DEF MemDispatched
<1>10. PICK new : new = {id, lsq}
  OBVIOUS
<1>11. id \in new /\ \A x \in new : x # id => x = lsq
  BY <1>10
<1>12. \A x \in Stations : x \notin new => SameRest(st'[x], st[x])
  BY <1>3, <1>10
<1> QED BY <1>2, <1>3, <1>4, <1>8, <1>9, <1>10, <1>11, <1>12, EnteredPlaces

Scheduling == AllInPlace /\ LinksToOps

LEMMA SameScheduling ==
    ASSUME Scheduling, UNCHANGED <<st, queueVars, ready_queue, scan, event_queue>>
    PROVE  Scheduling'
<1>1. Live' = Live
  BY DEF Live, RuuLive, LsqLive, queueVars
<1>2. \A t \in Live' : SameFlags(st'[t], st[t])
  BY DEF SameFlags
<1>3. AllInPlace'
  BY <1>1, <1>2, QuietPlaces DEF Scheduling
<1>4. LinksToOps'
  BY DEF Scheduling, LinksToOps
<1> QED BY <1>3, <1>4 DEF Scheduling

\* The same links are on the chains.
LEMMA SameOps ==
    ASSUME LinksToOps, \A x \in Stations : st'[x].odeps = st[x].odeps
    PROVE  LinksToOps'
<1>1. OpsAdded(st', st)
  BY DEF OpsAdded
<1> QED BY <1>1, OpsStep

LEMMA CommitScheduling ==
    ASSUME RuuCore, Scheduling, CommitHead, NoPanic'
    PROVE  Scheduling'
<1>1. PICK gone : HeadLeaves(EaComp(st[HeadRs]), gone)
  BY CommitLeaves
<1>2. st' = [id \in Stations |-> IF id \in gone THEN [st[id] EXCEPT !.tag = @ + 1] ELSE st[id]]
  BY <1>1 DEF HeadLeaves
<1>3. ASSUME NEW x \in Stations PROVE st'[x].odeps = st[x].odeps
  <2>1. st[x] \in StationType
    BY DEF RuuCore, Typed
  <2>2. st'[x] = [st[x] EXCEPT !.tag = st[x].tag + 1] \/ st'[x] = st[x]
    BY <1>2
  <2> QED BY <2>1, <2>2 DEF StationType
<1> QED BY <1>3, HeadPlaces, SameOps DEF Scheduling

LEMMA WritebackScheduling ==
    ASSUME RuuCore, Scheduling, Writeback, NoPanic'
    PROVE  Scheduling'
<1>1. PICK o : WrittenBack(o)
  BY WritebackLines
<1>2. \A t \in Stations : Becomes(t, st'[t])
  BY <1>1 DEF WrittenBack
<1>3. \A l : l \notin ToSet(<< >>)
  BY DEF ToSet
<1>4. OpsAdded(st', st)
  BY <1>2, <1>3 DEF OpsAdded, Becomes
<1> QED BY <1>4, OpsStep, WritebackPlaced DEF Scheduling

LEMMA RefreshScheduling ==
    ASSUME RuuCore, Scheduling, LsqRefresh
    PROVE  Scheduling'
<1>1. PICK ids : st' = MarkQueued(st, ids)
  BY DEF LsqRefresh
<1>2. st \in [Stations -> StationType]
  BY DEF RuuCore, Typed
<1>3. \A x \in Stations : st'[x].odeps = st[x].odeps
  BY <1>1, <1>2, MarkedRest
<1> QED BY <1>3, RefreshPlaces, SameOps DEF Scheduling

LEMMA IssueScheduling ==
    ASSUME RuuCore, Scheduling, Issue, NoPanic'
    PROVE  Scheduling'
<1>1. st \in [Stations -> StationType] /\ \A x \in Stations : st[x] \in StationType
  BY DEF RuuCore, Typed
<1>2. CASE DropStaleReady
  BY <1>2, StalePlaces, SameOps DEF DropStaleReady, Scheduling
<1>3. CASE Requeue
  BY <1>3, RequeuePlaces, SameOps DEF Requeue, Scheduling
<1>4. CASE IssueDone
  BY <1>4, SameScheduling DEF IssueDone
<1>5. CASE IssueStore
  <2>1. st' = [st EXCEPT ![AtScan].queued = FALSE, ![AtScan].issued = TRUE, ![AtScan].completed = TRUE]
    BY <1>5 DEF IssueStore
  <2>2. ASSUME NEW x \in Stations PROVE st'[x].odeps = st[x].odeps
    <3>1. st'[x] = [st[x] EXCEPT !.queued = FALSE, !.issued = TRUE, !.completed = TRUE] \/ st'[x] = st[x]
      BY <1>1, <2>1
    <3> QED BY <1>1, <3>1 DEF StationType
  <2> QED BY <1>5, <2>2, StorePlaces, SameOps DEF Scheduling
<1>6. ASSUME NEW lat, IssueToUnit(lat) PROVE Scheduling'
  <2>1. st' = [st EXCEPT ![AtScan].queued = FALSE, ![AtScan].issued = TRUE]
    BY <1>6 DEF IssueToUnit
  <2>2. ASSUME NEW x \in Stations PROVE st'[x].odeps = st[x].odeps
    <3>1. st'[x] = [st[x] EXCEPT !.queued = FALSE, !.issued = TRUE] \/ st'[x] = st[x]
      BY <1>1, <2>1
    <3> QED BY <1>1, <3>1 DEF StationType
  <2> QED BY <1>6, <2>2, UnitPlaces, SameOps DEF Scheduling
<1> QED BY <1>2, <1>3, <1>4, <1>5, <1>6 DEF Issue

LEMMA OpScheduling ==
    ASSUME RuuCore, Scheduling, NEW i \in program, NEW m \in BOOLEAN, DispatchOp(i, m), NoPanic'
    PROVE  Scheduling'
<1>1. PICK id, a, t : OpDispatched(i, m, id, a, t) /\ Enqueued(t, id)
  BY OpEnqueues
<1>2. LinksToOps'
  <2>1. OpDispatched(i, m, id, a, t)
    BY <1>1
  <2>2. Enqueued(t, id)
    BY <1>1
  <2>3. LinksToOps
    BY DEF Scheduling
  <2> QED BY <2>1, <2>2, <2>3, OpLinksToOps
<1>3. AllInPlace'
  <2>1. AllInPlace
    BY DEF Scheduling
  <2> QED BY <2>1, OpPlaces
<1> QED BY <1>2, <1>3 DEF Scheduling

LEMMA MemScheduling ==
    ASSUME RuuCore, Scheduling, NEW i \in program, DispatchMem(i), NoPanic'
    PROVE  Scheduling'
<1>1. PICK id, lsq, a, t, b, u : MemDispatched(i, id, lsq, a, t, b, u) /\ Enqueued(u, id)
  BY MemEnqueues
<1> QED BY <1>1, MemLinksToOps, MemPlaces DEF Scheduling

LEMMA InitScheduling ==
    ASSUME Init
    PROVE  Scheduling
<1>1. RUU_num = 0 /\ LSQ_num = 0 /\ \A x \in Stations : \A j \in Outs : st[x].odeps[j] = << >>
  BY DEF Init
<1>2. Live = {}
  BY <1>1 DEF Live, RuuLive, LsqLive, ToSet
<1>3. \A l : l \notin ToSet(<< >>)
  BY DEF ToSet
<1> QED BY <1>1, <1>2, <1>3 DEF Scheduling, AllInPlace, LinksToOps

LEMMA SchedulingStep ==
    ASSUME RuuCore, Scheduling, [Next]_vars, NoPanic'
    PROVE  Scheduling'
<1>1. CASE UNCHANGED vars
  BY <1>1, SameScheduling DEF vars
<1>2. CASE CommitHead
  BY <1>2, CommitScheduling
<1>3. CASE CommitDone \/ WritebackDone \/ DispatchDone
  <2>1. UNCHANGED <<st, queueVars, ready_queue, scan, event_queue>>
    BY <1>3 DEF CommitDone, WritebackDone, DispatchDone
  <2> QED BY <2>1, SameScheduling
<1>4. CASE DropStaleEvent
  BY <1>4, DropEventPlaces, SameOps DEF DropStaleEvent, Scheduling
<1>5. CASE Writeback
  BY <1>5, WritebackScheduling
<1>6. CASE LsqRefresh
  BY <1>6, RefreshScheduling
<1>7. CASE Issue
  BY <1>7, IssueScheduling
<1>8. CASE Dispatch
  BY <1>3, <1>8, OpScheduling, MemScheduling DEF Dispatch
<1>9. CASE Tick
  BY <1>9, TickPlaces, SameOps DEF Tick, Scheduling
<1> QED BY <1>1, <1>2, <1>3, <1>4, <1>5, <1>6, <1>7, <1>8, <1>9 DEF Next, Commit, WritebackStage

\* In all runs that no sanity check stops, an instruction with its operands is on the ready queue
\* once, in execution it is on the event queue once, and it is never on both or lost between them:
\* stale links of stations squashed or retired, which the queues still hold, never count for the
\* instructions that use the stations next.
THEOREM RuuScheduledOnce == Spec => [](NoPanic => ScheduledOnce)
<1> DEFINE Inv == NoPanic => Scheduling
<1>1. Init => Inv
  BY InitScheduling
<1>2. Inv /\ RuuInv /\ [Next]_vars => Inv'
  <2> SUFFICES ASSUME Inv, RuuInv, [Next]_vars, NoPanic' PROVE Scheduling'
    OBVIOUS
  <2>1. NoPanic
    BY StepRuns DEF vars, NoPanic
  <2>2. RuuCore /\ Scheduling
    BY <2>1 DEF RuuInv
  <2> QED BY <2>2, SchedulingStep
<1>3. RuuInv /\ Inv => (NoPanic => ScheduledOnce)
  BY InPlaceOnce DEF RuuInv, Scheduling
<1> QED BY <1>1, <1>2, <1>3, RuuInvariant, PTL DEF Spec

-----------------------------------------------------------------------------
(* The instructions in the machine are numbered in program order.          *)

\* Each count up to that of n is the count at a member.
LEMMA CountHits ==
    ASSUME NEW E, NEW n \in Nat, NEW m \in 1..NumUpto(E, n)
    PROVE  \E k \in 1..n : k \in E /\ NumUpto(E, k) = m
<1> DEFINE S == {k \in 0..n : NumUpto(E, k) >= m}
<1>1. \A k \in Nat : NumUpto(E, k) \in 0..k
  BY UptoFinite
<1>2. n \in S
  BY <1>1
<1>3. PICK k \in S : \A j \in S : k <= j
  <2>1. S \subseteq Nat
    OBVIOUS
  <2> QED BY <1>2, <2>1, LeastOf
<1>4. k \in 0..n /\ NumUpto(E, k) >= m /\ m \in Nat /\ m >= 1
  BY <1>1, <1>3
<1>5. k # 0
  BY <1>1, <1>4
<1>6. PICK j : j = k - 1
  OBVIOUS
<1>7. j \in Nat /\ j \in 0..n /\ k = j + 1 /\ ~(k <= j)
  BY <1>4, <1>5, <1>6
<1>8. j \notin S
  BY <1>3, <1>7
<1>9. ~(NumUpto(E, j) >= m)
  BY <1>7, <1>8
<1>10. NumUpto(E, k) = IF k \in E THEN NumUpto(E, j) + 1 ELSE NumUpto(E, j)
  BY <1>7, CountNext
<1>11. NumUpto(E, j) \in Nat /\ NumUpto(E, k) \in Nat
  BY <1>1, <1>4, <1>7
<1>12. k \in E
  BY <1>4, <1>9, <1>10
<1>13. NumUpto(E, k) = m
  BY <1>4, <1>9, <1>10, <1>11, <1>12
<1> QED BY <1>4, <1>5, <1>12, <1>13

\* The last number of an instruction: a load or store has one more for its access.
SeqEnd(r) == IF EaComp(r) THEN r.seq + 1 ELSE r.seq

Aged ==
    \A k \in 1..RUU_num :
        /\ st[RuuLive[k]].seq >= 1 /\ SeqEnd(st[RuuLive[k]]) <= inst_seq
        /\ \A j \in 1..RUU_num : j < k => SeqEnd(st[RuuLive[j]]) < st[RuuLive[k]].seq

\* Station x is entry k of the RUU or its access.
HomeOf(x, k) ==
    k \in 1..RUU_num /\ (x = RuuLive[k] \/ (EaComp(st[RuuLive[k]]) /\ x = LsqLive[Agens(k)]))

LEMMA Homes ==
    ASSUME RuuCore, NEW x \in Live
    PROVE  \E k : HomeOf(x, k)
<1>1. Rings /\ Paired
  BY DEF RuuCore
<1>2. CASE \E k \in 1..RUU_num : x = RuuLive[k]
  BY <1>2 DEF HomeOf
<1>3. ASSUME NEW n \in 1..LSQ_num, x = LsqLive[n] PROVE \E k : HomeOf(x, k)
  <2>1. RUU_num \in Nat
    BY <1>1 DEF Rings, Ring
  <2>2. \A k \in 0..RUU_num : Agens(k) = NumUpto(AgenPlaces, k)
    BY <2>1, AgensIs
  <2>3. NumUpto(AgenPlaces, RUU_num) = LSQ_num
    BY <1>1, <2>1, <2>2 DEF Paired
  <2>4. PICK k \in 1..RUU_num : k \in AgenPlaces /\ NumUpto(AgenPlaces, k) = n
    BY <2>1, <2>3, CountHits
  <2>5. EaComp(st[RuuLive[k]])
    BY <2>4 DEF AgenPlaces
  <2>6. Agens(k) = n
    BY <2>1, <2>2, <2>4
  <2> QED BY <1>3, <2>5, <2>6 DEF HomeOf
<1>4. (\E k \in 1..RUU_num : x = RuuLive[k]) \/ (\E k \in 1..LSQ_num : x = LsqLive[k])
  BY <1>1, LiveLists
<1> QED BY <1>2, <1>3, <1>4

\* What is known of the stations of an instruction.
LEMMA HomeIs ==
    ASSUME RuuCore, NEW x, NEW k, HomeOf(x, k)
    PROVE  /\ x \in Live /\ x \in Stations /\ RuuLive[k] \in Stations /\ st[x].seq \in Nat /\ st[RuuLive[k]].seq \in Nat
           /\ st[x].spec = st[RuuLive[k]].spec
           /\ \/ x = RuuLive[k]
              \/ EaComp(st[RuuLive[k]]) /\ x = LsqLive[Agens(k)] /\ st[x].seq = st[RuuLive[k]].seq + 1
<1>1. Rings /\ Paired
  BY DEF RuuCore
<1>2. k \in 1..RUU_num /\ (x = RuuLive[k] \/ (EaComp(st[RuuLive[k]]) /\ x = LsqLive[Agens(k)]))
  BY DEF HomeOf
<1>3. RuuLive[k] \in Live
  BY <1>1, <1>2, LiveLists
<1>4. ASSUME x # RuuLive[k]
      PROVE  x \in Live /\ st[x].seq = st[RuuLive[k]].seq + 1 /\ st[x].spec = st[RuuLive[k]].spec
  <2>1. EaComp(st[RuuLive[k]]) /\ x = LsqLive[Agens(k)]
    BY <1>2, <1>4
  <2>2. Agens(k) \in 1..LSQ_num /\ st[x].seq = st[RuuLive[k]].seq + 1 /\ st[x].spec = st[RuuLive[k]].spec
    BY <1>1, <1>2, <2>1 DEF Paired
  <2> QED BY <1>1, <2>1, <2>2, LiveLists
<1>5. x \in Live
  BY <1>2, <1>3, <1>4
<1>6. \A y \in Live : y \in Stations /\ st[y].seq \in Nat
  <2>1. Live \subseteq Stations
    BY <1>1, LiveLists
  <2>2. \A y \in Stations : st[y] \in StationType
    BY DEF RuuCore, Typed
  <2>3. \A y \in Stations : st[y].seq \in Nat
    BY <2>2 DEF StationType
  <2> QED BY <2>1, <2>3
<1> QED BY <1>2, <1>3, <1>4, <1>5, <1>6

LEMMA HomeAge ==
    ASSUME RuuCore, Aged, NEW x, NEW j, HomeOf(x, j), NEW y, NEW k, HomeOf(y, k)
    PROVE  /\ st[x].seq \in 1..inst_seq
           /\ j < k => st[x].seq < st[y].seq
           /\ j = k /\ st[x].seq = st[y].seq => x = y
<1>1. /\ st[x].seq \in Nat /\ st[RuuLive[j]].seq \in Nat
      /\ x = RuuLive[j] \/ (EaComp(st[RuuLive[j]]) /\ x = LsqLive[Agens(j)] /\ st[x].seq = st[RuuLive[j]].seq + 1)
  BY HomeIs
<1>2. /\ st[y].seq \in Nat /\ st[RuuLive[k]].seq \in Nat
      /\ y = RuuLive[k] \/ (EaComp(st[RuuLive[k]]) /\ y = LsqLive[Agens(k)] /\ st[y].seq = st[RuuLive[k]].seq + 1)
  BY HomeIs
<1>3. j \in 1..RUU_num /\ k \in 1..RUU_num
  BY DEF HomeOf
<1>4. inst_seq \in Nat
  BY DEF RuuCore, Typed
<1>5. /\ st[RuuLive[j]].seq >= 1 /\ SeqEnd(st[RuuLive[j]]) <= inst_seq
      /\ j < k => SeqEnd(st[RuuLive[j]]) < st[RuuLive[k]].seq
  BY <1>3 DEF Aged
<1>6. SeqEnd(st[RuuLive[j]]) \in Nat /\ st[RuuLive[j]].seq <= st[x].seq /\ st[x].seq <= SeqEnd(st[RuuLive[j]])
  BY <1>1 DEF SeqEnd
<1>7. st[RuuLive[k]].seq <= st[y].seq
  BY <1>2
<1>8. st[x].seq \in 1..inst_seq
  BY <1>1, <1>4, <1>5, <1>6
<1>9. j < k => st[x].seq < st[y].seq
  BY <1>1, <1>2, <1>5, <1>6, <1>7
<1>10. j = k /\ st[x].seq = st[y].seq => x = y
  BY <1>1, <1>2
<1> QED BY <1>8, <1>9, <1>10

\* No two instructions have the same number, and those on a mispredicted path are the youngest.
LEMMA Ages ==
    ASSUME RuuCore, Aged
    PROVE  /\ \A x \in Live : st[x].seq \in 1..inst_seq /\ st[x].seq \in Nat
           /\ \A x, y \in Live : st[x].seq = st[y].seq => x = y
           /\ \A x, y \in Live : ~st[x].spec /\ st[y].spec => st[x].seq < st[y].seq
<1>1. \A x \in Live : st[x].seq \in 1..inst_seq /\ st[x].seq \in Nat
  BY Homes, HomeAge, HomeIs
<1>2. ASSUME NEW x \in Live, NEW y \in Live
      PROVE  /\ st[x].seq = st[y].seq => x = y
             /\ ~st[x].spec /\ st[y].spec => st[x].seq < st[y].seq
  <2>1. PICK j : HomeOf(x, j)
    BY Homes
  <2>2. PICK k : HomeOf(y, k)
    BY Homes
  <2>3. j \in 1..RUU_num /\ k \in 1..RUU_num /\ RUU_num \in Nat
    BY <2>1, <2>2 DEF HomeOf, RuuCore, Rings, Ring
  <2>4. /\ j < k => st[x].seq < st[y].seq
        /\ j = k /\ st[x].seq = st[y].seq => x = y
    BY <2>1, <2>2, HomeAge
  <2>5. k < j => st[y].seq < st[x].seq
    BY <2>1, <2>2, HomeAge
  <2>6. st[x].seq \in Nat /\ st[y].seq \in Nat
    BY <1>1
  <2>7. st[x].seq = st[y].seq => x = y
    BY <2>3, <2>4, <2>5, <2>6
  <2>8. ASSUME ~st[x].spec, st[y].spec PROVE j < k
    <3>1. st[x].spec = st[RuuLive[j]].spec /\ st[y].spec = st[RuuLive[k]].spec
      BY <2>1, <2>2, HomeIs
    <3>2. ~st[RuuLive[j]].spec /\ st[RuuLive[k]].spec
      BY <2>8, <3>1
    <3>3. OnePath
      BY DEF RuuCore
    <3>4. spec_mode
      BY <2>3, <3>2, <3>3 DEF OnePath
    <3>5. PICK o \in 1..RUU_num : \A n \in 1..RUU_num : st[RuuLive[n]].spec <=> n > o
      BY <3>3, <3>4 DEF OnePath
    <3>6. k > o /\ ~(j > o)
      BY <2>3, <3>2, <3>5
    <3> QED BY <2>3, <3>5, <3>6
  <2> QED BY <2>4, <2>7, <2>8
<1> QED BY <1>1, <1>2

\* The entries are those before, from d on.
LEMMA ShiftedAges ==
    ASSUME Aged, RUU_num \in Nat, RUU_num' \in Nat, NEW d \in Nat, RUU_num' + d <= RUU_num,
           inst_seq' = inst_seq,
           \A k \in 1..RUU_num' : /\ st'[RuuLive'[k]].seq = st[RuuLive[k + d]].seq
                                  /\ st'[RuuLive'[k]].kind = st[RuuLive[k + d]].kind
    PROVE  Aged'
<1>1. \A k \in 1..RUU_num' : SeqEnd(st'[RuuLive'[k]]) = SeqEnd(st[RuuLive[k + d]])
  BY DEF SeqEnd, EaComp
<1>2. \A k \in 1..RUU_num' : k + d \in 1..RUU_num /\ \A j \in 1..RUU_num' : j < k => j + d < k + d
  <2>1. PICK m, n : m = RUU_num' /\ n = RUU_num
    OBVIOUS
  <2>2. m \in Nat /\ n \in Nat /\ m + d <= n
    BY <2>1
  <2>3. \A k \in 1..m : k + d \in 1..n /\ \A j \in 1..m : j < k => j + d < k + d
    BY <2>2
  <2> QED BY <2>1, <2>3
<1>3. ASSUME NEW k \in 1..RUU_num'
      PROVE  /\ st'[RuuLive'[k]].seq >= 1 /\ SeqEnd(st'[RuuLive'[k]]) <= inst_seq'
             /\ \A j \in 1..RUU_num' : j < k => SeqEnd(st'[RuuLive'[j]]) < st'[RuuLive'[k]].seq
  <2>1. /\ st[RuuLive[k + d]].seq >= 1 /\ SeqEnd(st[RuuLive[k + d]]) <= inst_seq
        /\ \A j \in 1..RUU_num : j < k + d => SeqEnd(st[RuuLive[j]]) < st[RuuLive[k + d]].seq
    BY <1>2 DEF Aged
  <2>2. ASSUME NEW j \in 1..RUU_num', j < k PROVE SeqEnd(st'[RuuLive'[j]]) < st'[RuuLive'[k]].seq
    <3>1. j + d \in 1..RUU_num /\ j + d < k + d
      BY <1>2, <2>2
    <3> QED BY <1>1, <2>1, <3>1
  <2> QED BY <1>1, <2>1, <2>2
<1> QED BY <1>3 DEF Aged

LEMMA QuietAges ==
    ASSUME RuuCore, Aged, SameQueues, UNCHANGED inst_seq
    PROVE  Aged'
<1>1. Rings
  BY DEF RuuCore
<1>2. RUU_num \in Nat /\ RUU_num' = RUU_num /\ RuuLive' = RuuLive
  BY <1>1 DEF SameQueues, queueVars, RuuLive, Rings, Ring
<1>3. \A k \in 1..RUU_num : RuuLive[k] \in Stations
  BY <1>1, LiveLists
<1>4. \A x \in Stations : st'[x].seq = st[x].seq /\ st'[x].kind = st[x].kind
  BY DEF SameQueues, SameCore
<1>5. \A k \in 1..RUU_num' : /\ st'[RuuLive'[k]].seq = st[RuuLive[k + 0]].seq
                             /\ st'[RuuLive'[k]].kind = st[RuuLive[k + 0]].kind
  BY <1>2, <1>3, <1>4
<1> QED BY <1>2, <1>5, ShiftedAges

LEMMA HeadAges ==
    ASSUME RuuCore, Aged, NEW gone, HeadLeaves(EaComp(st[HeadRs]), gone)
    PROVE  Aged'
<1>1. /\ RUU_num \in Nat /\ RUU_num > 0 /\ RUU_num' = RUU_num - 1
      /\ \A n \in 1..RUU_num - 1 : Kept(st'[RuuLive'[n]], st[RuuLive[n + 1]])
  BY HeadAgens
<1>2. inst_seq' = inst_seq
  BY DEF HeadLeaves
<1> QED BY <1>1, <1>2, ShiftedAges DEF Kept

LEMMA WritebackAges ==
    ASSUME RuuCore, Aged, NEW o, WrittenBack(o), inst_seq' = inst_seq
    PROVE  Aged'
<1>1. \A n \in 1..o : n \in 1..RUU_num /\ RuuLive[n] \in Stations /\ RuuLive'[n] = RuuLive[n]
  BY WritebackPaired
<1>2. RUU_num' = o /\ o \in 0..RUU_num /\ \A t \in Stations : Becomes(t, st'[t])
  BY DEF WrittenBack, CutAt
<1>3. RUU_num \in Nat
  BY DEF RuuCore, Rings, Ring
<1>4. \A k \in 1..RUU_num' : /\ st'[RuuLive'[k]].seq = st[RuuLive[k + 0]].seq
                             /\ st'[RuuLive'[k]].kind = st[RuuLive[k + 0]].kind
  BY <1>1, <1>2 DEF Becomes
<1> QED BY <1>2, <1>3, <1>4, ShiftedAges

LEMMA EnteredAges ==
    ASSUME RuuCore, Aged, NEW new, Entered(new), NEW id, NEW m, NEW n, NEW d, Appended(new, id, m, n, d),
           st'[id].seq = inst_seq + 1, inst_seq' = inst_seq + 1 + d
    PROVE  Aged'
<1>1. m \in Nat /\ \A k \in 1..m : SameInstr(st'[RuuLive'[k]], st[RuuLive[k]])
  BY AppendedIs
<1>2. RUU_num = m /\ RUU_num' = m + 1 /\ RuuLive'[m + 1] = id /\ (EaComp(st'[id]) <=> d = 1) /\ d \in {0, 1}
  BY DEF Appended
<1>3. inst_seq \in Nat
  BY DEF RuuCore, Typed
<1>4. \A k \in 1..m : SeqEnd(st'[RuuLive'[k]]) = SeqEnd(st[RuuLive[k]]) /\ st'[RuuLive'[k]].seq = st[RuuLive[k]].seq
  BY <1>1 DEF SameInstr, SeqEnd, EaComp
<1>5. SeqEnd(st'[id]) = inst_seq'
  BY <1>2, <1>3 DEF SeqEnd
<1>6. \A k \in 1..m : SeqEnd(st[RuuLive[k]]) \in Nat
  <2>1. Rings
    BY DEF RuuCore
  <2>2. \A k \in 1..m : RuuLive[k] \in Stations
    BY <1>2, <2>1, LiveLists
  <2>3. \A x \in Stations : st[x] \in StationType
    BY DEF RuuCore, Typed
  <2>4. \A x \in Stations : st[x].seq \in Nat
    BY <2>3 DEF StationType
  <2> QED BY <2>2, <2>4 DEF SeqEnd
<1>7. ASSUME NEW k \in 1..m + 1
      PROVE  /\ st'[RuuLive'[k]].seq >= 1 /\ SeqEnd(st'[RuuLive'[k]]) <= inst_seq'
             /\ \A j \in 1..m + 1 : j < k => SeqEnd(st'[RuuLive'[j]]) < st'[RuuLive'[k]].seq
  <2>1. \A j \in 1..m : /\ st[RuuLive[j]].seq >= 1 /\ SeqEnd(st[RuuLive[j]]) <= inst_seq
                        /\ \A i \in 1..m : i < j => SeqEnd(st[RuuLive[i]]) < st[RuuLive[j]].seq
    BY <1>2 DEF Aged
  <2>2. CASE k \in 1..m
    <3>1. \A j \in 1..m + 1 : j < k => j \in 1..m
      BY <1>1, <2>2
    <3>2. SeqEnd(st[RuuLive[k]]) <= inst_seq'
      BY <1>2, <1>3, <1>6, <2>1, <2>2
    <3> QED BY <1>4, <2>1, <2>2, <3>1, <3>2
  <2>3. CASE k = m + 1
    <3>1. \A j \in 1..m + 1 : j < k => j \in 1..m
      BY <1>1, <2>3
    <3>2. RuuLive'[k] = id
      BY <1>2, <2>3
    <3>3. \A j \in 1..m : SeqEnd(st'[RuuLive'[j]]) < st'[id].seq
      BY <1>3, <1>4, <1>6, <2>1
    <3>4. st'[id].seq >= 1 /\ SeqEnd(st'[id]) <= inst_seq'
      BY <1>2, <1>3, <1>5
    <3> QED BY <3>1, <3>2, <3>3, <3>4
  <2> QED BY <1>1, <2>2, <2>3
<1> QED BY <1>2, <1>7 DEF Aged

-----------------------------------------------------------------------------
(* The create vectors name the youngest writers.                           *)

Writes(x, r) == \E k \in Outs : st[x].onames[k] = r
Youngest(w, r, S) == w \in S /\ Writes(w, r) /\ \A o \in S : Writes(o, r) => st[o].seq <= st[w].seq

\* Entry e names the youngest writer of register r in S, or it has its result.
Precise(e, r, S) == IF e.rs = Null THEN \A w : Youngest(w, r, S) => st[w].completed
                                   ELSE Youngest(e.rs, r, S)

RightPath == {id \in Live : ~st[id].spec}

VectorsPrecise ==
    /\ ~spec_mode => use_spec_cv = {}
    /\ \A r \in Registers : Precise(create_vector[r], r, RightPath) /\ Precise(CREATE_VECTOR(r), r, Live)

\* What an entry in use names.
LEMMA EntryNames ==
    ASSUME RuuCore, NEW r \in Registers
    PROVE  /\ Names(create_vector[r], r) /\ Names(CREATE_VECTOR(r), r)
           /\ create_vector[r].rs # Null => ~st[create_vector[r].rs].spec
<1>1. VectorsSound /\ Registers = Regs \cup {DTMP}
  BY DEF RuuCore, Registers
<1>2. Names(create_vector[r], r) /\ (create_vector[r].rs # Null => ~st[create_vector[r].rs].spec)
  BY <1>1 DEF VectorsSound
<1>3. r \in use_spec_cv => Names(spec_create_vector[r], r)
  BY <1>1 DEF VectorsSound
<1> QED BY <1>2, <1>3 DEF CREATE_VECTOR

\* The youngest of some live instructions is the last writer.
LEMMA YoungestIsLast ==
    ASSUME RuuCore, Aged, NEW r \in Registers, NEW S, S \subseteq Live
    PROVE  IF LastWriter(r, S) = Null THEN \A w : ~Youngest(w, r, S)
                                      ELSE \A w : Youngest(w, r, S) <=> w = LastWriter(r, S)
<1> DEFINE W == {id \in S : Writes(id, r)}
<1>1. LastWriter(r, S) = IF W = {} THEN Null ELSE CHOOSE w \in W : \A o \in W : st[o].seq <= st[w].seq
  BY DEF LastWriter, Writes
<1>2. Live \subseteq Stations /\ Null \notin Stations
  <2>1. Rings
    BY DEF RuuCore
  <2> QED BY <2>1, LiveLists, LiveIs
<1>3. \A w : Youngest(w, r, S) <=> w \in W /\ \A o \in W : st[o].seq <= st[w].seq
  BY DEF Youngest
<1>4. CASE W = {}
  BY <1>1, <1>3, <1>4
<1>5. CASE W # {}
  <2> DEFINE f == [x \in Live |-> st[x].seq]
  <2>1. \A x \in Live : st[x].seq \in Nat
    BY Ages
  <2>2. IsFiniteSet(W)
    BY <1>2, StationsFinite, FS_Subset
  <2>3. \A x \in W : f[x] \in Nat
    BY <2>1
  <2>4. PICK w \in W : \A x \in W : f[x] <= f[w]
    <3> HIDE DEF f, W
    <3> QED BY <1>5, <2>2, <2>3, Largest
  <2>5. \A x \in W : st[x].seq <= st[w].seq
    BY <2>4
  <2>6. PICK v : v = LastWriter(r, S)
    OBVIOUS
  <2>7. v \in W /\ \A x \in W : st[x].seq <= st[v].seq
    <3> HIDE DEF W
    <3> QED BY <1>1, <1>5, <2>5, <2>6
  <2>8. v # Null
    BY <1>2, <2>7
  <2>9. ASSUME NEW u, Youngest(u, r, S) PROVE u = v
    <3>1. u \in W /\ \A o \in W : st[o].seq <= st[u].seq
      BY <1>3, <2>9
    <3>2. u \in Live /\ v \in Live
      BY <2>7, <3>1
    <3>3. st[u].seq <= st[v].seq /\ st[v].seq <= st[u].seq
      BY <2>7, <3>1
    <3>4. st[u].seq = st[v].seq
      BY <2>1, <3>2, <3>3
    <3> QED BY <3>2, <3>4, Ages
  <2>10. Youngest(v, r, S)
    BY <1>3, <2>7
  <2> QED BY <2>6, <2>8, <2>9, <2>10
<1> QED BY <1>4, <1>5

LEMMA EntryCreates ==
    ASSUME RuuCore, Aged, NEW r \in Registers, NEW S, S \subseteq Live, NEW cv, Precise(cv[r], r, S),
           Names(cv[r], r)
    PROVE  Creates(cv, r, LastWriter(r, S))
<1>1. PICK w : w = LastWriter(r, S)
  OBVIOUS
<1>2. IF w = Null THEN \A v : ~Youngest(v, r, S) ELSE \A v : Youngest(v, r, S) <=> v = w
  BY <1>1, YoungestIsLast
<1>3. CASE cv[r].rs = Null
  <2>1. \A v : Youngest(v, r, S) => st[v].completed
    BY <1>3 DEF Precise
  <2> QED BY <1>1, <1>2, <1>3, <2>1 DEF Creates
<1>4. CASE cv[r].rs # Null
  <2>1. Youngest(cv[r].rs, r, S)
    BY <1>4 DEF Precise
  <2>2. w # Null /\ cv[r].rs = w
    BY <1>2, <2>1
  <2>3. ~st[w].completed /\ st[w].onames[cv[r].odep] = r
    BY <1>4, <2>2 DEF Names
  <2> QED BY <1>1, <2>2, <2>3 DEF Creates
<1> QED BY <1>3, <1>4

LEMMA PreciseVectors ==
    ASSUME RuuCore, Aged, VectorsPrecise
    PROVE  CreateVectorPrecise
<1>1. RightPath \subseteq Live
  BY DEF RightPath
<1>2. PICK cv : cv = [x \in Registers |-> CREATE_VECTOR(x)]
  OBVIOUS
<1>3. ASSUME NEW r \in Registers
      PROVE  Creates(create_vector, r, LastWriter(r, RightPath)) /\ Creates(cv, r, LastWriter(r, Live))
  <2>1. Precise(create_vector[r], r, RightPath) /\ Precise(CREATE_VECTOR(r), r, Live)
    BY DEF VectorsPrecise
  <2>2. Names(create_vector[r], r) /\ Names(CREATE_VECTOR(r), r)
    BY EntryNames
  <2>3. cv[r] = CREATE_VECTOR(r)
    BY <1>2
  <2>4. Precise(cv[r], r, Live) /\ Names(cv[r], r)
    BY <2>1, <2>2, <2>3
  <2>5. Creates(create_vector, r, LastWriter(r, RightPath))
    BY <1>1, <2>1, <2>2, EntryCreates
  <2>6. Creates(cv, r, LastWriter(r, Live))
    BY <2>4, EntryCreates
  <2> QED BY <2>5, <2>6
<1> QED BY <1>2, <1>3 DEF CreateVectorPrecise, RightPath, Registers

\* The instruction is the same, but that it may have completed.
SameWriter(x, r) == /\ st'[x].seq = st[x].seq /\ st'[x].onames = st[x].onames
                    /\ Writes(x, r) /\ st[x].completed => st'[x].completed

\* The same entry for the same instructions.
LEMMA PreciseKept ==
    ASSUME NEW r, NEW S, \A x \in S : SameWriter(x, r), NEW e, Precise(e, r, S)
    PROVE  Precise(e, r, S)'
<1>1. \A x \in S : Writes(x, r)' <=> Writes(x, r)
  BY DEF Writes, SameWriter
<1>2. \A w : Youngest(w, r, S)' <=> Youngest(w, r, S)
  BY <1>1 DEF Youngest, SameWriter
<1>3. \A w : Youngest(w, r, S) => (st[w].completed => st'[w].completed)
  BY DEF Youngest, SameWriter
<1> QED BY <1>2, <1>3 DEF Precise

LEMMA LiveTyped ==
    ASSUME RuuCore
    PROVE  /\ Live \subseteq Stations /\ RightPath \subseteq Live
           /\ \A x \in Stations : st[x] \in StationType /\ st[x].seq \in Nat
<1>1. Rings
  BY DEF RuuCore
<1>2. Live \subseteq Stations
  BY <1>1, LiveLists
<1>3. \A x \in Stations : st[x] \in StationType
  BY DEF RuuCore, Typed
<1>4. \A x \in Stations : st[x].seq \in Nat
  BY <1>3 DEF StationType
<1> QED BY <1>2, <1>3, <1>4 DEF RightPath

LEMMA QuietPrecise ==
    ASSUME RuuCore, VectorsPrecise, SameQueues, UNCHANGED spec_mode, UNCHANGED cvVars
    PROVE  VectorsPrecise'
<1>1. Live' = Live
  BY QuietQueues DEF RuuCore
<1>2. Live \subseteq Stations /\ RightPath \subseteq Live
  BY LiveTyped
<1>3. \A x \in Stations : SameCore(st'[x], st[x])
  BY DEF SameQueues
<1>4. RightPath' = RightPath
  <2>1. \A x \in Live : st'[x].spec = st[x].spec
    BY <1>2, <1>3 DEF SameCore
  <2> QED BY <1>1, <2>1 DEF RightPath
<1>5. ASSUME NEW r \in Registers, NEW x \in Live PROVE SameWriter(x, r)
  <2>1. r # NA
    BY SizeAssumption DEF Registers
  <2>2. SameCore(st'[x], st[x])
    BY <1>2, <1>3
  <2>3. Silent(st[x]) => ~Writes(x, r)
    BY <2>1 DEF Silent, Writes
  <2> QED BY <2>2, <2>3 DEF SameWriter, SameCore
<1>6. \A r : CREATE_VECTOR(r)' = CREATE_VECTOR(r) /\ create_vector'[r] = create_vector[r]
  BY DEF cvVars, CREATE_VECTOR
<1>7. ASSUME NEW r \in Registers
      PROVE  Precise(create_vector[r], r, RightPath)' /\ Precise(CREATE_VECTOR(r), r, Live)'
  <2>1. Precise(create_vector[r], r, RightPath) /\ Precise(CREATE_VECTOR(r), r, Live)
    BY DEF VectorsPrecise
  <2>2. PICK e, f, S, T : e = create_vector[r] /\ f = CREATE_VECTOR(r) /\ S = RightPath /\ T = Live
    OBVIOUS
  <2>3. Precise(e, r, S)'
    BY <1>2, <1>5, <2>1, <2>2, PreciseKept
  <2>4. Precise(f, r, T)'
    BY <1>5, <2>1, <2>2, PreciseKept
  <2>5. e = create_vector'[r] /\ f = CREATE_VECTOR(r)' /\ S = RightPath' /\ T = Live'
    BY <1>1, <1>4, <1>6, <2>2
  <2> QED BY <2>3, <2>4, <2>5
<1>8. ~spec_mode' => use_spec_cv' = {}
  BY DEF VectorsPrecise, cvVars
<1> QED BY <1>7, <1>8 DEF VectorsPrecise

\* The head and its access are the oldest.
LEMMA HeadOldest ==
    ASSUME RuuCore, Aged, NEW gone, HeadLeaves(EaComp(st[HeadRs]), gone)
    PROVE  \A x \in gone : st[x].completed /\ \A y \in Live : y \notin gone => st[x].seq < st[y].seq
<1>1. /\ RUU_num > 0 /\ st[HeadRs].completed /\ (EaComp(st[HeadRs]) => LSQ_num > 0 /\ st[HeadLsq].completed)
      /\ gone = {HeadRs} \cup (IF EaComp(st[HeadRs]) THEN {HeadLsq} ELSE {})
  BY DEF HeadLeaves
<1>2. HeadRs = RuuLive[1] /\ (EaComp(st[HeadRs]) => HeadLsq = LsqLive[1])
  BY HeadLines
<1>3. RUU_num \in Nat /\ 1 \in 1..RUU_num
  BY <1>1 DEF RuuCore, Rings, Ring
<1>4. EaComp(st[HeadRs]) => Agens(1) = 1
  <2>1. Agens(1) = NumUpto(AgenPlaces, 1)
    BY <1>3, AgensIs
  <2>2. NumUpto(AgenPlaces, 0) = 0
    <3>1. NumUpto(AgenPlaces, 0) \in 0..0
      BY UptoFinite
    <3> QED BY <3>1
  <2>3. NumUpto(AgenPlaces, 0 + 1) = IF 0 + 1 \in AgenPlaces THEN NumUpto(AgenPlaces, 0) + 1 ELSE NumUpto(AgenPlaces, 0)
    BY CountNext
  <2>4. EaComp(st[HeadRs]) => 1 \in AgenPlaces
    BY <1>2, <1>3 DEF AgenPlaces
  <2> QED BY <2>1, <2>2, <2>3, <2>4
<1>5. \A x \in gone : HomeOf(x, 1) /\ st[x].completed
  BY <1>1, <1>2, <1>3, <1>4 DEF HomeOf
<1>6. \A y : HomeOf(y, 1) => y \in gone
  BY <1>1, <1>2, <1>4 DEF HomeOf
<1>7. ASSUME NEW x \in gone, NEW y \in Live, y \notin gone PROVE st[x].seq < st[y].seq
  <2>1. PICK k : HomeOf(y, k)
    BY Homes
  <2>2. k # 1 /\ k \in 1..RUU_num
    BY <1>6, <1>7, <2>1 DEF HomeOf
  <2>3. 1 < k
    BY <1>3, <2>2
  <2> QED BY <1>5, <2>1, <2>3, HomeAge
<1> QED BY <1>5, <1>7

\* Those that leave are older than the others.
LEMMA PreciseShrinks ==
    ASSUME NEW S, NEW gone, \A x \in S : st[x].seq \in Nat,
           \A x \in gone : \A y \in S : y \notin gone => st[x].seq < st[y].seq,
           NEW r, NEW e, Precise(e, r, S), e.rs # Null => e.rs \notin gone
    PROVE  Precise(e, r, S \ gone)
<1>1. ASSUME NEW w, Youngest(w, r, S \ gone) PROVE Youngest(w, r, S)
  <2>1. w \in S /\ w \notin gone /\ Writes(w, r) /\ \A o \in S \ gone : Writes(o, r) => st[o].seq <= st[w].seq
    BY <1>1 DEF Youngest
  <2>2. ASSUME NEW o \in S, o \in gone PROVE st[o].seq <= st[w].seq
    <3>1. st[o].seq < st[w].seq
      BY <2>1, <2>2
    <3>2. st[o].seq \in Nat /\ st[w].seq \in Nat
      BY <2>1
    <3> QED BY <3>1, <3>2
  <2> QED BY <2>1, <2>2 DEF Youngest
<1>2. CASE e.rs = Null
  BY <1>1, <1>2 DEF Precise
<1>3. CASE e.rs # Null
  BY <1>3 DEF Precise, Youngest
<1> QED BY <1>2, <1>3

LEMMA HeadPrecise ==
    ASSUME RuuCore, Aged, VectorsPrecise, NEW gone, HeadLeaves(EaComp(st[HeadRs]), gone)
    PROVE  VectorsPrecise'
<1>1. Live' = Live \ gone
  BY HeadLines
<1>2. \A x \in Stations : Kept(st'[x], st[x])
  BY HeadKept
<1>3. Live \subseteq Stations /\ RightPath \subseteq Live /\ \A x \in Stations : st[x].seq \in Nat
  BY LiveTyped
<1>4. \A x \in gone : st[x].completed /\ \A y \in Live : y \notin gone => st[x].seq < st[y].seq
  BY HeadOldest
<1>5. RightPath' = RightPath \ gone
  <2>1. \A x \in Live : st'[x].spec = st[x].spec
    BY <1>2, <1>3 DEF Kept
  <2> QED BY <1>1, <2>1 DEF RightPath
<1>6. \A r : \A x \in Live : SameWriter(x, r)
  BY <1>2, <1>3 DEF SameWriter, Kept
<1>7. UNCHANGED <<cvVars, spec_mode>>
  BY DEF HeadLeaves
<1>8. \A r : CREATE_VECTOR(r)' = CREATE_VECTOR(r) /\ create_vector'[r] = create_vector[r]
  BY <1>7 DEF cvVars, CREATE_VECTOR
<1>9. ASSUME NEW r \in Registers, NEW S, S \subseteq Live, NEW e, Precise(e, r, S), Names(e, r)
      PROVE  Precise(e, r, S \ gone)'
  <2>1. e.rs # Null => e.rs \notin gone
    BY <1>4, <1>9 DEF Names
  <2>2. Precise(e, r, S \ gone)
    BY <1>3, <1>4, <1>9, <2>1, PreciseShrinks
  <2>3. PICK T : T = S \ gone
    OBVIOUS
  <2>4. Precise(e, r, T)'
    BY <1>6, <1>9, <2>2, <2>3, PreciseKept
  <2> QED BY <2>3, <2>4
<1>10. ASSUME NEW r \in Registers
      PROVE  Precise(create_vector[r], r, RightPath)' /\ Precise(CREATE_VECTOR(r), r, Live)'
  <2>1. Precise(create_vector[r], r, RightPath) /\ Precise(CREATE_VECTOR(r), r, Live)
    BY DEF VectorsPrecise
  <2>2. PICK e, f, S, T : e = create_vector[r] /\ f = CREATE_VECTOR(r) /\ S = RightPath /\ T = Live
    OBVIOUS
  <2>3. Names(e, r) /\ Names(f, r)
    BY <2>2, EntryNames
  <2>4. Precise(e, r, S \ gone)' /\ Precise(f, r, T \ gone)'
    BY <1>3, <1>9, <2>1, <2>2, <2>3
  <2>5. e = create_vector'[r] /\ f = CREATE_VECTOR(r)' /\ S \ gone = RightPath' /\ T \ gone = Live'
    BY <1>1, <1>5, <1>8, <2>2
  <2> QED BY <2>4, <2>5
<1>11. ~spec_mode' => use_spec_cv' = {}
  BY <1>7 DEF VectorsPrecise, cvVars
<1> QED BY <1>10, <1>11 DEF VectorsPrecise

\* What x completes, its entry forgets.
Forgotten(e, x) == IF e.rs = x THEN CvNull ELSE e

LEMMA CompletesIs ==
    ASSUME NEW cv \in [Registers -> CvType], NEW x \in Stations, NEW r \in Registers, Names(cv[r], r)
    PROVE  Completes(cv, x)[r] = Forgotten(cv[r], x)
<1> DEFINE gone == \E k \in Outs : st[x].onames[k] = r /\ cv[r] = [rs |-> x, odep |-> k]
<1>1. Completes(cv, x)[r] = IF gone THEN CvNull ELSE cv[r]
  BY DEF Completes
<1>2. gone <=> cv[r].rs = x
  <2>1. cv[r] \in CvType
    OBVIOUS
  <2>2. cv[r].odep \in Outs /\ cv[r] = [rs |-> cv[r].rs, odep |-> cv[r].odep]
    BY <2>1 DEF CvType
  <2>3. x # Null
    BY LiveIs
  <2>4. cv[r].rs = x => st[x].onames[cv[r].odep] = r
    BY <2>3 DEF Names
  <2>5. cv[r].rs = x => gone
    BY <2>2, <2>4
  <2> QED BY <2>5
<1> QED BY <1>1, <1>2 DEF Forgotten

LEMMA PreciseCompletes ==
    ASSUME RuuCore, Aged, NEW S, S \subseteq Live, NEW x \in Stations,
           \A y \in S : /\ st'[y].seq = st[y].seq /\ st'[y].onames = st[y].onames
                        /\ st'[y].completed <=> st[y].completed \/ y = x,
           NEW r, NEW e, Precise(e, r, S), NEW f, f = e \/ f = Forgotten(e, x)
    PROVE  Precise(f, r, S)'
<1>1. \A y \in S : SameWriter(y, r)
  BY DEF SameWriter
<1>2. Precise(e, r, S)'
  BY <1>1, PreciseKept
<1>3. CASE f = e
  BY <1>2, <1>3
<1>4. CASE f # e
  <2>1. e.rs = x /\ f = CvNull
    BY <1>4 DEF Forgotten
  <2>2. x # Null /\ CvNull.rs = Null
    BY LiveIs DEF CvNull
  <2>3. Youngest(x, r, S)'
    BY <1>2, <2>1, <2>2 DEF Precise
  <2>4. ASSUME NEW w, Youngest(w, r, S)' PROVE st'[w].completed
    <3>1. w \in S /\ x \in S /\ st'[w].seq <= st'[x].seq /\ st'[x].seq <= st'[w].seq
      BY <2>3, <2>4 DEF Youngest
    <3>2. st'[w].seq = st[w].seq /\ st'[x].seq = st[x].seq /\ st[w].seq \in Nat /\ st[x].seq \in Nat
      BY <3>1, Ages
    <3>3. st[w].seq = st[x].seq
      BY <3>1, <3>2
    <3>4. w = x
      BY <3>1, <3>3, Ages
    <3> QED BY <3>1, <3>4
  <2> QED BY <2>1, <2>2, <2>4 DEF Precise
<1> QED BY <1>3, <1>4

LEMMA WritebackPrecise ==
    ASSUME RuuCore, Aged, VectorsPrecise, NEW o, WrittenBack(o),
           spec_create_vector' = (IF st[Finished].spec THEN Completes(spec_create_vector, Finished) ELSE spec_create_vector),
           create_vector' = (IF st[Finished].spec THEN create_vector ELSE Completes(create_vector, Finished)),
           use_spec_cv' = (IF st[Finished].recover THEN {} ELSE use_spec_cv),
           spec_mode' = (spec_mode /\ ~st[Finished].recover)
    PROVE  VectorsPrecise'
<1>1. /\ Live' = Live \ Squashed /\ \A x \in Stations : Becomes(x, st'[x])
      /\ CutAt(o) /\ Finished \in Live
  BY DEF WrittenBack
<1>2. Live \subseteq Stations /\ RightPath \subseteq Live /\ Finished \in Stations
  BY <1>1, LiveTyped
<1>3. (\A x \in Squashed : st[x].spec) /\ (~st[Finished].recover => Squashed = {})
  BY <1>1, SquashedSpec
<1>4. RightPath' = RightPath
  <2>1. \A x \in Live : st'[x].spec = st[x].spec
    BY <1>1, <1>2 DEF Becomes
  <2>2. \A x \in Live : ~st[x].spec => x \notin Squashed
    BY <1>3
  <2> QED BY <1>1, <2>1, <2>2 DEF RightPath
<1>5. \A y \in Live : /\ st'[y].seq = st[y].seq /\ st'[y].onames = st[y].onames
                      /\ st'[y].completed <=> st[y].completed \/ y = Finished
  BY <1>1, <1>2 DEF Becomes
<1>6. create_vector \in [Registers -> CvType] /\ spec_create_vector \in [Registers -> CvType]
  BY DEF RuuCore, Typed, Registers
<1>7. ASSUME NEW r \in Registers
      PROVE  create_vector'[r] = create_vector[r] \/ create_vector'[r] = Forgotten(create_vector[r], Finished)
  BY <1>2, <1>6, EntryNames, CompletesIs
<1>8. ASSUME NEW r \in Registers PROVE Precise(create_vector[r], r, RightPath)'
  <2>1. PICK e, f, S : e = create_vector[r] /\ f = create_vector'[r] /\ S = RightPath
    OBVIOUS
  <2>2. Precise(e, r, S)
    BY <2>1 DEF VectorsPrecise
  <2>3. f = e \/ f = Forgotten(e, Finished)
    BY <1>7, <2>1
  <2>4. PICK x \in Stations : x = Finished
    BY <1>2
  <2>5. Precise(f, r, S)'
    BY <1>2, <1>5, <2>1, <2>2, <2>3, <2>4, PreciseCompletes
  <2> QED BY <1>4, <2>1, <2>5
<1>9. CASE st[Finished].recover
  <2>1. use_spec_cv' = {}
    BY <1>9
  <2>2. Live' = RightPath'
    <3>1. /\ \A n \in 1..RUU_num : st[RuuLive[n]].spec <=> n > o
          /\ \A n \in 1..LSQ_num : st[LsqLive[n]].spec <=> n > Agens(o)
          /\ o \in 0..RUU_num /\ Agens(o) \in 0..LSQ_num
      BY <1>1, <1>9 DEF CutAt
    <3>2. /\ \A k \in 1..o : k \in 1..RUU_num
          /\ \A k \in 1..Agens(o) : k \in 1..LSQ_num
          /\ \A x \in Live : x \notin Squashed =>
                (\E k \in 1..o : x = RuuLive[k]) \/ (\E k \in 1..Agens(o) : x = LsqLive[k])
      BY <1>1, CutLive
    <3>3. \A k \in 1..o : ~st[RuuLive[k]].spec
      BY <3>1, <3>2
    <3>4. \A k \in 1..Agens(o) : ~st[LsqLive[k]].spec
      BY <3>1, <3>2
    <3>5. \A x \in Live : x \notin Squashed => ~st[x].spec
      BY <3>2, <3>3, <3>4
    <3>6. \A x \in RightPath : x \notin Squashed
      BY <1>3 DEF RightPath
    <3>7. Live' = RightPath
      BY <1>1, <1>2, <3>5, <3>6 DEF RightPath
    <3> QED BY <1>4, <3>7
  <2>3. \A r : CREATE_VECTOR(r)' = create_vector'[r]
    BY <2>1 DEF CREATE_VECTOR
  <2>4. \A r \in Registers : Precise(CREATE_VECTOR(r), r, Live)'
    BY <1>8, <2>2, <2>3
  <2> QED BY <1>8, <2>1, <2>4 DEF VectorsPrecise
<1>10. CASE ~st[Finished].recover
  <2>1. use_spec_cv' = use_spec_cv /\ Live' = Live
    BY <1>1, <1>3, <1>10
  <2>2. ASSUME NEW r \in Registers
        PROVE  CREATE_VECTOR(r)' = CREATE_VECTOR(r) \/ CREATE_VECTOR(r)' = Forgotten(CREATE_VECTOR(r), Finished)
    <3>1. CASE r \in use_spec_cv
      <4>1. CREATE_VECTOR(r) = spec_create_vector[r] /\ CREATE_VECTOR(r)' = spec_create_vector'[r]
        BY <2>1, <3>1 DEF CREATE_VECTOR
      <4>2. Names(spec_create_vector[r], r)
        BY <4>1, EntryNames
      <4>3. Completes(spec_create_vector, Finished)[r] = Forgotten(spec_create_vector[r], Finished)
        BY <1>2, <1>6, <4>2, CompletesIs
      <4> QED BY <4>1, <4>3
    <3>2. CASE r \notin use_spec_cv
      <4>1. CREATE_VECTOR(r) = create_vector[r] /\ CREATE_VECTOR(r)' = create_vector'[r]
        BY <2>1, <3>2 DEF CREATE_VECTOR
      <4> QED BY <1>7, <4>1
    <3> QED BY <3>1, <3>2
  <2>3. ASSUME NEW r \in Registers PROVE Precise(CREATE_VECTOR(r), r, Live)'
    <3>1. PICK e, f, S : e = CREATE_VECTOR(r) /\ f = CREATE_VECTOR(r)' /\ S = Live
      OBVIOUS
    <3>2. Precise(e, r, S)
      BY <3>1 DEF VectorsPrecise
    <3>3. f = e \/ f = Forgotten(e, Finished)
      BY <2>2, <3>1
    <3>4. PICK x \in Stations : x = Finished
      BY <1>2
    <3>5. Precise(f, r, S)'
      BY <1>2, <1>5, <3>1, <3>2, <3>3, <3>4, PreciseCompletes
    <3> QED BY <2>1, <3>1, <3>5
  <2>4. ~spec_mode' => use_spec_cv' = {}
    BY <1>10, <2>1 DEF VectorsPrecise
  <2> QED BY <1>8, <2>3, <2>4 DEF VectorsPrecise
<1> QED BY <1>9, <1>10

NowWrites(x, r) == \E k \in Outs : st'[x].onames[k] = r
\* Entry g is f, or names the youngest of the new instructions that write its register.
NowYoungest(w, r, new) == w \in new /\ NowWrites(w, r) /\ \A o \in new : NowWrites(o, r) => st'[o].seq <= st'[w].seq
Renewed(g, f, r, new) == \/ g = f /\ \A x \in new : ~NowWrites(x, r)
                         \/ NowYoungest(g.rs, r, new)
NowInUse(r) == IF r \in use_spec_cv' THEN spec_create_vector'[r] ELSE create_vector'[r]

\* New instructions are younger than all others: an entry names the youngest of them that writes
\* its register, or is left if none does.
LEMMA PreciseEntered ==
    ASSUME RuuCore, Aged, NEW new, Entered(new), \A x \in new : st'[x].seq \in Nat /\ st'[x].seq > inst_seq,
           NEW S, S \subseteq Live, NEW r, NEW e, Precise(e, r, S),
           NEW f, Renewed(f, e, r, new)
    PROVE  Precise(f, r, S \cup new)'
<1>1. /\ new \subseteq Stations /\ new \cap Live = {}
      /\ \A x \in Stations : x \notin new => SameInstr(st'[x], st[x])
  BY DEF Entered
<1>2. Live \subseteq Stations /\ Null \notin Stations /\ \A x \in Stations : st[x].seq \in Nat
  BY LiveTyped, LiveIs
<1>3. \A x \in S : SameInstr(st'[x], st[x])
  BY <1>1, <1>2
<1>4. CASE NowYoungest(f.rs, r, new)
  <2>1. f.rs \in new /\ Writes(f.rs, r)' /\ \A x \in new : Writes(x, r)' => st'[x].seq <= st'[f.rs].seq
    BY <1>4 DEF NowYoungest, NowWrites, Writes
  <2>2. ASSUME NEW x \in S PROVE st'[x].seq <= st'[f.rs].seq
    <3>1. st'[x].seq = st[x].seq /\ st[x].seq \in 1..inst_seq /\ inst_seq \in Nat
      BY <1>3, Ages DEF SameInstr, RuuCore, Typed
    <3>2. st'[f.rs].seq \in Nat /\ st'[f.rs].seq > inst_seq
      BY <2>1
    <3> QED BY <3>1, <3>2
  <2>3. Youngest(f.rs, r, S \cup new)'
    BY <2>1, <2>2 DEF Youngest
  <2>4. f.rs # Null
    BY <1>1, <1>2, <2>1
  <2> QED BY <2>3, <2>4 DEF Precise
<1>5. ASSUME f = e, \A x \in new : ~NowWrites(x, r) PROVE Precise(f, r, S \cup new)'
  <2>1. \A x \in S : SameWriter(x, r)
    BY <1>3 DEF SameWriter, SameInstr
  <2>2. Precise(e, r, S)'
    BY <2>1, PreciseKept
  <2>3. \A w : Youngest(w, r, S \cup new)' <=> Youngest(w, r, S)'
    BY <1>5 DEF Youngest, NowWrites, Writes
  <2> QED BY <1>5, <2>2, <2>3 DEF Precise
<1> QED BY <1>4, <1>5 DEF Renewed

LEMMA EnteredPrecise ==
    ASSUME RuuCore, Aged, VectorsPrecise, NEW new, Entered(new), spec_mode => spec_mode',
           \A x \in new : st'[x].seq \in Nat /\ st'[x].seq > inst_seq,
           IF spec_mode
           THEN /\ create_vector' = create_vector
                /\ \A r \in Registers : Renewed(NowInUse(r), CREATE_VECTOR(r), r, new)
           ELSE /\ use_spec_cv' = use_spec_cv
                /\ \A r \in Registers : Renewed(create_vector'[r], create_vector[r], r, new)
    PROVE  VectorsPrecise'
<1>1. /\ Live' = Live \cup new /\ new \subseteq Stations /\ new \cap Live = {}
      /\ \A x \in Stations : x \notin new => SameInstr(st'[x], st[x])
      /\ \A x \in new : st'[x].spec <=> spec_mode
  BY DEF Entered
<1>2. Live \subseteq Stations /\ RightPath \subseteq Live
  BY LiveTyped
<1>3. \A x \in Live : x \notin new /\ SameInstr(st'[x], st[x])
  BY <1>1, <1>2
<1>4. RightPath' = IF spec_mode THEN RightPath ELSE RightPath \cup new
  BY <1>1, <1>3 DEF RightPath, SameInstr
<1>5. ASSUME NEW r \in Registers, NEW e, NEW f, NEW S, S \subseteq Live, Precise(e, r, S), Renewed(f, e, r, new)
      PROVE  Precise(f, r, S \cup new)'
  BY <1>5, PreciseEntered
<1>6. CASE spec_mode
  <2>1. ASSUME NEW r \in Registers
        PROVE  Precise(create_vector[r], r, RightPath)' /\ Precise(CREATE_VECTOR(r), r, Live)'
    <3>1. PICK e, f, g, S, T : /\ e = create_vector[r] /\ f = CREATE_VECTOR(r) /\ g = NowInUse(r)
                               /\ S = RightPath /\ T = Live
      OBVIOUS
    <3>2. Precise(e, r, S) /\ Precise(f, r, T)
      BY <3>1 DEF VectorsPrecise
    <3>3. \A x \in S : SameWriter(x, r)
      BY <1>2, <1>3, <3>1 DEF SameWriter, SameInstr
    <3>4. Precise(e, r, S)'
      BY <3>2, <3>3, PreciseKept
    <3>5. Renewed(g, f, r, new)
      BY <1>6, <3>1
    <3>6. Precise(g, r, T \cup new)'
      BY <1>5, <3>1, <3>2, <3>5
    <3>7. e = create_vector'[r] /\ S = RightPath' /\ T \cup new = Live' /\ g = CREATE_VECTOR(r)'
      BY <1>1, <1>4, <1>6, <3>1 DEF NowInUse, CREATE_VECTOR
    <3> QED BY <3>4, <3>6, <3>7
  <2> QED BY <1>6, <2>1 DEF VectorsPrecise
<1>7. CASE ~spec_mode
  <2>1. use_spec_cv = {} /\ use_spec_cv' = {}
    BY <1>7 DEF VectorsPrecise
  <2>2. \A r : CREATE_VECTOR(r) = create_vector[r] /\ CREATE_VECTOR(r)' = create_vector'[r]
    BY <2>1 DEF CREATE_VECTOR
  <2>3. ASSUME NEW r \in Registers
        PROVE  Precise(create_vector[r], r, RightPath)' /\ Precise(CREATE_VECTOR(r), r, Live)'
    <3>1. PICK e, g, S, T : e = create_vector[r] /\ g = create_vector'[r] /\ S = RightPath /\ T = Live
      OBVIOUS
    <3>2. Precise(e, r, S) /\ Precise(e, r, T)
      BY <2>2, <3>1 DEF VectorsPrecise
    <3>3. Renewed(g, e, r, new)
      BY <1>7, <3>1
    <3>4. Precise(g, r, S \cup new)' /\ Precise(g, r, T \cup new)'
      BY <1>2, <1>5, <3>1, <3>2, <3>3
    <3>5. S \cup new = RightPath' /\ T \cup new = Live'
      BY <1>1, <1>4, <1>7, <3>1
    <3> QED BY <2>2, <3>1, <3>4, <3>5
  <2> QED BY <2>1, <2>3 DEF VectorsPrecise
<1> QED BY <1>6, <1>7

LEMMA OpPrecise ==
    ASSUME RuuCore, Aged, VectorsPrecise, NEW i \in program, NEW m \in BOOLEAN, NEW id, NEW a, NEW t,
           OpDispatched(i, m, id, a, t), NoPanic'
    PROVE  VectorsPrecise'
<1>1. Entered({id}) /\ st'[id].onames = i.outs /\ id \in Stations /\ st'[id].seq = inst_seq + 1
  <2>1. Entered({id}) /\ st'[id].onames = i.outs /\ st'[id].seq = inst_seq + 1
    BY OpEntered
  <2>2. id \in Stations
    BY OpPlaced
  <2> QED BY <2>1, <2>2
<1>2. InstallAll(id, i.outs) /\ spec_mode' = (spec_mode \/ m)
  BY DEF OpDispatched
<1>3. i.outs \in [Outs -> Regs \cup {NA}] /\ Outs = {0, 1} /\ NA \notin Registers
  BY OfferedIs, SizeAssumption DEF Outs, Registers
<1>4. VectorsTyped /\ spec_mode \in BOOLEAN /\ inst_seq \in Nat
  BY DEF RuuCore, Typed, VectorsTyped, Registers
<1>5. PICK new : new = {id}
  OBVIOUS
<1>6. \A r : NowWrites(id, r) <=> r = i.outs[0] \/ r = i.outs[1]
  BY <1>1, <1>3 DEF NowWrites
<1>7. ASSUME NEW cv \in [Registers -> CvType], NEW g, g = Install(cv, id, i.outs), NEW r \in Registers
      PROVE  Renewed(g[r], cv[r], r, new) /\ (r = i.outs[0] \/ r = i.outs[1] => NowYoungest(g[r].rs, r, new))
  <2>1. Sets(g, cv, id, i.outs)
    BY <1>1, <1>7, SetsIs
  <2>2. g \in [Registers -> CvType]
    BY <2>1 DEF Sets
  <2>3. g[r] \in CvType
    BY <2>2
  <2>4. g[r].odep \in {0, 1}
    BY <1>3, <2>3 DEF CvType
  <2>5. \/ g[r] = cv[r] /\ r # i.outs[0] /\ r # i.outs[1]
        \/ g[r].rs = id /\ (i.outs[0] = r \/ i.outs[1] = r)
    BY <2>1, <2>4 DEF Sets
  <2>6. ASSUME g[r].rs = id, i.outs[0] = r \/ i.outs[1] = r PROVE NowYoungest(g[r].rs, r, new)
    <3>1. NowWrites(id, r) /\ st'[id].seq <= st'[id].seq
      BY <1>1, <1>4, <1>6, <2>6
    <3>2. NowYoungest(id, r, new)
      BY <1>5, <3>1 DEF NowYoungest
    <3> QED BY <2>6, <3>2
  <2> QED BY <1>5, <1>6, <2>5, <2>6 DEF Renewed
<1>8. CASE spec_mode
  <2>1. /\ spec_create_vector' = Install(spec_create_vector, id, i.outs)
        /\ use_spec_cv' = use_spec_cv \cup ({i.outs[0], i.outs[1]} \ {NA})
        /\ create_vector' = create_vector
    BY <1>2, <1>8 DEF InstallAll
  <2>2. ASSUME NEW r \in Registers
        PROVE  Renewed(NowInUse(r), CREATE_VECTOR(r), r, new)
    <3>1. PICK g : g = spec_create_vector'
      OBVIOUS
    <3>2. /\ Renewed(g[r], spec_create_vector[r], r, new)
          /\ r = i.outs[0] \/ r = i.outs[1] => NowYoungest(g[r].rs, r, new)
      BY <1>4, <1>7, <2>1, <3>1 DEF VectorsTyped
    <3>3. CASE r = i.outs[0] \/ r = i.outs[1]
      <4>1. r \in use_spec_cv'
        BY <1>3, <2>1, <3>3
      <4>2. NowInUse(r) = g[r]
        BY <3>1, <4>1 DEF NowInUse
      <4> QED BY <3>2, <3>3, <4>2 DEF Renewed
    <3>4. CASE ~(r = i.outs[0] \/ r = i.outs[1])
      <4>1. r \in use_spec_cv' <=> r \in use_spec_cv
        BY <2>1, <3>4
      <4>2. ~NowWrites(id, r)
        BY <1>6, <3>4
      <4>3. ~NowYoungest(g[r].rs, r, new)
        BY <1>5, <4>2 DEF NowYoungest
      <4>4. g[r] = spec_create_vector[r]
        BY <3>2, <4>3 DEF Renewed
      <4>5. NowInUse(r) = CREATE_VECTOR(r)
        BY <2>1, <3>1, <4>1, <4>4 DEF NowInUse, CREATE_VECTOR
      <4> QED BY <1>5, <4>2, <4>5 DEF Renewed
    <3> QED BY <3>3, <3>4
  <2>3. \A x \in new : st'[x].seq \in Nat /\ st'[x].seq > inst_seq
    BY <1>1, <1>4, <1>5
  <2> QED BY <1>1, <1>2, <1>5, <1>8, <2>1, <2>2, <2>3, EnteredPrecise
<1>9. CASE ~spec_mode
  <2>1. create_vector' = Install(create_vector, id, i.outs) /\ use_spec_cv' = use_spec_cv
    BY <1>2, <1>9 DEF InstallAll
  <2>2. \A r \in Registers : Renewed(create_vector'[r], create_vector[r], r, new)
    BY <1>4, <1>7, <2>1 DEF VectorsTyped
  <2>3. \A x \in new : st'[x].seq \in Nat /\ st'[x].seq > inst_seq
    BY <1>1, <1>4, <1>5
  <2> QED BY <1>1, <1>5, <1>9, <2>1, <2>2, <2>3, EnteredPrecise
<1> QED BY <1>8, <1>9

LEMMA MemPrecise ==
    ASSUME RuuCore, Aged, VectorsPrecise, NEW i \in program, NEW id, NEW lsq, NEW a, NEW t, NEW b, NEW u,
           MemDispatched(i, id, lsq, a, t, b, u), MemInstalled(i, id, lsq), NoPanic'
    PROVE  VectorsPrecise'
<1>1. /\ Entered({id, lsq}) /\ st'[id].onames = AddrOuts /\ st'[lsq].onames = i.outs
      /\ st'[id].seq = inst_seq + 1 /\ st'[lsq].seq = inst_seq + 2
  BY MemEntered
<1>2. id \in Stations /\ lsq \in Stations
  BY MemStations
<1>3. spec_mode' = spec_mode
  BY DEF MemDispatched
<1>4. /\ i.outs \in [Outs -> Regs \cup {NA}] /\ Outs = {0, 1} /\ NA \notin Registers
      /\ AddrOuts[0] = DTMP /\ AddrOuts[1] = NA
  BY OfferedIs, SizeAssumption DEF Outs, Registers, AddrOuts
<1>5. VectorsTyped /\ spec_mode \in BOOLEAN /\ inst_seq \in Nat
  BY DEF RuuCore, Typed, VectorsTyped, Registers
<1>6. PICK new : new = {id, lsq}
  OBVIOUS
<1>7. ASSUME NEW r \in Registers
      PROVE  (NowWrites(id, r) <=> r = DTMP) /\ (NowWrites(lsq, r) <=> r = i.outs[0] \/ r = i.outs[1])
  BY <1>1, <1>4 DEF NowWrites
<1>8. st'[id].seq <= st'[id].seq /\ st'[lsq].seq <= st'[lsq].seq /\ st'[id].seq <= st'[lsq].seq
  BY <1>1, <1>5
<1>9. ASSUME NEW cv \in [Registers -> CvType], NEW f, f = Install(cv, id, AddrOuts),
             NEW g, g = Install(f, lsq, i.outs), NEW r \in Registers
      PROVE  IF r \in {DTMP, i.outs[0], i.outs[1]} THEN NowYoungest(g[r].rs, r, new) ELSE g[r] = cv[r]
  <2>1. Sets(f, cv, id, AddrOuts)
    BY <1>2, <1>9, SetsIs
  <2>2. f \in [Registers -> CvType]
    BY <2>1 DEF Sets
  <2>3. Sets(g, f, lsq, i.outs)
    BY <1>2, <1>9, <2>2, SetsIs
  <2>4. g \in [Registers -> CvType]
    BY <2>3 DEF Sets
  <2>5. f[r].odep \in {0, 1} /\ g[r].odep \in {0, 1}
    <3>1. f[r] \in CvType /\ g[r] \in CvType
      BY <2>2, <2>4
    <3> QED BY <1>4, <3>1 DEF CvType
  <2>6. (f[r] = cv[r] /\ r # DTMP) \/ (f[r].rs = id /\ r = DTMP)
    <3>1. (f[r] = cv[r] /\ r # AddrOuts[0]) \/ (f[r].rs = id /\ AddrOuts[f[r].odep] = r)
      BY <2>1 DEF Sets
    <3> QED BY <1>4, <2>5, <3>1
  <2>7. \/ g[r] = f[r] /\ r # i.outs[0] /\ r # i.outs[1]
        \/ g[r].rs = lsq /\ (r = i.outs[0] \/ r = i.outs[1])
    BY <2>3, <2>5 DEF Sets
  <2>8. CASE g[r].rs = lsq /\ (r = i.outs[0] \/ r = i.outs[1])
    <3>1. NowWrites(lsq, r) /\ lsq \in new /\ \A x \in new : st'[x].seq <= st'[lsq].seq
      BY <1>6, <1>7, <1>8, <2>8
    <3> QED BY <2>8, <3>1 DEF NowYoungest
  <2>9. CASE g[r] = f[r] /\ r # i.outs[0] /\ r # i.outs[1]
    <3>1. CASE f[r] = cv[r] /\ r # DTMP
      BY <2>9, <3>1
    <3>2. CASE f[r].rs = id /\ r = DTMP
      <4>1. NowWrites(id, r) /\ ~NowWrites(lsq, r) /\ id \in new
        BY <1>6, <1>7, <2>9, <3>2
      <4>2. NowYoungest(id, r, new)
        BY <1>6, <1>8, <4>1 DEF NowYoungest
      <4> QED BY <2>9, <3>2, <4>2
    <3> QED BY <2>6, <3>1, <3>2
  <2> QED BY <2>7, <2>8, <2>9
<1>10. ASSUME NEW r \in Registers, r \notin {DTMP, i.outs[0], i.outs[1]} PROVE \A x \in new : ~NowWrites(x, r)
  BY <1>6, <1>7, <1>10
<1>11. \A x \in new : st'[x].seq \in Nat /\ st'[x].seq > inst_seq
  BY <1>1, <1>5, <1>6
<1>12. CASE spec_mode
  <2>1. PICK f, g : f = Install(spec_create_vector, id, AddrOuts) /\ g = Install(f, lsq, i.outs)
    OBVIOUS
  <2>2. /\ spec_create_vector' = g
        /\ use_spec_cv' = use_spec_cv \cup ({DTMP, i.outs[0], i.outs[1]} \ {NA})
        /\ create_vector' = create_vector
    BY <1>12, <2>1 DEF MemInstalled
  <2>3. ASSUME NEW r \in Registers
        PROVE  Renewed(NowInUse(r), CREATE_VECTOR(r), r, new)
    <3>1. IF r \in {DTMP, i.outs[0], i.outs[1]} THEN NowYoungest(g[r].rs, r, new) ELSE g[r] = spec_create_vector[r]
      BY <1>5, <1>9, <2>1 DEF VectorsTyped
    <3>2. CASE r \in {DTMP, i.outs[0], i.outs[1]}
      <4>1. r \in use_spec_cv'
        BY <1>4, <2>2, <3>2
      <4>2. NowInUse(r) = g[r]
        BY <2>2, <4>1 DEF NowInUse
      <4> QED BY <3>1, <3>2, <4>2 DEF Renewed
    <3>3. CASE r \notin {DTMP, i.outs[0], i.outs[1]}
      <4>1. r \in use_spec_cv' <=> r \in use_spec_cv
        BY <2>2, <3>3
      <4>2. NowInUse(r) = CREATE_VECTOR(r)
        BY <2>2, <3>1, <3>3, <4>1 DEF NowInUse, CREATE_VECTOR
      <4> QED BY <1>10, <3>3, <4>2 DEF Renewed
    <3> QED BY <3>2, <3>3
  <2> QED BY <1>1, <1>3, <1>6, <1>11, <1>12, <2>2, <2>3, EnteredPrecise
<1>13. CASE ~spec_mode
  <2>1. PICK f, g : f = Install(create_vector, id, AddrOuts) /\ g = Install(f, lsq, i.outs)
    OBVIOUS
  <2>2. create_vector' = g /\ use_spec_cv' = use_spec_cv
    BY <1>13, <2>1 DEF MemInstalled
  <2>3. ASSUME NEW r \in Registers
        PROVE  Renewed(create_vector'[r], create_vector[r], r, new)
    <3>1. IF r \in {DTMP, i.outs[0], i.outs[1]} THEN NowYoungest(g[r].rs, r, new) ELSE g[r] = create_vector[r]
      BY <1>5, <1>9, <2>1 DEF VectorsTyped
    <3> QED BY <1>10, <2>2, <3>1 DEF Renewed
  <2> QED BY <1>1, <1>3, <1>6, <1>11, <1>13, <2>2, <2>3, EnteredPrecise
<1> QED BY <1>12, <1>13

-----------------------------------------------------------------------------
(* All steps keep the order and the vectors.                               *)

\* A step that leaves the instructions' results and operands alone.
Calm ==
    /\ SameQueues /\ UNCHANGED <<cvVars, spec_mode, inst_seq>>
    /\ \A x \in Stations : /\ st'[x].ready = st[x].ready /\ st'[x].deps = st[x].deps
                           /\ st[x].completed => st'[x].completed

LEMMA SameCalm ==
    ASSUME UNCHANGED <<st, queueVars, cvVars, spec_mode, inst_seq>>
    PROVE  Calm
BY SameStations DEF Calm

LEMMA IssueCalm ==
    ASSUME RuuCore, Issue, NoPanic'
    PROVE  Calm
<1>1. st \in [Stations -> StationType] /\ \A x \in Stations : st[x] \in StationType
  BY DEF RuuCore, Typed
<1>2. CASE DropStaleReady
  BY <1>2, SameCalm DEF DropStaleReady, issueFrame
<1>3. CASE Requeue
  BY <1>3, SameCalm DEF Requeue, issueFrame
<1>4. CASE IssueDone
  BY <1>4, SameCalm DEF IssueDone
<1>5. CASE IssueStore
  <2>1. /\ st' = [st EXCEPT ![AtScan].queued = FALSE, ![AtScan].issued = TRUE, ![AtScan].completed = TRUE]
        /\ UNCHANGED <<queueVars, cvVars, spec_mode, inst_seq>>
    BY <1>5 DEF IssueStore, issueFrame
  <2>2. Silent(st[AtScan])
    BY <1>5 DEF IssueStore, NoPanic, Silent
  <2>3. ASSUME NEW x \in Stations
        PROVE  /\ SameCore(st'[x], st[x]) /\ st'[x].ready = st[x].ready /\ st'[x].deps = st[x].deps
               /\ st[x].completed => st'[x].completed
    <3>1. st[x] \in StationType
      BY <1>1
    <3>2. CASE x = AtScan
      <4>1. st'[x] = [st[x] EXCEPT !.queued = FALSE, !.issued = TRUE, !.completed = TRUE]
        BY <1>1, <2>1, <3>2
      <4>2. Silent(st[x])
        BY <2>2, <3>2
      <4> QED BY <3>1, <4>1, <4>2 DEF StationType, SameCore
    <3>3. CASE x # AtScan
      <4>1. st'[x] = st[x]
        BY <1>1, <2>1, <3>3
      <4> QED BY <4>1 DEF SameCore
    <3> QED BY <3>2, <3>3
  <2> QED BY <2>1, <2>3 DEF Calm, SameQueues
<1>6. ASSUME NEW lat, IssueToUnit(lat) PROVE Calm
  <2>1. /\ st' = [st EXCEPT ![AtScan].queued = FALSE, ![AtScan].issued = TRUE]
        /\ UNCHANGED <<queueVars, cvVars, spec_mode, inst_seq>>
    BY <1>6 DEF IssueToUnit, issueFrame
  <2>2. ASSUME NEW x \in Stations
        PROVE  /\ SameCore(st'[x], st[x]) /\ st'[x].ready = st[x].ready /\ st'[x].deps = st[x].deps
               /\ st[x].completed => st'[x].completed
    <3>1. st[x] \in StationType
      BY <1>1
    <3>2. st'[x] = [st[x] EXCEPT !.queued = FALSE, !.issued = TRUE] \/ st'[x] = st[x]
      BY <1>1, <2>1
    <3> QED BY <3>1, <3>2 DEF StationType, SameCore
  <2> QED BY <2>1, <2>2 DEF Calm, SameQueues
<1> QED BY <1>2, <1>3, <1>4, <1>5, <1>6 DEF Issue

LEMMA RefreshCalm ==
    ASSUME RuuCore, LsqRefresh
    PROVE  Calm
<1>1. UNCHANGED <<queueVars, cvVars, spec_mode, inst_seq>>
  BY DEF LsqRefresh
<1>2. PICK ids : st' = MarkQueued(st, ids)
  BY DEF LsqRefresh
<1>3. st \in [Stations -> StationType]
  BY DEF RuuCore, Typed
<1>4. ASSUME NEW x \in Stations
      PROVE  /\ SameCore(st'[x], st[x]) /\ st'[x].ready = st[x].ready /\ st'[x].deps = st[x].deps
             /\ st'[x].completed = st[x].completed
  BY <1>2, <1>3, Marked, MarkedRest
<1> QED BY <1>1, <1>4 DEF Calm, SameQueues

\* The other steps that change more.
Busy == \/ CommitHead \/ Writeback
        \/ \E i \in program : DispatchMem(i) \/ \E m \in BOOLEAN : DispatchOp(i, m)

LEMMA CalmSteps ==
    ASSUME RuuCore, [Next]_vars, NoPanic', ~Busy
    PROVE  Calm
<1>1. CASE UNCHANGED vars
  BY <1>1, SameCalm DEF vars
<1>2. CASE CommitDone \/ WritebackDone \/ DispatchDone \/ DropStaleEvent \/ Tick
  <2>1. UNCHANGED <<st, queueVars, cvVars, spec_mode, inst_seq>>
    BY <1>2 DEF CommitDone, WritebackDone, DispatchDone, DropStaleEvent, Tick
  <2> QED BY <2>1, SameCalm
<1>3. CASE LsqRefresh
  BY <1>3, RefreshCalm
<1>4. CASE Issue
  BY <1>4, IssueCalm
<1> QED BY <1>1, <1>2, <1>3, <1>4 DEF Next, Commit, WritebackStage, Dispatch, Busy

Ordered == Aged /\ VectorsPrecise

LEMMA CalmOrdered ==
    ASSUME RuuCore, Ordered, Calm
    PROVE  Ordered'
<1>1. Aged /\ VectorsPrecise
  BY DEF Ordered
<1>2. UNCHANGED cvVars /\ UNCHANGED spec_mode /\ UNCHANGED inst_seq /\ SameQueues
  BY DEF Calm
<1> QED BY <1>1, <1>2, QuietAges, QuietPrecise DEF Ordered

LEMMA CommitOrdered ==
    ASSUME RuuCore, Ordered, CommitHead, NoPanic'
    PROVE  Ordered'
BY CommitLeaves, HeadAges, HeadPrecise DEF Ordered

LEMMA WritebackOrdered ==
    ASSUME RuuCore, Ordered, Writeback, NoPanic'
    PROVE  Ordered'
<1>1. PICK o : WrittenBack(o)
  BY WritebackLines
<1>2. /\ spec_create_vector' = (IF st[Finished].spec THEN Completes(spec_create_vector, Finished) ELSE spec_create_vector)
      /\ create_vector' = (IF st[Finished].spec THEN create_vector ELSE Completes(create_vector, Finished))
      /\ use_spec_cv' = (IF st[Finished].recover THEN {} ELSE use_spec_cv)
      /\ spec_mode' = (spec_mode /\ ~st[Finished].recover)
      /\ inst_seq' = inst_seq
  BY WritebackIs
<1>3. Aged'
  BY <1>1, <1>2, WritebackAges DEF Ordered
<1>4. VectorsPrecise'
  BY <1>1, <1>2, WritebackPrecise DEF Ordered
<1> QED BY <1>3, <1>4 DEF Ordered

LEMMA OpOrdered ==
    ASSUME RuuCore, Ordered, NEW i \in program, NEW m \in BOOLEAN, DispatchOp(i, m), NoPanic'
    PROVE  Ordered'
<1>1. PICK id, a, t : OpDispatched(i, m, id, a, t)
  BY OpDispatchedIs
<1>2. i.kind \in {"op", "ctrl", "trap"} /\ RUU_num' = RUU_num + 1 /\ inst_seq' = inst_seq + 1 /\ LSQ_num' = LSQ_num
  BY <1>1 DEF OpDispatched
<1>3. \A k \in 1..RUU_num : RuuLive'[k] = RuuLive[k]
  BY <1>1, OpPlaced
<1>4. RuuLive'[RUU_num + 1] = id /\ LsqLive' = LsqLive
  BY <1>1, OpPlaced
<1>5. Entered({id}) /\ st'[id].kind = i.kind /\ st'[id].seq = inst_seq + 1
  BY <1>1, OpEntered
<1>6. PICK e, n : e = RUU_num /\ n = LSQ_num
  OBVIOUS
<1>7. n + 0 = n /\ inst_seq + 1 + 0 = inst_seq + 1
  BY <1>6 DEF RuuCore, Rings, Ring, Typed
<1>8. Appended({id}, id, e, n, 0)
  <2>1. ~EaComp(st'[id]) /\ ~InLSQ(st'[id])
    BY <1>2, <1>5 DEF EaComp, InLSQ
  <2> QED BY <1>2, <1>3, <1>4, <1>6, <1>7, <2>1 DEF Appended
<1>9. Aged'
  BY <1>2, <1>5, <1>7, <1>8, EnteredAges DEF Ordered
<1>10. VectorsPrecise'
  BY <1>1, OpPrecise DEF Ordered
<1> QED BY <1>9, <1>10 DEF Ordered

LEMMA MemOrdered ==
    ASSUME RuuCore, Ordered, NEW i \in program, DispatchMem(i), NoPanic'
    PROVE  Ordered'
<1>1. PICK id, lsq, a, t, b, u : MemDispatched(i, id, lsq, a, t, b, u) /\ MemInstalled(i, id, lsq)
  BY MemDispatchedIs
<1>2. /\ i.kind \in {"load", "store"} /\ RUU_num' = RUU_num + 1 /\ LSQ_num' = LSQ_num + 1
      /\ inst_seq' = inst_seq + 2
  BY <1>1 DEF MemDispatched
<1>3. /\ \A k \in 1..RUU_num : RuuLive'[k] = RuuLive[k]
      /\ RuuLive'[RUU_num + 1] = id
      /\ \A k \in 1..LSQ_num : LsqLive'[k] = LsqLive[k]
      /\ LsqLive'[LSQ_num + 1] = lsq
  BY <1>1, MemStations
<1>4. /\ Entered({id, lsq}) /\ st'[id].kind = "agen" /\ st'[id].seq = inst_seq + 1
      /\ st'[lsq].kind = i.kind /\ st'[lsq].seq = inst_seq + 2
  BY <1>1, MemEntered, ZenonT(60)
<1>5. PICK e, n : e = RUU_num /\ n = LSQ_num
  OBVIOUS
<1>6. inst_seq \in Nat
  BY DEF RuuCore, Typed
<1>7. Appended({id, lsq}, id, e, n, 1)
  <2>1. EaComp(st'[id]) /\ ~InLSQ(st'[id]) /\ InLSQ(st'[lsq])
    BY <1>2, <1>4 DEF EaComp, InLSQ
  <2>2. st'[lsq].seq = st'[id].seq + 1
    BY <1>4, <1>6
  <2>3. id \in {id, lsq} /\ lsq \in {id, lsq} /\ 1 \in {0, 1}
    OBVIOUS
  <2> QED BY <1>2, <1>3, <1>5, <2>1, <2>2, <2>3 DEF Appended
<1>8. inst_seq' = inst_seq + 1 + 1
  BY <1>2, <1>6
<1>9. Aged'
  BY <1>4, <1>7, <1>8, EnteredAges DEF Ordered
<1>10. VectorsPrecise'
  BY <1>1, MemPrecise DEF Ordered
<1> QED BY <1>9, <1>10 DEF Ordered

LEMMA OrderedStep ==
    ASSUME RuuCore, Ordered, [Next]_vars, NoPanic'
    PROVE  Ordered'
<1>1. CASE ~Busy
  BY <1>1, CalmSteps, CalmOrdered
<1>2. CASE Busy
  BY <1>2, CommitOrdered, WritebackOrdered, OpOrdered, MemOrdered DEF Busy
<1> QED BY <1>1, <1>2

LEMMA InitOrdered ==
    ASSUME Init
    PROVE  Ordered
<1>1. /\ RUU_num = 0 /\ LSQ_num = 0 /\ use_spec_cv = {}
      /\ create_vector = [r \in Registers |-> CvNull]
  BY DEF Init, Registers
<1>2. Live = {}
  BY <1>1 DEF Live, RuuLive, LsqLive, ToSet
<1>3. RightPath = {}
  BY <1>2 DEF RightPath
<1>4. ASSUME NEW r \in Registers PROVE create_vector[r].rs = Null /\ CREATE_VECTOR(r).rs = Null
  BY <1>1 DEF CREATE_VECTOR, CvNull
<1>5. VectorsPrecise
  BY <1>1, <1>2, <1>3, <1>4 DEF VectorsPrecise, Precise, Youngest
<1>6. Aged
  BY <1>1 DEF Aged
<1> QED BY <1>5, <1>6 DEF Ordered

\* In all runs that no sanity check stops, the create vectors name the youngest writer of each
\* register while its result is to come: the view in use among all instructions, the other among
\* those no squash will remove, whatever completes, commits or is squashed in between.
THEOREM RuuVectorsPrecise == Spec => [](NoPanic => CreateVectorPrecise)
<1> DEFINE Inv == NoPanic => Ordered
<1>1. Init => Inv
  BY InitOrdered
<1>2. Inv /\ RuuInv /\ [Next]_vars => Inv'
  <2> SUFFICES ASSUME Inv, RuuInv, [Next]_vars, NoPanic' PROVE Ordered'
    OBVIOUS
  <2>1. NoPanic
    BY StepRuns DEF vars, NoPanic
  <2> QED BY <2>1, OrderedStep DEF RuuInv
<1>3. RuuInv /\ Inv => (NoPanic => CreateVectorPrecise)
  BY PreciseVectors DEF RuuInv, Ordered
<1> QED BY <1>1, <1>2, <1>3, RuuInvariant, PTL DEF Spec

-----------------------------------------------------------------------------
(* Operands wait for the instructions that produce them.                   *)

\* The links to operand k of station t while it has tag g, and how many station x of s has.
Wire(t, g, k) == {l \in LinkType : l.rs = t /\ l.tag = g /\ l.x = k}
Wires(s, x, H) == NumIn(s[x].odeps[0], H) + NumIn(s[x].odeps[1], H)

\* The instruction numbered d has the one link of H, or there is neither.
Awaits(p, d, H) ==
    /\ p \in Live /\ st[p].seq = d /\ ~st[p].completed /\ Wires(st, p, H) = 1
    /\ \A x \in Stations : x # p => Wires(st, x, H) = 0
NoneAwaited(d, H) ==
    /\ \A p \in Live : st[p].seq = d => st[p].completed
    /\ \A x \in Stations : Wires(st, x, H) = 0
WiredAt(t, k) ==
    /\ st[t].deps[k] < st[t].seq
    /\ IF st[t].ready[k] THEN NoneAwaited(st[t].deps[k], Wire(t, st[t].tag, k))
                         ELSE \E p : Awaits(p, st[t].deps[k], Wire(t, st[t].tag, k))
Wired == \A t \in Live : \A k \in Ops : WiredAt(t, k)

LEMMA WiresNat ==
    ASSUME NEW s, NEW x, s[x] \in StationType, NEW H
    PROVE  /\ Wires(s, x, H) \in Nat
           /\ \A j \in Outs : /\ s[x].odeps[j] \in Seq(LinkType) /\ NumIn(s[x].odeps[j], H) \in Nat
                              /\ \A l \in ToSet(s[x].odeps[j]) : l \in H => Wires(s, x, H) >= 1
           /\ (\A j \in Outs : \A l \in ToSet(s[x].odeps[j]) : l \notin H) => Wires(s, x, H) = 0
<1>1. 0 \in Outs /\ 1 \in Outs /\ \A j \in Outs : j = 0 \/ j = 1
  BY DEF Outs
<1>2. ASSUME NEW j \in Outs
      PROVE  /\ s[x].odeps[j] \in Seq(LinkType) /\ NumIn(s[x].odeps[j], H) \in Nat
             /\ (\A l \in ToSet(s[x].odeps[j]) : l \notin H) => NumIn(s[x].odeps[j], H) = 0
             /\ \A l \in ToSet(s[x].odeps[j]) : l \in H => NumIn(s[x].odeps[j], H) >= 1
  <2>1. PICK q : q = s[x].odeps[j]
    OBVIOUS
  <2>2. q \in Seq(LinkType)
    BY <2>1 DEF StationType
  <2>3. IsFiniteSet(InAt(q, H)) /\ NumIn(q, H) \in Nat /\ ((\A n \in 1..Len(q) : q[n] \notin H) => NumIn(q, H) = 0)
    BY <2>2, InAtFinite
  <2>4. \A n \in 1..Len(q) : q[n] \in ToSet(q)
    BY <2>2, SeqMembers
  <2>5. ASSUME NEW l \in ToSet(q), l \in H PROVE NumIn(q, H) >= 1
    <3>1. PICK n \in DOMAIN q : q[n] = l
      BY <2>5 DEF ToSet
    <3>2. n \in InAt(q, H)
      BY <2>5, <3>1 DEF InAt
    <3>3. NumIn(q, H) # 0
      BY <2>3, <3>2, FS_EmptySet DEF NumIn
    <3> QED BY <2>3, <3>3
  <2> QED BY <2>1, <2>2, <2>3, <2>4, <2>5
<1>3. Wires(s, x, H) \in Nat
  BY <1>1, <1>2 DEF Wires
<1>4. ASSUME NEW j \in Outs, NEW l \in ToSet(s[x].odeps[j]), l \in H PROVE Wires(s, x, H) >= 1
  <2>1. NumIn(s[x].odeps[j], H) >= 1
    BY <1>2, <1>4
  <2>2. NumIn(s[x].odeps[0], H) \in Nat /\ NumIn(s[x].odeps[1], H) \in Nat
    BY <1>1, <1>2
  <2>3. CASE j = 0
    BY <2>1, <2>2, <2>3 DEF Wires
  <2>4. CASE j = 1
    BY <2>1, <2>2, <2>4 DEF Wires
  <2> QED BY <1>1, <2>3, <2>4
<1>5. ASSUME \A j \in Outs : \A l \in ToSet(s[x].odeps[j]) : l \notin H PROVE Wires(s, x, H) = 0
  BY <1>1, <1>2, <1>5 DEF Wires
<1> QED BY <1>2, <1>3, <1>4, <1>5

LEMMA SameWires ==
    ASSUME NEW s, NEW u, NEW x, \A j \in Outs : u[x].odeps[j] = s[x].odeps[j], NEW H
    PROVE  Wires(u, x, H) = Wires(s, x, H)
<1>1. 0 \in Outs /\ 1 \in Outs
  BY DEF Outs
<1> QED BY <1>1 DEF Wires

LEMMA NoWires ==
    ASSUME NEW s, NEW x, \A j \in Outs : s[x].odeps[j] = << >>, NEW H
    PROVE  Wires(s, x, H) = 0
<1>1. 0 \in Outs /\ 1 \in Outs
  BY DEF Outs
<1>2. InAt(<< >>, H) = {}
  BY DEF InAt
<1>3. NumIn(<< >>, H) = 0
  BY <1>2, FS_EmptySet DEF NumIn
<1> QED BY <1>1, <1>3 DEF Wires

\* No link leads to a station out of use.
LEMMA NoneWired ==
    ASSUME RuuCore, NEW t, t \notin Live, NEW k, NEW x \in Stations
    PROVE  Wires(st, x, Wire(t, st[t].tag, k)) = 0
<1>1. st[x] \in StationType
  BY LiveTyped
<1>2. ASSUME NEW j \in Outs, NEW l \in ToSet(st[x].odeps[j]) PROVE l \notin Wire(t, st[t].tag, k)
  <2>1. l \in AllLinks
    BY <1>2, AllLinksAre
  <2>2. GoodLink(l)
    BY <2>1 DEF RuuCore, LinksGood
  <2> QED BY <2>2 DEF GoodLink, Wire, Valid, ValidIn
<1> QED BY <1>1, <1>2, WiresNat

\* What the create vectors say of an operand is what program order says.
LEMMA ProducerNames ==
    ASSUME RuuCore, Ordered, NEW r \in Regs \cup {NA}, NEW c, c = Creator(r)
    PROVE  IF c.rs = Null THEN Producer(r) = 0
           ELSE c.rs \in Live /\ ~st[c.rs].completed /\ Producer(r) = st[c.rs].seq
<1>1. CASE r = NA
  BY <1>1 DEF Creator, CvNull, Producer
<1>2. CASE r # NA
  <2>1. r \in Registers
    BY <1>2 DEF Registers
  <2>2. c = CREATE_VECTOR(r)
    BY <1>2 DEF Creator
  <2>3. PICK cv : cv = [x \in Registers |-> CREATE_VECTOR(x)]
    OBVIOUS
  <2>4. cv[r] = c /\ Precise(cv[r], r, Live) /\ Names(cv[r], r)
    BY <2>1, <2>2, <2>3, EntryNames DEF Ordered, VectorsPrecise
  <2>5. PICK w : w = LastWriter(r, Live)
    OBVIOUS
  <2>6. Creates(cv, r, w)
    BY <2>1, <2>4, <2>5, EntryCreates DEF Ordered
  <2>7. Live = ToSet(RuuLive) \cup ToSet(LsqLive)
    BY DEF Live
  <2>8. w = IF Writers(r) = {} THEN Null
            ELSE CHOOSE id \in Writers(r) : \A o \in Writers(r) : st[o].seq <= st[id].seq
    BY <2>5, <2>7 DEF LastWriter, Writers
  <2>9. w = Null <=> Writers(r) = {}
    <3>1. IF w = Null THEN \A v : ~Youngest(v, r, Live) ELSE \A v : Youngest(v, r, Live) <=> v = w
      BY <2>1, <2>5, YoungestIsLast DEF Ordered
    <3>2. w # Null => w \in Writers(r)
      BY <2>7, <3>1 DEF Youngest, Writes, Writers
    <3>3. Writers(r) # {} => w # Null
      <4>1. Writers(r) \subseteq Live /\ Live \subseteq Stations /\ Null \notin Stations
        BY <2>7, LiveTyped, LiveIs DEF Writers
      <4>2. LastWriter(r, Live) = w
        BY <2>5
      <4>3. ASSUME Writers(r) # {}, w = Null PROVE FALSE
        <5>1. \A v : ~Youngest(v, r, Live)
          BY <3>1, <4>3
        <5>2. IsFiniteSet(Writers(r))
          BY <4>1, StationsFinite, FS_Subset
        <5>3. PICK f : f = [x \in Stations |-> st[x].seq]
          OBVIOUS
        <5>4. \A x \in Writers(r) : f[x] \in Nat /\ f[x] = st[x].seq
          BY <4>1, <5>3, LiveTyped
        <5>5. PICK v \in Writers(r) : \A x \in Writers(r) : f[x] <= f[v]
          BY <4>3, <5>2, <5>4, Largest
        <5>6. Youngest(v, r, Live)
          BY <2>7, <5>4, <5>5 DEF Youngest, Writes, Writers
        <5> QED BY <5>1, <5>6
      <4> QED BY <4>3
    <3> QED BY <3>2, <3>3
  <2>10. Producer(r) = IF Writers(r) = {} THEN 0 ELSE IF st[w].completed THEN 0 ELSE st[w].seq
    BY <1>2, <2>8 DEF Producer
  <2>11. CASE c.rs = Null
    <3>1. w = Null \/ st[w].completed
      <4>1. w # Null /\ ~st[w].completed => cv[r].rs = w
        BY <2>6 DEF Creates
      <4> QED BY <2>4, <2>11, <4>1
    <3> QED BY <2>9, <2>10, <2>11, <3>1
  <2>12. CASE c.rs # Null
    <3>1. w # Null /\ ~st[w].completed /\ c.rs = w
      BY <2>4, <2>6, <2>12 DEF Creates
    <3>2. c.rs \in Live
      BY <2>4, <2>12 DEF Names
    <3> QED BY <2>9, <2>10, <2>12, <3>1, <3>2
  <2> QED BY <2>11, <2>12
<1> QED BY <1>1, <1>2

\* The instruction goes on waiting as it did.
LEMMA StaysWired ==
    ASSUME NEW t, NEW k, WiredAt(t, k), st'[t].seq = st[t].seq, st'[t].deps[k] = st[t].deps[k],
           st'[t].ready[k] = st[t].ready[k], st'[t].tag = st[t].tag,
           NEW H, H = Wire(t, st[t].tag, k),
           \A x \in Stations : Wires(st', x, H) = Wires(st, x, H),
           \A p \in Live' : \/ p \in Live /\ st'[p].seq = st[p].seq /\ (st[p].completed => st'[p].completed)
                            \/ st'[p].seq # st[t].deps[k],
           \A p : Awaits(p, st[t].deps[k], H) => /\ p \in Live' /\ p \in Stations /\ st'[p].seq = st[p].seq
                                                 /\ ~st'[p].completed
    PROVE  WiredAt(t, k)'
<1>1. PICK d : d = st[t].deps[k]
  OBVIOUS
<1>2. st'[t].deps[k] = d /\ d < st'[t].seq /\ Wire(t, st'[t].tag, k) = H
  BY <1>1 DEF WiredAt
<1>3. CASE st[t].ready[k]
  <2>1. NoneAwaited(d, H)
    BY <1>1, <1>3 DEF WiredAt
  <2>2. \A x \in Stations : Wires(st', x, H) = 0
    BY <2>1 DEF NoneAwaited
  <2>3. \A p \in Live' : st'[p].seq = d => st'[p].completed
    BY <1>1, <2>1 DEF NoneAwaited
  <2>4. NoneAwaited(d, H)'
    BY <2>2, <2>3 DEF NoneAwaited
  <2> QED BY <1>2, <1>3, <2>4 DEF WiredAt
<1>4. CASE ~st[t].ready[k]
  <2>1. PICK p : Awaits(p, d, H)
    BY <1>1, <1>4 DEF WiredAt
  <2>2. p \in Live' /\ p \in Stations /\ st'[p].seq = d /\ ~st'[p].completed
    BY <1>1, <2>1 DEF Awaits
  <2>3. Wires(st', p, H) = 1 /\ \A x \in Stations : x # p => Wires(st', x, H) = 0
    BY <2>1, <2>2 DEF Awaits
  <2>4. Awaits(p, d, H)'
    BY <2>2, <2>3 DEF Awaits
  <2> QED BY <1>2, <1>4, <2>4 DEF WiredAt
<1> QED BY <1>3, <1>4

\* Who is awaited has a link on its outputs.
LEMMA AwaitedChain ==
    ASSUME RuuCore, NEW p, NEW d, NEW H, Awaits(p, d, H)
    PROVE  \E j \in Outs : st[p].odeps[j] # << >> /\ st[p].onames[j] # NA
<1>1. Wires(st, p, H) = 1
  BY DEF Awaits
<1>2. \E j \in Outs : st[p].odeps[j] # << >>
  <2>1. (\A j \in Outs : st[p].odeps[j] = << >>) => Wires(st, p, H) = 0
    BY NoWires
  <2> QED BY <1>1, <2>1
<1>3. p \in Stations
  BY LiveTyped DEF Awaits
<1> QED BY <1>2, <1>3 DEF RuuCore, ChainsSound

LEMMA CalmWired ==
    ASSUME RuuCore, Wired, Calm
    PROVE  Wired'
<1>1. SameQueues /\ \A x \in Stations : /\ st'[x].ready = st[x].ready /\ st'[x].deps = st[x].deps
                                        /\ st[x].completed => st'[x].completed
  BY DEF Calm
<1>2. \A x \in Stations : SameCore(st'[x], st[x])
  BY <1>1 DEF SameQueues
<1>3. Live' = Live /\ Live \subseteq Stations
  <2>1. UNCHANGED spec_mode
    BY DEF Calm
  <2> QED BY <1>1, <2>1, QuietQueues, LiveTyped DEF RuuCore
<1> SUFFICES ASSUME NEW t \in Live, NEW k \in Ops PROVE WiredAt(t, k)'
  BY <1>3 DEF Wired
<1>4. WiredAt(t, k) /\ t \in Stations
  BY <1>3 DEF Wired
<1>5. PICK H : H = Wire(t, st[t].tag, k)
  OBVIOUS
<1>6. \A x \in Stations : Wires(st', x, H) = Wires(st, x, H)
  BY <1>2, SameWires DEF SameCore
<1>7. ASSUME NEW p, Awaits(p, st[t].deps[k], H)
      PROVE  p \in Live /\ p \in Stations /\ st'[p].seq = st[p].seq /\ ~st'[p].completed
  <2>1. \E j \in Outs : st[p].onames[j] # NA
    BY <1>7, AwaitedChain
  <2>2. p \in Live /\ ~st[p].completed
    BY <1>7 DEF Awaits
  <2> QED BY <1>2, <1>3, <2>1, <2>2 DEF SameCore, Silent
<1>8. \A p \in Live : st'[p].seq = st[p].seq /\ (st[p].completed => st'[p].completed)
  BY <1>1, <1>2, <1>3 DEF SameCore
<1>9. st'[t].seq = st[t].seq /\ st'[t].deps[k] = st[t].deps[k] /\ st'[t].ready[k] = st[t].ready[k] /\ st'[t].tag = st[t].tag
  BY <1>1, <1>2, <1>4 DEF SameCore
<1> QED BY <1>3, <1>4, <1>5, <1>6, <1>7, <1>8, <1>9, StaysWired

LEMMA CommitWired ==
    ASSUME RuuCore, Wired, CommitHead, NoPanic'
    PROVE  Wired'
<1>1. PICK gone : HeadLeaves(EaComp(st[HeadRs]), gone)
  BY CommitLeaves
<1>2. Live' = Live \ gone /\ Live \subseteq Stations
  BY <1>1, HeadLines, LiveTyped
<1>3. \A x \in Stations : Kept(st'[x], st[x])
  BY <1>1, HeadKept
<1>4. \A x \in Stations : x \notin gone => st'[x] = st[x]
  BY <1>1 DEF HeadLeaves
<1>5. \A x \in gone : st[x].completed
  BY <1>1 DEF HeadLeaves
<1> SUFFICES ASSUME NEW t \in Live, t \notin gone, NEW k \in Ops PROVE WiredAt(t, k)'
  BY <1>2 DEF Wired
<1>6. WiredAt(t, k) /\ t \in Stations
  BY <1>2 DEF Wired
<1>7. PICK H : H = Wire(t, st[t].tag, k)
  OBVIOUS
<1>8. \A x \in Stations : Wires(st', x, H) = Wires(st, x, H)
  BY <1>3, SameWires DEF Kept
<1>9. ASSUME NEW p, Awaits(p, st[t].deps[k], H)
      PROVE  p \in Live' /\ p \in Stations /\ st'[p].seq = st[p].seq /\ ~st'[p].completed
  <2>1. p \in Live /\ ~st[p].completed
    BY <1>9 DEF Awaits
  <2> QED BY <1>2, <1>4, <1>5, <2>1
<1>10. \A p \in Live' : p \in Live /\ st'[p].seq = st[p].seq /\ (st[p].completed => st'[p].completed)
  BY <1>2, <1>4
<1>11. st'[t] = st[t]
  BY <1>4, <1>6
<1> QED BY <1>6, <1>7, <1>8, <1>9, <1>10, <1>11, StaysWired

\* All links of the instruction finished are on the chain.
LEMMA ChainHolds ==
    ASSUME RuuCore, Finished \in Stations, Finished \notin Squashed, NEW j \in Outs,
           NEW l \in ToSet(st[Finished].odeps[j])
    PROVE  \E i \in DOMAIN Chain : Chain[i] = l
<1> DEFINE a == st[Finished].odeps[0]
           b == st[Finished].odeps[1]
<1>1. AfterSquash[Finished] = st[Finished]
  BY SquashedStations
<1>2. \A k \in Outs : k \notin Produced => st[Finished].odeps[k] = << >>
  BY DEF Produced, RuuCore, ChainsSound
<1>3. 0 \in Outs /\ 1 \in Outs
  BY DEF Outs
<1>4. Chain = a \o b
  BY <1>1, <1>2, <1>3 DEF Chain
<1>5. a \in Seq(LinkType) /\ b \in Seq(LinkType)
  BY <1>3 DEF RuuCore, Typed, StationType
<1>6. l \in ToSet(a) \/ l \in ToSet(b)
  BY DEF Outs
<1> HIDE DEF a, b
<1>7. /\ Len(Chain) = Len(a) + Len(b) /\ DOMAIN Chain = 1..Len(Chain)
      /\ \A n \in 1..Len(a) + Len(b) : Chain[n] = IF n <= Len(a) THEN a[n] ELSE b[n - Len(a)]
  BY <1>4, <1>5, ConcatProperties, LenProperties
<1>8. Len(a) \in Nat /\ Len(b) \in Nat /\ DOMAIN a = 1..Len(a) /\ DOMAIN b = 1..Len(b)
  BY <1>5, LenProperties
<1>9. CASE l \in ToSet(a)
  <2>1. PICK n \in 1..Len(a) : a[n] = l
    BY <1>8, <1>9 DEF ToSet
  <2>2. n \in 1..Len(a) + Len(b) /\ n <= Len(a)
    BY <1>8
  <2>3. Chain[n] = l
    BY <1>7, <2>1, <2>2
  <2> QED BY <1>7, <2>2, <2>3
<1>10. CASE l \in ToSet(b)
  <2>1. PICK n \in 1..Len(b) : b[n] = l
    BY <1>8, <1>10 DEF ToSet
  <2>2. PICK m : m = Len(a) + n
    OBVIOUS
  <2>3. m \in 1..Len(a) + Len(b) /\ ~(m <= Len(a)) /\ m - Len(a) = n
    BY <1>8, <2>2
  <2>4. Chain[m] = l
    BY <1>7, <2>1, <2>3
  <2> QED BY <1>7, <2>3, <2>4
<1> QED BY <1>6, <1>9, <1>10

\* An operand of an instruction that stays is woken when the chain has a link to it.
LEMMA WakesIs ==
    ASSUME RuuCore, Finished \in Stations, Finished \notin Squashed, NEW t \in Live, t \notin Squashed, NEW k \in Ops
    PROVE  Wakes(t, k) <=> Wires(st, Finished, Wire(t, st[t].tag, k)) # 0
<1>1. PICK H : H = Wire(t, st[t].tag, k)
  OBVIOUS
<1>2. Chain \in Seq(LinkType) /\ DOMAIN Chain = 1..Len(Chain)
  BY ChainIs
<1>3. st[Finished] \in StationType /\ t \in Stations
  BY LiveTyped
<1>4. AfterSquash[t] = st[t]
  BY <1>3, SquashedStations
<1>5. \A i \in DOMAIN Chain : Chain[i] \in H <=> Chain[i].rs = t /\ Chain[i].x = k /\ ValidIn(AfterSquash, Chain[i])
  BY <1>1, <1>2, <1>4 DEF Wire, ValidIn
<1>6. Wakes(t, k) <=> \E i \in DOMAIN Chain : Chain[i] \in H
  BY <1>5 DEF Wakes
<1>7. ASSUME NEW i \in DOMAIN Chain, Chain[i] \in H PROVE Wires(st, Finished, H) # 0
  <2>1. PICK j \in Outs : Chain[i] \in ToSet(st[Finished].odeps[j])
    BY <1>2, ChainFrom
  <2>2. Wires(st, Finished, H) >= 1
    BY <1>3, <1>7, <2>1, WiresNat
  <2> QED BY <2>2
<1>8. ASSUME Wires(st, Finished, H) # 0 PROVE \E i \in DOMAIN Chain : Chain[i] \in H
  <2>1. PICK j \in Outs : \E l \in ToSet(st[Finished].odeps[j]) : l \in H
    BY <1>3, <1>8, WiresNat
  <2>2. PICK l \in ToSet(st[Finished].odeps[j]) : l \in H
    BY <2>1
  <2>3. PICK i \in DOMAIN Chain : Chain[i] = l
    BY ChainHolds
  <2> QED BY <2>2, <2>3
<1> QED BY <1>1, <1>6, <1>7, <1>8

LEMMA WritebackWired ==
    ASSUME RuuCore, Ordered, Wired, Writeback, NoPanic'
    PROVE  Wired'
<1>1. PICK o : WrittenBack(o)
  BY WritebackLines
<1>2. /\ Finished \in Live /\ Finished \notin Squashed /\ ~st[Finished].completed /\ Live' = Live \ Squashed
      /\ CutAt(o) /\ \A x \in Stations : Becomes(x, st'[x])
  BY <1>1 DEF WrittenBack
<1>3. /\ Live \subseteq Stations /\ Finished \in Stations
      /\ \A x \in Stations : st[x] \in StationType /\ st[x].seq \in Nat
  BY <1>2, LiveTyped
<1>4. \A x \in Stations : Wakened(x)
  BY <1>2, WokenRest
<1>5. /\ \A x \in Squashed : st[x].spec
      /\ ~st[Finished].recover => Squashed = {}
  BY <1>2, SquashedSpec
<1>6. /\ \A x, y \in Live : st[x].seq = st[y].seq => x = y
      /\ \A x, y \in Live : ~st[x].spec /\ st[y].spec => st[x].seq < st[y].seq
  BY Ages DEF Ordered
<1>7. \A x \in Live : x \notin Squashed => Squashed = {} \/ ~st[x].spec
  <2>1. \A x \in Live : x \notin Squashed =>
            (\E n \in 1..o : x = RuuLive[n]) \/ (\E n \in 1..Agens(o) : x = LsqLive[n])
    BY <1>2, CutLive
  <2>2. CASE ~st[Finished].recover
    BY <1>5, <2>2
  <2>3. CASE st[Finished].recover
    <3>1. /\ \A n \in 1..RUU_num : st[RuuLive[n]].spec <=> n > o
          /\ \A n \in 1..LSQ_num : st[LsqLive[n]].spec <=> n > Agens(o)
          /\ o \in 0..RUU_num /\ Agens(o) \in 0..LSQ_num
      BY <1>2, <2>3 DEF CutAt
    <3>2. RUU_num \in Nat /\ LSQ_num \in Nat
      BY DEF RuuCore, Rings, Ring
    <3>3. \A n \in 1..o : ~st[RuuLive[n]].spec
      BY <3>1, <3>2
    <3>4. PICK a : a = Agens(o)
      OBVIOUS
    <3>5. \A n \in 1..a : ~st[LsqLive[n]].spec
      BY <3>1, <3>2, <3>4
    <3> QED BY <2>1, <3>3, <3>4, <3>5
  <2> QED BY <2>2, <2>3
<1> SUFFICES ASSUME NEW t \in Live, t \notin Squashed, NEW k \in Ops PROVE WiredAt(t, k)'
  BY <1>2 DEF Wired
<1>8. WiredAt(t, k) /\ t \in Stations /\ st[t].seq \in Nat /\ st[t].deps[k] \in Nat
  BY <1>3 DEF Wired, StationType
<1>9. PICK H : H = Wire(t, st[t].tag, k)
  OBVIOUS
<1>10. PICK d : d = st[t].deps[k]
  OBVIOUS
<1>11. st'[t].seq = st[t].seq /\ st'[t].deps[k] = d /\ st'[t].tag = st[t].tag
       /\ (st'[t].ready[k] <=> st[t].ready[k] \/ Wires(st, Finished, H) # 0)
  <2>1. st'[t].seq = st[t].seq /\ st'[t].tag = st[t].tag
    BY <1>2, <1>8 DEF Becomes
  <2>2. st'[t].deps = st[t].deps /\ (st'[t].ready[k] <=> st[t].ready[k] \/ Wakes(t, k))
    BY <1>4, <1>8 DEF Wakened
  <2> QED BY <1>2, <1>3, <1>9, <1>10, <2>1, <2>2, WakesIs
<1>12. ASSUME NEW x \in Stations
       PROVE  Wires(st', x, H) = IF x \in Squashed \/ x = Finished THEN 0 ELSE Wires(st, x, H)
  <2>1. \A j \in Outs : st'[x].odeps[j] = IF x \in Squashed \/ x = Finished THEN << >> ELSE st[x].odeps[j]
    BY <1>2 DEF Becomes
  <2>2. CASE x \in Squashed \/ x = Finished
    BY <2>1, <2>2, NoWires
  <2>3. CASE ~(x \in Squashed \/ x = Finished)
    BY <2>1, <2>3, SameWires
  <2> QED BY <2>2, <2>3
<1>13. \A x \in Stations : st'[x].seq = st[x].seq /\ (st'[x].completed <=> st[x].completed \/ x = Finished)
  BY <1>2 DEF Becomes
<1>14. ASSUME NEW p, Awaits(p, d, H) PROVE p \notin Squashed
  <2>1. p \in Live /\ st[p].seq = d /\ d < st[t].seq
    BY <1>8, <1>10, <1>14 DEF Awaits, WiredAt
  <2>2. CASE p \in Squashed
    <3>1. st[p].spec /\ ~st[t].spec
      BY <1>5, <1>7, <2>2
    <3>2. st[t].seq < st[p].seq
      BY <1>6, <2>1, <3>1
    <3> QED BY <1>8, <1>10, <2>1, <3>2
  <2> QED BY <2>2
<1>15. CASE Awaits(Finished, d, H)
  <2>1. Wires(st, Finished, H) = 1 /\ st[Finished].seq = d /\ \A x \in Stations : x # Finished => Wires(st, x, H) = 0
    BY <1>15 DEF Awaits
  <2>2. st'[t].ready[k]
    BY <1>11, <2>1
  <2>3. \A x \in Stations : Wires(st', x, H) = 0
    BY <1>12, <2>1
  <2>4. ASSUME NEW p \in Live', st'[p].seq = d PROVE st'[p].completed
    <3>1. p \in Live /\ p \in Stations /\ st[p].seq = d
      BY <1>2, <1>3, <1>13, <2>4
    <3>2. p = Finished
      BY <1>2, <1>6, <2>1, <3>1
    <3> QED BY <1>13, <3>1, <3>2
  <2>5. NoneAwaited(d, H)'
    BY <2>3, <2>4 DEF NoneAwaited
  <2>6. d < st'[t].seq /\ Wire(t, st'[t].tag, k) = H
    BY <1>8, <1>9, <1>10, <1>11 DEF WiredAt
  <2> QED BY <1>11, <2>2, <2>5, <2>6 DEF WiredAt
<1>16. CASE ~Awaits(Finished, d, H)
  <2>1. Wires(st, Finished, H) = 0 /\ \A x \in Squashed : Wires(st, x, H) = 0
    <3>1. CASE st[t].ready[k]
      <4>1. NoneAwaited(d, H)
        BY <1>8, <1>9, <1>10, <3>1 DEF WiredAt
      <4>2. Squashed \subseteq Live
        BY <1>2, CutLive
      <4> QED BY <1>3, <4>1, <4>2 DEF NoneAwaited
    <3>2. CASE ~st[t].ready[k]
      <4>1. PICK p : Awaits(p, d, H)
        BY <1>8, <1>9, <1>10, <3>2 DEF WiredAt
      <4>2. p # Finished /\ p \notin Squashed
        BY <1>14, <1>16, <4>1
      <4>3. Squashed \subseteq Live
        BY <1>2, CutLive
      <4> QED BY <1>3, <4>1, <4>2, <4>3 DEF Awaits
    <3> QED BY <3>1, <3>2
  <2>2. \A x \in Stations : Wires(st', x, H) = Wires(st, x, H)
    BY <1>12, <2>1
  <2>3. st'[t].ready[k] = st[t].ready[k]
    <3>1. st[t].ready[k] \in BOOLEAN
      BY <1>3, <1>8 DEF StationType
    <3>2. st'[t].ready[k] \in BOOLEAN
      <4>1. st' \in [Stations -> StationType]
        BY <1>1 DEF WrittenBack
      <4> QED BY <1>8, <4>1 DEF StationType
    <3>3. st'[t].ready[k] <=> st[t].ready[k]
      BY <1>11, <2>1
    <3> QED BY <3>1, <3>2, <3>3
  <2>4. ASSUME NEW p, Awaits(p, d, H)
        PROVE  p \in Live' /\ p \in Stations /\ st'[p].seq = st[p].seq /\ ~st'[p].completed
    <3>1. p \in Live /\ ~st[p].completed /\ p \notin Squashed /\ p # Finished
      BY <1>14, <1>16, <2>4 DEF Awaits
    <3> QED BY <1>2, <1>3, <1>13, <3>1
  <2>5. \A p \in Live' : p \in Live /\ st'[p].seq = st[p].seq /\ (st[p].completed => st'[p].completed)
    BY <1>2, <1>3, <1>13
  <2> QED BY <1>8, <1>9, <1>10, <1>11, <2>2, <2>3, <2>4, <2>5, StaysWired
<1> QED BY <1>15, <1>16

\* One more link.
LEMMA ConsCounts ==
    ASSUME NEW q \in Seq(LinkType), NEW l \in LinkType, NEW H, NEW r, r = <<l>> \o q
    PROVE  NumIn(r, H) = NumIn(q, H) + (IF l \in H THEN 1 ELSE 0)
<1>1. r \in Seq(LinkType) /\ r # << >> /\ Head(r) = l /\ Tail(r) = q
  OBVIOUS
<1>2. NumIn(r, H) = NumIn(Tail(r), H) + (IF Head(r) \in H THEN 1 ELSE 0)
  BY <1>1, TailCounts
<1> QED BY <1>1, <1>2

LEMMA LinkIdepWires ==
    ASSUME NEW s, s \in [Stations -> StationType], NEW id \in Stations, NEW c \in CvType, NEW k \in Ops,
           NEW u, u = LinkIdep(s, id, c, k), NEW x \in Stations, NEW H
    PROVE  Wires(u, x, H) = Wires(s, x, H) + (IF c.rs = x /\ LinkTo(s, id, k) \in H THEN 1 ELSE 0)
<1>1. s[x] \in StationType /\ Wires(s, x, H) \in Nat /\ Null \notin Stations
  BY WiresNat, LiveIs
<1>2. CASE c.rs = Null
  BY <1>1, <1>2 DEF LinkIdep
<1>3. CASE c.rs # Null
  <2>1. PICK m, old : m = LinkTo(s, id, k) /\ old = s[c.rs].odeps[c.odep]
    OBVIOUS
  <2>2. PICK new : new = <<m>> \o old
    OBVIOUS
  <2>3. u = [s EXCEPT ![c.rs].odeps[c.odep] = new]
    BY <1>3, <2>1, <2>2 DEF LinkIdep
  <2>4. CASE x # c.rs
    BY <1>1, <2>3, <2>4 DEF Wires
  <2>5. CASE x = c.rs
    <3>1. c.odep \in Outs /\ \A j \in Outs : j = 0 \/ j = 1
      BY DEF CvType, Outs
    <3>2. 0 \in Outs /\ 1 \in Outs
      BY DEF Outs
    <3>3. u[x].odeps = [s[x].odeps EXCEPT ![c.odep] = new] /\ s[x].odeps \in [Outs -> Seq(LinkType)]
      <4>1. u[x] = [s[x] EXCEPT !.odeps[c.odep] = new]
        BY <2>3, <2>5
      <4> QED BY <1>1, <4>1 DEF StationType
    <3>4. old \in Seq(LinkType) /\ old = s[x].odeps[c.odep] /\ u[x].odeps[c.odep] = new
      BY <2>1, <2>5, <3>1, <3>3
    <3>5. m \in LinkType
      <4>1. s[id].tag \in Nat /\ s[id].seq \in Nat /\ k \in Nat
        BY DEF StationType, Ops
      <4> QED BY <2>1, <4>1, LinkToIs
    <3>6. NumIn(new, H) = NumIn(old, H) + (IF m \in H THEN 1 ELSE 0)
      <4>1. old \in Seq(LinkType)
        BY <3>4
      <4> QED BY <2>2, <3>5, <4>1, ConsCounts, ZenonT(60)
    <3>7. NumIn(s[x].odeps[0], H) \in Nat /\ NumIn(s[x].odeps[1], H) \in Nat
      BY <1>1, <3>2, WiresNat
    <3>8. CASE c.odep = 0
      <4>1. u[x].odeps[0] = new /\ u[x].odeps[1] = s[x].odeps[1] /\ old = s[x].odeps[0]
        BY <3>2, <3>3, <3>4, <3>8
      <4> QED BY <2>1, <2>5, <3>6, <3>7, <4>1 DEF Wires
    <3>9. CASE c.odep = 1
      <4>1. u[x].odeps[1] = new /\ u[x].odeps[0] = s[x].odeps[0] /\ old = s[x].odeps[1]
        BY <3>2, <3>3, <3>4, <3>9
      <4> QED BY <2>1, <2>5, <3>6, <3>7, <4>1 DEF Wires
    <3> QED BY <3>1, <3>8, <3>9
  <2> QED BY <2>4, <2>5
<1> QED BY <1>2, <1>3

\* The links to operand k of station y on station x are one more if it is id with creator x.
OneWire(u, s, x, id, C, y, k, H) ==
    Wires(u, x, H) = Wires(s, x, H) + (IF y = id /\ C[k].rs = x THEN 1 ELSE 0)

LEMMA LinkedWires ==
    ASSUME NEW s, s \in [Stations -> StationType], NEW id \in Stations, NEW C, \A k \in Ops : C[k] \in CvType,
           NEW u, u = Linked(s, id, C), NEW x \in Stations, NEW y, NEW g, NEW k \in Ops,
           y = id => g = s[id].tag, NEW H, H = Wire(y, g, k)
    PROVE  OneWire(u, s, x, id, C, y, k, H)
<1>1. 0 \in Ops /\ 1 \in Ops /\ 2 \in Ops /\ (k = 0 \/ k = 1 \/ k = 2)
  BY DEF Ops
<1>2. PICK a : a = LinkIdep(s, id, C[0], 0)
  OBVIOUS
<1>3. PICK b : b = LinkIdep(a, id, C[1], 1)
  OBVIOUS
<1>4. u = LinkIdep(b, id, C[2], 2)
  BY <1>2, <1>3 DEF Linked
<1>5. Linking(a, s, id, C, One(C[0]))
  BY <1>1, <1>2, LinkIdepIs DEF One
<1>6. a \in [Stations -> StationType] /\ SameButLinks(a[id], s[id])
  BY <1>5 DEF Linking
<1>7. Linking(b, a, id, C, One(C[1]))
  BY <1>1, <1>3, <1>6, LinkIdepIs DEF One
<1>8. b \in [Stations -> StationType] /\ SameButLinks(b[id], a[id])
  BY <1>7 DEF Linking
<1>9. ASSUME NEW r, r \in [Stations -> StationType], r[id].tag = s[id].tag, NEW j \in Ops
      PROVE  LinkTo(r, id, j) \in H <=> y = id /\ j = k
  <2>1. r[id].tag \in Nat /\ r[id].seq \in Nat /\ j \in Nat
    <3>1. r[id] \in StationType
      BY <1>9
    <3>2. j \in Nat
      BY DEF Ops
    <3> QED BY <3>1, <3>2 DEF StationType
  <2>2. /\ LinkTo(r, id, j) \in LinkType /\ LinkTo(r, id, j).rs = id
        /\ LinkTo(r, id, j).tag = r[id].tag /\ LinkTo(r, id, j).x = j
    BY <2>1, LinkToIs
  <2> QED BY <1>9, <2>2 DEF Wire
<1>10. a[id].tag = s[id].tag /\ b[id].tag = s[id].tag
  BY <1>6, <1>8 DEF SameButLinks
<1>11. Wires(a, x, H) = Wires(s, x, H) + (IF C[0].rs = x /\ y = id /\ 0 = k THEN 1 ELSE 0)
  BY <1>1, <1>2, <1>9, LinkIdepWires
<1>12. Wires(b, x, H) = Wires(a, x, H) + (IF C[1].rs = x /\ y = id /\ 1 = k THEN 1 ELSE 0)
  BY <1>1, <1>3, <1>6, <1>9, <1>10, LinkIdepWires
<1>13. Wires(u, x, H) = Wires(b, x, H) + (IF C[2].rs = x /\ y = id /\ 2 = k THEN 1 ELSE 0)
  BY <1>1, <1>4, <1>8, <1>9, <1>10, LinkIdepWires
<1>14. Wires(s, x, H) \in Nat
  BY WiresNat
<1>15. CASE k = 0
  BY <1>11, <1>12, <1>13, <1>14, <1>15 DEF OneWire
<1>16. CASE k = 1
  BY <1>11, <1>12, <1>13, <1>14, <1>16 DEF OneWire
<1>17. CASE k = 2
  BY <1>11, <1>12, <1>13, <1>14, <1>17 DEF OneWire
<1> QED BY <1>1, <1>15, <1>16, <1>17

\* A station is filled in and linked to its creators.
LEMMA PlaceWires ==
    ASSUME NEW s, s \in [Stations -> StationType], NEW id \in Stations, NEW a \in StationType,
           \A k \in Outs : a.odeps[k] = << >> /\ s[id].odeps[k] = << >>, NEW C, \A k \in Ops : C[k] \in CvType,
           NEW t, t = Linked([s EXCEPT ![id] = a], id, C), NEW x \in Stations, NEW y, NEW g, NEW k \in Ops,
           y = id => g = a.tag, NEW H, H = Wire(y, g, k)
    PROVE  OneWire(t, s, x, id, C, y, k, H)
<1>1. PICK u : u = [s EXCEPT ![id] = a]
  OBVIOUS
<1>2. /\ u \in [Stations -> StationType] /\ u[id] = a
      /\ \A z \in Stations : \A j \in Outs : u[z].odeps[j] = s[z].odeps[j]
  BY <1>1, FillIs
<1>3. OneWire(t, u, x, id, C, y, k, H)
  BY <1>1, <1>2, LinkedWires
<1>4. Wires(u, x, H) = Wires(s, x, H)
  <2>1. 0 \in Outs /\ 1 \in Outs
    BY DEF Outs
  <2>2. u[x].odeps[0] = s[x].odeps[0] /\ u[x].odeps[1] = s[x].odeps[1]
    BY <1>2, <2>1
  <2> QED BY <2>2 DEF Wires
<1> QED BY <1>3, <1>4 DEF OneWire

\* Instructions that come into use leave those before them as they were.
LEMMA OldWired ==
    ASSUME RuuCore, Ordered, Wired, NEW new, Entered(new),
           \A x \in new : st'[x].seq \in Nat /\ st'[x].seq > inst_seq,
           \A x \in Stations : x \notin new => SameRest(st'[x], st[x]),
           NEW t \in Live, NEW k \in Ops,
           \A x \in Stations : Wires(st', x, Wire(t, st[t].tag, k)) = Wires(st, x, Wire(t, st[t].tag, k))
    PROVE  WiredAt(t, k)'
<1>1. /\ Live' = Live \cup new /\ new \cap Live = {}
      /\ \A x \in Stations : x \notin new => SameInstr(st'[x], st[x])
  BY DEF Entered
<1>2. Live \subseteq Stations /\ \A x \in Stations : st[x] \in StationType
  BY LiveTyped
<1>3. WiredAt(t, k) /\ t \in Stations /\ t \notin new
  BY <1>1, <1>2 DEF Wired
<1>4. st'[t].seq = st[t].seq /\ st'[t].tag = st[t].tag /\ st'[t].deps[k] = st[t].deps[k] /\ st'[t].ready[k] = st[t].ready[k]
  BY <1>1, <1>3 DEF SameInstr, SameRest
<1>5. st[t].deps[k] \in Nat /\ st[t].seq \in 1..inst_seq /\ inst_seq \in Nat
  <2>1. st[t].seq \in 1..inst_seq
    BY Ages DEF Ordered
  <2>2. st[t].deps[k] \in Nat
    BY <1>2, <1>3 DEF StationType
  <2> QED BY <2>1, <2>2 DEF RuuCore, Typed
<1>6. PICK H : H = Wire(t, st[t].tag, k)
  OBVIOUS
<1>7. ASSUME NEW p \in Live'
      PROVE  \/ p \in Live /\ st'[p].seq = st[p].seq /\ (st[p].completed => st'[p].completed)
             \/ st'[p].seq # st[t].deps[k]
  <2>1. CASE p \in new
    <3>1. st'[p].seq \in Nat /\ st'[p].seq > inst_seq
      BY <2>1
    <3>2. st[t].deps[k] < st[t].seq
      BY <1>3 DEF WiredAt
    <3> QED BY <1>5, <3>1, <3>2
  <2>2. CASE p \notin new
    BY <1>1, <1>2, <1>7, <2>2 DEF SameInstr
  <2> QED BY <2>1, <2>2
<1>8. ASSUME NEW p, Awaits(p, st[t].deps[k], H)
      PROVE  p \in Live' /\ p \in Stations /\ st'[p].seq = st[p].seq /\ ~st'[p].completed
  <2>1. p \in Live /\ ~st[p].completed
    BY <1>8 DEF Awaits
  <2> QED BY <1>1, <1>2, <2>1 DEF SameInstr
<1>9. \A x \in Stations : Wires(st', x, H) = Wires(st, x, H)
  BY <1>6
<1> QED BY <1>3, <1>4, <1>6, <1>7, <1>8, <1>9, StaysWired

\* Entry c names the instruction that operand k of station t waits for, or none.
Supplies(c, t, k) ==
    IF c.rs = Null THEN st'[t].deps[k] = 0
    ELSE c.rs \in Live' /\ ~st'[c.rs].completed /\ st'[c.rs].seq = st'[t].deps[k] /\ st'[t].deps[k] < st'[t].seq

LEMMA NewWired ==
    ASSUME NEW t, NEW k, NEW c, st'[t].ready[k] <=> c.rs = Null, Supplies(c, t, k),
           st'[t].seq > 0, Live' \subseteq Stations, \A p \in Live' : st'[p].seq # 0, NEW H, H = Wire(t, st'[t].tag, k),
           \A x \in Stations : Wires(st', x, H) = IF c.rs = x THEN 1 ELSE 0
    PROVE  WiredAt(t, k)'
<1>1. PICK d : d = st'[t].deps[k]
  OBVIOUS
<1>2. CASE c.rs = Null
  <2>1. d = 0 /\ st'[t].ready[k]
    BY <1>1, <1>2 DEF Supplies
  <2>2. \A x \in Stations : Wires(st', x, H) = 0
    BY <1>2, LiveIs
  <2>3. \A p \in Live' : st'[p].seq = d => st'[p].completed
    BY <2>1
  <2>4. NoneAwaited(d, H)'
    BY <2>2, <2>3 DEF NoneAwaited
  <2>5. d < st'[t].seq
    BY <2>1
  <2> QED BY <1>1, <2>1, <2>4, <2>5 DEF WiredAt
<1>3. CASE c.rs # Null
  <2>1. PICK p : p = c.rs
    OBVIOUS
  <2>2. p \in Live' /\ ~st'[p].completed /\ st'[p].seq = d /\ d < st'[t].seq /\ ~st'[t].ready[k] /\ p \in Stations
    BY <1>1, <1>3, <2>1 DEF Supplies
  <2>3. Wires(st', p, H) = 1 /\ \A x \in Stations : x # p => Wires(st', x, H) = 0
    BY <2>1, <2>2
  <2>4. Awaits(p, d, H)'
    BY <2>2, <2>3 DEF Awaits
  <2> QED BY <1>1, <2>2, <2>4 DEF WiredAt
<1> QED BY <1>2, <1>3

\* What the create vectors name supplies a new instruction.
LEMMA CreatorSupplies ==
    ASSUME RuuCore, Ordered, NEW new, Entered(new), NEW t \in new, NEW k \in Ops, NEW r \in Regs \cup {NA},
           NEW c, c = Creator(r), st'[t].deps[k] = Producer(r), st'[t].seq \in Nat, st'[t].seq > inst_seq
    PROVE  Supplies(c, t, k)
<1>1. IF c.rs = Null THEN Producer(r) = 0
      ELSE c.rs \in Live /\ ~st[c.rs].completed /\ Producer(r) = st[c.rs].seq
  BY ProducerNames
<1>2. CASE c.rs = Null
  BY <1>1, <1>2 DEF Supplies
<1>3. CASE c.rs # Null
  <2>1. c.rs \in Live /\ ~st[c.rs].completed /\ Producer(r) = st[c.rs].seq
    BY <1>1, <1>3
  <2>2. c.rs \in Stations /\ st[c.rs].seq \in 1..inst_seq
    BY <2>1, LiveTyped, Ages DEF Ordered
  <2>3. c.rs \in Live' /\ SameInstr(st'[c.rs], st[c.rs])
    BY <2>1, <2>2 DEF Entered
  <2>4. inst_seq \in Nat
    BY DEF RuuCore, Typed
  <2>5. st[c.rs].seq < st'[t].seq
    BY <2>2, <2>4
  <2> QED BY <1>3, <2>1, <2>3, <2>5 DEF SameInstr, Supplies
<1> QED BY <1>2, <1>3

LEMMA EnteredSeqs ==
    ASSUME RuuCore, Ordered, NEW new, Entered(new), \A x \in new : st'[x].seq \in Nat /\ st'[x].seq > inst_seq
    PROVE  Live' \subseteq Stations /\ \A p \in Live' : st'[p].seq # 0
<1>1. inst_seq \in Nat /\ Live \subseteq Stations /\ \A x \in Live : st[x].seq \in 1..inst_seq
  BY LiveTyped, Ages DEF Ordered, RuuCore, Typed
<1>2. /\ Live' = Live \cup new /\ new \subseteq Stations /\ new \cap Live = {}
      /\ \A x \in Stations : x \notin new => st'[x].seq = st[x].seq
  BY DEF Entered, SameInstr
<1> QED BY <1>1, <1>2

LEMMA OpWired ==
    ASSUME RuuCore, Ordered, Wired, NEW i \in program, NEW m \in BOOLEAN, DispatchOp(i, m), NoPanic'
    PROVE  Wired'
<1>1. PICK id, a, t : OpDispatched(i, m, id, a, t) /\ Enqueued(t, id)
  BY OpEnqueues
<1>2. OpRested(i, id)
  BY <1>1, OpRest
<1>3. Entered({id}) /\ st'[id].seq = inst_seq + 1
  <2>1. OpDispatched(i, m, id, a, t)
    BY <1>1
  <2> QED BY <2>1, OpEntered, ZenonT(60)
<1>4. inst_seq \in Nat
  BY DEF RuuCore, Typed
<1>5. \A x \in {id} : st'[x].seq \in Nat /\ st'[x].seq > inst_seq
  BY <1>3, <1>4
<1>6. /\ id \in Stations /\ a \in StationType /\ a.tag = st[id].tag /\ t \in [Stations -> StationType]
      /\ \A j \in Outs : a.odeps[j] = << >>
  BY <1>1, OpPlaced DEF Entry, Placed
<1>7. /\ \A k \in Ops : Creators(i)[k] \in CvType
      /\ i.ins \in [Ops -> Regs \cup {NA}]
  BY CreatorsAre, OfferedIs
<1>8. \A j \in Outs : a.odeps[j] = << >> /\ st[id].odeps[j] = << >>
  <2>1. id \notin Live
    BY <1>1, OpPlaced
  <2> QED BY <1>6, <2>1 DEF RuuCore, ChainsSound
<1>9. ASSUME NEW x \in Stations, NEW y, NEW k \in Ops
      PROVE  OneWire(st', st, x, id, Creators(i), y, k, Wire(y, st[y].tag, k))
  <2>1. PICK g, H : g = st[y].tag /\ H = Wire(y, g, k)
    OBVIOUS
  <2>2. t = Linked([st EXCEPT ![id] = a], id, Creators(i)) /\ st \in [Stations -> StationType]
    BY <1>1 DEF OpDispatched, RuuCore, Typed
  <2>3. y = id => g = a.tag
    BY <1>6, <2>1
  <2>4. OneWire(t, st, x, id, Creators(i), y, k, H)
    BY <1>6, <1>7, <1>8, <2>1, <2>2, <2>3, PlaceWires
  <2>5. st'[x].odeps = t[x].odeps
    BY <1>1, <1>6, EnqueuedRest
  <2>6. Wires(st', x, H) = Wires(t, x, H)
    BY <2>5 DEF Wires
  <2> QED BY <2>1, <2>4, <2>6 DEF OneWire
<1>10. Live' = Live \cup {id} /\ id \notin Live /\ st'[id].tag = st[id].tag
  BY <1>3 DEF Entered
<1>11. ASSUME NEW y \in Live, NEW k \in Ops PROVE WiredAt(y, k)'
  <2>1. \A x \in Stations : Wires(st, x, Wire(y, st[y].tag, k)) \in Nat
    BY LiveTyped, WiresNat
  <2>2. \A x \in Stations : Wires(st', x, Wire(y, st[y].tag, k)) = Wires(st, x, Wire(y, st[y].tag, k))
    BY <1>9, <1>10, <2>1 DEF OneWire
  <2>3. \A x \in Stations : x \notin {id} => SameRest(st'[x], st[x])
    BY <1>2 DEF OpRested
  <2> QED BY <1>3, <1>5, <2>2, <2>3, OldWired
<1>12. ASSUME NEW k \in Ops PROVE WiredAt(id, k)'
  <2>1. PICK r \in Regs \cup {NA} : r = i.ins[k]
    BY <1>7
  <2>2. PICK c : c = Creator(r) /\ c = Creators(i)[k]
    BY <2>1 DEF Creators
  <2>3. st'[id].deps[k] = Producer(r) /\ (st'[id].ready[k] <=> c.rs = Null)
    <3>1. /\ st'[id].ready = [j \in Ops |-> Creators(i)[j].rs = Null]
          /\ st'[id].deps = [j \in Ops |-> Producer(i.ins[j])]
      BY <1>2 DEF OpRested
    <3>2. st'[id].ready[k] = (Creators(i)[k].rs = Null) /\ st'[id].deps[k] = Producer(i.ins[k])
      BY <3>1
    <3> QED BY <2>1, <2>2, <3>2
  <2>4. st'[id].seq \in Nat /\ st'[id].seq > inst_seq /\ st'[id].seq > 0
    BY <1>3, <1>4
  <2>5. Supplies(c, id, k)
    BY <1>3, <2>2, <2>3, <2>4, CreatorSupplies
  <2>6. PICK H : H = Wire(id, st'[id].tag, k)
    OBVIOUS
  <2>7. ASSUME NEW x \in Stations PROVE Wires(st', x, H) = IF c.rs = x THEN 1 ELSE 0
    <3>1. Wires(st, x, H) = 0
      BY <1>10, <2>6, NoneWired
    <3> QED BY <1>9, <1>10, <2>2, <2>6, <3>1 DEF OneWire
  <2>8. Live' \subseteq Stations /\ \A p \in Live' : st'[p].seq # 0
    BY <1>3, <1>5, EnteredSeqs
  <2> QED BY <2>3, <2>4, <2>5, <2>6, <2>7, <2>8, NewWired
<1> QED BY <1>10, <1>11, <1>12 DEF Wired

LEMMA MemWired ==
    ASSUME RuuCore, Ordered, Wired, NEW i \in program, DispatchMem(i), NoPanic'
    PROVE  Wired'
<1>1. PICK id, lsq, a, t, b, u : MemDispatched(i, id, lsq, a, t, b, u) /\ Enqueued(u, id)
  BY MemEnqueues
<1>2. PICK D, E : D = AddrCs(i) /\ E = AccessCs(i, id)
  OBVIOUS
<1>3. /\ \A x \in Stations : x # id /\ x # lsq => SameRest(st'[x], st[x])
      /\ st'[id].ready = [k \in Ops |-> D[k].rs = Null]
      /\ st'[id].deps = [k \in Ops |-> IF k = 0 THEN 0 ELSE Producer(i.ins[k])]
      /\ st'[lsq].ready = [k \in Ops |-> E[k].rs = Null]
      /\ st'[lsq].deps = [k \in Ops |-> CASE k = 0 -> Producer(i.ins[0]) [] k = 1 -> inst_seq + 1 [] k = 2 -> 0]
  <2>1. MemDispatched(i, id, lsq, a, t, b, u) /\ Enqueued(u, id)
    BY <1>1
  <2>2. /\ \A x \in Stations : x # id /\ x # lsq => SameRest(st'[x], st[x])
        /\ st'[id].ready = [k \in Ops |-> AddrCs(i)[k].rs = Null]
        /\ st'[id].deps = [k \in Ops |-> IF k = 0 THEN 0 ELSE Producer(i.ins[k])]
        /\ st'[lsq].ready = [k \in Ops |-> AccessCs(i, id)[k].rs = Null]
        /\ st'[lsq].deps = [k \in Ops |-> CASE k = 0 -> Producer(i.ins[0]) [] k = 1 -> inst_seq + 1 [] k = 2 -> 0]
    BY <2>1, MemRest, ZenonT(60)
  <2> QED BY <1>2, <2>2
<1>4. Entered({id, lsq}) /\ st'[id].seq = inst_seq + 1 /\ st'[lsq].seq = inst_seq + 2
  BY <1>1, MemEntered, ZenonT(60)
<1>5. inst_seq \in Nat
  BY DEF RuuCore, Typed
<1>6. \A x \in {id, lsq} : st'[x].seq \in Nat /\ st'[x].seq > inst_seq /\ st'[x].seq > 0
  BY <1>4, <1>5
<1>7. /\ id \in Stations /\ lsq \in Stations /\ id # lsq /\ id \notin Live /\ lsq \notin Live
  BY <1>1, MemStations
<1>8. /\ a \in StationType /\ a.tag = st[id].tag /\ b \in StationType /\ b.tag = st[lsq].tag
      /\ \A j \in Outs : a.odeps[j] = << >> /\ b.odeps[j] = << >>
      /\ t \in [Stations -> StationType] /\ u \in [Stations -> StationType]
  BY <1>1, MemPlaced DEF Entry, Placed
<1>9. (\A k \in Ops : D[k] \in CvType) /\ \A k \in Ops : E[k] \in CvType
  BY <1>2, <1>7, AddrCreators, AccessCreators
<1>10. \A j \in Outs : st[id].odeps[j] = << >> /\ t[lsq].odeps[j] = << >>
  <2>1. \A j \in Outs : st[id].odeps[j] = << >> /\ st[lsq].odeps[j] = << >>
    BY <1>7 DEF RuuCore, ChainsSound
  <2>2. ASSUME NEW j \in Outs PROVE t[lsq].odeps[j] = << >>
    <3>1. \A k \in Ops : AddrCs(i)[k] # [rs |-> lsq, odep |-> j]
      BY <1>7, AddrCreators
    <3>2. Placed(t, st, id, a, AddrCs(i))
      BY <1>1, MemPlaced
    <3> QED BY <1>7, <2>1, <3>1, <3>2 DEF Placed
  <2> QED BY <2>1, <2>2
<1>11. ASSUME NEW x \in Stations, NEW y, NEW k \in Ops, NEW H, H = Wire(y, st[y].tag, k)
       PROVE  /\ Wires(st, x, H) \in Nat
              /\ Wires(st', x, H) = Wires(st, x, H) + (IF y = id /\ D[k].rs = x THEN 1 ELSE 0)
                                                    + (IF y = lsq /\ E[k].rs = x THEN 1 ELSE 0)
  <2>1. PICK g : g = st[y].tag
    OBVIOUS
  <2>2. /\ t = Linked([st EXCEPT ![id] = a], id, D) /\ st \in [Stations -> StationType]
        /\ u = Linked([t EXCEPT ![lsq] = b], lsq, E)
    BY <1>1, <1>2 DEF MemDispatched, RuuCore, Typed
  <2>3. (y = id => g = a.tag) /\ (y = lsq => g = b.tag) /\ H = Wire(y, g, k)
    BY <1>8, <1>11, <2>1
  <2>4. OneWire(t, st, x, id, D, y, k, H)
    BY <1>7, <1>8, <1>9, <1>10, <2>2, <2>3, PlaceWires
  <2>5. OneWire(u, t, x, lsq, E, y, k, H)
    BY <1>7, <1>8, <1>9, <1>10, <2>2, <2>3, PlaceWires
  <2>6. st'[x].odeps = u[x].odeps
    BY <1>1, <1>7, <1>8, EnqueuedRest
  <2>7. Wires(st', x, H) = Wires(u, x, H)
    BY <2>6 DEF Wires
  <2>8. Wires(st, x, H) \in Nat
    BY LiveTyped, WiresNat
  <2> QED BY <2>4, <2>5, <2>7, <2>8 DEF OneWire
<1>12. Live' = Live \cup {id, lsq} /\ st'[id].tag = st[id].tag /\ st'[lsq].tag = st[lsq].tag
       /\ ~st'[id].completed
  BY <1>4 DEF Entered
<1>13. ASSUME NEW y \in Live, NEW k \in Ops PROVE WiredAt(y, k)'
  <2>1. \A x \in Stations : Wires(st', x, Wire(y, st[y].tag, k)) = Wires(st, x, Wire(y, st[y].tag, k))
    BY <1>7, <1>11
  <2>2. \A x \in Stations : x \notin {id, lsq} => SameRest(st'[x], st[x])
    BY <1>3
  <2> QED BY <1>4, <1>6, <2>1, <2>2, OldWired
<1>14. Live' \subseteq Stations /\ \A p \in Live' : st'[p].seq # 0
  BY <1>4, <1>6, EnteredSeqs
<1>15. i.ins \in [Ops -> Regs \cup {NA}] /\ 0 \in Ops /\ 1 \in Ops /\ 2 \in Ops
  BY OfferedIs DEF Ops
<1>16. ASSUME NEW k \in Ops PROVE WiredAt(id, k)'
  <2>1. PICK c : c = D[k]
    OBVIOUS
  <2>2. st'[id].ready[k] <=> c.rs = Null
    <3>1. st'[id].ready = [x \in Ops |-> D[x].rs = Null]
      BY <1>3
    <3> QED BY <2>1, <3>1
  <2>3. Supplies(c, id, k)
    <3>1. CASE k = 0
      <4>1. c = CvNull /\ st'[id].deps[k] = 0
        BY <1>2, <1>3, <2>1, <3>1 DEF AddrCs
      <4> QED BY <4>1 DEF Supplies, CvNull
    <3>2. CASE k # 0
      <4>1. PICK r \in Regs \cup {NA} : r = i.ins[k]
        BY <1>15
      <4>2. c = Creator(r) /\ st'[id].deps[k] = Producer(r)
        BY <1>2, <1>3, <2>1, <3>2, <4>1 DEF AddrCs
      <4> QED BY <1>4, <1>6, <4>2, CreatorSupplies
    <3> QED BY <3>1, <3>2
  <2>4. PICK H : H = Wire(id, st'[id].tag, k)
    OBVIOUS
  <2>5. ASSUME NEW x \in Stations PROVE Wires(st', x, H) = IF c.rs = x THEN 1 ELSE 0
    <3>1. Wires(st, x, H) = 0
      BY <1>7, <1>12, <2>4, NoneWired
    <3>2. PICK y : y = id /\ H = Wire(y, st[y].tag, k)
      BY <1>12, <2>4
    <3>3. Wires(st', x, H) = Wires(st, x, H) + (IF y = id /\ D[k].rs = x THEN 1 ELSE 0)
                                             + (IF y = lsq /\ E[k].rs = x THEN 1 ELSE 0)
      BY <1>11, <3>2
    <3> QED BY <1>7, <2>1, <3>1, <3>2, <3>3
  <2> QED BY <1>6, <1>14, <2>2, <2>3, <2>4, <2>5, NewWired
<1>17. ASSUME NEW k \in Ops PROVE WiredAt(lsq, k)'
  <2>1. PICK c : c = E[k]
    OBVIOUS
  <2>2. st'[lsq].ready[k] <=> c.rs = Null
    BY <1>3, <2>1
  <2>3. Supplies(c, lsq, k)
    <3>1. CASE k = 0
      <4>1. PICK r \in Regs \cup {NA} : r = i.ins[k]
        BY <1>15
      <4>2. c = Creator(r)
        BY <1>2, <2>1, <3>1, <4>1 DEF AccessCs
      <4>3. st'[lsq].deps[k] = Producer(r)
        BY <1>3, <3>1, <4>1
      <4> QED BY <1>4, <1>6, <4>2, <4>3, CreatorSupplies
    <3>2. CASE k = 1
      <4>1. c = [rs |-> id, odep |-> 0]
        BY <1>2, <2>1, <3>2 DEF AccessCs
      <4>2. st'[lsq].deps[k] = inst_seq + 1
        BY <1>3, <3>2
      <4>3. inst_seq + 1 < inst_seq + 2 /\ c.rs = id /\ id # Null
        BY <1>5, <1>7, <4>1, LiveIs
      <4> QED BY <1>4, <1>12, <4>2, <4>3 DEF Supplies
    <3>3. CASE k = 2
      <4>1. c = CvNull
        BY <1>2, <2>1, <3>3 DEF AccessCs
      <4>2. st'[lsq].deps[k] = 0
        BY <1>3, <3>3
      <4> QED BY <4>1, <4>2 DEF Supplies, CvNull
    <3> QED BY <3>1, <3>2, <3>3 DEF Ops
  <2>4. PICK H : H = Wire(lsq, st'[lsq].tag, k)
    OBVIOUS
  <2>5. ASSUME NEW x \in Stations PROVE Wires(st', x, H) = IF c.rs = x THEN 1 ELSE 0
    <3>1. Wires(st, x, H) = 0
      BY <1>7, <1>12, <2>4, NoneWired
    <3>2. PICK y : y = lsq /\ H = Wire(y, st[y].tag, k)
      BY <1>12, <2>4
    <3>3. Wires(st', x, H) = Wires(st, x, H) + (IF y = id /\ D[k].rs = x THEN 1 ELSE 0)
                                             + (IF y = lsq /\ E[k].rs = x THEN 1 ELSE 0)
      BY <1>11, <3>2
    <3> QED BY <1>7, <2>1, <3>1, <3>2, <3>3
  <2> QED BY <1>6, <1>14, <2>2, <2>3, <2>4, <2>5, NewWired
<1> QED BY <1>12, <1>13, <1>16, <1>17 DEF Wired

LEMMA WiredStep ==
    ASSUME RuuCore, Ordered, Wired, [Next]_vars, NoPanic'
    PROVE  Wired'
<1>1. CASE ~Busy
  BY <1>1, CalmSteps, CalmWired
<1>2. CASE Busy
  BY <1>2, CommitWired, WritebackWired, OpWired, MemWired DEF Busy
<1> QED BY <1>1, <1>2

LEMMA InitWired ==
    ASSUME Init
    PROVE  Wired
<1>1. RUU_num = 0 /\ LSQ_num = 0
  BY DEF Init
<1>2. Live = {}
  BY <1>1 DEF Live, RuuLive, LsqLive, ToSet
<1> QED BY <1>2 DEF Wired

\* The links that wake an operand, by their places, are as many as are counted.
WakePlaces(p, t, k) ==
    {w \in LinkPlaces(st, {p}) :
        LET l == st[p].odeps[w[2]][w[3]] IN l.rs = t /\ l.x = k /\ Valid(l)}

LEMMA PlacesCounted ==
    ASSUME RuuCore, NEW p \in Live, NEW t, NEW k, NEW H, H = Wire(t, st[t].tag, k)
    PROVE  /\ Wires(st, p, H) = 0 => WakePlaces(p, t, k) = {}
           /\ Wires(st, p, H) = 1 => Cardinality(WakePlaces(p, t, k)) = 1
<1>1. p \in Stations /\ st[p] \in StationType /\ {p} \subseteq Stations
  BY LiveTyped
<1>2. ASSUME NEW j \in Outs
      PROVE  /\ st[p].odeps[j] \in Seq(LinkType) /\ IsFiniteSet(InAt(st[p].odeps[j], H))
             /\ NumIn(st[p].odeps[j], H) \in Nat
  <2>1. st[p].odeps[j] \in Seq(LinkType)
    BY <1>1, WiresNat
  <2> QED BY <2>1, InAtFinite
<1>3. \A w : w \in LinkPlaces(st, {p}) <=> \E j \in Outs : \E n \in DOMAIN st[p].odeps[j] : w = <<p, j, n>>
  <2>1. \A id \in {p} : \A j \in Outs : st[id].odeps[j] \in Seq(LinkType)
    BY <1>2
  <2>2. \A w : w \in LinkPlaces(st, {p}) <=>
                  \E id \in {p} : \E j \in Outs : \E n \in DOMAIN st[id].odeps[j] : w = <<id, j, n>>
    BY <1>1, <2>1, PlacesFinite
  <2> QED BY <2>2
<1>4. ASSUME NEW j \in Outs, NEW n \in DOMAIN st[p].odeps[j]
      PROVE  <<p, j, n>> \in WakePlaces(p, t, k) <=> n \in InAt(st[p].odeps[j], H)
  <2>1. PICK l : l = st[p].odeps[j][n]
    OBVIOUS
  <2>2. l \in LinkType
    BY <1>2, <2>1
  <2>3. l \in H <=> l.rs = t /\ l.x = k /\ Valid(l)
    BY <2>2 DEF Wire, Valid, ValidIn
  <2>4. PICK w : w = <<p, j, n>>
    OBVIOUS
  <2>5. w \in LinkPlaces(st, {p}) /\ w[2] = j /\ w[3] = n
    BY <1>3, <2>4
  <2>6. w \in WakePlaces(p, t, k) <=> l.rs = t /\ l.x = k /\ Valid(l)
    BY <2>1, <2>5 DEF WakePlaces
  <2>7. n \in InAt(st[p].odeps[j], H) <=> l \in H
    BY <2>1 DEF InAt
  <2> QED BY <2>3, <2>4, <2>6, <2>7
<1>5. \A w \in WakePlaces(p, t, k) : \E j \in Outs : \E n \in InAt(st[p].odeps[j], H) : w = <<p, j, n>>
  <2>1. \A w \in WakePlaces(p, t, k) : w \in LinkPlaces(st, {p})
    BY DEF WakePlaces
  <2> QED BY <1>3, <1>4, <2>1
<1>6. \A j \in Outs : InAt(st[p].odeps[j], H) \subseteq DOMAIN st[p].odeps[j]
  BY DEF InAt
<1>7. 0 \in Outs /\ 1 \in Outs /\ \A j \in Outs : j = 0 \/ j = 1
  BY DEF Outs
<1>8. PICK n0, n1 : n0 = NumIn(st[p].odeps[0], H) /\ n1 = NumIn(st[p].odeps[1], H)
  OBVIOUS
<1>9. n0 \in Nat /\ n1 \in Nat /\ Wires(st, p, H) = n0 + n1
  BY <1>2, <1>7, <1>8 DEF Wires
<1>10. \A j \in Outs : NumIn(st[p].odeps[j], H) = 0 => InAt(st[p].odeps[j], H) = {}
  BY <1>2, FS_EmptySet DEF NumIn
<1>11. ASSUME Wires(st, p, H) = 0 PROVE WakePlaces(p, t, k) = {}
  <2>1. n0 = 0 /\ n1 = 0
    BY <1>9, <1>11
  <2>2. \A j \in Outs : InAt(st[p].odeps[j], H) = {}
    BY <1>7, <1>8, <1>10, <2>1
  <2> QED BY <1>5, <2>2
<1>12. ASSUME Wires(st, p, H) = 1 PROVE Cardinality(WakePlaces(p, t, k)) = 1
  <2>1. \E j, i \in Outs : /\ NumIn(st[p].odeps[j], H) = 1 /\ NumIn(st[p].odeps[i], H) = 0
                           /\ \A o \in Outs : o = i \/ o = j
    <3>1. (n0 = 1 /\ n1 = 0) \/ (n0 = 0 /\ n1 = 1)
      BY <1>9, <1>12
    <3> QED BY <1>7, <1>8, <3>1
  <2>2. PICK j \in Outs, i \in Outs : /\ NumIn(st[p].odeps[j], H) = 1 /\ NumIn(st[p].odeps[i], H) = 0
                                      /\ \A o \in Outs : o = i \/ o = j
    BY <2>1
  <2>3. InAt(st[p].odeps[i], H) = {}
    BY <1>10, <2>2
  <2>4. \E n : InAt(st[p].odeps[j], H) = {n}
    BY <1>2, <2>2, FS_Singleton DEF NumIn
  <2>5. PICK n : InAt(st[p].odeps[j], H) = {n}
    BY <2>4
  <2>6. <<p, j, n>> \in WakePlaces(p, t, k)
    BY <1>4, <1>6, <2>5
  <2>7. \A w \in WakePlaces(p, t, k) : w = <<p, j, n>>
    BY <1>5, <2>2, <2>3, <2>5
  <2>8. WakePlaces(p, t, k) = {<<p, j, n>>}
    BY <2>6, <2>7
  <2> QED BY <2>8, FS_Singleton
<1> QED BY <1>11, <1>12

LEMMA WiredAwaits ==
    ASSUME RuuCore, Wired
    PROVE  OperandsAwaitProducers
<1> SUFFICES ASSUME NEW t \in Live, NEW k \in Ops, NEW producers,
                    producers = {p \in Live : st[p].seq = st[t].deps[k] /\ ~st[p].completed}
             PROVE  IF st[t].ready[k] THEN producers = {} /\ \A p \in Live : WakePlaces(p, t, k) = {}
                    ELSE \E p \in producers : /\ Cardinality(WakePlaces(p, t, k)) = 1
                                              /\ \A q \in Live \ {p} : WakePlaces(q, t, k) = {}
  BY DEF OperandsAwaitProducers, WakePlaces
<1>1. WiredAt(t, k) /\ Live \subseteq Stations
  BY LiveTyped DEF Wired
<1>2. PICK H : H = Wire(t, st[t].tag, k)
  OBVIOUS
<1>3. \A p \in Live : /\ Wires(st, p, H) = 0 => WakePlaces(p, t, k) = {}
                      /\ Wires(st, p, H) = 1 => Cardinality(WakePlaces(p, t, k)) = 1
  BY <1>2, PlacesCounted
<1>4. CASE st[t].ready[k]
  <2>1. NoneAwaited(st[t].deps[k], H)
    BY <1>1, <1>2, <1>4 DEF WiredAt
  <2> QED BY <1>1, <1>3, <1>4, <2>1 DEF NoneAwaited
<1>5. CASE ~st[t].ready[k]
  <2>1. PICK p : Awaits(p, st[t].deps[k], H)
    BY <1>1, <1>2, <1>5 DEF WiredAt
  <2>2. p \in producers /\ p \in Live /\ Wires(st, p, H) = 1 /\ \A q \in Live \ {p} : Wires(st, q, H) = 0
    BY <1>1, <2>1 DEF Awaits
  <2> QED BY <1>3, <1>5, <2>2
<1> QED BY <1>4, <1>5

\* In all runs that no sanity check stops, an operand is outstanding exactly while the instruction
\* that program order makes its producer is in the machine and incomplete, and that instruction
\* has one link to wake it: no wakeup is lost or comes twice, none comes from an instruction that
\* was squashed or another that uses its station, whatever completes before or after.
THEOREM RuuOperandsAwait == Spec => [](NoPanic => OperandsAwaitProducers)
<1> DEFINE Inv == NoPanic => Ordered /\ Wired
<1>1. Init => Inv
  BY InitOrdered, InitWired
<1>2. Inv /\ RuuInv /\ [Next]_vars => Inv'
  <2> SUFFICES ASSUME Inv, RuuInv, [Next]_vars, NoPanic' PROVE Ordered' /\ Wired'
    OBVIOUS
  <2>1. NoPanic
    BY StepRuns DEF vars, NoPanic
  <2>2. RuuCore /\ Ordered /\ Wired
    BY <2>1 DEF RuuInv
  <2> QED BY <2>2, OrderedStep, WiredStep
<1>3. RuuInv /\ Inv => (NoPanic => OperandsAwaitProducers)
  BY WiredAwaits DEF RuuInv
<1> QED BY <1>1, <1>2, <1>3, RuuInvariant, PTL DEF Spec

-----------------------------------------------------------------------------
(* No check fails, unless links or the array of stores run out.            *)

Sure == RuuCore /\ Scheduling /\ Wired

\* What may stop the simulator: two arrays of fixed size, the second only if the LSQ is longer.
Shortages ==
    {"out of rs links"} \cup (IF LSQ_size > MAX_STD_UNKNOWNS
                              THEN {"STD unknown array overflow, increase MAX_STD_UNKNOWNS"} ELSE {})
ChecksHold == panic = "" \/ panic \in Shortages

LEMMA SomeIn ==
    ASSUME NEW q \in Seq(LinkType), NEW H, NEW n \in 1..Len(q), q[n] \in H
    PROVE  NumIn(q, H) # 0
<1>1. IsFiniteSet(InAt(q, H))
  BY InAtFinite
<1>2. n \in InAt(q, H)
  <2>1. DOMAIN q = 1..Len(q)
    OBVIOUS
  <2> QED BY <2>1 DEF InAt
<1> QED BY <1>1, <1>2, FS_EmptySet DEF NumIn

\* The instruction that finishes has its operands and was issued, once.
LEMMA FinishedRan ==
    ASSUME Sure, event_queue # << >>, Valid(Head(event_queue))
    PROVE  /\ Finished \in Live /\ Finished \in Stations
           /\ OperandsReady(st[Finished]) /\ ~st[Finished].queued
           /\ st[Finished].issued /\ ~st[Finished].completed
<1>1. RuuCore /\ AllInPlace /\ Finished \in Live /\ Finished \in Stations
  BY FinishedIs DEF Sure, Scheduling
<1>2. event_queue \in Seq(LinkType) /\ Len(event_queue) \in Nat
  BY <1>1, CoreLists
<1>3. 1 \in 1..Len(event_queue) /\ event_queue[1] = Head(event_queue) /\ event_queue[1] \in LinkType
  BY <1>2
<1>4. event_queue[1] \in To(Finished, st[Finished].tag)
  BY <1>3 DEF To, Finished, Valid, ValidIn
<1>5. Running(Finished) # 0
  BY <1>2, <1>3, <1>4, SomeIn DEF Running
<1>6. st[Finished].queued \in BOOLEAN
  BY <1>1 DEF RuuCore, Typed, StationType
<1> QED BY <1>1, <1>5, <1>6 DEF AllInPlace, InPlace, FlagsSound

\* It is no part of what it squashes.
LEMMA FinishedStays ==
    ASSUME Sure, event_queue # << >>, Valid(Head(event_queue))
    PROVE  /\ Finished \notin Squashed
           /\ st[Finished].recover => ~InLSQ(st[Finished])
<1>1. RuuCore /\ Finished \in Live /\ Finished \in Stations /\ ~st[Finished].completed
  BY FinishedRan DEF Sure
<1>2. st[Finished].recover => ~InLSQ(st[Finished])
  BY <1>1 DEF RuuCore, KindsSound
<1>3. ASSUME st[Finished].recover PROVE spec_mode
  <2>1. PICK k \in 1..RUU_num : Finished = RuuLive[k]
    <3>1. \A k \in 1..LSQ_num : InLSQ(st[LsqLive[k]])
      BY <1>1 DEF RuuCore, Paired
    <3> QED BY <1>1, <1>2, <1>3, <3>1, LiveLists DEF RuuCore
  <2>2. Pends(st[RuuLive[k]])
    BY <1>1, <1>3, <2>1 DEF Pends
  <2> QED BY <1>1, <2>1, <2>2 DEF RuuCore, OnePath
<1>4. PICK o : CutAt(o)
  BY <1>1, <1>2, <1>3, SquashIs
<1> QED BY <1>1, <1>2, <1>4, CutLive

\* A valid link of the chain leads to an operand that is still outstanding.
LEMMA ChainAwaited ==
    ASSUME Sure, Finished \in Live, Finished \in Stations, Finished \notin Squashed,
           NEW i \in DOMAIN Chain, ValidIn(AfterSquash, Chain[i])
    PROVE  /\ Chain[i].x \in Ops /\ ~st[Chain[i].rs].ready[Chain[i].x]
           /\ AfterSquash[Chain[i].rs] = st[Chain[i].rs]
<1>1. RuuCore /\ AllInPlace /\ LinksToOps /\ Wired
  BY DEF Sure, Scheduling
<1>2. DOMAIN Chain = 1..Len(Chain) /\ Chain[i] \in AllLinks
  BY <1>1, ChainIs
<1>3. PICK l : l = Chain[i]
  OBVIOUS
<1>4. PICK j \in Outs : l \in ToSet(st[Finished].odeps[j])
  BY <1>1, <1>2, <1>3, ChainFrom
<1>5. l.x \in Ops
  BY <1>1, <1>4 DEF LinksToOps
<1>6. l.rs \in Live /\ l.rs \notin Squashed /\ l.rs \in Stations
  BY <1>1, <1>2, <1>3, ChainLive, LiveLists DEF RuuCore
<1>7. AfterSquash[l.rs] = st[l.rs]
  BY <1>1, <1>6, SquashedStations
<1>8. st[Finished] \in StationType
  BY <1>1 DEF RuuCore, Typed
<1>9. l \in LinkType
  <2>1. st[Finished].odeps[j] \in Seq(LinkType)
    BY <1>8, WiresNat
  <2> QED BY <1>4, <2>1 DEF ToSet
<1>10. PICK H : H = Wire(l.rs, st[l.rs].tag, l.x)
  OBVIOUS
<1>11. l \in H
  BY <1>3, <1>7, <1>9, <1>10 DEF Wire, ValidIn
<1>12. Wires(st, Finished, H) \in Nat /\ Wires(st, Finished, H) >= 1
  BY <1>4, <1>8, <1>11, WiresNat
<1>13. WiredAt(l.rs, l.x)
  BY <1>1, <1>5, <1>6 DEF Wired
<1>14. ~st[l.rs].ready[l.x]
  BY <1>10, <1>12, <1>13 DEF WiredAt, NoneAwaited
<1> QED BY <1>3, <1>5, <1>7, <1>14

LEMMA WritebackHolds ==
    ASSUME Sure, Writeback
    PROVE  panic' = ""
<1>1. /\ event_queue # << >> /\ Valid(Head(event_queue)) /\ RuuCore /\ AllInPlace /\ LinksToOps
  BY DEF Writeback, Due, Sure, Scheduling
<1>2. /\ Finished \in Live /\ Finished \in Stations /\ Finished \notin Squashed
      /\ OperandsReady(st[Finished]) /\ ~st[Finished].queued
      /\ st[Finished].issued /\ ~st[Finished].completed
      /\ ~(st[Finished].recover /\ InLSQ(st[Finished]))
  BY <1>1, FinishedRan, FinishedStays
<1>3. panic' \notin QueueChecks
  BY <1>1, WritebackTrusted
<1>4. ~\E i \in DOMAIN Chain : ValidIn(AfterSquash, Chain[i]) /\ AfterSquash[Chain[i].rs].ready[Chain[i].x]
  BY <1>2, ChainAwaited
<1>5. ~\E t \in ToSet(Woken) : st[t].queued
  <2> SUFFICES ASSUME NEW t \in ToSet(Woken) PROVE ~st[t].queued
    OBVIOUS
  <2>1. DOMAIN Chain = 1..Len(Chain) /\ \A n \in 1..Len(Chain) : Chain[n] \in AllLinks
    BY <1>1, <1>2, ChainIs
  <2>2. PICK i \in DOMAIN Chain : Leads(i, t)
    BY <1>1, <1>2, <2>1, WokenOnce
  <2>3. t \in Live
    BY <1>1, <2>1, <2>2, ChainLive DEF Leads
  <2>4. Chain[i].x \in Ops /\ ~st[t].ready[Chain[i].x]
    BY <1>2, <2>2, ChainAwaited DEF Leads
  <2>5. ~OperandsReady(st[t])
    BY <2>4 DEF OperandsReady
  <2> QED BY <1>1, <2>3, <2>5 DEF AllInPlace, InPlace, FlagsSound
<1>6. /\ panic = ""
      /\ panic' =
            IF ~OperandsReady(st[Finished]) \/ st[Finished].queued \/ ~st[Finished].issued \/ st[Finished].completed
                THEN "inst completed and !ready, !issued, or completed"
            ELSE IF st[Finished].recover /\ InLSQ(st[Finished])
                THEN "mis-predicted load or store?!?!?"
            ELSE IF st[Finished].recover /\ ~spec_mode
                THEN "cannot recover unless in speculative mode"
            ELSE IF RuuAt(RUU_head) \in Squashed
                THEN "RUU head and tail broken"
            ELSE IF Cardinality(Squashed \cap LsqIds) > LSQ_num
                THEN "RUU and LSQ out of sync"
            ELSE IF \E i \in DOMAIN Chain : ValidIn(AfterSquash, Chain[i]) /\ AfterSquash[Chain[i].rs].ready[Chain[i].x]
                THEN "output dependence already satisfied"
            ELSE IF \E t \in ToSet(Woken) : st[t].queued
                THEN "node is already queued"
            ELSE panic
  BY DEF Writeback, Due, Finished, Squashed, AfterSquash, Produced, Chain, Wakes, AfterWake, LastLinks, Woken
<1>7. panic' \in {"cannot recover unless in speculative mode", "RUU head and tail broken",
                  "RUU and LSQ out of sync", ""}
  BY <1>2, <1>4, <1>5, <1>6
<1> QED BY <1>3, <1>7 DEF QueueChecks

LEMMA CommitHolds ==
    ASSUME Sure, CommitHead
    PROVE  panic' = ""
<1>1. panic' \notin QueueChecks
  BY CommitTrusted DEF Sure
<1>2. panic' \in {"RUU out of sync with LSQ", "retired instruction has odeps", ""}
  BY DEF CommitHead
<1> QED BY <1>1, <1>2 DEF QueueChecks

\* The instruction ruu_issue has come to waits for a unit, with its operands.
LEMMA AtScanWaits ==
    ASSUME Sure, Issuing, Valid(Head(scan))
    PROVE  ~IssuePanic /\ AtScan \in Stations
<1>1. RuuCore /\ AllInPlace
  BY DEF Sure, Scheduling
<1>2. scan # << >> /\ scan \in Seq(LinkType) /\ Len(scan) \in Nat /\ ready_queue \in Seq(LinkType)
  BY <1>1, CoreLists DEF Issuing
<1>3. AtScan \in Live /\ AtScan \in Stations
  BY <1>1, <1>2, ScanHead, LiveLists DEF RuuCore
<1>4. 1 \in 1..Len(scan) /\ scan[1] = Head(scan) /\ scan[1] \in LinkType
  BY <1>2
<1>5. scan[1] \in To(AtScan, st[AtScan].tag)
  BY <1>4 DEF To, AtScan, Valid, ValidIn
<1>6. PICK H : H = To(AtScan, st[AtScan].tag)
  OBVIOUS
<1>7. NumIn(scan, H) # 0 /\ NumIn(scan, H) \in Nat /\ NumIn(ready_queue, H) \in Nat
  BY <1>2, <1>4, <1>5, <1>6, SomeIn, InAtFinite
<1>8. Waiting(AtScan) # 0
  BY <1>6, <1>7 DEF Waiting
<1>9. st[AtScan].queued
  BY <1>1, <1>3, <1>8 DEF AllInPlace, InPlace
<1> QED BY <1>1, <1>3, <1>9 DEF AllInPlace, InPlace, FlagsSound, IssuePanic

LEMMA IssueHolds ==
    ASSUME Sure, Issue, panic = ""
    PROVE  panic' = "" \/ panic' = "out of rs links"
<1>1. CASE DropStaleReady \/ IssueDone
  BY <1>1 DEF DropStaleReady, IssueDone
<1>2. CASE IssueStore
  <2>1. ~IssuePanic /\ AtScan \in Stations
    BY <1>2, AtScanWaits DEF IssueStore, MayIssue
  <2>2. \A k \in Outs : st[AtScan].onames[k] = NA
    BY <1>2, <2>1 DEF Sure, RuuCore, KindsSound, IssueStore, IsStore
  <2>3. ~st[AtScan].recover
    BY <1>2, <2>1 DEF Sure, RuuCore, KindsSound, IssueStore, IsStore, InLSQ
  <2> QED BY <1>2, <2>1, <2>2, <2>3 DEF IssueStore
<1>3. ASSUME NEW lat, IssueToUnit(lat) PROVE panic' = "" \/ panic' = "out of rs links"
  <2>1. ~IssuePanic
    BY <1>3, AtScanWaits DEF IssueToUnit, MayIssue
  <2> QED BY <1>3, <2>1 DEF IssueToUnit
<1>4. CASE Requeue
  <2>1. ~IssuePanic
    BY <1>4, AtScanWaits DEF Requeue
  <2> QED BY <1>4, <2>1 DEF Requeue
<1> QED BY <1>1, <1>2, <1>3, <1>4 DEF Issue

\* The stores lsq_refresh remembers are in the LSQ.
LEMMA RefreshHolds ==
    ASSUME Sure, LsqRefresh
    PROVE  panic' = "" \/ panic' \in Shortages
<1> DEFINE S == {q \in Searched : StoreUnknown(q)}
<1>1. LSQ_num \in Nat /\ LSQ_num <= LSQ_size /\ LSQ_size \in Nat
  BY SizeAssumption DEF Sure, RuuCore, Rings, Ring
<1>2. S \subseteq 1..LSQ_num
  BY DEF Searched
<1>3. Cardinality(S) \in Nat /\ Cardinality(S) <= LSQ_num
  <2> HIDE DEF S
  <2>1. IsFiniteSet(1..LSQ_num) /\ Cardinality(1..LSQ_num) = LSQ_num
    BY <1>1, FS_Interval
  <2> QED BY <1>2, <2>1, FS_Subset, FS_CardinalityType
<1>4. panic' = IF Cardinality(S) > MAX_STD_UNKNOWNS
                   THEN "STD unknown array overflow, increase MAX_STD_UNKNOWNS"
               ELSE IF panic' = "out of rs links" THEN panic' ELSE ""
  BY DEF LsqRefresh
<1>5. Cardinality(S) > MAX_STD_UNKNOWNS => LSQ_size > MAX_STD_UNKNOWNS
  <2> HIDE DEF S
  <2> QED BY <1>1, <1>3, SizeAssumption
<1> QED BY <1>4, <1>5 DEF Shortages

LEMMA DispatchHolds ==
    ASSUME Sure, Dispatch, panic = ""
    PROVE  panic' = "" \/ panic' = "out of rs links"
<1>1. CASE DispatchDone
  BY <1>1 DEF DispatchDone
<1>2. ASSUME NEW i, NEW m, DispatchOp(i, m) PROVE panic' = "" \/ panic' = "out of rs links"
  <2>1. panic' \notin QueueChecks
    BY <1>2, OpTrusted DEF Sure
  <2>2. panic' \in {"drained and speculative", "out of rs links", ""}
    BY <1>2 DEF DispatchOp
  <2> QED BY <2>1, <2>2 DEF QueueChecks
<1>3. ASSUME NEW i, DispatchMem(i) PROVE panic' = "" \/ panic' = "out of rs links"
  BY <1>3 DEF DispatchMem
<1> QED BY <1>1, <1>2, <1>3 DEF Dispatch

LEMMA ChecksStep ==
    ASSUME Sure, Next, panic = ""
    PROVE  ChecksHold'
<1>1. "out of rs links" \in Shortages /\ Shortages' = Shortages
  BY DEF Shortages
<1>2. CASE CommitHead
  BY <1>2, CommitHolds DEF ChecksHold
<1>3. CASE Writeback
  BY <1>3, WritebackHolds DEF ChecksHold
<1>4. CASE CommitDone \/ DropStaleEvent \/ WritebackDone \/ Tick
  BY <1>4 DEF CommitDone, DropStaleEvent, WritebackDone, Tick, ChecksHold
<1>5. CASE LsqRefresh
  BY <1>1, <1>5, RefreshHolds DEF ChecksHold
<1>6. CASE Issue
  BY <1>1, <1>6, IssueHolds DEF ChecksHold
<1>7. CASE Dispatch
  BY <1>1, <1>7, DispatchHolds DEF ChecksHold
<1> QED BY <1>2, <1>3, <1>4, <1>5, <1>6, <1>7 DEF Next, Commit, WritebackStage

\* No sanity check of ruu_commit, ruu_recover, ruu_writeback, readyq_enqueue, ruu_issue or
\* ruu_dispatch ever stops the simulator, in whatever order instructions complete and are squashed:
\* only links may run out, and, when the LSQ is longer than MAX_STD_UNKNOWNS, the array of
\* lsq_refresh for stores that lack their data.
THEOREM RuuChecksHold == Spec => []ChecksHold
<1> DEFINE Inv == NoPanic => Scheduling /\ Ordered /\ Wired
<1>1. Init => Inv /\ ChecksHold
  BY InitScheduling, InitOrdered, InitWired DEF Init, ChecksHold
<1>2. Inv /\ ChecksHold /\ RuuInv /\ [Next]_vars => Inv' /\ ChecksHold'
  <2> SUFFICES ASSUME Inv, ChecksHold, RuuInv, [Next]_vars PROVE Inv' /\ ChecksHold'
    OBVIOUS
  <2>1. Inv'
    <3> SUFFICES ASSUME NoPanic' PROVE Scheduling' /\ Ordered' /\ Wired'
      OBVIOUS
    <3>1. NoPanic
      BY StepRuns DEF vars, NoPanic
    <3>2. RuuCore /\ Scheduling /\ Ordered /\ Wired
      BY <3>1 DEF RuuInv
    <3> QED BY <3>2, SchedulingStep, OrderedStep, WiredStep
  <2>2. ASSUME UNCHANGED vars PROVE ChecksHold'
    BY <2>2 DEF vars, ChecksHold, Shortages
  <2>3. ASSUME Next PROVE ChecksHold'
    <3>1. panic = "" /\ RuuCore /\ Scheduling /\ Wired
      BY <2>3, StepRuns DEF RuuInv, NoPanic
    <3> QED BY <2>3, <3>1, ChecksStep DEF Sure
  <2> QED BY <2>1, <2>2, <2>3
<1> QED BY <1>1, <1>2, RuuInvariant, PTL DEF Spec

=============================================================================
