----------------------------- MODULE FlightProofs -----------------------------
(***************************************************************************)
(* The predictor under the out-of-order pipeline, for every update policy  *)
(* and queues of any size: its state stays well typed and its BTB whole,   *)
(* the branches in flight implement Window, and have its recovery point.   *)
(***************************************************************************)
EXTENDS BPredFlight, BPredProofs, ListLemmas

FlightInv == FlightTypeOK /\ LruChainOK /\ BtbNoDuplicate

LEMMA DestinationsTyped ==
    ASSUME NEW b \in Branches
    PROVE  Destinations(b) \subseteq Nat /\ Fallthrough(b) \in Nat
BY BranchFields, Sizes DEF Destinations, Fallthrough

LEMMA RecoverIdxTyped == FlightInv => RecoverIdx \in {0} \cup RasIds
BY DEF RecoverIdx, FlightInv, FlightTypeOK, BpredTypeOK

\* A training call, at whichever stage, keeps the predictor's part of the invariant.
LEMMA UpdateInv ==
    ASSUME NEW e \in Dispatched, BpredInv,
           Train(e.b, e.next, e.next # Fallthrough(e.b), e.pred = e.next, e.upd),
           \E names : Count(names)
    PROVE  /\ ctr' \in CtrType
           /\ shiftregs' \in [Bits(L1Bits) -> Bits(HistBits)]
           /\ btb' \in [Bits(SetBits) -> BtbSet]
           /\ LruChainOK' /\ BtbNoDuplicate'
           /\ stats' \in [StatNames -> Nat]
<1> DEFINE taken == e.next # Fallthrough(e.b)
           correct == e.pred = e.next
<1>1. e.b \in Branches /\ e.next \in Nat /\ taken \in BOOLEAN /\ correct \in BOOLEAN
  BY DEF Dispatched
<1>2. stats' \in [StatNames -> Nat]
  BY CountTyped DEF BpredInv
<1> HIDE DEF taken, correct
<1>3. /\ ctr' \in CtrType
      /\ shiftregs' \in [Bits(L1Bits) -> Bits(HistBits)]
      /\ btb' \in [Bits(SetBits) -> BtbSet]
      /\ LruChainOK' /\ BtbNoDuplicate'
  BY <1>1, TrainInv DEF taken, correct
<1> QED BY <1>2, <1>3

LEMMA PartsOfInv ==
    FlightInv => /\ BpredInv
                 /\ ifq \in Seq(Fetched) /\ Len(ifq) \in Nat /\ DOMAIN ifq = 1..Len(ifq)
                 /\ ruu \in Seq(Dispatched) /\ Len(ruu) \in Nat /\ DOMAIN ruu = 1..Len(ruu)
                 /\ IfqSize \in Nat \ {0} /\ RuuSize \in Nat \ {0}
BY LenProperties, FlightAssumption DEF FlightInv, FlightTypeOK, BpredInv

\* History counters.
LEMMA TallyTyped == ASSUME NEW n \in Nat PROVE Tally(n) \in Nat
BY DEF Tally

LEMMA FetchInv ==
    ASSUME NEW b \in Branches, FlightInv, ruu_fetch(b), UNCHANGED bpred_spec_update
    PROVE  FlightInv'
<1> DEFINE upd == DirUpdate(b)
           p == Predicted(b, 0, upd)
           f == [b |-> b, upd |-> upd, idx |-> RecoverIdx,
                 pred |-> IF p = 0 THEN Fallthrough(b) ELSE p]
<1>1. upd \in DirUpdates /\ p \in Nat
  BY PartsOfInv, DirUpdateTyped, PredictedTyped DEF BpredInv
<1>2. RecoverIdx \in {0} \cup RasIds /\ Fallthrough(b) \in Nat
  BY RecoverIdxTyped, DestinationsTyped
<1> HIDE DEF upd, p
<1>3. f \in Fetched
  BY <1>1, <1>2 DEF Fetched
<1>4. ifq' = Append(ifq, f) /\ Len(ifq) < IfqSize
  BY DEF ruu_fetch, upd, p
<1> HIDE DEF f
<1>5. ifq' \in Seq(Fetched) /\ Len(ifq') <= IfqSize
  BY <1>3, <1>4, PartsOfInv, AppendProperties
<1>6. /\ PopPush(b) /\ Count(LookupStats(b))
      /\ UNCHANGED <<ctr, shiftregs, btb, ruu, spec_mode, path_tos, squashed, trained>>
  BY DEF ruu_fetch, bpred_lookup
<1>7. /\ ras' \in [RasIds -> Nat] /\ tos' \in Int
      /\ Stateful /\ RasSize > 0 => tos' \in RasIds
      /\ stats' \in [StatNames -> Nat]
  BY <1>6, PartsOfInv, PopPushTyped, CountTyped DEF BpredInv
<1> QED BY <1>5, <1>6, <1>7 DEF FlightInv, FlightTypeOK, BpredTypeOK, LruChainOK, ChainOf, BtbNoDuplicate

\* What a stage that trains the tables or leaves them alone does to the predictor.
LEMMA StageInv ==
    ASSUME NEW e \in Dispatched, FlightInv,
           Update(e) \/ UNCHANGED bpredVars
    PROVE  BpredInv'
<1>1. CASE Update(e)
  <2>1. /\ Train(e.b, e.next, e.next # Fallthrough(e.b), e.pred = e.next, e.upd)
        /\ \E names : Count(names)
        /\ UNCHANGED <<ras, tos>>
    BY <1>1 DEF Update, bpred_update
  <2> QED BY <2>1, UpdateInv, PartsOfInv DEF BpredInv, BpredTypeOK, BtbSet
<1>2. CASE UNCHANGED bpredVars
  BY <1>2, PartsOfInv DEF bpredVars, BpredInv, BpredTypeOK, LruChainOK, ChainOf, BtbNoDuplicate
<1> QED BY <1>1, <1>2

LEMMA DispatchInv ==
    ASSUME FlightInv, ruu_dispatch, UNCHANGED bpred_spec_update
    PROVE  FlightInv'
<1> DEFINE f == Head(ifq)
           redirect == Misfetched(f)
<1>1. ifq # << >> /\ f \in Fetched
  BY PartsOfInv, HeadTailProperties DEF ruu_dispatch
<1>2. PICK next \in Destinations(f.b) :
        LET mispredict == f.pred # next /\ ~redirect /\ ~spec_mode
            e == [b |-> f.b, upd |-> f.upd, pred |-> f.pred, idx |-> f.idx, next |-> next,
                  spec |-> spec_mode, recover |-> mispredict, done |-> FALSE]
            train == TrainsAtDispatch
        IN /\ ruu' = Append(ruu, e)
           /\ ifq' = IF redirect THEN << >> ELSE Tail(ifq)
           /\ spec_mode' = (spec_mode \/ mispredict)
           /\ squashed' = squashed + Tally(IF redirect THEN Len(ifq) - 1 ELSE 0)
           /\ trained' = trained + Tally(IF train THEN 1 ELSE 0)
           /\ path_tos' = IF spec_mode THEN path_tos
                          ELSE IF Pops(f.b) THEN (path_tos + RasSize - 1) % RasSize
                          ELSE IF Pushes(f.b) THEN (path_tos + 1) % RasSize ELSE path_tos
           /\ IF train THEN Update(e) ELSE UNCHANGED bpredVars
  BY DEF ruu_dispatch, Mispredicted
<1> DEFINE mispredict == f.pred # next /\ ~redirect /\ ~spec_mode
           e == [b |-> f.b, upd |-> f.upd, pred |-> f.pred, idx |-> f.idx, next |-> next,
                 spec |-> spec_mode, recover |-> mispredict, done |-> FALSE]
<1>3. next \in Nat /\ mispredict \in BOOLEAN /\ spec_mode \in BOOLEAN
  BY <1>1, DestinationsTyped DEF Fetched, FlightInv, FlightTypeOK
<1>4. e \in Dispatched
  BY <1>1, <1>3 DEF Fetched, Dispatched
<1>5. /\ ruu' = Append(ruu, e)
      /\ ifq' = (IF redirect THEN << >> ELSE Tail(ifq))
      /\ spec_mode' = (spec_mode \/ mispredict)
      /\ Update(e) \/ UNCHANGED bpredVars
      /\ Len(ruu) < RuuSize
  BY <1>2 DEF ruu_dispatch
<1>6. squashed' \in Nat /\ trained' \in Nat /\ path_tos' \in Int
  <2>1. Len(ifq) - 1 \in Nat
    BY <1>1, PartsOfInv, EmptySeq
  <2>2. path_tos' \in Int
    <3>1. path_tos \in Int /\ RasSize \in Nat
      BY Sizes DEF FlightInv, FlightTypeOK
    <3>2. Pops(f.b) \/ Pushes(f.b) => RasSize > 0
      BY DEF Pops, Pushes
    <3>3. RasSize > 0 => (path_tos + RasSize - 1) % RasSize \in Int /\ (path_tos + 1) % RasSize \in Int
      BY <3>1
    <3> QED BY <1>2, <3>1, <3>2, <3>3
  <2>3. Tally(IF redirect THEN Len(ifq) - 1 ELSE 0) \in Nat /\ Tally(1) \in Nat /\ Tally(0) \in Nat
    BY <2>1, TallyTyped
  <2>4. squashed \in Nat /\ trained \in Nat
    BY DEF FlightInv, FlightTypeOK
  <2>5. /\ squashed' = squashed + Tally(IF redirect THEN Len(ifq) - 1 ELSE 0)
        /\ trained' = trained + Tally(1) \/ trained' = trained + Tally(0)
    BY <1>2
  <2> HIDE DEF redirect
  <2> QED BY <2>2, <2>3, <2>4, <2>5
<1> HIDE DEF e, mispredict, redirect
<1>7. BpredInv'
  BY <1>4, <1>5, StageInv
<1>8. ruu' \in Seq(Dispatched) /\ Len(ruu') <= RuuSize
  BY <1>4, <1>5, PartsOfInv, AppendProperties
<1>9. ifq' \in Seq(Fetched) /\ Len(ifq') <= IfqSize
  <2>1. Tail(ifq) \in Seq(Fetched) /\ Len(Tail(ifq)) = Len(ifq) - 1 /\ Len(ifq) <= IfqSize
    BY <1>1, PartsOfInv, HeadTailProperties DEF FlightInv, FlightTypeOK
  <2> QED BY <1>5, <2>1, PartsOfInv, EmptySeq
<1>10. spec_mode' \in BOOLEAN
  BY <1>3, <1>5
<1> QED BY <1>6, <1>7, <1>8, <1>9, <1>10 DEF FlightInv, FlightTypeOK, BpredInv

LEMMA UntrainedTyped ==
    ASSUME NEW s \in Seq(Dispatched)
    PROVE  Untrained(s) \in Nat
<1>1. IsFiniteSet(DOMAIN s)
  <2>1. DOMAIN s = 1..Len(s) /\ Len(s) \in Nat
    BY LenProperties
  <2> QED BY <2>1, FS_Interval
<1> DEFINE S == {j \in DOMAIN s : CASE bpred_spec_update = "CT" -> TRUE
                                     [] bpred_spec_update = "WB" -> ~s[j].done
                                     [] OTHER -> s[j].spec}
<1>2. S \in SUBSET (DOMAIN s)
  OBVIOUS
<1> HIDE DEF S
<1>3. Cardinality(S) \in Nat
  BY <1>1, <1>2, FS_Subset, FS_CardinalityType
<1> QED BY <1>3 DEF Untrained, S

LEMMA KeptTyped ==
    ASSUME NEW i \in DOMAIN ruu, FlightInv
    PROVE  /\ i \in 1..Len(ruu) /\ ruu[i] \in Dispatched
           /\ Kept(i) \in Seq(Dispatched) /\ i \in 1..Len(Kept(i)) /\ Len(Kept(i)) <= Len(ruu)
           /\ Len(Kept(i)) = IF ruu[i].recover THEN i ELSE Len(ruu)
           /\ \A j \in 1..Len(Kept(i)) : Kept(i)[j] = ruu[j]
           /\ Lost(i) \in Seq(Dispatched)
<1>1. /\ i \in 1..Len(ruu) /\ ruu \in Seq(Dispatched) /\ Len(ruu) \in Nat
      /\ \A j \in 1..Len(ruu) : ruu[j] \in Dispatched
  BY PartsOfInv, ElementOfSeq
<1>2. CASE ruu[i].recover
  <2>1. (\A j \in 1..i : ruu[j] \in Dispatched) /\ (\A j \in i + 1..Len(ruu) : ruu[j] \in Dispatched)
    BY <1>1
  <2>2. /\ SubSeq(ruu, 1, i) \in Seq(Dispatched) /\ Len(SubSeq(ruu, 1, i)) = i
        /\ \A j \in 1..i : SubSeq(ruu, 1, i)[j] = ruu[j]
    BY <1>1, <2>1, SubSeqProperties
  <2>3. SubSeq(ruu, i + 1, Len(ruu)) \in Seq(Dispatched)
    BY <1>1, <2>1, SubSeqProperties
  <2> QED BY <1>1, <1>2, <2>2, <2>3 DEF Kept, Lost
<1>3. CASE ~ruu[i].recover
  BY <1>1, <1>3, EmptySeq DEF Kept, Lost
<1> QED BY <1>2, <1>3

\* The RUU after a writeback, entry by entry.
LEMMA WrittenBack ==
    ASSUME NEW i \in DOMAIN ruu, FlightInv, ruu_writeback(i)
    PROVE  /\ ruu' \in Seq(Dispatched) /\ Len(ruu') = Len(Kept(i))
           /\ \A j \in 1..Len(ruu') :
                 ruu'[j] = IF j = i THEN [ruu[i] EXCEPT !.done = TRUE] ELSE ruu[j]
<1>1. [ruu[i] EXCEPT !.done = TRUE] \in Dispatched
  BY KeptTyped DEF Dispatched
<1>2. ruu' = [Kept(i) EXCEPT ![i] = [ruu[i] EXCEPT !.done = TRUE]]
  <2>1. ruu' = [Kept(i) EXCEPT ![i].done = TRUE]
    BY DEF ruu_writeback
  <2>2. Kept(i)[i] = ruu[i]
    BY KeptTyped
  <2> QED BY <2>1, <2>2
<1> QED BY <1>1, <1>2, KeptTyped, ExceptSeq

LEMMA WritebackInv ==
    ASSUME NEW i \in DOMAIN ruu, FlightInv, ruu_writeback(i), UNCHANGED bpred_spec_update
    PROVE  FlightInv'
<1> DEFINE e == ruu[i]
<1>1. e \in Dispatched /\ e.idx \in {0} \cup RasIds /\ e.recover \in BOOLEAN
  BY KeptTyped DEF Dispatched
<1>2. /\ ifq' = (IF e.recover THEN << >> ELSE ifq)
      /\ spec_mode' = (spec_mode /\ ~e.recover)
      /\ squashed' = squashed + Tally(IF e.recover THEN Len(ifq) + Untrained(Lost(i)) ELSE 0)
      /\ trained' = trained + Tally(1) \/ trained' = trained + Tally(0)
      /\ tos' = (IF e.recover THEN e.idx ELSE tos)
      /\ path_tos' = path_tos /\ ras' = ras
  BY DEF ruu_writeback
<1>3. \/ UNCHANGED <<ctr, shiftregs, btb, stats>>
      \/ /\ Train(e.b, e.next, e.next # Fallthrough(e.b), e.pred = e.next, e.upd)
         /\ \E names : Count(names)
  BY DEF ruu_writeback
<1> HIDE DEF e
<1>4. /\ ctr' \in CtrType
      /\ shiftregs' \in [Bits(L1Bits) -> Bits(HistBits)]
      /\ btb' \in [Bits(SetBits) -> BtbSet]
      /\ LruChainOK' /\ BtbNoDuplicate'
      /\ stats' \in [StatNames -> Nat]
  <2>1. CASE UNCHANGED <<ctr, shiftregs, btb, stats>>
    BY <2>1, PartsOfInv DEF BpredInv, BpredTypeOK, LruChainOK, ChainOf, BtbNoDuplicate, BtbSet
  <2>2. CASE ~UNCHANGED <<ctr, shiftregs, btb, stats>>
    BY <1>1, <1>3, <2>2, UpdateInv, PartsOfInv
  <2> QED BY <2>1, <2>2
<1>5. tos' \in Int /\ (Stateful /\ RasSize > 0 => tos' \in RasIds) /\ ras' \in [RasIds -> Nat]
  <2>1. /\ tos \in Int /\ (Stateful /\ RasSize > 0 => tos \in RasIds) /\ ras \in [RasIds -> Nat]
    BY PartsOfInv DEF BpredInv, BpredTypeOK
  <2>2. RasIds \subseteq Int /\ (RasSize > 0 => 0 \in RasIds)
    BY Sizes DEF RasIds
  <2>3. e.idx \in Int /\ (RasSize > 0 => e.idx \in RasIds)
    <3>1. e.idx = 0 \/ e.idx \in RasIds
      BY <1>1
    <3>2. CASE e.idx = 0
      BY <2>2, <3>2
    <3>3. CASE e.idx \in RasIds
      BY <2>2, <3>3, Zenon
    <3> QED BY <3>1, <3>2, <3>3
  <2>4. CASE e.recover
    BY <1>2, <2>1, <2>3, <2>4
  <2>5. CASE ~e.recover
    BY <1>2, <2>1, <2>5
  <2> QED BY <2>4, <2>5
<1>6. squashed' \in Nat /\ trained' \in Nat /\ path_tos' \in Int
  <2>1. squashed \in Nat /\ trained \in Nat /\ path_tos \in Int
    BY DEF FlightInv, FlightTypeOK
  <2>2. Untrained(Lost(i)) \in Nat
    BY KeptTyped, UntrainedTyped
  <2>3. Tally(IF e.recover THEN Len(ifq) + Untrained(Lost(i)) ELSE 0) \in Nat
    <3> DEFINE n == IF e.recover THEN Len(ifq) + Untrained(Lost(i)) ELSE 0
    <3>1. n \in Nat
      BY <2>2, PartsOfInv
    <3> HIDE DEF n
    <3>2. Tally(n) \in Nat
      BY <3>1, TallyTyped
    <3> QED BY <3>2 DEF n
  <2>4. Tally(1) \in Nat /\ Tally(0) \in Nat
    BY TallyTyped
  <2> QED BY <1>2, <2>1, <2>3, <2>4
<1>7. ruu' \in Seq(Dispatched) /\ Len(ruu') <= RuuSize
  <2>1. Len(ruu') <= Len(ruu) /\ Len(ruu) <= RuuSize /\ Len(ruu') \in Nat /\ Len(ruu) \in Nat
    BY WrittenBack, KeptTyped, PartsOfInv, LenProperties DEF FlightInv, FlightTypeOK
  <2>2. RuuSize \in Nat /\ Len(ruu') <= RuuSize
    BY <2>1, PartsOfInv
  <2> QED BY <2>2, WrittenBack
<1>8. ifq' \in Seq(Fetched) /\ Len(ifq') <= IfqSize
  BY <1>2, PartsOfInv, EmptySeq DEF FlightInv, FlightTypeOK
<1>9. spec_mode' \in BOOLEAN
  BY <1>1, <1>2 DEF FlightInv, FlightTypeOK
<1> QED BY <1>4, <1>5, <1>6, <1>7, <1>8, <1>9 DEF FlightInv, FlightTypeOK, BpredTypeOK, BtbSet

LEMMA CommitInv ==
    ASSUME FlightInv, ruu_commit, UNCHANGED bpred_spec_update
    PROVE  FlightInv'
<1>1. ruu # << >> /\ Head(ruu) \in Dispatched /\ Tail(ruu) \in Seq(Dispatched)
      /\ Len(Tail(ruu)) = Len(ruu) - 1
  BY PartsOfInv, HeadTailProperties DEF ruu_commit, MayCommit
<1>2. /\ ruu' = Tail(ruu)
      /\ trained' = trained + Tally(1) \/ trained' = trained + Tally(0)
      /\ Update(Head(ruu)) \/ UNCHANGED bpredVars
      /\ UNCHANGED <<ifq, spec_mode, path_tos, squashed>>
  BY DEF ruu_commit, MayCommit
<1>3. BpredInv'
  BY <1>1, <1>2, StageInv
<1>4. trained' \in Nat
  <2>1. Tally(1) \in Nat /\ Tally(0) \in Nat /\ trained \in Nat
    BY TallyTyped DEF FlightInv, FlightTypeOK
  <2> QED BY <1>2, <2>1
<1>5. ruu' \in Seq(Dispatched) /\ Len(ruu') <= RuuSize
  BY <1>1, <1>2, PartsOfInv DEF FlightInv, FlightTypeOK
<1> QED BY <1>2, <1>3, <1>4, <1>5 DEF FlightInv, FlightTypeOK, BpredInv

\* Tables, stack, queues and histories keep their types; BTB sets keep one chain and distinct
\* entries although updates come out of order and some of their lookups are squashed.
THEOREM FlightInvariant == FlightSpec => []FlightInv
<1>1. FlightInit => FlightInv
  <2> SUFFICES ASSUME FlightInit PROVE FlightInv
    OBVIOUS
  <2>1. BpredInv /\ path_tos \in Int
    BY InitInv DEF FlightInit, BpredInv, BpredTypeOK
  <2>2. ifq \in Seq(Fetched) /\ ruu \in Seq(Dispatched) /\ Len(ifq) <= IfqSize /\ Len(ruu) <= RuuSize
    BY EmptySeq, FlightAssumption DEF FlightInit
  <2> QED BY <2>1, <2>2 DEF FlightInit, FlightInv, FlightTypeOK, BpredInv
<1>2. FlightInv /\ [FlightNext]_flightVars => FlightInv'
  <2> SUFFICES ASSUME FlightInv, [FlightNext]_flightVars PROVE FlightInv'
    OBVIOUS
  <2>1. CASE FlightNext
    BY <2>1, FetchInv, DispatchInv, WritebackInv, CommitInv DEF FlightNext
  <2>2. CASE UNCHANGED flightVars
    BY <2>2 DEF flightVars, bpredVars, pipelineVars, FlightInv, FlightTypeOK, BpredTypeOK, LruChainOK,
                ChainOf, BtbNoDuplicate
  <2> QED BY <2>1, <2>2
<1> QED BY <1>1, <1>2, PTL DEF FlightSpec

\* The queues, the tables and the histories keep their types, under every update policy.
THEOREM FlightTyping == FlightSpec => []FlightTypeOK
BY FlightInvariant, PTL DEF FlightInv

\* No branch ever has two BTB entries, and the LRU links of every set stay one chain of all its
\* ways, however late and out of order the tables are trained.
THEOREM FlightWellFormed == FlightSpec => []BtbWellFormed
BY FlightInvariant, PTL DEF FlightInv, BtbWellFormed

-----------------------------------------------------------------------------
(* The refinement of Window.                                               *)

LEMMA SlotsTyped ==
    ASSUME NEW q \in Seq(Dispatched)
    PROVE  /\ Slots(q) \in Seq(Win!Entry) /\ Len(Slots(q)) = Len(q)
           /\ DOMAIN Slots(q) = 1..Len(q)
           /\ \A i \in 1..Len(q) : Slots(q)[i] = Slot(q[i]) /\ Slot(q[i]) \in Win!Entry
<1>1. Len(q) \in Nat /\ DOMAIN q = 1..Len(q) /\ \A i \in 1..Len(q) : q[i] \in Dispatched
  BY LenProperties, ElementOfSeq
<1>2. \A e \in Dispatched : Slot(e) \in Win!Entry
  BY DEF Slot, Win!Entry, Dispatched
<1>3. Slots(q) \in [1..Len(q) -> Win!Entry] /\ \A i \in 1..Len(q) : Slots(q)[i] = Slot(q[i])
  BY <1>1, <1>2 DEF Slots
<1> HIDE DEF Slots
<1>4. Slots(q) \in Seq(Win!Entry)
  BY <1>1, <1>3
<1>5. Len(Slots(q)) = Len(q)
  BY <1>1, <1>3, <1>4, LenProperties
<1> QED BY <1>1, <1>2, <1>3, <1>4, <1>5

\* Completing an entry and taking its slot commute.
LEMMA DoneSlot ==
    ASSUME NEW e \in Dispatched
    PROVE  Slot([e EXCEPT !.done = TRUE]) = [Slot(e) EXCEPT !.done = TRUE]
<1> DEFINE d == [e EXCEPT !.done = TRUE]
           x == Slot(d)
           y == [Slot(e) EXCEPT !.done = TRUE]
<1>1. d \in Dispatched /\ d.spec = e.spec /\ d.recover = e.recover /\ d.done = TRUE
  BY DEF Dispatched
<1>2. Slot(e) \in Win!Entry /\ Slot(e).spec = e.spec /\ Slot(e).recover = e.recover
  BY DEF Slot, Win!Entry, Dispatched
<1> HIDE DEF d
<1>3. x \in Win!Entry /\ x.spec = d.spec /\ x.recover = d.recover /\ x.done = d.done
  BY <1>1 DEF Slot, Win!Entry, Dispatched
<1>4. y \in Win!Entry /\ y.spec = Slot(e).spec /\ y.recover = Slot(e).recover /\ y.done = TRUE
  BY <1>2 DEF Win!Entry
<1> HIDE DEF x, y
<1>5. x = y
  BY <1>1, <1>2, <1>3, <1>4 DEF Win!Entry
<1> QED BY <1>5 DEF x, y, d

LEMMA DispatchEnters ==
    ASSUME FlightInv, ruu_dispatch
    PROVE  \E m \in BOOLEAN : Win!Enter(m)
<1> DEFINE f == Head(ifq)
<1>1. PICK next \in Destinations(f.b) :
        LET mispredict == f.pred # next /\ ~Misfetched(f) /\ ~spec_mode
            e == [b |-> f.b, upd |-> f.upd, pred |-> f.pred, idx |-> f.idx, next |-> next,
                  spec |-> spec_mode, recover |-> mispredict, done |-> FALSE]
        IN ruu' = Append(ruu, e) /\ spec_mode' = (spec_mode \/ mispredict)
  BY DEF ruu_dispatch, Mispredicted
<1> DEFINE m == f.pred # next /\ ~Misfetched(f) /\ ~spec_mode
           e == [b |-> f.b, upd |-> f.upd, pred |-> f.pred, idx |-> f.idx, next |-> next,
                 spec |-> spec_mode, recover |-> m, done |-> FALSE]
<1>2. /\ ruu' = Append(ruu, e) /\ spec_mode' = (spec_mode \/ m)
      /\ m \in BOOLEAN /\ (m => ~spec_mode)
      /\ Slot(e) = [spec |-> spec_mode, recover |-> m, done |-> FALSE]
  BY <1>1 DEF Slot
<1>3. e \in Dispatched
  <2>1. ifq # << >>
    BY DEF ruu_dispatch
  <2>2. f \in Fetched
    BY <2>1, PartsOfInv, HeadTailProperties
  <2>3. next \in Nat /\ spec_mode \in BOOLEAN
    BY <2>2, DestinationsTyped DEF Fetched, FlightInv, FlightTypeOK
  <2> QED BY <1>2, <2>2, <2>3 DEF Fetched, Dispatched
<1> HIDE DEF e, m
<1>4. /\ ruu' \in Seq(Dispatched) /\ Len(ruu') = Len(ruu) + 1 /\ Len(ruu) \in Nat
      /\ \A i \in 1..Len(ruu) : ruu'[i] = ruu[i]
      /\ ruu'[Len(ruu) + 1] = e
  BY <1>2, <1>3, PartsOfInv, AppendProperties
<1>5. Slot(e) \in Win!Entry
  BY <1>3 DEF Slot, Win!Entry, Dispatched
<1> DEFINE old == Slots(ruu)
           new == Slots(ruu')
           app == Append(old, Slot(e))
<1>6. /\ old \in Seq(Win!Entry) /\ Len(old) = Len(ruu)
      /\ \A i \in 1..Len(ruu) : old[i] = Slot(ruu[i])
      /\ new \in Seq(Win!Entry) /\ Len(new) = Len(ruu')
      /\ \A i \in 1..Len(ruu') : new[i] = Slot(ruu'[i])
  BY <1>4, SlotsTyped, PartsOfInv
<1> HIDE DEF old, new
<1>7. /\ app \in Seq(Win!Entry) /\ Len(app) = Len(old) + 1
      /\ \A i \in 1..Len(old) : app[i] = old[i]
      /\ app[Len(old) + 1] = Slot(e)
  BY <1>5, <1>6, AppendProperties
<1> HIDE DEF app
<1>8. \A i \in 1..Len(new) : new[i] = app[i]
  BY <1>4, <1>6, <1>7
<1>9. new = app
  <2>1. Len(new) = Len(app)
    BY <1>4, <1>6, <1>7
  <2> QED BY <1>6, <1>7, <1>8, <2>1, SeqEqual
<1>10. Len(old) < RuuSize
  BY <1>6 DEF ruu_dispatch
<1> QED BY <1>2, <1>9, <1>10 DEF Win!Enter, old, new, app

LEMMA WritebackCompletes ==
    ASSUME NEW i \in DOMAIN ruu, FlightInv, ruu_writeback(i)
    PROVE  i \in DOMAIN Slots(ruu) /\ Win!Complete(i)
<1> DEFINE old == Slots(ruu)
           new == Slots(ruu')
           kept == IF old[i].recover THEN SubSeq(old, 1, i) ELSE old
           written == [kept EXCEPT ![i] = [old[i] EXCEPT !.done = TRUE]]
<1>1. /\ i \in 1..Len(ruu) /\ ruu[i] \in Dispatched /\ Len(ruu) \in Nat
      /\ Len(Kept(i)) = IF ruu[i].recover THEN i ELSE Len(ruu)
  BY KeptTyped, PartsOfInv
<1>2. /\ ruu' \in Seq(Dispatched) /\ Len(ruu') = Len(Kept(i))
      /\ \A j \in 1..Len(ruu') :
            ruu'[j] = IF j = i THEN [ruu[i] EXCEPT !.done = TRUE] ELSE ruu[j]
  BY WrittenBack
<1>3. /\ old \in Seq(Win!Entry) /\ Len(old) = Len(ruu) /\ DOMAIN old = 1..Len(ruu)
      /\ \A j \in 1..Len(ruu) : old[j] = Slot(ruu[j]) /\ old[j] \in Win!Entry
      /\ new \in Seq(Win!Entry) /\ Len(new) = Len(ruu')
      /\ \A j \in 1..Len(ruu') : new[j] = Slot(ruu'[j])
  BY <1>2, SlotsTyped, PartsOfInv
<1> HIDE DEF old, new
<1>4. old[i].recover = ruu[i].recover /\ old[i].done = ruu[i].done
  BY <1>1, <1>3 DEF Slot
<1>5. /\ kept \in Seq(Win!Entry) /\ Len(kept) = Len(ruu') /\ i \in 1..Len(kept)
      /\ \A j \in 1..Len(kept) : kept[j] = old[j]
  <2>1. CASE old[i].recover
    <3>1. \A j \in 1..i : old[j] \in Win!Entry
      BY <1>1, <1>3
    <3>2. /\ SubSeq(old, 1, i) \in Seq(Win!Entry) /\ Len(SubSeq(old, 1, i)) = i
          /\ \A j \in 1..i : SubSeq(old, 1, i)[j] = old[j]
      BY <1>1, <3>1, SubSeqProperties
    <3> QED BY <1>1, <1>2, <1>4, <2>1, <3>2
  <2>2. CASE ~old[i].recover
    BY <1>1, <1>2, <1>3, <1>4, <2>2
  <2> QED BY <2>1, <2>2
<1>6. [old[i] EXCEPT !.done = TRUE] \in Win!Entry
  BY <1>1, <1>3 DEF Win!Entry
<1>7. [kept EXCEPT ![i].done = TRUE] = written
  BY <1>5
<1> HIDE DEF kept
<1>8. /\ written \in Seq(Win!Entry) /\ Len(written) = Len(kept)
      /\ \A j \in 1..Len(kept) : written[j] = IF j = i THEN [old[i] EXCEPT !.done = TRUE] ELSE kept[j]
  BY <1>5, <1>6, ExceptSeq
<1>9. Slot([ruu[i] EXCEPT !.done = TRUE]) = [old[i] EXCEPT !.done = TRUE]
  <2>1. old[i] = Slot(ruu[i])
    BY <1>1, <1>3
  <2> QED BY <1>1, <2>1, DoneSlot
<1> HIDE DEF written
<1>10. \A j \in 1..Len(new) : new[j] = written[j]
  <2> SUFFICES ASSUME NEW j \in 1..Len(new) PROVE new[j] = written[j]
    OBVIOUS
  <2>1. j \in 1..Len(ruu') /\ j \in 1..Len(kept) /\ j \in 1..Len(ruu)
    BY <1>1, <1>2, <1>3, <1>5
  <2>2. CASE j = i
    BY <1>2, <1>3, <1>8, <1>9, <2>1, <2>2
  <2>3. CASE j # i
    BY <1>2, <1>3, <1>5, <1>8, <2>1, <2>3
  <2> QED BY <2>2, <2>3
<1>11. new = written
  <2>1. Len(new) = Len(written)
    BY <1>3, <1>5, <1>8
  <2> QED BY <1>3, <1>8, <1>10, <2>1, SeqEqual
<1>12. ~ruu[i].done /\ spec_mode' = (spec_mode /\ ~ruu[i].recover)
  BY DEF ruu_writeback
<1>13. Slots(ruu)' = Slots(ruu')
  BY DEF Slots
<1> QED BY <1>1, <1>3, <1>4, <1>7, <1>11, <1>12, <1>13 DEF Win!Complete, old, new, kept

LEMMA CommitLeaves ==
    ASSUME FlightInv, ruu_commit
    PROVE  Win!Leave
<1> DEFINE old == Slots(ruu)
           new == Slots(ruu')
<1>1. ruu # << >> /\ Head(ruu).done /\ ruu' = Tail(ruu) /\ spec_mode' = spec_mode
  BY DEF ruu_commit, MayCommit
<1>2. /\ ruu' \in Seq(Dispatched) /\ Len(ruu') = Len(ruu) - 1 /\ Len(ruu) \in Nat \ {0}
      /\ \A j \in 1..Len(ruu') : ruu'[j] = ruu[j + 1]
      /\ Head(ruu) = ruu[1]
  BY <1>1, PartsOfInv, HeadTailProperties, EmptySeq
<1>3. /\ old \in Seq(Win!Entry) /\ Len(old) = Len(ruu)
      /\ \A j \in 1..Len(ruu) : old[j] = Slot(ruu[j])
      /\ new \in Seq(Win!Entry) /\ Len(new) = Len(ruu')
      /\ \A j \in 1..Len(ruu') : new[j] = Slot(ruu'[j])
  BY <1>2, SlotsTyped, PartsOfInv
<1> HIDE DEF old, new
<1>4. old # << >> /\ Head(old) = old[1]
  BY <1>2, <1>3, EmptySeq
<1>5. Head(old).done
  <2>1. 1 \in 1..Len(ruu) /\ ruu[1].done
    BY <1>1, <1>2
  <2>2. old[1] = Slot(ruu[1])
    BY <1>3, <2>1
  <2> QED BY <1>4, <2>1, <2>2 DEF Slot
<1>6. Tail(old) \in Seq(Win!Entry) /\ Len(Tail(old)) = Len(old) - 1
      /\ \A j \in 1..Len(Tail(old)) : Tail(old)[j] = old[j + 1]
  BY <1>3, <1>4, HeadTailProperties
<1>7. \A j \in 1..Len(new) : new[j] = Tail(old)[j]
  <2> SUFFICES ASSUME NEW j \in 1..Len(new) PROVE new[j] = Tail(old)[j]
    OBVIOUS
  <2>1. j \in 1..Len(ruu') /\ j + 1 \in 1..Len(ruu) /\ j \in 1..Len(Tail(old))
    BY <1>2, <1>3, <1>6
  <2>2. ruu'[j] = ruu[j + 1] /\ new[j] = Slot(ruu'[j]) /\ old[j + 1] = Slot(ruu[j + 1])
    BY <1>2, <1>3, <2>1
  <2>3. Tail(old)[j] = old[j + 1]
    BY <1>6, <2>1
  <2> QED BY <2>2, <2>3
<1>8. new = Tail(old)
  <2>1. Len(new) = Len(Tail(old))
    BY <1>2, <1>3, <1>6
  <2> QED BY <1>3, <1>6, <1>7, <2>1, SeqEqual
<1> QED BY <1>1, <1>4, <1>5, <1>8 DEF Win!Leave, old, new

\* The branches tracked from dispatch to commit behave as the window does, step by step.
THEOREM FlightImplementsWindow == FlightSpec => ImplementsWindow
<1>1. FlightInit => Win!WinInit
  BY DEF FlightInit, Win!WinInit, Slots
<1>2. FlightInv /\ [FlightNext]_flightVars => [Win!WinNext]_(Win!windowVars)
  <2> SUFFICES ASSUME FlightInv, [FlightNext]_flightVars PROVE [Win!WinNext]_(Win!windowVars)
    OBVIOUS
  <2>1. ASSUME NEW b \in Branches, ruu_fetch(b) PROVE UNCHANGED Win!windowVars
    BY <2>1 DEF ruu_fetch, Win!windowVars, Slots
  <2>2. CASE ruu_dispatch
    BY <2>2, DispatchEnters DEF Win!WinNext
  <2>3. ASSUME NEW i \in DOMAIN ruu, ruu_writeback(i) PROVE Win!WinNext
    BY <2>3, WritebackCompletes DEF Win!WinNext
  <2>4. CASE ruu_commit
    BY <2>4, CommitLeaves DEF Win!WinNext
  <2>5. CASE UNCHANGED flightVars
    BY <2>5 DEF flightVars, pipelineVars, Win!windowVars, Slots
  <2> QED BY <2>1, <2>2, <2>3, <2>4, <2>5 DEF FlightNext
<1> QED BY <1>1, <1>2, FlightInvariant, PTL DEF FlightSpec, ImplementsWindow, Win!WinSpec

Proved == INSTANCE WindowProofs WITH Size <- RuuSize, win <- Slots(ruu)

\* So they have the window's recovery point: one branch at most is to recover, and it divides
\* the right path from the wrong one.
THEOREM FlightRecovery == FlightSpec => []OneRecoveryPoint
<1>1. Proved!WinSpec => []Proved!RecoveryPoint
  BY Proved!WindowRecovery
<1>2. /\ Proved!WinInit <=> Win!WinInit
      /\ [Proved!WinNext]_(Proved!windowVars) <=> [Win!WinNext]_(Win!windowVars)
      /\ Proved!RecoveryPoint <=> Win!RecoveryPoint
  BY DEF Proved!WinInit, Win!WinInit, Proved!WinNext, Win!WinNext, Proved!windowVars, Win!windowVars,
         Proved!Enter, Win!Enter, Proved!Complete, Win!Complete, Proved!Leave, Win!Leave,
         Proved!RecoveryPoint, Win!RecoveryPoint, Proved!Pending, Win!Pending
<1> QED BY <1>1, <1>2, FlightImplementsWindow, PTL
        DEF ImplementsWindow, OneRecoveryPoint, Proved!WinSpec, Win!WinSpec

\* What the commit stage takes is never speculative.
THEOREM FlightCommitsRightPath == FlightSpec => CommitsRightPath
<1>1. FlightInv /\ OneRecoveryPoint /\ [FlightNext]_flightVars =>
        [ruu # << >> /\ ruu' = Tail(ruu) => ~Head(ruu).spec]_flightVars
  <2> SUFFICES ASSUME FlightInv, OneRecoveryPoint, ruu # << >> PROVE ~Head(ruu).spec
    OBVIOUS
  <2>1. /\ Head(ruu) = ruu[1] /\ 1 \in 1..Len(ruu) /\ Len(ruu) \in Nat
        /\ DOMAIN Slots(ruu) = 1..Len(ruu) /\ Slots(ruu)[1] = Slot(ruu[1])
    BY PartsOfInv, EmptySeq, SlotsTyped
  <2>2. ~Slots(ruu)[1].spec
    BY <2>1 DEF OneRecoveryPoint, Win!RecoveryPoint
  <2> QED BY <2>1, <2>2 DEF Slot
<1> QED BY <1>1, FlightInvariant, FlightRecovery, PTL DEF FlightSpec, CommitsRightPath

-----------------------------------------------------------------------------
(* Statistics.                                                             *)

\* A lookup that took its address from the stack was a return's.
StackOnReturns ==
    /\ \A i \in DOMAIN ifq : ifq[i].upd.ras => IsReturn(ifq[i].b)
    /\ \A i \in DOMAIN ruu : ruu[i].upd.ras => IsReturn(ruu[i].b)

\* What counting names does to each statistic.
LEMMA CountAdds ==
    ASSUME NEW names, Count(names), stats \in [StatNames -> Nat]
    PROVE  /\ ~Counting => stats' = stats
           /\ Counting => \A n \in StatNames : stats'[n] = stats[n] + (IF n \in names THEN 1 ELSE 0)
BY DEF Count

\* A lookup counts itself and what it does to the stack, and nothing the trainings count.
LEMMA LookupCounts ==
    ASSUME NEW b, Count(LookupStats(b)), stats \in [StatNames -> Nat]
    PROVE  /\ Counting => stats'["lookups"] = stats["lookups"] + 1
           /\ ~Counting => stats' = stats
           /\ \A n \in StatNames \ {"lookups", "pops", "pushes"} : stats'[n] = stats[n]
<1>1. /\ "lookups" \in LookupStats(b)
      /\ \A n \in StatNames \ {"lookups", "pops", "pushes"} : n \notin LookupStats(b)
  BY DEF LookupStats
<1>2. "lookups" \in StatNames
  BY DEF StatNames
<1> QED BY <1>1, <1>2, CountAdds

\* A training counts one direction, right or wrong, and no lookup; and the classes still add up.
LEMMA TrainingCounts ==
    ASSUME NEW e \in Dispatched, e.upd.ras => IsReturn(e.b), stats \in [StatNames -> Nat], StatsConsistent,
           Count(UpdateStats(e.b, e.upd, e.next # Fallthrough(e.b), e.pred # Fallthrough(e.b),
                             e.pred = e.next))
    PROVE  /\ StatsConsistent'
           /\ ~Counting => stats' = stats
           /\ Counting => /\ stats'["lookups"] = stats["lookups"]
                          /\ stats'["dir_hits"] + stats'["misses"] = stats["dir_hits"] + stats["misses"] + 1
<1> DEFINE names == UpdateStats(e.b, e.upd, e.next # Fallthrough(e.b), e.pred # Fallthrough(e.b),
                                e.pred = e.next)
           one(n) == IF n \in names THEN 1 ELSE 0
<1>1. /\ "lookups" \notin names
      /\ "dir_hits" \in names <=> "misses" \notin names
      /\ "addr_hits" \in names => "dir_hits" \in names
      /\ "ras_hits" \in names => "used_ras" \in names
      /\ "jr_seen" \in names <=> IsIndir(e.b)
      /\ "jr_non_ras_seen" \in names <=> IsIndir(e.b) /\ ~e.upd.ras
      /\ "used_ras" \in names <=> e.upd.ras
      /\ "jr_hits" \in names <=> IsIndir(e.b) /\ e.pred = e.next
      /\ "jr_non_ras_hits" \in names <=> IsIndir(e.b) /\ ~e.upd.ras /\ e.pred = e.next
      /\ "ras_hits" \in names <=> e.upd.ras /\ e.pred = e.next
  BY DEF UpdateStats
<1>2. e.upd.ras => IsIndir(e.b)
  BY DEF IsReturn, IsIndir
<1> HIDE DEF names
<1>3. /\ one("addr_hits") <= one("dir_hits") /\ one("ras_hits") <= one("used_ras")
      /\ one("jr_seen") = one("jr_non_ras_seen") + one("used_ras")
      /\ one("jr_hits") = one("jr_non_ras_hits") + one("ras_hits")
      /\ one("dir_hits") + one("misses") = 1 /\ one("lookups") = 0
  BY <1>1, <1>2
<1>4. \A n \in StatNames : one(n) \in Nat /\ stats[n] \in Nat
  OBVIOUS
<1>5. Counting => \A n \in StatNames : stats'[n] = stats[n] + one(n)
  BY CountAdds DEF names
<1>6. ~Counting => stats' = stats
  BY CountAdds
<1> HIDE DEF one
<1>7. {"lookups", "addr_hits", "dir_hits", "misses", "used_ras", "ras_hits", "jr_seen", "jr_hits",
       "jr_non_ras_seen", "jr_non_ras_hits"} \subseteq StatNames
  BY DEF StatNames
<1>8. CASE Counting
  <2>1. StatsConsistent'
    BY <1>3, <1>4, <1>5, <1>7, <1>8 DEF StatsConsistent
  <2>2. /\ stats'["lookups"] = stats["lookups"]
        /\ stats'["dir_hits"] + stats'["misses"] = stats["dir_hits"] + stats["misses"] + 1
    BY <1>3, <1>4, <1>5, <1>7, <1>8
  <2> QED BY <1>8, <2>1, <2>2
<1>9. CASE ~Counting
  BY <1>6, <1>9 DEF StatsConsistent
<1> QED BY <1>8, <1>9

\* Whether a branch is one of those Untrained counts.
Open(e) == CASE bpred_spec_update = "CT" -> TRUE
             [] bpred_spec_update = "WB" -> ~e.done
             [] OTHER -> e.spec

OpenAt(s) == {j \in 1..Len(s) : Open(s[j])}

LEMMA UntrainedIs ==
    ASSUME NEW s \in Seq(Dispatched)
    PROVE  Untrained(s) = Cardinality(OpenAt(s))
<1>1. DOMAIN s = 1..Len(s)
  BY LenProperties
<1> QED BY <1>1 DEF Untrained, OpenAt, Open

\* Branches of two lists are counted list by list.
LEMMA UntrainedConcat ==
    ASSUME NEW s \in Seq(Dispatched), NEW t \in Seq(Dispatched)
    PROVE  s \o t \in Seq(Dispatched) /\ Untrained(s \o t) = Untrained(s) + Untrained(t)
<1>1. /\ Len(s) \in Nat /\ Len(t) \in Nat
      /\ s \o t \in Seq(Dispatched) /\ Len(s \o t) = Len(s) + Len(t)
      /\ \A i \in 1..Len(s) + Len(t) : (s \o t)[i] = IF i <= Len(s) THEN s[i] ELSE t[i - Len(s)]
  BY ConcatProperties, LenProperties
<1>2. OpenAt(s \o t) = OpenAt(s) \cup Beyond(Len(s), OpenAt(t))
  <2>1. ASSUME NEW i \in 1..Len(s) + Len(t)
        PROVE  i \in OpenAt(s \o t) <=> i \in OpenAt(s) \/ (i > Len(s) /\ i - Len(s) \in OpenAt(t))
    BY <1>1 DEF OpenAt
  <2>2. OpenAt(s) \subseteq 1..Len(s) /\ OpenAt(t) \subseteq 1..Len(t)
        /\ OpenAt(s \o t) \subseteq 1..Len(s) + Len(t)
    BY <1>1 DEF OpenAt
  <2>3. ASSUME NEW j \in OpenAt(t) PROVE Len(s) + j \in OpenAt(s \o t)
    <3> DEFINE i == Len(s) + j
    <3>1. i \in 1..Len(s) + Len(t) /\ i > Len(s) /\ i - Len(s) = j
      BY <1>1, <2>2
    <3> HIDE DEF i
    <3>2. i \in OpenAt(s \o t)
      BY <2>1, <3>1
    <3> QED BY <3>2 DEF i
  <2>4. ASSUME NEW i \in OpenAt(s \o t), i \notin OpenAt(s) PROVE \E j \in OpenAt(t) : i = Len(s) + j
    <3>1. i \in 1..Len(s) + Len(t) /\ i - Len(s) \in OpenAt(t)
      BY <2>1, <2>2, <2>4
    <3>2. i = Len(s) + (i - Len(s))
      BY <1>1, <3>1
    <3> QED BY <3>1, <3>2
  <2>5. OpenAt(s) \subseteq OpenAt(s \o t)
    BY <1>1, <2>1, <2>2
  <2> QED BY <2>3, <2>4, <2>5 DEF Beyond
<1>3. OpenAt(s) \in SUBSET (1..Len(s)) /\ OpenAt(t) \in SUBSET (1..Len(t))
  BY DEF OpenAt
<1>4. Cardinality(OpenAt(s \o t)) = Cardinality(OpenAt(s)) + Cardinality(OpenAt(t))
  <2> DEFINE A == OpenAt(s)
             B == OpenAt(t)
             m == Len(s)
             n == Len(t)
  <2>1. Parts(m, n, A, B)
    BY <1>1, <1>3 DEF Parts
  <2>2. OpenAt(s \o t) = A \cup Beyond(m, B)
    BY <1>2
  <2> HIDE DEF A, B, m, n
  <2>3. Cardinality(A \cup Beyond(m, B)) = Cardinality(A) + Cardinality(B)
    BY <2>1, CountParts
  <2> QED BY <2>2, <2>3 DEF A, B
<1> QED BY <1>1, <1>4, UntrainedIs

LEMMA UntrainedOne ==
    ASSUME NEW e \in Dispatched
    PROVE  <<e>> \in Seq(Dispatched) /\ Untrained(<<e>>) = IF Open(e) THEN 1 ELSE 0
<1>1. <<e>> \in Seq(Dispatched) /\ Len(<<e>>) = 1 /\ <<e>>[1] = e
  OBVIOUS
<1>2. OpenAt(<<e>>) = IF Open(e) THEN {1} ELSE {}
  <2>1. 1..Len(<<e>>) = {1}
    BY <1>1
  <2> QED BY <1>1, <2>1 DEF OpenAt
<1>3. Cardinality({1}) = 1 /\ Cardinality({}) = 0
  BY FS_Singleton, FS_EmptySet
<1> QED BY <1>1, <1>2, <1>3, UntrainedIs

LEMMA UntrainedNone == Untrained(<< >>) = 0
<1>1. Cardinality({}) = 0 /\ DOMAIN << >> = {}
  BY FS_EmptySet
<1>2. << >> \in Seq(Dispatched) /\ Len(<< >>) = 0
  BY EmptySeq
<1>3. OpenAt(<< >>) = {}
  BY <1>2 DEF OpenAt
<1> QED BY <1>1, <1>2, <1>3, UntrainedIs

\* What the statistics and the histories say of each other after a stage that trains with e or
\* does not.
LEMMA StageCounts ==
    ASSUME NEW e \in Dispatched, NEW train \in BOOLEAN, e.upd.ras => IsReturn(e.b),
           FlightInv, StatsConsistent, LookupsAccounted,
           IF train THEN Count(UpdateStats(e.b, e.upd, e.next # Fallthrough(e.b),
                                           e.pred # Fallthrough(e.b), e.pred = e.next))
           ELSE stats' = stats,
           trained' = trained + Tally(IF train THEN 1 ELSE 0)
    PROVE  /\ StatsConsistent'
           /\ Counting => /\ stats'["lookups"] = stats["lookups"]
                          /\ stats'["dir_hits"] + stats'["misses"] = trained'
                          /\ trained' = trained + (IF train THEN 1 ELSE 0)
<1>1. stats \in [StatNames -> Nat] /\ trained \in Nat
  BY DEF FlightInv, FlightTypeOK, BpredTypeOK
<1>2. Counting => stats["dir_hits"] + stats["misses"] = trained
  BY DEF LookupsAccounted
<1>3. Counting => trained' = trained + (IF train THEN 1 ELSE 0)
  BY DEF Tally
<1>4. CASE train
  BY <1>1, <1>2, <1>3, <1>4, TrainingCounts
<1>5. CASE ~train
  BY <1>1, <1>2, <1>3, <1>5 DEF StatsConsistent
<1> QED BY <1>4, <1>5

AccountInv == FlightInv /\ StackOnReturns /\ StatsConsistent /\ LookupsAccounted

LEMMA FetchAccounts ==
    ASSUME NEW b \in Branches, AccountInv, ruu_fetch(b), UNCHANGED bpred_spec_update
    PROVE  StackOnReturns' /\ StatsConsistent' /\ LookupsAccounted'
<1> DEFINE upd == DirUpdate(b)
           p == Predicted(b, 0, upd)
           f == [b |-> b, upd |-> upd, idx |-> RecoverIdx,
                 pred |-> IF p = 0 THEN Fallthrough(b) ELSE p]
<1>1. /\ FlightInv /\ StackOnReturns /\ StatsConsistent /\ LookupsAccounted
      /\ stats \in [StatNames -> Nat] /\ BpredTypeOK
  BY DEF AccountInv, FlightInv, FlightTypeOK, BpredTypeOK
<1>2. /\ ifq' = Append(ifq, f) /\ Count(LookupStats(b))
      /\ UNCHANGED <<ruu, spec_mode, squashed, trained>>
  BY DEF ruu_fetch, bpred_lookup
<1>3. f.b = b /\ f.upd = upd
  OBVIOUS
<1>4. upd.ras => IsReturn(b)
  BY <1>1, DirUpdateTyped DEF Pops
<1>5. f \in Fetched
  <2>1. upd \in DirUpdates /\ p \in Nat
    BY <1>1, PartsOfInv, DirUpdateTyped, PredictedTyped DEF BpredInv
  <2>2. RecoverIdx \in {0} \cup RasIds /\ Fallthrough(b) \in Nat
    BY <1>1, RecoverIdxTyped, DestinationsTyped
  <2> HIDE DEF upd, p
  <2> QED BY <2>1, <2>2 DEF Fetched
<1> HIDE DEF upd, p, f
<1>6. /\ Len(ifq') = Len(ifq) + 1 /\ Len(ifq) \in Nat
      /\ DOMAIN ifq' = 1..Len(ifq) + 1 /\ DOMAIN ifq = 1..Len(ifq)
      /\ \A i \in 1..Len(ifq) : ifq'[i] = ifq[i]
      /\ ifq'[Len(ifq) + 1] = f
  <2>1. ifq' \in Seq(Fetched)
    BY <1>1, <1>2, <1>5, PartsOfInv, AppendProperties
  <2>2. DOMAIN ifq' = 1..Len(ifq')
    BY <2>1, LenProperties
  <2> QED BY <1>1, <1>2, <1>5, <2>2, PartsOfInv, AppendProperties
<1>7. StackOnReturns'
  <2>1. ASSUME NEW i \in DOMAIN ifq', ifq'[i].upd.ras PROVE IsReturn(ifq'[i].b)
    <3>1. CASE i \in 1..Len(ifq)
      BY <1>1, <1>6, <2>1, <3>1 DEF StackOnReturns
    <3>2. CASE i = Len(ifq) + 1
      BY <1>3, <1>4, <1>6, <2>1, <3>2
    <3> QED BY <1>6, <3>1, <3>2
  <2>2. \A i \in DOMAIN ruu' : ruu'[i].upd.ras => IsReturn(ruu'[i].b)
    BY <1>1, <1>2 DEF StackOnReturns
  <2>3. \A x : IsReturn(x)' = IsReturn(x)
    BY DEF IsReturn
  <2> QED BY <2>1, <2>2 DEF StackOnReturns
<1>8. StatsConsistent'
  <2>1. \A n \in StatNames \ {"lookups", "pops", "pushes"} : stats'[n] = stats[n]
    BY <1>1, <1>2, LookupCounts
  <2>2. {"addr_hits", "dir_hits", "used_ras", "ras_hits", "jr_seen", "jr_hits",
         "jr_non_ras_seen", "jr_non_ras_hits"} \subseteq StatNames \ {"lookups", "pops", "pushes"}
    BY DEF StatNames
  <2> QED BY <1>1, <2>1, <2>2 DEF StatsConsistent
<1>9. LookupsAccounted'
  <2> SUFFICES ASSUME Counting PROVE LookupsAccounted'
    BY DEF LookupsAccounted
  <2>1. stats'["lookups"] = stats["lookups"] + 1
        /\ stats'["dir_hits"] = stats["dir_hits"] /\ stats'["misses"] = stats["misses"]
    BY <1>1, <1>2, LookupCounts DEF StatNames
  <2>2. Untrained(ruu)' = Untrained(ruu) /\ Untrained(ruu) \in Nat
    BY <1>1, <1>2, PartsOfInv, UntrainedTyped DEF Untrained
  <2>3. squashed \in Nat /\ trained \in Nat
    BY <1>1 DEF FlightInv, FlightTypeOK
  <2> QED BY <1>1, <1>2, <1>6, <2>1, <2>2, <2>3 DEF LookupsAccounted
<1> QED BY <1>7, <1>8, <1>9

LEMMA DispatchAccounts ==
    ASSUME AccountInv, ruu_dispatch, UNCHANGED bpred_spec_update
    PROVE  StackOnReturns' /\ StatsConsistent' /\ LookupsAccounted'
<1> DEFINE f == Head(ifq)
           redirect == Misfetched(f)
           train == TrainsAtDispatch
<1>1. FlightInv /\ StackOnReturns /\ StatsConsistent /\ LookupsAccounted
  BY DEF AccountInv
<1>2. PICK next \in Destinations(f.b) :
        LET e == [b |-> f.b, upd |-> f.upd, pred |-> f.pred, idx |-> f.idx, next |-> next,
                  spec |-> spec_mode, recover |-> Mispredicted(f, next), done |-> FALSE]
        IN /\ ruu' = Append(ruu, e)
           /\ ifq' = IF redirect THEN << >> ELSE Tail(ifq)
           /\ squashed' = squashed + Tally(IF redirect THEN Len(ifq) - 1 ELSE 0)
           /\ trained' = trained + Tally(IF train THEN 1 ELSE 0)
           /\ IF train THEN Update(e) ELSE UNCHANGED bpredVars
  BY DEF ruu_dispatch
<1> DEFINE e == [b |-> f.b, upd |-> f.upd, pred |-> f.pred, idx |-> f.idx, next |-> next,
                 spec |-> spec_mode, recover |-> Mispredicted(f, next), done |-> FALSE]
<1>3. ifq # << >> /\ f \in Fetched /\ f = ifq[1] /\ 1 \in DOMAIN ifq
  BY <1>1, PartsOfInv, HeadTailProperties, EmptySeq DEF ruu_dispatch
<1>4. e \in Dispatched
  <2>1. next \in Nat /\ spec_mode \in BOOLEAN /\ Mispredicted(f, next) \in BOOLEAN
    BY <1>1, <1>3, DestinationsTyped DEF Fetched, FlightInv, FlightTypeOK, Mispredicted
  <2> QED BY <1>3, <2>1 DEF Fetched, Dispatched
<1>5. e.upd.ras => IsReturn(e.b)
  BY <1>1, <1>3 DEF StackOnReturns
<1>6. /\ train \in BOOLEAN
      /\ IF train THEN Count(UpdateStats(e.b, e.upd, e.next # Fallthrough(e.b),
                                         e.pred # Fallthrough(e.b), e.pred = e.next))
         ELSE stats' = stats
  BY <1>2 DEF Update, bpred_update, bpredVars, TrainsAtDispatch
<1>7. /\ StatsConsistent'
      /\ Counting => /\ stats'["lookups"] = stats["lookups"]
                     /\ stats'["dir_hits"] + stats'["misses"] = trained'
                     /\ trained' = trained + (IF train THEN 1 ELSE 0)
  <2> HIDE DEF e, train
  <2> QED BY <1>1, <1>2, <1>4, <1>5, <1>6, StageCounts DEF train
<1>8. Open(e) = ~train
  BY <1>1, FlightAssumption DEF Open, TrainsAtDispatch, FlightInv, FlightTypeOK
<1>9. ruu' = Append(ruu, e) /\ ifq' = (IF redirect THEN << >> ELSE Tail(ifq))
      /\ squashed' = squashed + Tally(IF redirect THEN Len(ifq) - 1 ELSE 0)
  BY <1>2
<1> HIDE DEF e, train, redirect
<1>10. StackOnReturns'
  <2>1. /\ ruu' \in Seq(Dispatched) /\ DOMAIN ruu' = 1..Len(ruu) + 1 /\ DOMAIN ruu = 1..Len(ruu)
        /\ \A i \in 1..Len(ruu) : ruu'[i] = ruu[i]
        /\ ruu'[Len(ruu) + 1] = e /\ Len(ruu) \in Nat
    BY <1>1, <1>4, <1>9, PartsOfInv, AppendProperties, LenProperties
  <2>2. \A i \in DOMAIN ruu' : ruu'[i].upd.ras => IsReturn(ruu'[i].b)
    BY <1>1, <1>5, <2>1 DEF StackOnReturns
  <2>3. \A i \in DOMAIN ifq' : ifq'[i].upd.ras => IsReturn(ifq'[i].b)
    <3>1. CASE redirect
      BY <1>9, <3>1
    <3>2. CASE ~redirect
      <4>1. /\ DOMAIN ifq' = 1..Len(ifq) - 1 /\ DOMAIN ifq = 1..Len(ifq) /\ Len(ifq) \in Nat
            /\ \A i \in 1..Len(ifq) - 1 : ifq'[i] = ifq[i + 1]
        BY <1>1, <1>3, <1>9, <3>2, PartsOfInv, HeadTailProperties, LenProperties
      <4> QED BY <1>1, <4>1 DEF StackOnReturns
    <3> QED BY <3>1, <3>2
  <2> QED BY <2>2, <2>3 DEF StackOnReturns
<1>11. LookupsAccounted'
  <2> SUFFICES ASSUME Counting PROVE LookupsAccounted'
    BY DEF LookupsAccounted
  <2>1. Untrained(ruu') = Untrained(ruu) + (IF Open(e) THEN 1 ELSE 0) /\ Untrained(ruu) \in Nat
    <3>1. ruu' = ruu \o <<e>>
      BY <1>1, <1>4, <1>9, PartsOfInv, AppendIsConcat
    <3> QED BY <1>1, <1>4, <3>1, PartsOfInv, UntrainedConcat, UntrainedOne, UntrainedTyped
  <2>2. squashed' + Len(ifq') = squashed + Len(ifq) - 1 /\ squashed' \in Nat
    <3>1. squashed \in Nat /\ Len(ifq) \in Nat \ {0}
      BY <1>1, <1>3, PartsOfInv, EmptySeq DEF FlightInv, FlightTypeOK
    <3>2. CASE redirect
      BY <1>9, <3>1, <3>2 DEF Tally
    <3>3. CASE ~redirect
      <4>1. Len(Tail(ifq)) = Len(ifq) - 1
        BY <1>1, <1>3, PartsOfInv, HeadTailProperties
      <4> QED BY <1>9, <3>1, <3>3, <4>1 DEF Tally
    <3> QED BY <3>2, <3>3
  <2>3. trained \in Nat /\ stats["lookups"] = trained + squashed + Len(ifq) + Untrained(ruu)
        /\ squashed \in Nat /\ Len(ifq) \in Nat /\ Len(ifq') \in Nat
    <3>1. Len(ifq') \in Nat
      <4>1. Tail(ifq) \in Seq(Fetched)
        BY <1>1, <1>3, PartsOfInv, HeadTailProperties
      <4> QED BY <1>9, <4>1, LenProperties, EmptySeq
    <3> QED BY <1>1, <3>1, PartsOfInv DEF FlightInv, FlightTypeOK, LookupsAccounted
  <2> DEFINE u == Untrained(ruu)
             v == Untrained(ruu')
             w == IF train THEN 1 ELSE 0
  <2>4. v + w = u + 1 /\ v \in Nat /\ u \in Nat /\ w \in {0, 1}
    <3>1. CASE train
      <4>1. v = u + 0 /\ w = 1 /\ u \in Nat
        BY <1>8, <2>1, <3>1
      <4> HIDE DEF u, v, w
      <4> QED BY <4>1
    <3>2. CASE ~train
      <4>1. v = u + 1 /\ w = 0 /\ u \in Nat
        BY <1>8, <2>1, <3>2
      <4> HIDE DEF u, v, w
      <4> QED BY <4>1
    <3> QED BY <1>6, <3>1, <3>2
  <2>5. trained' = trained + w /\ stats'["lookups"] = stats["lookups"]
    BY <1>7
  <2>6. stats["lookups"] = trained + squashed + Len(ifq) + u
    BY <2>3
  <2> HIDE DEF u, v, w
  <2>7. stats'["lookups"] = trained' + squashed' + Len(ifq') + v
    <3> DEFINE s == squashed
               s1 == squashed'
               q == Len(ifq)
               q1 == Len(ifq')
               t == trained
               t1 == trained'
               l == stats["lookups"]
               l1 == stats'["lookups"]
    <3>1. /\ s \in Nat /\ q \in Nat /\ q1 \in Nat /\ t \in Nat /\ s1 \in Nat
          /\ v \in Nat /\ u \in Nat /\ w \in Nat
      BY <2>2, <2>3, <2>4
    <3>2. s1 + q1 = s + q - 1 /\ v + w = u + 1 /\ t1 = t + w /\ l1 = l /\ l = t + s + q + u
      BY <2>2, <2>4, <2>5, <2>6
    <3> HIDE DEF s, s1, q, q1, t, t1, l, l1
    <3>3. l1 = t1 + s1 + q1 + v
      BY <3>1, <3>2
    <3> QED BY <3>3 DEF s1, q1, t1, l1
  <2>8. Untrained(ruu)' = v
    BY DEF Untrained, v
  <2> QED BY <1>7, <2>7, <2>8 DEF LookupsAccounted
<1> QED BY <1>7, <1>10, <1>11

\* Completing branch i leaves the others counted, and the squashed ones are counted apart.
LEMMA WritebackCounts ==
    ASSUME NEW i \in DOMAIN ruu, FlightInv, ruu_writeback(i), UNCHANGED bpred_spec_update
    PROVE  /\ Untrained(ruu) \in Nat /\ Untrained(Lost(i)) \in Nat /\ Untrained(ruu') \in Nat
           /\ Untrained(ruu) = Untrained(ruu') + Untrained(Lost(i))
                               + (IF bpred_spec_update = "WB" THEN 1 ELSE 0)
<1> DEFINE done == [ruu[i] EXCEPT !.done = TRUE]
           k == Len(Kept(i))
           before == SubSeq(ruu, 1, i - 1)
           after == SubSeq(ruu, i + 1, k)
<1>1. /\ i \in 1..Len(ruu) /\ ruu[i] \in Dispatched /\ Len(ruu) \in Nat /\ ruu \in Seq(Dispatched)
      /\ Kept(i) \in Seq(Dispatched) /\ Lost(i) \in Seq(Dispatched)
      /\ k = (IF ruu[i].recover THEN i ELSE Len(ruu)) /\ i \in 1..k /\ k <= Len(ruu)
  BY KeptTyped, PartsOfInv
<1>2. /\ ruu' \in Seq(Dispatched) /\ Len(ruu') = k
      /\ \A j \in 1..k : ruu'[j] = IF j = i THEN done ELSE ruu[j]
  BY WrittenBack
<1>3. done \in Dispatched /\ done.spec = ruu[i].spec /\ done.done = TRUE
  BY <1>1 DEF Dispatched
<1>4. ~ruu[i].done
  BY DEF ruu_writeback
<1>5. Lost(i) = SubSeq(ruu, k + 1, Len(ruu))
  BY <1>1, SubSeqEmpty DEF Lost
<1> HIDE DEF done, k
<1>6. k \in Nat
  BY <1>1
<1>7. \A j \in 1..Len(ruu) : ruu[j] \in Dispatched
  BY <1>1, ElementOfSeq
<1>8. /\ before \in Seq(Dispatched) /\ Len(before) = i - 1
      /\ \A j \in 1..i - 1 : before[j] = ruu[j]
  <2>1. \A j \in 1..i - 1 : ruu[j] \in Dispatched
    BY <1>1, <1>7
  <2> QED BY <1>1, <2>1, SubSeqProperties
<1>9. /\ after \in Seq(Dispatched) /\ Len(after) = k - i
      /\ \A j \in 1..k - i : after[j] = ruu[i + j]
  <2>1. \A j \in i + 1..k : ruu[j] \in Dispatched
    BY <1>1, <1>6, <1>7
  <2> QED BY <1>1, <1>6, <2>1, SubSeqProperties
<1> HIDE DEF before, after
<1>10. ASSUME NEW x \in Dispatched
       PROVE  /\ (before \o <<x>>) \o after \in Seq(Dispatched)
              /\ Len((before \o <<x>>) \o after) = k
              /\ \A j \in 1..k : ((before \o <<x>>) \o after)[j] = IF j = i THEN x ELSE ruu[j]
              /\ Untrained((before \o <<x>>) \o after) =
                    Untrained(before) + (IF Open(x) THEN 1 ELSE 0) + Untrained(after)
  <2> DEFINE one == <<x>>
             left == before \o one
  <2>1. one \in Seq(Dispatched) /\ Len(one) = 1 /\ one[1] = x /\ Untrained(one) = IF Open(x) THEN 1 ELSE 0
    BY UntrainedOne
  <2> HIDE DEF one
  <2>2. /\ left \in Seq(Dispatched) /\ Len(left) = Len(before) + Len(one)
        /\ \A j \in 1..Len(before) + Len(one) :
              left[j] = IF j <= Len(before) THEN before[j] ELSE one[j - Len(before)]
    BY <1>8, <2>1, ConcatProperties
  <2>3. Untrained(left) = Untrained(before) + Untrained(one)
    BY <1>8, <2>1, UntrainedConcat
  <2> HIDE DEF left
  <2>4. i \in Nat /\ i >= 1 /\ i <= k /\ k <= Len(ruu) /\ i - 1 + 1 = i
    BY <1>1, <1>6
  <2>5. Len(left) = i /\ \A j \in 1..i : left[j] = IF j = i THEN x ELSE ruu[j]
    <3>1. Len(left) = i
      BY <1>8, <2>1, <2>2, <2>4
    <3>2. ASSUME NEW j \in 1..i, j # i PROVE left[j] = ruu[j]
      BY <1>8, <2>1, <2>2, <2>4, <3>2
    <3>3. left[i] = x
      BY <1>8, <2>1, <2>2, <2>4
    <3> QED BY <3>1, <3>2, <3>3
  <2>6. /\ left \o after \in Seq(Dispatched) /\ Len(left \o after) = Len(left) + Len(after)
        /\ \A j \in 1..Len(left) + Len(after) :
              (left \o after)[j] = IF j <= Len(left) THEN left[j] ELSE after[j - Len(left)]
    BY <1>9, <2>2, ConcatProperties
  <2>7. Untrained(left \o after) = Untrained(left) + Untrained(after)
    BY <1>9, <2>2, UntrainedConcat
  <2> DEFINE all == left \o after
  <2>8. /\ Len(all) = Len(left) + Len(after)
        /\ \A j \in 1..Len(left) + Len(after) :
              all[j] = IF j <= Len(left) THEN left[j] ELSE after[j - Len(left)]
    BY <2>6
  <2> HIDE DEF all
  <2>9. Len(all) = k /\ \A j \in 1..k : all[j] = IF j = i THEN x ELSE ruu[j]
    <3>1. Len(all) = k
      BY <1>6, <1>9, <2>4, <2>5, <2>8
    <3>2. ASSUME NEW j \in 1..i PROVE all[j] = IF j = i THEN x ELSE ruu[j]
      <4>1. j \in 1..Len(left) + Len(after) /\ j <= Len(left)
        BY <1>6, <1>9, <2>4, <2>5
      <4>2. all[j] = left[j]
        BY <2>8, <4>1
      <4> QED BY <2>5, <4>2
    <3>3. ASSUME NEW j \in i + 1..k PROVE all[j] = ruu[j]
      <4>1. j - i \in 1..k - i /\ i + (j - i) = j /\ j \in 1..k /\ ~(j <= i)
        BY <1>6, <2>4
      <4>2. j \in 1..Len(left) + Len(after) /\ ~(j <= Len(left)) /\ j - Len(left) = j - i
        BY <1>6, <1>9, <2>4, <2>5, <4>1
      <4>3. all[j] = after[j - i]
        BY <2>8, <4>2
      <4> QED BY <1>9, <4>1, <4>3
    <3> QED BY <1>6, <2>4, <3>1, <3>2, <3>3
  <2> QED BY <2>1, <2>3, <2>6, <2>7, <2>9 DEF all, left, one
<1>11. ruu' = (before \o <<done>>) \o after
  <2> DEFINE new == (before \o <<done>>) \o after
  <2>1. new \in Seq(Dispatched) /\ Len(new) = k /\ \A j \in 1..k : new[j] = IF j = i THEN done ELSE ruu[j]
    BY <1>3, <1>10
  <2> HIDE DEF new
  <2>2. ruu' \in Seq(Dispatched) /\ Len(ruu') = Len(new) /\ \A j \in 1..Len(ruu') : ruu'[j] = new[j]
    BY <1>2, <2>1
  <2>3. ruu' = new
    BY <2>1, <2>2, SeqEqual
  <2> QED BY <2>3 DEF new
<1>12. SubSeq(ruu, 1, k) = (before \o <<ruu[i]>>) \o after
  <2>1. /\ SubSeq(ruu, 1, k) \in Seq(Dispatched) /\ Len(SubSeq(ruu, 1, k)) = k
        /\ \A j \in 1..k : SubSeq(ruu, 1, k)[j] = ruu[j]
    <3>1. \A j \in 1..k : ruu[j] \in Dispatched
      BY <1>1, <1>6, <1>7
    <3> QED BY <1>1, <1>6, <3>1, SubSeqProperties
  <2> DEFINE new == (before \o <<ruu[i]>>) \o after
             old == SubSeq(ruu, 1, k)
  <2>2. new \in Seq(Dispatched) /\ Len(new) = k /\ \A j \in 1..k : new[j] = IF j = i THEN ruu[i] ELSE ruu[j]
    BY <1>1, <1>10
  <2>3. old \in Seq(Dispatched) /\ Len(old) = k /\ \A j \in 1..k : old[j] = ruu[j]
    BY <2>1
  <2> HIDE DEF new, old
  <2>4. Len(old) = Len(new) /\ \A j \in 1..Len(old) : old[j] = new[j]
    BY <2>2, <2>3
  <2>5. old = new
    BY <2>2, <2>3, <2>4, SeqEqual
  <2> QED BY <2>5 DEF new, old
<1>13. ruu = SubSeq(ruu, 1, k) \o Lost(i)
  <2>1. 1 \in 1..Len(ruu) + 1 /\ k \in 1 - 1..Len(ruu) /\ Len(ruu) \in k..Len(ruu)
    BY <1>1, <1>6
  <2>2. SubSeq(ruu, 1, k) \o SubSeq(ruu, k + 1, Len(ruu)) = SubSeq(ruu, 1, Len(ruu))
    BY <1>1, <2>1, ConcatAdjacentSubSeq
  <2> QED BY <1>1, <1>5, <2>2, SubSeqFull
<1>14. SubSeq(ruu, 1, k) \in Seq(Dispatched)
  BY <1>1, <1>10, <1>12
<1>15. Untrained(ruu) = Untrained(SubSeq(ruu, 1, k)) + Untrained(Lost(i))
  BY <1>1, <1>13, <1>14, UntrainedConcat
<1>16. /\ Untrained(SubSeq(ruu, 1, k)) = Untrained(before) + (IF Open(ruu[i]) THEN 1 ELSE 0) + Untrained(after)
       /\ Untrained(ruu') = Untrained(before) + (IF Open(done) THEN 1 ELSE 0) + Untrained(after)
  BY <1>1, <1>3, <1>10, <1>11, <1>12
<1>17. /\ bpred_spec_update = "WB" => Open(ruu[i]) /\ ~Open(done)
       /\ bpred_spec_update # "WB" => Open(ruu[i]) = Open(done)
  BY <1>1, <1>3, <1>4 DEF Open, Dispatched
<1>18. /\ Untrained(before) \in Nat /\ Untrained(after) \in Nat /\ Untrained(Lost(i)) \in Nat
       /\ Untrained(ruu) \in Nat /\ Untrained(ruu') \in Nat
  BY <1>1, <1>2, <1>8, <1>9, UntrainedTyped
<1>19. CASE bpred_spec_update = "WB"
  BY <1>15, <1>16, <1>17, <1>18, <1>19
<1>20. CASE bpred_spec_update # "WB"
  BY <1>15, <1>16, <1>17, <1>18, <1>20
<1> QED BY <1>19, <1>20

LEMMA WritebackAccounts ==
    ASSUME NEW i \in DOMAIN ruu, AccountInv, ruu_writeback(i), UNCHANGED bpred_spec_update
    PROVE  StackOnReturns' /\ StatsConsistent' /\ LookupsAccounted'
<1> DEFINE e == ruu[i]
           train == TrainsAtWriteback
<1>1. FlightInv /\ StackOnReturns /\ StatsConsistent /\ LookupsAccounted
  BY DEF AccountInv
<1>2. e \in Dispatched /\ (e.upd.ras => IsReturn(e.b)) /\ e.recover \in BOOLEAN
  BY <1>1, KeptTyped DEF StackOnReturns, Dispatched
<1>3. /\ ifq' = (IF e.recover THEN << >> ELSE ifq)
      /\ squashed' = squashed + Tally(IF e.recover THEN Len(ifq) + Untrained(Lost(i)) ELSE 0)
      /\ trained' = trained + Tally(IF train THEN 1 ELSE 0)
      /\ IF train THEN Count(UpdateStats(e.b, e.upd, e.next # Fallthrough(e.b),
                                         e.pred # Fallthrough(e.b), e.pred = e.next))
         ELSE stats' = stats
  BY DEF ruu_writeback
<1>4. train \in BOOLEAN /\ (train <=> bpred_spec_update = "WB")
  BY DEF TrainsAtWriteback
<1> HIDE DEF e, train
<1>5. /\ StatsConsistent'
      /\ Counting => /\ stats'["lookups"] = stats["lookups"]
                     /\ stats'["dir_hits"] + stats'["misses"] = trained'
                     /\ trained' = trained + (IF train THEN 1 ELSE 0)
  BY <1>1, <1>2, <1>3, <1>4, StageCounts
<1>6. StackOnReturns'
  <2>1. /\ DOMAIN ruu' = 1..Len(ruu') /\ Len(ruu') = Len(Kept(i)) /\ Len(Kept(i)) <= Len(ruu)
        /\ \A j \in 1..Len(ruu') : ruu'[j] = IF j = i THEN [ruu[i] EXCEPT !.done = TRUE] ELSE ruu[j]
        /\ DOMAIN ruu = 1..Len(ruu) /\ Len(ruu) \in Nat /\ Len(ruu') \in Nat
    BY <1>1, WrittenBack, KeptTyped, PartsOfInv, LenProperties
  <2>2. [ruu[i] EXCEPT !.done = TRUE].upd = ruu[i].upd /\ [ruu[i] EXCEPT !.done = TRUE].b = ruu[i].b
    BY <1>2 DEF Dispatched, e
  <2>3. \A j \in DOMAIN ruu' : ruu'[j].upd.ras => IsReturn(ruu'[j].b)
    <3> SUFFICES ASSUME NEW j \in DOMAIN ruu' PROVE ruu'[j].upd.ras => IsReturn(ruu'[j].b)
      OBVIOUS
    <3>1. j \in 1..Len(ruu')
      BY <2>1
    <3>2. j \in DOMAIN ruu
      BY <2>1, <3>1
    <3>3. ruu'[j].upd = ruu[j].upd /\ ruu'[j].b = ruu[j].b
      <4>1. CASE j = i
        BY <2>1, <2>2, <3>1, <4>1
      <4>2. CASE j # i
        BY <2>1, <3>1, <4>2
      <4> QED BY <4>1, <4>2
    <3> QED BY <1>1, <3>2, <3>3 DEF StackOnReturns
  <2>4. \A j \in DOMAIN ifq' : ifq'[j].upd.ras => IsReturn(ifq'[j].b)
    BY <1>1, <1>3 DEF StackOnReturns
  <2> QED BY <2>3, <2>4 DEF StackOnReturns
<1>7. LookupsAccounted'
  <2> SUFFICES ASSUME Counting PROVE LookupsAccounted'
    BY DEF LookupsAccounted
  <2> DEFINE w == IF train THEN 1 ELSE 0
             l == Untrained(Lost(i))
             u == Untrained(ruu)
             v == Untrained(ruu')
  <2>1. Untrained(ruu)' = v
    BY DEF Untrained
  <2>2. u \in Nat /\ l \in Nat /\ v \in Nat /\ u = v + l + w
    BY <1>1, <1>4, WritebackCounts
  <2>3. ~e.recover => l = 0
    BY UntrainedNone DEF Lost, e
  <2>4. /\ trained \in Nat /\ squashed \in Nat /\ Len(ifq) \in Nat
        /\ stats["lookups"] = trained + squashed + Len(ifq) + u
    BY <1>1, PartsOfInv DEF FlightInv, FlightTypeOK, LookupsAccounted
  <2>5. w \in Nat /\ trained' = trained + w /\ stats'["lookups"] = stats["lookups"]
    BY <1>5
  <2> HIDE DEF w, l, u, v
  <2>6. squashed' + Len(ifq') = squashed + Len(ifq) + l /\ squashed' \in Nat /\ Len(ifq') \in Nat
    <3>1. CASE e.recover
      <4>1. squashed' = squashed + (Len(ifq) + l) /\ Len(ifq') = 0
        BY <1>3, <3>1, EmptySeq DEF Tally, l
      <4> QED BY <2>2, <2>4, <4>1
    <3>2. CASE ~e.recover
      <4>1. squashed' = squashed + 0 /\ Len(ifq') = Len(ifq)
        BY <1>3, <3>2 DEF Tally
      <4> QED BY <2>3, <2>4, <3>2, <4>1
    <3> QED BY <1>2, <3>1, <3>2
  <2>7. stats'["lookups"] = trained' + squashed' + Len(ifq') + v
    <3> DEFINE s == squashed
               s1 == squashed'
               q == Len(ifq)
               q1 == Len(ifq')
               t == trained
               t1 == trained'
               n == stats["lookups"]
               n1 == stats'["lookups"]
    <3>1. /\ s \in Nat /\ q \in Nat /\ q1 \in Nat /\ t \in Nat /\ s1 \in Nat
          /\ v \in Nat /\ u \in Nat /\ w \in Nat /\ l \in Nat
      BY <2>2, <2>4, <2>5, <2>6
    <3>2. s1 + q1 = s + q + l /\ u = v + l + w /\ t1 = t + w /\ n1 = n /\ n = t + s + q + u
      BY <2>2, <2>4, <2>5, <2>6
    <3> HIDE DEF s, s1, q, q1, t, t1, n, n1
    <3>3. n1 = t1 + s1 + q1 + v
      BY <3>1, <3>2
    <3> QED BY <3>3 DEF s1, q1, t1, n1
  <2> QED BY <1>5, <2>1, <2>7 DEF LookupsAccounted
<1> QED BY <1>5, <1>6, <1>7

LEMMA CommitAccounts ==
    ASSUME AccountInv, OneRecoveryPoint, ruu_commit, UNCHANGED bpred_spec_update
    PROVE  StackOnReturns' /\ StatsConsistent' /\ LookupsAccounted'
<1> DEFINE e == Head(ruu)
           train == TrainsAtCommit
<1>1. FlightInv /\ StackOnReturns /\ StatsConsistent /\ LookupsAccounted
  BY DEF AccountInv
<1>2. /\ ruu # << >> /\ e.done /\ ruu' = Tail(ruu)
      /\ trained' = trained + Tally(IF train THEN 1 ELSE 0)
      /\ IF train THEN Update(e) ELSE UNCHANGED bpredVars
      /\ UNCHANGED <<ifq, squashed>>
  BY DEF ruu_commit, MayCommit
<1>3. /\ e = ruu[1] /\ 1 \in 1..Len(ruu) /\ e \in Dispatched /\ Tail(ruu) \in Seq(Dispatched)
      /\ Len(Tail(ruu)) = Len(ruu) - 1 /\ Len(ruu) \in Nat \ {0} /\ DOMAIN ruu = 1..Len(ruu)
      /\ \A j \in 1..Len(Tail(ruu)) : Tail(ruu)[j] = ruu[j + 1]
      /\ DOMAIN Tail(ruu) = 1..Len(Tail(ruu))
  BY <1>1, <1>2, PartsOfInv, HeadTailProperties, EmptySeq, LenProperties
<1>4. e.upd.ras => IsReturn(e.b)
  BY <1>1, <1>3 DEF StackOnReturns
<1>5. train \in BOOLEAN /\ (train <=> bpred_spec_update = "CT")
  BY DEF TrainsAtCommit
<1>6. IF train THEN Count(UpdateStats(e.b, e.upd, e.next # Fallthrough(e.b),
                                      e.pred # Fallthrough(e.b), e.pred = e.next))
      ELSE stats' = stats
  BY <1>2, <1>5 DEF Update, bpred_update, bpredVars
<1>7. ~e.spec
  <2>1. DOMAIN Slots(ruu) = 1..Len(ruu) /\ Slots(ruu)[1] = Slot(ruu[1])
    BY <1>1, <1>3, PartsOfInv, SlotsTyped
  <2>2. ~Slots(ruu)[1].spec
    BY <1>3, <2>1 DEF OneRecoveryPoint, Win!RecoveryPoint
  <2> QED BY <1>3, <2>1, <2>2 DEF Slot
<1> HIDE DEF e, train
<1>8. /\ StatsConsistent'
      /\ Counting => /\ stats'["lookups"] = stats["lookups"]
                     /\ stats'["dir_hits"] + stats'["misses"] = trained'
                     /\ trained' = trained + (IF train THEN 1 ELSE 0)
  BY <1>1, <1>2, <1>3, <1>4, <1>5, <1>6, StageCounts
<1>9. StackOnReturns'
  <2>1. \A j \in DOMAIN ruu' : ruu'[j].upd.ras => IsReturn(ruu'[j].b)
    BY <1>1, <1>2, <1>3 DEF StackOnReturns
  <2> QED BY <1>1, <1>2, <2>1 DEF StackOnReturns
<1>10. LookupsAccounted'
  <2> SUFFICES ASSUME Counting PROVE LookupsAccounted'
    BY DEF LookupsAccounted
  <2> DEFINE w == IF train THEN 1 ELSE 0
  <2>1. Untrained(ruu)' = Untrained(ruu')
    BY DEF Untrained
  <2>2. Open(e) <=> train
    BY <1>1, <1>2, <1>5, <1>7, FlightAssumption DEF Open, FlightInv, FlightTypeOK, e
  <2>3. ruu = <<e>> \o Tail(ruu)
    <3>1. /\ <<e>> \in Seq(Dispatched) /\ Len(<<e>>) = 1 /\ <<e>>[1] = e
      BY <1>3
    <3>2. /\ <<e>> \o Tail(ruu) \in Seq(Dispatched) /\ Len(<<e>> \o Tail(ruu)) = Len(ruu)
          /\ \A j \in 1..Len(ruu) : (<<e>> \o Tail(ruu))[j] = IF j <= 1 THEN <<e>>[j] ELSE Tail(ruu)[j - 1]
      BY <1>3, <3>1, ConcatProperties
    <3>3. \A j \in 1..Len(ruu) : (<<e>> \o Tail(ruu))[j] = ruu[j]
      BY <1>3, <3>1, <3>2
    <3> QED BY <1>1, <3>2, <3>3, PartsOfInv, SeqEqual
  <2> DEFINE u == Untrained(ruu)
             v == Untrained(ruu')
  <2>4. u = w + v /\ v \in Nat
    <3>1. <<e>> \in Seq(Dispatched) /\ Untrained(<<e>>) = w
      BY <1>3, <2>2, UntrainedOne
    <3>2. Untrained(<<e>> \o Tail(ruu)) = Untrained(<<e>>) + Untrained(Tail(ruu))
      BY <1>3, <3>1, UntrainedConcat
    <3>3. Untrained(Tail(ruu)) \in Nat
      BY <1>3, UntrainedTyped
    <3>4. u = Untrained(<<e>> \o Tail(ruu)) /\ v = Untrained(Tail(ruu))
      BY <1>2, <2>3
    <3> HIDE DEF u, v, w
    <3> QED BY <3>1, <3>2, <3>3, <3>4
  <2>5. /\ trained \in Nat /\ squashed \in Nat /\ Len(ifq) \in Nat
        /\ stats["lookups"] = trained + squashed + Len(ifq) + u
    BY <1>1, PartsOfInv DEF FlightInv, FlightTypeOK, LookupsAccounted
  <2>6. w \in Nat /\ trained' = trained + w /\ stats'["lookups"] = stats["lookups"]
    BY <1>8
  <2>7. squashed' = squashed /\ Len(ifq') = Len(ifq)
    BY <1>2
  <2> HIDE DEF w, u, v
  <2>8. stats'["lookups"] = trained' + squashed' + Len(ifq') + v
    BY <2>4, <2>5, <2>6, <2>7
  <2> QED BY <1>8, <2>1, <2>8 DEF LookupsAccounted, v
<1> QED BY <1>8, <1>9, <1>10

\* The statistics, the histories and the branches in flight agree after any number of steps.
THEOREM FlightAccounts == FlightSpec => []AccountInv
<1>1. FlightInit => StackOnReturns /\ StatsConsistent /\ LookupsAccounted
  <2> SUFFICES ASSUME FlightInit PROVE StackOnReturns /\ StatsConsistent /\ LookupsAccounted
    OBVIOUS
  <2>1. /\ ifq = << >> /\ ruu = << >> /\ squashed = 0 /\ trained = 0
        /\ stats = [n \in StatNames |-> 0]
    BY DEF FlightInit, BpredInit
  <2>2. \A n \in {"lookups", "addr_hits", "dir_hits", "misses", "used_ras", "ras_hits", "jr_seen",
                  "jr_hits", "jr_non_ras_seen", "jr_non_ras_hits"} : stats[n] = 0
    BY <2>1 DEF StatNames
  <2>3. Len(ifq) = 0 /\ Untrained(ruu) = 0
    BY <2>1, UntrainedNone, EmptySeq
  <2> QED BY <2>1, <2>2, <2>3 DEF StackOnReturns, StatsConsistent, LookupsAccounted
<1>2. AccountInv /\ OneRecoveryPoint /\ FlightInv' /\ [FlightNext]_flightVars => AccountInv'
  <2> SUFFICES ASSUME AccountInv, OneRecoveryPoint, FlightInv', [FlightNext]_flightVars
               PROVE  StackOnReturns' /\ StatsConsistent' /\ LookupsAccounted'
    BY DEF AccountInv
  <2>1. CASE FlightNext
    BY <2>1, FetchAccounts, DispatchAccounts, WritebackAccounts, CommitAccounts DEF FlightNext
  <2>2. CASE UNCHANGED flightVars
    <3>1. Untrained(ruu)' = Untrained(ruu)
      BY <2>2 DEF flightVars, pipelineVars, Untrained
    <3> QED BY <2>2, <3>1 DEF flightVars, bpredVars, pipelineVars, AccountInv, StackOnReturns, StatsConsistent,
                              LookupsAccounted
  <2> QED BY <2>1, <2>2
<1> QED BY <1>1, <1>2, FlightInvariant, FlightRecovery, PTL DEF FlightSpec, AccountInv

\* Under each update policy every lookup is trained exactly once or squashed.
THEOREM FlightLookupsAccounted == FlightSpec => []LookupsAccounted
BY FlightAccounts, PTL DEF AccountInv

\* The classes the trained branches are sorted into add up, whatever changed in between.
THEOREM FlightStatsConsistent == FlightSpec => []StatsConsistent
BY FlightAccounts, PTL DEF AccountInv
=============================================================================
