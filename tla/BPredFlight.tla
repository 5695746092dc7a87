----------------------------- MODULE BPredFlight -----------------------------
(***************************************************************************)
(* The branch predictor driven by the out-of-order pipeline                *)
(* (sim-outorder.c).  A branch is looked up when it is fetched, its        *)
(* outcome is known to the simulator when it is dispatched, it completes   *)
(* out of order, and it commits in order; the tables are trained at        *)
(* dispatch, at writeback or at commit.  Between, younger branches go      *)
(* through the same tables, and those fetched down a wrong path are        *)
(* squashed: at writeback of the mispredicted branch, which puts the       *)
(* return-address stack's top back, or at dispatch of a misfetched one.    *)
(*                                                                         *)
(* Only the control instructions of the pipeline are kept here; which of   *)
(* them comes next down a path is left open.                               *)
(***************************************************************************)
EXTENDS BPred, SequencesExt

CONSTANTS
    SpecUpdates,    \* the values -bpred:spec_update may have: of "ID", "WB" and "CT"
    IfqSize,        \* branches the fetch queue can hold
    RuuSize         \* branches the RUU can hold

ASSUME FlightAssumption ==
    /\ SpecUpdates \subseteq {"ID", "WB", "CT"}
    /\ {IfqSize, RuuSize} \subseteq Nat \ {0}

VARIABLES
    ifq,        \* branches fetched and not dispatched: [b, upd, pred, idx]
    ruu,        \* branches dispatched and not committed, oldest first
    bpred_spec_update,  \* where branches train the predictor: an option, never changed
    spec_mode,  \* whether dispatch goes down a mispredicted path
    path_tos,   \* history: the top of stack along the branches that are no wrong path
    squashed,   \* history: lookups whose branch was squashed untrained
    trained     \* history: lookups whose branch trained the predictor

pipelineVars == <<ifq, ruu, bpred_spec_update, spec_mode, path_tos, squashed, trained>>
flightVars == <<bpredVars, pipelineVars>>

FlightInit ==
    /\ BpredInit
    /\ ifq = << >> /\ ruu = << >> /\ spec_mode = FALSE
    /\ bpred_spec_update \in SpecUpdates
    /\ path_tos = tos /\ squashed = 0 /\ trained = 0

Fallthrough(b) == b.pc + InstSize

\* Where b may go, on any path.
Destinations(b) == b.targets \cup (IF b.kind = "cond" THEN {Fallthrough(b)} ELSE {})

IsDirect(b) == b.kind \in {"cond", "jump", "call"}
DirectTarget(b) == CHOOSE t \in b.targets : TRUE

\* The training call all three stages make.
Update(e) ==
    bpred_update(e.b, e.next, e.next # Fallthrough(e.b), e.pred # Fallthrough(e.b),
                 e.pred = e.next, e.upd)

Tally(n) == IF Counting THEN n ELSE 0

\* ruu_fetch: the lookup is made without the branch's target (sim-outorder.c:4292).
ruu_fetch(b) ==
    LET upd == DirUpdate(b)
        p == Predicted(b, 0, upd)
    IN /\ Len(ifq) < IfqSize
       /\ Counting => stats["lookups"] < MaxLookups
       /\ ifq' = Append(ifq, [b |-> b, upd |-> upd, idx |-> RecoverIdx,
                              pred |-> IF p = 0 THEN Fallthrough(b) ELSE p])
       /\ bpred_lookup(b)
       /\ UNCHANGED <<ruu, spec_mode, path_tos, squashed, trained>>

\* A direct branch predicted to go elsewhere than its target: a misfetch.
Misfetched(e) ==
    IsDirect(e.b) /\ e.pred # Fallthrough(e.b) /\ e.pred # DirectTarget(e.b)

Mispredicted(f, next) == f.pred # next /\ ~Misfetched(f) /\ ~spec_mode

\* (Fault: branches of the wrong path train the predictor.)
TrainsAtDispatchAny == bpred_spec_update = "ID"
TrainsAtDispatch == bpred_spec_update = "ID" /\ ~spec_mode

\* ruu_dispatch of the oldest fetched branch.  A misfetch empties the fetch queue at once; a
\* misprediction found on the right path starts speculation.
ruu_dispatch ==
    /\ ifq # << >> /\ Len(ruu) < RuuSize
    /\ LET f == Head(ifq)
           redirect == Misfetched(f)
       IN \E next \in Destinations(f.b) :
            LET mispredict == Mispredicted(f, next)
                e == [b |-> f.b, upd |-> f.upd, pred |-> f.pred, idx |-> f.idx, next |-> next,
                      spec |-> spec_mode, recover |-> mispredict, done |-> FALSE]
                train == TrainsAtDispatch
            IN /\ ruu' = Append(ruu, e)
               /\ ifq' = IF redirect THEN << >> ELSE Tail(ifq)
               /\ spec_mode' = (spec_mode \/ mispredict)
               /\ squashed' = squashed + Tally(IF redirect THEN Len(ifq) - 1 ELSE 0)
               /\ trained' = trained + Tally(IF train THEN 1 ELSE 0)
               /\ path_tos' = IF spec_mode THEN path_tos
                              ELSE IF Pops(f.b) THEN (path_tos + RasSize - 1) % RasSize
                              ELSE IF Pushes(f.b) THEN (path_tos + 1) % RasSize ELSE path_tos
               /\ IF train THEN Update(e) ELSE UNCHANGED bpredVars

\* ruu_writeback of branch i.  A branch that recovers squashes all the younger ones, those
\* still in the fetch queue too, and restores the top of stack; then it trains.
Untrained(s) ==
    Cardinality({j \in DOMAIN s : CASE bpred_spec_update = "CT" -> TRUE
                                     [] bpred_spec_update = "WB" -> ~s[j].done
                                     [] OTHER -> s[j].spec})

\* (Fault: one branch too many survives a recovery.)
KeptOneMore(i) ==
    IF ruu[i].recover THEN SubSeq(ruu, 1, IF i < Len(ruu) THEN i + 1 ELSE i) ELSE ruu
Kept(i) == IF ruu[i].recover THEN SubSeq(ruu, 1, i) ELSE ruu
Lost(i) == IF ruu[i].recover THEN SubSeq(ruu, i + 1, Len(ruu)) ELSE << >>

TrainsAtWriteback == bpred_spec_update = "WB"
TrainsAtCommit == bpred_spec_update = "CT"

ruu_writeback(i) ==
    LET e == ruu[i]
        kept == Kept(i)
        lost == Lost(i)
        train == TrainsAtWriteback
    IN /\ ~e.done
       /\ ruu' = [kept EXCEPT ![i].done = TRUE]
       /\ ifq' = IF e.recover THEN << >> ELSE ifq
       /\ spec_mode' = (spec_mode /\ ~e.recover)
       /\ squashed' = squashed + Tally(IF e.recover THEN Len(ifq) + Untrained(lost) ELSE 0)
       /\ trained' = trained + Tally(IF train THEN 1 ELSE 0)
       /\ tos' = IF e.recover THEN e.idx ELSE tos          \* bpred_recover
       /\ IF train THEN /\ Train(e.b, e.next, e.next # Fallthrough(e.b), e.pred = e.next, e.upd)
                        /\ Count(UpdateStats(e.b, e.upd, e.next # Fallthrough(e.b),
                                             e.pred # Fallthrough(e.b), e.pred = e.next))
                        /\ UNCHANGED ras
          ELSE UNCHANGED <<ctr, shiftregs, btb, ras, stats>>
       /\ UNCHANGED path_tos

\* ruu_commit of the oldest branch.
\* (Fault: the oldest branch commits before it is complete.)
MayCommitEarly == ruu # << >>
MayCommit == ruu # << >> /\ Head(ruu).done

ruu_commit ==
    /\ MayCommit
    /\ ruu' = Tail(ruu)
    /\ trained' = trained + Tally(IF TrainsAtCommit THEN 1 ELSE 0)
    /\ IF TrainsAtCommit THEN Update(Head(ruu)) ELSE UNCHANGED bpredVars
    /\ UNCHANGED <<ifq, spec_mode, path_tos, squashed>>

FlightNext ==
    /\ \/ \E b \in Branches : ruu_fetch(b)
       \/ ruu_dispatch
       \/ \E i \in DOMAIN ruu : ruu_writeback(i)
       \/ ruu_commit
    /\ UNCHANGED bpred_spec_update

FlightSpec == FlightInit /\ [][FlightNext]_flightVars
-----------------------------------------------------------------------------
Fetched == [b : Branches, upd : DirUpdates, pred : Nat, idx : {0} \cup RasIds]
Dispatched == [b : Branches, upd : DirUpdates, pred : Nat, idx : {0} \cup RasIds, next : Nat,
               spec : BOOLEAN, recover : BOOLEAN, done : BOOLEAN]

FlightTypeOK ==
    /\ BpredTypeOK
    /\ ifq \in Seq(Fetched) /\ Len(ifq) <= IfqSize
    /\ ruu \in Seq(Dispatched) /\ Len(ruu) <= RuuSize
    /\ bpred_spec_update \in SpecUpdates
    /\ spec_mode \in BOOLEAN
    /\ path_tos \in Int
    /\ squashed \in Nat /\ trained \in Nat

Slot(e) == [spec |-> e.spec, recover |-> e.recover, done |-> e.done]
Slots(q) == [i \in DOMAIN q |-> Slot(q[i])]
Win == INSTANCE Window WITH Size <- RuuSize, win <- Slots(ruu)

\* The branches in flight are a window of instructions that complete out of order.
ImplementsWindow == Win!WinSpec

\* While a misprediction is unresolved exactly one branch of the RUU is bound to recover from
\* it, and it divides the right path from the wrong one; otherwise all of the RUU is right.
OneRecoveryPoint == Win!RecoveryPoint

\* A branch squashed or still speculative never commits, however the completions are ordered.
CommitsRightPath ==
    [][ruu # << >> /\ ruu' = Tail(ruu) => ~Head(ruu).spec]_flightVars

\* Every lookup is trained exactly once or squashed, under each of the update policies:
\* "total number of updates" is the lookups less the squashed and those in flight.
LookupsAccounted ==
    Counting =>
        /\ stats["dir_hits"] + stats["misses"] = trained
        /\ stats["lookups"] = trained + squashed + Len(ifq) + Untrained(ruu)

\* The classes the statistics sort the trained branches into add up, although tables and stack
\* have changed between a prediction and its count: a right address is a right direction, and
\* returns by the stack are kept apart from the other JR's.
StatsConsistent ==
    /\ stats["addr_hits"] <= stats["dir_hits"]
    /\ stats["ras_hits"] <= stats["used_ras"]
    /\ stats["jr_seen"] = stats["jr_non_ras_seen"] + stats["used_ras"]
    /\ stats["jr_hits"] = stats["jr_non_ras_hits"] + stats["ras_hits"]

\* What the comments say of bpred_recover ("Non-speculative top-of-stack; used on mispredict
\* recovery", bpred.c:580): with every misprediction recovered and nothing fetched ahead, the
\* top of stack is where the calls and returns of the right path have put it.
RecoveredTosIsNonSpeculative ==
    RasSize > 0 /\ Stateful /\ ifq = << >> /\ ~spec_mode => tos = path_tos
=============================================================================
