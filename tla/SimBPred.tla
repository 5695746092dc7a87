------------------------------ MODULE SimBPred ------------------------------
(***************************************************************************)
(* The branch predictor driven by the in-order simulator (sim-bpred.c):    *)
(* every control instruction of the program is looked up and updated at    *)
(* once, with its outcome known.  The program is any path through Branches *)
(* in which a return goes to the address after its call.                   *)
(***************************************************************************)
EXTENDS BPred, SequencesExt

CONSTANT MaxDepth   \* bound on the program's nested calls

ASSUME DepthAssumption == MaxDepth \in Nat

VARIABLES
    frames,     \* the return addresses of the calls in progress
    intact,     \* how many of them the return-address stack still holds
    streak      \* the last branch, its outcome and how often it has repeated

programVars == <<frames, intact, streak>>
simVars == <<bpredVars, programVars>>

NoBranch == [pc |-> 0, taken |-> FALSE, len |-> 0]
StreakMax == HistBits + 2

SimInit == BpredInit /\ frames = << >> /\ intact = 0 /\ streak = NoBranch

\* Where control may go from b.
Outcomes(b) == CASE b.kind = "cond"   -> b.targets \cup {b.pc + InstSize}
                 [] b.kind = "return" -> IF frames = << >> THEN {} ELSE {Last(frames)}
                 [] OTHER             -> b.targets

\* The target known at decode, for the static predictors.
DecodedTarget(b, next) == IF b.kind = "cond" THEN CHOOSE t \in b.targets : TRUE ELSE next

Program(b, next) ==
    /\ IsCall(b) => Len(frames) < MaxDepth
    /\ frames' = IF IsCall(b) THEN Append(frames, b.pc + InstSize)
                 ELSE IF IsReturn(b) THEN Front(frames) ELSE frames
    /\ intact' = IF IsCall(b) THEN IF intact < RasSize THEN intact + 1 ELSE RasSize
                 ELSE IF IsReturn(b) /\ intact > 0 THEN intact - 1 ELSE intact
    /\ streak' = LET taken == next # b.pc + InstSize
                 IN [pc |-> b.pc, taken |-> taken,
                     len |-> IF streak.pc # b.pc \/ streak.taken # taken THEN 1
                             ELSE IF streak.len < StreakMax THEN streak.len + 1 ELSE StreakMax]

\* pred_PC: where sim_main takes the prediction to send fetch.
PredictedPC(b, next, upd) ==
    LET p == Predicted(b, DecodedTarget(b, next), upd) IN IF p = 0 THEN b.pc + InstSize ELSE p

\* One control instruction in sim_main's loop: bpred_lookup, then bpred_update.  The lookup
\* changes ras and tos alone, which the update neither reads nor writes.
ControlInst(b, next) ==
    LET upd == DirUpdate(b)
        pred_PC == PredictedPC(b, next, upd)
        taken == next # b.pc + InstSize
        pred_taken == pred_PC # b.pc + InstSize
    IN /\ Counting => stats["lookups"] < MaxLookups
       /\ Program(b, next)
       /\ PopPush(b)
       /\ Train(b, next, taken, pred_PC = next, upd)
       /\ Count(LookupStats(b) \cup UpdateStats(b, upd, taken, pred_taken, pred_PC = next))

SimNext == \E b \in Branches : \E next \in Outcomes(b) : ControlInst(b, next)

SimSpec == SimInit /\ [][SimNext]_simVars

-----------------------------------------------------------------------------
SimTypeOK ==
    /\ BpredTypeOK
    /\ frames \in Seq(Nat) /\ Len(frames) <= MaxDepth
    /\ intact \in 0..RasSize
    /\ streak \in [pc : Nat, taken : BOOLEAN, len : 0..StreakMax]

\* The return-address stack holds the return addresses of the innermost calls, as many as its
\* size and the wraps of deeper calls leave intact, so such a return is predicted right.
RasHoldsFrames ==
    Stateful =>
    /\ intact <= Len(frames)
    /\ \A k \in 0..intact - 1 : ras[(tos + RasSize - k) % RasSize] = frames[Len(frames) - k]

\* A branch that has gone one way HistBits + 2 times running is predicted that way: its
\* history is full of that outcome and its counters have crossed the threshold, in each of
\* the tables the class consults and under every second-level index.
LearnsBias ==
    \A b \in Branches :
        b.kind = "cond" /\ Stateful /\ streak.pc = b.pc /\ streak.len = StreakMax =>
            PredictsTaken(DirUpdate(b).pdir1) = streak.taken

\* After a branch was taken the BTB sends its next lookup to where it went, whether the entry was
\* there with that target, with another, or took the place of the LRU one; and it does so whatever
\* other branches do: an entry is changed only when its own branch is taken, or when it is the
\* one least recently used and gives way to a branch that was taken and has no entry.
BtbRemembersTarget ==
    [][/\ \A b \in {c \in Branches : c.pc = streak'.pc} : \A next \in Outcomes(b) :
             ControlInst(b, next) /\ Stateful /\ next # b.pc + InstSize /\ ~DirUpdate(b).ras =>
                \E w \in WayIds : /\ btb'[SetOf(b.pc)][w].addr = b.pc
                                  /\ btb'[SetOf(b.pc)][w].target = next
       /\ \A s \in Bits(SetBits) : \A w \in WayIds :
             \/ btb'[s][w].addr = btb[s][w].addr /\ btb'[s][w].target = btb[s][w].target
             \/ streak'.taken /\ btb[s][w].addr = streak'.pc
             \/ /\ streak'.taken /\ s = SetOf(streak'.pc) /\ Matches(streak'.pc) = {}
                /\ w = LruItem(btb[s]) /\ btb'[s][w].addr = streak'.pc]_simVars

-----------------------------------------------------------------------------
\* What the last instruction asked of the BTB: to enter a branch that was taken, unless it is a
\* return the stack predicts.
Asked ==
    IF Stateful /\ streak.taken /\ \A b \in Branches : b.pc = streak.pc => ~Pops(b)
    THEN <<"use", SetOf(streak.pc), streak.pc>> ELSE << >>

Lru == INSTANCE LruSets WITH Sets <- Bits(SetBits), Tags <- {b.pc : b \in Branches},
                             Capacity <- Ways, order <- [s \in Bits(SetBits) |-> Chain(btb[s])],
                             asked <- Asked

\* The BTB is the set-associative store LruSets promises: after any hits and evictions the links
\* of a set spell out the branches of it taken last, in the order in which they last came.
BtbImplementsLru == Lru!LruSpec
=============================================================================
