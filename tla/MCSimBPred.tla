----------------------------- MODULE MCSimBPred -----------------------------
(* Programs for SimBPred: each run takes the branches of one of them. *)
EXTENDS SimBPred

VARIABLE program    \* the branches the simulated program has

Br(pc, kind, targets) == [pc |-> pc, kind |-> kind, targets |-> targets]

\* Five branches of one BTB set of four ways, so that one of them is always evicted.
Conflict == {Br(128 + 8 * i, "jump", {80}) : i \in 1..4} \cup {Br(168, "ijump", {56, 64})}
\* Two branches that share counters and history.
Biased == {Br(8, "cond", {32}), Br(16, "cond", {8})}
\* Calls that nest, and a return.
Nested == {Br(24, "call", {40}), Br(32, "icall", {56, 64}), Br(48, "return", {})}

Programs == {Conflict, Biased, Nested}
AllBranches == UNION Programs

MCInit == SimInit /\ program \in Programs
MCNext ==
    /\ \E b \in program : \E next \in Outcomes(b) : ControlInst(b, next)
    /\ UNCHANGED program
MCSpec == MCInit /\ [][MCNext]_<<simVars, program>>
=============================================================================
