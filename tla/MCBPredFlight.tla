---------------------------- MODULE MCBPredFlight ----------------------------
(* Programs for BPredFlight: each run takes the branches of one of them. *)
EXTENDS BPredFlight

VARIABLE program    \* the branches the simulated program has

Br(pc, kind, targets) == [pc |-> pc, kind |-> kind, targets |-> targets]

\* A call and a return, as the wrong and the right path see them.
CallReturn == {Br(8, "cond", {24}), Br(16, "icall", {40}), Br(48, "return", {24, 56})}
\* Three branches of one two-way BTB set, one of them a return and one with two targets.
Training == {Br(8, "cond", {24}), Br(24, "ijump", {8, 40}), Br(40, "return", {16, 24}), Br(32, "jump", {40})}
\* An indirect call whose target the BTB does not know the first time.
IndirectCall == {Br(8, "icall", {40, 48})}

AllBranches == CallReturn \cup Training
Programs == {s \in {CallReturn, Training, IndirectCall} : s \subseteq Branches}

MCInit == FlightInit /\ program \in Programs
MCNext ==
    /\ \/ \E b \in program : ruu_fetch(b)
       \/ ruu_dispatch
       \/ \E i \in DOMAIN ruu : ruu_writeback(i)
       \/ ruu_commit
    /\ UNCHANGED <<bpred_spec_update, program>>
MCSpec == MCInit /\ [][MCNext]_<<flightVars, program>>
=============================================================================
