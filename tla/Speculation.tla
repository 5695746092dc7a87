---------------------------- MODULE Speculation ----------------------------
(***************************************************************************)
(* What running down a wrong path promises: the path starts from the state *)
(* of the machine, sees its own assignments, and leaves nothing behind.    *)
(* Every change is what the instruction asked for: who implements it says  *)
(* what that was from the program, not from what became of it.  (To assign *)
(* the same values twice running is to assign them once.)                  *)
(***************************************************************************)
CONSTANTS Places, Groups, Values,   \* Groups: sets of places assigned together
          Losable                   \* those that a lossy wrong path may fail to assign

VARIABLES
    seen,       \* the value of each place on the current path
    saved,      \* on the right path
    wrong,      \* whether the current path is a wrong one
    assigned,   \* what the last instruction to assign on this path gave to its places
    lossy

specVars == <<seen, saved, wrong, assigned, lossy>>

Nothing == << >>
Assignments == UNION {[g -> Values] : g \in Groups}

SpecInit ==
    /\ wrong = FALSE /\ seen \in [Places -> Values] /\ saved = seen
    /\ assigned = Nothing /\ lossy \in BOOLEAN

Assign(v) ==
    /\ assigned' = v
    /\ seen' = [p \in Places |-> IF p \in DOMAIN v THEN v[p] ELSE seen[p]]
    /\ saved' = IF wrong THEN saved ELSE seen'
    /\ UNCHANGED <<wrong, lossy>>

Lose(v) ==
    /\ lossy /\ wrong /\ DOMAIN v \in Losable
    /\ assigned' = v
    /\ UNCHANGED <<seen, saved, wrong, lossy>>

Leave == ~wrong /\ wrong' = TRUE /\ assigned' = Nothing /\ UNCHANGED <<seen, saved, lossy>>
Return == wrong /\ wrong' = FALSE /\ assigned' = Nothing /\ seen' = saved /\ UNCHANGED <<saved, lossy>>

SpecNext == (\E v \in Assignments : Assign(v) \/ Lose(v)) \/ Leave \/ Return

SpeculationSpec == SpecInit /\ [][SpecNext]_specVars
=============================================================================
