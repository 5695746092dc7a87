-------------------------------- MODULE Window --------------------------------
(***************************************************************************)
(* What the out-of-order pipeline promises of the instructions in flight:  *)
(* they enter a window in program order, complete in any order, and leave  *)
(* it at its head when complete.  A mispredicted instruction starts a      *)
(* speculation, and takes all that is younger with it when it completes.   *)
(*                                                                         *)
(* The RUU with the LSQ (Ruu) and the branches the predictor is tracking   *)
(* (BPredFlight) both implement it.                                        *)
(***************************************************************************)
EXTENDS Naturals, Sequences

CONSTANT Size       \* how many instructions the window can hold

VARIABLES
    win,            \* the instructions, oldest first: [spec, recover, done]
    spec_mode       \* whether instructions come from a mispredicted path

windowVars == <<win, spec_mode>>

Entry == [spec : BOOLEAN, recover : BOOLEAN, done : BOOLEAN]

WinInit == win = << >> /\ spec_mode = FALSE

\* The next instruction of the path, mispredicted or not.
Enter(mispredict) ==
    /\ Len(win) < Size
    /\ mispredict => ~spec_mode
    /\ win' = Append(win, [spec |-> spec_mode, recover |-> mispredict, done |-> FALSE])
    /\ spec_mode' = (spec_mode \/ mispredict)

\* Instruction i completes; a mispredicted one takes the younger ones with it.
Complete(i) ==
    /\ ~win[i].done
    /\ win' = [(IF win[i].recover THEN SubSeq(win, 1, i) ELSE win) EXCEPT ![i].done = TRUE]
    /\ spec_mode' = (spec_mode /\ ~win[i].recover)

Leave ==
    /\ win # << >> /\ Head(win).done
    /\ win' = Tail(win)
    /\ UNCHANGED spec_mode

WinNext == (\E m \in BOOLEAN : Enter(m)) \/ (\E i \in DOMAIN win : Complete(i)) \/ Leave

WinSpec == WinInit /\ [][WinNext]_windowVars
-----------------------------------------------------------------------------
WinTypeOK == win \in Seq(Entry) /\ spec_mode \in BOOLEAN

Pending(i) == win[i].recover /\ ~win[i].done

\* Speculation has one recovery point, which divides the window into the right path up to it
\* and the wrong path after it; without speculation all of the window is on the right path.
RecoveryPoint ==
    IF spec_mode
    THEN \E i \in DOMAIN win : /\ Pending(i)
                               /\ \A j \in DOMAIN win : /\ Pending(j) => j = i
                                                        /\ win[j].spec <=> j > i
    ELSE \A j \in DOMAIN win : ~Pending(j) /\ ~win[j].spec

\* Nothing that is on a mispredicted path leaves the window at its head.
LeavesRightPath == [][Leave => ~Head(win).spec]_windowVars
=============================================================================
